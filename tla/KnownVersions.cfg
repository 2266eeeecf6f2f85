\* Two versions of up to two builds; the second version is broken, and an entry of the first.
CONSTANTS
  MaxVersion = 2
  MaxBuild = 2
  BrokenVersions = {2}
  BrokenEntries <- MCBrokenEntries
SPECIFICATION ListSpec
INVARIANTS ListTypeOK NothingMissed OnlyBuildable
