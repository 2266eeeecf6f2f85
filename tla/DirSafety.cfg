\* Three attempts one after another, each of which may fail or be killed at any step.
CONSTANTS
  p1 = p1  p2 = p2  p3 = p3  jar = jar  extra = extra
  Builder = {p1, p2, p3}
  Artifact = {jar, extra}
  NoRun = NoRun
SPECIFICATION DirSpec
SYMMETRY Symmetric
INVARIANTS DirTypeOK BuiltIsComplete PartialOnlyAfterKill LostOnlyByTry
