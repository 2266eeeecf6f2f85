\* Every API call may fail; an abort at any time.  No symmetry: liveness.
CONSTANTS
  c1 = c1  c2 = c2  b1 = b1  b2 = b2
  ContainerId = {c1, c2}
  Leftover = {}
  FaultyCalls = {"create", "start", "wait", "delete", "prune"}
  Build = {b1, b2}
  NoContainer = NoContainer
SPECIFICATION EnvFairSpec
INVARIANTS EnvTypeOK StartedIsRegistered SuccessMeansExitZero AbortStopsRegistered
PROPERTIES ListedUntilGone EveryRunSettles AbortEnds
