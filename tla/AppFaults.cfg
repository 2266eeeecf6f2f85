\* Starts, waits, the pruning and every other step may fail, and an earlier run has
\* left a container; a SIGINT at any time.
CONSTANTS
  paper = paper  velocity = velocity  spigot = spigot
  c1 = c1  c2 = c2  c3 = c3  c4 = c4  old = old
  b1 = b1  b2 = b2  b3 = b3  b4 = b4
  Project = {paper, velocity, spigot}
  Chain <- MCChain
  BuildsOf <- MCBuildsOf
  NoContainer = NoContainer
  ContainerId = {c1, c2, c3, old}
  Leftover = {old}
  Build = {b1, b2, b3}
  WorkerCount <- TwoWorkers
  FaultyCalls = {"start", "wait", "prune"}
  FaultySteps = {"image", "listing"}
SPECIFICATION AppSpec
SYMMETRY Symmetric
INVARIANT StartedIsRegistered
PROPERTY ImplementsQueue
