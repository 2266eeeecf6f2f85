\* No API call fails; a SIGINT while createContainer is awaited.
CONSTANTS
  paper = paper  velocity = velocity  spigot = spigot
  c1 = c1  c2 = c2  c3 = c3  c4 = c4  old = old
  b1 = b1  b2 = b2  b3 = b3  b4 = b4
  Project = {paper, velocity, spigot}
  Chain <- MCChain
  BuildsOf <- MCBuildsOf
  NoContainer = NoContainer
  ContainerId = {c1, c2}
  Leftover = {}
  Build = {b1, b4}
  WorkerCount <- OneWorker
  FaultyCalls = {}
  FaultySteps = {}
SPECIFICATION AppSpec
INVARIANT AbortLeavesNoneRunning
