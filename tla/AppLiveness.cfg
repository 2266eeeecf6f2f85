\* A SIGINT ends the program though builders may run for ever; without one it ends if builders do.
CONSTANTS
  paper = paper  velocity = velocity  spigot = spigot
  c1 = c1  c2 = c2  c3 = c3  c4 = c4  old = old
  b1 = b1  b2 = b2  b3 = b3  b4 = b4
  Project = {paper, velocity, spigot}
  Chain <- MCChain
  BuildsOf <- MCBuildsOf
  NoContainer = NoContainer
  ContainerId = {c1, c2}
  Leftover = {}
  Build = {b1, b2}
  WorkerCount <- OneWorker
  FaultyCalls = {"start", "wait", "delete"}
  FaultySteps = {"image", "listing"}
SPECIFICATION AppShutdownSpec
PROPERTIES SigintEnds AppEnds
