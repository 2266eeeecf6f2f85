----------------------------- MODULE MCBuildApp -----------------------------
(***************************************************************************)
(* Instances of BuildApp for TLC: two projects of a chain, of which the    *)
(* first has two versions and the second one, and a project of its own.    *)
(***************************************************************************)
EXTENDS BuildApp

CONSTANTS paper, velocity, spigot, c1, c2, c3, c4, old, b1, b2, b3, b4

MCChain == <<paper, velocity>>
MCBuildsOf == (paper :> ({b1, b2} \cap Build)) @@ (velocity :> ({b3} \cap Build))
              @@ (spigot :> ({b4} \cap Build))
OneWorker == (paper :> 1) @@ (velocity :> 1) @@ (spigot :> 1)
TwoWorkers == (paper :> 2) @@ (velocity :> 2) @@ (spigot :> 1)

Symmetric == Permutations({c1, c2, c3, c4} \cap ContainerId) \cup Permutations({b1, b2})
=============================================================================
