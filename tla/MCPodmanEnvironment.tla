------------------------- MODULE MCPodmanEnvironment -------------------------
(***************************************************************************)
(* An instance of PodmanEnvironment for TLC: two builds and two ids.       *)
(***************************************************************************)
EXTENDS PodmanEnvironment

CONSTANTS c1, c2, b1, b2
=============================================================================
