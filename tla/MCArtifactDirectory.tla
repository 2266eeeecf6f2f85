------------------------- MODULE MCArtifactDirectory -------------------------
(***************************************************************************)
(* Instances of ArtifactDirectory for TLC.                                 *)
(***************************************************************************)
EXTENDS ArtifactDirectory, TLC

CONSTANTS p1, p2, p3, jar, extra

Symmetric == Permutations({p1, p2, p3} \cap Builder)
=============================================================================
