--------------------------- MODULE MCKnownVersions ---------------------------
(***************************************************************************)
(* Instances of KnownVersions for TLC.                                     *)
(***************************************************************************)
EXTENDS KnownVersions

MCBrokenEntries == {<<1, 1>>}
=============================================================================
