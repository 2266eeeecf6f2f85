------------------------------ MODULE PodmanCall ------------------------------
(***************************************************************************)
(* What a call of a method of src/src/podman/PodmanApi.ts promises, and    *)
(* all that PodmanApi.tla takes it for: podman acts on it at most once,    *)
(* and the promise is only fulfilled if it has; a rejection says nothing.  *)
(***************************************************************************)
VARIABLES
  acted,    \* whether podman has done what it was asked to
  outcome   \* of the promise

callVars == <<acted, outcome>>

Init == acted = "idle" /\ outcome = "pending"

Act ==
  /\ acted = "idle" /\ outcome = "pending"
  /\ acted' \in {"done", "refused"} /\ UNCHANGED outcome

Fulfil == outcome = "pending" /\ acted = "done" /\ outcome' = "fulfilled" /\ UNCHANGED acted
Reject == outcome = "pending" /\ outcome' = "rejected" /\ UNCHANGED acted

Spec == Init /\ [][Act \/ Fulfil \/ Reject]_callVars
=============================================================================
