------------------------------ MODULE BuildQueue ------------------------------
(***************************************************************************)
(* What the `app` command of src/src/main.ts promises, without containers, *)
(* promises and signals handlers: the versions of every project are listed *)
(* and built once each, no more at a time than the project has workers,    *)
(* the projects of Chain one after another; once the program is told to    *)
(* stop it begins no further build.                                        *)
(***************************************************************************)
EXTENDS Naturals, Sequences, FiniteSets

CONSTANTS
  Build,        \* the versions to build, of all projects
  Project,      \* the projects
  BuildsOf,     \* the versions of each project
  WorkerCount,  \* how many builds of a project may run at a time
  Chain         \* projects that are built one after another

VARIABLES
  listed,    \* the projects whose versions are known
  status,    \* of each build
  stopping,  \* whether the program was told to stop
  outcome    \* whether and how the program has ended

queueVars == <<listed, status, stopping, outcome>>

Over == {"succeeded", "failed", "dropped"}
Finished(p) == p \in listed /\ \A b \in BuildsOf[p] : status[b] \in Over
RunningOf(p) == {b \in BuildsOf[p] : status[b] = "running"}
Turn(p) == \A i, j \in DOMAIN Chain : i < j /\ Chain[j] = p => Finished(Chain[i])

Init ==
  /\ listed = {}
  /\ status = [b \in Build |-> "unlisted"]
  /\ stopping = FALSE
  /\ outcome = "open"

\* Versions that are in the output directory already are not built again.
List(p) ==
  /\ p \notin listed /\ Turn(p)
  /\ listed' = listed \cup {p}
  /\ \E present \in SUBSET BuildsOf[p] :
       status' = [b \in Build |-> IF b \in present THEN "dropped"
                                  ELSE IF b \in BuildsOf[p] THEN "queued" ELSE status[b]]
  /\ UNCHANGED <<stopping, outcome>>

Begin(p, b) ==
  /\ status[b] = "queued" /\ ~stopping
  /\ Cardinality(RunningOf(p)) < WorkerCount[p]
  /\ status' = [status EXCEPT ![b] = "running"]
  /\ UNCHANGED <<listed, stopping, outcome>>

Drop(b) ==
  /\ status[b] = "queued" /\ stopping
  /\ status' = [status EXCEPT ![b] = "dropped"]
  /\ UNCHANGED <<listed, stopping, outcome>>

Finish(b) ==
  /\ status[b] = "running"
  /\ \E how \in {"succeeded", "failed"} : status' = [status EXCEPT ![b] = how]
  /\ UNCHANGED <<listed, stopping, outcome>>

\* With nothing to abort the program ends at once.
Stop ==
  /\ ~stopping /\ stopping' = TRUE
  /\ outcome' \in {"open", "stopped"}
  /\ UNCHANGED <<listed, status>>

Complete ==
  /\ \A p \in Project : Finished(p)
  /\ outcome' = "completed"
  /\ UNCHANGED <<listed, status, stopping>>

\* The program ends early: it was told to stop, or a step that is not a build failed.
GiveUp == outcome' = "stopped" /\ UNCHANGED <<listed, status, stopping>>

Next ==
  /\ outcome = "open"
  /\ \/ \E p \in Project : List(p) \/ \E b \in BuildsOf[p] : Begin(p, b)
     \/ \E b \in Build : Drop(b) \/ Finish(b)
     \/ Stop \/ Complete \/ GiveUp

Spec == Init /\ [][Next]_queueVars
=============================================================================
