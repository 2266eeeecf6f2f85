-------------------------- MODULE PodmanEnvironment --------------------------
(***************************************************************************)
(* src/src/artifactBuilder/env/PodmanEnvironment.ts: every build runs in a *)
(* container of its own, and abortRunningBuilders deletes by force all the *)
(* containers the environment has listed.                                  *)
(*                                                                         *)
(* An element of Build is one call of runBuilderInOwnContainer.  The calls *)
(* interleave at their awaits: pc[b] names the API call that b awaits, and *)
(* podman's answer and the continuation it resumes are separate steps, so  *)
(* that an abort, or another build, may come between them.  What the       *)
(* function does between two awaits is one step.                           *)
(***************************************************************************)
EXTENDS PodmanApi

CONSTANTS
  Build,         \* the calls of runBuilderInOwnContainer
  NoContainer    \* the value of containerId before createContainer answers

ASSUME EnvAssumption == NoContainer \notin ContainerId

VARIABLES
  pc,                   \* what each call awaits, or how it ended
  promise,              \* podman's answer to the awaited call
  containerId,          \* the local variable of each call
  runningContainerIds,  \* the list the calls share
  abort,                \* progress of abortRunningBuilders
  kill                  \* the deletions abortRunningBuilders asked for, by id

envVars == <<pc, promise, containerId, runningContainerIds, abort, kill>>
vars == <<podmanVars, envVars>>

Awaited == {"createContainer", "startContainer", "waitOnContainer",
            "getContainerLogs", "deleteFailed", "deleteSucceeded"}
Ended == {"resolved", "rejected"}
Promise == {"pending", "fulfilled", "rejected", "zero", "nonzero"}

EnvTypeOK ==
  /\ PodmanTypeOK
  /\ pc \in [Build -> {"notCalled"} \cup Awaited \cup Ended]
  /\ promise \in [Build -> Promise]
  /\ containerId \in [Build -> ContainerId \cup {NoContainer}]
  /\ runningContainerIds \in Seq(ContainerId)
  /\ abort \in {"notCalled", "deleting"} \cup Ended
  /\ kill \in [ContainerId -> {"none", "pending", "fulfilled", "rejected"}]

EnvInit ==
  /\ PodmanInit
  /\ pc = [b \in Build |-> "notCalled"]
  /\ promise = [b \in Build |-> "pending"]
  /\ containerId = [b \in Build |-> NoContainer]
  /\ runningContainerIds = <<>>
  /\ abort = "notCalled"
  /\ kill = [c \in ContainerId |-> "none"]

-----------------------------------------------------------------------------
(***************************************************************************)
(* Array.prototype.indexOf and splice.  An index of -1 makes splice count  *)
(* from the end: splice(-1, 1) drops the last element.  Indices here start *)
(* at 1.  No id is listed twice, so there is no first occurrence to tell   *)
(* from others.                                                            *)
(***************************************************************************)
IndexOf(s, x) == IF \E i \in DOMAIN s : s[i] = x
                 THEN CHOOSE i \in DOMAIN s : s[i] = x
                 ELSE Len(s)
\* A wrong Splice: the second argument of splice is forgotten, so that
\* everything from the index on is dropped.
SpliceToEnd(s, i) == SubSeq(s, 1, i - 1)
Splice(s, i) == SubSeq(s, 1, i - 1) \o SubSeq(s, i + 1, Len(s))

Await(b, call) ==
  /\ pc' = [pc EXCEPT ![b] = call]
  /\ promise' = [promise EXCEPT ![b] = "pending"]

Settle(b, outcome) == Await(b, outcome)

\* Podman has answered the call b awaits.
Answered(b, call, result) == pc[b] = call /\ promise[b] = result

\* Podman answers the call b awaits.
Answers(b, call, result) ==
  /\ Answered(b, call, "pending")
  /\ promise' = [promise EXCEPT ![b] = result]
  /\ UNCHANGED <<pc, runningContainerIds, abort, kill>>

-----------------------------------------------------------------------------
(***************************************************************************)
(* runBuilderInOwnContainer.                                               *)
(***************************************************************************)
\* A wrong RunBuilderInOwnContainer: it lists the container before it has an id.
RunBuilderListedFirst(b) ==
  /\ pc[b] = "notCalled"
  /\ Await(b, "createContainer")
  /\ runningContainerIds' = Append(runningContainerIds, containerId[b])
  /\ UNCHANGED <<podmanVars, containerId, abort, kill>>

RunBuilderInOwnContainer(b) ==
  /\ pc[b] = "notCalled"
  /\ Await(b, "createContainer")
  /\ UNCHANGED <<podmanVars, containerId, runningContainerIds, abort, kill>>

PodmanCreates(b) ==
  \E c \in ContainerId, result \in {"fulfilled", "rejected"} :
    /\ Answers(b, "createContainer", result)
    /\ CreateContainer(c, result)
    /\ containerId' = IF result = "fulfilled"
                      THEN [containerId EXCEPT ![b] = c] ELSE containerId

\* A wrong AfterCreate: the id is never listed.
AfterCreateUnlisted(b) ==
  /\ \/ Answered(b, "createContainer", "fulfilled") /\ Await(b, "startContainer")
     \/ Answered(b, "createContainer", "rejected") /\ Settle(b, "rejected")
  /\ UNCHANGED <<podmanVars, containerId, runningContainerIds, abort, kill>>

\* The id is listed before the container is started.
AfterCreate(b) ==
  /\ \/ /\ Answered(b, "createContainer", "fulfilled")
        /\ runningContainerIds' = Append(runningContainerIds, containerId[b])
        /\ Await(b, "startContainer")
     \/ /\ Answered(b, "createContainer", "rejected")
        /\ Settle(b, "rejected")
        /\ UNCHANGED runningContainerIds
  /\ UNCHANGED <<podmanVars, containerId, abort, kill>>

PodmanStarts(b) ==
  \E result \in {"fulfilled", "rejected"} :
    /\ Answers(b, "startContainer", result)
    /\ StartContainer(containerId[b], result)
    /\ UNCHANGED containerId

AfterStart(b) ==
  /\ \/ Answered(b, "startContainer", "fulfilled") /\ Await(b, "waitOnContainer")
     \/ Answered(b, "startContainer", "rejected") /\ Settle(b, "rejected")
  /\ UNCHANGED <<podmanVars, containerId, runningContainerIds, abort, kill>>

PodmanWaited(b) ==
  \E result \in {"zero", "nonzero", "rejected"} :
    /\ Answers(b, "waitOnContainer", result)
    /\ WaitOnContainer(containerId[b], result)
    /\ UNCHANGED containerId

\* A wrong AfterWait: the exit code is compared with > 0, which -1 and NaN are not.
AfterWaitUnlessPositive(b) ==
  /\ \/ \E code \in {"zero", "nonzero"} :
          Answered(b, "waitOnContainer", code) /\ Await(b, "deleteSucceeded")
     \/ Answered(b, "waitOnContainer", "nonzero") /\ Await(b, "getContainerLogs")
     \/ Answered(b, "waitOnContainer", "rejected") /\ Settle(b, "rejected")
  /\ UNCHANGED <<podmanVars, containerId, runningContainerIds, abort, kill>>

AfterWait(b) ==
  /\ \/ Answered(b, "waitOnContainer", "zero") /\ Await(b, "deleteSucceeded")
     \/ Answered(b, "waitOnContainer", "nonzero") /\ Await(b, "getContainerLogs")
     \/ Answered(b, "waitOnContainer", "rejected") /\ Settle(b, "rejected")
  /\ UNCHANGED <<podmanVars, containerId, runningContainerIds, abort, kill>>

\* The logs only go into the message of the error, and an error while they are
\* fetched is caught: either way the container is deleted next.
AfterLogs(b) ==
  /\ pc[b] = "getContainerLogs"
  /\ Await(b, "deleteFailed")
  /\ UNCHANGED <<podmanVars, containerId, runningContainerIds, abort, kill>>

PodmanDeletesFailed(b) ==
  \E result \in {"fulfilled", "rejected"} :
    /\ Answers(b, "deleteFailed", result)
    /\ DeleteContainer(containerId[b], FALSE, TRUE, result)
    /\ UNCHANGED containerId

\* A wrong AfterDeleteFailed: a rejection of the deletion is lost.
AfterDeleteFailedOnlyFulfilled(b) ==
  /\ Answered(b, "deleteFailed", "fulfilled")
  /\ Settle(b, "rejected")
  /\ UNCHANGED <<podmanVars, containerId, runningContainerIds, abort, kill>>

\* A failed build throws, whatever became of the deletion; its id stays listed.
AfterDeleteFailed(b) ==
  /\ \E result \in {"fulfilled", "rejected"} : Answered(b, "deleteFailed", result)
  /\ Settle(b, "rejected")
  /\ UNCHANGED <<podmanVars, containerId, runningContainerIds, abort, kill>>

PodmanDeletesSucceeded(b) ==
  \E result \in {"fulfilled", "rejected"} :
    /\ Answers(b, "deleteSucceeded", result)
    /\ DeleteContainer(containerId[b], FALSE, FALSE, result)
    /\ UNCHANGED containerId

AfterDeleteSucceeded(b) ==
  /\ \/ /\ Answered(b, "deleteSucceeded", "fulfilled")
        /\ runningContainerIds' =
             Splice(runningContainerIds, IndexOf(runningContainerIds, containerId[b]))
        /\ Settle(b, "resolved")
     \/ /\ Answered(b, "deleteSucceeded", "rejected")
        /\ Settle(b, "rejected")
        /\ UNCHANGED runningContainerIds
  /\ UNCHANGED <<podmanVars, containerId, abort, kill>>

-----------------------------------------------------------------------------
(***************************************************************************)
(* abortRunningBuilders, which is called once: all deletions are asked for *)
(* at once, and Promise.all rejects with the first that does.  Of no       *)
(* promises it is resolved at once.                                        *)
(***************************************************************************)
AbortRunningBuilders ==
  /\ abort = "notCalled"
  /\ abort' = IF runningContainerIds = <<>> THEN "resolved" ELSE "deleting"
  /\ kill' = [c \in ContainerId |->
                IF c \in Range(runningContainerIds) THEN "pending" ELSE kill[c]]
  /\ UNCHANGED <<podmanVars, pc, promise, containerId, runningContainerIds>>

PodmanKills(c) ==
  /\ kill[c] = "pending"
  /\ \E result \in {"fulfilled", "rejected"} :
       /\ DeleteContainer(c, TRUE, TRUE, result)
       /\ kill' = [kill EXCEPT ![c] = result]
  /\ UNCHANGED <<pc, promise, containerId, runningContainerIds, abort>>

\* A wrong AbortSettles: the deletions are not awaited.
AbortSettlesAtOnce ==
  /\ abort = "deleting"
  /\ abort' = "resolved"
  /\ UNCHANGED <<podmanVars, pc, promise, containerId, runningContainerIds, kill>>

\* A wrong AbortSettles: a deletion that fails is lost.
AbortSettlesOnlyFulfilled ==
  /\ abort = "deleting"
  /\ abort' = "resolved" /\ \A c \in ContainerId : kill[c] \in {"none", "fulfilled"}
  /\ UNCHANGED <<podmanVars, pc, promise, containerId, runningContainerIds, kill>>

AbortSettles ==
  /\ abort = "deleting"
  /\ \/ abort' = "rejected" /\ \E c \in ContainerId : kill[c] = "rejected"
     \/ abort' = "resolved" /\ \A c \in ContainerId : kill[c] \in {"none", "fulfilled"}
  /\ UNCHANGED <<podmanVars, pc, promise, containerId, runningContainerIds, kill>>

-----------------------------------------------------------------------------
(***************************************************************************)
(* The environment as a whole.  Stopped containers are only pruned before  *)
(* the first build: main.ts does it before it builds the image.            *)
(***************************************************************************)
PruneContainers(result) ==
  /\ \A b \in Build : pc[b] = "notCalled"
  /\ DeleteStoppedContainers(result)
  /\ UNCHANGED envVars

Exits(c) ==
  /\ \E code \in {"zero", "nonzero"} : ContainerExits(c, code)
  /\ UNCHANGED envVars

PodmanAnswers(b) ==
  \/ PodmanCreates(b) \/ PodmanStarts(b) \/ PodmanWaited(b)
  \/ PodmanDeletesFailed(b) \/ PodmanDeletesSucceeded(b)

Continues(b) ==
  \/ AfterCreate(b) \/ AfterStart(b) \/ AfterWait(b) \/ AfterLogs(b)
  \/ AfterDeleteFailed(b) \/ AfterDeleteSucceeded(b)

EnvFinished ==
  /\ \A b \in Build : pc[b] \in Ended
  /\ abort \in Ended
  /\ UNCHANGED vars

EnvNext ==
  \/ \E result \in {"fulfilled", "rejected"} : PruneContainers(result)
  \/ \E b \in Build : RunBuilderInOwnContainer(b) \/ PodmanAnswers(b) \/ Continues(b)
  \/ \E c \in ContainerId : Exits(c) \/ PodmanKills(c)
  \/ AbortRunningBuilders
  \/ AbortSettles
  \/ EnvFinished

EnvSpec == EnvInit /\ [][EnvNext]_vars

\* Node resumes a continuation whose promise is settled; podman answers what it
\* can answer; a builder ends at some time.  The last two are assumptions: the
\* program sets no timeout on a call and none on a builder.
EnvFairness ==
  /\ \A b \in Build : WF_vars(PodmanAnswers(b)) /\ WF_vars(Continues(b))
  /\ \A c \in ContainerId : WF_vars(PodmanKills(c)) /\ WF_vars(Exits(c))
  /\ WF_vars(AbortSettles)

EnvFairSpec == EnvSpec /\ EnvFairness

-----------------------------------------------------------------------------
(***************************************************************************)
(* What the environment promises.                                          *)
(***************************************************************************)
Own == {containerId[b] : b \in Build} \ {NoContainer}
Listed == Range(runningContainerIds)

\* Whenever abortRunningBuilders may be called, it reaches every container the
\* environment has started and that still runs: the id was pushed before
\* startContainer was called and no splice of another build took it away.
StartedIsRegistered == \A c \in Own : container[c] = "running" => c \in Listed

\* A listed id only leaves the list when its container is gone: the splice of
\* one build never takes the id of another, however pushes and splices of the
\* concurrent builds interleave.
ListedUntilGone ==
  [][\A c \in Listed : c \in Listed' \/ container[c] = "removed"]_vars

\* runBuilderInOwnContainer resolves only for a builder that ended with exit
\* code 0 and whose container is gone.  A builder that abortRunningBuilders
\* killed, or whose exit code podman no longer knew, never counts as a success.
SuccessMeansExitZero ==
  \A b \in Build : pc[b] = "resolved" =>
    exitCode[containerId[b]] = "zero" /\ container[containerId[b]] = "removed"

\* Once abortRunningBuilders has resolved, every container it was asked to stop
\* is gone, the ones whose start was still in flight included.
AbortStopsRegistered ==
  abort = "resolved" => \A c \in ContainerId : kill[c] # "none" => container[c] = "removed"

\* Every call of runBuilderInOwnContainer ends, whichever API calls fail and
\* whenever an abort takes the container away.
EveryRunSettles == \A b \in Build : pc[b] = "createContainer" ~> pc[b] \in Ended

\* A call of abortRunningBuilders ends.
AbortEnds == abort = "deleting" ~> abort \in Ended
=============================================================================
