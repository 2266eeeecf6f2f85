------------------------------- MODULE BuildApp -------------------------------
(***************************************************************************)
(* The `app` command of src/src/main.ts: prune old containers, build the   *)
(* image, then for every project list the versions, skip the ones in the   *)
(* output directory and build the others, each in a container of its own   *)
(* (module PodmanEnvironment), a few at a time; and the handlers of SIGINT. *)
(*                                                                         *)
(* The process is single-threaded: a step below is what it does between    *)
(* two awaits.  Once it has exited it takes no step; podman goes on with   *)
(* the requests it was sent, and the containers with their builders.       *)
(***************************************************************************)
EXTENDS PodmanEnvironment

CONSTANTS
  Project,      \* calls of buildAllVersionsOfSomething
  BuildsOf,     \* the known versions of each project but 'latest'
  WorkerCount,  \* the workerCount of each call
  Chain,        \* the projects of the inner Async.parallelLimit([...], 1)
  FaultySteps   \* steps other than builds that may fail: "image", "listing"

ASSUME AppAssumption ==
  /\ BuildsOf \in [Project -> SUBSET Build]
  /\ \A b \in Build : \E p \in Project : b \in BuildsOf[p]
  /\ \A p, q \in Project : p # q => BuildsOf[p] \cap BuildsOf[q] = {}
  /\ WorkerCount \in [Project -> Nat \ {0}]
  /\ Chain \in Seq(Project)
  /\ \A i, j \in DOMAIN Chain : Chain[i] = Chain[j] => i = j
  /\ FaultySteps \subseteq {"image", "listing"}

VARIABLES
  proc,          \* what the process is at, or how it ended
  shuttingDown,
  project,       \* where each call of buildAllVersionsOfSomething is
  task           \* the build task of each version

appVars == <<proc, shuttingDown, project, task>>
allVars == <<vars, appVars>>

Up == {"pruning", "buildingImage", "building"}
Exited == {"allDone", "aborted", "forced", "crashed"}

AppTypeOK ==
  /\ EnvTypeOK
  /\ proc \in Up \cup Exited
  /\ shuttingDown \in BOOLEAN
  /\ project \in [Project -> {"waiting", "listing", "building", "done"}]
  /\ task \in [Build -> {"unlisted", "present", "queued", "taken", "skipped"}]

AppInit ==
  /\ EnvInit
  /\ proc = "pruning"
  /\ shuttingDown = FALSE
  /\ project = [p \in Project |-> "waiting"]
  /\ task = [b \in Build |-> "unlisted"]

-----------------------------------------------------------------------------
(***************************************************************************)
(* The main function.  Nothing catches its rejection: an error that is not *)
(* a build's ends the process and leaves the containers alone.             *)
(***************************************************************************)
PruneOldContainers ==
  /\ proc = "pruning"
  /\ \/ PruneContainers("fulfilled") /\ proc' = "buildingImage"
     \/ PruneContainers("rejected") /\ proc' = "crashed"
  /\ UNCHANGED <<shuttingDown, project, task>>

\* A wrong BuildImage: the projects of Chain are begun together.
BuildImageNoChain ==
  /\ proc = "buildingImage"
  /\ \/ proc' = "building" /\ project' = [p \in Project |-> "listing"]
     \/ "image" \in FaultySteps /\ proc' = "crashed" /\ UNCHANGED project
  /\ UNCHANGED <<vars, shuttingDown, task>>

\* The projects of Chain but the first wait for their turn.
BuildImage ==
  /\ proc = "buildingImage"
  /\ \/ /\ proc' = "building"
        /\ project' = [p \in Project |->
             IF \E i \in DOMAIN Chain : i > 1 /\ Chain[i] = p THEN "waiting" ELSE "listing"]
     \/ "image" \in FaultySteps /\ proc' = "crashed" /\ UNCHANGED project
  /\ UNCHANGED <<vars, shuttingDown, task>>

\* The versions present in the output directory get no task.
ListVersions(p) ==
  /\ proc = "building" /\ project[p] = "listing"
  /\ project' = [project EXCEPT ![p] = "building"]
  /\ \E present \in SUBSET BuildsOf[p] :
       task' = [b \in Build |-> IF b \in present THEN "present"
                                ELSE IF b \in BuildsOf[p] THEN "queued" ELSE task[b]]
  /\ UNCHANGED <<vars, proc, shuttingDown>>

ListingFails(p) ==
  /\ proc = "building" /\ project[p] = "listing" /\ "listing" \in FaultySteps
  /\ proc' = "crashed"
  /\ UNCHANGED <<vars, shuttingDown, project, task>>

\* A wrong Active: what a build throws ends its worker too.
ActiveForEver(p) == {b \in BuildsOf[p] : task[b] = "taken" /\ pc[b] # "resolved"}

\* A task is over when its build is: what the build throws is only logged.
Active(p) == {b \in BuildsOf[p] : task[b] = "taken" /\ pc[b] \notin Ended}

\* A wrong StartTask: one task more than there are workers.
StartTaskOneMore(p, b) ==
  /\ proc = "building" /\ task[b] = "queued"
  /\ Cardinality(Active(p)) <= WorkerCount[p]
  /\ \/ /\ ~shuttingDown
        /\ task' = [task EXCEPT ![b] = "taken"]
        /\ RunBuilderInOwnContainer(b)
     \/ /\ shuttingDown
        /\ task' = [task EXCEPT ![b] = "skipped"]
        /\ UNCHANGED vars
  /\ UNCHANGED <<proc, shuttingDown, project>>

\* A wrong StartTask: the task does not look at shuttingDown.
StartTaskAlways(p, b) ==
  /\ proc = "building" /\ task[b] = "queued"
  /\ Cardinality(Active(p)) < WorkerCount[p]
  /\ task' = [task EXCEPT ![b] = "taken"]
  /\ RunBuilderInOwnContainer(b)
  /\ UNCHANGED <<proc, shuttingDown, project>>

StartTask(p, b) ==
  /\ proc = "building" /\ task[b] = "queued"
  /\ Cardinality(Active(p)) < WorkerCount[p]
  /\ \/ /\ ~shuttingDown
        /\ task' = [task EXCEPT ![b] = "taken"]
        /\ RunBuilderInOwnContainer(b)
     \/ /\ shuttingDown
        /\ task' = [task EXCEPT ![b] = "skipped"]
        /\ UNCHANGED vars
  /\ UNCHANGED <<proc, shuttingDown, project>>

\* parallelLimit is done with all tasks: the next project of Chain has its turn.
ProjectDone(p) ==
  /\ proc = "building" /\ project[p] = "building"
  /\ Active(p) = {} /\ \A b \in BuildsOf[p] : task[b] # "queued"
  /\ project' = [q \in Project |->
       IF q = p THEN "done"
       ELSE IF \E i \in 2 .. Len(Chain) : Chain[i - 1] = p /\ Chain[i] = q
       THEN "listing" ELSE project[q]]
  /\ UNCHANGED <<vars, proc, shuttingDown, task>>

\* A wrong AllDone: the workers of the last builds are not awaited.
AllDoneEarly ==
  /\ proc = "building"
  /\ \A p \in Project : project[p] \in {"building", "done"}
  /\ \A b \in Build : task[b] # "queued"
  /\ proc' = "allDone"
  /\ UNCHANGED <<vars, shuttingDown, project, task>>

AllDone ==
  /\ proc = "building" /\ \A p \in Project : project[p] = "done"
  /\ proc' = "allDone"
  /\ UNCHANGED <<vars, shuttingDown, project, task>>

-----------------------------------------------------------------------------
(***************************************************************************)
(* SIGINT.  With nothing to abort the process exits in the same turn.      *)
(***************************************************************************)
Sigint ==
  /\ proc \in Up /\ ~shuttingDown
  /\ shuttingDown' = TRUE
  /\ AbortRunningBuilders
  /\ proc' = IF abort' = "resolved" THEN "aborted" ELSE proc
  /\ UNCHANGED <<project, task>>

\* A wrong AbortExit: a failed deletion is not caught and nothing exits.
AbortExitIfResolved ==
  /\ proc \in Up
  /\ AbortSettles
  /\ proc' = IF abort' = "resolved" THEN "aborted" ELSE proc
  /\ UNCHANGED <<shuttingDown, project, task>>

AbortExit ==
  /\ proc \in Up
  /\ AbortSettles
  /\ proc' = "aborted"
  /\ UNCHANGED <<shuttingDown, project, task>>

SecondSigint ==
  /\ proc \in Up /\ shuttingDown
  /\ proc' = "forced"
  /\ UNCHANGED <<vars, shuttingDown, project, task>>

-----------------------------------------------------------------------------
Continue(b) == proc \in Up /\ Continues(b) /\ UNCHANGED appVars

Podman ==
  /\ \/ \E b \in Build : PodmanAnswers(b)
     \/ \E c \in ContainerId : PodmanKills(c) \/ Exits(c)
  /\ UNCHANGED appVars

AppExited == proc \in Exited /\ UNCHANGED allVars

AppNext ==
  \/ PruneOldContainers \/ BuildImage \/ AllDone
  \/ \E p \in Project :
       \/ ListVersions(p) \/ ListingFails(p) \/ ProjectDone(p)
       \/ \E b \in BuildsOf[p] : StartTask(p, b)
  \/ Sigint \/ AbortExit \/ SecondSigint
  \/ \E b \in Build : Continue(b)
  \/ Podman
  \/ AppExited

AppSpec == AppInit /\ [][AppNext]_allVars

-----------------------------------------------------------------------------
(***************************************************************************)
(* Fairness.  Podman deletes by force what it is asked to, and node runs   *)
(* the continuation: that alone must end a program that got a SIGINT.  For *)
(* the rest of the program every step is taken in the end, and every       *)
(* builder exits, which the code assumes: it sets no timeout.  Nobody has  *)
(* to send a SIGINT.                                                       *)
(***************************************************************************)
ShutdownFairness ==
  /\ WF_allVars(AbortExit)
  /\ \A c \in ContainerId : WF_allVars(PodmanKills(c) /\ UNCHANGED appVars)

AppFairness ==
  /\ ShutdownFairness
  /\ WF_allVars(PruneOldContainers) /\ WF_allVars(BuildImage) /\ WF_allVars(AllDone)
  /\ \A p \in Project :
       /\ WF_allVars(ListVersions(p)) /\ WF_allVars(ProjectDone(p))
       /\ \A b \in BuildsOf[p] : WF_allVars(StartTask(p, b))
  /\ \A b \in Build :
       WF_allVars(Continue(b)) /\ WF_allVars(PodmanAnswers(b) /\ UNCHANGED appVars)
  /\ \A c \in ContainerId : WF_allVars(Exits(c) /\ UNCHANGED appVars)

AppShutdownSpec == AppSpec /\ ShutdownFairness

-----------------------------------------------------------------------------
(***************************************************************************)
(* What the application promises.                                          *)
(***************************************************************************)
RunningOf(p) == {b \in BuildsOf[p] : containerId[b] # NoContainer
                                      /\ container[containerId[b]] = "running"}

\* However builds fail and are killed, no project ever has more builders
\* running than it was given workers, unless podman fails to start a container
\* or to wait for one: then runBuilderInOwnContainer throws and frees the
\* worker while the builder may run on.
WorkerLimit ==
  FaultyCalls \cap {"start", "wait"} = {} =>
    \A p \in Project : Cardinality(RunningOf(p)) <= WorkerCount[p]

\* Two projects of the inner parallelLimit(..., 1) never have a builder running
\* at the same time, under the same condition.
ChainIsSequential ==
  FaultyCalls \cap {"start", "wait"} = {} =>
    \A i, j \in DOMAIN Chain :
      RunningOf(Chain[i]) # {} /\ RunningOf(Chain[j]) # {} => i = j

\* 'All done' is only said when no builder runs any more and, where no deletion
\* and no creation failed, no container of this run is left; a SIGINT that
\* races the end of the last build changes nothing about it.
AllDoneLeavesNothing ==
  proc = "allDone" =>
    /\ FaultyCalls \cap {"start", "wait"} = {} =>
         \A p \in Project : RunningOf(p) = {}
    /\ FaultyCalls = {} =>
         \A c \in ContainerId \ Leftover : container[c] \in {"unused", "removed"}

\* A SIGINT exits only when everything that was listed is gone.  Among it are
\* ids of builds that failed, which stay listed for ever, and of builds that end
\* meanwhile: that podman no longer knows them counts as done, or Promise.all
\* would reject at once and the exit cut the other deletions off.
ShutdownRemovesListed ==
  "delete" \notin FaultyCalls /\ proc = "aborted" =>
    \A c \in ContainerId : kill[c] # "none" => container[c] = "removed"

\* When SIGINT has made the program exit by itself, no builder of it is left
\* running.  main.ts:48 says that it aborts the running builders.
AbortLeavesNoneRunning ==
  proc = "aborted" => \A p \in Project : RunningOf(p) = {}

\* The application implements the build queue: every version is built at most
\* once, never more at a time than there are workers and never out of turn, no
\* build begins after the first SIGINT, and 'All done' means all of them.
Queue == INSTANCE BuildQueue WITH
  listed <- {p \in Project : project[p] \in {"building", "done"}},
  status <- [b \in Build |->
    CASE task[b] = "unlisted" -> "unlisted"
      [] task[b] = "queued" -> "queued"
      [] task[b] \in {"present", "skipped"} -> "dropped"
      [] task[b] = "taken" -> CASE pc[b] = "resolved" -> "succeeded"
                                [] pc[b] = "rejected" -> "failed"
                                [] OTHER -> "running"],
  stopping <- shuttingDown,
  outcome <- CASE proc \in Up -> "open" [] proc = "allDone" -> "completed"
               [] OTHER -> "stopped"

ImplementsQueue == Queue!Spec

\* A first SIGINT ends the program, even if no builder ever exits by itself and
\* whichever deletion fails.
SigintEnds == shuttingDown ~> proc \in Exited

\* The program ends by itself, whichever builds and API calls fail, if every
\* step of it is taken in the end and every builder exits.
AppEnds == AppFairness => <>(proc \in Exited)
=============================================================================
