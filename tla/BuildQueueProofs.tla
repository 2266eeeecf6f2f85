--------------------------- MODULE BuildQueueProofs ---------------------------
(***************************************************************************)
(* The program keeps to its workers and to its chain, leaves nothing       *)
(* behind when it says 'All done', and implements the build queue, for any *)
(* number of projects, versions and workers and any calls that fail.       *)
(***************************************************************************)
EXTENDS BuildAppProofs, FiniteSetTheorems

-----------------------------------------------------------------------------
(***************************************************************************)
(* What a call of runBuilderInOwnContainer that ended leaves behind.       *)
(***************************************************************************)
\* The builder of the call has ended, or never began to run.
After(b) ==
  \/ Answered(b, "startContainer", "rejected")
  \/ pc[b] = "waitOnContainer" /\ promise[b] # "pending"
  \/ pc[b] \in {"getContainerLogs", "deleteFailed", "deleteSucceeded"} \cup Ended

\* No answer the call may still get changes anything about its container.
Final(b) ==
  \/ Answered(b, "startContainer", "rejected") \/ Answered(b, "waitOnContainer", "rejected")
  \/ pc[b] \in {"deleteFailed", "deleteSucceeded"} /\ promise[b] # "pending"
  \/ pc[b] \in Ended

NotRunningInv ==
  FaultyCalls \cap {"start", "wait"} = {} =>
    \A b \in Build : HasId(b) /\ After(b) => container[containerId[b]] \in {"exited", "removed"}

GoneInv ==
  FaultyCalls = {} =>
    /\ \A b \in Build : ~ Answered(b, "createContainer", "rejected")
    /\ \A b \in Build : Final(b) => HasId(b) /\ container[containerId[b]] = "removed"
    /\ \A c \in ContainerId \ Leftover : container[c] \notin {"unused", "removed"} => c \in Own

\* A container that has ended never runs again, and one that is gone stays gone.
LEMMA EndIsFinal ==
  ASSUME EnvTypeOK, [EnvNext]_vars, NEW c \in ContainerId
  PROVE  /\ container[c] = "removed" => container'[c] = "removed"
         /\ container[c] \in {"exited", "removed"} => container'[c] \in {"exited", "removed"}
<1> USE DEF EnvTypeOK, PodmanTypeOK, Becomes, podmanVars, envVars
<1>1. ASSUME NEW result \in {"fulfilled", "rejected"}, PruneContainers(result)
      PROVE  container[c] \in {"exited", "removed"} =>
               container'[c] \in {container[c], "removed"}
  BY <1>1 DEF PruneContainers, DeleteStoppedContainers
<1>2. ASSUME NEW b \in Build, PodmanAnswers(b)
      PROVE  container[c] \in {"exited", "removed"} =>
               container'[c] \in {container[c], "removed"}
  BY <1>2 DEF PodmanAnswers, PodmanCreates, CreateContainer, PodmanStarts, StartContainer,
     PodmanWaited, WaitOnContainer, PodmanDeletesFailed, PodmanDeletesSucceeded, DeleteContainer
<1>3. ASSUME NEW b \in Build, Continues(b) \/ RunBuilderInOwnContainer(b)
      PROVE  container' = container
  BY <1>3 DEF Continues, AfterCreate, AfterStart, AfterWait, AfterLogs, AfterDeleteFailed,
     AfterDeleteSucceeded, RunBuilderInOwnContainer
<1>4. ASSUME NEW d \in ContainerId, Exits(d) \/ PodmanKills(d)
      PROVE  container[c] \in {"exited", "removed"} =>
               container'[c] \in {container[c], "removed"}
  BY <1>4 DEF Exits, ContainerExits, PodmanKills, DeleteContainer
<1>5. CASE AbortRunningBuilders \/ AbortSettles \/ EnvFinished \/ UNCHANGED vars
  BY <1>5 DEF AbortRunningBuilders, AbortSettles, EnvFinished, vars
<1> QED BY <1>1, <1>2, <1>3, <1>4, <1>5 DEF EnvNext

\* What a step changes of one call is its pc, its promise, or its id, once.
LEMMA OneCallSteps ==
  ASSUME EnvInv, [EnvNext]_vars, NEW b \in Build
  PROVE  \/ UNCHANGED <<pc[b], promise[b], containerId[b]>>
         \/ RunBuilderInOwnContainer(b) \/ PodmanAnswers(b) \/ Continues(b)
<1> USE DEF EnvInv, EnvTypeOK, Await, Settle, Answers, envVars
<1>1. ASSUME NEW a \in Build \ {b},
             RunBuilderInOwnContainer(a) \/ PodmanAnswers(a) \/ Continues(a)
      PROVE  UNCHANGED <<pc[b], promise[b], containerId[b]>>
  <2>1. CASE RunBuilderInOwnContainer(a)
    BY <2>1 DEF RunBuilderInOwnContainer
  <2>2. CASE PodmanAnswers(a)
    BY <2>2 DEF PodmanAnswers, PodmanCreates, PodmanStarts, PodmanWaited, PodmanDeletesFailed,
       PodmanDeletesSucceeded
  <2>3. CASE Continues(a)
    BY <2>3 DEF Continues, AfterCreate, AfterStart, AfterWait, AfterLogs, AfterDeleteFailed,
       AfterDeleteSucceeded
  <2> QED BY <1>1, <2>1, <2>2, <2>3
<1>2. ASSUME NEW result \in {"fulfilled", "rejected"}, PruneContainers(result)
      PROVE  UNCHANGED <<pc, promise, containerId>>
  BY <1>2 DEF PruneContainers
<1>3. ASSUME NEW c \in ContainerId, Exits(c) \/ PodmanKills(c)
      PROVE  UNCHANGED <<pc, promise, containerId>>
  BY <1>3 DEF Exits, PodmanKills
<1>4. CASE AbortRunningBuilders \/ AbortSettles \/ EnvFinished \/ UNCHANGED vars
  BY <1>4 DEF AbortRunningBuilders, AbortSettles, EnvFinished, vars
<1> QED BY <1>1, <1>2, <1>3, <1>4 DEF EnvNext

\* The builder of a call that is past it does not run, however the step.
LEMMA NotRunningStep == EnvInv /\ NotRunningInv /\ [EnvNext]_vars => NotRunningInv'
<1> SUFFICES ASSUME EnvInv, NotRunningInv, [EnvNext]_vars,
                    FaultyCalls \cap {"start", "wait"} = {},
                    NEW b \in Build, HasId(b)', After(b)'
             PROVE  container'[containerId'[b]] \in {"exited", "removed"}
  BY DEF NotRunningInv
<1> USE DEF EnvInv, EnvTypeOK, Await, Settle, Answers, Answered
<1>0. EnvInv'
  BY InvStep
<1>1. CASE HasId(b) /\ After(b) /\ containerId'[b] = containerId[b]
  <2>1. containerId[b] \in ContainerId /\ container[containerId[b]] \in {"exited", "removed"}
    BY <1>1 DEF NotRunningInv, HasId
  <2> QED BY <1>1, <2>1, EndIsFinal
<1>2. CASE UNCHANGED <<pc[b], promise[b], containerId[b]>>
  BY <1>1, <1>2 DEF HasId, After
<1>3. CASE RunBuilderInOwnContainer(b) \/ PodmanCreates(b)
  BY <1>3 DEF RunBuilderInOwnContainer, PodmanCreates, After, Ended
<1>4. CASE PodmanStarts(b)
  <2>1. containerId'[b] \in ContainerId /\ UNCHANGED containerId /\ promise'[b] = "rejected"
    BY <1>0, <1>4 DEF PodmanStarts, After, Ended, HasId
  <2> QED BY <1>4, <2>1 DEF PodmanStarts, StartContainer
<1>5. CASE PodmanWaited(b)
  BY <1>5 DEF PodmanWaited, WaitOnContainer, podmanVars
<1>6. CASE PodmanDeletesFailed(b) \/ PodmanDeletesSucceeded(b)
  <2>1. After(b) /\ HasId(b) /\ UNCHANGED containerId
    BY <1>6 DEF PodmanDeletesFailed, PodmanDeletesSucceeded, After, IdsInv, Awaited
  <2> QED BY <1>1, <2>1
<1>7. CASE Continues(b)
  <2>1. containerId' = containerId /\ HasId(b)
    BY <1>7 DEF Continues, AfterCreate, AfterStart, AfterWait, AfterLogs, AfterDeleteFailed,
       AfterDeleteSucceeded, HasId
  <2>2. After(b)
    BY <1>7, <2>1 DEF Continues, AfterCreate, AfterStart, AfterWait, AfterLogs,
       AfterDeleteFailed, AfterDeleteSucceeded, After, Ended, IdsInv, HasId
  <2> QED BY <1>1, <2>1, <2>2
<1> QED BY <1>2, <1>3, <1>4, <1>5, <1>6, <1>7, OneCallSteps DEF PodmanAnswers

\* Where no call fails for a reason of its own, a call that ends leaves no
\* container, and no container is without the call that made it.
LEMMA GoneStep == EnvInv /\ NotRunningInv /\ GoneInv /\ [EnvNext]_vars => GoneInv'
<1> SUFFICES ASSUME EnvInv, NotRunningInv, GoneInv, [EnvNext]_vars, FaultyCalls = {}
             PROVE  GoneInv'
  BY DEF GoneInv
<1> USE DEF EnvInv, EnvTypeOK, Await, Settle, Answers, Answered
<1>0. EnvInv'
  BY InvStep
<1>1. ASSUME NEW b \in Build PROVE ~ Answered(b, "createContainer", "rejected")'
  <2>1. CASE PodmanCreates(b)
    BY <2>1 DEF PodmanCreates, CreateContainer
  <2>2. CASE RunBuilderInOwnContainer(b)
    BY <2>2 DEF RunBuilderInOwnContainer
  <2>3. CASE PodmanAnswers(b) /\ ~ PodmanCreates(b)
    BY <2>3 DEF PodmanAnswers, PodmanStarts, PodmanWaited, PodmanDeletesFailed,
       PodmanDeletesSucceeded
  <2>4. CASE Continues(b)
    BY <2>4 DEF Continues, AfterCreate, AfterStart, AfterWait, AfterLogs, AfterDeleteFailed,
       AfterDeleteSucceeded
  <2> QED BY <2>1, <2>2, <2>3, <2>4, OneCallSteps DEF GoneInv
<1>2. ASSUME NEW b \in Build, Final(b)'
      PROVE  HasId(b)' /\ container'[containerId'[b]] = "removed"
  <2>1. CASE Final(b) /\ containerId'[b] = containerId[b]
    <3>1. HasId(b) /\ container[containerId[b]] = "removed" /\ containerId[b] \in ContainerId
      BY <2>1 DEF GoneInv, HasId
    <3> QED BY <2>1, <3>1, EndIsFinal DEF HasId
  <2>2. CASE UNCHANGED <<pc[b], promise[b], containerId[b]>>
    BY <1>2, <2>1, <2>2 DEF Final
  <2>3. CASE RunBuilderInOwnContainer(b) \/ PodmanCreates(b)
    BY <1>2, <2>3 DEF RunBuilderInOwnContainer, PodmanCreates, Final, Ended
  <2>4. CASE PodmanStarts(b) \/ PodmanWaited(b)
    <3>1. HasId(b) /\ UNCHANGED containerId /\ promise'[b] = "rejected"
      BY <1>2, <2>4 DEF PodmanStarts, PodmanWaited, Final, Ended, IdsInv, Awaited
    <3>2. container[containerId[b]] = "removed" /\ containerId[b] \in ContainerId
      BY <2>4, <3>1 DEF PodmanStarts, StartContainer, PodmanWaited, WaitOnContainer, HasId,
         PodmanTypeOK, ExitCode
    <3> QED BY <3>1, <3>2, EndIsFinal DEF HasId
  <2>5. CASE PodmanDeletesFailed(b) \/ PodmanDeletesSucceeded(b)
    <3>1. HasId(b) /\ After(b) /\ UNCHANGED containerId
      BY <2>5 DEF PodmanDeletesFailed, PodmanDeletesSucceeded, After, IdsInv, Awaited
    <3>2. container[containerId[b]] \in {"exited", "removed"} /\ containerId[b] \in ContainerId
      BY <3>1 DEF NotRunningInv, HasId
    <3> QED BY <2>5, <3>1, <3>2 DEF PodmanDeletesFailed, PodmanDeletesSucceeded,
           DeleteContainer, Becomes, Stopped, HasId, PodmanTypeOK, podmanVars
  <2>6. CASE Continues(b)
    <3>1. UNCHANGED containerId /\ Final(b)
      BY <1>2, <2>6 DEF Continues, AfterCreate, AfterStart, AfterWait, AfterLogs,
         AfterDeleteFailed, AfterDeleteSucceeded, Final, Ended, GoneInv
    <3> QED BY <2>1, <3>1
  <2> QED BY <2>2, <2>3, <2>4, <2>5, <2>6, OneCallSteps DEF PodmanAnswers
<1>3. ASSUME NEW c \in ContainerId \ Leftover, container'[c] \notin {"unused", "removed"}
      PROVE  c \in Own'
  <2>1. CASE c \in Own
    <3>1. PICK b \in Build : containerId[b] = c /\ HasId(b)
      BY <2>1 DEF Own, HasId
    <3>2. containerId'[b] = c
      <4>1. CASE PodmanAnswers(b)
        BY <4>1, <3>1 DEF PodmanAnswers, PodmanCreates, PodmanStarts, PodmanWaited,
           PodmanDeletesFailed, PodmanDeletesSucceeded, IdsInv
      <4>2. CASE Continues(b) \/ RunBuilderInOwnContainer(b)
        BY <4>2, <3>1 DEF RunBuilderInOwnContainer, Continues, AfterCreate, AfterStart,
           AfterWait, AfterLogs, AfterDeleteFailed, AfterDeleteSucceeded
      <4> QED BY <3>1, <4>1, <4>2, OneCallSteps
    <3> QED BY <3>1, <3>2 DEF Own, HasId
  <2>2. CASE c \notin Own
    <3>1. container[c] = "unused"
      <4>1. container[c] \in {"unused", "removed"}
        BY <2>2 DEF GoneInv
      <4>2. container[c] # "removed"
        BY <1>3, EndIsFinal
      <4> QED BY <4>1, <4>2
    <3>2. PICK b \in Build : PodmanCreates(b)
      <4> USE DEF Becomes, podmanVars, envVars, PodmanTypeOK, HasId, IdsInv
      <4>1. ASSUME NEW b \in Build, PodmanAnswers(b), ~ PodmanCreates(b) PROVE FALSE
        BY <4>1, <3>1, <1>3 DEF PodmanAnswers, PodmanStarts, StartContainer, PodmanWaited,
           WaitOnContainer, PodmanDeletesFailed, PodmanDeletesSucceeded, DeleteContainer,
           Stopped, Awaited
      <4>2. ASSUME NEW d \in ContainerId, Exits(d) \/ PodmanKills(d) PROVE FALSE
        BY <4>2, <3>1, <1>3 DEF Exits, ContainerExits, PodmanKills, DeleteContainer, Stopped
      <4>3. ASSUME NEW b \in Build, Continues(b) \/ RunBuilderInOwnContainer(b) PROVE FALSE
        BY <4>3, <3>1, <1>3 DEF RunBuilderInOwnContainer, Continues, AfterCreate, AfterStart,
           AfterWait, AfterLogs, AfterDeleteFailed, AfterDeleteSucceeded
      <4>4. ASSUME NEW result \in {"fulfilled", "rejected"}, PruneContainers(result) PROVE FALSE
        BY <4>4, <3>1, <1>3 DEF PruneContainers, DeleteStoppedContainers, Stopped
      <4>5. CASE AbortRunningBuilders \/ AbortSettles \/ EnvFinished \/ UNCHANGED vars
        BY <4>5, <3>1, <1>3 DEF AbortRunningBuilders, AbortSettles, EnvFinished, vars
      <4> QED BY <4>1, <4>2, <4>3, <4>4, <4>5 DEF EnvNext
    <3>3. PICK d \in ContainerId : /\ container' = [container EXCEPT ![d] = "created"]
                                   /\ containerId' = [containerId EXCEPT ![b] = d]
      BY <3>2 DEF PodmanCreates, CreateContainer, Becomes
    <3>4. d = c
      BY <3>1, <3>3, <1>3 DEF PodmanTypeOK
    <3>5. containerId'[b] = c /\ c # NoContainer
      BY <3>3, <3>4, EnvAssumption
    <3> QED BY <3>5 DEF Own
  <2> QED BY <2>1, <2>2
<1> QED BY <1>1, <1>2, <1>3 DEF GoneInv

\* What is left of the calls, whatever the environment does.
LEMMA CallsCorrect == EnvSpec => [](EnvInv /\ NotRunningInv /\ GoneInv)
<1>1. EnvInit => NotRunningInv /\ GoneInv
  BY DEF EnvInit, PodmanInit, NotRunningInv, GoneInv, HasId, Final, Answered, Ended
<1> QED BY <1>1, InvInit, InvStep, NotRunningStep, GoneStep, PTL DEF EnvSpec

-----------------------------------------------------------------------------
(***************************************************************************)
(* The inductive invariant of the program.  A version is built by the call *)
(* its task made; a project is listed before its tasks are, and done after *)
(* them; what a project of Chain is past waiting, all before it are done.  *)
(***************************************************************************)
TurnInv ==
  /\ proc \in {"pruning", "buildingImage"} => \A p \in Project : project[p] = "waiting"
  /\ proc = "allDone" => \A p \in Project : project[p] = "done"

TaskInv ==
  /\ \A b \in Build : task[b] = "taken" <=> pc[b] # "notCalled"
  /\ \A p \in Project : \A b \in BuildsOf[p] :
       /\ task[b] = "unlisted" <=> project[p] \in {"waiting", "listing"}
       /\ project[p] = "done" => b \notin Active(p) /\ task[b] # "queued"

WorkInv ==
  \A p \in Project : IsFiniteSet(Active(p)) /\ Cardinality(Active(p)) <= WorkerCount[p]

ChainInv ==
  \A i, j \in DOMAIN Chain :
    i < j /\ project[Chain[j]] # "waiting" => project[Chain[i]] = "done"

AppInv == TurnInv /\ TaskInv /\ WorkInv /\ ChainInv

\* No call begins, and none that ended goes on.
PcKept ==
  \A b \in Build : /\ pc'[b] = "notCalled" <=> pc[b] = "notCalled"
                   /\ pc[b] \in Ended => pc'[b] = pc[b]

\* A call that goes on has begun and has not ended.
LEMMA ContinuesPc ==
  ASSUME EnvTypeOK, NEW b \in Build, Continues(b)
  PROVE  pc[b] \in Awaited /\ \E s \in Awaited \cup Ended : pc' = [pc EXCEPT ![b] = s]
BY DEF Continues, AfterCreate, AfterStart, AfterWait, AfterLogs, AfterDeleteFailed,
   AfterDeleteSucceeded, Answered, Await, Settle, Awaited, Ended

\* What podman does changes no pc.
LEMMA PodmanPc == Podman => UNCHANGED <<pc, appVars>>
BY DEF Podman, PodmanAnswers, PodmanCreates, PodmanStarts, PodmanWaited, PodmanDeletesFailed,
   PodmanDeletesSucceeded, Answers, PodmanKills, Exits, envVars

\* The steps that change no task and no project.
LEMMA QuietSteps ==
  ASSUME AppTypeOK, [AppNext]_allVars
  PROVE  \/ BuildImage
         \/ \E p \in Project : ListVersions(p) \/ ProjectDone(p)
                                \/ \E b \in BuildsOf[p] : StartTask(p, b)
         \/ /\ UNCHANGED <<project, task>> /\ PcKept
            /\ proc' \in {"pruning", "buildingImage"} => proc \in {"pruning", "buildingImage"}
            /\ proc' = "allDone" => proc = "allDone" \/ \A p \in Project : project[p] = "done"
<1> DEFINE Quiet ==
      /\ UNCHANGED <<project, task>> /\ PcKept
      /\ proc' \in {"pruning", "buildingImage"} => proc \in {"pruning", "buildingImage"}
      /\ proc' = "allDone" => proc = "allDone" \/ \A p \in Project : project[p] = "done"
<1>1. CASE PruneOldContainers
  BY <1>1 DEF PruneOldContainers, PruneContainers, envVars, PcKept
<1>2. CASE AllDone \/ SecondSigint \/ AppExited \/ UNCHANGED allVars
  BY <1>2 DEF AllDone, SecondSigint, AppExited, allVars, vars, envVars, appVars, PcKept
<1>3. CASE Sigint \/ AbortExit
  BY <1>3 DEF Sigint, AbortExit, AbortRunningBuilders, AbortSettles, PcKept
<1>4. ASSUME NEW p \in Project, ListingFails(p) PROVE Quiet
  BY <1>4 DEF ListingFails, vars, envVars, PcKept
<1>5. ASSUME NEW b \in Build, Continue(b) PROVE Quiet
  <2>1. Continues(b) /\ UNCHANGED appVars
    BY <1>5 DEF Continue
  <2>2. PcKept
    BY <2>1, ContinuesPc DEF AppTypeOK, EnvTypeOK, PcKept, Awaited, Ended
  <2> QED BY <2>1, <2>2 DEF appVars
<1>6. CASE Podman
  BY <1>6, PodmanPc DEF appVars, PcKept
<1> QED BY <1>1, <1>2, <1>3, <1>4, <1>5, <1>6 DEF AppNext

\* Fewer active builds are still few enough.
LEMMA FewerActive ==
  ASSUME WorkInv, NEW p \in Project, Active(p)' \subseteq Active(p)
  PROVE  IsFiniteSet(Active(p)') /\ Cardinality(Active(p)') <= WorkerCount[p]
<1> DEFINE new == Active(p)'
<1>1. new \in SUBSET Active(p) /\ IsFiniteSet(Active(p))
      /\ Cardinality(Active(p)) <= WorkerCount[p] /\ WorkerCount[p] \in Nat
  BY AppAssumption DEF WorkInv
<1> HIDE DEF new
<1>2. /\ IsFiniteSet(new) /\ Cardinality(new) <= Cardinality(Active(p))
      /\ Cardinality(new) \in Nat /\ Cardinality(Active(p)) \in Nat
  BY <1>1, FS_Subset, FS_CardinalityType
<1>3. IsFiniteSet(new) /\ Cardinality(new) <= WorkerCount[p]
  BY <1>1, <1>2
<1> QED BY <1>3 DEF new

\* A version is one of one project only.
LEMMA OneProject ==
  ASSUME NEW p \in Project, NEW q \in Project, NEW b, b \in BuildsOf[p], b \in BuildsOf[q]
  PROVE  p = q /\ b \in Build
BY AppAssumption

\* A project of Chain waits until the ones before it are done: those that are
\* listed or built are past waiting, and the next of one that is built waits.
LEMMA NextWaits ==
  ASSUME ChainInv, NEW i \in 2 .. Len(Chain), project[Chain[i - 1]] = "building"
  PROVE  project[Chain[i]] = "waiting"
<1>1. i \in DOMAIN Chain /\ i - 1 \in DOMAIN Chain /\ i - 1 < i
  <2>1. DOMAIN Chain = 1 .. Len(Chain) /\ Len(Chain) \in Nat
    BY AppAssumption
  <2> QED BY <2>1
<1> QED BY <1>1 DEF ChainInv

\* The invariant is kept when a task is begun or skipped.
LEMMA StartTaskStep ==
  ASSUME AppTypeOK, AppInv, NEW p \in Project, NEW b \in BuildsOf[p], StartTask(p, b)
  PROVE  AppInv'
<1>1. b \in Build /\ task[b] = "queued" /\ pc[b] = "notCalled" /\ proc = "building"
      /\ UNCHANGED <<proc, shuttingDown, project>>
  BY AppAssumption DEF StartTask, AppInv, TaskInv
<1>2. TurnInv' /\ ChainInv'
  BY <1>1 DEF AppInv, TurnInv, ChainInv
<1>3. \/ /\ task' = [task EXCEPT ![b] = "taken"]
         /\ pc' = [pc EXCEPT ![b] = "createContainer"]
      \/ task' = [task EXCEPT ![b] = "skipped"] /\ pc' = pc
  BY DEF StartTask, RunBuilderInOwnContainer, Await, vars, envVars
<1>4. TaskInv'
  <2>1. ASSUME NEW a \in Build PROVE (task[a] = "taken" <=> pc[a] # "notCalled")'
    BY <1>1, <1>3 DEF AppInv, TaskInv, AppTypeOK, EnvTypeOK
  <2>2. ASSUME NEW q \in Project, NEW a \in BuildsOf[q]
        PROVE  (task[a] = "unlisted" <=> project[q] \in {"waiting", "listing"})'
    BY <1>1, <1>3, OneProject DEF AppInv, TaskInv, AppTypeOK
  <2>3. project[p] # "done"
    BY <1>1 DEF AppInv, TaskInv
  <2>4. ASSUME NEW q \in Project, NEW a \in BuildsOf[q], project'[q] = "done"
        PROVE  (a \notin Active(q) /\ task[a] # "queued")'
    <3>1. a \in Build /\ a # b /\ project[q] = "done"
      BY <1>1, <2>3, <2>4, OneProject
    <3>2. task'[a] = task[a] /\ pc'[a] = pc[a]
      BY <1>3, <3>1 DEF AppTypeOK, EnvTypeOK
    <3> QED BY <3>1, <3>2 DEF AppInv, TaskInv, Active
  <2> QED BY <2>1, <2>2, <2>4 DEF TaskInv
<1>5. WorkInv'
  <2> SUFFICES ASSUME NEW q \in Project
               PROVE  IsFiniteSet(Active(q)') /\ Cardinality(Active(q)') <= WorkerCount[q]
    BY DEF WorkInv
  <2>1. \A a \in Build \ {b} : task'[a] = task[a] /\ pc'[a] = pc[a]
    BY <1>3 DEF AppTypeOK, EnvTypeOK
  <2>2. CASE Active(q)' \subseteq Active(q)
    BY <2>2, FewerActive DEF AppInv
  <2>3. CASE q # p
    <3>1. Active(q)' \subseteq Active(q)
      <4>1. \A a \in BuildsOf[q] : a \in Build \ {b}
        BY <2>3, OneProject
      <4> QED BY <2>1, <4>1 DEF Active
    <3> QED BY <2>2, <3>1
  <2>4. CASE q = p /\ task'[b] = "skipped"
    <3>1. Active(q)' \subseteq Active(q)
      BY <2>1, <2>4, AppAssumption DEF Active
    <3> QED BY <2>2, <3>1
  <2>5. CASE q = p /\ task'[b] # "skipped"
    <3> DEFINE old == Active(p)
               new == Active(p)'
    <3>1. new = old \cup {b}
      <4>1. task'[b] = "taken" /\ pc'[b] = "createContainer"
        BY <1>1, <1>3, <2>5 DEF AppTypeOK, EnvTypeOK
      <4>2. b \in new
        BY <4>1 DEF Active, Ended
      <4>3. \A a \in BuildsOf[p] \ {b} : a \in new <=> a \in old
        BY <2>1, AppAssumption DEF Active
      <4>4. new \subseteq BuildsOf[p] /\ old \subseteq BuildsOf[p]
        BY DEF Active
      <4> QED BY <4>2, <4>3, <4>4
    <3>2. IsFiniteSet(old) /\ Cardinality(old) < WorkerCount[p] /\ WorkerCount[p] \in Nat
      BY AppAssumption DEF AppInv, WorkInv, StartTask
    <3> HIDE DEF old, new
    <3>3. Cardinality(old) \in Nat
      BY <3>2, FS_CardinalityType
    <3>4. /\ IsFiniteSet(new)
          /\ Cardinality(new) = IF b \in old THEN Cardinality(old) ELSE Cardinality(old) + 1
      BY <3>1, <3>2, FS_AddElement, Zenon
    <3>5. Cardinality(new) <= WorkerCount[p]
      BY <3>2, <3>3, <3>4
    <3> QED BY <3>4, <3>5, <2>5 DEF new
  <2> QED BY <2>3, <2>4, <2>5
<1> QED BY <1>2, <1>4, <1>5 DEF AppInv

\* The invariant is kept when a project is listed: its versions get their tasks.
LEMMA ListVersionsStep ==
  ASSUME AppTypeOK, AppInv, NEW p \in Project, ListVersions(p)
  PROVE  AppInv'
<1>1. /\ project[p] = "listing" /\ project' = [project EXCEPT ![p] = "building"]
      /\ proc = "building" /\ UNCHANGED <<proc, pc>>
  BY DEF ListVersions, vars, envVars
<1>2. \A b \in Build : IF b \in BuildsOf[p] THEN task'[b] \in {"present", "queued"}
                                           ELSE task'[b] = task[b]
  BY DEF ListVersions
<1>3. \A b \in BuildsOf[p] : b \in Build /\ task[b] = "unlisted" /\ pc[b] = "notCalled"
  BY <1>1, AppAssumption DEF AppInv, TaskInv
<1>4. \A q \in Project : project'[q] = IF q = p THEN "building" ELSE project[q]
  BY <1>1 DEF AppTypeOK
<1>5. \A q \in Project : Active(q)' \subseteq Active(q)
  <2> SUFFICES ASSUME NEW q \in Project, NEW b \in BuildsOf[q],
                      task'[b] = "taken", pc'[b] \notin Ended
               PROVE  b \in Active(q)
    BY DEF Active
  <2>1. b \in Build /\ b \notin BuildsOf[p]
    BY <1>2, AppAssumption
  <2> QED BY <1>1, <1>2, <2>1 DEF Active
<1>6. TurnInv' /\ ChainInv'
  <2>1. \A i \in DOMAIN Chain : Chain[i] \in Project
    BY AppAssumption
  <2> QED BY <1>1, <1>4, <2>1 DEF AppInv, TurnInv, ChainInv
<1>7. TaskInv'
  <2>1. ASSUME NEW b \in Build PROVE (task[b] = "taken" <=> pc[b] # "notCalled")'
    BY <1>1, <1>2, <1>3 DEF AppInv, TaskInv
  <2>2. ASSUME NEW q \in Project, NEW b \in BuildsOf[q]
        PROVE  /\ (task[b] = "unlisted" <=> project[q] \in {"waiting", "listing"})'
               /\ (project[q] = "done" => b \notin Active(q) /\ task[b] # "queued")'
    <3>1. CASE q = p
      BY <1>2, <1>3, <1>4, <3>1
    <3>2. CASE q # p
      <4>1. task'[b] = task[b] /\ project'[q] = project[q]
        BY <1>2, <1>4, <3>2, OneProject
      <4> QED BY <4>1, <1>5 DEF AppInv, TaskInv
    <3> QED BY <3>1, <3>2
  <2> QED BY <2>1, <2>2 DEF TaskInv
<1>8. WorkInv'
  BY <1>5, FewerActive DEF WorkInv, AppInv
<1> QED BY <1>6, <1>7, <1>8 DEF AppInv

\* The invariant is kept when a project is done and the next has its turn.
LEMMA ProjectDoneStep ==
  ASSUME AppTypeOK, AppInv, NEW p \in Project, ProjectDone(p)
  PROVE  AppInv'
<1>1. /\ project[p] = "building" /\ proc = "building"
      /\ UNCHANGED <<proc, pc, task>>
      /\ Active(p) = {} /\ \A b \in BuildsOf[p] : task[b] # "queued"
  BY DEF ProjectDone, vars, envVars
<1>2. \A q \in Project : project'[q] =
        IF q = p THEN "done"
        ELSE IF \E i \in 2 .. Len(Chain) : Chain[i - 1] = p /\ Chain[i] = q
        THEN "listing" ELSE project[q]
  BY DEF ProjectDone
<1>3. ASSUME NEW q \in Project, q # p
      PROVE  \/ project'[q] = project[q]
             \/ project[q] = "waiting" /\ project'[q] = "listing"
  <2>1. ASSUME NEW i \in 2 .. Len(Chain), Chain[i - 1] = p, Chain[i] = q
        PROVE  project[q] = "waiting"
    BY <1>1, <2>1, NextWaits DEF AppInv
  <2> QED BY <1>2, <1>3, <2>1
<1>4. \A q \in Project : Active(q)' = Active(q)
  BY <1>1 DEF Active
<1>5. TurnInv' /\ WorkInv'
  BY <1>1, <1>4, FewerActive DEF AppInv, TurnInv, WorkInv
<1>6. TaskInv'
  BY <1>1, <1>2, <1>3, <1>4 DEF AppInv, TaskInv
<1>7. ChainInv'
  <2> SUFFICES ASSUME NEW i \in DOMAIN Chain, NEW j \in DOMAIN Chain, i < j,
                      project'[Chain[j]] # "waiting"
               PROVE  project'[Chain[i]] = "done"
    BY DEF ChainInv
  <2>0. /\ \A k \in DOMAIN Chain : Chain[k] \in Project
        /\ DOMAIN Chain = 1 .. Len(Chain) /\ Len(Chain) \in Nat
    BY AppAssumption
  <2>1. CASE project[Chain[j]] # "waiting"
    <3>1. project[Chain[i]] = "done"
      BY <2>1 DEF AppInv, ChainInv
    <3> QED BY <3>1, <2>0, <1>1, <1>3
  <2>2. CASE project[Chain[j]] = "waiting"
    <3>1. Chain[j] # p /\ Chain[j] \in Project
      BY <1>1, <2>0, <2>2
    <3>2. PICK k \in 2 .. Len(Chain) : Chain[k - 1] = p /\ Chain[k] = Chain[j]
      BY <1>2, <2>2, <3>1
    <3>3. k = j /\ k - 1 \in DOMAIN Chain
      <4>1. k \in DOMAIN Chain /\ k - 1 \in DOMAIN Chain
        BY <2>0
      <4> QED BY <4>1, <3>2, AppAssumption
    <3>4. CASE i = k - 1
      BY <3>2, <3>4, <1>2
    <3>5. CASE i # k - 1
      <4>1. i < k - 1
        BY <3>3, <3>5, <2>0
      <4>2. project[Chain[i]] = "done"
        BY <3>2, <3>3, <4>1, <1>1 DEF AppInv, ChainInv
      <4> QED BY <4>2, <2>0, <1>1, <1>3
    <3> QED BY <3>4, <3>5
  <2> QED BY <2>1, <2>2
<1> QED BY <1>5, <1>6, <1>7 DEF AppInv

\* The invariant is kept by every step.
LEMMA AppInvStep == AppTypeOK /\ AppInv /\ [AppNext]_allVars => AppInv'
<1> SUFFICES ASSUME AppTypeOK, AppInv, [AppNext]_allVars PROVE AppInv'
  OBVIOUS
<1>1. CASE BuildImage
  <2>1. /\ \A p \in Project : project[p] = "waiting"
        /\ proc' \in {"building", "crashed"} /\ UNCHANGED <<pc, task>>
    BY <1>1 DEF BuildImage, AppInv, TurnInv, vars, envVars
  <2>2. \A p \in Project : /\ project'[p] \in {"waiting", "listing"}
                           /\ (\E i \in DOMAIN Chain : i > 1 /\ Chain[i] = p) =>
                                project'[p] = "waiting"
    BY <1>1, <2>1 DEF BuildImage
  <2>3. \A p \in Project : Active(p)' = Active(p)
    BY <2>1 DEF Active
  <2>4. TurnInv' /\ TaskInv' /\ WorkInv'
    BY <2>1, <2>2, <2>3, FewerActive DEF AppInv, TurnInv, TaskInv, WorkInv
  <2>5. ChainInv'
    <3>1. DOMAIN Chain = 1 .. Len(Chain) /\ \A k \in DOMAIN Chain : Chain[k] \in Project
      BY AppAssumption
    <3> QED BY <2>2, <3>1 DEF ChainInv
  <2> QED BY <2>4, <2>5 DEF AppInv
<1>2. ASSUME NEW p \in Project,
             ListVersions(p) \/ ProjectDone(p) \/ \E b \in BuildsOf[p] : StartTask(p, b)
      PROVE  AppInv'
  BY <1>2, ListVersionsStep, ProjectDoneStep, StartTaskStep
<1>3. ASSUME UNCHANGED <<project, task>>, PcKept,
             proc' \in {"pruning", "buildingImage"} => proc \in {"pruning", "buildingImage"},
             proc' = "allDone" => proc = "allDone" \/ \A p \in Project : project[p] = "done"
      PROVE  AppInv'
  <2>1. \A p \in Project : Active(p)' \subseteq Active(p)
    BY <1>3, AppAssumption DEF Active, PcKept
  <2>2. WorkInv'
    BY <2>1, FewerActive DEF WorkInv, AppInv
  <2>3. TurnInv' /\ ChainInv'
    BY <1>3 DEF AppInv, TurnInv, ChainInv
  <2>4. TaskInv'
    BY <1>3, <2>1 DEF AppInv, TaskInv, PcKept
  <2> QED BY <2>2, <2>3, <2>4 DEF AppInv
<1> QED BY <1>1, <1>2, <1>3, QuietSteps

\* The inductive invariant holds in every reachable state.
THEOREM AppInvCorrect == AppSpec => []AppInv
<1>1. AppInit => AppInv
  <2> SUFFICES ASSUME AppInit PROVE AppInv
    OBVIOUS
  <2>1. \A p \in Project : Active(p) = {}
    BY AppAssumption DEF AppInit, Active
  <2>2. TurnInv /\ TaskInv
    BY <2>1, AppAssumption DEF AppInit, EnvInit, TurnInv, TaskInv
  <2>3. WorkInv
    <3>1. IsFiniteSet({}) /\ Cardinality({}) = 0
      BY FS_EmptySet
    <3>2. \A p \in Project : 0 <= WorkerCount[p]
      BY AppAssumption
    <3> QED BY <2>1, <3>1, <3>2 DEF WorkInv
  <2>4. ChainInv
    BY AppAssumption DEF AppInit, ChainInv
  <2> QED BY <2>2, <2>3, <2>4 DEF AppInv
<1> QED BY <1>1, AppInvStep, AppTypeCorrect, PTL DEF AppSpec

-----------------------------------------------------------------------------
(***************************************************************************)
(* The properties.                                                         *)
(***************************************************************************)
SafeInv == AppTypeOK /\ EnvInv /\ NotRunningInv /\ GoneInv /\ AppInv

\* All the invariants, of every state of the program.
LEMMA SafeInvCorrect == AppSpec => []SafeInv
<1>1. AppTypeOK /\ AppInv /\ EnvInv /\ NotRunningInv /\ GoneInv => SafeInv
  BY DEF SafeInv
<1> QED BY <1>1, AppTypeCorrect, AppInvCorrect, AppImplementsEnv, CallsCorrect, PTL

\* A builder that runs is that of a task that has a worker.
LEMMA RunningIsActive ==
  ASSUME SafeInv, FaultyCalls \cap {"start", "wait"} = {}, NEW p \in Project
  PROVE  RunningOf(p) \subseteq Active(p)
<1> SUFFICES ASSUME NEW b \in BuildsOf[p], HasId(b), container[containerId[b]] = "running"
             PROVE  b \in Active(p)
  BY DEF RunningOf, HasId
<1>1. b \in Build
  BY AppAssumption
<1>2. pc[b] \notin Ended
  BY <1>1 DEF SafeInv, NotRunningInv, After
<1>3. pc[b] # "notCalled"
  BY <1>1 DEF SafeInv, EnvInv, IdsInv
<1> QED BY <1>1, <1>2, <1>3 DEF SafeInv, AppInv, TaskInv, Active

\* A project that is waiting, or done, has no builder running.
LEMMA RunningInTurn ==
  ASSUME SafeInv, FaultyCalls \cap {"start", "wait"} = {}, NEW p \in Project,
         project[p] \in {"waiting", "done"}
  PROVE  RunningOf(p) = {}
<1>1. ASSUME NEW b \in BuildsOf[p], b \in Active(p) PROVE FALSE
  BY <1>1 DEF SafeInv, AppInv, TaskInv, Active
<1> QED BY <1>1, RunningIsActive DEF Active

\* No project ever has more builders running than it has workers.
THEOREM WorkerLimitCorrect == AppSpec => []WorkerLimit
<1>1. SafeInv => WorkerLimit
  <2> SUFFICES ASSUME SafeInv, FaultyCalls \cap {"start", "wait"} = {}, NEW p \in Project
               PROVE  Cardinality(RunningOf(p)) <= WorkerCount[p]
    BY DEF WorkerLimit
  <2> DEFINE S == Active(p)
             T == RunningOf(p)
  <2>1. T \in SUBSET S
    BY RunningIsActive
  <2>2. IsFiniteSet(S) /\ Cardinality(S) <= WorkerCount[p] /\ WorkerCount[p] \in Nat
    BY AppAssumption DEF SafeInv, AppInv, WorkInv
  <2> HIDE DEF S, T
  <2>3. /\ Cardinality(T) <= Cardinality(S)
        /\ Cardinality(T) \in Nat /\ Cardinality(S) \in Nat
    BY <2>1, <2>2, FS_Subset, FS_CardinalityType
  <2>4. Cardinality(T) <= WorkerCount[p]
    BY <2>2, <2>3
  <2> QED BY <2>4 DEF T
<1> QED BY <1>1, SafeInvCorrect, PTL

\* Projects of the chain never have builders running at the same time.
THEOREM ChainIsSequentialCorrect == AppSpec => []ChainIsSequential
<1>1. SafeInv => ChainIsSequential
  <2> SUFFICES ASSUME SafeInv, FaultyCalls \cap {"start", "wait"} = {},
                      NEW i \in DOMAIN Chain, NEW j \in DOMAIN Chain,
                      RunningOf(Chain[i]) # {}, RunningOf(Chain[j]) # {}
               PROVE  i = j
    BY DEF ChainIsSequential
  <2>1. /\ Chain[i] \in Project /\ Chain[j] \in Project
        /\ i \in Nat /\ j \in Nat
    BY AppAssumption
  <2>2. /\ project[Chain[i]] \notin {"waiting", "done"}
        /\ project[Chain[j]] \notin {"waiting", "done"}
    BY <2>1, RunningInTurn
  <2>3. ~ (i < j) /\ ~ (j < i)
    BY <2>2 DEF SafeInv, AppInv, ChainInv
  <2> QED BY <2>1, <2>3
<1> QED BY <1>1, SafeInvCorrect, PTL

\* 'All done' is said when no builder runs and, unless a call failed, no
\* container of the run is left.
THEOREM AllDoneLeavesNothingCorrect == AppSpec => []AllDoneLeavesNothing
<1>1. SafeInv => AllDoneLeavesNothing
  <2> SUFFICES ASSUME SafeInv, proc = "allDone"
               PROVE  /\ FaultyCalls \cap {"start", "wait"} = {} =>
                           \A p \in Project : RunningOf(p) = {}
                      /\ FaultyCalls = {} =>
                           \A c \in ContainerId \ Leftover : container[c] \in {"unused", "removed"}
    BY DEF AllDoneLeavesNothing
  <2>1. \A p \in Project : project[p] = "done"
    BY DEF SafeInv, AppInv, TurnInv
  <2>2. \A b \in Build : pc[b] \in {"notCalled"} \cup Ended
    <3>1. \A b \in Build : \E p \in Project : b \in BuildsOf[p] /\ b \notin Active(p)
      BY <2>1, AppAssumption DEF SafeInv, AppInv, TaskInv
    <3> QED BY <3>1 DEF SafeInv, AppInv, TaskInv, Active
  <2>3. ASSUME FaultyCalls = {}, NEW c \in ContainerId \ Leftover,
               container[c] \notin {"unused", "removed"}
        PROVE  FALSE
    <3>1. PICK b \in Build : containerId[b] = c /\ HasId(b)
      BY <2>3 DEF SafeInv, GoneInv, Own, HasId
    <3>2. pc[b] \in Ended
      BY <2>2, <3>1 DEF SafeInv, EnvInv, IdsInv
    <3> QED BY <2>3, <3>1, <3>2 DEF SafeInv, GoneInv, Final
  <2> QED BY <2>1, <2>3, RunningInTurn
<1> QED BY <1>1, SafeInvCorrect, PTL

-----------------------------------------------------------------------------
(***************************************************************************)
(* The program implements the build queue.  The state of the queue, as the *)
(* refinement mapping has it.                                              *)
(***************************************************************************)
QListed == {p \in Project : project[p] \in {"building", "done"}}
QStatusOf(b) ==
  CASE task[b] = "unlisted" -> "unlisted"
    [] task[b] = "queued" -> "queued"
    [] task[b] \in {"present", "skipped"} -> "dropped"
    [] task[b] = "taken" -> CASE pc[b] = "resolved" -> "succeeded"
                              [] pc[b] = "rejected" -> "failed"
                              [] OTHER -> "running"
QStatus == [b \in Build |-> QStatusOf(b)]
QOutcome == CASE proc \in Up -> "open" [] proc = "allDone" -> "completed" [] OTHER -> "stopped"
QVars == <<QListed, QStatus, shuttingDown, QOutcome>>

\* What the status says of a version.
LEMMA StatusMeans ==
  ASSUME AppTypeOK, NEW b \in Build
  PROVE  /\ QStatus[b] = "unlisted" <=> task[b] = "unlisted"
         /\ QStatus[b] = "queued" <=> task[b] = "queued"
         /\ QStatus[b] = "dropped" <=> task[b] \in {"present", "skipped"}
         /\ QStatus[b] = "succeeded" <=> task[b] = "taken" /\ pc[b] = "resolved"
         /\ QStatus[b] = "failed" <=> task[b] = "taken" /\ pc[b] = "rejected"
         /\ QStatus[b] = "running" <=> task[b] = "taken" /\ pc[b] \notin Ended
<1>1. task[b] \in {"unlisted", "present", "queued", "taken", "skipped"}
  BY DEF AppTypeOK
<1>2. QStatus[b] = QStatusOf(b)
  BY DEF QStatus
<1> QED BY <1>1, <1>2 DEF QStatusOf, Ended

\* The status of a version that keeps its task and does not end is the same.
LEMMA SameStatus ==
  \A b \in Build :
    /\ task'[b] = task[b]
    /\ pc'[b] = pc[b] \/ (pc'[b] \notin Ended /\ pc[b] \notin Ended)
    => QStatus'[b] = QStatus[b]
<1> TAKE b \in Build
<1> HAVE /\ task'[b] = task[b]
         /\ pc'[b] = pc[b] \/ (pc'[b] \notin Ended /\ pc[b] \notin Ended)
<1>1. QStatus'[b] = QStatusOf(b)' /\ QStatus[b] = QStatusOf(b)
  BY DEF QStatus
<1> QED BY <1>1 DEF QStatusOf, Ended

\* A project that is done is finished, and the ones before a project that is
\* listed now are.
LEMMA DoneIsFinished ==
  ASSUME AppTypeOK, AppInv, NEW p \in Project, project[p] = "done"
  PROVE  p \in QListed /\ \A b \in BuildsOf[p] : QStatus[b] \in {"succeeded", "failed", "dropped"}
<1>1. p \in QListed
  BY DEF QListed
<1>2. ASSUME NEW b \in BuildsOf[p] PROVE QStatus[b] \in {"succeeded", "failed", "dropped"}
  <2>1. b \in Build /\ task[b] \in {"present", "taken", "skipped"} /\ b \notin Active(p)
    BY AppAssumption DEF AppInv, TaskInv, AppTypeOK
  <2>2. task[b] = "taken" => pc[b] \in {"resolved", "rejected"}
    BY <2>1 DEF Active, Ended
  <2> QED BY <2>1, <2>2, StatusMeans
<1> QED BY <1>1, <1>2

\* Cardinality means to the queue what it means to the program.
LEMMA SameCardinality == \A S : Queue!Cardinality(S) = Cardinality(S)
BY DEF Cardinality, Queue!Cardinality

\* The active builds are the ones that run.
LEMMA ActiveRuns ==
  ASSUME AppTypeOK, NEW p \in Project
  PROVE  {b \in BuildsOf[p] : QStatus[b] = "running"} = Active(p)
<1>1. \A b \in BuildsOf[p] : b \in Build
  BY AppAssumption
<1> QED BY <1>1, StatusMeans DEF Active

\* Listing a project is a step of the queue.
LEMMA QueueLists ==
  ASSUME AppTypeOK, AppInv, NEW p \in Project, ListVersions(p)
  PROVE  Queue!List(p)
<1>1. /\ project[p] = "listing" /\ project' = [project EXCEPT ![p] = "building"]
      /\ UNCHANGED <<pc, shuttingDown, proc>>
  BY DEF ListVersions, vars, envVars
<1>2. p \notin QListed /\ QListed' = QListed \cup {p}
  BY <1>1 DEF QListed, AppTypeOK
<1>3. ASSUME NEW i \in DOMAIN Chain, NEW j \in DOMAIN Chain, i < j, Chain[j] = p
      PROVE  /\ Chain[i] \in QListed
             /\ \A b \in BuildsOf[Chain[i]] : QStatus[b] \in {"succeeded", "failed", "dropped"}
  <2>1. project[Chain[i]] = "done" /\ Chain[i] \in Project
    BY <1>1, <1>3, AppAssumption DEF AppInv, ChainInv
  <2> QED BY <2>1, DoneIsFinished
<1>4. PICK present \in SUBSET BuildsOf[p] :
        task' = [b \in Build |-> IF b \in present THEN "present"
                                 ELSE IF b \in BuildsOf[p] THEN "queued" ELSE task[b]]
  BY DEF ListVersions
<1>5. ASSUME NEW b \in Build
      PROVE  QStatusOf(b)' = IF b \in present THEN "dropped"
                             ELSE IF b \in BuildsOf[p] THEN "queued" ELSE QStatus[b]
  <2>1. task'[b] = IF b \in present THEN "present"
                   ELSE IF b \in BuildsOf[p] THEN "queued" ELSE task[b]
    BY <1>4
  <2>2. QStatus[b] = QStatusOf(b)
    BY DEF QStatus
  <2> QED BY <1>1, <2>1, <2>2 DEF QStatusOf
<1>6. QStatus' = [b \in Build |-> IF b \in present THEN "dropped"
                                  ELSE IF b \in BuildsOf[p] THEN "queued" ELSE QStatus[b]]
  BY <1>5 DEF QStatus
<1>7. \E pr \in SUBSET BuildsOf[p] :
        QStatus' = [b \in Build |-> IF b \in pr THEN "dropped"
                                    ELSE IF b \in BuildsOf[p] THEN "queued" ELSE QStatus[b]]
  BY <1>6
<1>8. QOutcome' = QOutcome /\ shuttingDown' = shuttingDown
  BY <1>1 DEF QOutcome
<1> QED BY <1>2, <1>3, <1>7, <1>8
        DEF Queue!List, Queue!Turn, Queue!Finished, Queue!Over, QListed, QStatus, QStatusOf, QOutcome

\* A worker that takes a task begins the build, or drops it after a SIGINT.
LEMMA QueueBeginsOrDrops ==
  ASSUME AppTypeOK, AppInv, NEW p \in Project, NEW b \in BuildsOf[p], StartTask(p, b)
  PROVE  Queue!Begin(p, b) \/ Queue!Drop(b)
<1>1. b \in Build /\ task[b] = "queued"
      /\ UNCHANGED <<proc, shuttingDown, project>>
  BY AppAssumption DEF StartTask
<1>2. QStatus[b] = "queued" /\ UNCHANGED <<QListed, shuttingDown, QOutcome>>
  BY <1>1, StatusMeans DEF QListed, QOutcome
<1>3. ASSUME NEW a \in Build, a # b PROVE QStatus'[a] = QStatus[a]
  <2>1. task'[a] = task[a] /\ pc'[a] = pc[a]
    BY <1>3 DEF StartTask, RunBuilderInOwnContainer, Await, vars, envVars, AppTypeOK, EnvTypeOK
  <2> QED BY <2>1, SameStatus
<1>4. QStatus' = [QStatus EXCEPT ![b] = QStatus'[b]]
  BY <1>3 DEF QStatus
<1>5. CASE shuttingDown
  <2>1. QStatus'[b] = "dropped"
    <3>1. task'[b] = "skipped"
      BY <1>1, <1>5 DEF StartTask, AppTypeOK
    <3> QED BY <1>1, <3>1 DEF QStatus, QStatusOf
  <2>2. QStatus' = [QStatus EXCEPT ![b] = "dropped"]
    BY <1>4, <2>1
  <2> QED BY <1>2, <1>5, <2>2 DEF Queue!Drop, QListed, QStatus, QStatusOf, QOutcome
<1>6. CASE ~ shuttingDown
  <2>1. QStatus'[b] = "running"
    <3>1. task'[b] = "taken" /\ pc'[b] = "createContainer"
      BY <1>1, <1>6 DEF StartTask, RunBuilderInOwnContainer, Await, AppTypeOK, EnvTypeOK
    <3> QED BY <1>1, <3>1 DEF QStatus, QStatusOf
  <2>2. QStatus' = [QStatus EXCEPT ![b] = "running"]
    BY <1>4, <2>1
  <2>3. Queue!RunningOf(p) = Active(p)
    BY ActiveRuns DEF Queue!RunningOf, QStatus, QStatusOf
  <2>4. Queue!Cardinality(Queue!RunningOf(p)) < WorkerCount[p]
    BY <2>3, SameCardinality DEF StartTask
  <2>5. Queue!Begin(p, b)
    BY <1>2, <1>6, <2>2, <2>4 DEF Queue!Begin, QListed, QStatus, QStatusOf, QOutcome
  <2> QED BY <2>5
<1> QED BY <1>5, <1>6

\* A call that goes on finishes its build, or the queue sees nothing of it.
LEMMA QueueFinishes ==
  ASSUME AppTypeOK, AppInv, NEW b \in Build, Continue(b)
  PROVE  Queue!Finish(b) \/ UNCHANGED QVars
<1>1. UNCHANGED <<proc, shuttingDown, project, task>> /\ Continues(b)
  BY DEF Continue, appVars
<1>2. PICK s \in Awaited \cup Ended : pc' = [pc EXCEPT ![b] = s]
  BY <1>1, ContinuesPc DEF AppTypeOK
<1>3. pc[b] \in Awaited /\ pc'[b] = s /\ \A a \in Build \ {b} : pc'[a] = pc[a]
  BY <1>1, <1>2, ContinuesPc DEF AppTypeOK, EnvTypeOK
<1>4. task[b] = "taken" /\ pc[b] \notin Ended
  BY <1>3 DEF AppInv, TaskInv, Awaited, Ended
<1>5. UNCHANGED <<QListed, shuttingDown, QOutcome>>
  BY <1>1 DEF QListed, QOutcome
<1>6. QStatus' = [QStatus EXCEPT ![b] = QStatus'[b]]
  <2>1. ASSUME NEW a \in Build, a # b PROVE QStatus'[a] = QStatus[a]
    <3>1. task'[a] = task[a] /\ pc'[a] = pc[a]
      BY <1>1, <1>3, <2>1
    <3> QED BY <3>1, SameStatus
  <2> QED BY <2>1 DEF QStatus
<1>7. CASE s \in Ended
  <2>1. QStatus[b] = "running"
    BY <1>4, StatusMeans
  <2>2. QStatus'[b] \in {"succeeded", "failed"}
    BY <1>1, <1>3, <1>4, <1>7 DEF QStatus, QStatusOf, Ended
  <2>3. \E how \in {"succeeded", "failed"} : QStatus' = [QStatus EXCEPT ![b] = how]
    BY <1>6, <2>2
  <2> QED BY <1>5, <2>1, <2>3 DEF Queue!Finish, QListed, QStatus, QStatusOf, QOutcome
<1>8. CASE s \notin Ended
  <2>1. QStatus'[b] = QStatus[b]
    BY <1>1, <1>3, <1>4, <1>8, SameStatus
  <2>2. QStatus' = QStatus
    BY <1>6, <2>1 DEF QStatus
  <2> QED BY <1>5, <2>2 DEF QVars
<1> QED BY <1>7, <1>8

\* A step that changes no status and no project, and leaves the program up, ends
\* it early, or neither.
LEMMA QueueStands ==
  ASSUME UNCHANGED <<QListed, QStatus>>, shuttingDown' = shuttingDown, proc \in Up,
         proc' \in Up \cup {"aborted", "forced", "crashed"}
  PROVE  Queue!GiveUp \/ UNCHANGED QVars
<1>1. QOutcome = "open" /\ QOutcome' \in {"open", "stopped"}
  BY DEF QOutcome, Up
<1>2. CASE QOutcome' = "open"
  BY <1>1, <1>2 DEF QVars
<1>3. CASE QOutcome' = "stopped"
  BY <1>3 DEF Queue!GiveUp, QListed, QStatus, QStatusOf, QOutcome
<1> QED BY <1>1, <1>2, <1>3

\* Every step of the program is one of the queue, or none.
LEMMA QueueStep == AppTypeOK /\ AppInv /\ [AppNext]_allVars => [Queue!Next]_(Queue!queueVars)
<1> SUFFICES ASSUME AppTypeOK, AppInv, [AppNext]_allVars
             PROVE  Queue!Next \/ UNCHANGED QVars
  BY DEF Queue!queueVars, QVars, QListed, QStatus, QStatusOf, QOutcome
<1>0. proc \in Up => QOutcome = "open"
  BY DEF QOutcome, Up
<1>a. ASSUME proc \in Up,
             \/ \E p \in Project : Queue!List(p) \/ \E b \in BuildsOf[p] : Queue!Begin(p, b)
             \/ \E b \in Build : Queue!Drop(b) \/ Queue!Finish(b)
             \/ Queue!Stop \/ Queue!Complete \/ Queue!GiveUp
      PROVE  Queue!Next
  BY <1>0, <1>a DEF Queue!Next, QOutcome
<1>b. ASSUME UNCHANGED <<pc, task>> PROVE UNCHANGED QStatus
  BY <1>b DEF QStatus, QStatusOf
<1>c. ASSUME UNCHANGED project PROVE UNCHANGED QListed
  BY <1>c DEF QListed
<1>1. CASE PruneOldContainers \/ BuildImage
  <2>1. /\ UNCHANGED <<pc, task, shuttingDown>> /\ proc \in Up
        /\ proc' \in Up \cup {"aborted", "forced", "crashed"}
    BY <1>1 DEF PruneOldContainers, PruneContainers, BuildImage, vars, envVars, Up
  <2>2. UNCHANGED QListed
    <3>1. CASE PruneOldContainers
      BY <3>1, <1>c DEF PruneOldContainers
    <3>2. CASE BuildImage
      BY <3>2 DEF BuildImage, QListed, AppInv, TurnInv
    <3> QED BY <1>1, <3>1, <3>2
  <2> QED BY <2>1, <2>2, <1>a, <1>b, QueueStands
<1>2. CASE AllDone
  <2>1. /\ UNCHANGED <<pc, task, shuttingDown, project>> /\ proc \in Up /\ proc' = "allDone"
        /\ \A p \in Project : project[p] = "done"
    BY <1>2 DEF AllDone, vars, envVars, Up
  <2>2. QOutcome' = "completed"
    BY <2>1 DEF QOutcome, Up
  <2>3. \A p \in Project :
          p \in QListed /\ \A b \in BuildsOf[p] : QStatus[b] \in {"succeeded", "failed", "dropped"}
    BY <2>1, DoneIsFinished
  <2>4. Queue!Complete
    BY <2>1, <2>2, <2>3, <1>b, <1>c
    DEF Queue!Complete, Queue!Finished, Queue!Over, QListed, QStatus, QStatusOf, QOutcome
  <2> QED BY <2>1, <2>4, <1>a
<1>3. CASE Sigint
  <2>1. /\ UNCHANGED <<pc, task, project>> /\ proc \in Up /\ proc' \in Up \cup {"aborted"}
        /\ ~ shuttingDown /\ shuttingDown'
    BY <1>3 DEF Sigint, AbortRunningBuilders
  <2>2. QOutcome' \in {"open", "stopped"} /\ shuttingDown' = TRUE
    BY <2>1, <1>3 DEF QOutcome, Up, Sigint
  <2>3. Queue!Stop
    BY <2>1, <2>2, <1>b, <1>c DEF Queue!Stop, QListed, QStatus, QStatusOf, QOutcome
  <2> QED BY <2>1, <2>3, <1>a
<1>4. CASE AbortExit \/ SecondSigint \/ \E p \in Project : ListingFails(p)
  <2>1. /\ UNCHANGED <<pc, task, shuttingDown, project>> /\ proc \in Up
        /\ proc' \in {"aborted", "forced", "crashed"}
    BY <1>4 DEF AbortExit, AbortSettles, SecondSigint, ListingFails, vars, envVars, Up
  <2> QED BY <2>1, <1>a, <1>b, <1>c, QueueStands
<1>5. ASSUME NEW p \in Project, ListVersions(p) PROVE Queue!Next
  BY <1>5, <1>a, QueueLists DEF ListVersions, Up
<1>6. ASSUME NEW p \in Project, ProjectDone(p) PROVE UNCHANGED QVars
  <2>1. /\ UNCHANGED <<pc, task, shuttingDown, proc>> /\ project[p] = "building"
        /\ \A q \in Project : project'[q] =
             IF q = p THEN "done"
             ELSE IF \E i \in 2 .. Len(Chain) : Chain[i - 1] = p /\ Chain[i] = q
             THEN "listing" ELSE project[q]
    BY <1>6 DEF ProjectDone, vars, envVars
  <2>2. \A i \in 2 .. Len(Chain) : Chain[i - 1] = p => project[Chain[i]] = "waiting"
    BY <2>1, NextWaits DEF AppInv
  <2>3. \A q \in Project : project'[q] \in {"building", "done"}
                             <=> project[q] \in {"building", "done"}
    BY <2>1, <2>2
  <2> QED BY <2>1, <2>3, <1>b DEF QVars, QListed, QOutcome
<1>7. ASSUME NEW p \in Project, NEW b \in BuildsOf[p], StartTask(p, b) PROVE Queue!Next
  <2>1. b \in Build /\ proc \in Up
    BY <1>7, AppAssumption DEF StartTask, Up
  <2> QED BY <1>7, <2>1, <1>a, QueueBeginsOrDrops
<1>8. ASSUME NEW b \in Build, Continue(b) PROVE Queue!Next \/ UNCHANGED QVars
  <2>1. proc \in Up
    BY <1>8 DEF Continue
  <2> QED BY <1>8, <2>1, <1>a, QueueFinishes
<1>9. CASE Podman \/ AppExited \/ UNCHANGED allVars
  <2>1. UNCHANGED <<pc, task, shuttingDown, proc, project>>
    BY <1>9, PodmanPc DEF AppExited, allVars, vars, envVars, appVars
  <2> QED BY <2>1, <1>b, <1>c DEF QVars, QOutcome
<1> QED BY <1>1, <1>2, <1>3, <1>4, <1>5, <1>6, <1>7, <1>8, <1>9 DEF AppNext

\* The program implements the build queue.
THEOREM ImplementsQueueCorrect == AppSpec => ImplementsQueue
<1>1. AppInit => Queue!Init
  <2> SUFFICES ASSUME AppInit PROVE Queue!Init
    OBVIOUS
  <2>1. QListed = {} /\ QOutcome = "open" /\ shuttingDown = FALSE
    BY DEF AppInit, QListed, QOutcome, Up
  <2>2. QStatus = [b \in Build |-> "unlisted"]
    BY DEF AppInit, QStatus, QStatusOf
  <2> QED BY <2>1, <2>2 DEF Queue!Init, QListed, QStatus, QStatusOf, QOutcome
<1> QED BY <1>1, QueueStep, AppTypeCorrect, AppInvCorrect, PTL
        DEF AppSpec, ImplementsQueue, Queue!Spec
=============================================================================
