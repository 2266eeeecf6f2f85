---------------------------- MODULE BuildAppProofs ----------------------------
(***************************************************************************)
(* BuildApp drives the environment as PodmanEnvironment says it may be     *)
(* driven, so that what is proved of the environment holds of the program. *)
(***************************************************************************)
EXTENDS BuildApp, PodmanEnvironmentProofs

\* What a step of the program does to the environment is a step of it, or none.
LEMMA AppStepIsEnvStep == [AppNext]_allVars => [EnvNext]_vars
<1> SUFFICES ASSUME [AppNext]_allVars PROVE [EnvNext]_vars
  OBVIOUS
<1>1. CASE PruneOldContainers
  BY <1>1 DEF PruneOldContainers, EnvNext
<1>2. CASE BuildImage \/ AllDone \/ SecondSigint \/ AppExited \/ UNCHANGED allVars
  BY <1>2 DEF BuildImage, AllDone, SecondSigint, AppExited, allVars
<1>3. ASSUME NEW p \in Project, ListVersions(p) \/ ListingFails(p) \/ ProjectDone(p)
      PROVE  [EnvNext]_vars
  BY <1>3 DEF ListVersions, ListingFails, ProjectDone
<1>4. ASSUME NEW p \in Project, NEW b \in BuildsOf[p], StartTask(p, b) PROVE [EnvNext]_vars
  <2>1. b \in Build
    BY AppAssumption
  <2> QED BY <1>4, <2>1 DEF StartTask, EnvNext
<1>5. CASE Sigint \/ AbortExit
  BY <1>5 DEF Sigint, AbortExit, EnvNext
<1>6. ASSUME NEW b \in Build, Continue(b) PROVE [EnvNext]_vars
  BY <1>6 DEF Continue, EnvNext
<1>7. CASE Podman
  BY <1>7 DEF Podman, EnvNext
<1> QED BY <1>1, <1>2, <1>3, <1>4, <1>5, <1>6, <1>7 DEF AppNext

\* The program implements the environment's specification.
THEOREM AppImplementsEnv == AppSpec => EnvSpec
<1>1. AppInit => EnvInit
  BY DEF AppInit
<1> QED BY <1>1, AppStepIsEnvStep, PTL DEF AppSpec, EnvSpec

\* Whenever SIGINT comes, every builder the program has started and that runs
\* is one abortRunningBuilders stops.
THEOREM AppStartedIsRegistered == AppSpec => []StartedIsRegistered
BY AppImplementsEnv, StartedIsRegisteredCorrect, PTL

-----------------------------------------------------------------------------
\* Every variable of the program keeps its type.
THEOREM AppTypeCorrect == AppSpec => []AppTypeOK
<1> DEFINE OwnTypeOK == /\ proc \in Up \cup Exited
                        /\ shuttingDown \in BOOLEAN
                        /\ project \in [Project -> {"waiting", "listing", "building", "done"}]
                        /\ task \in [Build -> {"unlisted", "present", "queued", "taken", "skipped"}]
<1>1. AppInit => OwnTypeOK
  BY DEF AppInit, Up
<1>2. OwnTypeOK /\ [AppNext]_allVars => OwnTypeOK'
  <2> SUFFICES ASSUME OwnTypeOK, [AppNext]_allVars PROVE OwnTypeOK'
    OBVIOUS
  <2> USE DEF Up, Exited
  <2>1. CASE PruneOldContainers \/ AllDone \/ SecondSigint \/ AppExited \/ Podman
             \/ UNCHANGED allVars
    BY <2>1 DEF PruneOldContainers, AllDone, SecondSigint, AppExited, Podman, allVars, appVars
  <2>2. CASE BuildImage
    BY <2>2 DEF BuildImage
  <2>3. CASE Sigint \/ AbortExit
    BY <2>3 DEF Sigint, AbortExit
  <2>4. ASSUME NEW p \in Project, ListVersions(p) PROVE OwnTypeOK'
    BY <2>4 DEF ListVersions
  <2>5. ASSUME NEW p \in Project, ListingFails(p) PROVE OwnTypeOK'
    BY <2>5 DEF ListingFails
  <2>6. ASSUME NEW p \in Project, ProjectDone(p) PROVE OwnTypeOK'
    BY <2>6 DEF ProjectDone
  <2>7. ASSUME NEW p \in Project, NEW b \in BuildsOf[p], StartTask(p, b) PROVE OwnTypeOK'
    BY <2>7 DEF StartTask
  <2>8. ASSUME NEW b \in Build, Continue(b) PROVE OwnTypeOK'
    BY <2>8 DEF Continue, appVars
  <2> QED BY <2>1, <2>2, <2>3, <2>4, <2>5, <2>6, <2>7, <2>8 DEF AppNext
<1>3. AppSpec => []OwnTypeOK
  BY <1>1, <1>2, PTL DEF AppSpec
<1>4. EnvTypeOK /\ OwnTypeOK => AppTypeOK
  BY DEF AppTypeOK
<1> QED BY <1>3, <1>4, AppImplementsEnv, EnvTypeCorrect, PTL

-----------------------------------------------------------------------------
\* Where no deletion fails by itself, none that a SIGINT asks for fails: the
\* containers that are gone already are ignored.  The program exits by itself
\* only when the abort has ended.
ShutdownInv ==
  /\ "delete" \notin FaultyCalls =>
       abort # "rejected" /\ \A c \in ContainerId : kill[c] # "rejected"
  /\ proc = "aborted" => abort \in Ended

LEMMA ShutdownInvInit == AppInit => ShutdownInv
BY DEF AppInit, EnvInit, ShutdownInv

LEMMA ShutdownInvStep == EnvTypeOK /\ ShutdownInv /\ [AppNext]_allVars => ShutdownInv'
<1> SUFFICES ASSUME EnvTypeOK, ShutdownInv, [AppNext]_allVars PROVE ShutdownInv'
  OBVIOUS
<1>1. ASSUME UNCHANGED <<abort, kill>>, proc' = proc \/ proc' # "aborted"
      PROVE  ShutdownInv'
  BY <1>1 DEF ShutdownInv
<1>2. CASE PruneOldContainers \/ BuildImage \/ AllDone \/ SecondSigint \/ AppExited
           \/ UNCHANGED allVars
  BY <1>1, <1>2 DEF PruneOldContainers, PruneContainers, BuildImage, AllDone, SecondSigint,
     AppExited, allVars, appVars, vars, envVars
<1>3. ASSUME NEW p \in Project, ListVersions(p) \/ ListingFails(p) \/ ProjectDone(p)
      PROVE  ShutdownInv'
  BY <1>1, <1>3 DEF ListVersions, ListingFails, ProjectDone, vars, envVars
<1>4. ASSUME NEW p \in Project, NEW b \in BuildsOf[p], StartTask(p, b)
      PROVE  ShutdownInv'
  BY <1>1, <1>4 DEF StartTask, RunBuilderInOwnContainer, vars, envVars
<1>5. ASSUME NEW b \in Build, Continue(b)
      PROVE  ShutdownInv'
  BY <1>1, <1>5 DEF Continue, Continues, AfterCreate, AfterStart, AfterWait, AfterLogs,
     AfterDeleteFailed, AfterDeleteSucceeded, appVars
<1>6. CASE Sigint
  <2>1. /\ \A c \in ContainerId : kill'[c] \in {"pending", kill[c]}
        /\ abort' \in {"resolved", "deleting"}
    BY <1>6 DEF Sigint, AbortRunningBuilders
  <2>2. proc' = "aborted" => abort' = "resolved"
    BY <1>6 DEF Sigint, Up
  <2> QED
    BY <2>1, <2>2 DEF ShutdownInv, Ended
<1>7. CASE AbortExit
  BY <1>7 DEF AbortExit, AbortSettles, ShutdownInv, Ended
<1>8. CASE Podman
  <2>1. ASSUME NEW b \in Build, PodmanAnswers(b)
        PROVE  UNCHANGED <<abort, kill>>
    BY <2>1 DEF PodmanAnswers, PodmanCreates, PodmanStarts, PodmanWaited, PodmanDeletesFailed,
       PodmanDeletesSucceeded, Answers
  <2>2. ASSUME NEW c \in ContainerId, Exits(c)
        PROVE  UNCHANGED <<abort, kill>>
    BY <2>2 DEF Exits, envVars
  <2>3. ASSUME NEW c \in ContainerId, PodmanKills(c)
        PROVE  ShutdownInv'
    <3>1. PICK result \in {"fulfilled", "rejected"} :
            DeleteContainer(c, TRUE, TRUE, result) /\ kill' = [kill EXCEPT ![c] = result]
      BY <2>3 DEF PodmanKills
    <3>2. "delete" \notin FaultyCalls => result = "fulfilled"
      BY <3>1 DEF DeleteContainer
    <3>3. UNCHANGED <<abort, proc>>
      BY <1>8, <2>3 DEF Podman, PodmanKills, appVars
    <3> QED
      BY <3>1, <3>2, <3>3 DEF ShutdownInv, EnvTypeOK
  <2>4. UNCHANGED proc
    BY <1>8 DEF Podman, appVars
  <2> QED
    BY <1>1, <1>8, <2>1, <2>2, <2>3, <2>4 DEF Podman
<1> QED
  BY <1>2, <1>3, <1>4, <1>5, <1>6, <1>7, <1>8 DEF AppNext

\* A SIGINT makes the program exit only when everything that was listed is
\* gone, unless a deletion fails for a reason of its own (main.ts, lines 45 to
\* 51, and abortRunningBuilders).
THEOREM ShutdownRemovesListedCorrect == AppSpec => []ShutdownRemovesListed
<1>1. AppSpec => [](EnvTypeOK /\ EnvInv)
  BY AppImplementsEnv, EnvTypeCorrect, InvCorrect, PTL
<1>2. EnvInv /\ ShutdownInv => ShutdownRemovesListed
  <2> SUFFICES ASSUME EnvInv, ShutdownInv, "delete" \notin FaultyCalls, proc = "aborted",
                      NEW c \in ContainerId, kill[c] # "none"
               PROVE  container[c] = "removed"
    BY DEF ShutdownRemovesListed
  <2>1. abort = "resolved"
    BY DEF ShutdownInv, Ended
  <2>2. kill[c] = "fulfilled"
    BY <2>1 DEF EnvInv, KillInv
  <2> QED
    BY <2>2 DEF EnvInv, KillInv
<1> QED
  BY <1>1, <1>2, ShutdownInvInit, ShutdownInvStep, PTL DEF AppSpec
=============================================================================
