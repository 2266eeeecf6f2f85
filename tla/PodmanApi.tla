------------------------------ MODULE PodmanApi ------------------------------
(***************************************************************************)
(* The podman service as src/src/podman/PodmanApi.ts uses it.              *)
(*                                                                         *)
(* Every method of PodmanApi is one HTTP exchange: podman acts on its      *)
(* containers and the promise of the method is fulfilled, or rejected when *)
(* the status is not the expected one, the body cannot be parsed or the    *)
(* socket fails.  An operator below is such a call as a whole: what podman *)
(* does and how the promise ends.  A call of FaultyCalls may also be       *)
(* rejected for a reason of the exchange itself, and then podman may or    *)
(* may not have acted already.                                             *)
(***************************************************************************)
EXTENDS SequencesExt

CONSTANTS
  ContainerId,   \* the ids podman can give to containers
  Leftover,      \* ids of containers an earlier run of the program left
  FaultyCalls    \* the methods whose HTTP exchange may fail

ApiCall == {"create", "start", "wait", "delete", "prune"}

ASSUME ApiAssumption ==
  /\ Leftover \subseteq ContainerId
  /\ FaultyCalls \subseteq ApiCall

VARIABLES
  container,     \* what podman knows of each id
  exitCode       \* how the main process of each container ended; kept after
                 \* podman forgets the container, for properties to speak of

podmanVars == <<container, exitCode>>

ContainerState == {"unused", "created", "running", "exited", "removed"}
Stopped == {"created", "exited"}
ExitCode == {"none", "zero", "nonzero"}

PodmanTypeOK ==
  /\ container \in [ContainerId -> ContainerState]
  /\ exitCode \in [ContainerId -> ExitCode]

\* Podman at the start of the program: the containers of an earlier run, in
\* whatever state they were left, and no other.
PodmanInit ==
  /\ container \in [ContainerId -> {"unused", "created", "running", "exited"}]
  /\ \A c \in ContainerId : container[c] = "unused" <=> c \notin Leftover
  /\ exitCode = [c \in ContainerId |->
                   IF container[c] = "exited" THEN "nonzero" ELSE "none"]

-----------------------------------------------------------------------------
Becomes(c, state) == container' = [container EXCEPT ![c] = state]

\* createContainer: a fresh id, status 201.
CreateContainer(c, result) ==
  /\ container[c] = "unused"
  /\ \/ result = "fulfilled" /\ Becomes(c, "created")
     \/ /\ result = "rejected" /\ "create" \in FaultyCalls
        /\ Becomes(c, "created") \/ UNCHANGED container
  /\ UNCHANGED exitCode

\* startContainer: status 204; 404 when the container is gone.
StartContainer(c, result) ==
  /\ \/ /\ container[c] = "created" /\ Becomes(c, "running")
        /\ \/ result = "fulfilled"
           \/ result = "rejected" /\ "start" \in FaultyCalls
     \/ /\ \/ container[c] = "removed"
           \/ "start" \in FaultyCalls
        /\ result = "rejected" /\ UNCHANGED container
  /\ UNCHANGED exitCode

\* waitOnContainer with condition "exited": answered once the main process has
\* ended, with its exit code.  Of a container that was removed meanwhile podman
\* answers with the code it saw, with -1, or with an error.  Every code but 0,
\* NaN from parseInt included, is "nonzero".
WaitOnContainer(c, result) ==
  /\ \/ container[c] = "exited" /\ result = exitCode[c]
     \/ container[c] = "removed" /\ result \in {exitCode[c], "nonzero", "rejected"}
     \/ "wait" \in FaultyCalls /\ result = "rejected"
  /\ UNCHANGED podmanVars

\* A wrong DeleteContainer: ignoreErrorIfNotExists is not heeded.
DeleteUnforgiving(c, force, ignore, result) ==
  \/ /\ container[c] \in Stopped \/ (force /\ container[c] = "running")
     /\ Becomes(c, "removed")
     /\ exitCode' = IF container[c] = "running"
                    THEN [exitCode EXCEPT ![c] = "nonzero"] ELSE exitCode
     /\ \/ result = "fulfilled"
        \/ result = "rejected" /\ "delete" \in FaultyCalls
  \/ /\ \/ container[c] = "running" /\ ~force
        \/ container[c] = "removed"
        \/ "delete" \in FaultyCalls
     /\ result = "rejected" /\ UNCHANGED podmanVars

\* deleteContainer: a running container only goes by force, which kills its
\* main process; an unknown one is an error unless errors are ignored.
DeleteContainer(c, force, ignore, result) ==
  \/ /\ container[c] \in Stopped \/ (force /\ container[c] = "running")
     /\ Becomes(c, "removed")
     /\ exitCode' = IF container[c] = "running"
                    THEN [exitCode EXCEPT ![c] = "nonzero"] ELSE exitCode
     /\ \/ result = "fulfilled"
        \/ result = "rejected" /\ "delete" \in FaultyCalls
  \/ /\ container[c] = "removed" /\ ignore
     /\ result = "fulfilled" /\ UNCHANGED podmanVars
  \/ /\ \/ container[c] = "running" /\ ~force
        \/ container[c] = "removed" /\ ~ignore
        \/ "delete" \in FaultyCalls
     /\ result = "rejected" /\ UNCHANGED podmanVars

\* deleteStoppedContainers, with the label every container of the program has.
DeleteStoppedContainers(result) ==
  /\ \/ /\ container' = [c \in ContainerId |->
                           IF container[c] \in Stopped THEN "removed" ELSE container[c]]
        /\ result = "fulfilled" \/ (result = "rejected" /\ "prune" \in FaultyCalls)
     \/ result = "rejected" /\ "prune" \in FaultyCalls /\ UNCHANGED container
  /\ UNCHANGED exitCode

\* The main process of a container, the `builder` command, ends by itself.
ContainerExits(c, code) ==
  /\ container[c] = "running"
  /\ Becomes(c, "exited")
  /\ exitCode' = [exitCode EXCEPT ![c] = code]
=============================================================================
