----------------------- MODULE PodmanEnvironmentProofs -----------------------
(***************************************************************************)
(* The safety properties of PodmanEnvironment, for any number of builds    *)
(* and containers and any set of API calls that fail.                      *)
(***************************************************************************)
EXTENDS PodmanEnvironment, SequenceTheorems, TLAPS

-----------------------------------------------------------------------------
(***************************************************************************)
(* Lists without duplicates.                                               *)
(***************************************************************************)
Injective(s) == \A i, j \in DOMAIN s : s[i] = s[j] => i = j

\* push: a new element at the end of a list without duplicates.
LEMMA AppendRange ==
  ASSUME NEW S, NEW s \in Seq(S), NEW x \in S, Injective(s), x \notin Range(s)
  PROVE  /\ Append(s, x) \in Seq(S)
         /\ Range(Append(s, x)) = Range(s) \cup {x}
         /\ Injective(Append(s, x))
<1> DEFINE t == Append(s, x)
<1>1. t \in Seq(S) /\ Len(t) = Len(s) + 1 /\ t[Len(s) + 1] = x
      /\ \A i \in 1 .. Len(s) : t[i] = s[i]
  OBVIOUS
<1>2. DOMAIN s = 1 .. Len(s) /\ DOMAIN t = 1 .. Len(s) + 1 /\ Len(s) \in Nat
  BY <1>1
<1> HIDE DEF t
<1>3. Range(t) = Range(s) \cup {x}
  <2>1. ASSUME NEW y \in Range(t) PROVE y \in Range(s) \cup {x}
    BY <1>1, <1>2 DEF Range
  <2>2. ASSUME NEW y \in Range(s) PROVE y \in Range(t)
    BY <1>1, <1>2 DEF Range
  <2>3. x \in Range(t)
    BY <1>1, <1>2 DEF Range
  <2> QED BY <2>1, <2>2, <2>3
<1>4. Injective(t)
  <2> SUFFICES ASSUME NEW i \in 1 .. Len(s) + 1, NEW j \in 1 .. Len(s) + 1,
                      t[i] = t[j]
               PROVE  i = j
    BY <1>2 DEF Injective
  <2>1. \A k \in 1 .. Len(s) : t[k] # x
    BY <1>1, <1>2 DEF Range
  <2>2. i = Len(s) + 1 \/ i \in 1 .. Len(s)
    BY <1>2
  <2>3. j = Len(s) + 1 \/ j \in 1 .. Len(s)
    BY <1>2
  <2>4. CASE i \in 1 .. Len(s) /\ j \in 1 .. Len(s)
    BY <2>4, <1>1, <1>2 DEF Injective
  <2> QED BY <2>1, <2>2, <2>3, <2>4, <1>1
<1> QED BY <1>1, <1>3, <1>4 DEF t

\* indexOf finds an element that is there.
LEMMA IndexOfRange ==
  ASSUME NEW S, NEW s \in Seq(S), NEW x \in Range(s)
  PROVE  IndexOf(s, x) \in 1 .. Len(s) /\ s[IndexOf(s, x)] = x
<1>1. PICK i \in DOMAIN s : s[i] = x
  BY DEF Range
<1>2. DOMAIN s = 1 .. Len(s)
  OBVIOUS
<1> QED BY <1>1, <1>2 DEF IndexOf

\* splice(indexOf(x), 1) takes x out of a list without duplicates, and only x.
LEMMA SpliceRange ==
  ASSUME NEW S, NEW s \in Seq(S), NEW x \in Range(s), Injective(s)
  PROVE  /\ Splice(s, IndexOf(s, x)) \in Seq(S)
         /\ Range(Splice(s, IndexOf(s, x))) = Range(s) \ {x}
         /\ Injective(Splice(s, IndexOf(s, x)))
<1> DEFINE i == IndexOf(s, x)
           t == Splice(s, i)
<1>1. i \in 1 .. Len(s) /\ s[i] = x
  BY IndexOfRange
<1>2. DOMAIN s = 1 .. Len(s) /\ Len(s) \in Nat
  OBVIOUS
<1> HIDE DEF i
<1>3. /\ t \in Seq(S) /\ Len(t) = Len(s) - 1
      /\ \A k \in 1 .. Len(t) : t[k] = IF k < i THEN s[k] ELSE s[k + 1]
  <2> DEFINE u == SubSeq(s, 1, i - 1)
             v == SubSeq(s, i + 1, Len(s))
  <2>1. u \in Seq(S) /\ Len(u) = i - 1 /\ \A k \in 1 .. i - 1 : u[k] = s[k]
    BY SubSeqProperties, <1>1, <1>2
  <2>2. v \in Seq(S) /\ Len(v) = Len(s) - i /\ \A k \in 1 .. Len(s) - i : v[k] = s[i + k]
    <3>1. i + 1 \in Int /\ Len(s) \in Int /\ \A k \in i + 1 .. Len(s) : s[k] \in S
      BY <1>1, <1>2
    <3>2. /\ v \in Seq(S)
          /\ Len(v) = IF i + 1 <= Len(s) THEN Len(s) - (i + 1) + 1 ELSE 0
          /\ \A k \in 1 .. Len(s) - (i + 1) + 1 : v[k] = s[(i + 1) + k - 1]
      BY SubSeqProperties, <3>1
    <3> HIDE DEF v
    <3>3. Len(v) = Len(s) - i
      BY <3>2, <1>1, <1>2
    <3>4. ASSUME NEW k \in 1 .. Len(s) - i PROVE v[k] = s[i + k]
      <4>1. k \in 1 .. Len(s) - (i + 1) + 1 /\ (i + 1) + k - 1 = i + k
        BY <1>1, <1>2
      <4>2. v[k] = s[(i + 1) + k - 1]
        BY <3>2, <4>1
      <4> QED BY <4>1, <4>2
    <3> QED BY <3>2, <3>3, <3>4
  <2> HIDE DEF u, v
  <2>3. /\ u \o v \in Seq(S) /\ Len(u \o v) = Len(u) + Len(v)
        /\ \A k \in 1 .. Len(u) + Len(v) :
             (u \o v)[k] = IF k <= Len(u) THEN u[k] ELSE v[k - Len(u)]
    BY ConcatProperties, <2>1, <2>2
  <2>4. ASSUME NEW k \in 1 .. Len(s) - 1
        PROVE  (u \o v)[k] = IF k < i THEN s[k] ELSE s[k + 1]
    <3>1. CASE k < i
      BY <3>1, <2>1, <2>2, <2>3, <1>1, <1>2
    <3>2. CASE ~ (k < i)
      <4>1. k - (i - 1) \in 1 .. Len(s) - i /\ i + (k - (i - 1)) = k + 1
        BY <3>2, <1>1, <1>2
      <4>2. (u \o v)[k] = v[k - (i - 1)]
        BY <3>2, <2>1, <2>2, <2>3, <1>1, <1>2
      <4> QED BY <3>2, <4>1, <4>2, <2>2
    <3> QED BY <3>1, <3>2
  <2>5. Len(u \o v) = Len(s) - 1
    BY <2>1, <2>2, <2>3, <1>1, <1>2
  <2> QED BY <2>3, <2>4, <2>5 DEF Splice, u, v
<1>4. DOMAIN t = 1 .. Len(s) - 1
  BY <1>3
<1> HIDE DEF t
<1>5. Range(t) = Range(s) \ {x}
  <2>1. ASSUME NEW k \in 1 .. Len(s) - 1 PROVE t[k] \in Range(s) \ {x}
    <3>1. PICK m \in 1 .. Len(s) : m # i /\ t[k] = s[m]
      <4>1. CASE k < i
        BY <4>1, <1>1, <1>2, <1>3
      <4>2. CASE ~ (k < i)
        BY <4>2, <1>1, <1>2, <1>3
      <4> QED BY <4>1, <4>2
    <3> QED BY <3>1, <1>1, <1>2 DEF Range, Injective
  <2>2. ASSUME NEW k \in 1 .. Len(s), s[k] # x PROVE s[k] \in Range(t)
    <3>1. CASE k < i
      <4>1. k \in 1 .. Len(s) - 1 /\ t[k] = s[k]
        BY <3>1, <1>1, <1>2, <1>3
      <4> QED BY <4>1, <1>4 DEF Range
    <3>2. CASE k > i
      <4>1. k - 1 \in 1 .. Len(s) - 1 /\ t[k - 1] = s[k]
        BY <3>2, <1>1, <1>2, <1>3
      <4> QED BY <4>1, <1>4 DEF Range
    <3> QED BY <3>1, <3>2, <2>2, <1>1, <1>2
  <2> QED BY <2>1, <2>2, <1>2, <1>4 DEF Range
<1>6. Injective(t)
  <2> SUFFICES ASSUME NEW k \in 1 .. Len(s) - 1, NEW l \in 1 .. Len(s) - 1, t[k] = t[l]
               PROVE  k = l
    BY <1>4 DEF Injective
  <2>1. \A m \in 1 .. Len(s) - 1 : t[m] = IF m < i THEN s[m] ELSE s[m + 1]
    BY <1>3
  <2>2. \A m, n \in 1 .. Len(s) : s[m] = s[n] => m = n
    BY <1>2 DEF Injective
  <2> QED BY <2>1, <2>2, <1>1, <1>2
<1> QED BY <1>3, <1>5, <1>6 DEF t, i

\* splice never leaves anything but container ids in the list, even when the
\* id is not found.
LEMMA SpliceType ==
  ASSUME NEW S, NEW s \in Seq(S), NEW x
  PROVE  Splice(s, IndexOf(s, x)) \in Seq(S)
<1>1. DOMAIN s = 1 .. Len(s) /\ Len(s) \in Nat /\ \A k \in 1 .. Len(s) : s[k] \in S
  OBVIOUS
<1> DEFINE i == IndexOf(s, x)
<1>2. i \in 0 .. Len(s)
  <2>1. CASE \E k \in DOMAIN s : s[k] = x
    BY <2>1, <1>1 DEF IndexOf
  <2>2. CASE ~ \E k \in DOMAIN s : s[k] = x
    BY <2>2, <1>1 DEF IndexOf
  <2> QED BY <2>1, <2>2
<1> HIDE DEF i
<1>3. \A m, n \in Int : 1 <= m /\ n <= Len(s) => SubSeq(s, m, n) \in Seq(S)
  <2> SUFFICES ASSUME NEW m \in Int, NEW n \in Int, 1 <= m, n <= Len(s)
               PROVE  SubSeq(s, m, n) \in Seq(S)
    OBVIOUS
  <2>1. \A k \in m .. n : s[k] \in S
    BY <1>1
  <2> QED BY <2>1, SubSeqProperties
<1>4. SubSeq(s, 1, i - 1) \in Seq(S) /\ SubSeq(s, i + 1, Len(s)) \in Seq(S)
  BY <1>1, <1>2, <1>3
<1> QED BY ConcatProperties, <1>2, <1>4 DEF Splice, i

-----------------------------------------------------------------------------
USE EnvAssumption, ApiAssumption

\* A call whose createContainer was answered knows the id it is to list.
CreatedHasId ==
  \A b \in Build : Answered(b, "createContainer", "fulfilled") => containerId[b] \in ContainerId
TypeInv == EnvTypeOK /\ CreatedHasId

\* The steps of the environment keep its variables within their types.
LEMMA TypeStep == TypeInv /\ [EnvNext]_vars => TypeInv'
<1> SUFFICES ASSUME TypeInv, [EnvNext]_vars PROVE TypeInv'
  OBVIOUS
<1> USE DEF TypeInv, CreatedHasId, EnvTypeOK, PodmanTypeOK, ContainerState, ExitCode, Promise, Awaited, Ended,
            podmanVars, envVars, Await, Settle, Answered, Answers, Becomes
<1>1. ASSUME NEW result \in {"fulfilled", "rejected"}, PruneContainers(result)
      PROVE  TypeInv'
  BY <1>1 DEF PruneContainers, DeleteStoppedContainers
<1>2. ASSUME NEW b \in Build, RunBuilderInOwnContainer(b) PROVE TypeInv'
  BY <1>2 DEF RunBuilderInOwnContainer
<1>3. ASSUME NEW b \in Build, PodmanAnswers(b) PROVE TypeInv'
  <2>1. CASE PodmanCreates(b)
    BY <2>1 DEF PodmanCreates, CreateContainer
  <2>2. CASE PodmanStarts(b)
    BY <2>2 DEF PodmanStarts, StartContainer
  <2>3. CASE PodmanWaited(b)
    BY <2>3 DEF PodmanWaited, WaitOnContainer
  <2>4. CASE PodmanDeletesFailed(b)
    BY <2>4 DEF PodmanDeletesFailed, DeleteContainer
  <2>5. CASE PodmanDeletesSucceeded(b)
    BY <2>5 DEF PodmanDeletesSucceeded, DeleteContainer
  <2> QED BY <1>3, <2>1, <2>2, <2>3, <2>4, <2>5 DEF PodmanAnswers
<1>4. ASSUME NEW b \in Build, Continues(b) PROVE TypeInv'
  <2>1. CASE AfterCreate(b)
    <3>1. CASE promise[b] = "fulfilled"
      <4>1. Append(runningContainerIds, containerId[b]) \in Seq(ContainerId)
        BY <2>1, <3>1, AppendProperties DEF AfterCreate
      <4> QED BY <2>1, <3>1, <4>1 DEF AfterCreate
    <3>2. CASE promise[b] # "fulfilled"
      BY <2>1, <3>2 DEF AfterCreate
    <3> QED BY <3>1, <3>2
  <2>2. CASE AfterStart(b)
    BY <2>2 DEF AfterStart
  <2>3. CASE AfterWait(b)
    BY <2>3 DEF AfterWait
  <2>4. CASE AfterLogs(b)
    BY <2>4 DEF AfterLogs
  <2>5. CASE AfterDeleteFailed(b)
    BY <2>5 DEF AfterDeleteFailed
  <2>6. CASE AfterDeleteSucceeded(b)
    <3>1. Splice(runningContainerIds, IndexOf(runningContainerIds, containerId[b]))
            \in Seq(ContainerId)
      BY SpliceType
    <3> QED BY <2>6, <3>1 DEF AfterDeleteSucceeded
  <2> QED BY <1>4, <2>1, <2>2, <2>3, <2>4, <2>5, <2>6 DEF Continues
<1>5. ASSUME NEW c \in ContainerId, Exits(c) PROVE TypeInv'
  BY <1>5 DEF Exits, ContainerExits
<1>6. ASSUME NEW c \in ContainerId, PodmanKills(c) PROVE TypeInv'
  BY <1>6 DEF PodmanKills, DeleteContainer
<1>7. CASE AbortRunningBuilders
  BY <1>7 DEF AbortRunningBuilders
<1>8. CASE AbortSettles
  BY <1>8 DEF AbortSettles
<1>9. CASE UNCHANGED vars
  BY <1>9 DEF vars
<1> QED BY <1>1, <1>2, <1>3, <1>4, <1>5, <1>6, <1>7, <1>8, <1>9 DEF EnvNext, EnvFinished

\* Every variable of the environment and of podman keeps its type.
THEOREM EnvTypeCorrect == EnvSpec => []EnvTypeOK
<1>1. EnvInit => TypeInv
  BY DEF EnvInit, PodmanInit, TypeInv, CreatedHasId, Answered, EnvTypeOK, PodmanTypeOK, ContainerState, ExitCode, Promise
<1>2. TypeInv => EnvTypeOK
  BY DEF TypeInv
<1> QED BY <1>1, <1>2, TypeStep, PTL DEF EnvSpec

-----------------------------------------------------------------------------
(***************************************************************************)
(* The inductive invariant.  A call holds an id of its own from the moment *)
(* podman created the container; the id is listed from the push on and     *)
(* until the splice, and only of a call that is between the two; podman's  *)
(* view of the container is what the awaited call lets one expect.         *)
(***************************************************************************)
Unlisted == {"notCalled", "createContainer", "resolved"}
HasId(b) == containerId[b] # NoContainer

IdsInv ==
  /\ \A b \in Build :
       /\ pc[b] = "notCalled" => ~ HasId(b)
       /\ pc[b] = "createContainer" => (HasId(b) <=> promise[b] = "fulfilled")
       /\ pc[b] \in (Awaited \ {"createContainer"}) \cup {"resolved"} => HasId(b)
       /\ HasId(b) => container[containerId[b]] # "unused"
  /\ \A a, b \in Build : HasId(a) /\ containerId[a] = containerId[b] => a = b

ListInv ==
  /\ Injective(runningContainerIds)
  /\ \A b \in Build : HasId(b) /\ pc[b] \notin Unlisted => containerId[b] \in Listed
  /\ \A c \in Listed : \E b \in Build : containerId[b] = c /\ pc[b] \notin Unlisted

StateInv ==
  \A b \in Build :
    /\ Answered(b, "createContainer", "fulfilled") => container[containerId[b]] = "created"
    /\ \/ pc[b] \in {"deleteSucceeded", "resolved"}
       \/ Answered(b, "waitOnContainer", "zero")
       => /\ exitCode[containerId[b]] = "zero"
          /\ container[containerId[b]] \in {"exited", "removed"}
    /\ \/ pc[b] = "resolved"
       \/ Answered(b, "deleteSucceeded", "fulfilled")
       => container[containerId[b]] = "removed"

KillInv ==
  /\ \A c \in ContainerId : kill[c] = "fulfilled" => container[c] = "removed"
  /\ \A c \in ContainerId : kill[c] # "none" =>
       \E b \in Build : containerId[b] = c /\ pc[b] # "createContainer"
  /\ abort = "notCalled" => \A c \in ContainerId : kill[c] = "none"
  /\ abort = "resolved" => \A c \in ContainerId : kill[c] \in {"none", "fulfilled"}

EnvInv == EnvTypeOK /\ IdsInv /\ ListInv /\ StateInv /\ KillInv

\* The initial states satisfy the invariant.
LEMMA InvInit == EnvInit => EnvInv
<1> SUFFICES ASSUME EnvInit PROVE EnvInv
  OBVIOUS
<1>1. EnvTypeOK
  BY DEF EnvInit, PodmanInit, EnvTypeOK, PodmanTypeOK, ContainerState, ExitCode, Promise
<1>2. IdsInv /\ StateInv /\ KillInv
  BY DEF EnvInit, IdsInv, StateInv, KillInv, HasId, Answered, Awaited
<1>3. Listed = {} /\ Injective(runningContainerIds)
  BY DEF EnvInit, Injective, Range, Listed
<1>4. ListInv
  BY <1>3 DEF EnvInit, ListInv, Unlisted
<1> QED BY <1>1, <1>2, <1>4 DEF EnvInv

\* The invariant implies what the type lemmas need.
LEMMA InvType == EnvInv => TypeInv
BY DEF EnvInv, IdsInv, HasId, TypeInv, CreatedHasId, Answered, EnvTypeOK

\* An answer of podman to a call of runBuilderInOwnContainer.
LEMMA InvPodmanAnswers ==
  ASSUME EnvInv, EnvTypeOK', NEW b \in Build, PodmanAnswers(b)
  PROVE  EnvInv'
<1> USE DEF EnvInv, EnvTypeOK, PodmanTypeOK, Answers, Answered, Becomes
<1>1. CASE PodmanCreates(b)
  <2>1. PICK c \in ContainerId, result \in {"fulfilled", "rejected"} :
          /\ Answers(b, "createContainer", result)
          /\ CreateContainer(c, result)
          /\ containerId' = IF result = "fulfilled"
                            THEN [containerId EXCEPT ![b] = c] ELSE containerId
    BY <1>1 DEF PodmanCreates
  <2>2. container[c] = "unused" /\ \A d \in ContainerId \ {c} : container'[d] = container[d]
    BY <2>1 DEF CreateContainer
  <2>3. ~ HasId(b) /\ \A a \in Build : containerId[a] # c
    BY <2>1, <2>2 DEF IdsInv, HasId
  <2>4. IdsInv'
    BY <2>1, <2>2, <2>3 DEF IdsInv, HasId, CreateContainer, Awaited, ContainerState
  <2>5. ListInv'
    BY <2>1, <2>3 DEF ListInv, HasId, Unlisted, Listed, Injective
  <2>6. StateInv'
    BY <2>1, <2>2, <2>3 DEF StateInv, IdsInv, HasId, CreateContainer, Awaited
  <2>7. KillInv'
    BY <2>1, <2>2, <2>3 DEF KillInv, HasId
  <2> QED BY <2>4, <2>5, <2>6, <2>7
<1>2. CASE PodmanStarts(b)
  <2>1. ListInv' /\ IdsInv'
    BY <1>2 DEF PodmanStarts, StartContainer, IdsInv, ListInv, HasId, Listed, Unlisted,
                Injective, Awaited
  <2>2. StateInv'
    BY <1>2 DEF PodmanStarts, StartContainer, IdsInv, StateInv, HasId, Awaited
  <2>3. KillInv'
    BY <1>2 DEF PodmanStarts, StartContainer, KillInv
  <2> QED BY <2>1, <2>2, <2>3
<1>3. CASE PodmanWaited(b)
  <2>1. ListInv' /\ IdsInv' /\ KillInv'
    BY <1>3 DEF PodmanWaited, WaitOnContainer, podmanVars, IdsInv, ListInv, KillInv, HasId,
                Listed, Unlisted, Injective, Awaited
  <2>2. StateInv'
    BY <1>3 DEF PodmanWaited, WaitOnContainer, podmanVars, IdsInv, StateInv, HasId, Awaited
  <2> QED BY <2>1, <2>2
<1>4. CASE PodmanDeletesFailed(b)
  <2>1. ListInv' /\ IdsInv'
    BY <1>4 DEF PodmanDeletesFailed, DeleteContainer, podmanVars, IdsInv, ListInv, HasId,
                Listed, Unlisted, Injective, Awaited
  <2>2. StateInv'
    BY <1>4 DEF PodmanDeletesFailed, DeleteContainer, podmanVars, IdsInv, StateInv, HasId,
                Awaited, Stopped
  <2>3. KillInv'
    BY <1>4 DEF PodmanDeletesFailed, DeleteContainer, podmanVars, KillInv
  <2> QED BY <2>1, <2>2, <2>3
<1>5. CASE PodmanDeletesSucceeded(b)
  <2>1. ListInv' /\ IdsInv'
    BY <1>5 DEF PodmanDeletesSucceeded, DeleteContainer, podmanVars, IdsInv, ListInv, HasId,
                Listed, Unlisted, Injective, Awaited
  <2>2. StateInv'
    BY <1>5 DEF PodmanDeletesSucceeded, DeleteContainer, podmanVars, IdsInv, StateInv, HasId,
                Awaited, Stopped
  <2>3. KillInv'
    BY <1>5 DEF PodmanDeletesSucceeded, DeleteContainer, podmanVars, KillInv
  <2> QED BY <2>1, <2>2, <2>3
<1> QED BY <1>1, <1>2, <1>3, <1>4, <1>5 DEF PodmanAnswers

\* runBuilderInOwnContainer goes on after an answer.
LEMMA InvContinues ==
  ASSUME EnvInv, EnvTypeOK', NEW b \in Build, Continues(b)
  PROVE  EnvInv'
<1> USE DEF EnvInv, EnvTypeOK, Await, Settle, Answered, podmanVars
<1>1. CASE AfterCreate(b)
  <2>1. IdsInv' /\ StateInv' /\ KillInv'
    BY <1>1 DEF AfterCreate, IdsInv, StateInv, KillInv, HasId, Awaited
  <2>2. ListInv'
    <3>1. CASE promise[b] = "fulfilled"
      <4> DEFINE c == containerId[b]
      <4>1. c \in ContainerId /\ pc[b] = "createContainer" /\ pc' = [pc EXCEPT ![b] = "startContainer"]
            /\ runningContainerIds' = Append(runningContainerIds, c)
            /\ containerId' = containerId
        BY <1>1, <3>1 DEF AfterCreate, IdsInv, HasId
      <4>2. c \notin Listed
        BY <4>1 DEF ListInv, IdsInv, HasId, Unlisted
      <4>3. Listed' = Listed \cup {c} /\ Injective(runningContainerIds)'
        BY <4>1, <4>2, AppendRange DEF ListInv, Listed
      <4> QED BY <4>1, <4>3 DEF ListInv, HasId, Unlisted
    <3>2. CASE promise[b] # "fulfilled"
      BY <1>1, <3>2 DEF AfterCreate, ListInv, IdsInv, HasId, Listed, Unlisted, Injective
    <3> QED BY <3>1, <3>2
  <2> QED BY <2>1, <2>2
<1>2. CASE AfterStart(b) \/ AfterWait(b) \/ AfterLogs(b) \/ AfterDeleteFailed(b)
  <2>1. IdsInv'
    BY <1>2 DEF AfterStart, AfterWait, AfterLogs, AfterDeleteFailed, IdsInv, HasId, Awaited
  <2>2. ListInv'
    BY <1>2 DEF AfterStart, AfterWait, AfterLogs, AfterDeleteFailed, ListInv, HasId, Unlisted,
                Listed, Injective
  <2>3. StateInv' /\ KillInv'
    BY <1>2 DEF AfterStart, AfterWait, AfterLogs, AfterDeleteFailed, StateInv, KillInv
  <2> QED BY <2>1, <2>2, <2>3
<1>3. CASE AfterDeleteSucceeded(b)
  <2>1. IdsInv' /\ StateInv' /\ KillInv'
    BY <1>3 DEF AfterDeleteSucceeded, IdsInv, StateInv, KillInv, HasId, Awaited
  <2>2. ListInv'
    <3>1. CASE promise[b] = "fulfilled"
      <4> DEFINE c == containerId[b]
      <4>1. HasId(b) /\ pc[b] = "deleteSucceeded" /\ pc' = [pc EXCEPT ![b] = "resolved"]
            /\ runningContainerIds' = Splice(runningContainerIds, IndexOf(runningContainerIds, c))
            /\ containerId' = containerId
        BY <1>3, <3>1 DEF AfterDeleteSucceeded, IdsInv, Awaited
      <4>2. c \in Listed
        BY <4>1 DEF ListInv, Unlisted
      <4>3. Listed' = Listed \ {c} /\ Injective(runningContainerIds)'
        BY <4>1, <4>2, SpliceRange DEF ListInv, Listed
      <4>4. \A a \in Build : HasId(a) /\ containerId[a] = c => a = b
        BY <4>1 DEF IdsInv
      <4>5. \A a \in Build : HasId(a) /\ pc'[a] \notin Unlisted => containerId[a] \in Listed'
        BY <4>1, <4>3, <4>4 DEF ListInv, Unlisted
      <4>6. \A d \in Listed' : \E a \in Build : containerId[a] = d /\ pc'[a] \notin Unlisted
        BY <4>1, <4>3 DEF ListInv
      <4> QED BY <4>1, <4>3, <4>5, <4>6 DEF ListInv, HasId
    <3>2. CASE promise[b] # "fulfilled"
      BY <1>3, <3>2 DEF AfterDeleteSucceeded, ListInv, HasId, Listed, Unlisted, Injective
    <3> QED BY <3>1, <3>2
  <2> QED BY <2>1, <2>2
<1> QED BY <1>1, <1>2, <1>3 DEF Continues

\* The invariant is kept by every step.
LEMMA InvStep == EnvInv /\ [EnvNext]_vars => EnvInv'
<1> SUFFICES ASSUME EnvInv, [EnvNext]_vars PROVE EnvInv'
  OBVIOUS
<1> USE DEF EnvInv
<1>0. EnvTypeOK'
  BY InvType, TypeStep DEF TypeInv
<1>1. ASSUME NEW result \in {"fulfilled", "rejected"}, PruneContainers(result)
      PROVE  EnvInv'
  <2>1. \A b \in Build : ~ HasId(b) /\ pc[b] = "notCalled"
    BY <1>1 DEF PruneContainers, IdsInv
  <2>2. IdsInv'
    BY <1>1, <2>1 DEF PruneContainers, DeleteStoppedContainers, envVars, IdsInv, HasId
  <2>3. ListInv'
    BY <1>1 DEF PruneContainers, envVars, ListInv, HasId, Listed, Injective, Unlisted
  <2>4. StateInv'
    BY <1>1, <2>1 DEF PruneContainers, envVars, StateInv, Answered
  <2>5. KillInv'
    BY <1>1, <2>1 DEF PruneContainers, DeleteStoppedContainers, envVars, KillInv, HasId,
                      EnvTypeOK, PodmanTypeOK
  <2> QED BY <1>0, <2>2, <2>3, <2>4, <2>5
<1>2. ASSUME NEW b \in Build, RunBuilderInOwnContainer(b) PROVE EnvInv'
  BY <1>0, <1>2 DEF RunBuilderInOwnContainer, Await, Answered, podmanVars, EnvTypeOK, IdsInv,
                    ListInv, StateInv, KillInv, HasId, Listed, Injective, Unlisted, Awaited
<1>3. ASSUME NEW b \in Build, PodmanAnswers(b) PROVE EnvInv'
  BY <1>0, <1>3, InvPodmanAnswers
<1>4. ASSUME NEW b \in Build, Continues(b) PROVE EnvInv'
  BY <1>0, <1>4, InvContinues
<1>5. ASSUME NEW c \in ContainerId, Exits(c) PROVE EnvInv'
  <2>1. IdsInv' /\ ListInv'
    BY <1>5 DEF Exits, ContainerExits, Becomes, envVars, EnvTypeOK, PodmanTypeOK, IdsInv,
                ListInv, HasId, Listed, Injective, Unlisted, Awaited
  <2>2. StateInv'
    BY <1>5 DEF Exits, ContainerExits, Becomes, envVars, EnvTypeOK, PodmanTypeOK, StateInv,
                Answered
  <2>3. KillInv'
    BY <1>5 DEF Exits, ContainerExits, Becomes, envVars, EnvTypeOK, PodmanTypeOK, KillInv
  <2> QED BY <1>0, <2>1, <2>2, <2>3
<1>6. ASSUME NEW c \in ContainerId, PodmanKills(c) PROVE EnvInv'
  <2> USE DEF PodmanKills, DeleteContainer, Becomes, podmanVars, EnvTypeOK, PodmanTypeOK
  <2>1. IdsInv' /\ ListInv'
    BY <1>6 DEF IdsInv, ListInv, HasId, Listed, Injective, Unlisted, Awaited
  <2>2. PICK a \in Build : containerId[a] = c /\ pc[a] # "createContainer"
    BY <1>6 DEF KillInv
  <2>3. \A b \in Build : HasId(b) /\ containerId[b] = c => b = a
    BY <2>2 DEF IdsInv
  <2>4. \A b \in Build : Answered(b, "createContainer", "fulfilled") => containerId[b] # c
    BY <2>2, <2>3 DEF IdsInv, Answered, HasId
  <2>5. StateInv'
    <3>1. pc' = pc /\ promise' = promise /\ containerId' = containerId
      BY <1>6
    <3>2. \A d \in ContainerId : d # c => container'[d] = container[d] /\ exitCode'[d] = exitCode[d]
      BY <1>6
    <3>3. /\ container[c] = "removed" => container'[c] = "removed"
          /\ container[c] \in {"exited", "removed"} =>
               container'[c] \in {"exited", "removed"} /\ exitCode'[c] = exitCode[c]
      BY <1>6 DEF Stopped
    <3>4. \A b \in Build : pc[b] \in (Awaited \ {"createContainer"}) \cup {"resolved"} =>
                              containerId[b] \in ContainerId
      BY DEF IdsInv, HasId
    <3>5. \A b \in Build : Answered(b, "createContainer", "fulfilled") =>
                              containerId[b] \in ContainerId
      BY DEF IdsInv, HasId, Answered
    <3> QED BY <2>4, <3>1, <3>2, <3>3, <3>4, <3>5 DEF StateInv, Answered, Awaited
  <2>6. KillInv'
    BY <1>6 DEF KillInv
  <2> QED BY <1>0, <2>1, <2>5, <2>6
<1>7. CASE AbortRunningBuilders
  <2>1. IdsInv' /\ ListInv' /\ StateInv'
    BY <1>7 DEF AbortRunningBuilders, podmanVars, IdsInv, ListInv, StateInv, HasId, Listed,
                Injective, Unlisted, Awaited, Answered
  <2>2. KillInv'
    <3>1. runningContainerIds = <<>> => Range(runningContainerIds) = {}
      BY DEF Range
    <3> QED BY <1>7, <3>1 DEF AbortRunningBuilders, podmanVars, KillInv, ListInv, Listed,
                              Unlisted, EnvTypeOK
  <2> QED BY <1>0, <2>1, <2>2
<1>8. CASE AbortSettles
  BY <1>0, <1>8 DEF AbortSettles, podmanVars, IdsInv, ListInv, StateInv, KillInv, HasId,
                    Listed, Injective, Unlisted, Awaited, Answered
<1>9. CASE UNCHANGED vars
  BY <1>0, <1>9 DEF vars, podmanVars, envVars, IdsInv, ListInv, StateInv, KillInv, HasId,
                    Listed, Injective, Unlisted, Awaited, Answered
<1> QED BY <1>1, <1>2, <1>3, <1>4, <1>5, <1>6, <1>7, <1>8, <1>9 DEF EnvNext, EnvFinished

\* The inductive invariant holds in every reachable state.
THEOREM InvCorrect == EnvSpec => []EnvInv
BY InvInit, InvStep, PTL DEF EnvSpec

-----------------------------------------------------------------------------
(***************************************************************************)
(* The properties.                                                         *)
(***************************************************************************)

\* abortRunningBuilders reaches every container that the environment started
\* and that runs.
THEOREM StartedIsRegisteredCorrect == EnvSpec => []StartedIsRegistered
<1>1. EnvInv => StartedIsRegistered
  <2> SUFFICES ASSUME EnvInv, NEW b \in Build, HasId(b), container[containerId[b]] = "running"
               PROVE  containerId[b] \in Listed
    BY DEF StartedIsRegistered, Own, HasId
  <2>1. pc[b] \notin Unlisted
    BY DEF EnvInv, IdsInv, StateInv, Unlisted, Answered
  <2> QED BY <2>1 DEF EnvInv, ListInv
<1> QED BY <1>1, InvCorrect, PTL

\* A build resolves only for a builder that exited with 0 and is removed.
THEOREM SuccessMeansExitZeroCorrect == EnvSpec => []SuccessMeansExitZero
<1>1. EnvInv => SuccessMeansExitZero
  BY DEF EnvInv, StateInv, SuccessMeansExitZero
<1> QED BY <1>1, InvCorrect, PTL

\* An abort that resolved has removed everything it was asked to.
THEOREM AbortStopsRegisteredCorrect == EnvSpec => []AbortStopsRegistered
<1>1. EnvInv => AbortStopsRegistered
  BY DEF EnvInv, KillInv, AbortStopsRegistered
<1> QED BY <1>1, InvCorrect, PTL

\* No splice takes an id from the list before its container is removed.
THEOREM ListedUntilGoneCorrect == EnvSpec => ListedUntilGone
<1> DEFINE Kept == \A c \in Listed : c \in Listed' \/ container[c] = "removed"
<1>1. EnvInv /\ [EnvNext]_vars => [Kept]_vars
  <2> SUFFICES ASSUME EnvInv, EnvNext PROVE Kept
    BY DEF vars
  <2>1. CASE runningContainerIds' = runningContainerIds
    BY <2>1 DEF Listed
  <2>2. ASSUME NEW b \in Build, AfterCreate(b), runningContainerIds' # runningContainerIds
        PROVE  Kept
    <3>1. containerId[b] \in ContainerId \ Listed
          /\ runningContainerIds' = Append(runningContainerIds, containerId[b])
      BY <2>2 DEF AfterCreate, Answered, EnvInv, EnvTypeOK, IdsInv, ListInv, HasId, Unlisted
    <3> QED BY <3>1, AppendRange DEF EnvInv, EnvTypeOK, ListInv, Listed
  <2>3. ASSUME NEW b \in Build, AfterDeleteSucceeded(b),
               runningContainerIds' # runningContainerIds
        PROVE  Kept
    <3>1. /\ containerId[b] \in Listed /\ container[containerId[b]] = "removed"
          /\ runningContainerIds' =
               Splice(runningContainerIds, IndexOf(runningContainerIds, containerId[b]))
      BY <2>3 DEF AfterDeleteSucceeded, Answered, EnvInv, IdsInv, ListInv, StateInv, HasId,
                  Unlisted, Awaited
    <3> QED BY <3>1, SpliceRange DEF EnvInv, EnvTypeOK, ListInv, Listed
  <2>4. \/ runningContainerIds' = runningContainerIds
        \/ \E b \in Build : AfterCreate(b) \/ AfterDeleteSucceeded(b)
    BY DEF EnvNext, PruneContainers, envVars, RunBuilderInOwnContainer, PodmanAnswers,
           PodmanCreates, PodmanStarts, PodmanWaited, PodmanDeletesFailed,
           PodmanDeletesSucceeded, Answers, Continues, AfterStart, AfterWait, AfterLogs,
           AfterDeleteFailed, Exits, PodmanKills, AbortRunningBuilders, AbortSettles,
           EnvFinished, vars
  <2> QED BY <2>1, <2>2, <2>3, <2>4
<1> QED BY <1>1, InvCorrect, PTL DEF EnvSpec, ListedUntilGone
=============================================================================
