----------------------- MODULE ArtifactDirectoryProofs -----------------------
(***************************************************************************)
(* The promises of ArtifactDirectory, for any number of attempts and any   *)
(* files.                                                                  *)
(***************************************************************************)
EXTENDS ArtifactDirectory, SequenceTheorems, TLAPS

\* Every plan is a sequence of at least one step.
LEMMA PlanType ==
  ASSUME NEW k, NEW s, <<k, s>> \in Plans
  PROVE  s \in Seq(File \cup {"ask", "parse"}) /\ Len(s) > 0
<1> DEFINE Step == File \cup {"ask", "parse"}
<1>1. \A d \in DownloadLists : d \in Seq(Step)
  <2> SUFFICES ASSUME NEW n \in Nat, NEW d \in [1 .. n -> Artifact] PROVE d \in Seq(Step)
    BY DEF DownloadLists
  <2>1. d \in [1 .. n -> Step]
    BY DEF File
  <2> QED BY <2>1, SeqDef
<1>2. \A a \in Artifact : <<a>> \in Seq(Step)
  BY DEF File
<1>3. \A d \in Seq(Step), h \in Seq(Step) : h # <<>> => h \o d \in Seq(Step) /\ Len(h \o d) > 0
  BY ConcatProperties, LenProperties, EmptySeq
<1>4. \A d \in Seq(Step) :
        \A h \in {<<"info">>, <<"ask">>, <<"ask", "info", "parse">>} :
          h \o d \in Seq(Step) /\ Len(h \o d) > 0
  <2>1. <<"info">> \in Seq(Step) /\ <<"ask">> \in Seq(Step) /\ <<"ask", "info", "parse">> \in Seq(Step)
    BY DEF File
  <2> QED BY <2>1, <1>3
<1> HIDE DEF Step
<1>5. \A d \in Seq(Step) : /\ PaperPlan(d) \in Seq(Step) /\ Len(PaperPlan(d)) > 0
                           /\ PurpurPlan(d) \in Seq(Step) /\ Len(PurpurPlan(d)) > 0
                           /\ PufferfischPlan(d) \in Seq(Step) /\ Len(PufferfischPlan(d)) > 0
                           /\ MojangPlan(d) \in Seq(Step) /\ Len(MojangPlan(d)) > 0
  BY <1>4 DEF PaperPlan, PurpurPlan, PufferfischPlan, MojangPlan
<1>6. s \in Seq(Step) /\ Len(s) > 0
  BY <1>1, <1>2, <1>5 DEF Plans
<1> QED BY <1>6 DEF Step

-----------------------------------------------------------------------------
(***************************************************************************)
(* The inductive invariant.  Unless two attempts have passed the check     *)
(* before either made the directory, one at most is past its check at any  *)
(* time, of whichever run; what it has done of its plan is in the          *)
(* directory, nobody has built the artifact yet, and an incomplete         *)
(* directory has a culprit: the attempt in its try, or a killed one.       *)
(***************************************************************************)
Past == {"mkdir"} \cup InTry
Stored(i) == plan[i] \in File => file[plan[i]] = "complete"

PlaceInv ==
  \A p \in Builder :
    /\ pc[p] \in {"notListed", "scheduled", "starting", "fetchBuild", "mkdir"} => next[p] = 1
    /\ pc[p] \in {"step", "writeFile"} => next[p] \in 1 .. Len(plan)
    /\ pc[p] = "writeFile" => plan[next[p]] \in File

DoneInv ==
  \A p \in Builder :
    /\ pc[p] \in InTry => dir = "present"
    /\ pc[p] = "step" => \A i \in 1 .. next[p] - 1 : Stored(i)
    /\ pc[p] = "writeFile" =>
         /\ file[plan[next[p]]] = p
         /\ \A i \in 1 .. next[p] - 1 : Stored(i) \/ plan[i] = plan[next[p]]

AloneInv ==
  /\ \A p, q \in Builder : pc[p] \in Past /\ pc[q] \in Past => p = q
  /\ \A p \in Builder : pc[p] = "mkdir" => dir = "absent"
  /\ DoneInv
  /\ (\E p \in Builder : pc[p] = "built") => Complete /\ \A p \in Builder : pc[p] \notin Past
  /\ dir = "present" /\ ~ Complete => \E p \in Builder : pc[p] \in InTry \cup {"killed"}

DirInv == DirTypeOK /\ PlaceInv /\ (~ raced => AloneInv)

\* The initial states satisfy the invariant.
LEMMA DirInvInit == DirInit => DirInv
<1> SUFFICES ASSUME DirInit PROVE DirInv
  OBVIOUS
<1>1. <<kind, plan>> \in Plans
  <2>1. PICK k \in Plans : kind = k[1] /\ plan = k[2]
    BY DEF DirInit
  <2>2. \E x, y : k = <<x, y>>
    BY DEF Plans
  <2> QED BY <2>1, <2>2
<1>2. Len(plan) \in Nat
  BY <1>1, PlanType, LenProperties
<1>3. DirTypeOK
  <2>1. raced \in BOOLEAN /\ run \in Builder \cup {NoRun}
    BY DEF DirInit
  <2>2. next \in [Builder -> 1 .. Len(plan) + 1]
    BY <1>2 DEF DirInit
  <2> QED BY <1>1, <2>1, <2>2 DEF DirInit, DirTypeOK
<1>4. PlaceInv
  BY DEF DirInit, PlaceInv
<1>5. AloneInv
  <2>1. dir = "absent" /\ \A p \in Builder : pc[p] = "notListed"
    BY DEF DirInit
  <2> QED BY <2>1 DEF AloneInv, DoneInv, Past, InTry
<1> QED BY <1>3, <1>4, <1>5 DEF DirInv

\* The plan of any state is a sequence of at least one step.
LEMMA PlanIsSeq ==
  ASSUME DirTypeOK
  PROVE  /\ plan \in Seq(File \cup {"ask", "parse"})
         /\ Len(plan) \in Nat /\ Len(plan) > 0 /\ DOMAIN plan = 1 .. Len(plan)
BY PlanType, LenProperties DEF DirTypeOK

\* An attempt that goes to its next step, or has taken the last.
LEMMA AdvanceStep ==
  ASSUME DirInv, NEW p \in Builder, pc[p] \in {"step", "writeFile"}, Advance(p)
  PROVE  /\ next' = [next EXCEPT ![p] = next[p] + 1] /\ next[p] \in 1 .. Len(plan)
         /\ \/ pc' = [pc EXCEPT ![p] = "step"] /\ next'[p] \in 1 .. Len(plan)
            \/ pc' = [pc EXCEPT ![p] = "built"] /\ next[p] = Len(plan)
         /\ UNCHANGED <<kind, plan, dir, run, raced>>
<1>1. next[p] \in 1 .. Len(plan) /\ Len(plan) \in Nat
  BY PlanIsSeq DEF DirInv, PlaceInv
<1>2. next \in [Builder -> 1 .. Len(plan) + 1]
  BY DEF DirInv, DirTypeOK
<1>3. /\ next' = [next EXCEPT ![p] = next[p] + 1]
      /\ pc' = [pc EXCEPT ![p] = IF next[p] = Len(plan) THEN "built" ELSE "step"]
      /\ UNCHANGED <<kind, plan, dir, run, raced>>
  BY DEF Advance, Go
<1>4. CASE next[p] = Len(plan)
  BY <1>1, <1>3, <1>4
<1>5. CASE next[p] # Len(plan)
  <2>1. next'[p] = next[p] + 1
    BY <1>2, <1>3
  <2>2. pc' = [pc EXCEPT ![p] = "step"]
    BY <1>3, <1>5
  <2>3. next'[p] \in 1 .. Len(plan)
    BY <1>1, <1>5, <2>1
  <2> QED BY <1>1, <1>3, <2>2, <2>3
<1> QED BY <1>4, <1>5

\* Every step keeps the types, and every attempt at a step of the plan.
LEMMA DirTypeStep == DirInv /\ [DirNext]_dirVars => DirTypeOK' /\ PlaceInv'
<1> SUFFICES ASSUME DirInv, [DirNext]_dirVars PROVE DirTypeOK' /\ PlaceInv'
  OBVIOUS
<1>0. Len(plan) \in Nat /\ Len(plan) > 0
  BY PlanIsSeq DEF DirInv
<1> USE DEF DirTypeOK, PlaceInv, Go, Throw, InTry, Working, Over
<1>1. CASE UNCHANGED dirVars
  BY <1>1 DEF dirVars, DirInv
<1>2. ASSUME NEW p \in Builder, ListVersion(p) \/ TakeTask(p) \/ Kill(p)
      PROVE  DirTypeOK' /\ PlaceInv'
  BY <1>2 DEF ListVersion, TakeTask, Kill, DirInv
<1>9. CASE RunEnds
  <2>1. \A p \in Builder : pc'[p] = pc[p] \/ pc'[p] = "dropped"
    BY <1>9 DEF RunEnds
  <2>2. pc' \in [Builder -> {"notListed", "scheduled", "starting"} \cup Working \cup Over]
    BY <1>9 DEF RunEnds, DirInv
  <2> QED BY <1>9, <2>1, <2>2 DEF RunEnds, DirInv
<1>10. ASSUME NEW q \in Builder, RunBegins(q) PROVE DirTypeOK' /\ PlaceInv'
  <2>1. \A p \in Builder : pc'[p] = pc[p] \/ pc'[p] = "dropped"
    BY <1>10 DEF RunBegins
  <2>2. pc' \in [Builder -> {"notListed", "scheduled", "starting"} \cup Working \cup Over]
    BY <1>10 DEF RunBegins, DirInv
  <2> QED BY <1>10, <2>1, <2>2 DEF RunBegins, DirInv
<1>11. ASSUME NEW p \in Builder, Begin(p) \/ FetchBuild(p) PROVE DirTypeOK' /\ PlaceInv'
  BY <1>11 DEF Begin, FetchBuild, CheckAbsent, DirInv
<1>3. ASSUME NEW p \in Builder, MakeDirectory(p) \/ Remove(p)
      PROVE  DirTypeOK' /\ PlaceInv'
  <2>1. CASE MakeDirectory(p)
    <3>1. /\ pc[p] = "mkdir" /\ next[p] = 1 /\ next[p] \in 1 .. Len(plan)
      BY <1>0, <2>1 DEF MakeDirectory, DirInv
    <3>2. /\ pc' = [pc EXCEPT ![p] = "step"] \/ pc' = [pc EXCEPT ![p] = "failed"]
          /\ dir' \in {"absent", "present"}
          /\ UNCHANGED <<kind, plan, file, next, run, raced>>
      BY <2>1 DEF MakeDirectory, DirInv
    <3> HIDE DEF Go
    <3> QED BY <3>1, <3>2 DEF DirInv
  <2>2. CASE Remove(p)
    <3>1. file' \in [File -> {"none", "complete"} \cup Builder] /\ dir' \in {"absent", "present"}
      BY <2>2 DEF Remove, DirInv
    <3>2. pc' = pc \/ pc' = [pc EXCEPT ![p] = "removed"]
      BY <2>2 DEF Remove
    <3> QED BY <2>2, <3>1, <3>2 DEF Remove, DirInv
  <2> QED BY <1>3, <2>1, <2>2
<1>4. ASSUME NEW p \in Builder, Throw(p), pc[p] \in {"step", "writeFile"}
      PROVE  DirTypeOK' /\ PlaceInv'
  BY <1>4 DEF DirInv
<1>5. ASSUME NEW p \in Builder, Advance(p), pc[p] \in {"step", "writeFile"},
             file' \in [File -> {"none", "complete"} \cup Builder]
      PROVE  DirTypeOK' /\ PlaceInv'
  <2>1. /\ next' = [next EXCEPT ![p] = next[p] + 1] /\ next[p] \in 1 .. Len(plan)
        /\ \/ pc' = [pc EXCEPT ![p] = "step"] /\ next'[p] \in 1 .. Len(plan)
           \/ pc' = [pc EXCEPT ![p] = "built"] /\ next[p] = Len(plan)
        /\ UNCHANGED <<kind, plan, dir, run, raced>>
    BY <1>5, AdvanceStep
  <2> QED BY <1>0, <1>5, <2>1 DEF DirInv
<1>6. ASSUME NEW p \in Builder, Ask(p) \/ Parse(p) PROVE DirTypeOK' /\ PlaceInv'
  BY <1>4, <1>5, <1>6 DEF Ask, Parse, DirInv
<1>7. ASSUME NEW p \in Builder, Download(p) PROVE DirTypeOK' /\ PlaceInv'
  <2>1. CASE Throw(p)
    BY <1>4, <1>7, <2>1 DEF Download
  <2>2. CASE ~ Throw(p)
    <3>1. /\ plan[next[p]] \in File /\ file' = [file EXCEPT ![plan[next[p]]] = p]
          /\ pc[p] = "step" /\ pc' = [pc EXCEPT ![p] = "writeFile"]
          /\ UNCHANGED <<kind, plan, dir, next, run, raced>>
      BY <1>7, <2>2 DEF Download
    <3>2. file' \in [File -> {"none", "complete"} \cup Builder]
      BY <3>1 DEF DirInv
    <3>3. pc' \in [Builder -> {"notListed", "scheduled", "starting"} \cup Working \cup Over]
      BY <3>1 DEF DirInv
    <3>4. DirTypeOK'
      BY <3>1, <3>2, <3>3 DEF DirInv
    <3> QED BY <3>1, <3>4 DEF DirInv
  <2> QED BY <2>1, <2>2
<1>8. ASSUME NEW p \in Builder, Written(p) PROVE DirTypeOK' /\ PlaceInv'
  BY <1>4, <1>5, <1>8 DEF Written, DirInv
<1> QED BY <1>1, <1>2, <1>3, <1>6, <1>7, <1>8, <1>9, <1>10, <1>11 DEF DirNext, AllOver

\* An error within the try: nobody has built, and the one at work stays so.
LEMMA ThrowAlone ==
  ASSUME DirInv, AloneInv, NEW p \in Builder, pc[p] \in {"step", "writeFile"}, Throw(p)
  PROVE  AloneInv'
<1>1. /\ pc' = [pc EXCEPT ![p] = "rm"] /\ UNCHANGED <<kind, plan, dir, file, next, run, raced>>
      /\ pc \in [Builder -> {"notListed", "scheduled", "starting"} \cup Working \cup Over]
  BY DEF DirInv, DirTypeOK, Throw, Go
<1>2. pc'[p] = "rm" /\ \A q \in Builder : q # p => pc[q] \notin Past /\ pc'[q] = pc[q]
  BY <1>1 DEF AloneInv, Past, InTry
<1>3. \A q \in Builder : pc'[q] # "built"
  BY <1>2 DEF AloneInv, Past, InTry
<1>4. \A q, r \in Builder : pc'[q] \in Past /\ pc'[r] \in Past => q = r
  BY <1>2
<1>5. DoneInv'
  BY <1>1, <1>2 DEF AloneInv, DoneInv, Past, InTry
<1>6. \A q \in Builder : pc'[q] # "mkdir"
  BY <1>2 DEF Past
<1> QED BY <1>2, <1>3, <1>4, <1>5, <1>6 DEF AloneInv, Past, InTry

\* The step of the plan is done, its file stored: on to the next, or built.
LEMMA AdvanceAlone ==
  ASSUME DirInv, AloneInv, NEW p \in Builder, pc[p] \in {"step", "writeFile"}, Advance(p),
         \A i \in 1 .. next[p] : (Stored(i))'
  PROVE  AloneInv'
<1>1. /\ next' = [next EXCEPT ![p] = next[p] + 1] /\ next[p] \in 1 .. Len(plan)
      /\ \/ pc' = [pc EXCEPT ![p] = "step"] /\ next'[p] \in 1 .. Len(plan)
         \/ pc' = [pc EXCEPT ![p] = "built"] /\ next[p] = Len(plan)
      /\ UNCHANGED <<kind, plan, dir, run, raced>>
  BY AdvanceStep
<1>3. pc \in [Builder -> {"notListed", "scheduled", "starting"} \cup Working \cup Over]
      /\ next \in [Builder -> 1 .. Len(plan) + 1]
  BY DEF DirInv, DirTypeOK
<1>2. \A q \in Builder : q # p => pc[q] \notin Past /\ pc'[q] = pc[q]
  <2>1. pc[p] \in Past
    BY DEF Past, InTry
  <2>2. \A q \in Builder : q # p => pc[q] \notin Past
    BY <2>1 DEF AloneInv
  <2>3. \A q \in Builder : q # p => pc'[q] = pc[q]
    BY <1>1, <1>3
  <2> QED BY <2>2, <2>3
<1>4. Len(plan) \in Nat /\ DOMAIN plan = 1 .. Len(plan)
  BY PlanIsSeq DEF DirInv
<1>5. dir = "present" /\ dir' = "present" /\ \A q \in Builder : pc[q] # "built"
  BY <1>1 DEF AloneInv, DoneInv, Past, InTry
<1>6. CASE pc' = [pc EXCEPT ![p] = "step"]
  <2>1. pc'[p] = "step" /\ next'[p] - 1 = next[p]
    BY <1>1, <1>3, <1>6
  <2>2. DoneInv'
    BY <1>1, <1>2, <1>5, <2>1 DEF DoneInv, Past, InTry
  <2> QED BY <1>2, <1>5, <2>1, <2>2 DEF AloneInv, Past, InTry
<1>7. CASE pc' = [pc EXCEPT ![p] = "built"] /\ next[p] = Len(plan)
  <2>1. pc'[p] = "built" /\ Complete'
    BY <1>1, <1>3, <1>4, <1>5, <1>7 DEF Complete, Stored
  <2>2. \A q \in Builder : pc'[q] \notin Past
    BY <1>2, <2>1 DEF Past, InTry
  <2> QED BY <1>1, <2>1, <2>2 DEF AloneInv, DoneInv, Past, InTry
<1> QED BY <1>1, <1>6, <1>7

\* No step forgets a race.
LEMMA RacedStays == DirTypeOK /\ [DirNext]_dirVars => (raced => raced')
BY DEF DirTypeOK, DirNext, dirVars, AllOver, RunBegins, RunEnds, ListVersion, TakeTask, Kill,
       Begin, FetchBuild, CheckAbsent, MakeDirectory, Ask, Parse, Download, Written, Remove,
       Throw, Advance

\* As long as there was no race, every step keeps AloneInv.
LEMMA AloneStep == DirInv /\ ~ raced' /\ [DirNext]_dirVars => AloneInv'
<1> SUFFICES ASSUME DirInv, ~ raced', [DirNext]_dirVars PROVE AloneInv'
  OBVIOUS
<1>0. /\ AloneInv
      /\ pc \in [Builder -> {"notListed", "scheduled", "starting"} \cup Working \cup Over]
      /\ file \in [File -> {"none", "complete"} \cup Builder]
      /\ dir \in {"absent", "present"}
      /\ Len(plan) \in Nat
  BY PlanIsSeq, RacedStays DEF DirInv, DirTypeOK
<1> USE DEF Go, Working, Over, InTry, Past
<1>1. CASE UNCHANGED dirVars
  BY <1>0, <1>1 DEF dirVars, AloneInv, DoneInv, Stored, Complete
<1>2. ASSUME NEW p \in Builder, ListVersion(p) \/ TakeTask(p) \/ Kill(p) PROVE AloneInv'
  BY <1>0, <1>2 DEF ListVersion, TakeTask, Kill, AloneInv, DoneInv, Stored, Complete
<1>11. CASE RunEnds \/ \E p \in Builder : RunBegins(p)
  <2>1. UNCHANGED <<kind, plan, dir, file, next>>
    BY <1>11 DEF RunEnds, RunBegins
  <2>2. \A p \in Builder :
          \/ pc'[p] = pc[p]
          \/ pc[p] \in {"notListed", "scheduled", "starting"} /\ pc'[p] = "dropped"
    BY <1>0, <1>11 DEF RunEnds, RunBegins
  <2>3. DoneInv'
    BY <1>0, <2>1, <2>2 DEF AloneInv, DoneInv, Stored
  <2> QED BY <1>0, <2>1, <2>2, <2>3 DEF AloneInv, Complete
<1>3. ASSUME NEW p \in Builder, CheckAbsent(p), pc[p] \in {"starting", "fetchBuild"}
      PROVE  AloneInv'
  <2>1. UNCHANGED <<kind, plan, dir, file, next>>
    BY <1>3 DEF CheckAbsent
  <2>2. CASE dir = "present"
    <3>1. pc' = [pc EXCEPT ![p] = "failed"]
      BY <1>3, <2>2 DEF CheckAbsent
    <3>2. DoneInv'
      BY <1>0, <2>1, <3>1, <1>3 DEF AloneInv, DoneInv, Stored
    <3> QED BY <1>0, <1>3, <2>1, <3>1, <3>2 DEF AloneInv, Complete
  <2>3. CASE dir = "absent"
    <3>1. pc' = [pc EXCEPT ![p] = "mkdir"] /\ \A q \in Builder : pc[q] # "mkdir"
      BY <1>3, <2>3 DEF CheckAbsent
    <3>2. \A q \in Builder : pc[q] \notin Past
      BY <1>0, <2>3, <3>1 DEF AloneInv, DoneInv
    <3>3. \A q \in Builder : pc[q] # "built"
      BY <1>0, <2>3 DEF AloneInv, Complete
    <3>4. DoneInv'
      BY <1>0, <3>1, <3>2 DEF DoneInv
    <3> QED BY <1>0, <2>1, <2>3, <3>1, <3>2, <3>3, <3>4 DEF AloneInv
  <2> QED BY <1>0, <2>2, <2>3
<1>4. ASSUME NEW p \in Builder, Begin(p) \/ FetchBuild(p) PROVE AloneInv'
  <2>1. CASE CheckAbsent(p)
    BY <1>3, <1>4, <2>1 DEF Begin, FetchBuild
  <2>2. CASE ~ CheckAbsent(p)
    BY <1>0, <1>4, <2>2 DEF Begin, FetchBuild, AloneInv, DoneInv, Stored, Complete
  <2> QED BY <2>1, <2>2
<1>6. ASSUME NEW p \in Builder, MakeDirectory(p) PROVE AloneInv'
  <2>1. next[p] = 1 /\ dir = "absent" /\ \A q \in Builder : pc[q] # "built"
    BY <1>6 DEF MakeDirectory, DirInv, PlaceInv, AloneInv, Complete, DirInv
  <2>2. \A q \in Builder : q # p => pc[q] \notin Past
    BY <1>0, <1>6 DEF MakeDirectory, AloneInv
  <2> QED BY <1>0, <1>6, <2>1, <2>2 DEF MakeDirectory, AloneInv, DoneInv, Stored, Complete
<1>7. ASSUME NEW p \in Builder, Ask(p) \/ Parse(p) PROVE AloneInv'
  <2>1. CASE Throw(p)
    BY <1>0, <1>7, <2>1, ThrowAlone DEF Ask, Parse
  <2>2. CASE Advance(p) /\ UNCHANGED file
    <3>1. pc[p] = "step" /\ plan[next[p]] \notin File /\ plan' = plan
      BY <1>7, <2>2, DirAssumption DEF Ask, Parse, Advance, File
    <3>2. \A i \in 1 .. next[p] - 1 : Stored(i)
      BY <1>0, <3>1 DEF AloneInv, DoneInv
    <3>3. \A i \in 1 .. next[p] : (Stored(i))'
      BY <1>0, <2>2, <3>1, <3>2 DEF Stored, DirInv, PlaceInv
    <3> QED BY <1>0, <2>2, <3>1, <3>3, AdvanceAlone
  <2> QED BY <1>7, <2>1, <2>2 DEF Ask, Parse
<1>8. ASSUME NEW p \in Builder, Download(p) PROVE AloneInv'
  <2>1. CASE Throw(p)
    BY <1>0, <1>8, <2>1, ThrowAlone DEF Download
  <2>2. CASE ~ Throw(p)
    <3>1. /\ plan[next[p]] \in File /\ file' = [file EXCEPT ![plan[next[p]]] = p]
          /\ pc[p] = "step" /\ pc' = [pc EXCEPT ![p] = "writeFile"]
          /\ dir = "present" /\ UNCHANGED <<kind, plan, dir, next, run, raced>>
      BY <1>8, <2>2 DEF Download
    <3>2. \A q \in Builder : q # p => pc[q] \notin Past /\ pc'[q] = pc[q]
      BY <1>0, <3>1 DEF AloneInv
    <3>3. DoneInv'
      BY <1>0, <3>1, <3>2 DEF AloneInv, DoneInv, Stored
    <3> QED BY <1>0, <3>1, <3>2, <3>3 DEF AloneInv
  <2> QED BY <2>1, <2>2
<1>9. ASSUME NEW p \in Builder, Written(p) PROVE AloneInv'
  <2>1. CASE Throw(p)
    BY <1>0, <1>9, <2>1, ThrowAlone DEF Written
  <2>2. CASE Advance(p) /\ file' = [file EXCEPT ![plan[next[p]]] =
                                     IF @ = p THEN "complete" ELSE @]
    <3>1. /\ pc[p] = "writeFile" /\ plan[next[p]] \in File /\ file[plan[next[p]]] = p
          /\ \A i \in 1 .. next[p] - 1 : Stored(i) \/ plan[i] = plan[next[p]]
          /\ plan' = plan /\ next[p] \in 1 .. Len(plan)
      BY <1>0, <1>9, <2>2 DEF Written, Advance, AloneInv, DoneInv, DirInv, PlaceInv
    <3>2. \A i \in 1 .. next[p] : (Stored(i))'
      <4> SUFFICES ASSUME NEW i \in 1 .. next[p], plan[i] \in File
                   PROVE  file'[plan[i]] = "complete"
        BY <3>1 DEF Stored
      <4>1. i = next[p] \/ i \in 1 .. next[p] - 1
        BY <3>1, <1>0
      <4>2. file'[plan[next[p]]] = "complete"
        BY <1>0, <2>2, <3>1
      <4>3. plan[i] # plan[next[p]] => file'[plan[i]] = file[plan[i]]
        BY <1>0, <2>2
      <4> QED BY <3>1, <4>1, <4>2, <4>3 DEF Stored
    <3> QED BY <1>0, <2>2, <3>1, <3>2, AdvanceAlone
  <2> QED BY <1>9, <2>1, <2>2 DEF Written
<1>10. ASSUME NEW p \in Builder, Remove(p) PROVE AloneInv'
  <2>1. \A q \in Builder : q # p => pc[q] \notin Past
    BY <1>0, <1>10 DEF Remove, AloneInv
  <2>2. pc[p] = "rm" /\ \A q \in Builder : pc[q] # "built"
    BY <1>0, <1>10 DEF Remove, AloneInv
  <2>3. \/ pc' = pc /\ dir' = dir
        \/ dir' = "absent" /\ pc' = [pc EXCEPT ![p] = "removed"]
    BY <1>10, <2>1 DEF Remove
  <2>4. DoneInv'
    BY <1>0, <1>10, <2>1, <2>2, <2>3 DEF Remove, AloneInv, DoneInv
  <2> QED BY <1>0, <1>10, <2>1, <2>2, <2>3, <2>4 DEF Remove, AloneInv
<1> QED BY <1>1, <1>2, <1>4, <1>6, <1>7, <1>8, <1>9, <1>10, <1>11 DEF DirNext, AllOver

\* The inductive invariant holds in every reachable state.
THEOREM DirInvCorrect == DirSpec => []DirInv
<1>1. DirInv /\ [DirNext]_dirVars => DirInv'
  BY DirTypeStep, AloneStep DEF DirInv
<1> QED BY <1>1, DirInvInit, PTL DEF DirSpec

-----------------------------------------------------------------------------
\* Every variable keeps its type, also where builders race.
THEOREM DirTypeCorrect == DirSpec => []DirTypeOK
<1>1. DirInv => DirTypeOK
  BY DEF DirInv
<1> QED BY <1>1, DirInvCorrect, PTL

\* An artifact that was built is complete and stays so, whichever builders of
\* earlier runs are still at work.
THEOREM BuiltIsCompleteCorrect == DirSpec => []BuiltIsComplete
<1>1. DirInv => BuiltIsComplete
  BY DEF DirInv, AloneInv, BuiltIsComplete
<1> QED BY <1>1, DirInvCorrect, PTL

\* Only a killed builder leaves an incomplete artifact behind.
THEOREM PartialOnlyAfterKillCorrect == DirSpec => []PartialOnlyAfterKill
<1>1. DirInv => PartialOnlyAfterKill
  BY DEF DirInv, AloneInv, PartialOnlyAfterKill, Quiet, Working
<1> QED BY <1>1, DirInvCorrect, PTL

-----------------------------------------------------------------------------
(***************************************************************************)
(* Builders that race.  As long as none has thrown in its try and none was *)
(* killed, the directory stays once it was made, every file of a step that *)
(* somebody has done is there, and one that is open is still being written.*)
(***************************************************************************)
Clean == \A p \in Builder : pc[p] \notin {"rm", "removed", "killed"}
Touched(i) == plan[i] \in File => file[plan[i]] # "none"

ShareInv ==
  Clean =>
    /\ \A p \in Builder :
         /\ pc[p] \in {"step", "writeFile", "built"} => dir = "present"
         /\ pc[p] \in {"step", "writeFile"} => \A i \in 1 .. next[p] - 1 : Touched(i)
         /\ pc[p] = "writeFile" => Touched(next[p])
         /\ pc[p] = "built" => \A i \in 1 .. Len(plan) : Touched(i)
    /\ \A f \in File : file[f] \in Builder =>
         pc[file[f]] = "writeFile" /\ plan[next[file[f]]] = f

\* Every step keeps ShareInv.
LEMMA ShareStep == DirInv /\ ShareInv /\ [DirNext]_dirVars => ShareInv'
<1> SUFFICES ASSUME DirInv, ShareInv, [DirNext]_dirVars, Clean' PROVE ShareInv'
  BY DEF ShareInv
<1>0. /\ pc \in [Builder -> {"notListed", "scheduled", "starting"} \cup Working \cup Over]
      /\ file \in [File -> {"none", "complete"} \cup Builder]
      /\ next \in [Builder -> 1 .. Len(plan) + 1]
      /\ dir \in {"absent", "present"}
      /\ Len(plan) \in Nat /\ PlaceInv
      /\ "none" \notin Builder /\ "complete" \notin Builder
  BY PlanIsSeq, DirAssumption DEF DirInv, DirTypeOK
<1> USE DEF Go, Working, Over, InTry
<1>1. CASE UNCHANGED dirVars
  BY <1>0, <1>1 DEF dirVars, ShareInv, Clean, Touched
<1>2. ASSUME UNCHANGED <<plan, dir, file, next>>,
             \A p \in Builder : \/ pc'[p] = pc[p]
                               \/ /\ pc[p] \notin {"step", "writeFile", "built", "rm", "removed", "killed"}
                                  /\ pc'[p] \notin {"step", "writeFile", "built"}
      PROVE  ShareInv'
  <2>1. Clean
    BY <1>2 DEF Clean
  <2>2. \A f \in File : file[f] \in Builder => pc'[file[f]] = "writeFile"
    BY <1>2, <2>1 DEF ShareInv
  <2> QED BY <1>2, <2>1, <2>2 DEF ShareInv, Touched
<1>3. CASE RunEnds \/ \E p \in Builder : RunBegins(p)
  BY <1>0, <1>2, <1>3 DEF RunEnds, RunBegins
<1>4. ASSUME NEW p \in Builder, ListVersion(p) \/ TakeTask(p) \/ Kill(p) PROVE ShareInv'
  <2>1. pc'[p] # "killed"
    BY DEF Clean
  <2> QED BY <1>0, <1>2, <1>4, <2>1 DEF ListVersion, TakeTask, Kill
<1>5. ASSUME NEW p \in Builder, Begin(p) \/ FetchBuild(p) PROVE ShareInv'
  BY <1>0, <1>2, <1>5 DEF Begin, FetchBuild, CheckAbsent
<1>6. ASSUME NEW p \in Builder, MakeDirectory(p) PROVE ShareInv'
  <2>1. CASE pc'[p] = "failed"
    BY <1>0, <1>2, <1>6, <2>1 DEF MakeDirectory
  <2>2. CASE pc'[p] # "failed"
    <3>1. /\ dir' = "present" /\ pc[p] = "mkdir" /\ pc' = [pc EXCEPT ![p] = "step"]
          /\ UNCHANGED <<plan, file, next>> /\ next[p] = 1
      BY <1>0, <1>6, <2>2 DEF MakeDirectory, PlaceInv
    <3>2. Clean
      BY <1>0, <3>1 DEF Clean
    <3> QED BY <1>0, <3>1, <3>2 DEF ShareInv, Touched
  <2> QED BY <2>1, <2>2
<1>7. ASSUME NEW p \in Builder, Throw(p) PROVE FALSE
  BY <1>0, <1>7 DEF Throw, Clean
<1>8. ASSUME NEW p \in Builder, pc[p] \in {"step", "writeFile"}, Advance(p), Clean,
             \A i \in 1 .. next[p] : Touched(i)',
             \A i \in 1 .. Len(plan) : Touched(i) => Touched(i)',
             \A f \in File : file'[f] \in Builder => file'[f] = file[f] /\ file[f] # p
      PROVE  ShareInv'
  <2>1. /\ next' = [next EXCEPT ![p] = next[p] + 1] /\ next[p] \in 1 .. Len(plan)
        /\ \/ pc' = [pc EXCEPT ![p] = "step"] /\ next'[p] \in 1 .. Len(plan)
           \/ pc' = [pc EXCEPT ![p] = "built"] /\ next[p] = Len(plan)
        /\ UNCHANGED <<kind, plan, dir, run, raced>>
    BY <1>8, AdvanceStep
  <2>2. dir' = "present"
    BY <1>8, <2>1 DEF ShareInv
  <2>3. /\ pc'[p] \in {"step", "built"} /\ next'[p] - 1 = next[p]
        /\ pc'[p] = "built" => next[p] = Len(plan)
        /\ \A q \in Builder : q # p => pc'[q] = pc[q] /\ next'[q] = next[q]
    BY <1>0, <2>1
  <2>4. ASSUME NEW q \in Builder
        PROVE  /\ pc'[q] \in {"step", "writeFile", "built"} => dir' = "present"
               /\ pc'[q] \in {"step", "writeFile"} => \A i \in 1 .. next'[q] - 1 : Touched(i)'
               /\ pc'[q] = "writeFile" => Touched(next[q])'
               /\ pc'[q] = "built" => \A i \in 1 .. Len(plan) : Touched(i)'
    <3>1. CASE q = p
      BY <1>8, <2>2, <2>3, <3>1
    <3>2. CASE q # p
      <4>1. pc[q] \in {"step", "writeFile"} => next[q] \in 1 .. Len(plan)
        BY <1>0 DEF PlaceInv
      <4>2. \A i \in 1 .. next[q] - 1 : pc[q] \in {"step", "writeFile"} => i \in 1 .. Len(plan)
        BY <1>0, <4>1
      <4> QED BY <1>8, <2>2, <2>3, <3>2, <4>1, <4>2 DEF ShareInv
    <3> QED BY <3>1, <3>2
  <2>5. \A f \in File : file'[f] \in Builder =>
          pc'[file'[f]] = "writeFile" /\ plan[next'[file'[f]]] = f
    BY <1>8, <2>3 DEF ShareInv
  <2>6. \A q \in Builder : pc'[q] = "writeFile" => next'[q] = next[q]
    BY <2>3
  <2> QED BY <2>1, <2>4, <2>5, <2>6 DEF ShareInv, Touched
<1>9. ASSUME NEW p \in Builder, Ask(p) \/ Parse(p) PROVE ShareInv'
  <2>1. Advance(p) /\ UNCHANGED file /\ pc[p] = "step" /\ plan[next[p]] \notin File
    BY <1>7, <1>9, DirAssumption DEF Ask, Parse, File
  <2>2. Clean /\ plan' = plan /\ next[p] \in 1 .. Len(plan)
    BY <1>0, <2>1 DEF Clean, Advance, PlaceInv
  <2>3. \A i \in 1 .. next[p] : Touched(i)'
    BY <1>0, <2>1, <2>2 DEF ShareInv, Touched
  <2> QED BY <1>0, <1>8, <2>1, <2>2, <2>3 DEF ShareInv, Touched
<1>10. ASSUME NEW p \in Builder, Download(p) PROVE ShareInv'
  <2>1. /\ pc[p] = "step" /\ plan[next[p]] \in File
        /\ file' = [file EXCEPT ![plan[next[p]]] = p] /\ pc' = [pc EXCEPT ![p] = "writeFile"]
        /\ UNCHANGED <<plan, dir, next>>
    BY <1>7, <1>10 DEF Download
  <2>2. Clean
    BY <1>0, <2>1 DEF Clean
  <2>3. \A i : Touched(i) => Touched(i)'
    BY <1>0, <2>1 DEF Touched
  <2>4. \A f \in File : file'[f] \in Builder =>
          pc'[file'[f]] = "writeFile" /\ plan[next[file'[f]]] = f
    BY <1>0, <2>1, <2>2 DEF ShareInv
  <2>5. Touched(next[p])'
    BY <1>0, <2>1 DEF Touched
  <2> QED BY <1>0, <2>1, <2>2, <2>3, <2>4, <2>5 DEF ShareInv
<1>11. ASSUME NEW p \in Builder, Written(p) PROVE ShareInv'
  <2>1. /\ Advance(p) /\ pc[p] = "writeFile" /\ plan' = plan
        /\ file' = [file EXCEPT ![plan[next[p]]] = IF @ = p THEN "complete" ELSE @]
    BY <1>7, <1>11 DEF Written, Advance
  <2>2. Clean /\ plan[next[p]] \in File /\ next[p] \in 1 .. Len(plan)
    BY <1>0, <2>1 DEF Clean, Advance, PlaceInv
  <2>3. \A i : Touched(i) => Touched(i)'
    BY <1>0, <2>1 DEF Touched
  <2>4. \A i \in 1 .. next[p] : Touched(i)'
    BY <1>0, <2>1, <2>2, <2>3 DEF ShareInv
  <2>5. \A f \in File : file'[f] \in Builder => file'[f] = file[f] /\ file[f] # p
    BY <1>0, <2>1, <2>2 DEF ShareInv
  <2> QED BY <1>8, <2>1, <2>2, <2>3, <2>4, <2>5
<1>12. ASSUME NEW p \in Builder, Remove(p) PROVE FALSE
  <2>1. pc'[p] \in {"rm", "removed"}
    BY <1>0, <1>12 DEF Remove
  <2> QED BY <2>1 DEF Clean
<1> QED BY <1>1, <1>3, <1>4, <1>5, <1>6, <1>9, <1>10, <1>11, <1>12 DEF DirNext, AllOver

\* Even where builders race, a built artifact is only lost to one that threw in
\* its try or was killed.
THEOREM LostOnlyByTryCorrect == DirSpec => []LostOnlyByTry
<1>1. DirInit => ShareInv
  BY DirAssumption DEF DirInit, ShareInv
<1>2. DirInv /\ ShareInv => LostOnlyByTry
  <2> SUFFICES ASSUME DirInv, ShareInv, Quiet, NEW p \in Builder, pc[p] = "built",
                      \A q \in Builder : pc[q] \notin {"removed", "killed"}
               PROVE  Complete
    BY DEF LostOnlyByTry
  <2>1. Clean
    BY DEF Clean, Quiet, Working, InTry
  <2>2. DOMAIN plan = 1 .. Len(plan) /\ file \in [File -> {"none", "complete"} \cup Builder]
    BY PlanIsSeq DEF DirInv, DirTypeOK
  <2>3. \A f \in File : file[f] \notin Builder
    BY <2>1 DEF ShareInv, Quiet, Working, InTry
  <2> QED BY <2>1, <2>2, <2>3 DEF ShareInv, Complete, Touched
<1> QED BY <1>1, <1>2, ShareStep, DirInvCorrect, PTL DEF DirSpec
=============================================================================
