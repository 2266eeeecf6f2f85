-------------------------- MODULE SpigotBuildProofs --------------------------
(***************************************************************************)
(* The promises of SpigotBuild, for any versions and arguments and any     *)
(* number of attempts.                                                     *)
(***************************************************************************)
EXTENDS SpigotBuild, SequenceTheorems, WellFoundedInduction, TLAPS

(***************************************************************************)
(* The arguments survive the command line.                                 *)
(***************************************************************************)
\* What the three parts of a word are.
LEMMA WordParts ==
  ASSUME NEW S, NEW k \in Seq(S), NEW x \in S, NEW v \in Seq(S)
  PROVE  /\ Len((k \o <<x>>) \o v) = Len(k) + 1 + Len(v)
         /\ ((k \o <<x>>) \o v)[Len(k) + 1] = x
         /\ \A i \in 1 .. Len(k) : ((k \o <<x>>) \o v)[i] = k[i]
         /\ SubSeq((k \o <<x>>) \o v, 1, Len(k)) = k
         /\ SubSeq((k \o <<x>>) \o v, Len(k) + 2, Len((k \o <<x>>) \o v)) = v
<1> DEFINE h == k \o <<x>>
           w == h \o v
<1>1. Len(k) \in Nat /\ Len(v) \in Nat /\ <<x>> \in Seq(S)
  BY LenProperties
<1>2. /\ h \in Seq(S) /\ Len(h) = Len(k) + 1 /\ h[Len(k) + 1] = x
      /\ \A i \in 1 .. Len(k) : h[i] = k[i]
  BY <1>1, ConcatProperties
<1> HIDE DEF h
<1>3. /\ w \in Seq(S) /\ Len(w) = Len(h) + Len(v)
      /\ \A i \in 1 .. Len(h) + Len(v) : w[i] = IF i <= Len(h) THEN h[i] ELSE v[i - Len(h)]
  BY <1>2, ConcatProperties
<1> HIDE DEF w
<1>4. /\ w[Len(k) + 1] = x
      /\ \A i \in 1 .. Len(k) : w[i] = k[i]
      /\ \A i \in 1 .. Len(v) : w[Len(k) + 1 + i] = v[i]
  <2>1. w[Len(k) + 1] = h[Len(k) + 1]
    BY <1>1, <1>2, <1>3
  <2>2. ASSUME NEW i \in 1 .. Len(k) PROVE w[i] = k[i]
    <3>1. i \in 1 .. Len(h) + Len(v) /\ i <= Len(h)
      BY <1>1, <1>2
    <3> QED
      BY <1>2, <1>3, <3>1
  <2>3. ASSUME NEW i \in 1 .. Len(v) PROVE w[Len(k) + 1 + i] = v[i]
    <3> DEFINE j == Len(k) + 1 + i
    <3>1. j \in 1 .. Len(h) + Len(v) /\ ~ (j <= Len(h)) /\ j - Len(h) = i
      BY <1>1, <1>2
    <3> HIDE DEF j
    <3>2. w[j] = v[i]
      BY <1>3, <3>1
    <3> QED
      BY <3>2 DEF j
  <2> QED
    BY <1>2, <2>1, <2>2, <2>3
<1>5. \A i \in 1 .. Len(w) : w[i] \in S
  BY <1>3, ElementOfSeq
<1>6. SubSeq(w, 1, Len(k)) = k
  <2>1. /\ SubSeq(w, 1, Len(k)) \in Seq(S)
        /\ Len(SubSeq(w, 1, Len(k))) = Len(k)
        /\ \A i \in 1 .. Len(k) : SubSeq(w, 1, Len(k))[i] = w[i]
    <3>1. \A i \in 1 .. Len(k) : w[i] \in S
      BY <1>1, <1>2, <1>3, <1>5
    <3> QED
      BY <1>1, <3>1, SubSeqProperties
  <2> QED
    BY <1>4, <2>1, SeqEqual
<1>7. SubSeq(w, Len(k) + 2, Len(w)) = v
  <2> DEFINE m == Len(k) + 2
             t == SubSeq(w, m, Len(w))
  <2>1. /\ t \in Seq(S)
        /\ Len(t) = IF m <= Len(w) THEN Len(w) - m + 1 ELSE 0
        /\ \A i \in 1 .. Len(w) - m + 1 : t[i] = w[m + i - 1]
    <3>1. m \in Int /\ Len(w) \in Int /\ \A i \in m .. Len(w) : w[i] \in S
      BY <1>1, <1>2, <1>3, <1>5
    <3> HIDE DEF m
    <3> QED
      BY <3>1, SubSeqProperties
  <2> HIDE DEF t
  <2>2. Len(t) = Len(v)
    BY <1>1, <1>2, <1>3, <2>1
  <2>3. ASSUME NEW i \in 1 .. Len(v) PROVE t[i] = v[i]
    <3>1. i \in 1 .. Len(w) - m + 1 /\ m + i - 1 = Len(k) + 1 + i
      BY <1>1, <1>2, <1>3
    <3> HIDE DEF m
    <3> QED
      BY <1>4, <2>1, <3>1
  <2> QED
    BY <2>1, <2>2, <2>3, SeqEqual DEF t
<1> QED
  BY <1>2, <1>3, <1>4, <1>6, <1>7 DEF w, h

\* What stands for an entry is parsed to it: with an equals sign, which is the
\* first of the word, ...
LEMMA WordParses ==
  ASSUME NEW k \in Text, NEW v \in Text, \A i \in 1 .. Len(k) : k[i] # "="
  PROVE  /\ Key((k \o <<"=">>) \o v) = k
         /\ Value((k \o <<"=">>) \o v) = v
<1> DEFINE w == (k \o <<"=">>) \o v
           n == Len(k) + 1
           I == {i \in 1 .. Len(w) : w[i] = "="}
<1>1. /\ k \in Seq(Part) /\ v \in Seq(Part) /\ "=" \in Part
      /\ Len(k) \in Nat /\ Len(v) \in Nat
  BY LenProperties, PartAssumption DEF Text
<1>2. /\ Len(w) = n + Len(v) /\ w[n] = "="
      /\ \A i \in 1 .. Len(k) : w[i] = k[i]
      /\ SubSeq(w, 1, Len(k)) = k
      /\ SubSeq(w, Len(k) + 2, Len(w)) = v
  BY <1>1, WordParts
<1> HIDE DEF w
<1>3. /\ n \in Nat /\ n # 0 /\ n - 1 = Len(k) /\ n + 1 = Len(k) + 2 /\ n \in 1 .. n + Len(v)
      /\ \A i \in 1 .. n + Len(v) : i \in 1 .. Len(k) \/ n <= i
  BY <1>1
<1> HIDE DEF n
<1>4. n \in I /\ \A i \in I : n <= i
  BY <1>2, <1>3
<1>5. I # {} /\ Min(I) = n
  <2>1. \A x \in I : x \in Nat /\ ((\A y \in I : x <= y) => x = n)
    BY <1>2, <1>3, <1>4
  <2> HIDE DEF I
  <2> QED
    BY <1>3, <1>4, <2>1 DEF Min
<1>6. IndexOfEquals(w) = n
  BY <1>5 DEF IndexOfEquals, SelectInSeq
<1> QED
  BY <1>2, <1>3, <1>6 DEF Key, Value, w

\* ... or without.
LEMMA BareWordParses ==
  ASSUME NEW e \in Entry
  PROVE  Key(e.key) = e.key /\ Value(e.key) = <<>>
<1>1. \A i \in 1 .. Len(e.key) : e.key[i] # "="
  BY DEF Entry, Text
<1>2. IndexOfEquals(e.key) = 0
  BY <1>1 DEF IndexOfEquals, SelectInSeq
<1> QED
  BY <1>2 DEF Key, Value

\* Both for an entry.
LEMMA EntryParses ==
  ASSUME NEW e \in Entry
  PROVE  /\ Key((e.key \o <<"=">>) \o e.value) = e.key
         /\ Value((e.key \o <<"=">>) \o e.value) = e.value
         /\ Key(e.key) = e.key /\ Value(e.key) = <<>>
<1>1. e.key \in Text /\ e.value \in Text /\ \A i \in DOMAIN e.key : e.key[i] # "="
  BY DEF Entry
<1>2. \A i \in 1 .. Len(e.key) : e.key[i] # "="
  BY <1>1, LenProperties DEF Text
<1> QED
  BY <1>1, <1>2, WordParses, BareWordParses

\* A line is refused, or its arguments are those it was made of.
LEMMA LineParses ==
  ASSUME asked \in Seq(Entry), ~ Refused(Line)
  PROVE  /\ DOMAIN Parsed(Line) = {asked[i].key : i \in DOMAIN asked}
         /\ \A i \in DOMAIN asked : Parsed(Line)[asked[i].key] = asked[i].value
<1> DEFINE W == Line.words
<1>1. \A i \in DOMAIN asked : asked[i] \in Entry
  OBVIOUS
<1>2. /\ DOMAIN W = DOMAIN asked
      /\ \A i \in DOMAIN asked : Key(W[i]) = asked[i].key /\ Value(W[i]) = asked[i].value
  <2>1. CASE world = "host"
    <3>1. DOMAIN W = DOMAIN asked
      BY <2>1 DEF Line, Typed
    <3>2. \A i \in DOMAIN asked :
            W[i] = IF asked[i].value = <<>> THEN asked[i].key
                   ELSE asked[i].key \o <<"=">> \o asked[i].value
      BY <2>1 DEF Line, Typed
    <3> QED
      BY <1>1, <3>1, <3>2, EntryParses
  <2>2. CASE world # "host" /\ world # "production"
    <3>1. DOMAIN W = DOMAIN asked
      BY <2>2 DEF Line, Command
    <3>2. \A i \in DOMAIN asked : W[i] = asked[i].key \o <<"=">> \o asked[i].value
      BY <2>2 DEF Line, Command
    <3> QED
      BY <1>1, <3>1, <3>2, EntryParses
  <2>3. CASE world = "production"
    BY <2>3 DEF Line, Command, Refused
  <2> QED
    BY <2>1, <2>2, <2>3
<1>3. \A i, j \in DOMAIN W : Key(W[i]) = Key(W[j]) => i = j
  <2>1. DOMAIN W = 1 .. Len(asked) /\ Len(asked) \in Nat
    BY <1>2, LenProperties
  <2> QED
    BY <2>1 DEF Refused
<1> HIDE DEF W
<1>4. Parsed(Line) = [k \in {Key(W[i]) : i \in DOMAIN W} |->
                        Value(W[CHOOSE i \in DOMAIN W : Key(W[i]) = k])]
  BY DEF Parsed, W
<1>5. \A i \in DOMAIN W : (CHOOSE j \in DOMAIN W : Key(W[j]) = Key(W[i])) = i
  BY <1>3
<1>6. \A i \in DOMAIN W : Parsed(Line)[Key(W[i])] = Value(W[i])
  BY <1>4, <1>5
<1>7. DOMAIN Parsed(Line) = {Key(W[i]) : i \in DOMAIN W}
  BY <1>4
<1> QED
  BY <1>2, <1>6, <1>7

-----------------------------------------------------------------------------
(***************************************************************************)
(* The JDK that is chosen.                                                 *)
(***************************************************************************)
LEMMA MaxExists ==
  ASSUME NEW n \in Nat, NEW I, I \subseteq 1 .. n, I # {}
  PROVE  Max(I) \in I /\ \A y \in I : Max(I) >= y
<1> DEFINE T == {n - i : i \in I}
<1>1. T \subseteq Nat /\ T # {}
  <2>1. \A i \in I : n - i \in Nat
    OBVIOUS
  <2>2. \E i \in I : n - i \in T
    OBVIOUS
  <2> QED
    BY <2>1, <2>2
<1>2. PICK x \in T : \A y \in T : ~ (<<y, x>> \in OpToRel(<, Nat))
  BY <1>1, NatLessThanWellFounded, WFMin
<1>3. \A y \in T : ~ (y < x)
  BY <1>1, <1>2 DEF OpToRel
<1>4. PICK i \in I : x = n - i
  OBVIOUS
<1>5. \A y \in I : i >= y
  <2> SUFFICES ASSUME NEW y \in I PROVE i >= y
    OBVIOUS
  <2>1. ~ (n - y < n - i)
    BY <1>3, <1>4
  <2> QED
    BY <2>1
<1> QED
  BY <1>5 DEF Max

\* What JavaIsThere says of the version of a JDK.
IsLatest(j) ==
  IF info = <<>> THEN j = DefaultJdk
  ELSE \E i \in DOMAIN info :
         /\ JdkOf(info[i]) = j
         /\ \A k \in i + 1 .. Len(info) : JdkOf(info[k]) \notin Providable

LEMMA ChosenIsLatest ==
  ASSUME info \in JavaVersions \cup {<<>>}, ChooseJdk \in Providable
  PROVE  IsLatest(ChooseJdk)
<1>1. CASE info = <<>>
  BY <1>1 DEF ChooseJdk, IsLatest
<1>2. CASE info # <<>>
  <2> DEFINE I == {i \in 1 .. Len(info) : JdkOf(info[i]) \in Providable}
  <2>1. info \in Seq(Nat) /\ Len(info) \in Nat /\ Len(info) \in 1 .. Len(info) /\ DOMAIN info = 1 .. Len(info)
    BY <1>2, SpigotAssumption, LenProperties, EmptySeq
  <2>2. ChooseJdk = JdkOf(IF (IF I # {} THEN Max(I) ELSE 0) = 0 THEN Last(info)
                          ELSE info[IF I # {} THEN Max(I) ELSE 0])
    BY <1>2 DEF ChooseJdk, SelectLastInSeq
  <2>3. I # {}
    <3> SUFFICES ASSUME I = {} PROVE FALSE
      OBVIOUS
    <3>1. ChooseJdk = JdkOf(info[Len(info)])
      BY <2>2 DEF Last
    <3> QED
      BY <2>1, <3>1
  <2>4. Max(I) \in I /\ \A y \in I : Max(I) >= y
    BY <2>1, <2>3, MaxExists
  <2>5. ChooseJdk = JdkOf(info[Max(I)])
    BY <2>1, <2>2, <2>3, <2>4
  <2>6. \A k \in Max(I) + 1 .. Len(info) : JdkOf(info[k]) \notin Providable
    BY <2>1, <2>4
  <2> QED
    BY <1>2, <2>1, <2>4, <2>5, <2>6 DEF IsLatest
<1> QED
  BY <1>1, <1>2

-----------------------------------------------------------------------------
(***************************************************************************)
(* Type correctness.                                                       *)
(***************************************************************************)
AskedType == asked \in Seq(Entry) /\ (pc = "idle" => asked = <<>>)
TypeInv == SpigotTypeOK /\ AskedType

LEMMA TypeInit == Init => TypeInv
BY EmptySeq DEF Init, TypeInv, SpigotTypeOK, AskedType, Content, Label, End, Working

\* An attempt that ends leaves nothing but the directories.
LEMMA EndsType ==
  ASSUME TypeInv, NEW how \in End, Ends(how),
         jdks' = jdks, jar' \in [Version \X Label -> Content]
  PROVE  TypeInv'
<1>1. ended' \in [Version -> End \cup {"none"}]
  BY DEF TypeInv, SpigotTypeOK, Ends
<1>2. mishaps' \subseteq Version \X {"failed", "killed"}
  BY DEF TypeInv, SpigotTypeOK, Ends, End
<1> QED
  BY <1>1, <1>2, EmptySeq DEF TypeInv, SpigotTypeOK, AskedType, Ends, Go, Content, Label, Working

LEMMA TypeStep == TypeInv /\ [Next]_vars => TypeInv'
<1> SUFFICES ASSUME TypeInv, [Next]_vars PROVE TypeInv'
  OBVIOUS
<1> USE DEF Working, Label, Content
<1>1. CASE Launch
  <2>1. asked' \in Seq(Entry)
    <3>1. CASE world = "host"
      BY <1>1, <3>1, SpigotAssumption DEF Launch
    <3>2. CASE world # "host"
      <4>1. PICK v \in Version : asked' = <<[key |-> <<"version">>, value |-> v]>>
        BY <1>1, <3>2 DEF Launch, GetKnownVersions
      <4>2. <<"version">> \in Text /\ v \in Text /\ \A i \in DOMAIN <<"version">> : <<"version">>[i] # "="
        BY SpigotAssumption, PartAssumption DEF Text
      <4>3. [key |-> <<"version">>, value |-> v] \in Entry
        BY <4>2 DEF Entry
      <4> QED
        BY <4>1, <4>3
    <3> QED
      BY <3>1, <3>2
  <2>2. jdks' \in [Providable -> Content]
    BY <1>1 DEF Launch, TypeInv, SpigotTypeOK
  <2> QED
    BY <1>1, <2>1, <2>2 DEF Launch, Go, TypeInv, SpigotTypeOK, AskedType
<1>2. CASE Main
  <2>1. CASE Refused(Line)
    BY <1>2, <2>1, EndsType DEF Main, End, TypeInv, SpigotTypeOK
  <2>2. CASE ~ Refused(Line)
    BY <1>2, <2>2 DEF Main, Go, TypeInv, SpigotTypeOK, AskedType
  <2> QED
    BY <2>1, <2>2
<1>3. CASE FetchVersionInfo
  BY <1>3 DEF FetchVersionInfo, Go, TypeInv, SpigotTypeOK, AskedType, Current
<1>4. CASE DownloadTools
  <2>1. jdk' \in Providable /\ jdks' \in [Providable -> Content] /\ pc' \in {"jdk", "buildTools"}
    BY <1>4 DEF DownloadTools, Go, TypeInv, SpigotTypeOK
  <2> QED
    BY <1>4, <2>1 DEF DownloadTools, TypeInv, SpigotTypeOK, AskedType, Current
<1>5. CASE ProvideJdk
  BY <1>5 DEF ProvideJdk, Go, TypeInv, SpigotTypeOK, AskedType, Current
<1>6. CASE RunBuildTools
  BY <1>6 DEF RunBuildTools, Go, TypeInv, SpigotTypeOK, AskedType, Current
<1>7. CASE ExtractSpigotVersionString
  <2>1. label' \in Label /\ jar' \in [Version \X Label -> Content]
    BY <1>7 DEF ExtractSpigotVersionString, TypeInv, SpigotTypeOK
  <2> QED
    BY <1>7, <2>1 DEF ExtractSpigotVersionString, Go, TypeInv, SpigotTypeOK, AskedType, Current
<1>8. CASE CopyFile
  <2>1. PICK how \in {"built", "failed"} : Ends(how)
    BY <1>8 DEF CopyFile
  <2>2. how \in End /\ jdks' = jdks /\ jar' \in [Version \X Label -> Content]
    BY <1>8 DEF CopyFile, End, TypeInv, SpigotTypeOK
  <2> QED
    BY <2>1, <2>2, EndsType
<1>9. CASE Fails
  BY <1>9, EndsType DEF Fails, End, TypeInv, SpigotTypeOK
<1>10. CASE Kill
  BY <1>10, EndsType DEF Kill, End, TypeInv, SpigotTypeOK
<1>11. CASE AllListed \/ UNCHANGED vars
  BY <1>11 DEF AllListed, vars, TypeInv, SpigotTypeOK, AskedType, Current
<1> QED
  BY <1>1, <1>2, <1>3, <1>4, <1>5, <1>6, <1>7, <1>8, <1>9, <1>10, <1>11 DEF Next

\* Type correctness: what each step of an attempt relies on is there.
THEOREM SpigotTypeCorrect == Spec => []SpigotTypeOK
<1>1. TypeInv => SpigotTypeOK
  BY DEF TypeInv
<1> QED
  BY <1>1, TypeInit, TypeStep, PTL DEF Spec

-----------------------------------------------------------------------------
(***************************************************************************)
(* The arguments arrive.                                                   *)
(***************************************************************************)
LEMMA ArgsInit == Init => ArgsArrive
BY DEF Init, ArgsArrive, Working

LEMMA ArgsStep == TypeInv /\ ArgsArrive /\ [Next]_vars => ArgsArrive'
<1> SUFFICES ASSUME TypeInv, ArgsArrive, [Next]_vars PROVE ArgsArrive'
  OBVIOUS
<1>1. CASE Main /\ ~ Refused(Line)
  BY <1>1, LineParses DEF Main, Go, TypeInv, AskedType, ArgsArrive
<1>2. CASE pc' \in {"idle", "main"}
  BY <1>2 DEF ArgsArrive, Working
<1>3. CASE pc \in Working \ {"main"} /\ UNCHANGED <<asked, args>>
  BY <1>3 DEF ArgsArrive
<1>4. CASE pc = "idle" /\ UNCHANGED pc
  BY <1>2, <1>4
<1> QED
  BY <1>1, <1>2, <1>3, <1>4
     DEF Next, Launch, Main, FetchVersionInfo, DownloadTools, ProvideJdk, RunBuildTools,
         ExtractSpigotVersionString, CopyFile, Fails, Kill, AllListed, Ends, Go, vars, Working,
         TypeInv, SpigotTypeOK

\* Whatever values the arguments have, the builder works with those it was
\* given (main.ts, lines 141 to 159).
THEOREM ArgsArriveCorrect == Spec => []ArgsArrive
<1>1. Init => TypeInv /\ ArgsArrive
  BY TypeInit, ArgsInit
<1>2. TypeInv /\ ArgsArrive /\ [Next]_vars => (TypeInv /\ ArgsArrive)'
  BY TypeStep, ArgsStep
<1> QED
  BY <1>1, <1>2, PTL DEF Spec

\* So that an attempt works on the version it was asked for.
LEMMA SameVersion ==
  ASSUME TypeInv, ArgsArrive, pc \in Working \ {"main", "versionInfo"}
  PROVE  Current = Target /\ Target \in Version
<1> DEFINE e == {i \in DOMAIN asked : asked[i].key = <<"version">>}
<1>1. Current \in Version /\ Current # <<>>
  BY SpigotAssumption DEF TypeInv, SpigotTypeOK, Working
<1>2. <<"version">> \in DOMAIN args
  BY <1>1 DEF Current
<1>3. e # {} /\ \A i \in e : asked[i].value = Current
  BY <1>2 DEF ArgsArrive, Current
<1>4. Target = asked[CHOOSE i \in e : TRUE].value
  BY <1>3 DEF Target
<1> QED
  BY <1>1, <1>3, <1>4

-----------------------------------------------------------------------------
(***************************************************************************)
(* The JDK and the jars.  Each attempt in a container starts with neither  *)
(* a JDK nor a jar of its version; what is unfinished is the work of the   *)
(* attempt that is going on, or of one that did not succeed.               *)
(***************************************************************************)
JdkInv ==
  /\ world # "host" /\ pc \in {"main", "versionInfo", "tools"} =>
       \A j \in Providable : jdks[j] = "none"
  /\ \A j \in Providable :
       jdks[j] = "partial" /\ ~ (pc = "jdk" /\ jdk = j) => mishaps # {}
  /\ pc = "jdk" => jdks[jdk] # "none"
  /\ pc \in {"jdk", "buildTools", "version", "copy"} => IsLatest(jdk)
  /\ JavaIsThere

JarInv ==
  /\ world # "host" /\ pc \in Working \ {"copy"} => \A l \in Label : jar[<<Target, l>>] = "none"
  /\ pc = "copy" => jar[<<Current, label>>] = "partial"

SpigotInv == TypeInv /\ ArgsArrive /\ JdkInv /\ JarInv /\ BuiltIsWhole /\ PartialOnlyAfterKill

LEMMA SpigotInvInit == Init => SpigotInv
<1> SUFFICES ASSUME Init PROVE SpigotInv
  OBVIOUS
<1>1. JdkInv /\ JarInv
  BY DEF Init, JdkInv, JavaIsThere, JarInv, Working
<1>2. BuiltIsWhole /\ PartialOnlyAfterKill
  BY DEF Init, BuiltIsWhole, PartialOnlyAfterKill
<1> QED
  BY <1>1, <1>2, TypeInit, ArgsInit DEF SpigotInv

LEMMA Unasked == ASSUME TypeInv, pc = "idle" PROVE Target = <<>> /\ Target \notin Version
<1>1. asked = <<>> /\ DOMAIN asked = {}
  BY DEF TypeInv, AskedType
<1>2. Target = <<>>
  BY <1>1 DEF Target
<1> QED
  BY <1>2, SpigotAssumption

LEMMA JdkStep == SpigotInv /\ [Next]_vars => JdkInv'
<1> SUFFICES ASSUME SpigotInv, [Next]_vars PROVE JdkInv'
  OBVIOUS
<1> USE DEF SpigotInv, JdkInv, JavaIsThere, IsLatest
<1>1. CASE Launch
  BY <1>1 DEF Launch, Go, TypeInv, SpigotTypeOK
<1>2. ASSUME NEW how \in End, Ends(how), jdks' = jdks,
             pc = "jdk" => <<Target, how>> \in mishaps'
      PROVE  JdkInv'
  <2>1. mishaps # {} => mishaps' # {}
    BY <1>2 DEF Ends
  <2> QED
    BY <1>2, <2>1 DEF Ends, Go
<1>3. CASE Main
  <2>1. CASE Refused(Line)
    BY <1>2, <1>3, <2>1 DEF Main, End
  <2>2. CASE ~ Refused(Line)
    BY <1>3, <2>2 DEF Main, Go
  <2> QED
    BY <2>1, <2>2
<1>4. CASE FetchVersionInfo
  BY <1>4 DEF FetchVersionInfo, Go
<1>5. CASE DownloadTools
  <2>1. IsLatest(jdk')
    BY <1>5, ChosenIsLatest DEF DownloadTools, TypeInv, SpigotTypeOK
  <2>2. IsLatest(jdk)' 
    BY <1>5, <2>1 DEF DownloadTools
  <2> QED
    BY <1>5, <2>2 DEF DownloadTools, Go, TypeInv, SpigotTypeOK, Content
<1>6. CASE ProvideJdk
  BY <1>6 DEF ProvideJdk, Go, TypeInv, SpigotTypeOK
<1>7. CASE RunBuildTools
  BY <1>7 DEF RunBuildTools, Go
<1>8. CASE ExtractSpigotVersionString
  BY <1>8 DEF ExtractSpigotVersionString, Go
<1>9. CASE CopyFile
  <2>1. PICK how \in {"built", "failed"} : Ends(how)
    BY <1>9 DEF CopyFile
  <2> QED
    BY <1>2, <1>9, <2>1 DEF CopyFile, End
<1>10. CASE Fails
  BY <1>2, <1>10, SameVersion DEF Fails, Ends, End, Working
<1>11. CASE Kill
  BY <1>2, <1>11, SameVersion DEF Kill, Ends, End, Working
<1>12. CASE AllListed \/ UNCHANGED vars
  BY <1>12 DEF AllListed, vars
<1> QED
  BY <1>1, <1>3, <1>4, <1>5, <1>6, <1>7, <1>8, <1>9, <1>10, <1>11, <1>12 DEF Next

LEMMA JarStep == SpigotInv /\ [Next]_vars => JarInv' /\ BuiltIsWhole' /\ PartialOnlyAfterKill'
<1> SUFFICES ASSUME SpigotInv, [Next]_vars
             PROVE  JarInv' /\ BuiltIsWhole' /\ PartialOnlyAfterKill'
  OBVIOUS
<1> USE DEF SpigotInv, JarInv, BuiltIsWhole, PartialOnlyAfterKill, Listed
<1>1. CASE Launch
  <2>1. Target \notin Version
    BY <1>1, Unasked DEF Launch
  <2>2. world # "host" => \E v \in Version : Target' = v /\ \A l \in Label : jar[<<v, l>>] = "none"
    <3> SUFFICES ASSUME world # "host"
                 PROVE  \E v \in Version : Target' = v /\ \A l \in Label : jar[<<v, l>>] = "none"
      OBVIOUS
    <3>1. PICK v \in GetKnownVersions : ~ Listed(v) /\ asked' = <<[key |-> <<"version">>, value |-> v]>>
      BY <1>1 DEF Launch
    <3>2. v \in Version /\ v # Latest
      BY DEF GetKnownVersions
    <3>3. Target' = v
      BY <3>1 DEF Target
    <3> QED
      BY <3>1, <3>2, <3>3
  <2> QED
    BY <1>1, <2>1, <2>2 DEF Launch, Go, Working
<1>2. ASSUME UNCHANGED <<world, asked, args, jar, label, ended, mishaps>>,
             pc' # "copy", pc \in Working \ {"copy"} \/ pc' = pc
      PROVE  JarInv' /\ BuiltIsWhole' /\ PartialOnlyAfterKill'
  BY <1>2 DEF Target, Current
<1>3. ASSUME NEW how \in {"failed", "killed"}, Ends(how), pc \in Working,
             \/ jar' = jar /\ (pc = "copy" => how = "killed")
             \/ pc = "copy" /\ jar' = [jar EXCEPT ![<<Current, label>>] = "none"]
      PROVE  JarInv' /\ BuiltIsWhole' /\ PartialOnlyAfterKill'
  <2>1. mishaps \subseteq mishaps' /\ (Target \in Version => <<Target, how>> \in mishaps')
    BY <1>3 DEF Ends
  <2>2. pc = "copy" => Current = Target /\ Target \in Version
    BY SameVersion DEF Working
  <2>3. \A v \in Version : ended'[v] = "built" => v # Target /\ ended[v] = "built"
    BY <1>3 DEF Ends, TypeInv, SpigotTypeOK
  <2>4. \A v \in Version : v # Target => \A l \in Label : jar'[<<v, l>>] = jar[<<v, l>>]
    BY <1>3, <2>2 DEF TypeInv, SpigotTypeOK
  <2>5. BuiltIsWhole'
    BY <2>3, <2>4
  <2>6. PartialOnlyAfterKill'
    <3> SUFFICES ASSUME NEW v \in Version, NEW l \in Label, jar'[<<v, l>>] = "partial"
                 PROVE  <<v, "killed">> \in mishaps'
      OBVIOUS
    <3>1. CASE pc = "copy" /\ Current = v /\ label = l
      <4>1. jar'[<<v, l>>] = "none" \/ how = "killed"
        BY <1>3, <3>1 DEF TypeInv, SpigotTypeOK
      <4> QED
        BY <2>1, <2>2, <3>1, <4>1
    <3>2. CASE ~ (pc = "copy" /\ Current = v /\ label = l)
      BY <1>3, <2>1, <3>2 DEF TypeInv, SpigotTypeOK
    <3> QED
      BY <3>1, <3>2
  <2>7. JarInv'
    BY <1>3 DEF Ends, Go, Working
  <2> QED
    BY <2>5, <2>6, <2>7
<1>4. CASE Main
  <2>1. CASE Refused(Line)
    BY <1>3, <1>4, <2>1 DEF Main, Working
  <2>2. CASE ~ Refused(Line)
    <3>1. UNCHANGED <<world, asked, jar, label, ended, mishaps>> /\ pc = "main" /\ pc' = "versionInfo"
      BY <1>4, <2>2 DEF Main, Go
    <3> QED
      BY <3>1 DEF Target, Working
  <2> QED
    BY <2>1, <2>2
<1>5. CASE FetchVersionInfo \/ DownloadTools \/ ProvideJdk \/ RunBuildTools
  BY <1>2, <1>5 DEF FetchVersionInfo, DownloadTools, ProvideJdk, RunBuildTools, Go, Working
<1>6. CASE ExtractSpigotVersionString
  <2>1. /\ Current = Target /\ Target \in Version /\ Target' = Target /\ Current' = Current
        /\ label' \in Label /\ pc = "version" /\ pc' = "copy"
        /\ jar' = [jar EXCEPT ![<<Current, label'>>] = "partial"]
        /\ UNCHANGED <<ended, mishaps>>
    BY <1>6, SameVersion DEF ExtractSpigotVersionString, Go, Working, Target, Current
  <2>2. \A v \in Version, l \in Label :
          jar'[<<v, l>>] = IF v = Current /\ l = label' THEN "partial" ELSE jar[<<v, l>>]
    BY <2>1 DEF TypeInv, SpigotTypeOK
  <2> QED
    BY <2>1, <2>2
<1>7. CASE CopyFile
  <2>1. PICK how \in {"built", "failed"} : Ends(how)
    BY <1>7 DEF CopyFile
  <2>2. /\ Current = Target /\ Target \in Version /\ label \in Label /\ artifact = "whole"
        /\ pc' = "idle" /\ mishaps \subseteq mishaps'
        /\ ended' = [ended EXCEPT ![Target] = how]
    BY <1>7, <2>1, SameVersion DEF CopyFile, Ends, Go, Working, TypeInv, SpigotTypeOK
  <2>3. \A v \in Version, l \in Label :
          jar'[<<v, l>>] = IF v = Target /\ l = label THEN "whole" ELSE jar[<<v, l>>]
    BY <1>7, <2>2 DEF CopyFile, TypeInv, SpigotTypeOK
  <2>4. \A v \in Version : ended'[v] = IF v = Target THEN how ELSE ended[v]
    BY <2>2 DEF TypeInv, SpigotTypeOK
  <2>5. BuiltIsWhole'
    BY <2>2, <2>3, <2>4
  <2>6. PartialOnlyAfterKill' /\ JarInv'
    BY <1>7, <2>2, <2>3 DEF CopyFile, Working
  <2> QED
    BY <2>5, <2>6
<1>8. CASE Fails
  BY <1>3, <1>8 DEF Fails
<1>9. CASE Kill
  BY <1>3, <1>9 DEF Kill
<1>10. CASE AllListed \/ UNCHANGED vars
  <2>1. UNCHANGED vars
    BY <1>10 DEF AllListed
  <2>2. /\ UNCHANGED <<world, pc, jar, label, ended, mishaps>>
        /\ Target' = Target /\ Current' = Current
    BY <2>1 DEF vars, Target, Current
  <2>3. JarInv'
    BY <2>2
  <2>4. BuiltIsWhole'
    BY <2>2
  <2>5. PartialOnlyAfterKill'
    BY <2>2
  <2> QED
    BY <2>3, <2>4, <2>5
<1> QED
  BY <1>1, <1>4, <1>5, <1>6, <1>7, <1>8, <1>9, <1>10 DEF Next

\* The inductive invariant.
THEOREM SpigotInvCorrect == Spec => []SpigotInv
<1>1. SpigotInv /\ [Next]_vars => SpigotInv'
  BY TypeStep, ArgsStep, JdkStep, JarStep DEF SpigotInv
<1> QED
  BY <1>1, SpigotInvInit, PTL DEF Spec

\* Java is run from a whole JDK, but for what an attempt that did not succeed
\* may have left on the host (JdkProvider.ts, lines 52 to 55).
THEOREM JavaIsThereCorrect == Spec => []JavaIsThere
<1>1. SpigotInv => JavaIsThere
  BY DEF SpigotInv, JdkInv
<1> QED
  BY <1>1, SpigotInvCorrect, PTL

\* Exit code 0 means that the jar is whole, and that the listing says it is
\* there, unless the version is latest (SpigotArtifactBuilder.ts, lines 288-292).
THEOREM BuiltIsWholeCorrect == Spec => []BuiltIsWhole
<1>1. SpigotInv => BuiltIsWhole
  BY DEF SpigotInv
<1> QED
  BY <1>1, SpigotInvCorrect, PTL

\* Only a killed builder leaves a jar that is not whole.
THEOREM SpigotPartialOnlyAfterKill == Spec => []PartialOnlyAfterKill
<1>1. SpigotInv => PartialOnlyAfterKill
  BY DEF SpigotInv
<1> QED
  BY <1>1, SpigotInvCorrect, PTL

\* No attempt in a container touches a whole jar.
THEOREM WholeJarsStayCorrect == Spec => WholeJarsStay
<1>1. SpigotInv /\ [Next]_vars =>
        [world # "host" => \A k \in Version \X Label : jar[k] = "whole" => jar'[k] = "whole"]_vars
  <2> SUFFICES ASSUME SpigotInv, [Next]_vars, world # "host",
                      NEW v \in Version, NEW l \in Label, jar[<<v, l>>] = "whole"
               PROVE  jar'[<<v, l>>] = "whole"
    OBVIOUS
  <2>1. jar' = jar \/ Fails \/ ExtractSpigotVersionString \/ CopyFile
    BY DEF Next, Launch, Main, FetchVersionInfo, DownloadTools, ProvideJdk, RunBuildTools,
           Kill, AllListed, vars
  <2>2. CASE Fails
    BY <2>2 DEF Fails, SpigotInv, JarInv, TypeInv, SpigotTypeOK
  <2>3. CASE ExtractSpigotVersionString
    <3>1. Current = Target /\ pc \in Working \ {"copy"} /\ label' \in Label
      BY <2>3, SameVersion DEF ExtractSpigotVersionString, SpigotInv, Working
    <3>2. jar[<<Current, label'>>] = "none"
      BY <3>1 DEF SpigotInv, JarInv
    <3> QED
      BY <2>3, <3>2 DEF ExtractSpigotVersionString, SpigotInv, TypeInv, SpigotTypeOK
  <2>4. CASE CopyFile
    BY <2>4 DEF CopyFile, SpigotInv, JarInv, TypeInv, SpigotTypeOK
  <2> QED
    BY <2>1, <2>2, <2>3, <2>4
<1> QED
  BY <1>1, SpigotInvCorrect, PTL DEF Spec, WholeJarsStay
=============================================================================
