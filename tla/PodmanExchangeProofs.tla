------------------------- MODULE PodmanExchangeProofs -------------------------
(***************************************************************************)
(* Proofs about PodmanExchange, for any number of chunks, any width of a   *)
(* byte, any decoding of a payload and any logs: the exchange implements   *)
(* the call of PodmanCall, and getContainerLogs finds the frames of a log  *)
(* again, wherever it breaks off.                                          *)
(***************************************************************************)
EXTENDS PodmanExchange, RecursionLemmas

\* The answer that the method would take, were it whole.
Welcome == answer.status = "expected" /\ (method \in Checked => answer.form = "expected")

\* An answer that would be taken is one that podman gave after it had acted; no
\* other fulfils the promise.
WelcomeIsDone == Welcome => podman = "done"
FulfilledIsDone == pc = "fulfilled" => podman = "done"
CallInv == WelcomeIsDone /\ FulfilledIsDone

\* Nothing has been sent or answered when a call begins.
LEMMA CallInvInit == Init => CallInv
BY DEF Init, CallInv, WelcomeIsDone, FulfilledIsDone, Welcome, NoAnswer

\* The steps that leave the answer and what podman did alone, and fulfil nothing.
LEMMA QuietStep ==
  ASSUME CallInv, UNCHANGED <<method, podman, answer>>, pc' # "fulfilled" \/ pc' = pc
  PROVE  CallInv'
BY DEF CallInv, WelcomeIsDone, FulfilledIsDone, Welcome

\* Podman answers as it acted; a method that does not look at more than the
\* status is told by the status.
LEMMA PodmanActsStep == CallInv /\ PodmanActs => CallInv'
<1> SUFFICES ASSUME CallInv, PodmanActs PROVE CallInv'
  OBVIOUS
<1>1. pc' = "request" /\ method' = method
  BY DEF PodmanActs
<1>2. CASE podman' = "done"
  BY <1>1, <1>2 DEF CallInv, WelcomeIsDone, FulfilledIsDone
<1>3. CASE podman' = "refused"
  <2>1. PICK status \in IF method \in Streamed THEN {"expected", "other"} ELSE {"other"} :
          answer' = [status |-> status, form |-> "other", body |-> <<>>]
    BY <1>3 DEF PodmanActs
  <2>2. ~Welcome'
    BY <1>1, <2>1 DEF Welcome, Checked, Json, Streamed
  <2> QED
    BY <1>1, <2>2 DEF CallInv, WelcomeIsDone, FulfilledIsDone
<1> QED
  BY <1>2, <1>3 DEF PodmanActs

\* A response concludes as far as it is the answer of a podman that has acted.
LEMMA ResponseEndsStep ==
  ASSUME CallInv, ResponseEnds
  PROVE  /\ CallInv'
         /\ pc' = "rejected" \/ (pc' = "fulfilled" /\ podman = "done")
<1>1. /\ UNCHANGED <<method, podman, answer>>
      /\ pc' = "rejected" \/ (pc' = "fulfilled" /\ Accepts)
  BY DEF ResponseEnds, Conclude, Go
<1>2. Accepts => Welcome
  BY DEF Accepts, Welcome
<1> QED
  BY <1>1, <1>2 DEF CallInv, WelcomeIsDone, FulfilledIsDone, Welcome

\* Every step of the exchange keeps CallInv.
LEMMA CallInvStep == CallInv /\ [Next]_vars => CallInv'
<1> SUFFICES ASSUME CallInv, [Next]_vars PROVE CallInv'
  OBVIOUS
<1>1. CASE TarFails
  BY <1>1, QuietStep DEF TarFails, Go
<1>2. CASE TarExits
  BY <1>2, QuietStep DEF TarExits, Go
<1>3. CASE TarEnds
  BY <1>3, QuietStep DEF TarEnds, Go
<1>4. CASE PodmanActs
  BY <1>4, PodmanActsStep
<1>5. CASE ResponseBegins
  BY <1>5, QuietStep DEF ResponseBegins, Go
<1>6. CASE ResponseData
  BY <1>6, QuietStep DEF ResponseData
<1>7. CASE ResponseEnds
  BY <1>7, ResponseEndsStep
<1>8. CASE ConnectionBreaks
  BY <1>8, QuietStep DEF ConnectionBreaks, Go
<1>9. CASE Over \/ UNCHANGED vars
  BY <1>9, QuietStep DEF Over, vars
<1> QED
  BY <1>1, <1>2, <1>3, <1>4, <1>5, <1>6, <1>7, <1>8, <1>9 DEF Next

\* CallInv holds in every behaviour of an exchange.
LEMMA CallInvHolds == Spec => []CallInv
BY CallInvInit, CallInvStep, PTL DEF Spec

\* An exchange begins where a call does.
LEMMA CallInit == Init => Call!Init
BY DEF Init, Call!Init, Settled

\* A step of the exchange is a step of the call, or the call does not see it.
LEMMA CallStep == CallInv /\ [Next]_vars => [Call!Act \/ Call!Fulfil \/ Call!Reject]_(Call!callVars)
<1> SUFFICES ASSUME CallInv, [Next]_vars
             PROVE  Call!Act \/ Call!Fulfil \/ Call!Reject \/ UNCHANGED Call!callVars
  BY DEF Call!callVars
<1> USE DEF Settled, Go
<1>1. CASE TarFails
  BY <1>1 DEF TarFails, Call!Reject
<1>2. CASE TarExits
  BY <1>2 DEF TarExits, Call!Reject, Call!callVars
<1>3. CASE TarEnds
  BY <1>3 DEF TarEnds, Call!callVars
<1>4. CASE PodmanActs
  BY <1>4 DEF PodmanActs, Call!Act
<1>5. CASE ResponseBegins
  BY <1>5 DEF ResponseBegins, Call!callVars
<1>6. CASE ResponseData
  BY <1>6 DEF ResponseData, Call!callVars
<1>7. CASE ResponseEnds
  BY <1>7, ResponseEndsStep DEF ResponseEnds, Call!Fulfil, Call!Reject
<1>8. CASE ConnectionBreaks
  BY <1>8 DEF ConnectionBreaks, Call!Reject
<1>9. CASE Over \/ UNCHANGED vars
  BY <1>9 DEF Over, vars, Call!callVars
<1> QED
  BY <1>1, <1>2, <1>3, <1>4, <1>5, <1>6, <1>7, <1>8, <1>9 DEF Next

\* Every method of PodmanApi.ts is the call that PodmanApi.tla takes it for: its
\* promise is fulfilled only if podman has done what it was asked to.
THEOREM ImplementsCallCorrect == Spec => ImplementsCall
<1>1. Spec => Call!Init
  BY CallInit DEF Spec
<1> QED
  BY <1>1, CallInvHolds, CallStep, PTL DEF Spec, ImplementsCall, Call!Spec

-----------------------------------------------------------------------------
(***************************************************************************)
(* Decode is a function: each of its calls is of fewer bytes than the one  *)
(* before.                                                                 *)
(***************************************************************************)
\* The size that a header gives is a natural number.
LEMMA FrameSizeType == ASSUME NEW s \in Seq(Nat) PROVE FrameSize(s) \in Nat
<1> DEFINE b(i) == ByteAt(s, i)
<1>1. b(5) \in Nat /\ b(6) \in Nat /\ b(7) \in Nat /\ b(8) \in Nat
  BY DEF ByteAt
<1>2. \A x \in Nat, y \in Nat : x * Base + y \in Nat
  BY ExchangeAssumption
<1> HIDE DEF b
<1>3. b(5) * Base + b(6) \in Nat
  BY <1>1, <1>2, Zenon
<1>4. (b(5) * Base + b(6)) * Base + b(7) \in Nat
  BY <1>1, <1>2, <1>3, Zenon
<1>5. ((b(5) * Base + b(6)) * Base + b(7)) * Base + b(8) \in Nat
  BY <1>1, <1>2, <1>4, Zenon
<1> QED BY <1>5 DEF FrameSize, b

\* A frame takes at least one byte of those that are left, and no more than there are.
LEMMA FrameEndRange ==
  ASSUME NEW s \in Seq(Nat), s # <<>>
  PROVE  FrameEnd(s) \in 1 .. Len(s) /\ (8 < FrameEnd(s) \/ FrameEnd(s) = Len(s) \/ FrameSize(s) = 0)
<1>1. FrameSize(s) \in Nat /\ Len(s) \in Nat /\ Len(s) # 0
  BY FrameSizeType, EmptySeq
<1> QED BY <1>1 DEF FrameEnd

\* The piece of one frame, and what is left after it.
PieceIn(left) ==
  [name |-> Named(left.bytes[1], left.last), bytes |-> SubSeq(left.bytes, 9, FrameEnd(left.bytes))]
After(left) ==
  [bytes |-> SubSeq(left.bytes, FrameEnd(left.bytes) + 1, Len(left.bytes)), last |-> left.bytes[1]]

\* What is left after a frame is less than there was.
LEMMA FrameTypes ==
  ASSUME NEW left \in Left, left.bytes # <<>>
  PROVE  /\ PieceIn(left) \in Piece
         /\ After(left) \in Left /\ Len(After(left).bytes) < Len(left.bytes)
<1> DEFINE s == left.bytes
<1>1. s \in Seq(Nat) /\ left.last \in Int /\ Len(s) \in Nat
  BY DEF Left
<1>2. FrameEnd(s) \in 1 .. Len(s)
  BY <1>1, FrameEndRange
<1>3. s[1] \in Nat
  BY <1>1, <1>2, ElementOfSeq
<1> HIDE DEF s
<1>4. /\ SubSeq(s, FrameEnd(s) + 1, Len(s)) \in Seq(Nat)
      /\ Len(SubSeq(s, FrameEnd(s) + 1, Len(s))) = Len(s) - FrameEnd(s)
  BY <1>1, <1>2, PartOfSeq
<1>5. SubSeq(s, 9, FrameEnd(s)) \in Seq(Nat)
  <2>1. \A i \in 9 .. FrameEnd(s) : s[i] \in Nat
    BY <1>1, <1>2, ElementOfSeq
  <2> QED BY <1>2, <2>1, SubSeqProperties
<1>6. Named(s[1], left.last) \in Int
  BY <1>3 DEF Named, NoStream
<1>7. PieceIn(left) \in Piece
  BY <1>5, <1>6 DEF PieceIn, Piece, s
<1>8. After(left) \in Left /\ Len(After(left).bytes) < Len(left.bytes)
  BY <1>1, <1>2, <1>3, <1>4 DEF After, Left, s
<1> QED BY <1>7, <1>8

\* The loop of getContainerLogs ends for any bytes, with the piece of one frame
\* after another.
LEMMA DecodeDefined ==
  /\ Decode \in [Left -> Seq(Piece)]
  /\ \A left \in Left :
       Decode[left] = IF left.bytes = <<>> THEN <<>>
                      ELSE IF left.bytes[1] \notin Stream THEN <<UnknownStream>>
                      ELSE <<PieceIn(left)>> \o Decode[After(left)]
<1> DEFINE Stop == {left \in Left : left.bytes = <<>> \/ left.bytes[1] \notin Stream}
           size == [left \in Left |-> Len(left.bytes)]
           base == [left \in Stop |-> IF left.bytes = <<>> THEN <<>> ELSE <<UnknownStream>>]
           next == [left \in Left \ Stop |-> After(left)]
           step == [p \in (Left \ Stop) \X Seq(Piece) |-> <<PieceIn(p[1])>> \o p[2]]
           Body(f, left) == IF left.bytes = <<>> THEN <<>>
                            ELSE IF left.bytes[1] \notin Stream THEN <<UnknownStream>>
                            ELSE <<PieceIn(left)>> \o f[After(left)]
<1>1. Decreases(Left, Stop, size, next)
  <2>1. Stop \in SUBSET Left /\ size \in [Left -> Nat]
    BY DEF Left
  <2>2. next \in [Left \ Stop -> Left] /\ \A left \in Left \ Stop : size[next[left]] < size[left]
    BY FrameTypes
  <2> QED BY <2>1, <2>2 DEF Decreases
<1>2. base \in [Stop -> Seq(Piece)]
  <2>1. UnknownStream \in Piece
    BY DEF UnknownStream, Piece
  <2>2. <<UnknownStream>> \in Seq(Piece)
    BY <2>1
  <2> QED BY <2>2, EmptySeq
<1>3. step \in [(Left \ Stop) \X Seq(Piece) -> Seq(Piece)]
  <2> SUFFICES ASSUME NEW left \in Left \ Stop, NEW v \in Seq(Piece)
               PROVE  <<PieceIn(left)>> \o v \in Seq(Piece)
    OBVIOUS
  <2> QED BY FrameTypes, ConcatProperties
<1>4. ComputesIn(Left, Seq(Piece), Stop, base, step)
  BY <1>2, <1>3 DEF ComputesIn
<1>5. PICK f \in [Left -> Seq(Piece)] :
        \A left \in Left : f[left] = ValueAt(Stop, base, next, step, f, left)
  <2> HIDE DEF Stop, size, base, next, step
  <2> QED BY <1>1, <1>4, RecursionDefines
<1>6. \A left \in Left : f[left] = Body(f, left)
  <2> SUFFICES ASSUME NEW left \in Left PROVE f[left] = Body(f, left)
    OBVIOUS
  <2>1. CASE left \in Stop
    BY <1>5, <2>1 DEF ValueAt
  <2>2. CASE left \notin Stop
    <3>1. f[left] = step[<<left, f[next[left]]>>] /\ next[left] = After(left) /\ f[After(left)] \in Seq(Piece)
      BY <1>5, <2>2, FrameTypes DEF ValueAt
    <3>2. step[<<left, f[After(left)]>>] = <<PieceIn(left)>> \o f[After(left)]
      BY <2>2, <3>1
    <3> QED BY <2>2, <3>1, <3>2
  <2> QED BY <2>1, <2>2
<1>7. f = [left \in Left |-> Body(f, left)]
  <2> HIDE DEF Body
  <2> QED BY <1>5, <1>6
<1>8. Decode = [left \in Left |-> Body(Decode, left)]
  BY <1>7 DEF Decode, PieceIn, After
<1>9. \A left \in Left : Decode[left] = Body(Decode, left)
  BY <1>8
<1>10. Decode = f
  <2>1. ASSUME NEW left \in Left, left \in Stop \/ Decode[next[left]] = f[next[left]]
        PROVE  Decode[left] = f[left]
    <3>1. CASE left \in Stop
      BY <1>6, <1>9, <3>1
    <3>2. CASE left \notin Stop
      <4>1. Decode[After(left)] = f[After(left)]
        BY <2>1, <3>2
      <4>2. Body(Decode, left) = Body(f, left)
        BY <4>1
      <4> QED BY <1>6, <1>9, <4>2
    <3> QED BY <3>1, <3>2
  <2>2. \A left \in Left : Decode[left] = f[left]
    <3>1. AgreeByStep(Left, Stop, next, Decode, f)
      BY <2>1 DEF AgreeByStep
    <3> HIDE DEF Stop, size, next
    <3> QED BY <1>1, <3>1, RecursionUnique
  <2> HIDE DEF Body
  <2> QED BY <1>7, <1>8, <2>2
<1> QED BY <1>9, <1>10

-----------------------------------------------------------------------------
(***************************************************************************)
(* The header of a frame: the four bytes of a size give the size back, and *)
(* every byte of a log is where getContainerLogs looks for it.             *)
(***************************************************************************)
\* A number is its last digit and those before it.
LEMMA Digits ==
  ASSUME NEW n \in Nat
  PROVE  /\ n \div Base \in Nat /\ n % Base \in Byte
         /\ n = (n \div Base) * Base + (n % Base)
<1>1. Base \in Nat /\ Base > 0
  BY ExchangeAssumption
<1> QED BY <1>1 DEF Byte

\* A number below m * Base has all digits but its last below m.
LEMMA FewerDigits ==
  ASSUME NEW n \in Nat, NEW m \in Nat, n < m * Base
  PROVE  n \div Base < m
<1>1. /\ n \div Base \in Nat /\ n % Base \in Nat
      /\ n = (n \div Base) * Base + (n % Base)
  <2>1. Base \in Nat /\ \A d \in Byte : d \in Nat
    BY ExchangeAssumption DEF Byte
  <2> QED BY <2>1, Digits
<1> DEFINE q == n \div Base
<1> HIDE DEF q
<1>2. \A p \in Nat, b \in Nat : p >= m => p * b >= m * b
  OBVIOUS
<1> QED BY <1>1, <1>2, ExchangeAssumption DEF q

\* A number of one digit is that digit.
LEMMA SmallNumber == ASSUME NEW n \in Nat, n < Base PROVE n % Base = n
BY ExchangeAssumption

\* The four bytes of a size give it back.
LEMMA SizeBytesDecode ==
  ASSUME NEW n \in Nat, 2 * n < Base * Base * Base * Base,
         NEW s, \A i \in 1 .. 4 : 4 + i \in DOMAIN s /\ s[4 + i] = SizeBytes(n)[i]
  PROVE  FrameSize(s) = n
<1> DEFINE n1 == n \div Base
           n2 == n1 \div Base
           n3 == n2 \div Base
<1>1. Base \in Nat /\ Base * Base \in Nat /\ Base * Base * Base \in Nat
  BY ExchangeAssumption
<1>2. n1 \in Nat /\ n2 \in Nat /\ n3 \in Nat
  BY Digits
<1>3. n = n1 * Base + (n % Base) /\ n1 = n2 * Base + (n1 % Base) /\ n2 = n3 * Base + (n2 % Base)
  BY <1>2, Digits
<1>4. SizeBytes(n) = <<n3 % Base, n2 % Base, n1 % Base, n % Base>>
  BY DEF SizeBytes
<1> HIDE DEF n1, n2, n3
<1>5. n3 % Base = n3
  <2>1. n < (Base * Base * Base) * Base
    <3> DEFINE b == Base * Base * Base * Base
    <3>1. b \in Nat /\ 2 * n < b
      BY <1>1
    <3> HIDE DEF b
    <3>2. n < b
      BY <3>1
    <3> QED BY <3>2 DEF b
  <2>2. n1 < (Base * Base) * Base
    BY <1>1, <2>1, FewerDigits DEF n1
  <2>3. n2 < Base * Base
    BY <1>1, <1>2, <2>2, FewerDigits DEF n2
  <2>4. n3 < Base
    BY <1>1, <1>2, <2>3, FewerDigits DEF n3
  <2> QED BY <1>2, <2>4, SmallNumber
<1>6. /\ ByteAt(s, 5) = n3 /\ ByteAt(s, 6) = n2 % Base
      /\ ByteAt(s, 7) = n1 % Base /\ ByteAt(s, 8) = n % Base
  <2>1. /\ ByteAt(s, 4 + 1) = SizeBytes(n)[1] /\ ByteAt(s, 4 + 2) = SizeBytes(n)[2]
        /\ ByteAt(s, 4 + 3) = SizeBytes(n)[3] /\ ByteAt(s, 4 + 4) = SizeBytes(n)[4]
    BY DEF ByteAt
  <2> QED BY <1>4, <1>5, <2>1
<1>7. FrameSize(s) = ((n3 * Base + (n2 % Base)) * Base + (n1 % Base)) * Base + (n % Base)
  BY <1>6 DEF FrameSize
<1> QED BY <1>3, <1>7

\* The payload and the stream of a frame are of natural numbers.
LEMMA TextType ==
  ASSUME NEW f \in Frame
  PROVE  /\ f.text \in Seq(Nat) /\ Len(f.text) \in Nat
         /\ f.stream \in Stream /\ f.stream \in Nat
<1> DEFINE t == f.text
<1>1. t \in Seq(Byte) /\ f.stream \in Stream
  BY DEF Frame
<1>2. Byte \subseteq Nat /\ Stream \subseteq Nat
  BY DEF Byte, Stream
<1> HIDE DEF t
<1>3. t \in Seq(Nat) /\ Len(t) \in Nat
  BY <1>1, <1>2, SeqMonotonic, LenProperties
<1> QED BY <1>1, <1>2, <1>3 DEF t

\* A size takes four bytes.
LEMMA SizeBytesType ==
  ASSUME NEW n \in Nat
  PROVE  SizeBytes(n) \in Seq(Nat) /\ Len(SizeBytes(n)) = 4
<1>1. \A m \in Nat : m \div Base \in Nat /\ m % Base \in Nat
  <2>1. \A d \in Byte : d \in Nat
    BY DEF Byte
  <2> QED BY <2>1, Digits
<1> DEFINE n1 == n \div Base
           n2 == n1 \div Base
           n3 == n2 \div Base
<1>2. n1 \in Nat /\ n2 \in Nat /\ n3 \in Nat
  BY <1>1
<1>3. SizeBytes(n) = <<n3 % Base, n2 % Base, n1 % Base, n % Base>>
  BY DEF SizeBytes
<1> HIDE DEF n1, n2, n3
<1>4. n3 % Base \in Nat /\ n2 % Base \in Nat /\ n1 % Base \in Nat /\ n % Base \in Nat
  BY <1>1, <1>2
<1> QED BY <1>3, <1>4

\* The bytes of a frame, where getContainerLogs looks for them.
LEMMA EncodedShape ==
  ASSUME NEW f \in Frame
  PROVE  /\ Encoded(f) \in Seq(Nat) /\ Len(Encoded(f)) = 8 + Len(f.text)
         /\ Encoded(f)[1] = f.stream
         /\ \A i \in 1 .. 4 : Encoded(f)[4 + i] = SizeBytes(Len(f.text))[i]
         /\ \A j \in 1 .. Len(f.text) : Encoded(f)[8 + j] = f.text[j]
<1> DEFINE head == <<f.stream, 0, 0, 0>>
           t == f.text
           size == SizeBytes(Len(t))
           hs == head \o size
<1>1. head \in Seq(Nat) /\ Len(head) = 4 /\ head[1] = f.stream
  <2>1. f.stream \in Nat
    BY TextType
  <2> QED BY <2>1
<1>2. t \in Seq(Nat) /\ Len(t) \in Nat
  BY TextType
<1>3. size \in Seq(Nat) /\ Len(size) = 4
  BY <1>2, SizeBytesType
<1>4. Encoded(f) = hs \o t
  BY DEF Encoded
<1> HIDE DEF head, size, t
<1>5. hs \in Seq(Nat) /\ Len(hs) = 8 /\ hs[1] = f.stream /\ \A i \in 1 .. 4 : hs[4 + i] = size[i]
  <2>1. Joins(hs, Nat, head, size)
    BY <1>1, <1>3, ConcatJoins
  <2> HIDE DEF hs
  <2> QED BY <1>1, <1>3, <2>1 DEF Joins
<1> HIDE DEF hs
<1>6. /\ hs \o t \in Seq(Nat) /\ Len(hs \o t) = 8 + Len(t)
      /\ \A i \in 1 .. 8 : (hs \o t)[i] = hs[i]
      /\ \A j \in 1 .. Len(t) : (hs \o t)[8 + j] = t[j]
  <2> DEFINE c == hs \o t
  <2>1. Joins(c, Nat, hs, t)
    BY <1>2, <1>5, ConcatJoins
  <2> HIDE DEF c
  <2>2. /\ c \in Seq(Nat) /\ Len(c) = 8 + Len(t)
        /\ \A i \in 1 .. 8 : c[i] = hs[i]
        /\ \A j \in 1 .. Len(t) : c[8 + j] = t[j]
    BY <1>5, <2>1 DEF Joins
  <2> QED BY <2>2 DEF c
<1>7. \A i \in 1 .. 4 : (hs \o t)[4 + i] = size[i]
  <2> SUFFICES ASSUME NEW i \in 1 .. 4 PROVE (hs \o t)[4 + i] = size[i]
    OBVIOUS
  <2>1. 4 + i \in 1 .. 8
    OBVIOUS
  <2> QED BY <1>5, <1>6, <2>1
<1>8. (hs \o t)[1] = f.stream
  BY <1>5, <1>6
<1> QED BY <1>4, <1>6, <1>7, <1>8 DEF size, t

\* s is the first n bytes of the frame f and the bytes R after it.
Begins(s, n, f, R) ==
  /\ s \in Seq(Nat) /\ Len(s) = n /\ s[1] = f.stream
  /\ \A i \in 1 .. 4 : 4 + i <= n => s[4 + i] = SizeBytes(Len(f.text))[i]
  /\ \A j \in 1 .. Len(f.text) : 8 + j <= n => s[8 + j] = f.text[j]
  /\ \A j \in 1 .. Len(R) : 8 + Len(f.text) + j <= n => s[8 + Len(f.text) + j] = R[j]

\* That is how every part of a log with the first frame f starts.
LEMMA LogBegins ==
  ASSUME NEW f \in Frame, NEW R \in Seq(Nat),
         NEW n \in Nat, 1 <= n, n <= 8 + Len(f.text) + Len(R)
  PROVE  Begins(SubSeq(Encoded(f) \o R, 1, n), n, f, R)
<1> DEFINE e == Encoded(f)
           L == Len(f.text)
           r == Len(R)
           c == e \o R
           s == SubSeq(c, 1, n)
           b == SizeBytes(L)
           t == f.text
<1>1. /\ e \in Seq(Nat) /\ Len(e) = 8 + L /\ e[1] = f.stream
      /\ \A i \in 1 .. 4 : e[4 + i] = b[i]
      /\ \A j \in 1 .. L : e[8 + j] = t[j]
  BY EncodedShape
<1>2. L \in Nat /\ r \in Nat
  BY TextType, LenProperties
<1>3. Joins(c, Nat, e, R)
  BY <1>1, ConcatJoins
<1> HIDE DEF c, e, L, r, t, b
<1>4. /\ c \in Seq(Nat) /\ Len(c) = 8 + L + r
      /\ \A i \in 1 .. 8 + L : c[i] = e[i]
      /\ \A j \in 1 .. r : c[8 + L + j] = R[j]
  BY <1>1, <1>3 DEF Joins, r
<1>5. Cuts(s, Nat, c, 1, n)
  <2>1. n <= Len(c)
    BY <1>4 DEF L, r
  <2> QED BY <1>4, <2>1, SubSeqCuts
<1> HIDE DEF s
<1>6. s \in Seq(Nat) /\ Len(s) = n /\ \A i \in 1 .. n : s[i] = c[i]
  BY <1>5 DEF Cuts
<1>7. s[1] = f.stream
  <2>1. 1 \in 1 .. n /\ 1 \in 1 .. 8 + L
    BY <1>2
  <2> QED BY <1>1, <1>4, <1>6, <2>1
<1>8. ASSUME NEW i \in 1 .. 4, 4 + i <= n PROVE s[4 + i] = b[i]
  <2>1. 4 + i \in 1 .. n /\ 4 + i \in 1 .. 8 + L
    BY <1>2, <1>8
  <2> QED BY <1>1, <1>4, <1>6, <2>1
<1>9. ASSUME NEW j \in 1 .. L, 8 + j <= n PROVE s[8 + j] = t[j]
  <2>1. 8 + j \in 1 .. n /\ 8 + j \in 1 .. 8 + L
    BY <1>2, <1>9
  <2> QED BY <1>1, <1>4, <1>6, <2>1
<1>10. ASSUME NEW j \in 1 .. r, 8 + L + j <= n PROVE s[8 + L + j] = R[j]
  <2>1. 8 + L + j \in 1 .. n
    BY <1>2, <1>10
  <2> QED BY <1>4, <1>6, <2>1
<1>11. Begins(s, n, f, R)
  BY <1>6, <1>7, <1>8, <1>9, <1>10 DEF Begins, L, r, t, b
<1> QED BY <1>11 DEF s, c, e

-----------------------------------------------------------------------------
(***************************************************************************)
(* One frame: it is cut where it ends, or where the log breaks off, and    *)
(* decoded to its piece.                                                   *)
(***************************************************************************)
\* How much of what is after f is among the first n bytes.
Beyond(n, f) == IF n <= 8 + Len(f.text) THEN 0 ELSE n - 8 - Len(f.text)

\* The size of a payload says how long it is.
Fits(f) == f \in Frame /\ 2 * Len(f.text) < Base * Base * Base * Base

\* getContainerLogs cuts a frame where it ends, or where the log breaks off.
LEMMA FrameIsCut ==
  ASSUME NEW f, Fits(f), NEW R \in Seq(Nat),
         NEW n \in Nat, 1 <= n, n <= 8 + Len(f.text) + Len(R),
         NEW s, Begins(s, n, f, R)
  PROVE  /\ SubSeq(s, 9, FrameEnd(s)) = SubSeq(f.text, 1, Reach(n, f))
         /\ SubSeq(s, FrameEnd(s) + 1, Len(s)) = SubSeq(R, 1, Beyond(n, f))
<1> DEFINE t == f.text
           L == Len(t)
           r == Len(R)
<1>1. L \in Nat /\ r \in Nat /\ t \in Seq(Nat)
  BY TextType, LenProperties DEF Fits
<1>2. s \in Seq(Nat) /\ Len(s) = n
  BY DEF Begins
<1>3. FrameSize(s) \in Nat
  BY <1>2, FrameSizeType
<1>4. n > 8 => FrameSize(s) = L
  <2> SUFFICES ASSUME n > 8 PROVE FrameSize(s) = L
    OBVIOUS
  <2>1. \A i \in 1 .. 4 : 4 + i \in DOMAIN s /\ s[4 + i] = SizeBytes(L)[i]
    <3>1. \A i \in 1 .. 4 : 4 + i <= n /\ 4 + i \in 1 .. n
      OBVIOUS
    <3>2. DOMAIN s = 1 .. n
      BY <1>2, LenProperties
    <3> QED BY <3>1, <3>2 DEF Begins
  <2> QED BY <1>1, <2>1, SizeBytesDecode DEF Fits
<1>5. FrameEnd(s) = IF n <= 8 + L THEN n ELSE 8 + L
  <2> DEFINE z == FrameSize(s)
  <2>1. FrameEnd(s) = IF 8 + z < n THEN 8 + z ELSE n
    BY <1>2 DEF FrameEnd
  <2>2. z \in Nat /\ (n > 8 => z = L)
    BY <1>3, <1>4
  <2> HIDE DEF z, L
  <2> QED BY <1>1, <2>1, <2>2
<1>6. /\ \A j \in 1 .. L : 8 + j <= n => s[8 + j] = t[j]
      /\ \A j \in 1 .. r : 8 + L + j <= n => s[8 + L + j] = R[j]
  BY DEF Begins
<1> DEFINE a == SubSeq(s, 9, FrameEnd(s))
           k == Reach(n, f)
           a2 == SubSeq(t, 1, k)
<1>7. k \in Nat /\ k <= L
  BY <1>1 DEF Reach
<1>8. a = a2
  <2>1. Cuts(a2, Nat, t, 1, k)
    BY <1>1, <1>7, SubSeqCuts
  <2>2. CASE n <= 8
    <3>1. a = <<>> /\ a2 = <<>>
      <4>1. k = 0 /\ FrameEnd(s) = n
        BY <1>1, <1>5, <2>2 DEF Reach
      <4> QED BY <2>2, <4>1, SubSeqEmpty
    <3> QED BY <3>1
  <2>3. CASE n > 8
    <3>1. k = FrameEnd(s) - 8 /\ FrameEnd(s) \in Nat /\ FrameEnd(s) <= n /\ 9 <= FrameEnd(s) + 1
      BY <1>1, <1>5, <2>3 DEF Reach
    <3>2. Cuts(a, Nat, s, 9, FrameEnd(s))
      BY <1>2, <3>1, SubSeqCuts
    <3> HIDE DEF a, a2, k, L, t
    <3>3. a \in Seq(Nat) /\ Len(a) = k /\ \A i \in 1 .. k : a[i] = s[8 + i]
      BY <3>1, <3>2 DEF Cuts
    <3>4. a2 \in Seq(Nat) /\ Len(a2) = k /\ \A i \in 1 .. k : a2[i] = t[i]
      BY <1>7, <2>1 DEF Cuts
    <3>5. \A i \in 1 .. k : i \in 1 .. L /\ 8 + i <= n
      BY <1>1, <1>7, <3>1
    <3>6. \A i \in 1 .. k : a[i] = a2[i]
      BY <1>6, <3>3, <3>4, <3>5
    <3> QED BY <3>3, <3>4, <3>6, SameElements
  <2> HIDE DEF a, a2
  <2> QED BY <2>2, <2>3
<1> DEFINE d == SubSeq(s, FrameEnd(s) + 1, Len(s))
           m == Beyond(n, f)
           d2 == SubSeq(R, 1, m)
<1>9. m \in Nat /\ m <= r /\ FrameEnd(s) + m = n /\ FrameEnd(s) \in Nat /\ (m # 0 => FrameEnd(s) = 8 + L)
  BY <1>1, <1>5 DEF Beyond
<1>10. d = d2
  <2>1. Cuts(d2, Nat, R, 1, m)
    BY <1>9, SubSeqCuts
  <2>2. Cuts(d, Nat, s, FrameEnd(s) + 1, n)
    BY <1>2, <1>9, SubSeqCuts
  <2> HIDE DEF d, d2, m, L, t, r
  <2>3. d \in Seq(Nat) /\ Len(d) = m /\ \A i \in 1 .. m : d[i] = s[FrameEnd(s) + i]
    <3>1. n - (FrameEnd(s) + 1) + 1 = m
      BY <1>9
    <3>2. ASSUME NEW i \in 1 .. m PROVE d[i] = s[FrameEnd(s) + i]
      <4>1. (FrameEnd(s) + 1) + i - 1 = FrameEnd(s) + i
        BY <1>9
      <4> QED BY <2>2, <3>1, <4>1 DEF Cuts
    <3> QED BY <2>2, <3>1, <3>2 DEF Cuts
  <2>4. d2 \in Seq(Nat) /\ Len(d2) = m /\ \A i \in 1 .. m : d2[i] = R[i]
    BY <1>9, <2>1 DEF Cuts
  <2>5. \A i \in 1 .. m : d[i] = d2[i]
    <3> SUFFICES ASSUME NEW i \in 1 .. m PROVE d[i] = d2[i]
      OBVIOUS
    <3>1. i \in 1 .. r /\ 8 + L + i <= n /\ FrameEnd(s) = 8 + L
      BY <1>1, <1>9
    <3> QED BY <1>6, <2>3, <2>4, <3>1
  <2> QED BY <2>3, <2>4, <2>5, SameElements
<1> QED BY <1>8, <1>10

\* As much of f as there is among n bytes is a frame.
LEMMA BegunType ==
  ASSUME NEW f \in Frame, NEW n \in Int
  PROVE  /\ Begun(f, n) \in Frame /\ Begun(f, n).stream = f.stream
         /\ Begun(f, n).text = SubSeq(f.text, 1, Reach(n, f)) /\ Reach(n, f) \in 0 .. Len(f.text)
<1> DEFINE t == f.text
           k == Reach(n, f)
           c == SubSeq(t, 1, k)
<1>1. t \in Seq(Byte) /\ Len(t) \in Nat /\ f.stream \in Stream
  BY LenProperties DEF Frame
<1>2. k \in 0 .. Len(t)
  BY <1>1 DEF Reach
<1> HIDE DEF k, t
<1>3. Cuts(c, Byte, t, 1, k)
  BY <1>1, <1>2, SubSeqCuts
<1>4. c \in Seq(Byte)
  BY <1>3 DEF Cuts
<1> HIDE DEF c
<1>5. Begun(f, n) = [stream |-> f.stream, text |-> c]
  <2>1. f = [stream |-> f.stream, text |-> f.text]
    BY DEF Frame
  <2>2. Begun(f, n) = [f EXCEPT !.text = c]
    BY DEF Begun, c, k, t
  <2> HIDE DEF c
  <2> QED BY <2>1, <2>2
<1>6. Begun(f, n) \in Frame
  BY <1>1, <1>4, <1>5 DEF Frame
<1> QED BY <1>2, <1>5, <1>6 DEF c, k, t

\* A frame is decoded to its piece, and what is left after it goes on with its stream.
DecodesFrame(f, R, n, s, last) ==
  Decode[[bytes |-> s, last |-> last]] =
    <<PieceOf(Begun(f, n), last)>> \o Decode[[bytes |-> SubSeq(R, 1, Beyond(n, f)), last |-> f.stream]]

\* So it is for every part of a log.
LEMMA DecodeFrame ==
  ASSUME NEW f, Fits(f), NEW R \in Seq(Nat),
         NEW n \in Nat, 1 <= n, n <= 8 + Len(f.text) + Len(R),
         NEW s, Begins(s, n, f, R), NEW last \in Int
  PROVE  DecodesFrame(f, R, n, s, last)
<1> DEFINE left == [bytes |-> s, last |-> last]
<1>1. s \in Seq(Nat) /\ Len(s) = n /\ s[1] = f.stream
  BY DEF Begins
<1>2. s # <<>> /\ s[1] \in Stream
  BY <1>1, EmptySeq, TextType DEF Fits
<1>3. left \in Left /\ left.bytes = s /\ left.last = last
  BY <1>1 DEF Left
<1> HIDE DEF left
<1>4. Decode[left] = <<PieceIn(left)>> \o Decode[After(left)]
  BY <1>2, <1>3, DecodeDefined
<1>5. PieceIn(left) = PieceOf(Begun(f, n), last)
  <2>1. SubSeq(s, 9, FrameEnd(s)) = SubSeq(f.text, 1, Reach(n, f))
    BY FrameIsCut
  <2>2. f \in Frame
    BY DEF Fits
  <2> DEFINE g == Begun(f, n)
  <2>3. g.stream = f.stream /\ g.text = SubSeq(f.text, 1, Reach(n, f))
    <3>1. n \in Int
      OBVIOUS
    <3> QED BY <2>2, <3>1, BegunType
  <2> HIDE DEF g
  <2>4. PieceIn(left) = [name |-> Named(f.stream, last), bytes |-> SubSeq(f.text, 1, Reach(n, f))]
    BY <1>1, <1>3, <2>1 DEF PieceIn
  <2>5. PieceOf(g, last) = [name |-> Named(f.stream, last), bytes |-> SubSeq(f.text, 1, Reach(n, f))]
    BY <2>3 DEF PieceOf
  <2> QED BY <2>4, <2>5 DEF g
<1>6. After(left) = [bytes |-> SubSeq(R, 1, Beyond(n, f)), last |-> f.stream]
  BY <1>1, <1>3, FrameIsCut DEF After
<1> QED BY <1>4, <1>5, <1>6 DEF DecodesFrame, left

-----------------------------------------------------------------------------
(***************************************************************************)
(* A log: its first frame, and the others.                                 *)
(***************************************************************************)
\* The bytes of a log are those of its first frame, and of the others.
LEMMA LogFront ==
  ASSUME NEW log \in Seq(Frame), log # <<>>
  PROVE  EncodedLog(log) = Encoded(Head(log)) \o EncodedLog(Tail(log))
<1> DEFINE e == [f \in Frame |-> Encoded(f)]
<1>1. Maps(e, Frame, Seq(Nat))
  BY EncodedShape DEF Maps
<1>2. \A s \in Seq(Frame) : EncodedLog(s) = FlattenSeq(Mapped(e, s))
  <2> SUFFICES ASSUME NEW s \in Seq(Frame) PROVE EncodedLog(s) = FlattenSeq(Mapped(e, s))
    OBVIOUS
  <2>1. \A i \in DOMAIN s : s[i] \in Frame
    BY ElementOfSeq, LenProperties
  <2>2. Mapped(e, s) = [i \in DOMAIN s |-> Encoded(s[i])]
    BY <2>1 DEF Mapped
  <2> QED BY <2>2 DEF EncodedLog
<1>3. Head(log) \in Frame /\ Tail(log) \in Seq(Frame)
  BY HeadTailProperties
<1>4. e[Head(log)] = Encoded(Head(log))
  BY <1>3
<1> HIDE DEF e
<1>5. FlattenSeq(Mapped(e, log)) = e[Head(log)] \o FlattenSeq(Mapped(e, Tail(log)))
  BY <1>1, MappedFront
<1> QED BY <1>2, <1>3, <1>4, <1>5

\* A log is sent as bytes.
LEMMA LogTypes == ASSUME NEW log \in Seq(Frame) PROVE EncodedLog(log) \in Seq(Nat)
<1> DEFINE e == [f \in Frame |-> Encoded(f)]
<1>1. Maps(e, Frame, Seq(Nat))
  BY EncodedShape DEF Maps
<1>2. \A i \in DOMAIN log : log[i] \in Frame
  BY ElementOfSeq, LenProperties
<1>3. Mapped(e, log) = [i \in DOMAIN log |-> Encoded(log[i])]
  BY <1>2 DEF Mapped
<1> HIDE DEF e
<1>4. Mapped(e, log) \in Seq(Seq(Nat))
  BY <1>1, MappedType
<1> QED BY <1>3, <1>4, FlattenSeqType DEF EncodedLog

\* An empty log has none.
LEMMA LogEmpty == EncodedLog(<<>>) = <<>>
BY FlattenSeqEmpty DEF EncodedLog

\* The log of a container that wrote anything is not empty.
LEMMA LogLength ==
  ASSUME NEW log, log \in Seq(Frame), log # <<>>
  PROVE  /\ Len(EncodedLog(Tail(log))) \in Nat /\ Len(Head(log).text) \in Nat
         /\ Len(EncodedLog(log)) = 8 + Len(Head(log).text) + Len(EncodedLog(Tail(log)))
<1> DEFINE f == Head(log)
           R == EncodedLog(Tail(log))
           e == Encoded(f)
<1>1. f \in Frame /\ R \in Seq(Nat)
  BY HeadTailProperties, LogTypes
<1>2. EncodedLog(log) = e \o R
  BY LogFront
<1>3. e \in Seq(Nat) /\ Len(e) = 8 + Len(f.text) /\ Len(f.text) \in Nat
  BY <1>1, EncodedShape, TextType
<1> HIDE DEF f, R, e
<1>4. Joins(e \o R, Nat, e, R)
  BY <1>1, <1>3, ConcatJoins
<1>5. Len(R) \in Nat
  BY <1>1, LenProperties
<1> QED BY <1>2, <1>3, <1>4, <1>5 DEF Joins, f, R

\* All the frames of a log have such a size.
Sizes(log) == \A i \in DOMAIN log : Fits(log[i])

\* The first frame of a log and the log of the others.
LEMMA SizesFront ==
  ASSUME NEW log, log \in Seq(Frame), log # <<>>, Sizes(log)
  PROVE  /\ Head(log) \in Frame /\ Tail(log) \in Seq(Frame) /\ Len(Tail(log)) < Len(log)
         /\ Sizes(Tail(log)) /\ Fits(Head(log))
<1> DEFINE u == Tail(log)
           n == Len(u)
<1>1. /\ Head(log) \in Frame /\ u \in Seq(Frame) /\ n \in Nat /\ Len(log) = n + 1 /\ Head(log) = log[1]
      /\ \A i \in 1 .. n : u[i] = log[i + 1]
  BY HeadTailProperties, LenProperties, EmptySeq
<1>2. DOMAIN log = 1 .. n + 1 /\ DOMAIN u = 1 .. n
  BY <1>1, LenProperties
<1> HIDE DEF u, n
<1>3. ASSUME NEW i \in 1 .. n PROVE Fits(u[i])
  <2>1. i + 1 \in DOMAIN log /\ u[i] = log[i + 1]
    BY <1>1, <1>2
  <2> QED BY <2>1 DEF Sizes
<1>4. 1 \in DOMAIN log
  BY <1>1, <1>2
<1>5. Sizes(u)
  BY <1>2, <1>3 DEF Sizes
<1>6. Fits(Head(log))
  BY <1>1, <1>4 DEF Sizes
<1>7. n < Len(log)
  BY <1>1
<1> QED BY <1>1, <1>5, <1>6, <1>7 DEF u, n

\* A log that breaks off, decoded after a frame of stream last.
Given(log, n, last) == Decode[[bytes |-> SubSeq(EncodedLog(log), 1, n), last |-> last]]

\* What is decoded of a log: the piece of its first frame, and then the others.
LEMMA GivenFront ==
  ASSUME NEW log, log \in Seq(Frame), log # <<>>, Sizes(log),
         NEW n \in Nat, 1 <= n, n <= Len(EncodedLog(log)), NEW last \in Int
  PROVE  Given(log, n, last) =
           <<PieceOf(Begun(Head(log), n), last)>>
             \o Given(Tail(log), Beyond(n, Head(log)), Head(log).stream)
<1> DEFINE f == Head(log)
           R == EncodedLog(Tail(log))
           e == EncodedLog(log)
           s == SubSeq(e, 1, n)
<1>1. f \in Frame /\ R \in Seq(Nat) /\ Fits(f)
  BY SizesFront, LogTypes
<1>2. e = Encoded(f) \o R
  BY LogFront
<1>3. n <= 8 + Len(f.text) + Len(R)
  BY LogLength
<1> HIDE DEF f, R
<1>4. Begins(s, n, f, R)
  BY <1>1, <1>2, <1>3, LogBegins
<1> HIDE DEF s, e
<1>5. DecodesFrame(f, R, n, s, last)
  BY <1>1, <1>3, <1>4, DecodeFrame
<1> QED BY <1>5 DEF DecodesFrame, Given, s, e, f, R

\* The first frames of a log are its first one, and some of the others.
LEMMA PartFront ==
  ASSUME NEW S, NEW s, s \in Seq(S), s # <<>>, NEW i, i \in 1 .. Len(s)
  PROVE  /\ SubSeq(s, 1, i) \in Seq(S) /\ SubSeq(s, 1, i) # <<>>
         /\ Head(SubSeq(s, 1, i)) = Head(s)
         /\ Tail(SubSeq(s, 1, i)) = SubSeq(Tail(s), 1, i - 1)
<1> DEFINE c == SubSeq(s, 1, i)
           u == Tail(s)
           d == SubSeq(u, 1, i - 1)
           l == Len(s)
           b == Tail(c)
<1>1. /\ u \in Seq(S) /\ Len(u) = l - 1 /\ Head(s) = s[1] /\ l \in Nat
      /\ \A j \in 1 .. l - 1 : u[j] = s[j + 1]
  BY HeadTailProperties, LenProperties
<1>2. Cuts(c, S, s, 1, i)
  BY <1>1, SubSeqCuts
<1>3. Cuts(d, S, u, 1, i - 1)
  <2>1. i - 1 \in Nat /\ 1 <= (i - 1) + 1 /\ i - 1 <= Len(u)
    BY <1>1
  <2> HIDE DEF u, d
  <2> QED BY <1>1, <2>1, SubSeqCuts DEF d
<1> HIDE DEF c, d, u, l
<1>4. c \in Seq(S) /\ Len(c) = i /\ \A j \in 1 .. i : c[j] = s[j]
  BY <1>1, <1>2 DEF Cuts, l
<1>5. d \in Seq(S) /\ Len(d) = i - 1 /\ \A j \in 1 .. i - 1 : d[j] = u[j]
  <2>1. (i - 1) - 1 + 1 = i - 1 /\ \A j \in 1 .. i - 1 : 1 + j - 1 = j
    BY <1>1 DEF l
  <2> QED BY <1>3, <2>1 DEF Cuts
<1>6. c # <<>>
  BY <1>1, <1>4, EmptySeq DEF l
<1>7. b \in Seq(S) /\ Len(b) = i - 1 /\ Head(c) = c[1] /\ \A j \in 1 .. i - 1 : b[j] = c[j + 1]
  BY <1>4, <1>6, HeadTailProperties
<1> HIDE DEF b
<1>8. ASSUME NEW j \in 1 .. i - 1 PROVE b[j] = d[j]
  <2>1. j + 1 \in 1 .. i /\ j \in 1 .. l - 1
    BY <1>1 DEF l
  <2> QED BY <1>1, <1>4, <1>5, <1>7, <2>1
<1>9. b = d
  BY <1>5, <1>7, <1>8, SameElements
<1>10. Head(c) = Head(s)
  <2>1. 1 \in 1 .. i
    BY <1>1 DEF l
  <2> QED BY <1>1, <1>4, <1>7, <2>1
<1> QED BY <1>4, <1>6, <1>9, <1>10 DEF c, d, u, b

\* Where a frame begins is a number of bytes.
LEMMA OffsetType ==
  ASSUME NEW log, log \in Seq(Frame), NEW i, i \in 1 .. Len(log) + 1
  PROVE  Offset(log, i) \in Nat
<1> DEFINE c == SubSeq(log, 1, i - 1)
<1>1. Cuts(c, Frame, log, 1, i - 1)
  <2>1. Len(log) \in Nat
    BY LenProperties
  <2>2. i - 1 \in Nat /\ 1 <= (i - 1) + 1 /\ i - 1 <= Len(log)
    BY <2>1
  <2> QED BY <2>2, SubSeqCuts
<1>2. c \in Seq(Frame)
  BY <1>1 DEF Cuts
<1> HIDE DEF c
<1>3. Len(EncodedLog(c)) \in Nat
  BY <1>2, LogTypes, LenProperties
<1> QED BY <1>3 DEF Offset, c

\* The first frame is at the start, and the others behind it.
LEMMA OffsetFront ==
  ASSUME NEW log, log \in Seq(Frame), log # <<>>
  PROVE  /\ Offset(log, 1) = 0
         /\ \A i \in 1 .. Len(Tail(log)) :
              Offset(log, i + 1) = 8 + Len(Head(log).text) + Offset(Tail(log), i)
<1>1. Offset(log, 1) = 0
  <2>1. SubSeq(log, 1, 0) = <<>> /\ 1 - 1 = 0
    BY SubSeqEmpty
  <2> QED BY <2>1, LogEmpty, EmptySeq DEF Offset
<1>2. ASSUME NEW i \in 1 .. Len(Tail(log))
      PROVE  Offset(log, i + 1) = 8 + Len(Head(log).text) + Offset(Tail(log), i)
  <2> DEFINE c == SubSeq(log, 1, i)
  <2>1. (i + 1) - 1 = i /\ i \in 1 .. Len(log)
    <3>1. Len(log) \in Nat /\ Len(Tail(log)) = Len(log) - 1
      BY LenProperties, HeadTailProperties
    <3> QED BY <3>1
  <2>2. c \in Seq(Frame) /\ c # <<>> /\ Head(c) = Head(log) /\ Tail(c) = SubSeq(Tail(log), 1, i - 1)
    <3> HIDE DEF c
    <3>1. i \in 1 .. Len(log)
      BY <2>1
    <3> QED BY <3>1, PartFront DEF c
  <2> HIDE DEF c
  <2>3. Len(EncodedLog(c)) = 8 + Len(Head(c).text) + Len(EncodedLog(Tail(c)))
    BY <2>2, LogLength
  <2> QED BY <2>1, <2>2, <2>3 DEF Offset, c
<1> QED BY <1>1, <1>2

\* What has arrived of a log is what has arrived of its first frame, and of the others.
LEMMA ArrivedFront ==
  ASSUME NEW log, log \in Seq(Frame), log # <<>>, NEW n, n \in Nat, 1 <= n,
         NEW c, c \in Seq(Frame), c \in Arrived(Tail(log), Beyond(n, Head(log)))
  PROVE  <<Begun(Head(log), n)>> \o c \in Arrived(log, n)
<1> DEFINE f == Head(log)
           u == Tail(log)
           b == Begun(f, n)
           m == Beyond(n, f)
           L == Len(f.text)
           l == Len(u)
           a == <<b>> \o c
<1>1. /\ f \in Frame /\ u \in Seq(Frame) /\ l \in Nat /\ Len(log) = l + 1 /\ f = log[1]
      /\ \A i \in 1 .. l : u[i] = log[i + 1]
  BY HeadTailProperties, LenProperties, EmptySeq
<1>2. L \in Nat /\ b \in Frame
  BY <1>1, TextType, BegunType
<1>3. m = IF n <= 8 + L THEN 0 ELSE n - 8 - L
  BY DEF Beyond
<1>4. \A i \in 1 .. l : Offset(u, i) \in Nat
  <2>1. \A i \in 1 .. l : i \in 1 .. Len(u) + 1
    BY <1>1
  <2> HIDE DEF l, u
  <2> QED BY <1>1, <2>1, OffsetType
<1>5. Offset(log, 1) = 0 /\ \A i \in 1 .. l : Offset(log, i + 1) = 8 + L + Offset(u, i)
  BY OffsetFront
<1>6. PICK k \in Counts(u, m) : c = [i \in 1 .. k |-> Begun(u[i], m - Offset(u, i))]
  BY DEF Arrived
<1> HIDE DEF f, u, b, m, L, l
<1>7. /\ k \in 0 .. l /\ (k > 0 => Offset(u, k) < m) /\ (k < l => m <= Offset(u, k + 1))
  BY <1>6 DEF Counts, l
<1>8. k + 1 \in Counts(log, n)
  <2>1. k + 1 \in 0 .. Len(log)
    BY <1>1, <1>7
  <2>2. Offset(log, k + 1) < n
    <3>1. CASE k = 0
      BY <1>5, <3>1
    <3>2. CASE k > 0
      <4>1. k \in 1 .. l
        BY <1>1, <1>7, <3>2
      <4> QED BY <1>2, <1>3, <1>4, <1>5, <1>7, <3>2, <4>1
    <3> QED BY <1>7, <3>1, <3>2
  <2>3. k + 1 < Len(log) => n <= Offset(log, (k + 1) + 1)
    <3> SUFFICES ASSUME k + 1 < Len(log) PROVE n <= Offset(log, (k + 1) + 1)
      OBVIOUS
    <3>1. k < l /\ k + 1 \in 1 .. l
      BY <1>1, <1>7
    <3>2. m <= Offset(u, k + 1) /\ Offset(u, k + 1) \in Nat /\ Offset(log, (k + 1) + 1) = 8 + L + Offset(u, k + 1)
      BY <1>4, <1>5, <1>7, <3>1
    <3> QED BY <1>2, <1>3, <3>2
  <2> QED BY <2>1, <2>2, <2>3 DEF Counts
<1>9. Len(c) = k /\ \A i \in 1 .. k : c[i] = Begun(u[i], m - Offset(u, i))
  <2>1. DOMAIN c = 1 .. k /\ k \in Nat
    BY <1>6, <1>7
  <2>2. Len(c) = k
    BY <2>1, LenProperties
  <2> QED BY <1>6, <2>2
<1>10. a \in Seq(Frame) /\ Len(a) = k + 1 /\ a[1] = b /\ \A i \in 1 .. k : a[1 + i] = c[i]
  <2>1. <<b>> \in Seq(Frame) /\ Len(<<b>>) = 1 /\ <<b>>[1] = b
    BY <1>2
  <2>2. Joins(a, Frame, <<b>>, c)
    BY <2>1, ConcatJoins
  <2> HIDE DEF a
  <2> QED BY <1>7, <1>9, <2>1, <2>2 DEF Joins
<1> HIDE DEF a
<1>11. ASSUME NEW i \in 1 .. k + 1 PROVE a[i] = Begun(log[i], n - Offset(log, i))
  <2>1. CASE i = 1
    <3>1. n - Offset(log, 1) = n
      BY <1>5
    <3> QED BY <1>1, <1>10, <2>1, <3>1 DEF b
  <2>2. CASE i # 1
    <3> DEFINE j == i - 1
    <3>1. j \in 1 .. k /\ j \in 1 .. l /\ 1 + j = i /\ j + 1 = i /\ k > 0
      BY <1>1, <1>7, <2>2
    <3> HIDE DEF j
    <3>2. a[i] = Begun(log[i], m - Offset(u, j))
      BY <1>1, <1>9, <1>10, <3>1
    <3>3. m = n - 8 - L
      <4>1. k \in 1 .. l /\ Offset(u, k) \in Nat
        BY <1>4, <1>7, <3>1
      <4> QED BY <1>2, <1>3, <1>7, <3>1, <4>1
    <3>4. m - Offset(u, j) = n - Offset(log, i)
      <4>1. Offset(u, j) \in Nat /\ Offset(log, i) = 8 + L + Offset(u, j)
        BY <1>4, <1>5, <3>1
      <4> QED BY <1>2, <3>3, <4>1
    <3> QED BY <3>2, <3>4
  <2> QED BY <2>1, <2>2
<1>12. a = [i \in 1 .. k + 1 |-> Begun(log[i], n - Offset(log, i))]
  <2>1. DOMAIN a = 1 .. k + 1 /\ a = [i \in DOMAIN a |-> a[i]]
    BY <1>10, LenProperties
  <2> QED BY <1>11, <2>1
<1>13. a \in Arrived(log, n)
  BY <1>8, <1>12 DEF Arrived
<1> QED BY <1>13 DEF a, b, f

\* The pieces of a log, after a frame of stream last.
PiecesAfter(log, last) ==
  [i \in DOMAIN log |-> PieceOf(log[i], IF i = 1 THEN last ELSE log[i - 1].stream)]

\* A frame is named by its stream, or not at all.
LEMMA PieceType ==
  ASSUME NEW f, f \in Frame, NEW last, last \in Int
  PROVE  PieceOf(f, last) \in Piece /\ PieceOf(f, last) # UnknownStream
<1>1. f.text \in Seq(Nat) /\ f.stream \in {1, 2}
  BY TextType DEF Stream
<1>2. Named(f.stream, last) \in Int /\ Named(f.stream, last) # -2
  BY <1>1 DEF Named, NoStream
<1>3. PieceOf(f, last) \in Piece
  BY <1>1, <1>2 DEF PieceOf, Piece
<1>4. PieceOf(f, last).name = Named(f.stream, last) /\ UnknownStream.name = -2
  BY DEF PieceOf, UnknownStream
<1> QED BY <1>2, <1>3, <1>4

\* There is a piece for every frame.
LEMMA PiecesType ==
  ASSUME NEW log, log \in Seq(Frame), NEW last, last \in Int
  PROVE  /\ PiecesAfter(log, last) \in Seq(Piece) /\ Len(PiecesAfter(log, last)) = Len(log)
         /\ \A i \in 1 .. Len(log) : PiecesAfter(log, last)[i] # UnknownStream
<1> DEFINE before(i) == IF i = 1 THEN last ELSE log[i - 1].stream
           a == PiecesAfter(log, last)
           l == Len(log)
<1>1. l \in Nat /\ DOMAIN log = 1 .. l /\ \A i \in 1 .. l : log[i] \in Frame
  BY LenProperties, ElementOfSeq
<1>2. ASSUME NEW i \in 1 .. l PROVE before(i) \in Int
  <2>1. CASE i = 1
    BY <2>1
  <2>2. CASE i # 1
    <3>1. i - 1 \in 1 .. l
      BY <1>1, <2>2
    <3>2. log[i - 1] \in Frame
      BY <1>1, <3>1
    <3>3. log[i - 1].stream \in Int
      BY <3>2, TextType
    <3> QED BY <2>2, <3>3
  <2> QED BY <2>1, <2>2
<1>3. a = [i \in 1 .. l |-> PieceOf(log[i], before(i))]
  BY <1>1 DEF PiecesAfter
<1> HIDE DEF a, l, before
<1>4. \A i \in 1 .. l : PieceOf(log[i], before(i)) \in Piece /\ PieceOf(log[i], before(i)) # UnknownStream
  BY <1>1, <1>2, PieceType
<1>5. a \in [1 .. l -> Piece]
  BY <1>3, <1>4
<1>6. a \in Seq(Piece) /\ Len(a) = l
  BY <1>1, <1>5
<1>7. \A i \in 1 .. l : a[i] # UnknownStream
  BY <1>3, <1>4
<1> QED BY <1>6, <1>7 DEF a, l

\* The piece of the first frame, and those of the others.
LEMMA PiecesFront ==
  ASSUME NEW f, f \in Frame, NEW c, c \in Seq(Frame), NEW last, last \in Int
  PROVE  PiecesAfter(<<f>> \o c, last) = <<PieceOf(f, last)>> \o PiecesAfter(c, f.stream)
<1> DEFINE s == <<f>> \o c
           l == Len(c)
           a == PiecesAfter(s, last)
           v == PiecesAfter(c, f.stream)
           p == PieceOf(f, last)
           b == <<p>> \o v
<1>1. l \in Nat /\ f.stream \in Int /\ p \in Piece
  BY LenProperties, TextType, PieceType
<1>2. s \in Seq(Frame) /\ Len(s) = l + 1 /\ s[1] = f /\ \A i \in 1 .. l : s[1 + i] = c[i]
  <2>1. <<f>> \in Seq(Frame) /\ Len(<<f>>) = 1 /\ <<f>>[1] = f
    OBVIOUS
  <2>2. Joins(s, Frame, <<f>>, c)
    BY <2>1, ConcatJoins
  <2> HIDE DEF s
  <2> QED BY <1>1, <2>1, <2>2 DEF Joins
<1> HIDE DEF s, l
<1>3. a \in Seq(Piece) /\ Len(a) = l + 1
  BY <1>2, PiecesType
<1>4. v \in Seq(Piece) /\ Len(v) = l
  BY <1>1, PiecesType DEF l
<1>5. DOMAIN s = 1 .. l + 1 /\ DOMAIN c = 1 .. l
  BY <1>2, LenProperties DEF l
<1>6. \A i \in 1 .. l + 1 : a[i] = PieceOf(s[i], IF i = 1 THEN last ELSE s[i - 1].stream)
  BY <1>5 DEF PiecesAfter
<1>7. \A i \in 1 .. l : v[i] = PieceOf(c[i], IF i = 1 THEN f.stream ELSE c[i - 1].stream)
  BY <1>5 DEF PiecesAfter
<1> HIDE DEF a, v, p
<1>8. b \in Seq(Piece) /\ Len(b) = l + 1 /\ b[1] = p /\ \A i \in 1 .. l : b[1 + i] = v[i]
  <2>1. <<p>> \in Seq(Piece) /\ Len(<<p>>) = 1 /\ <<p>>[1] = p
    BY <1>1
  <2>2. Joins(b, Piece, <<p>>, v)
    BY <1>4, <2>1, ConcatJoins
  <2> HIDE DEF b
  <2> QED BY <1>1, <1>4, <2>1, <2>2 DEF Joins
<1> HIDE DEF b
<1>9. ASSUME NEW i \in 1 .. l + 1 PROVE a[i] = b[i]
  <2>1. CASE i = 1
    BY <1>2, <1>6, <1>8, <2>1 DEF p
  <2>2. CASE i # 1
    <3> DEFINE j == i - 1
    <3>1. j \in 1 .. l /\ 1 + j = i /\ i \in 1 .. l + 1
      BY <1>1, <2>2
    <3>2. j = 1 \/ (j # 1 /\ j - 1 \in 1 .. l /\ 1 + (j - 1) = j)
      BY <1>1, <3>1
    <3>3. a[i] = PieceOf(s[i], s[j].stream)
      BY <1>6, <2>2, <3>1
    <3> HIDE DEF j
    <3>4. s[i] = c[j]
      BY <1>2, <3>1
    <3>5. s[j].stream = IF j = 1 THEN f.stream ELSE c[j - 1].stream
      BY <1>2, <3>2
    <3>6. b[i] = v[j] /\ v[j] = PieceOf(c[j], IF j = 1 THEN f.stream ELSE c[j - 1].stream)
      BY <1>7, <1>8, <3>1
    <3> QED BY <3>3, <3>4, <3>5, <3>6
  <2> QED BY <2>1, <2>2
<1>10. a = b
  BY <1>3, <1>8, <1>9, SameElements
<1> QED BY <1>10 DEF a, b, v, p, s

-----------------------------------------------------------------------------
(***************************************************************************)
(* Any part of a log is decoded to the pieces of what has arrived of it,   *)
(* by induction on the frames.                                             *)
(***************************************************************************)
\* The pieces of the first n bytes are those of the frames that have arrived.
Shown(log, n, last) ==
  \E c \in Arrived(log, n) : c \in Seq(Frame) /\ Given(log, n, last) = PiecesAfter(c, last)

\* What was cut to nothing has no pieces.
LEMMA ShownNothing ==
  ASSUME NEW log, log \in Seq(Frame), NEW last, last \in Int
  PROVE  Shown(log, 0, last)
<1> DEFINE left == [bytes |-> <<>>, last |-> last]
<1>1. SubSeq(EncodedLog(log), 1, 0) = <<>>
  BY SubSeqEmpty
<1>2. left \in Left /\ left.bytes = <<>>
  BY DEF Left
<1> HIDE DEF left
<1>3. Decode[left] = <<>>
  BY <1>2, DecodeDefined
<1>4. Given(log, 0, last) = <<>>
  BY <1>1, <1>3 DEF Given, left
<1>5. 0 \in Counts(log, 0)
  <2>1. Len(log) \in Nat
    BY LenProperties
  <2>2. 0 < Len(log) => 0 <= Offset(log, 0 + 1)
    <3> SUFFICES ASSUME 0 < Len(log) PROVE 0 <= Offset(log, 1)
      OBVIOUS
    <3>1. 1 \in 1 .. Len(log) + 1
      BY <2>1
    <3>2. Offset(log, 1) \in Nat
      BY <3>1, OffsetType
    <3> QED BY <3>2
  <2> QED BY <2>1, <2>2 DEF Counts
<1>6. <<>> \in Arrived(log, 0)
  <2>1. [i \in 1 .. 0 |-> Begun(log[i], 0 - Offset(log, i))] = <<>>
    OBVIOUS
  <2> QED BY <1>5, <2>1 DEF Arrived
<1>7. PiecesAfter(<<>>, last) = <<>>
  BY DEF PiecesAfter
<1>8. <<>> \in Seq(Frame)
  OBVIOUS
<1> QED BY <1>4, <1>6, <1>7, <1>8 DEF Shown

\* Where the others are shown, the log is.
LEMMA ShownFrame ==
  ASSUME NEW log, log \in Seq(Frame), log # <<>>, Sizes(log),
         NEW n, n \in Nat, 1 <= n, n <= Len(EncodedLog(log)), NEW last, last \in Int,
         Shown(Tail(log), Beyond(n, Head(log)), Head(log).stream)
  PROVE  Shown(log, n, last)
<1> DEFINE f == Head(log)
           u == Tail(log)
           b == Begun(f, n)
           m == Beyond(n, f)
<1>1. f \in Frame
  BY SizesFront
<1>2. b \in Frame /\ b.stream = f.stream
  <2>1. n \in Int
    OBVIOUS
  <2> HIDE DEF f
  <2> QED BY <1>1, <2>1, BegunType
<1>3. PICK c \in Arrived(u, m) : c \in Seq(Frame) /\ Given(u, m, f.stream) = PiecesAfter(c, f.stream)
  BY DEF Shown
<1>4. <<b>> \o c \in Arrived(log, n)
  BY <1>3, ArrivedFront
<1>5. Given(log, n, last) = <<PieceOf(b, last)>> \o Given(u, m, f.stream)
  BY GivenFront
<1> HIDE DEF f, u, b, m
<1>6. PiecesAfter(<<b>> \o c, last) = <<PieceOf(b, last)>> \o PiecesAfter(c, b.stream)
  BY <1>2, <1>3, PiecesFront
<1>7. <<b>> \o c \in Seq(Frame)
  BY <1>2, <1>3, ConsProperties
<1> QED BY <1>2, <1>3, <1>4, <1>5, <1>6, <1>7 DEF Shown

\* getContainerLogs finds the frames of every log again, wherever it breaks off:
\* it makes the pieces of what has arrived of them.
THEOREM LogDecoded ==
  ASSUME NEW log, log \in Seq(Frame), Sizes(log),
         NEW n, n \in 0 .. Len(EncodedLog(log)), NEW last, last \in Int
  PROVE  Shown(log, n, last)
<1> DEFINE OK(l) == \A i \in 0 .. Len(EncodedLog(l)), p \in Int : Shown(l, i, p)
           Bad == {l \in Seq(Frame) : Sizes(l) /\ ~ OK(l)}
           T == {Len(l) : l \in Bad}
<1>1. ASSUME Bad # {} PROVE FALSE
  <2>1. PICK k \in T : \A j \in T : k <= j
    <3>1. T # {}
      BY <1>1
    <3>2. \A l \in Bad : Len(l) \in Nat
      BY LenProperties
    <3>3. T \subseteq Nat
      BY <3>2
    <3> HIDE DEF T
    <3> QED BY <3>1, <3>3, LeastNatural
  <2>2. PICK l \in Bad : Len(l) = k
    BY <2>1
  <2>3. l \in Seq(Frame) /\ Sizes(l) /\ ~ OK(l)
    OBVIOUS
  <2>4. PICK i \in 0 .. Len(EncodedLog(l)), p \in Int : ~ Shown(l, i, p)
    BY <2>3
  <2>5. Len(EncodedLog(l)) \in Nat
    BY <2>3, LogTypes, LenProperties
  <2>6. i # 0
    <3> HIDE DEF Bad
    <3> QED BY <2>3, <2>4, ShownNothing
  <2>7. l # <<>>
    BY <2>4, <2>6, LogEmpty, EmptySeq
  <2> DEFINE u == Tail(l)
             f == Head(l)
  <2>8. f \in Frame /\ u \in Seq(Frame) /\ Len(u) < Len(l) /\ Sizes(u)
    BY <2>3, <2>7, SizesFront
  <2>9. OK(u)
    <3>1. Len(u) \in Nat /\ Len(l) \in Nat
      BY <2>3, <2>8, LenProperties
    <3>2. ~ (k <= Len(u))
      BY <2>2, <2>8, <3>1
    <3>3. u \in Bad => Len(u) \in T
      OBVIOUS
    <3>4. u \notin Bad
      <4> HIDE DEF T, Bad
      <4> QED BY <2>1, <3>2, <3>3
    <3> HIDE DEF OK
    <3> QED BY <2>8, <3>4
  <2>10. Beyond(i, f) \in 0 .. Len(EncodedLog(u)) /\ f.stream \in Int
    <3> DEFINE L == Len(f.text)
               r == Len(EncodedLog(u))
    <3>1. L \in Nat /\ r \in Nat /\ i \in 0 .. 8 + L + r
      BY <2>3, <2>4, <2>7, LogLength
    <3>2. Beyond(i, f) = IF i <= 8 + L THEN 0 ELSE i - 8 - L
      BY DEF Beyond
    <3> HIDE DEF L, r
    <3>3. Beyond(i, f) \in 0 .. r
      BY <3>1, <3>2
    <3> QED BY <2>8, <3>3, TextType DEF r
  <2>11. Shown(u, Beyond(i, f), f.stream)
    BY <2>9, <2>10
  <2>12. i \in Nat /\ 1 <= i /\ i <= Len(EncodedLog(l))
    BY <2>4, <2>5, <2>6
  <2>13. Shown(l, i, p)
    <3> HIDE DEF Bad, OK, T
    <3> QED BY <2>3, <2>4, <2>7, <2>11, <2>12, ShownFrame DEF u, f
  <2> QED BY <2>4, <2>13
<1>2. log \notin Bad
  <2> HIDE DEF Bad
  <2> QED BY <1>1
<1> QED BY <1>2

\* The pieces of what has arrived of a log that is assumed make a text.
LEMMA SaidType ==
  ASSUME NEW log, log \in Frames, NEW n, n \in Nat, NEW c, c \in Arrived(log, n), c \in Seq(Frame)
  PROVE  Said(PiecesOf(c)) \in Seq(Char)
<1> DEFINE p == PiecesOf(c)
           a == [i \in DOMAIN p |-> Spoken(p[i])]
           k == Len(c)
<1>1. k \in Nat /\ DOMAIN c = 1 .. k
  BY LenProperties
<1>2. DOMAIN p = 1 .. k
  BY <1>1 DEF PiecesOf
<1>3. log \in Seq(Frame) /\ Len(log) \in Nat /\ DOMAIN log = 1 .. Len(log)
  BY ExchangeAssumption, LenProperties
<1>4. PICK j \in Counts(log, n) : c = [i \in 1 .. j |-> Begun(log[i], n - Offset(log, i))]
  BY DEF Arrived
<1>5. j = k /\ j \in 0 .. Len(log)
  <2>1. j \in 0 .. Len(log) /\ DOMAIN c = 1 .. j
    BY <1>4 DEF Counts
  <2>2. Len(c) = j
    BY <1>3, <2>1, LenProperties
  <2> QED BY <2>1, <2>2
<1>6. ASSUME NEW i \in 1 .. k
      PROVE  Spoken(p[i]) \in Seq(Char)
  <2> DEFINE m == n - Offset(log, i)
  <2>1. i \in DOMAIN log /\ i \in 1 .. Len(log) + 1 /\ log[i] \in Frame
    <3>1. i \in 1 .. Len(log)
      BY <1>1, <1>3, <1>5
    <3> QED BY <1>3, <3>1, ElementOfSeq
  <2>2. m \in Int
    <3>1. Offset(log, i) \in Nat
      BY <1>3, <2>1, OffsetType
    <3> QED BY <3>1
  <2> HIDE DEF m
  <2>3. c[i] = Begun(log[i], m)
    BY <1>4, <1>5 DEF m
  <2>4. p[i].bytes = SubSeq(log[i].text, 1, Reach(m, log[i])) /\ Reach(m, log[i]) \in 0 .. Len(log[i].text)
    <3>1. p[i].bytes = c[i].text
      BY <1>1 DEF PiecesOf, PieceOf
    <3> QED BY <2>1, <2>2, <2>3, <3>1, BegunType
  <2>5. Utf8(p[i].bytes) \in Seq(Char)
    <3> HIDE DEF p
    <3> QED BY <2>1, <2>4, TextAssumption
  <2> HIDE DEF p
  <2> DEFINE x == IF p[i].name \in Stream THEN Name[p[i].name] ELSE <<>>
             y == Utf8(p[i].bytes)
  <2>6. x \in Seq(Char)
    BY TextAssumption
  <2>7. x \o y \in Seq(Char)
    <3> HIDE DEF x, y
    <3>1. y \in Seq(Char)
      BY <2>5 DEF y
    <3> QED BY <2>6, <3>1, ConcatProperties
  <2> QED BY <2>7 DEF Spoken
<1> HIDE DEF p
<1>7. a \in [1 .. k -> Seq(Char)]
  BY <1>2, <1>6
<1>8. a \in Seq(Seq(Char))
  <2> HIDE DEF a
  <2> QED BY <1>1, <1>7
<1> QED BY <1>8, FlattenSeqType DEF Said, p

-----------------------------------------------------------------------------
(***************************************************************************)
(* The steps of the exchange.                                              *)
(***************************************************************************)
\* What podman answers for a log is a part of it; only buildImage waits for tar;
\* and a log that is taken is shown as far as it has arrived.
AnswerIsCut ==
  method = "logs" /\ answer.status = "expected" =>
    \E n \in 0 .. Len(EncodedLog(frames)) : answer.body = SubSeq(EncodedLog(frames), 1, n)
OnlyBuildWaits == pc = "tar" => method = "build"
LogIsDecoded ==
  method = "logs" /\ pc \in Settled /\ conn = "open" /\ Welcome =>
    /\ pc = "fulfilled"
    /\ \E log \in Arrived(frames, Len(answer.body)) : result = Said(PiecesOf(log))
LogInv == ExchangeTypeOK /\ AnswerIsCut /\ OnlyBuildWaits /\ LogIsDecoded

\* The log of a container is one of those assumed.
LEMMA LogAssumed ==
  ASSUME frames \in Frames
  PROVE  frames \in Seq(Frame) /\ Sizes(frames)
<1>1. /\ frames \in Seq(Frame)
      /\ \A i \in DOMAIN frames : 2 * Len(frames[i].text) < Base * Base * Base * Base
  BY ExchangeAssumption
<1>2. \A i \in DOMAIN frames : frames[i] \in Frame
  BY <1>1, ElementOfSeq, LenProperties
<1> QED
  BY <1>1, <1>2 DEF Sizes, Fits

\* Of a part of the log getContainerLogs makes the pieces of what has arrived,
\* none of them of an unknown stream, and a text of these.
LEMMA PartOfLog ==
  ASSUME frames \in Frames, NEW n, n \in 0 .. Len(EncodedLog(frames)),
         NEW body, body = SubSeq(EncodedLog(frames), 1, n)
  PROVE  \E c \in Arrived(frames, Len(body)) :
           /\ Decode[[bytes |-> body, last |-> NoStream]] = PiecesOf(c)
           /\ \A i \in DOMAIN PiecesOf(c) : PiecesOf(c)[i] # UnknownStream
           /\ Said(PiecesOf(c)) \in Seq(Char)
<1>1. frames \in Seq(Frame) /\ Sizes(frames) /\ NoStream \in Int
  BY LogAssumed DEF NoStream
<1>2. PICK c \in Arrived(frames, n) : c \in Seq(Frame) /\ Given(frames, n, NoStream) = PiecesAfter(c, NoStream)
  BY <1>1, LogDecoded DEF Shown
<1>3. PiecesAfter(c, NoStream) = PiecesOf(c)
  BY DEF PiecesAfter, PiecesOf
<1>4. Len(body) = n /\ n \in Nat
  <2> DEFINE e == EncodedLog(frames)
  <2>1. e \in Seq(Nat) /\ Len(e) \in Nat
    BY <1>1, LogTypes, LenProperties
  <2> HIDE DEF e
  <2>2. n \in Nat /\ n <= Len(e)
    BY <2>1 DEF e
  <2>3. Cuts(SubSeq(e, 1, n), Nat, e, 1, n)
    BY <2>1, <2>2, SubSeqCuts
  <2> QED BY <2>2, <2>3 DEF Cuts, e
<1>5. Decode[[bytes |-> body, last |-> NoStream]] = PiecesOf(c)
  BY <1>2, <1>3 DEF Given
<1>6. \A i \in DOMAIN PiecesOf(c) : PiecesOf(c)[i] # UnknownStream
  <2> DEFINE a == PiecesAfter(c, NoStream)
  <2>1. a \in Seq(Piece) /\ Len(a) = Len(c) /\ \A i \in 1 .. Len(c) : a[i] # UnknownStream
    BY <1>1, <1>2, PiecesType
  <2> HIDE DEF a
  <2>2. DOMAIN a = 1 .. Len(c)
    BY <2>1, LenProperties
  <2> QED BY <1>3, <2>1, <2>2 DEF a
<1>7. Said(PiecesOf(c)) \in Seq(Char)
  BY <1>2, <1>4, SaidType
<1> QED BY <1>2, <1>4, <1>5, <1>6, <1>7

\* There is no answer yet whose log could be wrong.
LEMMA LogInvInit == Init => LogInv
<1> SUFFICES ASSUME Init PROVE LogInv
  OBVIOUS
<1>1. NoAnswer \in Answer
  BY DEF NoAnswer, Answer
<1>2. ExchangeTypeOK
  <2>1. tarFate \in {"succeeds", "fails", "missing"} /\ pc \in {"tar", "request"} /\ conn \in {"none", "open"}
    BY DEF Init
  <2> QED BY <1>1, <2>1, ExchangeAssumption DEF Init, ExchangeTypeOK
<1>3. answer.status = "none" /\ pc \notin Settled /\ OnlyBuildWaits
  BY DEF Init, NoAnswer, Settled, OnlyBuildWaits
<1> QED
  BY <1>2, <1>3 DEF LogInv, AnswerIsCut, LogIsDecoded

\* The steps that leave the log, the answer and what was made of it alone.
LEMMA QuietLogStep ==
  ASSUME LogInv, ExchangeTypeOK', UNCHANGED <<method, frames, answer, result>>,
         pc' # "tar" \/ pc' = pc,
         method = "logs" /\ pc' \in Settled /\ conn' = "open" => pc' = pc /\ conn' = conn
  PROVE  LogInv'
BY DEF LogInv, AnswerIsCut, OnlyBuildWaits, LogIsDecoded, Welcome

\* What podman answers for a log is a part of one, cut off anywhere.
LEMMA PodmanActsLogStep == LogInv /\ PodmanActs => LogInv'
<1> SUFFICES ASSUME LogInv, PodmanActs PROVE LogInv'
  OBVIOUS
<1> DEFINE e == EncodedLog(frames)
<1>1. ExchangeTypeOK /\ e \in Seq(Nat)
  <2>1. ExchangeTypeOK
    BY DEF LogInv
  <2> QED BY <2>1, LogAssumed, LogTypes DEF ExchangeTypeOK
<1>2. pc = "request" /\ UNCHANGED <<method, frames, tarFate, tarEvent, received, conn, pc, result>>
  BY DEF PodmanActs
<1>3. \A n \in 0 .. Len(e) : SubSeq(e, 1, n) \in Seq(Nat)
  <2> SUFFICES ASSUME NEW n \in 0 .. Len(e) PROVE SubSeq(e, 1, n) \in Seq(Nat)
    OBVIOUS
  <2>1. Len(e) \in Nat
    BY <1>1, LenProperties
  <2> HIDE DEF e
  <2>2. Cuts(SubSeq(e, 1, n), Nat, e, 1, n)
    BY <1>1, <2>1, SubSeqCuts
  <2> QED BY <2>2 DEF Cuts
<1>4. PICK n \in 0 .. Len(e), status \in {"expected", "other"}, form \in {"expected", "other"}, body \in Seq(Nat) :
        /\ answer' = [status |-> status, form |-> form, body |-> body]
        /\ method = "logs" /\ status = "expected" => body = SubSeq(e, 1, n)
  <2> HIDE DEF e
  <2>1. CASE podman' = "done"
    <3>1. PICK form \in {"expected", "other"}, n \in 0 .. Len(e) :
            answer' = [status |-> "expected", form |-> form,
                       body |-> IF method = "logs" THEN SubSeq(e, 1, n) ELSE <<>>]
      BY <2>1 DEF PodmanActs, e
    <3>2. (IF method = "logs" THEN SubSeq(e, 1, n) ELSE <<>>) \in Seq(Nat)
      BY <1>3
    <3> QED BY <3>1, <3>2
  <2>2. CASE podman' = "refused"
    <3>1. PICK status \in IF method \in Streamed THEN {"expected", "other"} ELSE {"other"} :
            answer' = [status |-> status, form |-> "other", body |-> <<>>]
      BY <2>2 DEF PodmanActs
    <3>2. 0 \in 0 .. Len(e)
      BY <1>1, LenProperties
    <3>3. method = "logs" => status = "other"
      BY <3>1 DEF Streamed
    <3>4. status \in {"expected", "other"}
      BY <3>1
    <3>5. method = "logs" /\ status = "expected" => <<>> = SubSeq(e, 1, 0)
      BY <3>3
    <3> QED
      <4> WITNESS 0 \in 0 .. Len(e), status \in {"expected", "other"},
                  "other" \in {"expected", "other"}, <<>> \in Seq(Nat)
      <4> QED BY <3>1, <3>5
  <2> QED BY <2>1, <2>2 DEF PodmanActs
<1>5. answer' \in Answer
  BY <1>4 DEF Answer
<1>6. podman' \in {"idle", "done", "refused"}
  BY DEF PodmanActs
<1>7. ExchangeTypeOK'
  BY <1>1, <1>2, <1>5, <1>6 DEF ExchangeTypeOK
<1>8. AnswerIsCut'
  BY <1>2, <1>4 DEF AnswerIsCut
<1> QED
  BY <1>2, <1>7, <1>8 DEF LogInv, OnlyBuildWaits, LogIsDecoded, Settled

\* A log that is taken has no unknown stream: the method is fulfilled with a text.
LEMMA ResponseEndsLogStep == LogInv /\ ResponseEnds => LogInv'
<1> SUFFICES ASSUME LogInv, ResponseEnds PROVE LogInv'
  OBVIOUS
<1>1. ExchangeTypeOK /\ AnswerIsCut
  BY DEF LogInv
<1> DEFINE pieces == Decode[[bytes |-> answer.body, last |-> NoStream]]
           taken == Accepts /\ (method = "logs" => \A i \in DOMAIN pieces : pieces[i] # UnknownStream)
<1>2. /\ UNCHANGED <<method, frames, tarFate, tarEvent, podman, answer, received, conn>>
      /\ result' = IF method = "logs" /\ taken THEN Said(pieces) ELSE result
      /\ pc' = IF taken THEN "fulfilled" ELSE "rejected"
  BY DEF ResponseEnds, Conclude, Go
<1>3. ASSUME method = "logs", Welcome
      PROVE  /\ taken
             /\ \E c \in Arrived(frames, Len(answer.body)) : pieces = PiecesOf(c)
             /\ Said(pieces) \in Seq(Char)
  <2>1. Accepts
    BY <1>3 DEF Accepts, Welcome, Checked, Json
  <2>2. PICK n \in 0 .. Len(EncodedLog(frames)) : answer.body = SubSeq(EncodedLog(frames), 1, n)
    BY <1>1, <1>3 DEF AnswerIsCut, Welcome
  <2>3. frames \in Frames
    BY <1>1 DEF ExchangeTypeOK
  <2>4. PICK c \in Arrived(frames, Len(answer.body)) :
          /\ pieces = PiecesOf(c)
          /\ \A i \in DOMAIN PiecesOf(c) : PiecesOf(c)[i] # UnknownStream
          /\ Said(PiecesOf(c)) \in Seq(Char)
    BY <2>2, <2>3, PartOfLog
  <2> QED BY <2>1, <2>4
<1> HIDE DEF pieces
<1>4. ExchangeTypeOK'
  <2>1. result' \in Seq(Char)
    <3>1. taken => Welcome
      BY DEF Accepts, Welcome
    <3> QED BY <1>1, <1>2, <1>3, <3>1 DEF ExchangeTypeOK
  <2>2. pc' \in Settled
    BY <1>2 DEF Settled
  <2> QED BY <1>1, <1>2, <2>1, <2>2 DEF ExchangeTypeOK
<1>5. AnswerIsCut'
  BY <1>1, <1>2 DEF AnswerIsCut
<1>6. ASSUME method = "logs", Welcome
      PROVE  pc' = "fulfilled" /\ \E log \in Arrived(frames, Len(answer.body)) : result' = Said(PiecesOf(log))
  BY <1>2, <1>3, <1>6
<1>7. LogIsDecoded'
  <2>1. method' = method /\ frames' = frames /\ answer' = answer /\ (Welcome' <=> Welcome)
    BY <1>2 DEF Welcome
  <2> QED BY <1>6, <2>1 DEF LogIsDecoded
<1>8. OnlyBuildWaits'
  BY <1>2 DEF OnlyBuildWaits
<1> QED
  BY <1>4, <1>5, <1>7, <1>8 DEF LogInv

\* Every step of the exchange keeps LogInv.
LEMMA LogInvStep == LogInv /\ [Next]_vars => LogInv'
<1> SUFFICES ASSUME LogInv, [Next]_vars PROVE LogInv'
  OBVIOUS
<1>0. ExchangeTypeOK /\ OnlyBuildWaits
  BY DEF LogInv
<1>1. CASE TarFails
  <2>1. ExchangeTypeOK'
    BY <1>0, <1>1 DEF ExchangeTypeOK, TarFails, Go, Settled
  <2> QED BY <1>0, <1>1, <2>1, QuietLogStep DEF TarFails, Go, OnlyBuildWaits
<1>2. CASE TarExits
  <2>1. ExchangeTypeOK'
    BY <1>0, <1>2 DEF ExchangeTypeOK, TarExits, Go, Settled
  <2> QED BY <1>2, <2>1, QuietLogStep DEF TarExits, Go
<1>3. CASE TarEnds
  <2>1. ExchangeTypeOK'
    BY <1>0, <1>3 DEF ExchangeTypeOK, TarEnds, Go, Settled
  <2> QED BY <1>3, <2>1, QuietLogStep DEF TarEnds, Go
<1>4. CASE PodmanActs
  BY <1>4, PodmanActsLogStep
<1>5. CASE ResponseBegins
  <2>1. ExchangeTypeOK'
    BY <1>0, <1>5 DEF ExchangeTypeOK, ResponseBegins, Go, Settled
  <2> QED BY <1>5, <2>1, QuietLogStep DEF ResponseBegins, Go, Settled
<1>6. CASE ResponseData
  <2>1. ExchangeTypeOK'
    <3>1. received' \in 0 .. Parts
      BY <1>0, <1>6, ExchangeAssumption DEF ExchangeTypeOK, ResponseData
    <3> QED BY <1>0, <1>6, <3>1 DEF ExchangeTypeOK, ResponseData
  <2> QED BY <1>6, <2>1, QuietLogStep DEF ResponseData
<1>7. CASE ResponseEnds
  BY <1>7, ResponseEndsLogStep
<1>8. CASE ConnectionBreaks
  <2>1. ExchangeTypeOK'
    BY <1>0, <1>8 DEF ExchangeTypeOK, ConnectionBreaks, Go, Settled
  <2> QED BY <1>8, <2>1, QuietLogStep DEF ConnectionBreaks, Go
<1>9. CASE Over \/ UNCHANGED vars
  <2>1. ExchangeTypeOK' /\ UNCHANGED vars
    BY <1>0, <1>9 DEF ExchangeTypeOK, Over, vars
  <2> QED BY <2>1, QuietLogStep DEF vars
<1> QED
  BY <1>1, <1>2, <1>3, <1>4, <1>5, <1>6, <1>7, <1>8, <1>9 DEF Next

\* LogInv holds in every behaviour of an exchange.
LEMMA LogInvHolds == Spec => []LogInv
BY LogInvInit, LogInvStep, PTL DEF Spec

\* The variables keep their types: what getContainerLogs returns is a text.
THEOREM ExchangeTypeCorrect == Spec => []ExchangeTypeOK
<1>1. LogInv => ExchangeTypeOK
  BY DEF LogInv
<1> QED
  BY <1>1, LogInvHolds, PTL

\* getContainerLogs returns the text of every frame that has arrived, for any log
\* in frames of less than half of what their four size bytes can say, however
\* their payloads are decoded, and wherever the log breaks off.
THEOREM LogIsShownCorrect == Spec => []LogIsShown
<1>1. LogInv => LogIsShown
  BY DEF LogInv, LogIsDecoded, LogIsShown, Welcome
<1> QED
  BY <1>1, LogInvHolds, PTL
=============================================================================
