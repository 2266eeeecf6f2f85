-------------------------- MODULE RecursionLemmas --------------------------
(***************************************************************************)
(* Induction and recursion, in the first-order form the provers can use:   *)
(* a nonempty set of naturals has a least element, and a recursion whose   *)
(* argument gets smaller with every call defines a function; and where the *)
(* elements of sequences are.  The proofs of KnownVersions and             *)
(* PodmanExchange rest on them.                                            *)
(***************************************************************************)
EXTENDS Integers, SequencesExt, FiniteSetTheorems, SequenceTheorems, TLAPS

\* The least number principle, from the well-foundedness of < on Nat.  Proofs by
\* induction apply it to the set of the numbers that a claim fails for.
LEMMA LeastNatural ==
  ASSUME NEW T, T \subseteq Nat, T # {}
  PROVE  \E n \in T : \A m \in T : n <= m
<1> DEFINE R == {pair \in Nat \X Nat : pair[1] < pair[2]}
<1>1. IsWellFoundedOn(R, Nat)
  BY NatLessThanWellFounded DEF OpToRel
<1> HIDE DEF R
<1>2. PICK n \in T : \A m \in T : <<m, n>> \notin R
  BY <1>1, WFMin
<1>3. \A m \in T : n <= m
  <2> SUFFICES ASSUME NEW m \in T, ~ (n <= m) PROVE FALSE
    OBVIOUS
  <2>1. m \in Nat /\ n \in Nat /\ m < n
    OBVIOUS
  <2>2. <<m, n>> \in R
    BY <2>1 DEF R
  <2> QED BY <1>2, <2>2
<1> QED BY <1>3

\* A recursion over S that stops on Stop and elsewhere goes to next[x], which is smaller.
Decreases(S, Stop, size, next) ==
  /\ Stop \in SUBSET S /\ size \in [S -> Nat] /\ next \in [S \ Stop -> S]
  /\ \A x \in S \ Stop : size[next[x]] < size[x]

\* f and g agree on Stop, and at x if they agree at next[x].
AgreeByStep(S, Stop, next, f, g) ==
  \A x \in S : x \in Stop \/ f[next[x]] = g[next[x]] => f[x] = g[x]

\* Two functions that agree by every step of a recursion agree everywhere.
LEMMA RecursionUnique ==
  ASSUME NEW S, NEW Stop, NEW size, NEW next, Decreases(S, Stop, size, next),
         NEW f, NEW g, AgreeByStep(S, Stop, next, f, g)
  PROVE  \A x \in S : f[x] = g[x]
<1> USE DEF Decreases, AgreeByStep
<1> DEFINE Differ == {x \in S : f[x] # g[x]}
           T == {size[x] : x \in Differ}
<1> SUFFICES ASSUME Differ # {} PROVE FALSE
  OBVIOUS
<1>1. PICK k \in T : \A j \in T : k <= j
  <2> T \subseteq Nat /\ T # {}
    OBVIOUS
  <2> HIDE DEF T
  <2> QED BY LeastNatural
<1>2. PICK x \in Differ : size[x] = k
  BY <1>1
<1>3. x \notin Stop /\ next[x] \in S /\ size[next[x]] < size[x]
  OBVIOUS
<1>4. next[x] \in Differ
  BY <1>3
<1>5. size[next[x]] \in T /\ size[next[x]] \in Nat /\ size[x] \in Nat
  BY <1>3, <1>4
<1> HIDE DEF T, Differ
<1> QED BY <1>1, <1>2, <1>3, <1>5

\* The value at x, of a function f computed by the recursion.
ValueAt(Stop, base, next, step, f, x) ==
  IF x \in Stop THEN base[x] ELSE step[<<x, f[next[x]]>>]
ComputesIn(S, V, Stop, base, step) ==
  base \in [Stop -> V] /\ step \in [(S \ Stop) \X V -> V]

\* A recursion computes a function.
LEMMA RecursionDefines ==
  ASSUME NEW S, NEW Stop, NEW size, NEW next, Decreases(S, Stop, size, next),
         NEW V, NEW base, NEW step, ComputesIn(S, V, Stop, base, step)
  PROVE  \E f \in [S -> V] : \A x \in S : f[x] = ValueAt(Stop, base, next, step, f, x)
<1> USE DEF Decreases, ComputesIn, ValueAt
<1> DEFINE Upto(n) == {x \in S : size[x] < n}
           Good(f, n) == /\ f \in [Upto(n) -> V]
                         /\ \A x \in Upto(n) :
                              f[x] = IF x \in Stop THEN base[x] ELSE step[<<x, f[next[x]]>>]
<1>1. \A n \in Nat : \A x \in Upto(n) \ Stop : next[x] \in Upto(n) /\ (n # 0 => next[x] \in Upto(n - 1))
  OBVIOUS
<1>2. \A n \in Nat : \E f : Good(f, n)
  <2> DEFINE T == {n \in Nat : ~ \E f : Good(f, n)}
  <2> SUFFICES ASSUME T # {} PROVE FALSE
    OBVIOUS
  <2>1. PICK m \in T : \A n \in T : m <= n
    <3> T \subseteq Nat
      OBVIOUS
    <3> HIDE DEF T
    <3> QED BY LeastNatural
  <2>2. m \in Nat /\ ~ \E f : Good(f, m)
    OBVIOUS
  <2>3. m # 0
    <3> SUFFICES ASSUME m = 0 PROVE FALSE
      OBVIOUS
    <3>1. Upto(0) = {}
      OBVIOUS
    <3>2. Good([x \in {} |-> base[x]], 0)
      BY <3>1
    <3> QED BY <2>2, <3>2
  <2>4. m - 1 \in Nat /\ m - 1 \notin T
    <3>1. m - 1 \in Nat /\ ~ (m <= m - 1)
      BY <2>2, <2>3
    <3> HIDE DEF T
    <3> QED BY <2>1, <3>1
  <2>5. PICK g : Good(g, m - 1)
    <3> HIDE DEF Good
    <3> QED BY <2>4
  <2> DEFINE f == [x \in Upto(m) |-> IF x \in Stop THEN base[x] ELSE step[<<x, g[next[x]]>>]]
  <2>6. \A x \in Upto(m) \ Stop : next[x] \in Upto(m - 1) /\ next[x] \in Upto(m)
    BY <1>1, <2>2, <2>3
  <2>7. f \in [Upto(m) -> V]
    <3> SUFFICES ASSUME NEW x \in Upto(m) PROVE (IF x \in Stop THEN base[x] ELSE step[<<x, g[next[x]]>>]) \in V
      OBVIOUS
    <3>1. CASE x \in Stop
      BY <3>1
    <3>2. CASE x \notin Stop
      <4>1. g[next[x]] \in V
        BY <2>5, <2>6, <3>2
      <4> QED BY <4>1, <3>2
    <3> QED BY <3>1, <3>2
  <2>8. \A y \in Upto(m - 1) : y \in Upto(m) /\ f[y] = g[y]
    BY <2>2, <2>5
  <2>9. \A x \in Upto(m) : f[x] = IF x \in Stop THEN base[x] ELSE step[<<x, f[next[x]]>>]
    <3> SUFFICES ASSUME NEW x \in Upto(m), x \notin Stop PROVE f[x] = step[<<x, f[next[x]]>>]
      OBVIOUS
    <3>1. f[next[x]] = g[next[x]]
      BY <2>6, <2>8
    <3>2. f[x] = step[<<x, g[next[x]]>>]
      OBVIOUS
    <3> QED BY <3>1, <3>2
  <2>10. Good(f, m)
    BY <2>7, <2>9
  <2> HIDE DEF f
  <2> QED BY <2>2, <2>10
<1>3. ASSUME NEW f, NEW g, NEW n \in Nat, NEW m \in Nat, Good(f, n), Good(g, m)
      PROVE  \A x \in Upto(n) \cap Upto(m) : f[x] = g[x]
  <2> DEFINE Differ == {x \in Upto(n) \cap Upto(m) : f[x] # g[x]}
             T == {size[x] : x \in Differ}
  <2> SUFFICES ASSUME Differ # {} PROVE FALSE
    OBVIOUS
  <2>1. PICK k \in T : \A j \in T : k <= j
    <3>1. \A x \in Differ : size[x] \in Nat
      OBVIOUS
    <3> HIDE DEF Differ
    <3>2. T \subseteq Nat /\ T # {}
      BY <3>1
    <3> HIDE DEF T
    <3> QED BY <3>2, LeastNatural
  <2>2. PICK x \in Differ : size[x] = k
    BY <2>1
  <2>3. x \notin Stop
    BY <1>3
  <2>4. next[x] \in Upto(n) /\ next[x] \in Upto(m) /\ size[next[x]] < size[x]
    BY <1>1, <2>3
  <2>5. next[x] \notin Differ
    <3> SUFFICES ASSUME next[x] \in Differ PROVE FALSE
      OBVIOUS
    <3>1. size[next[x]] \in T /\ size[next[x]] \in Nat /\ size[x] \in Nat
      OBVIOUS
    <3> HIDE DEF T, Differ
    <3> QED BY <2>1, <2>2, <2>4, <3>1
  <2>6. f[next[x]] = g[next[x]]
    BY <2>4, <2>5
  <2>7. f[x] = step[<<x, f[next[x]]>>] /\ g[x] = step[<<x, g[next[x]]>>]
    BY <1>3, <2>3
  <2>8. f[x] = g[x]
    BY <2>6, <2>7
  <2> QED BY <2>8
<1> DEFINE part(n) == CHOOSE f : Good(f, n)
           h == [x \in S |-> part(size[x] + 1)[x]]
<1>4. \A n \in Nat : Good(part(n), n)
  <2> HIDE DEF Good
  <2> QED BY <1>2
<1> HIDE DEF part
<1>5. \A x \in S : size[x] \in Nat /\ size[x] + 1 \in Nat /\ x \in Upto(size[x] + 1)
  OBVIOUS
<1>6. h \in [S -> V]
  <2> SUFFICES ASSUME NEW x \in S PROVE part(size[x] + 1)[x] \in V
    OBVIOUS
  <2>1. Good(part(size[x] + 1), size[x] + 1)
    BY <1>4, <1>5
  <2> QED BY <1>5, <2>1
<1>7. \A x \in S : h[x] = IF x \in Stop THEN base[x] ELSE step[<<x, h[next[x]]>>]
  <2> SUFFICES ASSUME NEW x \in S PROVE h[x] = IF x \in Stop THEN base[x] ELSE step[<<x, h[next[x]]>>]
    OBVIOUS
  <2>1. Good(part(size[x] + 1), size[x] + 1)
    BY <1>4, <1>5
  <2>2. CASE x \in Stop
    BY <1>5, <2>1, <2>2
  <2>3. CASE x \notin Stop
    <3> DEFINE y == next[x]
    <3>1. y \in S /\ y \in Upto(size[x] + 1) /\ y \in Upto(size[y] + 1)
      BY <1>1, <1>5, <2>3
    <3>2. Good(part(size[y] + 1), size[y] + 1)
      BY <1>4, <1>5, <3>1
    <3>3. part(size[y] + 1)[y] = part(size[x] + 1)[y]
      <4> HIDE DEF Good, Upto, y
      <4> QED BY <1>3, <1>5, <2>1, <3>1, <3>2
    <3>4. h[y] = part(size[x] + 1)[y]
      BY <3>1, <3>3
    <3>5. h[x] = step[<<x, part(size[x] + 1)[y]>>]
      BY <1>5, <2>1, <2>3
    <3> HIDE DEF h
    <3> QED BY <2>3, <3>4, <3>5
  <2> QED BY <2>2, <2>3
<1> HIDE DEF h
<1> QED BY <1>6, <1>7

-----------------------------------------------------------------------------
(***************************************************************************)
(* FlattenSeq, from the front: the first sequence, and then the others.    *)
(***************************************************************************)
\* F flattens the n sequences of ss, up to each of them.
Flattens(F, V, ss, n) ==
  /\ F \in [1 .. n -> Seq(V)] /\ F[1] = ss[1]
  /\ \A i \in 1 .. n - 1 : F[i + 1] = F[i] \o ss[i + 1]

\* FlattenSeq is the last of such an F: its recursion takes the front of ss.
LEMMA FlattenSeqDefined ==
  ASSUME NEW V, NEW ss \in Seq(Seq(V)), ss # <<>>
  PROVE  \E F : Flattens(F, V, ss, Len(ss)) /\ FlattenSeq(ss) = F[Len(ss)]
<1> DEFINE S == 1 .. Len(ss)
           size == [i \in S |-> i]
           base == [i \in {1} |-> ss[1]]
           next == [i \in S \ {1} |-> i - 1]
           step == [p \in (S \ {1}) \X Seq(V) |-> p[2] \o ss[p[1]]]
           Body(f, i) == IF i = 1 THEN ss[i] ELSE f[i - 1] \o ss[i]
           flatten == CHOOSE f : f = [i \in 1 .. Len(ss) |-> Body(f, i)]
<1>0. Len(ss) \in Nat /\ Len(ss) # 0 /\ \A i \in S : ss[i] \in Seq(V)
  BY EmptySeq, LenProperties, ElementOfSeq
<1>1. Decreases(S, {1}, size, next)
  BY <1>0 DEF Decreases
<1>2. step \in [(S \ {1}) \X Seq(V) -> Seq(V)]
  <2> SUFFICES ASSUME NEW i \in S \ {1}, NEW v \in Seq(V) PROVE v \o ss[i] \in Seq(V)
    OBVIOUS
  <2> QED BY <1>0, ConcatProperties
<1>3. ComputesIn(S, Seq(V), {1}, base, step)
  BY <1>0, <1>2 DEF ComputesIn
<1>4. PICK f \in [S -> Seq(V)] : \A i \in S : f[i] = ValueAt({1}, base, next, step, f, i)
  <2> HIDE DEF S, size, base, next, step
  <2> QED BY <1>1, <1>3, RecursionDefines
<1>5. \A i \in S : f[i] = Body(f, i)
  <2> SUFFICES ASSUME NEW i \in S PROVE f[i] = Body(f, i)
    OBVIOUS
  <2>1. CASE i = 1
    BY <1>4, <2>1 DEF ValueAt
  <2>2. CASE i # 1
    <3>1. i - 1 \in S /\ next[i] = i - 1
      BY <1>0, <2>2
    <3>2. f[i - 1] \in Seq(V)
      BY <1>4, <3>1
    <3>3. f[i] = step[<<i, f[i - 1]>>]
      BY <1>4, <2>2, <3>1 DEF ValueAt
    <3>4. step[<<i, f[i - 1]>>] = f[i - 1] \o ss[i]
      BY <2>2, <3>2
    <3> QED BY <2>2, <3>3, <3>4
  <2> QED BY <2>1, <2>2
<1>6. f = [i \in S |-> Body(f, i)]
  <2> HIDE DEF Body
  <2> QED BY <1>4, <1>5
<1>7. flatten = [i \in S |-> Body(flatten, i)]
  <2> HIDE DEF Body
  <2> QED BY <1>6
<1>8. FlattenSeq(ss) = flatten[Len(ss)]
  BY <1>0 DEF FlattenSeq
<1> HIDE DEF flatten
<1>9. \A i \in S : flatten[i] = Body(flatten, i)
  BY <1>7
<1>10. \A i \in S : flatten[i] = f[i]
  <2>1. ASSUME NEW i \in S, i = 1 \/ flatten[next[i]] = f[next[i]] PROVE flatten[i] = f[i]
    <3>1. i # 1 => next[i] = i - 1
      OBVIOUS
    <3>2. Body(flatten, i) = Body(f, i)
      BY <2>1, <3>1
    <3> QED BY <1>5, <1>9, <3>2
  <2>2. AgreeByStep(S, {1}, next, flatten, f)
    BY <2>1 DEF AgreeByStep
  <2> HIDE DEF S, size, next
  <2> QED BY <1>1, <2>2, RecursionUnique
<1>11. flatten = f
  <2> HIDE DEF Body
  <2> QED BY <1>6, <1>7, <1>10
<1>12. Flattens(f, V, ss, Len(ss))
  <2>1. f[1] = ss[1]
    <3>1. 1 \in S
      BY <1>0
    <3> HIDE DEF S
    <3> QED BY <1>5, <3>1
  <2>2. \A i \in 1 .. Len(ss) - 1 : f[i + 1] = f[i] \o ss[i + 1]
    <3> SUFFICES ASSUME NEW i \in 1 .. Len(ss) - 1 PROVE f[i + 1] = f[i] \o ss[i + 1]
      OBVIOUS
    <3> DEFINE j == i + 1
    <3>1. j \in S /\ j # 1 /\ j - 1 = i
      BY <1>0
    <3> HIDE DEF S, j
    <3>2. f[j] = f[j - 1] \o ss[j]
      BY <1>5, <3>1
    <3> QED BY <3>1, <3>2 DEF j
  <2> QED BY <1>4, <2>1, <2>2 DEF Flattens
<1> QED BY <1>8, <1>11, <1>12

\* Nothing is flattened to nothing.
LEMMA FlattenSeqEmpty == FlattenSeq(<<>>) = <<>>
BY DEF FlattenSeq

\* Sequences of a set are joined to a sequence of it.
LEMMA FlattenSeqType ==
  ASSUME NEW V, NEW ss \in Seq(Seq(V))
  PROVE  FlattenSeq(ss) \in Seq(V)
<1>1. CASE ss = <<>>
  BY <1>1, FlattenSeqEmpty, EmptySeq
<1>2. CASE ss # <<>>
  <2>1. Len(ss) \in 1 .. Len(ss)
    BY <1>2, EmptySeq
  <2>2. PICK F : Flattens(F, V, ss, Len(ss)) /\ FlattenSeq(ss) = F[Len(ss)]
    BY <1>2, FlattenSeqDefined
  <2>3. F \in [1 .. Len(ss) -> Seq(V)]
    BY <2>2 DEF Flattens
  <2> QED BY <2>1, <2>2, <2>3
<1> QED BY <1>1, <1>2

\* F flattens x and then tt, and G flattens tt: n sequences of V.
Behind(F, G, V, x, tt, n) ==
  /\ x \in Seq(V) /\ n \in Nat /\ \A i \in 1 .. n : tt[i] \in Seq(V)
  /\ F[1] = x /\ \A i \in 1 .. n : F[i + 1] = F[i] \o tt[i]
  /\ G[1] = tt[1] /\ \A i \in 1 .. n : G[i] \in Seq(V)
  /\ \A i \in 1 .. n - 1 : G[i + 1] = G[i] \o tt[i + 1]

\* A sequence that is appended to is joined behind what was joined before.
LEMMA FlattensBehind ==
  ASSUME NEW F, NEW G, NEW V, NEW x, NEW tt, NEW n, Behind(F, G, V, x, tt, n)
  PROVE  \A i \in 1 .. n : F[i + 1] = x \o G[i]
<1> DEFINE T == {i \in 1 .. n : F[i + 1] # x \o G[i]}
<1> SUFFICES ASSUME T # {} PROVE FALSE
  OBVIOUS
<1>1. PICK i \in T : \A j \in T : i <= j
  <2> T \subseteq Nat
    BY DEF Behind
  <2> HIDE DEF T
  <2> QED BY LeastNatural
<1>2. i \in 1 .. n /\ n \in Nat /\ F[i + 1] # x \o G[i]
  BY DEF Behind
<1> HIDE DEF T
<1>3. CASE i = 1
  <2>1. F[1 + 1] = F[1] \o tt[1]
    BY <1>2, <1>3, Zenon DEF Behind
  <2> QED BY <1>2, <1>3, <2>1 DEF Behind
<1>4. CASE i # 1
  <2> DEFINE h == i - 1
  <2>1. h \in 1 .. n /\ h \in 1 .. n - 1 /\ h + 1 = i /\ ~ (i <= h)
    BY <1>2, <1>4
  <2> HIDE DEF h
  <2>2. F[i] = x \o G[h]
    BY <1>1, <2>1 DEF T
  <2>3. G[i] = G[h] \o tt[i] /\ G[h] \in Seq(V) /\ tt[i] \in Seq(V)
    BY <1>2, <2>1 DEF Behind
  <2>4. F[i + 1] = F[i] \o tt[i]
    BY <1>2 DEF Behind
  <2>5. (x \o G[h]) \o tt[i] = x \o (G[h] \o tt[i])
    <3> DEFINE y == G[h]
               z == tt[i]
    <3>1. x \in Seq(V) /\ y \in Seq(V) /\ z \in Seq(V)
      BY <2>3 DEF Behind
    <3> HIDE DEF y, z
    <3>2. (x \o y) \o z = x \o (y \o z)
      BY <3>1, ConcatAssociative
    <3> QED BY <3>2 DEF y, z
  <2> QED BY <1>2, <2>2, <2>3, <2>4, <2>5
<1> QED BY <1>3, <1>4

\* The first sequence, and then the others.
LEMMA FlattenSeqFront ==
  ASSUME NEW V, NEW ss \in Seq(Seq(V)), ss # <<>>
  PROVE  FlattenSeq(ss) = Head(ss) \o FlattenSeq(Tail(ss))
<1> DEFINE x == Head(ss)
           tt == Tail(ss)
           n == Len(tt)
<1>1. /\ x \in Seq(V) /\ tt \in Seq(Seq(V)) /\ n \in Nat /\ Len(ss) = n + 1
      /\ x = ss[1]
  BY HeadTailProperties, LenProperties, EmptySeq
<1>2. \A i \in 1 .. n : tt[i] = ss[i + 1] /\ tt[i] \in Seq(V)
  BY <1>1, HeadTailProperties, ElementOfSeq
<1>3. PICK F : Flattens(F, V, ss, n + 1) /\ FlattenSeq(ss) = F[n + 1]
  BY <1>1, FlattenSeqDefined
<1> HIDE DEF x, tt, n
<1>4. F[1] = x /\ \A i \in 1 .. n : F[i + 1] = F[i] \o tt[i]
  <2>1. F[1] = ss[1] /\ \A i \in 1 .. (n + 1) - 1 : F[i + 1] = F[i] \o ss[i + 1]
    BY <1>3 DEF Flattens
  <2>2. (n + 1) - 1 = n
    BY <1>1
  <2> QED BY <1>1, <1>2, <2>1, <2>2
<1>5. CASE n = 0
  <2>1. tt = <<>>
    BY <1>1, <1>5, EmptySeq DEF n
  <2>2. FlattenSeq(ss) = x
    BY <1>3, <1>4, <1>5
  <2> QED BY <1>1, <2>1, <2>2, FlattenSeqEmpty, ConcatEmptySeq DEF x, tt
<1>6. CASE n # 0
  <2>1. tt # <<>>
    BY <1>6, EmptySeq DEF n
  <2>2. PICK G : Flattens(G, V, tt, n) /\ FlattenSeq(tt) = G[n]
    BY <1>1, <2>1, FlattenSeqDefined DEF n
  <2>3. /\ G[1] = tt[1] /\ \A i \in 1 .. n : G[i] \in Seq(V)
        /\ \A i \in 1 .. n - 1 : G[i + 1] = G[i] \o tt[i + 1]
    BY <2>2 DEF Flattens
  <2>4. \A i \in 1 .. n : F[i + 1] = x \o G[i]
    <3>1. Behind(F, G, V, x, tt, n)
      BY <1>1, <1>2, <1>4, <2>3 DEF Behind
    <3> QED BY <3>1, FlattensBehind
  <2>5. n \in 1 .. n
    BY <1>1, <1>6
  <2>6. F[n + 1] = x \o G[n]
    BY <2>4, <2>5
  <2> QED BY <1>3, <2>2, <2>6 DEF x, tt
<1> QED BY <1>5, <1>6

-----------------------------------------------------------------------------
(***************************************************************************)
(* The elements of sequences: of a part, of a concatenation, of the others *)
(* behind the first, and of a sequence made of another one and flattened.  *)
(***************************************************************************)
\* A part of a sequence of S is a sequence of S.
LEMMA PartOfSeq ==
  ASSUME NEW S, NEW s \in Seq(S), NEW m \in 1 .. Len(s) + 1, NEW n \in m - 1 .. Len(s)
  PROVE  /\ SubSeq(s, m, n) \in Seq(S)
         /\ Len(SubSeq(s, m, n)) = n - m + 1
         /\ \A i \in 1 .. n - m + 1 : SubSeq(s, m, n)[i] = s[m + i - 1]
<1>1. Len(s) \in Nat /\ \A i \in m .. n : s[i] \in S
  BY LenProperties, ElementOfSeq
<1> QED BY <1>1, SubSeqProperties

\* c is the part of s from m to n.
Cuts(c, S, s, m, n) ==
  c \in Seq(S) /\ Len(c) = n - m + 1 /\ \A i \in 1 .. n - m + 1 : c[i] = s[m + i - 1]

\* SubSeq cuts, also where it leaves nothing.
LEMMA SubSeqCuts ==
  ASSUME NEW S, NEW s \in Seq(S), NEW m \in Nat, NEW n \in Nat, 1 <= m, m <= n + 1, n <= Len(s)
  PROVE  Cuts(SubSeq(s, m, n), S, s, m, n)
<1>1. Len(s) \in Nat
  BY LenProperties
<1>2. \A i \in m .. n : s[i] \in S
  BY <1>1, ElementOfSeq
<1> DEFINE c == SubSeq(s, m, n)
<1>3. /\ c \in Seq(S) /\ Len(c) = IF m <= n THEN n - m + 1 ELSE 0
      /\ \A i \in 1 .. n - m + 1 : c[i] = s[m + i - 1]
  BY <1>2, SubSeqProperties
<1> HIDE DEF c
<1>4. Len(c) = n - m + 1
  BY <1>3
<1> QED BY <1>3, <1>4 DEF Cuts, c

\* Sequences of the same elements are the same.
LEMMA SameElements ==
  ASSUME NEW S, NEW s, NEW t, s \in Seq(S), t \in Seq(S), NEW k, Len(s) = k, Len(t) = k,
         \A i \in 1 .. k : s[i] = t[i]
  PROVE  s = t
BY SeqEqual

\* Where the elements of a concatenation are.
Joins(c, S, s, t) ==
  /\ c \in Seq(S) /\ Len(c) = Len(s) + Len(t)
  /\ \A i \in 1 .. Len(s) : c[i] = s[i]
  /\ \A j \in 1 .. Len(t) : c[Len(s) + j] = t[j]

\* \o joins two sequences of S.
LEMMA ConcatJoins ==
  ASSUME NEW S, NEW s \in Seq(S), NEW t \in Seq(S)
  PROVE  Joins(s \o t, S, s, t)
<1> DEFINE c == s \o t
           k == Len(s)
           l == Len(t)
<1>1. k \in Nat /\ l \in Nat
  BY LenProperties
<1>2. /\ c \in Seq(S) /\ Len(c) = k + l
      /\ \A i \in 1 .. k + l : c[i] = IF i <= k THEN s[i] ELSE t[i - k]
  BY ConcatProperties
<1> HIDE DEF c, k, l
<1>3. \A i \in 1 .. k : c[i] = s[i]
  BY <1>1, <1>2
<1>4. ASSUME NEW j \in 1 .. l PROVE c[k + j] = t[j]
  <2>1. k + j \in 1 .. k + l /\ ~ (k + j <= k) /\ (k + j) - k = j
    BY <1>1
  <2> QED BY <1>2, <2>1
<1> QED BY <1>2, <1>3, <1>4 DEF Joins, c, k, l

\* A sequence and the element before it.
LEMMA ConsProperties ==
  ASSUME NEW S, NEW h \in S, NEW x \in Seq(S)
  PROVE  /\ <<h>> \o x \in Seq(S) /\ <<h>> \o x # <<>>
         /\ Len(<<h>> \o x) = Len(x) + 1
         /\ Head(<<h>> \o x) = h /\ Tail(<<h>> \o x) = x
<1> DEFINE c == <<h>> \o x
           l == Len(x)
<1>1. <<h>> \in Seq(S) /\ Len(<<h>>) = 1 /\ l \in Nat
  BY LenProperties
<1>2. Joins(c, S, <<h>>, x)
  BY <1>1, ConcatJoins
<1> HIDE DEF c, l
<1>3. /\ c \in Seq(S) /\ Len(c) = l + 1 /\ c[1] = h
      /\ \A j \in 1 .. l : c[1 + j] = x[j]
  BY <1>1, <1>2 DEF Joins, l
<1>4. c # <<>>
  BY <1>1, <1>3, EmptySeq
<1>5. Head(c) = h
  BY <1>3, <1>4
<1> DEFINE d == Tail(c)
<1>6. d \in Seq(S) /\ Len(d) = l /\ \A i \in 1 .. l : d[i] = c[i + 1]
  BY <1>1, <1>3, <1>4, HeadTailProperties
<1> HIDE DEF d
<1>7. \A i \in 1 .. l : d[i] = x[i]
  <2> SUFFICES ASSUME NEW i \in 1 .. l PROVE d[i] = x[i]
    OBVIOUS
  <2>1. i + 1 = 1 + i
    BY <1>1
  <2> QED BY <1>3, <1>6, <2>1
<1>8. d = x
  BY <1>6, <1>7, SameElements DEF l
<1> QED BY <1>3, <1>4, <1>5, <1>8 DEF c, d, l

\* A sequence made of another one element by element, and flattened.
Maps(g, S, V) == g \in [S -> V]
Mapped(g, s) == [i \in DOMAIN s |-> g[s[i]]]

\* It is as long as the other.
LEMMA MappedType ==
  ASSUME NEW S, NEW V, NEW g, Maps(g, S, V), NEW s, s \in Seq(S)
  PROVE  Mapped(g, s) \in Seq(V) /\ Len(Mapped(g, s)) = Len(s)
<1> DEFINE n == Len(s)
           m == Mapped(g, s)
<1>1. n \in Nat /\ DOMAIN s = 1 .. n /\ \A i \in 1 .. n : s[i] \in S
  BY LenProperties, ElementOfSeq
<1> HIDE DEF n
<1>2. m = [i \in 1 .. n |-> g[s[i]]] /\ m \in [1 .. n -> V]
  BY <1>1 DEF Mapped, Maps
<1> HIDE DEF m
<1>3. m \in Seq(V) /\ Len(m) = n
  BY <1>1, <1>2
<1> QED BY <1>3 DEF m, n

\* Its flattening is what becomes of the first element, and of the others.
LEMMA MappedFront ==
  ASSUME NEW S, NEW V, NEW W, W = Seq(V), NEW g, Maps(g, S, W),
         NEW s, s \in Seq(S), s # <<>>
  PROVE  FlattenSeq(Mapped(g, s)) = g[Head(s)] \o FlattenSeq(Mapped(g, Tail(s)))
<1> DEFINE h == Head(s)
           u == Tail(s)
           n == Len(u)
           m == Mapped(g, s)
           k == Mapped(g, u)
<1>1. /\ h \in S /\ u \in Seq(S) /\ n \in Nat /\ Len(s) = n + 1 /\ h = s[1]
      /\ \A i \in 1 .. n : u[i] = s[i + 1]
  BY HeadTailProperties, LenProperties, EmptySeq
<1>2. DOMAIN s = 1 .. n + 1 /\ DOMAIN u = 1 .. n
  BY <1>1, LenProperties
<1> HIDE DEF h, u, n
<1>3. m \in Seq(W) /\ Len(m) = n + 1
  BY <1>1, MappedType DEF m
<1>4. k \in Seq(W) /\ Len(k) = n
  BY <1>1, MappedType DEF n, k
<1>5. m[1] = g[h] /\ \A i \in 1 .. n : m[i + 1] = g[s[i + 1]]
  <2>1. 1 \in 1 .. n + 1 /\ \A i \in 1 .. n : i + 1 \in 1 .. n + 1
    BY <1>1
  <2> QED BY <1>1, <1>2, <2>1 DEF Mapped
<1>6. \A i \in 1 .. n : k[i] = g[u[i]]
  BY <1>2 DEF Mapped
<1> HIDE DEF m, k
<1>7. m # <<>>
  BY <1>1, <1>3, EmptySeq
<1> DEFINE d == Tail(m)
<1>8. d \in Seq(W) /\ Len(d) = n /\ Head(m) = m[1] /\ \A i \in 1 .. n : d[i] = m[i + 1]
  BY <1>1, <1>3, <1>7, HeadTailProperties
<1> HIDE DEF d
<1>9. \A i \in 1 .. n : d[i] = k[i]
  <2> SUFFICES ASSUME NEW i \in 1 .. n PROVE d[i] = k[i]
    OBVIOUS
  <2>1. d[i] = m[i + 1]
    BY <1>8
  <2>2. m[i + 1] = g[s[i + 1]]
    BY <1>5
  <2>3. u[i] = s[i + 1]
    BY <1>1
  <2>4. k[i] = g[u[i]]
    BY <1>6
  <2> QED BY <2>1, <2>2, <2>3, <2>4
<1>10. d = k
  BY <1>4, <1>8, <1>9, SameElements
<1>11. FlattenSeq(m) = Head(m) \o FlattenSeq(d)
  <2>1. m \in Seq(Seq(V))
    BY <1>3
  <2> QED BY <1>7, <2>1, FlattenSeqFront DEF d
<1> QED BY <1>5, <1>8, <1>10, <1>11 DEF m, k, h, u
=============================================================================
