-------------------------- MODULE KnownVersionsProofs --------------------------
(***************************************************************************)
(* Proofs about KnownVersions, for any number of versions and of builds    *)
(* and any that are known to be broken: a listing misses nothing that had  *)
(* succeeded when it began, and offers nothing that cannot be built.       *)
(***************************************************************************)
EXTENDS KnownVersions, RecursionLemmas, SequenceTheorems

Entry == Version \X BuildNumber

\* Only what an API can say is said: Mojang knows no build but the first.
OnlySaid ==
  \A v \in Version, n \in BuildNumber :
    upstream[v][n] # "absent" => upstream[v][n] \in Says(kind) /\ HasBuild(kind, n)

\* What had succeeded when the listing began still has.
SuccessStays ==
  \A v \in Version, n \in BuildNumber : known[v][n] = "success" => upstream[v][n] = "success"

\* What is in the Map has succeeded, and is of no version known to be broken.
ListedSucceeded ==
  \A v \in Version : \A n \in builds[v] : upstream[v][n] = "success" /\ ~ IsBroken(v)

\* What had succeeded is in the Map, or its version is still to be asked for.
NoneForgotten ==
  pc \in {"fetchBuilds", "resolved"} =>
    \A v \in Version, n \in BuildNumber :
      known[v][n] = "success" => v \in todo \/ n \in builds[v] \/ IsBroken(v)

\* What is to be listed of the Map, and the listing that consists of just that.
ToList ==
  {e \in Entry : e[2] \in builds[e[1]]} \ (IF kind = "paper" THEN BrokenEntries ELSE {})
ResultIsMap == pc = "resolved" => todo = {} /\ Entries = ToList

ListInv ==
  /\ ListTypeOK /\ OnlySaid /\ SuccessStays
  /\ ListedSucceeded /\ NoneForgotten /\ ResultIsMap

-----------------------------------------------------------------------------
(***************************************************************************)
(* The sort.  A finite set of entries has an oldest one; the rest sorted,  *)
(* and that one after it, is the set sorted.                               *)
(***************************************************************************)
\* Among entries one is older than all others: the least build of the least version.
LEMMA OldestEntry ==
  ASSUME NEW E, E \subseteq Entry, E # {}
  PROVE  \E e \in E : \A f \in E \ {e} : Newer(f, e)
<1> DEFINE Versions == {e[1] : e \in E}
<1>1. PICK v \in Versions : \A w \in Versions : v <= w
  <2>1. Versions \subseteq Nat /\ Versions # {}
    BY DEF Entry, Version
  <2> HIDE DEF Versions
  <2> QED BY <2>1, LeastNatural
<1> DEFINE Numbers == {e[2] : e \in {f \in E : f[1] = v}}
<1>2. PICK n \in Numbers : \A m \in Numbers : n <= m
  <2>1. Numbers \subseteq Nat /\ Numbers # {}
    BY DEF Entry, BuildNumber
  <2> HIDE DEF Numbers
  <2> QED BY <2>1, LeastNatural
<1>3. PICK e \in E : e[1] = v /\ e[2] = n
  BY <1>2
<1>4. ASSUME NEW f \in E \ {e} PROVE Newer(f, e)
  <2>1. /\ f[1] \in Nat /\ f[2] \in Nat /\ f = <<f[1], f[2]>>
        /\ e[1] \in Nat /\ e[2] \in Nat /\ e = <<e[1], e[2]>>
    BY <1>4 DEF Entry, Version, BuildNumber
  <2>2. v <= f[1] /\ (f[1] = v => n <= f[2])
    BY <1>1, <1>2
  <2>3. f[1] # v \/ f[2] # n
    BY <1>3, <1>4, <2>1
  <2> QED BY <1>3, <2>1, <2>2, <2>3 DEF Newer
<1> QED BY <1>3, <1>4

\* s lists n of the entries of E, each newer than the next.
Descends(s, n, E) ==
  s \in [1 .. n -> E] /\ \A i \in 1 .. n : \A j \in i + 1 .. n : Newer(s[i], s[j])

\* Every finite set of entries can be sorted.
LEMMA EntriesCanBeSorted ==
  ASSUME NEW E, E \subseteq Entry, IsFiniteSet(E)
  PROVE  \E s : Descends(s, Cardinality(E), E)
<1> DEFINE Unsorted == {D \in SUBSET E : ~ \E s : Descends(s, Cardinality(D), D)}
           T == {Cardinality(D) : D \in Unsorted}
<1> SUFFICES ASSUME E \in Unsorted PROVE FALSE
  OBVIOUS
<1>0. \A D \in SUBSET E : IsFiniteSet(D) /\ Cardinality(D) \in Nat
  BY FS_Subset, FS_CardinalityType
<1>1. PICK D \in Unsorted : \A C \in Unsorted : Cardinality(D) <= Cardinality(C)
  <2>1. T \subseteq Nat /\ T # {}
    BY <1>0
  <2>2. PICK n \in T : \A m \in T : n <= m
    <3> HIDE DEF T
    <3> QED BY <2>1, LeastNatural
  <2> QED BY <2>2
<1>2. D # {}
  <2> SUFFICES ASSUME D = {} PROVE FALSE
    OBVIOUS
  <2>1. Cardinality(D) = 0
    BY FS_EmptySet
  <2>2. Descends(<<>>, 0, D)
    BY DEF Descends
  <2> QED BY <2>1, <2>2
<1>3. PICK e \in D : \A f \in D \ {e} : Newer(f, e)
  BY <1>2, OldestEntry
<1> DEFINE k == Cardinality(D)
           R == D \ {e}
<1>4. k \in Nat /\ k # 0 /\ Cardinality(R) = k - 1
  BY <1>0, <1>2, FS_RemoveElement, FS_EmptySet
<1>5. PICK r : Descends(r, k - 1, R)
  <2>1. R \in SUBSET E /\ ~ (k <= Cardinality(R))
    BY <1>4
  <2>2. R \notin Unsorted
    <3> HIDE DEF R, Unsorted
    <3> QED BY <1>1, <2>1
  <2> QED BY <1>4, <2>1, <2>2
<1> DEFINE s == [i \in 1 .. k |-> IF i = k THEN e ELSE r[i]]
<1>6. Descends(s, k, D)
  <2> HIDE DEF k
  <2>1. s \in [1 .. k -> D]
    BY <1>4, <1>5 DEF Descends
  <2>2. ASSUME NEW i \in 1 .. k, NEW j \in i + 1 .. k PROVE Newer(s[i], s[j])
    <3>1. i \in 1 .. k - 1 /\ s[i] = r[i] /\ r[i] \in R
      BY <1>4, <1>5 DEF Descends
    <3>2. CASE j = k
      BY <1>3, <1>4, <3>1, <3>2
    <3>3. CASE j # k
      BY <1>4, <1>5, <3>1, <3>3 DEF Descends
    <3> QED BY <3>2, <3>3
  <2> QED BY <2>1, <2>2 DEF Descends
<1> QED BY <1>6

\* The sort returns a sequence of every entry it is given, and of no other.
LEMMA SortedKeepsEntries ==
  ASSUME NEW E, E \subseteq Entry, IsFiniteSet(E)
  PROVE  Sorted(E) \in Seq(E) /\ ToSet(Sorted(E)) = E
<1> DEFINE n == Cardinality(E)
           s == Sorted(E)
<1>1. n \in Nat
  BY FS_CardinalityType
<1>2. s \in [1 .. n -> E] /\ \A i \in 1 .. n : \A j \in i + 1 .. n : Newer(s[i], s[j])
  <2>1. \E t \in [1 .. n -> E] : \A i \in DOMAIN t : \A j \in i + 1 .. n : Newer(t[i], t[j])
    BY EntriesCanBeSorted DEF Descends
  <2> QED BY <2>1 DEF Sorted
<1> HIDE DEF n, s
<1>3. s \in Injection(1 .. n, E)
  <2> SUFFICES ASSUME NEW i \in 1 .. n, NEW j \in 1 .. n, i < j, s[i] = s[j] PROVE FALSE
    BY <1>1, <1>2 DEF Injection, IsInjective
  <2>1. Newer(s[i], s[j])
    BY <1>1, <1>2
  <2>2. s[i][1] \in Nat /\ s[i][2] \in Nat
    BY <1>2 DEF Entry, Version, BuildNumber
  <2> QED BY <2>1, <2>2 DEF Newer
<1>4. s \in Surjection(1 .. n, E)
  <2>1. IsFiniteSet(1 .. n) /\ Cardinality(1 .. n) = n
    BY <1>1, FS_Interval
  <2> QED BY <1>3, <2>1, FS_Injection DEF n
<1>5. ToSet(s) = E
  BY <1>2, <1>4 DEF ToSet, Surjection
<1>6. s \in Seq(E)
  BY <1>1, <1>2
<1> QED BY <1>5, <1>6 DEF s

-----------------------------------------------------------------------------
(***************************************************************************)
(* The invariant.                                                          *)
(***************************************************************************)
\* The entries there can be are finitely many, and so are those of any listing.
LEMMA EntriesFinite == \A E \in SUBSET Entry : IsFiniteSet(E)
<1>1. IsFiniteSet(Version) /\ IsFiniteSet(BuildNumber)
  BY KnownVersionsAssumption, FS_Interval DEF Version, BuildNumber
<1>2. IsFiniteSet(Entry)
  BY <1>1, FS_Product DEF Entry
<1> QED BY <1>2, FS_Subset

\* The sorted entries are those of the Map.
LEMMA ListEntriesIsMap == ListEntries \in Seq(Entry) /\ ToSet(ListEntries) = ToList
<1>1. ToList \subseteq Entry /\ IsFiniteSet(ToList)
  BY EntriesFinite DEF ToList
<1>2. ListEntries = Sorted(ToList)
  BY DEF ListEntries, ToList, Entry
<1>3. Sorted(ToList) \in Seq(ToList) /\ ToSet(Sorted(ToList)) = ToList
  BY <1>1, SortedKeepsEntries
<1> QED BY <1>1, <1>2, <1>3, SeqMonotonic

\* Before a listing is called, nothing of the upstream can be forgotten.
LEMMA ListInvInit == ListInit => ListInv
<1> SUFFICES ASSUME ListInit PROVE ListInv
  OBVIOUS
<1>1. ListTypeOK
  <2>1. Says(kind) \cup {"absent"} \subseteq Result
    BY DEF ListInit, Says, Kind, Result
  <2>2. upstream \in [Version -> [BuildNumber -> Result]]
    BY <2>1 DEF ListInit
  <2> QED BY <2>2 DEF ListInit, ListTypeOK
<1>2. OnlySaid
  BY DEF ListInit, OnlySaid
<1> QED
  BY <1>1, <1>2 DEF ListInit, ListInv, SuccessStays, ListedSucceeded, NoneForgotten, ResultIsMap

\* The project goes on: a build that has succeeded stays as it is.
LEMMA PublishStep ==
  ASSUME ListInv, NEW v \in Version, NEW n \in BuildNumber, Publish(v, n)
  PROVE  ListInv'
<1> USE DEF ListInv
<1>1. PICK r \in Says(kind) \ {upstream[v][n]} : upstream' = [upstream EXCEPT ![v][n] = r]
  BY DEF Publish
<1>2. upstream[v][n] # "success" /\ HasBuild(kind, n) /\ UNCHANGED <<kind, known, todo, builds, pc, result>>
  BY DEF Publish
<1>3. r \in Result
  BY DEF ListTypeOK, Says, Kind, Result
<1>4. ListTypeOK'
  BY <1>1, <1>2, <1>3 DEF ListTypeOK
<1>5. \A w \in Version, m \in BuildNumber :
        upstream'[w][m] = IF w = v /\ m = n THEN r ELSE upstream[w][m]
  BY <1>1 DEF ListTypeOK
<1>6. OnlySaid'
  <2> SUFFICES ASSUME NEW w \in Version, NEW m \in BuildNumber, upstream'[w][m] # "absent"
               PROVE  upstream'[w][m] \in Says(kind) /\ HasBuild(kind, m)
    BY <1>2 DEF OnlySaid
  <2> QED BY <1>1, <1>2, <1>5 DEF OnlySaid
<1>7. \A w \in Version, m \in BuildNumber : upstream[w][m] = "success" => upstream'[w][m] = "success"
  BY <1>2, <1>5
<1>8. SuccessStays'
  BY <1>2, <1>7 DEF SuccessStays
<1>9. ListedSucceeded'
  BY <1>2, <1>7 DEF ListedSucceeded, ListTypeOK, IsBroken
<1>10. NoneForgotten' /\ ResultIsMap'
  BY <1>2 DEF NoneForgotten, ResultIsMap, IsBroken, Entries, ToList
<1> QED BY <1>4, <1>6, <1>8, <1>9, <1>10

\* The versions that are to be asked for are those of the project.
LEMMA FetchProjectVersionsStep == ListInv /\ FetchProjectVersions => ListInv'
<1> SUFFICES ASSUME ListInv, FetchProjectVersions PROVE ListInv'
  OBVIOUS
<1> USE DEF ListInv, FetchProjectVersions
<1>1. ListTypeOK'
  BY DEF ListTypeOK, Published
<1>2. OnlySaid' /\ SuccessStays' /\ ListedSucceeded' /\ ResultIsMap'
  BY DEF OnlySaid, SuccessStays, ListedSucceeded, ResultIsMap, IsBroken
<1>3. NoneForgotten'
  BY DEF NoneForgotten, SuccessStays, Published
<1> QED BY <1>1, <1>2, <1>3

\* The manifest has every version, and each of them is a success.
LEMMA FetchManifestStep == ListInv /\ FetchManifest => ListInv'
<1> SUFFICES ASSUME ListInv, FetchManifest PROVE ListInv'
  OBVIOUS
<1> USE DEF ListInv, FetchManifest
<1>1. \A v \in Version, n \in BuildNumber :
        upstream[v][n] # "absent" => n = 1 /\ upstream[v][n] = "success"
  BY DEF OnlySaid, Says, HasBuild
<1>2. \A v \in Published(upstream) : v \in Version /\ 1 \in BuildNumber /\ upstream[v][1] = "success"
  BY <1>1 DEF Published
<1>3. ListTypeOK'
  BY <1>2 DEF ListTypeOK
<1>4. OnlySaid' /\ SuccessStays' /\ ResultIsMap'
  BY DEF OnlySaid, SuccessStays, ResultIsMap
<1>5. ListedSucceeded'
  BY <1>2 DEF ListedSucceeded, IsBroken
<1>6. NoneForgotten'
  <2> SUFFICES ASSUME NEW v \in Version, NEW n \in BuildNumber, known[v][n] = "success"
               PROVE  n \in builds'[v]
    BY DEF NoneForgotten
  <2>1. upstream[v][n] = "success"
    BY DEF SuccessStays
  <2>2. n = 1 /\ v \in Published(upstream)
    BY <1>1, <2>1 DEF Published
  <2> QED BY <2>2
<1> QED BY <1>3, <1>4, <1>5, <1>6

\* A version that is broken need not be asked for.
LEMMA SkipBrokenStep ==
  ASSUME ListInv, NEW v \in Version, SkipBroken(v)
  PROVE  ListInv'
<1> USE DEF ListInv, SkipBroken
<1>1. ListTypeOK'
  BY DEF ListTypeOK
<1>2. OnlySaid' /\ SuccessStays' /\ ListedSucceeded' /\ ResultIsMap'
  BY DEF OnlySaid, SuccessStays, ListedSucceeded, ResultIsMap, IsBroken
<1>3. NoneForgotten'
  BY DEF NoneForgotten, IsBroken
<1> QED BY <1>1, <1>2, <1>3

\* A rejected listing promises nothing.
LEMMA RejectStep == ListInv /\ Reject => ListInv'
BY DEF ListInv, Reject, ListTypeOK, OnlySaid, SuccessStays, ListedSucceeded, NoneForgotten,
       ResultIsMap, IsBroken

\* The builds of a version that have succeeded are all of them listed, whatever
\* became of newer ones.
LEMMA FetchBuildsStep ==
  ASSUME ListInv, NEW v \in Version, FetchBuilds(v)
  PROVE  ListInv'
<1>1. CASE Reject
  BY <1>1, RejectStep
<1>2. CASE /\ builds' = [builds EXCEPT ![v] = AllBuilds(v)]
           /\ todo' = todo \ {v}
           /\ UNCHANGED <<kind, upstream, known, pc, result>>
  <2> USE DEF ListInv
  <2>1. pc = "fetchBuilds" /\ ~ IsBroken(v)
    BY DEF FetchBuilds
  <2>2. \A w \in Version : builds'[w] = IF w = v THEN AllBuilds(v) ELSE builds[w]
    BY <1>2 DEF ListTypeOK
  <2>3. ListTypeOK'
    BY <1>2 DEF ListTypeOK, AllBuilds
  <2>4. OnlySaid' /\ SuccessStays' /\ ResultIsMap'
    BY <1>2, <2>1 DEF OnlySaid, SuccessStays, ResultIsMap
  <2>5. ListedSucceeded'
    BY <1>2, <2>1, <2>2 DEF ListedSucceeded, AllBuilds, IsBroken
  <2>6. NoneForgotten'
    <3> SUFFICES ASSUME NEW w \in Version, NEW n \in BuildNumber, known[w][n] = "success"
                 PROVE  w \in todo' \/ n \in builds'[w] \/ IsBroken(w)
      BY <1>2 DEF NoneForgotten, IsBroken
    <3>1. CASE w = v
      BY <2>2, <3>1 DEF SuccessStays, AllBuilds
    <3>2. CASE w # v
      BY <1>2, <2>1, <2>2, <3>2 DEF NoneForgotten
    <3> QED BY <3>1, <3>2
  <2> QED BY <2>3, <2>4, <2>5, <2>6
<1> QED BY <1>1, <1>2 DEF FetchBuilds

\* With no version left to ask for, the Map is the listing.
LEMMA ResolveStep == ListInv /\ Resolve => ListInv'
<1> SUFFICES ASSUME ListInv, Resolve PROVE ListInv'
  OBVIOUS
<1> USE DEF ListInv, Resolve
<1>1. ListTypeOK'
  BY ListEntriesIsMap DEF ListTypeOK, Entry
<1>2. OnlySaid' /\ SuccessStays' /\ ListedSucceeded' /\ NoneForgotten'
  BY DEF OnlySaid, SuccessStays, ListedSucceeded, NoneForgotten, IsBroken
<1>3. ToList' = ToList
  BY DEF ToList
<1>4. ResultIsMap'
  BY <1>3, ListEntriesIsMap DEF ResultIsMap, Entries
<1> QED BY <1>1, <1>2, <1>4

\* Every step of a listing keeps ListInv.
LEMMA ListInvNext == ListInv /\ [ListNext]_listVars => ListInv'
<1> SUFFICES ASSUME ListInv, [ListNext]_listVars PROVE ListInv'
  OBVIOUS
<1>1. CASE GetKnownVersions
  BY <1>1 DEF GetKnownVersions, ListInv, ListTypeOK, OnlySaid, SuccessStays, ListedSucceeded,
              NoneForgotten, ResultIsMap, IsBroken
<1>2. CASE FetchFails
  BY <1>2, RejectStep DEF FetchFails
<1>3. CASE FetchProjectVersions
  BY <1>3, FetchProjectVersionsStep
<1>4. CASE FetchManifest
  BY <1>4, FetchManifestStep
<1>5. CASE Resolve
  BY <1>5, ResolveStep
<1>6. CASE UNCHANGED listVars
  BY <1>6 DEF listVars, ListInv, ListTypeOK, OnlySaid, SuccessStays, ListedSucceeded,
              NoneForgotten, ResultIsMap, IsBroken, Entries, ToList
<1>7. ASSUME NEW v \in Version, SkipBroken(v) PROVE ListInv'
  BY <1>7, SkipBrokenStep
<1>8. ASSUME NEW v \in Version, FetchBuilds(v) PROVE ListInv'
  BY <1>8, FetchBuildsStep
<1>9. ASSUME NEW v \in Version, NEW n \in BuildNumber, Publish(v, n) PROVE ListInv'
  BY <1>9, PublishStep
<1> QED
  BY <1>1, <1>2, <1>3, <1>4, <1>5, <1>6, <1>7, <1>8, <1>9 DEF ListNext, Listed

\* The invariant says more than the properties the run checks.
LEMMA ListInvImplies == ListInv => ListTypeOK /\ NothingMissed /\ OnlyBuildable
<1> SUFFICES ASSUME ListInv PROVE ListTypeOK /\ NothingMissed /\ OnlyBuildable
  OBVIOUS
<1> USE DEF ListInv
<1>1. NothingMissed
  BY DEF NothingMissed, NoneForgotten, ResultIsMap, ToList, Entry, IsBroken
<1>2. OnlyBuildable
  BY DEF OnlyBuildable, ListedSucceeded, ResultIsMap, ToList, Entry, IsBroken
<1> QED BY <1>1, <1>2

-----------------------------------------------------------------------------
\* ListInv holds in every behaviour of a listing.
LEMMA ListInvariant == ListSpec => []ListInv
<1>1. ListInit => ListInv
  BY ListInvInit
<1>2. ListInv /\ [ListNext]_listVars => ListInv'
  BY ListInvNext
<1> QED BY <1>1, <1>2, PTL DEF ListSpec

\* Every variable of a listing keeps to its type; what it resolves with is a
\* sequence of entries.
THEOREM ListTypeCorrect == ListSpec => []ListTypeOK
BY ListInvariant, ListInvImplies, PTL

\* getKnownVersions resolves with every build that had succeeded when it was
\* called and is not known to be broken, whatever is published meanwhile.
THEOREM ListingIsComplete == ListSpec => []NothingMissed
BY ListInvariant, ListInvImplies, PTL

\* Every version it resolves with can be built, and that stays so.
THEOREM ListingIsBuildable == ListSpec => []OnlyBuildable
BY ListInvariant, ListInvImplies, PTL
=============================================================================
