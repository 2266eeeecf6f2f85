---------------------------- MODULE KnownVersions ----------------------------
(***************************************************************************)
(* getKnownVersions of the Paper, Purpur, Pufferfisch and Mojang builders: *)
(* fetch the versions of the project, then the builds of one version after *)
(* another, and list what can be built, the newest first.  Meanwhile the   *)
(* project goes on publishing: a listing is no snapshot.                   *)
(*                                                                         *)
(* A version of the project is a number, and so is a build of it; an entry *)
(* <<v, n>> stands for the string `${v}-${n}`.  Mojang has one build, 1,   *)
(* of each version, for the entry `${v}`.                                  *)
(***************************************************************************)
EXTENDS SequencesExt

CONSTANTS
  MaxVersion,      \* versions are 1 .. MaxVersion, later ones greater
  MaxBuild,        \* builds of a version are 1 .. MaxBuild
  BrokenVersions,  \* versions among KNOWN_BROKEN_VERSIONS of PaperArtifactBuilder
  BrokenEntries    \* entries among KNOWN_BROKEN_VERSIONS

Version == 1 .. MaxVersion
BuildNumber == 1 .. MaxBuild

ASSUME KnownVersionsAssumption ==
  /\ MaxVersion \in Nat /\ MaxBuild \in Nat
  /\ BrokenVersions \subseteq Version
  /\ BrokenEntries \subseteq Version \X BuildNumber

VARIABLES
  kind,      \* which of the builders it is
  upstream,  \* what the API says of each build
  known,     \* upstream when the listing began
  todo,      \* the versions whose builds are still to be fetched
  builds,    \* the local Map: the builds listed of each version
  pc,        \* where getKnownVersions is
  result     \* the versions it resolves with

listVars == <<kind, upstream, known, todo, builds, pc, result>>

Kind == {"paper", "purpur", "pufferfisch", "mojang"}
Result == {"absent", "running", "success", "failure", "aborted"}

ListTypeOK ==
  /\ kind \in Kind
  /\ upstream \in [Version -> [BuildNumber -> Result]]
  /\ known \in [Version -> [BuildNumber -> Result]]
  /\ todo \subseteq Version
  /\ builds \in [Version -> SUBSET BuildNumber]
  /\ pc \in {"notCalled", "fetchVersions", "fetchBuilds", "resolved", "rejected"}
  /\ result \in Seq(Version \X BuildNumber)

\* A version is one of the project as soon as it has a build.
Published(u) == {v \in Version : \E n \in BuildNumber : u[v][n] # "absent"}

\* What each API can say: Paper and Mojang publish what is finished, Purpur also
\* builds that failed, and the Jenkins of Pufferfish every job.
Says(k) == CASE k \in {"paper", "mojang"} -> {"success"}
             [] k = "purpur" -> {"success", "failure"}
             [] k = "pufferfisch" -> {"running", "success", "failure", "aborted"}
HasBuild(k, n) == k = "mojang" => n = 1

ListInit ==
  /\ kind \in Kind
  /\ upstream \in [Version -> [BuildNumber -> Says(kind) \cup {"absent"}]]
  /\ \A v \in Version, n \in BuildNumber :
       /\ upstream[v][n] # "absent" => HasBuild(kind, n)
       /\ n > 1 /\ upstream[v][n] # "absent" => upstream[v][n - 1] # "absent"
  /\ known = upstream
  /\ todo = {}
  /\ builds = [v \in Version |-> {}]
  /\ pc = "notCalled"
  /\ result = <<>>

\* The project publishes a build, or one that was running ends.
Publish(v, n) ==
  /\ HasBuild(kind, n)
  /\ \/ upstream[v][n] = "absent" /\ (n > 1 => upstream[v][n - 1] # "absent")
     \/ upstream[v][n] = "running"
  /\ \E r \in Says(kind) \ {upstream[v][n]} : upstream' = [upstream EXCEPT ![v][n] = r]
  /\ UNCHANGED <<kind, known, todo, builds, pc, result>>

-----------------------------------------------------------------------------
GetKnownVersions ==
  /\ pc = "notCalled"
  /\ pc' = "fetchVersions" /\ known' = upstream
  /\ UNCHANGED <<kind, upstream, todo, builds, result>>

Reject == pc' = "rejected" /\ UNCHANGED <<kind, upstream, known, todo, builds, result>>

\* Any answer but 200, and any body of another form, rejects.
FetchFails == pc \in {"fetchVersions", "fetchBuilds"} /\ Reject

\* fetchProjectVersions, fetchAllJenkinsJobs.
FetchProjectVersions ==
  /\ pc = "fetchVersions" /\ kind # "mojang"
  /\ pc' = "fetchBuilds" /\ todo' = Published(upstream)
  /\ UNCHANGED <<kind, upstream, known, builds, result>>

\* fetchProjectVersions of Mojang: the manifest is the whole list.
FetchManifest ==
  /\ pc = "fetchVersions" /\ kind = "mojang"
  /\ pc' = "fetchBuilds"
  /\ builds' = [v \in Version |-> IF v \in Published(upstream) THEN {1} ELSE {}]
  /\ UNCHANGED <<kind, upstream, known, todo, result>>

\* The results of a build that are passed over, by each of the loops.
Skipped(k) == CASE k = "purpur" -> {"failure"}
                [] k = "pufferfisch" -> {"failure", "aborted"}
                [] OTHER -> {}

\* A wrong AllBuilds: the loop breaks at a build it should pass over.  Builds
\* come with the newest first.
AllBuildsUntilSkipped(v) ==
  {n \in BuildNumber : upstream[v][n] = "success"
     /\ \A m \in n .. MaxBuild : upstream[v][m] \notin Skipped(kind)}

\* A wrong AllBuilds: builds that failed are not passed over.
AllBuildsAnyResult(v) == {n \in BuildNumber : upstream[v][n] # "absent"}

\* A wrong AllBuilds: the index in the answer is taken for the number.
AllBuildsByIndex(v) == {n - 1 : n \in {m \in BuildNumber : upstream[v][m] = "success"}}

\* The numbers of the builds of a version that succeeded.
AllBuilds(v) == {n \in BuildNumber : upstream[v][n] = "success"}

IsBroken(v) == kind = "paper" /\ v \in BrokenVersions

\* Paper answers for a broken version without asking.
SkipBroken(v) ==
  /\ pc = "fetchBuilds" /\ v \in todo /\ IsBroken(v)
  /\ todo' = todo \ {v}
  /\ UNCHANGED <<kind, upstream, known, builds, pc, result>>

\* fetchAllBuildsForVersion, fetchAllSuccessBuildsForVersion.  A result that is
\* neither success nor passed over, such as of a job that still runs, rejects
\* the listing as a whole.
FetchBuilds(v) ==
  /\ pc = "fetchBuilds" /\ v \in todo /\ ~ IsBroken(v)
  /\ LET Understood(r) == r \in {"absent", "success"} \cup Skipped(kind)
     IN  \/ /\ \A n \in BuildNumber : Understood(upstream[v][n])
            /\ builds' = [builds EXCEPT ![v] = AllBuilds(v)]
            /\ todo' = todo \ {v}
            /\ UNCHANGED <<kind, upstream, known, pc, result>>
         \/ (\E n \in BuildNumber : ~ Understood(upstream[v][n])) /\ Reject

\* The comparator of the sort: versions descending, then builds descending.
Newer(a, b) == a[1] > b[1] \/ (a[1] = b[1] /\ a[2] > b[2])

\* The sort, as what it returns: every entry once, each newer than the next.
Sorted(entries) ==
  CHOOSE s \in [1 .. Cardinality(entries) -> entries] :
    \A i \in DOMAIN s : \A j \in i + 1 .. Cardinality(entries) : Newer(s[i], s[j])

\* Every build of every version, sorted; Paper then leaves out the broken ones.
ListEntries ==
  LET entries == {e \in Version \X BuildNumber : e[2] \in builds[e[1]]}
      broken == IF kind = "paper" THEN BrokenEntries ELSE {}
  IN  Sorted(entries \ broken)

Resolve ==
  /\ pc = "fetchBuilds" /\ todo = {}
  /\ pc' = "resolved" /\ result' = ListEntries
  /\ UNCHANGED <<kind, upstream, known, todo, builds>>

Listed == pc \in {"resolved", "rejected"} /\ UNCHANGED listVars

ListNext ==
  \/ GetKnownVersions \/ FetchFails \/ FetchProjectVersions \/ FetchManifest
  \/ Resolve \/ Listed
  \/ \E v \in Version : SkipBroken(v) \/ FetchBuilds(v) \/ \E n \in BuildNumber : Publish(v, n)

ListSpec == ListInit /\ [][ListNext]_listVars

-----------------------------------------------------------------------------
(***************************************************************************)
(* What a listing promises, whatever is published while it goes on.        *)
(***************************************************************************)
Entries == ToSet(result)

\* Every build that had succeeded when the listing began is in it, unless it is
\* known to be broken: builds of other versions, and newer builds that failed or
\* were aborted meanwhile, hide none.
NothingMissed ==
  pc = "resolved" =>
    \A v \in Version, n \in BuildNumber :
      known[v][n] = "success" =>
        \/ <<v, n>> \in Entries
        \/ kind = "paper" /\ (v \in BrokenVersions \/ <<v, n>> \in BrokenEntries)

\* Every entry can be built: the build has succeeded, it is not known to be
\* broken, and that stays so while the entry waits for its turn.
OnlyBuildable ==
  pc = "resolved" =>
    \A e \in Entries :
      /\ upstream[e[1]][e[2]] = "success"
      /\ kind = "paper" => e[1] \notin BrokenVersions /\ e \notin BrokenEntries
=============================================================================
