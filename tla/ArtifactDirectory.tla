-------------------------- MODULE ArtifactDirectory --------------------------
(***************************************************************************)
(* The directory of one artifact in the output directory, and the builders *)
(* that download into it: AbstractPaperMcIoArtifactBuilder (Paper, Folia,  *)
(* Velocity, ...), Purpur-, Pufferfisch- and MojangArtifactBuilder.        *)
(*                                                                         *)
(* An element of Builder is the attempt to build the version that one run  *)
(* of the application makes: the run looks whether the directory exists,   *)
(* and if not starts a container, sooner or later, whose build() looks     *)
(* again.  A run may end before its builder does, by a crash, a SIGINT, or *)
(* a wait that failed; the next run prunes stopped containers only, so     *)
(* that a builder left behind may be at work beside the next one.  All     *)
(* attempts see the same upstream: one kind, one list of downloads.        *)
(***************************************************************************)
EXTENDS Naturals, Sequences, FiniteSets

CONSTANTS
  Builder,    \* the attempts, one by each run of the application
  Artifact,   \* the names of the files to download, the info file aside
  NoRun       \* no run of the application is going on

ASSUME DirAssumption ==
  /\ Artifact \cap {"info", "ask", "parse"} = {}
  /\ Builder \cap {"none", "complete", NoRun} = {}

VARIABLES
  kind,    \* which of the builders it is
  plan,    \* what build() does within its try, in order
  dir,     \* whether the directory is there
  file,    \* the files of the directory; a builder: opened last by it, unfinished
  pc,      \* what each attempt awaits, or how it ended
  next,    \* the step of the plan each attempt is at
  run,     \* the attempt of the run that is going on
  raced    \* history: two attempts were past the check before either's mkdir

dirVars == <<kind, plan, dir, file, pc, next, run, raced>>

File == {"info"} \cup Artifact
InTry == {"step", "writeFile", "rm"}
Working == {"fetchBuild", "mkdir"} \cup InTry

\* How an attempt ends: its version is there already; the run ends first; the
\* build resolves; it throws before its try, or in it and has cleaned up; or the
\* container is killed.
Over == {"skipped", "dropped", "built", "failed", "removed", "killed"}

-----------------------------------------------------------------------------
(***************************************************************************)
(* What build() does within its try: download a file, "ask" the API for    *)
(* something that is not stored, or "parse" the info file it downloaded.   *)
(***************************************************************************)
PaperPlan(downloads) == <<"info">> \o downloads
PurpurPlan(downloads) == <<"info">> \o downloads
PufferfischPlan(downloads) == <<"ask">> \o downloads
MojangPlan(downloads) == <<"ask", "info", "parse">> \o downloads

\* Paper and Mojang name any number of downloads, Purpur and Pufferfish have one.
DownloadLists == {d \in UNION {[1 .. n -> Artifact] : n \in 0 .. Cardinality(Artifact)} :
                    \A i, j \in DOMAIN d : d[i] = d[j] => i = j}
Plans == {<<"paper", PaperPlan(d)>> : d \in DownloadLists}
         \cup {<<"mojang", MojangPlan(d)>> : d \in DownloadLists}
         \cup {<<"purpur", PurpurPlan(<<a>>)>> : a \in Artifact}
         \cup {<<"pufferfisch", PufferfischPlan(<<a>>)>> : a \in Artifact}

DirTypeOK ==
  /\ <<kind, plan>> \in Plans
  /\ dir \in {"absent", "present"}
  /\ file \in [File -> {"none", "complete"} \cup Builder]
  /\ pc \in [Builder -> {"notListed", "scheduled", "starting"} \cup Working \cup Over]
  /\ next \in [Builder -> 1 .. Len(plan) + 1]
  /\ run \in Builder \cup {NoRun} /\ raced \in BOOLEAN
  /\ \A p \in Builder : pc[p] \in {"step", "writeFile"} => next[p] <= Len(plan)

DirInit ==
  /\ \E k \in Plans : kind = k[1] /\ plan = k[2]
  /\ dir = "absent"
  /\ file = [f \in File |-> "none"]
  /\ pc = [p \in Builder |-> "notListed"]
  /\ next = [p \in Builder |-> 1]
  /\ run = NoRun /\ raced = FALSE

-----------------------------------------------------------------------------
Go(p, state) == pc' = [pc EXCEPT ![p] = state]

\* Within the try every error leads to the catch, which removes the directory.
Throw(p) == Go(p, "rm") /\ UNCHANGED <<kind, plan, dir, file, next, run, raced>>

\* A wrong Advance: it goes on past the last step.
AdvancePastEnd(p) ==
  /\ next' = [next EXCEPT ![p] = @ + 1]
  /\ Go(p, IF next[p] > Len(plan) THEN "built" ELSE "step")
  /\ UNCHANGED <<kind, plan, dir, run, raced>>

\* To the next step of the plan, or past the last: build() resolves.
Advance(p) ==
  /\ next' = [next EXCEPT ![p] = @ + 1]
  /\ Go(p, IF next[p] = Len(plan) THEN "built" ELSE "step")
  /\ UNCHANGED <<kind, plan, dir, run, raced>>

-----------------------------------------------------------------------------
(***************************************************************************)
(* The runs of the application, one after another.                         *)
(***************************************************************************)
\* artifactAlreadyInOutputDir: existsSync of the directory.
AlreadyInOutputDir == dir = "present"

\* The pruning removes a container that an earlier run had not started yet, and
\* leaves alone one that runs.
RunBegins(p) ==
  /\ run = NoRun /\ pc[p] = "notListed" /\ run' = p
  /\ pc' = [q \in Builder |-> IF pc[q] = "starting" THEN "dropped" ELSE pc[q]]
  /\ UNCHANGED <<kind, plan, dir, file, next, raced>>

\* The listing of main.ts: a version whose directory is there gets no task.
ListVersion(p) ==
  /\ run = p /\ pc[p] = "notListed"
  /\ Go(p, IF AlreadyInOutputDir THEN "skipped" ELSE "scheduled")
  /\ UNCHANGED <<kind, plan, dir, file, next, run, raced>>

\* The task of the version is taken: podman is asked to start its container.
TakeTask(p) ==
  /\ run = p /\ pc[p] = "scheduled"
  /\ Go(p, "starting")
  /\ UNCHANGED <<kind, plan, dir, file, next, run, raced>>

\* 'All done', a SIGINT or a crash, at any time.  What podman was asked to start
\* it still starts, and what it started works on, unless Kill comes first.
RunEnds ==
  /\ run # NoRun /\ run' = NoRun
  /\ pc' = [p \in Builder |->
              IF p = run /\ pc[p] \in {"notListed", "scheduled"} THEN "dropped" ELSE pc[p]]
  /\ UNCHANGED <<kind, plan, dir, file, next, raced>>

\* The container is deleted by force (abortRunningBuilders), or the host stops.
Kill(p) ==
  /\ \/ pc[p] = "starting" /\ Go(p, "dropped")
     \/ pc[p] \in Working /\ Go(p, "killed")
  /\ UNCHANGED <<kind, plan, dir, file, next, run, raced>>

-----------------------------------------------------------------------------
(***************************************************************************)
(* build(), from one await to the next.                                    *)
(***************************************************************************)
\* A wrong CheckAbsent: it is made within the try, so that its error is followed
\* by the removal of the directory.
CheckAbsentInTry(p) ==
  /\ Go(p, IF dir = "present" THEN "rm" ELSE "mkdir")
  /\ raced' = (raced \/ (dir = "absent" /\ \E q \in Builder : pc[q] = "mkdir"))
  /\ UNCHANGED <<kind, plan, dir, file, next, run>>

\* build() throws if the directory is there, before its try.
CheckAbsent(p) ==
  /\ Go(p, IF dir = "present" THEN "failed" ELSE "mkdir")
  /\ raced' = (raced \/ (dir = "absent" /\ \E q \in Builder : pc[q] = "mkdir"))
  /\ UNCHANGED <<kind, plan, dir, file, next, run>>

\* The container starts.  Paper asks for the build before it looks at the
\* directory, the others look at once.
Begin(p) ==
  /\ pc[p] = "starting"
  /\ \/ kind = "paper" /\ Go(p, "fetchBuild") /\ UNCHANGED <<kind, plan, dir, file, next, run, raced>>
     \/ kind # "paper" /\ CheckAbsent(p)

FetchBuild(p) ==
  /\ pc[p] = "fetchBuild"
  /\ \/ CheckAbsent(p)
     \/ Go(p, "failed") /\ UNCHANGED <<kind, plan, dir, file, next, run, raced>>

\* mkdir is recursive: a directory that is there by now is no error.
MakeDirectory(p) ==
  /\ pc[p] = "mkdir"
  /\ \/ dir' = "present" /\ Go(p, "step")
     \/ dir' = dir /\ Go(p, "failed")
  /\ UNCHANGED <<kind, plan, file, next, run, raced>>

Ask(p) ==
  /\ pc[p] = "step" /\ plan[next[p]] = "ask"
  /\ (Advance(p) /\ UNCHANGED file) \/ Throw(p)

\* version-info.json is read back from the directory; what is not complete does
\* not parse, and what is complete may be other than expected.
Parse(p) ==
  /\ pc[p] = "step" /\ plan[next[p]] = "parse"
  /\ \/ file["info"] = "complete" /\ Advance(p) /\ UNCHANGED file
     \/ Throw(p)

\* A wrong Download: the file is only opened, and downloads on by itself.
DownloadUnawaited(p) ==
  /\ pc[p] = "step" /\ plan[next[p]] \in File
  /\ \/ /\ dir = "present"
        /\ file' = [file EXCEPT ![plan[next[p]]] = p]
        /\ Advance(p)
     \/ Throw(p)

\* FileDownloader.downloadFile, up to the answer: the file is opened, and
\* truncated.  The answer is an error, or the directory is gone, or else ...
Download(p) ==
  /\ pc[p] = "step" /\ plan[next[p]] \in File
  /\ \/ /\ dir = "present"
        /\ file' = [file EXCEPT ![plan[next[p]]] = p]
        /\ Go(p, "writeFile") /\ UNCHANGED <<kind, plan, dir, next, run, raced>>
     \/ Throw(p)

\* A wrong Written: a body that breaks off is an error nobody cleans up after.
WrittenNoCatch(p) ==
  /\ pc[p] = "writeFile"
  /\ \/ /\ file' = [file EXCEPT ![plan[next[p]]] = IF @ = p THEN "complete" ELSE @]
        /\ Advance(p)
     \/ Go(p, "failed") /\ UNCHANGED <<kind, plan, dir, file, next, run, raced>>

\* ... the body ends or breaks off.  The file is complete when the last one that
\* opened it has written it; an unlinked one is of no use.
Written(p) ==
  /\ pc[p] = "writeFile"
  /\ \/ /\ file' = [file EXCEPT ![plan[next[p]]] = IF @ = p THEN "complete" ELSE @]
        /\ Advance(p)
     \/ Throw(p)

\* The catch of build(): rm, recursive, entry by entry, then the directory.  A
\* directory that is not there is an error, and so is one in which another has
\* put a file meanwhile; either way build() throws.
Remove(p) ==
  /\ pc[p] = "rm"
  /\ \/ /\ dir = "present"
        /\ \E f \in File : file[f] # "none" /\ file' = [file EXCEPT ![f] = "none"]
        /\ UNCHANGED <<dir, pc>>
     \/ /\ \A f \in File : file[f] = "none"
        /\ dir' = "absent" /\ Go(p, "removed") /\ UNCHANGED file
     \/ /\ \E q \in Builder \ {p} : pc[q] \in InTry
        /\ Go(p, "removed") /\ UNCHANGED <<dir, file>>
  /\ UNCHANGED <<kind, plan, next, run, raced>>

AllOver == (\A p \in Builder : pc[p] \in Over) /\ UNCHANGED dirVars

DirNext ==
  \/ RunEnds
  \/ \E p \in Builder :
       \/ RunBegins(p) \/ ListVersion(p) \/ TakeTask(p) \/ Kill(p)
       \/ Begin(p) \/ FetchBuild(p) \/ MakeDirectory(p)
       \/ Ask(p) \/ Parse(p) \/ Download(p) \/ Written(p) \/ Remove(p)
  \/ AllOver

DirSpec == DirInit /\ [][DirNext]_dirVars

-----------------------------------------------------------------------------
(***************************************************************************)
(* What the builders promise of the directory.                             *)
(***************************************************************************)
Complete == dir = "present"
            /\ \A i \in DOMAIN plan : plan[i] \in File => file[plan[i]] = "complete"
Quiet == \A p \in Builder : pc[p] \notin Working

\* Once a builder has said 'Successfully built artifact', the artifact is there
\* with all its files and stays: neither a builder that an earlier run left
\* behind nor one of a later run touches it, though that one fails or is killed.
\* The exception are two builders that have both looked before either made the
\* directory.
BuiltIsComplete == ~ raced /\ (\E p \in Builder : pc[p] = "built") => Complete

\* Downloads that fail leave nothing behind that would pass for an artifact: a
\* directory that is there and incomplete was left by a killed builder, at
\* whichever await the others failed.  (That the removal of the catch may itself
\* fail is left out.)
PartialOnlyAfterKill ==
  ~ raced /\ Quiet /\ dir = "present" /\ ~ Complete => \E p \in Builder : pc[p] = "killed"

\* Even where builders race, an artifact that was built is only lost, once none
\* is at work, to one that failed in its try or was killed.  If none did, their
\* writes to the same files leave a complete artifact.
LostOnlyByTry ==
  Quiet /\ (\E p \in Builder : pc[p] = "built") /\ ~ Complete =>
    \E p \in Builder : pc[p] \in {"removed", "killed"}

\* If no builder is at work and artifactAlreadyInOutputDir says the artifact is
\* there, it is.  ArtifactBuilder.ts:9 says the answer is null if that cannot be
\* determined for sure.
AnswerIsSure == Quiet /\ AlreadyInOutputDir => Complete
=============================================================================
