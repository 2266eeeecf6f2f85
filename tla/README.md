# Minecraft-Artifact-Builder in TLA+

The application fetches the known versions of a dozen Minecraft server projects
and builds, in podman containers, every version whose artifact is not in the
output directory yet. This directory holds models of it, what TLC checks of
them, and what TLAPS proves of them. Paths below are relative to the root of
the repository; `PROJECT.json` maps every definition to its lines.

## 1. Inventory

| component | state | operations | talks to |
|---|---|---|---|
| `src/main.ts`, command `app` | `shuttingDown`; the task lists and workers inside `Async.parallelLimit`; which signal handler is installed | main function, `buildAllVersionsOfSomething`, the tasks, the two SIGINT handlers | the environment (calls, awaited), the listings, podman for pruning and the image |
| `env/PodmanEnvironment.ts` | `runningContainerIds`, shared by all builds; a `containerId` per call | `runBuilderInOwnContainer`, `abortRunningBuilders` | podman, one HTTP exchange per call |
| `podman/PodmanApi.ts`, `HttpUnixSocketClient.ts` | none | create, start, wait, delete, prune, logs, build image; list, pull and ping have no caller | the podman service, over a unix socket |
| podman (external) | its containers | | the containers run the `builder` command |
| `src/main.ts`, command `builder` | a workspace directory | parses `--builderArg`, runs one `build()`, removes the workspace | the artifact builders |
| Paper family, Purpur, Pufferfish, Mojang builders | a directory per artifact in the output directory | `getKnownVersions`, `artifactAlreadyInOutputDir`, `build` | HTTP APIs, the file system |
| `SpigotArtifactBuilder.ts`, `JdkProvider.ts` | a jar per artifact; a JDK directory in `/tmp` | the same, with BuildTools as a child process | HTTP, processes, the file system |
| `ArtifactBuilderRegistry.ts` | a map, filled once | | |

Everything of one process runs on one thread and interleaves at awaits. What is
hard:

* several builds share `runningContainerIds` across awaits, and an abort reads
  it at any moment;
* podman acts on a request before the program knows of it: an abort removes a
  container while its build awaits the start, the wait or the logs of it;
* every API call may fail, before or after podman has acted;
* a SIGINT may come at any await, and the process exits while podman and the
  builders in their containers go on;
* a builder may be killed at any await, and a later run takes what is in the
  output directory for what was built;
* a run may leave builders behind, which are at work beside those of the next
  run, on the same directory;
* a child process and a connection have several events each (exit, the end of
  an output, an error) that come in more than one order;
* the projects publish builds while they are listed.

What makes each component correct:

* environment: the list covers all that runs; no build takes the id of another;
  only exit code 0 is a success; an abort that resolved has stopped what it was
  asked to; everything ends;
* application: worker limits and the turns of the Paper family hold for the
  containers and not only for the tasks; nothing begins after a SIGINT; "All
  done" is true; the program ends, with or without a SIGINT;
* directory builders: what was built is complete and stays so; what failed
  leaves nothing that passes for an artifact;
* Spigot builder and builder command: the arguments arrive; exit code 0 means a
  whole jar that the listing finds (but for `latest`); java is run from a whole JDK; what is
  unfinished was left by a builder that was killed;
* one call of podman's API: it settles, it is fulfilled only by a whole answer
  of a podman that has acted, and a log is shown frame by frame, each under its
  stream;
* listings: nothing that was there is missed; nothing is listed that cannot be
  built.

The hazards of the code, each at its line and with the properties that would
catch it, are in `PROJECT.json`.

## 2. The modules

```
PodmanCall           what one call of podman's API promises
  PodmanExchange       the same call event by event: tar, request, response
PodmanApi            podman, and how the promise of each API call ends
  PodmanEnvironment    one action per stretch of code between two awaits
    BuildApp             the app command and its SIGINT handlers
      BuildQueue           what the application promises, without containers
ArtifactDirectory    one artifact directory, the runs and builders of one version
BuilderCommand       the command line of a builder, and its parsing
  SpigotBuild          the builder command with Spigot and its JDK
KnownVersions        one listing against an upstream that goes on
```

`MC*.tla` are the instances for TLC, `*Proofs.tla` the theorems, and
`RecursionLemmas.tla` what their inductions rest on.

**PodmanApi.** `container` is podman's view of each id: `unused`, `created`,
`running`, `exited`, `removed`. An operator is an API call as a whole: what
podman does, and how the promise ends. Whatever an exchange can fail from (a
status that is not the expected one, a body that does not parse, a socket
error) is one outcome, `rejected`; a call of `FaultyCalls` may be rejected
although podman has acted. Exit codes are `zero` or `nonzero`, and the -1 and
NaN of a container that is gone are `nonzero`, which is what `!== 0` makes of
them. `exitCode` outlives the container so that properties can speak of it.

**PodmanExchange and PodmanCall.** One call of any method. `tarEvent` are the
events of the tar process that node has delivered; an event that settles a
promise which is settled already changes nothing, as in node. `answer` is what
podman says: the status, whether the body (or the content type of a log) has
the form the method expects, and for a log its bytes. The answer to `pull` and
`build` has the expected status even where podman has refused. `FrameSize`,
`Named` and `Decode` are the loop of `getContainerLogs` over bytes of `Base`
values, a function of the bytes that are left and the stream before: it makes a
piece of each frame, the bytes of its payload and the name of its stream where
that changes. `Said` is the text of the pieces. `Name` is the text of each name,
and `Utf8` what `payloadBytes.toString()` makes of the bytes of one payload:
both are parameters of which nothing is assumed but that they give texts, so
that a character that is split over two frames, or bytes that are no UTF-8, may
become whatever node makes of them (U+FFFD). `LogIsShown` says that the text is
the one made of the frames podman has sent, each decoded by itself. It does not
say that a reader can tell the streams apart, which the code does not promise
either: a payload may contain what a name says. `ImplementsCall` says that
each method is the call of `PodmanCall`, which is how `PodmanApi` treats it:
acted on at most once, fulfilled only if acted on, rejected at any time.

**PodmanEnvironment.** `pc[b]` is the API call that build `b` awaits, and
`promise[b]` podman's answer to it. The answer (`PodmanStarts`, ...) and the
continuation it resumes (`AfterStart`, ...) are separate steps, because an
abort or another build may run between them. `kill` holds the deletions that
`abortRunningBuilders` has asked for. `IndexOf` and `Splice` keep the meaning
of `splice(-1, 1)`. What the builder printed only goes into an error message,
so that getting the logs is one step without an outcome.

**BuildApp.** Extends the environment. `proc` is what the main function is at;
`project` and `task` stand for the calls of `buildAllVersionsOfSomething` and
their tasks. `Active` is the number of tasks a `parallelLimit` has under way.
The queue of a project is a set: which task is next does not matter to any
property, so that every order is allowed. After `proc` is in `Exited` only
`Podman` moves.
A worker takes its next task in the turn in which the one before ended, and the
first in the turn of the listing; here that is a step of its own, so that a
signal may come between. The model has all schedules of the code and these
besides; neither violation below needs one of them.

**BuildQueue.** The abstract specification: every version is built at most
once, within the limits and in turn, nothing begins after a stop, "completed"
means that everything is finished. `BuildApp` implements it under the
refinement mapping `Queue`, checked as the property `ImplementsQueue`.

**ArtifactDirectory.** A `Builder` is the attempt at one version that one run of
the application makes. `plan` is what `build()` does within its try:
`PaperPlan`, `PurpurPlan`, `PufferfischPlan` and `MojangPlan` over any list of
downloads. A file is `none`, `complete`, or open by the attempt that opened it
last. The removal in the catch goes entry by entry, and may be killed half way.
`run` is the attempt whose run of the application is going on: `RunBegins` is
the pruning, `ListVersion` the listing, `TakeTask` the task, `RunEnds` every way
a run ends (all done, a SIGINT, a crash), with its builder still at work or
about to start. `AppOrphan.cfg` shows that the code can leave one. `raced` tells
whether two builders have ever both passed the check before either made the
directory.

**BuilderCommand and SpigotBuild.** A text is a sequence of parts, one of which
may be an equals sign. The attempts of `SpigotBuild` come one after another:
in containers (the Spigot project has one worker), each with an empty `/tmp`
and only for a version that the listing did not find, or on the host, where
`/tmp` stays and nothing is looked up. The listing says of `latest` that it does not
know (`null`), whatever jars there are. In production the container gets no
command at all, prints the help and exits with 1. `jar` is the output directory
by version and by version string, which is `cut` if java's output had not been
delivered in full. A failing `copyFile` removes what it has written (libuv
unlinks the destination); only a kill leaves a part of a jar. After the copy the
`finally` removes the workspace, and where that fails so does the process, the
jar being there.

**KnownVersions.** Versions are the numbers of their rank under the comparator
of the sort, so that the string comparison itself is abstracted. `Sorted` is what
the sort returns and not how: every entry once, each newer than the next.
`upstream` changes at any time by `Publish`.

## 3. The runs

| run | instance | shows |
|---|---|---|
| `Env.cfg` | 2 builds, 2 ids, all calls may fail, an abort at any time | `EnvTypeOK`, `StartedIsRegistered`, `SuccessMeansExitZero`, `AbortStopsRegistered`, `ListedUntilGone`, `EveryRunSettles`, `AbortEnds` |
| `AppSafety.cfg` | 3 projects, 2 of them a chain, 4 builds, one worker each, no API call fails, a listing may | `AppTypeOK`, `WorkerLimit`, `ChainIsSequential`, `AllDoneLeavesNothing`, `ShutdownRemovesListed`, `ImplementsQueue` |
| `AppFaults.cfg` | 3 builds, two workers, a container of an earlier run; starts, waits, the pruning, the image and listings may fail | `StartedIsRegistered`, `ImplementsQueue` |
| `AppLiveness.cfg` | 2 builds of one worker, starts, waits and deletions, the image and listings may fail; fairness of the shutdown, and of everything but SIGINT for `AppEnds` | `SigintEnds`, `AppEnds` |
| `AppOrphan.cfg` | 2 builds of 2 projects, nothing fails | violates `AbortLeavesNoneRunning` |
| `DirSafety.cfg` | 3 runs with an attempt each, which may overlap; the info file and up to 2 downloads in any order, all kinds | `DirTypeOK`, `BuiltIsComplete`, `PartialOnlyAfterKill`, `LostOnlyByTry` |
| `DirKilled.cfg` | 2 attempts, one download | violates `AnswerIsSure` |
| `KnownVersions.cfg` | 2 versions of up to 2 builds, one broken version and one broken entry, every upstream | `ListTypeOK`, `NothingMissed`, `OnlyBuildable` |
| `Exchange.cfg` | every method; answers of 3 chunks; logs of up to 3 frames with 0 to 3 bytes of 3 values, cut off anywhere | `ExchangeTypeOK`, `LogIsShown`, `ImplementsCall`, `CallSettles` |
| `ExchangeTar.cfg` | the same, smaller | violates `FailedTarRejects` |
| `Spigot.cfg` | any number of attempts at 3 versions (one named `latest`, one with an equals sign in its name) and never at a broken one; 2 JDKs, class versions without a JDK or unknown; right, incomplete and ambiguous arguments | `SpigotTypeOK`, `ArgsArrive`, `JavaIsThere`, `BuiltIsWhole`, `PartialOnlyAfterKill`, `WholeJarsStay` |
| `SpigotKilled.cfg` | the same | violates `ListedIsWhole` |

Why the bounds are enough. Two builds and an abort are all the parties that
share the list: a third build adds no kind of interleaving, since builds only
touch their own id. `AppFaults.cfg` has a leftover container, in any state, from
the start; a deletion that fails is in `Env.cfg` and `AppLiveness.cfg`.
In the application a chain of two projects, a project with two versions for one
worker (or three versions for two workers) and a project outside the chain are
the least in which a turn, a limit and a shutdown can go wrong together. Three
attempts are one that builds or fails, one that was listed before, and one that
comes after both. Two builds of a version are the least in which one can hide
another. With bytes of three values a frame of three bytes has a size of two
digits, and its payload can look like a header; three frames let the stream
change, and change back. The payloads of the run are three, an empty one among
them, and its `Utf8` and names are chosen so that different pieces give
different texts. `SpigotBuild` has no counter: all its attempts are
reached, however many there are. The theorems do not depend on these bounds.

Symmetry is used in safety runs of the application only, on builds of one
project and on fresh ids. Deadlock is checked in every run: the actions
`EnvFinished`, `AppExited`, `AllOver`, `Listed`, `Over` and `AllListed` are the
states where the code has ended.

What the four violations show:

* `AppOrphan.cfg`: at a SIGINT `abortRunningBuilders` deletes what is listed at
  that moment (`PodmanEnvironment.ts:79`). A build that awaits `createContainer`
  is not listed; while the deletions are awaited it goes on, lists its
  container and starts it. The process exits when the deletions are done, and
  the builder runs on. `main.ts:48` says "aborting running builders...". The
  next run prunes stopped containers only.
* `DirKilled.cfg`: a builder that is killed after its mkdir, for instance while
  it asks for the download, leaves a directory with some files,
  for which `artifactAlreadyInOutputDir` answers true, although
  `ArtifactBuilder.ts:9` says that it answers null where it cannot be sure. No
  later run builds that version again.
* `ExchangeTar.cfg`: `tarDirectory` resolves at the end of tar's output
  (`PodmanApi.ts:296`). The exit code may come after it, and the rejection of
  line 288, "tar exited with exit code", is lost: podman builds the image from
  the archive of a tar that has failed.
* `SpigotKilled.cfg`: `copyFile` writes the jar in place
  (`SpigotArtifactBuilder.ts:274`). A builder that is killed meanwhile leaves a
  truncated jar, of which the listing says that it is there (line 292): no later
  run builds that version again, as above.

`WorkerLimit` and `ChainIsSequential` have a condition: `startContainer` and
`waitOnContainer` do not fail. If one does, `runBuilderInOwnContainer` throws,
the worker takes its next task, and the builder may run on
(`PodmanEnvironment.ts:54-57`). It stays listed, which is
`StartedIsRegistered`.

`BuiltIsComplete` and `PartialOnlyAfterKill` of `ArtifactDirectory` hold as long
as no two builders have raced from the check to the mkdir (`~ raced`): then the
catch of one removes the files of the other, which may have said "Successfully
built artifact". `LostOnlyByTry` is what is left then: without a builder that
failed in its try or was killed, nothing is lost.

`JavaIsThere` has an exception on the host: `provide()` takes any directory
`/tmp/jdk-<version>` for a JDK (`JdkProvider.ts:53`), and an attempt that failed
while it downloaded leaves one without java, into which every later attempt
runs. It says that nothing else goes wrong: in a container, which has a `/tmp`
of its own, the JDK is whole, and everywhere it is the latest the table has for
the version.

`ShutdownRemovesListed` is about the ids that podman no longer knows when a
SIGINT comes: a failed build leaves its id in the list, and a build that ends
meanwhile deletes its container itself. If the deletion of one of these were an
error, `Promise.all` would reject and the program exit while the deletions of
builders that run are still on their way. It holds unless a deletion fails for
a reason of its own.

Some hazards are only bounded. A crash (`main.ts:112`) leaves builders running,
which the queue allows (`GiveUp`); what they may do to the output directory is
`BuiltIsComplete` and `LostOnlyByTry`. That two builders race from the check to
the mkdir is possible; `LostOnlyByTry` says what can be lost by it. That podman
never answers has no remedy in the code but the second SIGINT, and every
liveness property assumes that it does.

### Fairness

* `EnvFairness`: node resumes a continuation whose promise is settled; podman
  answers what it can answer; a builder ends at some time. The code gives
  reason for the first only. No request has a timeout (`HttpUnixSocketClient.ts`)
  and no builder has one, so that the other two are assumptions, and the runs
  show what follows from them.
* `ShutdownFairness`: podman deletes by force what it is asked to, and the
  continuation runs. Nothing is assumed of builders or of the builds: a SIGINT
  ends the program even if no container ever exits by itself. It is the fairness
  of the specification of `AppLiveness.cfg`.
* `AppFairness`: all of the above and every step of the application. Nobody has
  to send a SIGINT, and nothing has to fail. It is the premise of `AppEnds`.
* `Fairness` of `PodmanExchange`: tar ends, podman acts and answers, and node
  delivers what has arrived. Connections need not break. Again the code sets no
  timeout, so that this is an assumption on tar and podman.

## 4. The proofs

| theorem | says | rests on |
|---|---|---|
| `EnvTypeCorrect` | `EnvSpec => []EnvTypeOK` | `TypeStep` |
| `InvCorrect` | `EnvSpec => []EnvInv` | `InvInit`, `InvPodmanAnswers`, `InvContinues`, `InvStep` |
| `StartedIsRegisteredCorrect`, `SuccessMeansExitZeroCorrect`, `AbortStopsRegisteredCorrect`, `ListedUntilGoneCorrect` | the safety properties of `Env.cfg` | `InvCorrect` |
| `AppImplementsEnv` | `AppSpec => EnvSpec` | `AppStepIsEnvStep` |
| `AppStartedIsRegistered`, `AppTypeCorrect` | the same of the application | `AppImplementsEnv` |
| `ShutdownRemovesListedCorrect` | `AppSpec => []ShutdownRemovesListed` | `InvCorrect`, `ShutdownInvStep` |
| `AppInvCorrect` | `AppSpec => []AppInv` | `QuietSteps`, `StartTaskStep`, `ListVersionsStep`, `ProjectDoneStep` |
| `WorkerLimitCorrect`, `ChainIsSequentialCorrect`, `AllDoneLeavesNothingCorrect` | the properties of `AppSafety.cfg` | `AppInvCorrect`, `CallsCorrect`, `RunningIsActive` |
| `ImplementsQueueCorrect` | `AppSpec => Queue!Spec` | `AppInvCorrect`, `QueueStep` |
| `DirInvCorrect` | `DirSpec => []DirInv` | `PlanType`, `DirTypeStep`, `ShareStep`, `AloneStep` |
| `DirTypeCorrect`, `BuiltIsCompleteCorrect`, `PartialOnlyAfterKillCorrect`, `LostOnlyByTryCorrect` | the properties of `DirSafety.cfg` | `DirInvCorrect` |
| `ImplementsCallCorrect` | `Spec => Call!Spec` | `CallInvStep`, `CallStep` |
| `LogDecoded` | any part of any log is decoded to the pieces of what was written | `FrameIsCut`, `DecodeFrame`, `PiecesFront`, `ShownFrame` |
| `ExchangeTypeCorrect`, `LogIsShownCorrect` | `ExchangeTypeOK`, `LogIsShown` | `DecodeDefined`, `LogInvStep`, `LogDecoded` |
| `ListTypeCorrect`, `ListingIsComplete`, `ListingIsBuildable` | the properties of `KnownVersions.cfg` | `ListInvariant`, `ListEntriesIsMap` |
| `SpigotTypeCorrect`, `ArgsArriveCorrect` | `SpigotTypeOK`, `ArgsArrive` | `WordParses`, `LineParses`, `TypeStep`, `ArgsStep` |
| `SpigotInvCorrect` | `Spec => []SpigotInv` | `SameVersion`, `ChosenIsLatest`, `JdkStep`, `JarStep` |
| `JavaIsThereCorrect`, `BuiltIsWholeCorrect`, `SpigotPartialOnlyAfterKill`, `WholeJarsStayCorrect` | the other properties of `Spigot.cfg` | `SpigotInvCorrect` |

They hold for any number of builds, ids, projects, workers, attempts, files,
versions, arguments and chunks, any width of a byte, any log and any decoding of
its payloads. The assumptions are the ASSUMEs of the modules:
leftover containers are ids, the value of an unset `containerId` is not an id,
the versions of the projects are disjoint, a project is in the chain once, the
names of files are none of the other steps of a plan, names and decoded
payloads are texts, a payload is less than half of what the four bytes of a
size can say. The code meets each: the ids are podman's, every
project has a directory of its own, and a buffer of node does not hold 2 GiB of
log.

*Environment.* `StartedIsRegistered` is not inductive: an id could be spliced
away by another build if two builds had the same id, if an id was listed twice,
or if an id was not listed when its build splices (index -1). `EnvInv` adds
what excludes these: `IdsInv` (an id belongs to one build, and podman has seen
it), `ListInv` (no id is listed twice; a build that has an id and has not
spliced it away is listed), `StateInv` (what a `pc` or a promise implies of the
container) and `KillInv` (a deletion that was fulfilled has removed its
container). `SpliceRange` and `SpliceType` say what `splice` does to a list
without duplicates.

*Application.* Each step of the application is a step of the environment or
leaves it alone, so that every invariant of the environment is one of the
application. The limits are on containers, while the code counts tasks:
`NotRunningInv` says that a call which has ended has no container running, so
that what runs is `Active`, and `AppInv` bounds that. `TaskInv` ties the tasks
to the calls and to the state of their project; `ChainInv` says that all
projects of the chain before one that is not waiting are done. `GoneInv` says,
where no call fails by itself, that a call which has ended has removed its
container and that no container lacks its call. With the same invariants each
step is one of `BuildQueue` under the mapping `Queue`, or none.

*Directory.* Without a race, `AloneInv` says that one attempt at most is at
work, that what it has done of its plan is in the directory and complete, that
nobody has built the artifact while an attempt is past its check, and that an
incomplete directory has a culprit: the attempt at work, or a killed one. With
one, `ShareInv` says as long as nobody has failed in its try or was killed
(`Clean`) that every file an attempt has got past is complete or open by
another that is still writing it (`Touched`).

*Exchange.* `CallInv` says that an answer which a method would take comes from
a podman that has acted; for `pull` and `build` it takes the form of the body to
say so.

*Shutdown.* `ShutdownInv` says that no deletion of an abort is rejected unless
deletions may fail by themselves, and that the process is `aborted` only when
the abort has ended; `KillInv` of the environment does the rest.

*Logs.* `LogInv` says that what podman answers for a log is a part of it, and
that a whole answer which is taken was decoded. The rest is about the loop of
`getContainerLogs`, by itself: `LogDecoded`. `DecodeDefined` says that the
recursion is a function, since each of its calls is of fewer bytes.
`SizeBytesDecode` says that the four bytes of a size give it back; with
`EncodedShape` and `LogBegins`, which say where the bytes of the first frame are
in any part of a log, `FrameIsCut` follows: the loop cuts the payload and the
rest where the frame ends, or where the log breaks off, in the payload or in the
header. `ArrivedFront`, `GivenFront` and `PiecesFront` take the first frame off
what has arrived, what is decoded and what ought to be; `ShownFrame` is the step
of the induction on the frames: where the other frames are shown, so is the log.
Nothing is used of `Utf8` and `Name` but that they give texts.

*Listings.* What hides a build is another one: `NoneForgotten` says that a build
which had succeeded is in the Map, or its version is still to be asked for, or
is known to be broken; `SuccessStays` and `ListedSucceeded` that neither the
upstream nor the Map is wrong about it later on. `ResultIsMap` says that the
sort loses nothing: `EntriesCanBeSorted` and `SortedKeepsEntries`, by induction
on the number of entries, say that there is a sorted sequence, and of all of
them.

*Induction.* No prover here can instantiate the induction theorems of the
library, whose claim is an operator. `RecursionLemmas` therefore has the
principle of the least number as a statement on sets, `LeastNatural`: a claim
that failed would have a set of numbers it fails for, and a least one.
`RecursionDefines` and `RecursionUnique` derive from it that a recursion whose
argument gets smaller computes a function, and only one; `FlattenSeqFront` is
what follows of the recursion of the community modules. Quantified facts about
sequences are behind names there (`Joins`, `Cuts`, `Maps`), because the provers
find a lemma by the form of its hypotheses.

*Spigot.* `WordParses` and `BareWordParses` say what becomes of an argument on
the command line, `LineParses` that a line that is not refused is parsed to what
it was made of. So an attempt works at the version it was asked for
(`SameVersion`), and `SpigotInv` can say whose the unfinished JDK and jar are:
`JdkInv` and `JarInv` say that an attempt in a container begins with neither.
`ChosenIsLatest` says what the loop over the class versions finds.

Only model-checked: the liveness properties `EveryRunSettles`, `AbortEnds`,
`SigintEnds`, `AppEnds` and `CallSettles` (fairness and ENABLED are out of the
prover's reach). Every other property of the passing runs is a theorem.

## 5. What is not modelled, and what is next

Left out: texts, logging and paths; the contents of artifacts; the mounts and
labels of a container; the string comparison of versions; the removal of a
directory that itself fails (a file system error other than a missing entry);
frames of 2^31 bytes and more, whose size the code takes for negative (a buffer
of node does not hold one); what yargs makes of words that are bare numbers; the
errors `build()` throws for an argument that is missing or malformed, which come
before it has done anything, like those of the first request.

Spigot attempts overlap as little as one worker allows: a builder that a run
left behind and one of the next run, copying the jar of the same version at the
same time, are left out, as are two persons on the host.

The workspace of the builder command is not modelled: no attempt reads that of
another. After a failure it stays, since `process.exit(1)` (`main.ts:169`) comes
before the `finally`. `ArtifactBuilderRegistry.ts` is a map that is filled once.

What could come next: two Spigot attempts at the same time, as above; that the calls of
`PodmanApi` are those of `PodmanCall`, which acts and settles in two steps where
`PodmanApi` has one.

## 6. Running it

`tlc -config Env.cfg MCPodmanEnvironment` and so on, each under two
minutes with two workers; `tlapm` on `RecursionLemmas.tla` and on each of the
`*Proofs.tla`.
