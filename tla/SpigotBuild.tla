----------------------------- MODULE SpigotBuild -----------------------------
(***************************************************************************)
(* The builder command with SpigotArtifactBuilder and JdkProvider: one     *)
(* attempt at a version after another, in a container of its own or in one *)
(* /tmp on the host, where a person runs the command.  Each may fail at    *)
(* every await and may be killed there.  The project has one worker;       *)
(* attempts that overlap are left out.                                     *)
(***************************************************************************)
EXTENDS BuilderCommand, FiniteSets

CONSTANTS
  Version,      \* the versions the hub has
  Broken,       \* KNOWN_BROKEN_VERSIONS
  JavaVersions, \* the lists of class versions it may give for one
  Requests,     \* the arguments a person may give
  Jdk,          \* CLASS_VERSION_TO_JDK_VERSION, a function of class versions
  Providable    \* the versions in ECLIPSE_TEMURIN_JDKS

NoJdk == 0       \* of a class version the table does not have
DefaultJdk == 8
Latest == <<"latest">>

\* Every word can be typed as an entry: the key is what is before the first
\* equals sign.
ASSUME SpigotAssumption ==
  /\ Version \subseteq Text \ {<<>>} /\ Requests \subseteq Seq(Entry)
  /\ JavaVersions \subseteq Seq(Nat) \ {<<>>}
  /\ Providable \subseteq Nat \ {NoJdk} /\ DefaultJdk \in Providable

VARIABLES
  world,     \* where the command runs
  asked,     \* the arguments of the attempt
  args,      \* what it has parsed of them
  pc,        \* what it awaits
  info,      \* javaVersions of the version, or <<>>
  jdk,       \* the version of the JDK that was chosen
  jdks,      \* the directories jdk-<version> in /tmp
  artifact,  \* artifact.jar in the workspace
  label,     \* what it takes for the version string of the artifact
  jar,       \* the jars in the output directory, by version and label
  ended,     \* how the last attempt at each version ended
  mishaps    \* history: which attempts at which version did not succeed

vars == <<world, asked, args, pc, info, jdk, jdks, artifact, label, jar, ended, mishaps>>

Content == {"none", "partial", "whole"}
Label == {"whole", "cut"}
End == {"built", "failed", "killed"}
Working == {"main", "versionInfo", "tools", "jdk", "buildTools", "version", "copy"}

\* The version an attempt is to build, and the one it takes its arguments for.
Target == LET e == {i \in DOMAIN asked : asked[i].key = <<"version">>}
          IN  IF e = {} THEN <<>> ELSE asked[CHOOSE i \in e : TRUE].value
Current == IF <<"version">> \in DOMAIN args THEN args[<<"version">>] ELSE <<>>

SpigotTypeOK ==
  /\ world \in {"production", "development", "host"}
  /\ pc \in {"idle"} \cup Working
  /\ info \in JavaVersions \cup {<<>>}
  /\ jdks \in [Providable -> Content]
  /\ artifact \in Content /\ label \in Label
  /\ jar \in [Version \X Label -> Content]
  /\ ended \in [Version -> End \cup {"none"}]
  /\ mishaps \subseteq Version \X {"failed", "killed"}
  /\ pc \notin {"idle", "main", "versionInfo"} => Current \in Version
  /\ pc \in {"jdk", "buildTools", "version", "copy"} => jdk \in Providable
  /\ pc \in {"version", "copy"} => artifact = "whole"

Init ==
  /\ world \in {"production", "development", "host"}
  /\ asked = <<>> /\ args = <<>> /\ pc = "idle"
  /\ info = <<>> /\ jdk = NoJdk /\ jdks = [j \in Providable |-> "none"]
  /\ artifact = "none" /\ label = "whole"
  /\ jar = [k \in Version \X Label |-> "none"]
  /\ ended = [v \in Version |-> "none"] /\ mishaps = {}

-----------------------------------------------------------------------------
Go(state) == pc' = state

\* The process ends: with code 0, with code 1, or killed.
Ends(how) ==
  /\ Go("idle")
  /\ ended' = IF Target \in Version THEN [ended EXCEPT ![Target] = how] ELSE ended
  /\ mishaps' = IF Target \in Version /\ how # "built" THEN mishaps \cup {<<Target, how>>} ELSE mishaps
  /\ asked' = <<>> /\ args' = <<>> /\ info' = <<>> /\ jdk' = NoJdk
  /\ artifact' = "none" /\ label' = "whole"
  /\ UNCHANGED world

\* A wrong Listed: it looks for the name the jar ought to have.
ListedByName(v) == v # Latest /\ jar[<<v, "whole">>] # "none"

\* artifactAlreadyInOutputDirBulk answers true: there is a file whose name ends
\* with ` [${version}].jar`.  For latest it answers null, whatever is there.
Listed(v) == v # Latest /\ \E l \in Label : jar[<<v, l>>] # "none"

\* getKnownVersions, but for its order, and the filter of main.ts.
GetKnownVersions == Version \ (Broken \cup {Latest})

\* A container for a version that has no jar yet, with a /tmp of its own; or a
\* person on the host.
Launch ==
  /\ pc = "idle" /\ Go("main")
  /\ IF world = "host"
     THEN asked' \in Requests /\ UNCHANGED jdks
     ELSE /\ \E v \in GetKnownVersions : ~ Listed(v) /\ asked' = <<[key |-> <<"version">>, value |-> v]>>
          /\ jdks' = [j \in Providable |-> "none"]
  /\ UNCHANGED <<world, args, info, jdk, artifact, label, jar, ended, mishaps>>

Line == IF world = "host" THEN Typed(asked) ELSE Command(world = "production", asked)

\* A wrong Main: the help is a success.
MainHelpSucceeds ==
  /\ pc = "main"
  /\ IF Refused(Line) THEN Ends(IF Line.command = "none" THEN "built" ELSE "failed")
     ELSE /\ args' = Parsed(Line) /\ Go("versionInfo")
          /\ UNCHANGED <<world, asked, info, jdk, artifact, label, ended, mishaps>>
  /\ UNCHANGED <<jdks, jar>>

\* The arguments, the workspace, and build() up to its first await.
Main ==
  /\ pc = "main"
  /\ IF Refused(Line) THEN Ends("failed")
     ELSE /\ args' = Parsed(Line) /\ Go("versionInfo")
          /\ UNCHANGED <<world, asked, info, jdk, artifact, label, ended, mishaps>>
  /\ UNCHANGED <<jdks, jar>>

-----------------------------------------------------------------------------
(***************************************************************************)
(* build().  What it awaits may reject, which is Fails.                    *)
(***************************************************************************)
\* The catch of main.ts.  copyFile removes what it has written.
Fails ==
  /\ pc \in Working /\ Ends("failed")
  /\ jar' = IF pc = "copy" THEN [jar EXCEPT ![<<Current, label>>] = "none"] ELSE jar
  /\ UNCHANGED jdks

FetchVersionInfo ==
  /\ pc = "versionInfo" /\ Current \in Version
  /\ info' \in JavaVersions \cup {<<>>} /\ Go("tools")
  /\ UNCHANGED <<world, asked, args, jdk, jdks, artifact, label, jar, ended, mishaps>>

JdkOf(class) == IF class \in DOMAIN Jdk THEN Jdk[class] ELSE NoJdk

\* The last one that can be provided, if there is one.
ChooseJdk ==
  LET i == SelectLastInSeq(info, LAMBDA class : JdkOf(class) \in Providable)
  IN  IF info = <<>> THEN DefaultJdk ELSE JdkOf(IF i = 0 THEN Last(info) ELSE info[i])

\* provide(), up to its first await.  A directory that is there is taken for a
\* JDK; one that is not supported is an error.
DownloadTools ==
  /\ pc = "tools" /\ ChooseJdk \in Providable
  /\ jdk' = ChooseJdk
  /\ IF jdks[jdk'] = "none"
     THEN Go("jdk") /\ jdks' = [jdks EXCEPT ![jdk'] = "partial"]
     ELSE Go("buildTools") /\ UNCHANGED jdks
  /\ UNCHANGED <<world, asked, args, info, artifact, label, jar, ended, mishaps>>

\* A wrong ProvideJdk: the exit code of tar and what it left are not looked at.
ProvideJdkUnchecked ==
  /\ pc = "jdk" /\ Go("buildTools")
  /\ jdks' \in {jdks, [jdks EXCEPT ![jdk] = "whole"]}
  /\ UNCHANGED <<world, asked, args, info, jdk, artifact, label, jar, ended, mishaps>>

\* The archive was downloaded and extracted, and bin/java is there.
ProvideJdk ==
  /\ pc = "jdk" /\ Go("buildTools")
  /\ jdks' = [jdks EXCEPT ![jdk] = "whole"]
  /\ UNCHANGED <<world, asked, args, info, jdk, artifact, label, jar, ended, mishaps>>

\* A wrong RunBuildTools: the exit code is not looked at.
RunBuildToolsAnyCode ==
  /\ pc = "buildTools"
  /\ artifact' \in Content \ {"none"} /\ Go("version")
  /\ UNCHANGED <<world, asked, args, info, jdk, jdks, label, jar, ended, mishaps>>

\* BuildTools exits with 0 and its artifact exists; else it Fails.
RunBuildTools ==
  /\ pc = "buildTools"
  /\ artifact' = "whole" /\ Go("version")
  /\ UNCHANGED <<world, asked, args, info, jdk, jdks, label, jar, ended, mishaps>>

\* A wrong ExtractSpigotVersionString: the copy is not awaited.
ExtractNoAwait ==
  /\ pc = "version" /\ Ends("built")
  /\ \E l \in Label, c \in {"partial", "whole"} : jar' = [jar EXCEPT ![<<Current, l>>] = c]
  /\ UNCHANGED jdks

\* The artifact exits with 0.  What has come of its output by then has the
\* version string in it, if not all of it.  The copy begins.
ExtractSpigotVersionString ==
  /\ pc = "version" /\ Go("copy")
  /\ label' \in Label /\ jar' = [jar EXCEPT ![<<Current, label'>>] = "partial"]
  /\ UNCHANGED <<world, asked, args, info, jdk, jdks, artifact, ended, mishaps>>

\* The artifact is built.  Then the finally removes the workspace, and where it
\* cannot, the process fails for all that.
CopyFile ==
  /\ pc = "copy" /\ \E how \in {"built", "failed"} : Ends(how)
  /\ jar' = [jar EXCEPT ![<<Current, label>>] = artifact]
  /\ UNCHANGED jdks

\* The container is deleted by force, or the process killed.
Kill == pc \in Working /\ Ends("killed") /\ UNCHANGED <<jdks, jar>>

AllListed == pc = "idle" /\ world # "host" /\ (\A v \in GetKnownVersions : Listed(v)) /\ UNCHANGED vars

Next ==
  \/ Launch \/ Main \/ FetchVersionInfo \/ DownloadTools \/ ProvideJdk
  \/ RunBuildTools \/ ExtractSpigotVersionString \/ CopyFile
  \/ Fails \/ Kill
  \/ AllListed

Spec == Init /\ [][Next]_vars

-----------------------------------------------------------------------------
\* What an attempt works with are the arguments it was given, whatever values
\* they have: the first equals sign ends the key, and no key is given twice.
ArgsArrive ==
  pc \in Working \ {"main"} =>
    /\ DOMAIN args = {asked[i].key : i \in DOMAIN asked}
    /\ \A i \in DOMAIN asked : args[asked[i].key] = asked[i].value

\* Java is run from a JDK that the table has for the version, the latest of them.
\* It is whole, but on the host, where /tmp stays and an attempt that did not
\* succeed may have left it unfinished.
JavaIsThere ==
  pc \in {"buildTools", "version", "copy"} =>
    /\ jdks[jdk] = "whole" \/ (jdks[jdk] = "partial" /\ world = "host" /\ mishaps # {})
    /\ IF info = <<>> THEN jdk = DefaultJdk
       ELSE \E i \in DOMAIN info :
              /\ JdkOf(info[i]) = jdk
              /\ \A j \in i + 1 .. Len(info) : JdkOf(info[j]) \notin Providable

\* A version whose last attempt exited with 0, which is what the application
\* takes for built, has a whole jar, and the next listing says that it is there.
\* Of latest a listing never says so.
BuiltIsWhole ==
  \A v \in Version : ended[v] = "built" /\ Target # v =>
    /\ \E l \in Label : jar[<<v, l>>] = "whole"
    /\ v # Latest => Listed(v)

\* "Returns `null` if it cannot be determined for sure" (ArtifactBuilder.ts,
\* line 9): where nobody is at work, a version that the listing says is there
\* has a whole jar.
ListedIsWhole ==
  pc = "idle" => \A v \in Version : Listed(v) => \E l \in Label : jar[<<v, l>>] = "whole"

\* A jar that is not whole, and is not being copied, is one of a version a
\* builder of which was killed, wherever others failed.
PartialOnlyAfterKill ==
  \A v \in Version, l \in Label :
    jar[<<v, l>>] = "partial" /\ ~ (pc = "copy" /\ Current = v /\ label = l) => <<v, "killed">> \in mishaps

\* In containers no attempt touches a jar that is whole, though it may have the
\* name of a version string that was cut off.
WholeJarsStay ==
  [][world # "host" => \A k \in Version \X Label : jar[k] = "whole" => jar'[k] = "whole"]_vars
=============================================================================
