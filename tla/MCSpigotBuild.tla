--------------------------- MODULE MCSpigotBuild ---------------------------
(***************************************************************************)
(* An instance of SpigotBuild for TLC: four versions, one with an equals    *)
(* sign in its name; class versions 52 (Java 8), 61 (17), 67 (23, which no *)
(* JDK is provided for) and 99 (unknown); requests that are right, have no *)
(* version, no value, and a key twice.                                     *)
(***************************************************************************)
EXTENDS SpigotBuild

MCPart == {"=", "version", "remapped", "true", "1", "2", "latest", "3316"}
MCVersion == {<<"1">>, <<"1", "=", "2">>, Latest, <<"3316">>}
MCBroken == {<<"3316">>}
MCJavaVersions == {<<52, 61>>, <<52, 67>>, <<61, 99>>, <<67>>, <<99, 67>>}
MCJdk == 52 :> 8 @@ 61 :> 17 @@ 67 :> 23
MCProvidable == {8, 17}

Arg(k, v) == [key |-> k, value |-> v]
MCRequests ==
  {<<Arg(<<"version">>, Latest)>>, <<Arg(<<"remapped">>, <<>>)>>, <<Arg(<<"version">>, <<>>)>>,
   <<Arg(<<"remapped">>, <<"true">>), Arg(<<"version">>, <<"1", "=", "2">>)>>,
   <<Arg(<<"version">>, <<"1", "=", "2">>), Arg(<<"version">>, Latest)>>}
=============================================================================
