-------------------------- MODULE MCPodmanExchange --------------------------
(***************************************************************************)
(* Instances of PodmanExchange for TLC: logs of up to MaxFrames frames, of *)
(* sizes that take one byte or two, and an encoding in small.  Byte 0 is a *)
(* character of its own; 1 begins one of two bytes, whose second is 2; all *)
(* else becomes "?", as U+FFFD does.  A payload can say a stream's name.   *)
(***************************************************************************)
EXTENDS PodmanExchange

CONSTANT MaxFrames

MCChar == {"o", "e", "?"}
MCName == <<<<"o">>, <<"e">>>>
MCUtf8(s) ==
  LET Whole(i) == i \in DOMAIN s /\ i + 1 \in DOMAIN s /\ s[i] = 1 /\ s[i + 1] = 2
  IN  FlattenSeq([i \in DOMAIN s |->
        IF s[i] = 0 THEN <<"o">>
        ELSE IF Whole(i) THEN <<"e">>
        ELSE IF Whole(i - 1) THEN <<>>
        ELSE <<"?">>])

\* No text, the first byte of a character, and its second before a whole one.
MCText == {<<>>, <<1>>, <<2, 1, 2>>}
MCFrames == UNION {[1 .. n -> [stream : Stream, text : MCText]] : n \in 0 .. MaxFrames}
=============================================================================
