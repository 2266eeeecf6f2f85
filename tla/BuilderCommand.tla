---------------------------- MODULE BuilderCommand ----------------------------
(***************************************************************************)
(* The command line that PodmanEnvironment.ts gives a container, and what  *)
(* the builder command of main.ts makes of it.  A text is a sequence of    *)
(* parts, one of which may be an equals sign.                              *)
(***************************************************************************)
EXTENDS Integers, SequencesExt

CONSTANT Part    \* what texts are made of

ASSUME PartAssumption == {"=", "version"} \subseteq Part

Text == Seq(Part)
Entry == [key : {k \in Text : \A i \in DOMAIN k : k[i] # "="}, value : Text]

\* The words after --builderArg: `${key}=${value}` for every entry of the map.  In
\* production the command has neither 'builder' nor arguments, and the container
\* prints the help.
Command(production, entries) ==
  IF production THEN [command |-> "none", words |-> <<>>]
  ELSE [command |-> "builder",
        words |-> [i \in DOMAIN entries |-> entries[i].key \o <<"=">> \o entries[i].value]]

\* Of the words a person types, one without a value needs no equals sign.  yargs
\* is taken to give them as they are; that it makes a number of a word such as
\* 1e3, and the code a string of that again, is left out.
Typed(entries) ==
  [command |-> "builder",
   words |-> [i \in DOMAIN entries |->
                IF entries[i].value = <<>> THEN entries[i].key
                ELSE entries[i].key \o <<"=">> \o entries[i].value]]

\* A wrong IndexOfEquals: the last one.
LastIndexOfEquals(word) == SelectLastInSeq(word, LAMBDA part : part = "=")

\* The first equals sign, or 0.
IndexOfEquals(word) == SelectInSeq(word, LAMBDA part : part = "=")

Key(word) == IF IndexOfEquals(word) = 0 THEN word ELSE SubSeq(word, 1, IndexOfEquals(word) - 1)
Value(word) == IF IndexOfEquals(word) = 0 THEN <<>> ELSE SubSeq(word, IndexOfEquals(word) + 1, Len(word))

\* A command line the program exits for, with code 1.
Refused(line) ==
  \/ line.command = "none"
  \/ \E i, j \in DOMAIN line.words : i < j /\ Key(line.words[i]) = Key(line.words[j])

\* parsedBuilderArgs.
Parsed(line) ==
  [k \in {Key(line.words[i]) : i \in DOMAIN line.words} |->
     Value(line.words[CHOOSE i \in DOMAIN line.words : Key(line.words[i]) = k])]
=============================================================================
