---------------------------- MODULE CommandLine ----------------------------
(***************************************************************************)
(* How the command reads its arguments and hands them on to ssh.  A word   *)
(* is a sequence of characters.                                            *)
(***************************************************************************)
EXTENDS Naturals, Sequences, SequencesExt, FiniteSets, Evaluation

CONSTANTS
  Characters,    \* of words and names
  Reserved,      \* words that are commands of the program
  Valued,        \* letters of the ssh options that need a value
  ArgumentLists  \* arguments after the separator

(* No command of the program has a dot in its name. *)
ASSUME ReservedAssumption == \A word \in Reserved : "." \notin ToSet(word)

Separator      == <<"-", "-">>
IsOption(word) == word # <<>> /\ word[1] = "-" /\ word # <<"-">>

(* parse, for a first word that is not a flag of the program itself *)
Meaning(word) ==
  CASE word \in Reserved               -> "management"
    [] word # <<>> /\ word[1] = "-"    -> "error"
    [] OTHER                           -> "connect"

(* The words after an alias are for ssh and stand behind a separator. *)
Parse(words) ==
  LET rest == Tail(words) IN
  IF Meaning(words[1]) # "connect" THEN [kind |-> Meaning(words[1])]
  ELSE IF rest # <<>> /\ rest[1] # Separator THEN [kind |-> "error"]
  ELSE [kind |-> "connect", alias |-> words[1],
        ssh |-> IF rest = <<>> THEN <<>> ELSE Tail(rest)]

OptionRequiresSeparateValue(word) == Len(word) = 2 /\ word[2] \in Valued

(* openssh_destination_index: the loop stops at the separator and at the  *)
(* first other word; there are no more turns than arguments.               *)
Stops(words, i) ==
  i >= Len(words) \/ words[i + 1] = Separator \/ ~IsOption(words[i + 1])

NextIndex(arguments, i) ==
  IF Stops(arguments, i) THEN i
  ELSE IF OptionRequiresSeparateValue(arguments[i + 1]) /\ i + 1 < Len(arguments)
       THEN i + 2 ELSE i + 1

LoopIndex(arguments) ==
  LET index[turn \in 0 .. Len(arguments)] ==
        IF turn = 0 THEN 0 ELSE NextIndex(arguments, index[turn - 1])
  IN  index[Len(arguments)]

PastSeparator(words, i) ==
  IF i < Len(words) /\ words[i + 1] = Separator THEN i + 1 ELSE i

OpensshDestinationIndex(arguments) == PastSeparator(arguments, LoopIndex(arguments))

InsertAfter(arguments, i, word) ==
  SubSeq(arguments, 1, i) \o <<word>> \o SubSeq(arguments, i + 1, Len(arguments))

(* Mutant: the alias goes before the separator. *)
OpensshArgumentsBefore(alias, arguments) ==
  LET i == OpensshDestinationIndex(arguments)
      separated == i > 0 /\ arguments[i] = Separator
  IN  InsertAfter(arguments, IF separated THEN i - 1 ELSE i, alias)

OpensshArguments(alias, arguments) ==
  InsertAfter(arguments, OpensshDestinationIndex(arguments), alias)

-----------------------------------------------------------------------------
(* What `warpgatesh shell aliases` offers as a command of the shell *)
ValidAlias(alias, first, rest) ==
  /\ alias # <<>> /\ alias[1] \in first
  /\ Parse(<<alias>>).kind = "connect"
  /\ ToSet(alias) \subseteq first \union rest

-----------------------------------------------------------------------------
(* execute_ssh: the arguments that follow an alias are placed around it.   *)
Connect ==
  work = Idle /\ \E arguments \in ArgumentLists :
    Evaluate("connect", arguments, OpensshArguments(<<"h">>, arguments))

ConnectSpec == work = Idle /\ [][Connect]_work

ASSUME ArgumentsAssumption ==
  \A arguments \in ArgumentLists : arguments \in Seq(Seq(Characters))

(* What ssh makes of its arguments: options up to the separator or the     *)
(* first other word, in clusters, with a value in the same word or in the  *)
(* next one; then the destination, and the command.                        *)
Wants(word) ==
  /\ \E i \in 2 .. Len(word) : word[i] \in Valued
  /\ \A i \in 2 .. Len(word) : word[i] \in Valued => i = Len(word)

NextRead(words, i) ==
  IF Stops(words, i) THEN i ELSE IF Wants(words[i + 1]) THEN i + 2 ELSE i + 1

ReadIndex(words) ==
  LET index[turn \in 0 .. Len(words)] ==
        IF turn = 0 THEN 0 ELSE NextRead(words, index[turn - 1])
  IN  index[Len(words)]

Skipped(words) == PastSeparator(words, ReadIndex(words))

Clustered(word) == IsOption(word) /\ Wants(word) /\ Len(word) > 2

(* placed is the words given and, behind the first i of them, the alias.   *)
PlacedBehind(i, given, placed) ==
  /\ SubSeq(placed, 1, i) = SubSeq(given, 1, i)
  /\ placed[i + 1] = <<"h">>
  /\ SubSeq(placed, i + 2, Len(placed)) = SubSeq(given, i + 1, Len(given))

(* Whatever the arguments are, none is lost or changed and they keep their *)
(* order around the alias.  If the options ssh finds in them are complete, *)
(* and none is a cluster that asks for its value in the next word, the     *)
(* alias is what ssh takes for the destination, behind the options and in  *)
(* front of the command.                                                   *)
ArgumentsPlaced ==
  work.task = "connect" =>
    LET given  == work.input
        placed == work.output
        taken  == Skipped(given)
    IN /\ \E i \in 0 .. Len(given) : PlacedBehind(i, given, placed)
       /\ taken <= Len(given) /\ (\A i \in 1 .. taken : ~Clustered(given[i]))
          => Skipped(placed) = taken /\ PlacedBehind(taken, given, placed)
=============================================================================
