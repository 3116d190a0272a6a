----------------------------- MODULE HostFiles -----------------------------
(***************************************************************************)
(* The files of the user that the product edits or reads: the SSH          *)
(* configuration, which includes the managed file, and the startup file of *)
(* the shell.                                                              *)
(*                                                                         *)
(* A text is a sequence of pieces: "I" is the Include directive, "S" and   *)
(* "E" the markers of the block in the startup file and "B" what stands    *)
(* between them, "N" the end of a line, " " a blank, "x" anything else.    *)
(***************************************************************************)
EXTENDS Naturals, Sequences, SequencesExt, FiniteSets, Evaluation

CONSTANTS
  Pieces,    \* of the texts
  Texts,     \* contents of the user's SSH configuration
  Startups,  \* contents of the user's startup file
  Refused    \* no change, the markers are ambiguous

Positions(text, piece) == {i \in DOMAIN text : text[i] = piece}
EndsWith(text, piece)  == text # <<>> /\ Last(text) = piece

(* split_inclusive: every line with the end it has *)
AddPiece(lines, c) ==
  IF lines = <<>> \/ EndsWith(Last(lines), "N") THEN Append(lines, <<c>>)
  ELSE Append(Front(lines), Append(Last(lines), c))

Lines(text) ==
  LET lines[i \in 0 .. Len(text)] ==
        IF i = 0 THEN <<>> ELSE AddPiece(lines[i - 1], text[i])
  IN  lines[Len(text)]

(* What trimming leaves of a line decides what kind of line it is. *)
Content(line)     == {i \in DOMAIN line : line[i] \notin {" ", "N"}}
IsDirective(line) == \E i \in DOMAIN line : line[i] = "I" /\ Content(line) = {i}
Kind(line) ==
  CASE IsDirective(line)    -> "directive"
    [] Content(line) = {}   -> "blank"
    [] OTHER                -> "other"

HasDirective(text) == \E i \in DOMAIN Lines(text) : IsDirective(Lines(text)[i])

(* The lines that are of none of the kinds *)
Without(lines, kinds) ==
  LET kept[i \in 0 .. Len(lines)] ==
        IF i = 0 THEN <<>>
        ELSE IF Kind(lines[i]) \in kinds THEN kept[i - 1]
        ELSE Append(kept[i - 1], lines[i])
  IN  kept[Len(lines)]

EnsureManagedInclude(text) ==
  IF HasDirective(text) THEN text
  ELSE IF text = <<>> THEN <<"I", "N">>
  ELSE <<"I", "N", "N">> \o text

(* Mutant: the empty line that was added stays. *)
RemoveManagedIncludeLine(text) ==
  FlattenSeq(Without(Lines(text), {"directive"}))

(* A file that is the directive alone becomes empty either way. *)
RemoveManagedInclude(text) ==
  IF IsPrefix(<<"I", "N", "N">>, text) THEN SubSeq(text, 4, Len(text))
  ELSE FlattenSeq(Without(Lines(text), {"directive"}))

-----------------------------------------------------------------------------
(* edit_startup *)
Block == <<"S", "N", "B", "N", "E", "N">>

IsBlock(text, s, e) ==
  /\ s < e
  /\ s = 1 \/ text[s - 1] = "N"
  /\ text[s + 1] = "N"
  /\ text[e - 1] = "N"
  /\ e = Len(text) \/ text[e + 1] = "N"

WithoutBlock(text) ==
  LET starts == Positions(text, "S")
      ends   == Positions(text, "E")
      s == CHOOSE i \in starts : TRUE
      e == CHOOSE i \in ends : TRUE
  IN IF starts = {} /\ ends = {} THEN text
     ELSE IF Cardinality(starts) = 1 /\ Cardinality(ends) = 1 /\ IsBlock(text, s, e)
     THEN SubSeq(text, 1, s - 1) \o SubSeq(text, e + 2, Len(text))
     ELSE Refused

Terminated(text) ==
  IF text = <<>> \/ EndsWith(text, "N") THEN text ELSE Append(text, "N")

(* Mutant: the block is appended to what is there. *)
EditStartupTwice(text, install) ==
  IF WithoutBlock(text) = Refused THEN Refused
  ELSE IF install THEN Terminated(text) \o Block ELSE WithoutBlock(text)

EditStartup(text, install) ==
  IF WithoutBlock(text) = Refused THEN Refused
  ELSE IF install THEN Terminated(WithoutBlock(text)) \o Block
  ELSE WithoutBlock(text)

-----------------------------------------------------------------------------
(* install_managed_include, then uninstall_managed_include *)
EditInclude ==
  work = Idle /\ \E text \in Texts :
    Evaluate("include", text,
      [ensured |-> EnsureManagedInclude(text),
       removed |-> RemoveManagedInclude(EnsureManagedInclude(text))])

(* shell install, once more, and shell uninstall *)
EditShell ==
  work = Idle /\ \E text \in Startups :
    LET installed == EditStartup(text, TRUE) IN
    Evaluate("shell", text,
      [installed |-> installed,
       again   |-> IF installed = Refused THEN Refused ELSE EditStartup(installed, TRUE),
       removed |-> IF installed = Refused THEN Refused ELSE EditStartup(installed, FALSE)])

IncludeSpec == work = Idle /\ [][EditInclude]_work
ShellSpec   == work = Idle /\ [][EditShell]_work

ASSUME PieceAssumption ==
  /\ {"I", "S", "E", "B", "N", " "} \subseteq Pieces
  /\ Texts \union Startups \subseteq Seq(Pieces)
  /\ Refused \notin Seq(Pieces)

-----------------------------------------------------------------------------
Others(text) == Without(Lines(text), {"directive", "blank"})

(* Taking the directive out gives back the file it was put into, putting   *)
(* it in twice is putting it in once, and no line of the user's is lost or *)
(* moved.                                                                  *)
IncludeRestored ==
  work.task = "include" =>
    LET text == work.input
        ensured == work.output.ensured
    IN /\ IsDirective(Lines(ensured)[1]) \/ ensured = text
       /\ EnsureManagedInclude(ensured) = ensured /\ HasDirective(ensured)
       /\ ~HasDirective(text) => work.output.removed = text
       /\ Others(ensured) = Others(text) /\ Others(work.output.removed) = Others(text)

-----------------------------------------------------------------------------
(* A text has no markers, or they are two whole lines in their order.      *)
Marked(lines) == {i \in DOMAIN lines : ToSet(lines[i]) \intersect {"S", "E"} # {}}

Pairs(lines) ==
  {p \in (DOMAIN lines) \X (DOMAIN lines) :
     /\ p[1] < p[2] /\ Marked(lines) = {p[1], p[2]}
     /\ lines[p[1]] = <<"S", "N">> /\ lines[p[2]] \in {<<"E", "N">>, <<"E">>}}

UserText(text) ==
  LET lines == Lines(text)
      pair  == CHOOSE p \in Pairs(lines) : TRUE
  IN IF Marked(lines) = {} THEN text
     ELSE IF Pairs(lines) = {} THEN Refused
     ELSE FlattenSeq(SubSeq(lines, 1, pair[1] - 1)
                       \o SubSeq(lines, pair[2] + 1, Len(lines)))

(* The startup file has at most one block, which uninstalling takes out    *)
(* whatever the file was, and nothing is changed unless the block can be   *)
(* told from what the user has written.                                    *)
ShellRestored ==
  work.task = "shell" =>
    LET own == UserText(work.input) IN
    IF own = Refused THEN work.output.installed = Refused
    ELSE LET restored == Terminated(own) IN
         work.output = [installed |-> restored \o Block,
                        again |-> restored \o Block, removed |-> restored]
=============================================================================
