---------------------------- MODULE ManualHosts ----------------------------
(***************************************************************************)
(* The hosts the user has declared by hand, in the SSH configuration and   *)
(* the files it includes.                                                  *)
(*                                                                         *)
(* A file is a sequence of lines, each with the patterns of a Host line,   *)
(* one file that an Include line stands for, or what cannot be a pattern   *)
(* of an Include line; links are the other names of the managed file, and  *)
(* files that exist may be unreadable.                                     *)
(***************************************************************************)
EXTENDS Naturals, Sequences, SequencesExt, FiniteSets, Evaluation

CONSTANTS
  Paths,     \* of the files that may be read
  Patterns,  \* of the Host lines
  Trees      \* SSH configuration files and what they include

Literal(pattern) == pattern \notin {"*", "!x"}
LowerHost(host)  == IF host = "X" THEN "x" ELSE host

ConfigurationLines ==
  [kind: {"host"}, patterns: SUBSET Patterns] \union [kind: {"include"}, file: Paths]
    \union [kind: {"invalid"}]

ASSUME TreeAssumption ==
  /\ IsFiniteSet(Paths) /\ "root" \in Paths
  /\ \A tree \in Trees : /\ tree.links \subseteq Paths /\ DOMAIN tree.files \subseteq Paths
                         /\ tree.unreadable \subseteq DOMAIN tree.files
                         /\ \A f \in DOMAIN tree.files : tree.files[f] \in Seq(ConfigurationLines)

(* What a search has found, the files it has visited, and whether it has   *)
(* come upon what it cannot read                                           *)
Searches ==
  [visited: SUBSET Paths, aliases: SUBSET {LowerHost(p) : p \in Patterns},
   failed: BOOLEAN]

(* Mutant: the managed file is known by its own name only. *)
SamePathByName(tree, file) == file = "managed"

SamePath(tree, file) == file \in {"managed"} \union tree.links

(* search is what a search from a file on makes of what was found before.  *)
(* Nothing is read after an error.                                         *)
ReadLine(search, found, line) ==
  IF found.failed THEN found
  ELSE CASE line.kind = "host" ->
         [found EXCEPT !.aliases =
            @ \union {LowerHost(p) : p \in {q \in line.patterns : Literal(q)}}]
         [] line.kind = "include" -> search[line.file][found]
         [] OTHER -> [found EXCEPT !.failed = TRUE]

ReadLines(search, found, lines) ==
  LET read[i \in 0 .. Len(lines)] ==
        IF i = 0 THEN found ELSE ReadLine(search, read[i - 1], lines[i])
  IN  read[Len(lines)]

(* A file that does not exist has no hosts; one that cannot be read ends   *)
(* the search.                                                             *)
ReadFile(tree, search, file, found) ==
  IF SamePath(tree, file) \/ file \in found.visited THEN found
  ELSE LET start == [found EXCEPT !.visited = @ \union {file}] IN
       CASE file \notin DOMAIN tree.files -> start
         [] file \in tree.unreadable      -> [start EXCEPT !.failed = TRUE]
         [] OTHER                         -> ReadLines(search, start, tree.files[file])

(* No more calls are nested than there are files, and one that returns at  *)
(* once.                                                                   *)
CollectAliases(tree) ==
  LET collect[depth \in 0 .. Cardinality(Paths) + 1] ==
        [file \in Paths |-> [found \in Searches |->
           IF depth = 0 THEN found ELSE ReadFile(tree, collect[depth - 1], file, found)]]
  IN  collect[Cardinality(Paths) + 1]

ManualHostAliases(tree) ==
  LET found == CollectAliases(tree)["root"][[visited |-> {}, aliases |-> {}, failed |-> FALSE]]
  IN  IF found.failed THEN Failed ELSE found.aliases

FindHosts ==
  work = Idle /\ \E tree \in Trees : Evaluate("hosts", tree, ManualHostAliases(tree))

HostSpec == work = Idle /\ [][FindHosts]_work

-----------------------------------------------------------------------------
(* The files that are the user's own, and those of them that are reached   *)
(* through includes                                                        *)
UserFiles(tree)  == DOMAIN tree.files \ ({"managed"} \union tree.links)
Included(tree, file) ==
  {g \in UserFiles(tree) :
     \E line \in ToSet(tree.files[file]) : line.kind = "include" /\ line.file = g}
Closed(tree, S)  == \A file \in S : Included(tree, file) \subseteq S
Reached(tree) ==
  {g \in UserFiles(tree) :
     \A S \in SUBSET UserFiles(tree) :
       {"root"} \intersect UserFiles(tree) \subseteq S /\ Closed(tree, S) => g \in S}

Declared(tree, S) ==
  {LowerHost(p) : p \in
     {q \in Patterns :
        /\ Literal(q)
        /\ \E file \in S : \E line \in ToSet(tree.files[file]) :
             line.kind = "host" /\ q \in line.patterns}}

(* A file with which a search ends *)
Bars(tree, file) ==
  file \in tree.unreadable \/ \E line \in ToSet(tree.files[file]) : line.kind = "invalid"

(* The hosts declared by hand are those of all the files reached through   *)
(* includes, once each, and none of the managed file's own, under whatever *)
(* name it is included: else a synchronization would take its own aliases  *)
(* for the user's and leave them out the next time.  There is an error if  *)
(* one of these files cannot be read to its end, and only then.            *)
ManualHostsFound ==
  work.task = "hosts" =>
    LET reached == Reached(work.input) IN
    work.output = IF \E file \in reached : Bars(work.input, file) THEN Failed
                  ELSE Declared(work.input, reached)
=============================================================================
