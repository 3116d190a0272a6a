---------------------------- MODULE Diagnostics ----------------------------
(***************************************************************************)
(* The logs of the agent and the companion, what is written to them and    *)
(* what an export contains.  The directory is a function from file names   *)
(* to [age, lines]; a line is a JSON value, or Broken if it is not one.    *)
(*                                                                         *)
(* A value is a text, a number, a list or an object.  A text is a sequence *)
(* of pieces: the markers, a blank " ", the redaction "*" and others.  A   *)
(* piece may end in a blank, as the markers "cookie: " and "bearer " do.   *)
(***************************************************************************)
EXTENDS Naturals, Sequences, SequencesExt, FiniteSets, Evaluation

CONSTANTS
  Fragments,   \* the pieces of the texts
  Spaced,      \* the pieces, other than a blank, that end in one
  Markers,     \* the markers, in the order of their replacement
  Keys,        \* of the fields of an object
  Sensitive,   \* keys that name a secret
  Numbers,     \* values that are neither texts nor made of others
  Nesting,     \* how many values are inside each other
  Structured,  \* file names the product writes
  Retention,   \* the days a log is kept
  Broken,
  Pruned,      \* a file is gone
  Logs,        \* log directories
  Values,      \* events that are recorded
  Meanwhile    \* what others make of a file: they record events, or prune it

(* The JSON values, by how deep they are *)
Scalars ==
  [kind: {"text"}, text: Seq(Fragments)] \union [kind: {"number"}, number: Numbers]
Compounds(parts) ==
  [kind: {"list"}, items: Seq(parts)]
    \union [kind: {"object"}, fields: Seq([key: Keys, value: parts])]
Levels[d \in 0 .. Nesting] ==
  IF d = 0 THEN Scalars ELSE Scalars \union Compounds(Levels[d - 1])
Json == Levels[Nesting]

ASSUME DiagnosticsAssumption ==
  /\ {" ", "*"} \subseteq Fragments /\ Spaced \subseteq Fragments \ {" ", "*"}
  /\ Markers \in Seq(Fragments \ {" ", "*"})
  /\ Nesting \in Nat /\ Retention \in Nat /\ "agent" \in Structured
  /\ Broken \notin Json /\ \A event \in Values : event \in Json
  /\ \A directory \in Logs : \A name \in DOMAIN directory :
       /\ directory[name].age \in Nat
       /\ directory[name].lines \in Seq(Json \union {Broken})
  /\ \A others \in Meanwhile \ {Pruned} : others \in Seq(Json)

-----------------------------------------------------------------------------
IsSensitiveKey(key) == key \in Sensitive

Redacted == [kind |-> "text", text |-> <<"*">>]

(* The pieces with which a word ends, and what stays of a text from the    *)
(* end of a word on                                                        *)
Ends == {" "} \union Spaced
Rest(text, end) ==
  IF end > Len(text) THEN <<>> ELSE <<" ">> \o SubSeq(text, end + 1, Len(text))

(* One turn for a marker: what stands from it to the next blank is         *)
(* replaced.                                                               *)
RedactNext(state, marker) ==
  LET text  == state.text
      found == {i \in state.cursor .. Len(text) : text[i] = marker}
  IN IF found = {} THEN state
     ELSE LET start == CHOOSE i \in found : \A j \in found : i <= j
              ends  == {i \in start + 1 .. Len(text) : text[i] \in Ends}
              end   == IF ends = {} THEN Len(text) + 1
                       ELSE CHOOSE i \in ends : \A j \in ends : i <= j
          IN [text   |-> (SubSeq(text, 1, start) \o <<"*">>) \o Rest(text, end),
              cursor |-> start + 2]

(* A text has no more markers than pieces. *)
RedactMarker(text, marker) ==
  LET turn[i \in 0 .. Len(text)] ==
        IF i = 0 THEN [text |-> text, cursor |-> 1] ELSE RedactNext(turn[i - 1], marker)
  IN  turn[Len(text)].text

RedactText(text) ==
  LET redact[i \in 0 .. Len(Markers)] ==
        IF i = 0 THEN text ELSE RedactMarker(redact[i - 1], Markers[i])
  IN  redact[Len(Markers)]

(* inside is what sanitizing makes of the values inside one.               *)
(* Mutant: the values of a list are passed over.                           *)
SanitizeObjects(inside, key, value) ==
  IF IsSensitiveKey(key) THEN Redacted
  ELSE CASE value.kind = "text"   -> [value EXCEPT !.text = RedactText(@)]
         [] value.kind = "object" ->
              [value EXCEPT !.fields =
                 [i \in DOMAIN @ |->
                    [key |-> @[i].key, value |-> inside[@[i].key][@[i].value]]]]
         [] OTHER -> value

SanitizePart(inside, key, value) ==
  IF IsSensitiveKey(key) THEN Redacted
  ELSE CASE value.kind = "text"   -> [value EXCEPT !.text = RedactText(@)]
         [] value.kind = "list"   ->
              [value EXCEPT !.items = [i \in DOMAIN @ |-> inside[""][@[i]]]]
         [] value.kind = "object" ->
              [value EXCEPT !.fields =
                 [i \in DOMAIN @ |->
                    [key |-> @[i].key, value |-> inside[@[i].key][@[i].value]]]]
         [] OTHER -> value

SanitizeValue(key, value) ==
  LET sanitize[d \in 0 .. Nesting + 1] ==
        [k \in Keys \union {""} |-> [v \in Json |->
           IF d = 0 THEN v ELSE SanitizePart(sanitize[d - 1], k, v)]]
  IN  sanitize[Nesting + 1][key][value]

-----------------------------------------------------------------------------
IsStructuredLog(name) == name \in Structured

Prune(directory) ==
  [name \in {n \in DOMAIN directory :
               ~(IsStructuredLog(n) /\ directory[n].age > Retention)}
     |-> directory[name]]

(* record: a line is added to the log of the day. *)
Record(directory, name, event) ==
  LET kept  == Prune(directory)
      lines == IF name \in DOMAIN kept THEN kept[name].lines ELSE <<>>
  IN [n \in DOMAIN kept \union {name} |->
        IF n = name
        THEN [age |-> 0, lines |-> Append(lines, SanitizeValue("", event))]
        ELSE kept[n]]

(* The lines that are events *)
Events(lines) ==
  LET kept[i \in 0 .. Len(lines)] ==
        IF i = 0 THEN <<>>
        ELSE IF lines[i] = Broken THEN kept[i - 1] ELSE Append(kept[i - 1], lines[i])
  IN  kept[Len(lines)]

(* preview_directory: the files of an export and how many events they have *)
Preview(directory) ==
  LET kept == Prune(directory) IN
  [n \in {m \in DOMAIN kept : IsStructuredLog(m)} |-> Len(Events(kept[n].lines))]

(* The lines of a file when an export opens it: since the preview, others  *)
(* may have recorded events.                                               *)
Opened(directory, later, name) ==
  directory[name].lines \o [i \in DOMAIN later[name] |-> SanitizeValue("", later[name][i])]

(* export_to: the archive has the manifest and what is in every file of it *)
(* by the time it is opened; there is none if a file is gone by then.      *)
Export(directory, later) ==
  LET manifest == Preview(directory) IN
  IF \E n \in DOMAIN manifest : later[n] = Pruned THEN Failed
  ELSE [manifest |-> manifest,
        logs |-> [n \in DOMAIN manifest |->
                    LET events == Events(Opened(directory, later, n)) IN
                    [i \in DOMAIN events |-> SanitizeValue("", events[i])]]]

(* Only a file that is as old as a log may be can be pruned by others      *)
(* after the preview has kept it.                                          *)
Possible(directory, later) ==
  \A n \in DOMAIN later :
    later[n] = Pruned => n \in DOMAIN directory /\ directory[n].age = Retention

RecordAndExport ==
  work = Idle /\ \E directory \in Logs, event \in Values, later \in [Structured -> Meanwhile] :
    LET recorded == Record(directory, "agent", event) IN
    /\ Possible(recorded, later)
    /\ Evaluate("export", [directory |-> directory, event |-> event, later |-> later],
         Export(recorded, later))

ExportSpec == work = Idle /\ [][RecordAndExport]_work

-----------------------------------------------------------------------------
(* A text in one pass: what follows a marker in a word is hidden.          *)
Read(marker, state, c) ==
  IF state.reads = "secret"
  THEN IF c \in Ends THEN [out |-> Append(state.out, " "), reads |-> "text"] ELSE state
  ELSE IF c = marker
  THEN [out |-> Append(Append(state.out, c), "*"), reads |-> "secret"]
  ELSE [out |-> Append(state.out, c), reads |-> "text"]

HiddenBy(marker, text) ==
  LET read[i \in 0 .. Len(text)] ==
        IF i = 0 THEN [out |-> <<>>, reads |-> "text"]
        ELSE Read(marker, read[i - 1], text[i])
  IN  read[Len(text)].out

Hidden(text) ==
  LET hide[i \in 0 .. Len(Markers)] ==
        IF i = 0 THEN text ELSE HiddenBy(Markers[i], hide[i - 1])
  IN  hide[Len(Markers)]

(* Behind a marker there is nothing but the redaction.                     *)
Guarded(marker, text) ==
  \A i \in 1 .. Len(text) : text[i] = marker =>
    /\ i + 1 <= Len(text) /\ text[i + 1] = "*"
    /\ i + 2 <= Len(text) => text[i + 2] = " "

(* A value before and after, given which of the values inside it are clean *)
CleanPart(inside, key, before, after) ==
  IF IsSensitiveKey(key) THEN after = Redacted
  ELSE /\ after.kind = before.kind
       /\ before.kind = "text" =>
            /\ after.text = Hidden(before.text)
            /\ \A marker \in ToSet(Markers) : Guarded(marker, after.text)
       /\ before.kind = "list" =>
            /\ Len(after.items) = Len(before.items)
            /\ \A i \in DOMAIN before.items : inside[""][before.items[i]][after.items[i]]
       /\ before.kind = "object" =>
            /\ Len(after.fields) = Len(before.fields)
            /\ \A i \in DOMAIN before.fields :
                 LET b == before.fields[i]
                     a == after.fields[i]
                 IN a.key = b.key /\ inside[b.key][b.value][a.value]
       /\ before.kind = "number" => after = before

Clean(key, before, after) ==
  LET clean[d \in 0 .. Nesting + 1] ==
        [k \in Keys \union {""} |-> [b \in Json |-> [a \in Json |->
           d # 0 /\ CleanPart(clean[d - 1], k, b, a)]]]
  IN  clean[Nesting + 1][key][before][after]

(* An export ends with an error if a file of the preview is pruned before  *)
(* it is opened.  Else the archive has every event of the product's logs   *)
(* that are not too old, whoever wrote it and also while the export runs,  *)
(* without what is behind a marker or under a sensitive key, at any depth, *)
(* and is otherwise complete; nothing else is in it, and its manifest      *)
(* counts the events there were at the preview.                            *)
RedactionComplete ==
  work.task = "export" =>
    LET directory == work.input.directory
        later     == work.input.later
        recent == {n \in DOMAIN directory \intersect Structured :
                     directory[n].age <= Retention}
        names  == recent \union {"agent"}
        Old(n) == IF n \in recent THEN Events(directory[n].lines) ELSE <<>>
        Before(n) == IF n = "agent" THEN Append(Old(n), work.input.event) ELSE Old(n)
        All(n) == Before(n) \o later[n]
    IN IF \E n \in names : later[n] = Pruned THEN work.output = Failed
       ELSE /\ work.output.manifest = [n \in names |-> Len(Before(n))]
            /\ DOMAIN work.output.logs = names
            /\ \A n \in names :
                 /\ Len(work.output.logs[n]) = Len(All(n))
                 /\ \A i \in DOMAIN All(n) : Clean("", All(n)[i], work.output.logs[n][i])
=============================================================================
