------------------------- MODULE ServiceSetupProofs -------------------------
(***************************************************************************)
(* The safety of ServiceSetup, proved for every set of callers, of traces  *)
(* that profiles left, and of machines, and without its bounds mattering.  *)
(***************************************************************************)
EXTENDS ServiceSetup, TLAPS

(* What brings a call to each of its stations. *)
Reaches(c, pcs, tasks) == call[c].pc \in pcs => call[c].task \in tasks
StationInv(c) ==
  /\ Reaches(c, {"idle", "ok"}, {"none"})
  /\ Reaches(c, {"reach"}, {"sync", "paste"})
  /\ Reaches(c, {"compare", "list", "probe", "bootout", "bootstrap", "version"},
                {"install", "enable", "sync", "paste", "initialize"})
  /\ Reaches(c, {"kickstart"}, {"enable", "initialize"})
  /\ Reaches(c, {"associate", "rewrite"}, {"login", "initialize"})
  /\ Reaches(c, {"registered", "settle"}, {"initialize"})
  /\ Reaches(c, {"decide"}, {"enable", "defer", "initialize"})
  /\ Reaches(c, {"probeOut", "unload", "unlist"}, {"remove", "defer", "keep", "erase"})
  /\ Reaches(c, {"detect", "symlink", "verify"}, {"link"})
  /\ Reaches(c, {"login"}, {"login"})
  /\ Reaches(c, {"logout", "removeLogin"}, {"logout", "keep", "erase"})
  /\ Reaches(c, {"unlink", "removeLink", "trash"}, {"keep", "erase"})
  /\ Reaches(c, {"names", "secret", "clear", "uncache", "include", "support"}, {"erase"})
  /\ Reaches(c, {"send"}, {"sync", "login", "logout", "enroll", "paste"})
  /\ Reaches(c, {"journal", "cache"}, {"enroll"})
  /\ Reaches(c, {"token", "catalog"}, {"enroll", "paste"})
  /\ Reaches(c, {"record", "forget"}, {"paste"})
  /\ Is(c, {"paste"}) => ~call[c].found

(* A call that nothing overlapped finds what it has done itself. *)
AloneInv(c) ==
  call[c].alone =>
    /\ \A d \in Callers \ {c} : ~Active(d)
    /\ Is(c, {"enable"}) /\ call[c].pc \in {"version", "kickstart", "decide"} =>
         loaded # None
    /\ Is(c, {"initialize"}) /\ call[c].pc \in {"compare", "list"} => plist # None
    /\ Is(c, {"keep", "erase"}) /\ ~(call[c].pc \in {"logout", "removeLogin"}) =>
         login = "none"
    /\ Is(c, {"keep", "erase"}) /\ At(c, "unlist") => loaded = None
    /\ Is(c, {"keep", "erase"})
         /\ ~(call[c].pc \in {"logout", "removeLogin", "probeOut", "unload", "unlist"}) =>
         loaded = None /\ plist = None
    /\ Is(c, {"keep", "erase"})
         /\ ~(call[c].pc \in {"logout", "removeLogin", "probeOut", "unload", "unlist",
                              "unlink", "removeLink"}) =>
         link # "managed"
    /\ Is(c, {"erase"}) /\ call[c].pc \in {"support", "trash"} => ~store.include
    /\ Is(c, {"erase"}) /\ At(c, "trash") =>
         store.catalog = {} /\ store.cache = {} /\ decision = None

(* The secrets of profiles, and the calls that look for them *)
Secrets == store.tokens \union store.journal
Eraser(c) == Is(c, {"erase"})
Rest(c) == call[c].names \ {Least(call[c].names)}

(* A secret is known by the catalog, the cache or as a stray, or belongs   *)
(* to a change that is still going on.                                     *)
CoverInv ==
  \A n \in Secrets :
    \/ n \in store.catalog \union store.cache \union store.stray
    \/ \E c \in Callers : Writing(c) /\ n \in call[c].names
(* What a change writes while an uninstallation goes on is a stray: one of *)
(* the two met the other.                                                  *)
MetInv ==
  \A c, d \in Callers :
    Eraser(c) /\ Is(d, {"paste", "enroll"}) => call[d].names \subseteq store.stray
(* A pasted profile that fails later is in the catalog until it is taken   *)
(* out, or was met by an uninstallation.                                   *)
ListedInv(c) ==
  /\ call[c].pc \in {"record", "forget"} =>
       call[c].names \subseteq store.catalog \union store.stray
(* An uninstallation has the names of all secrets but strays, and removes  *)
(* them one by one, of each the token before its journal entry.            *)
EraseInv(c) ==
  /\ At(c, "secret") => Secrets \subseteq store.stray \union call[c].names
  /\ At(c, "clear") =>
       /\ store.journal \subseteq store.stray \union call[c].names
       /\ store.tokens \subseteq store.stray \union Rest(c)
  /\ At(c, "uncache") => Secrets \subseteq store.stray \union Rest(c)
  /\ call[c].pc \in {"include", "support", "trash"} /\ Eraser(c) =>
       Secrets \subseteq store.stray

SetupInv ==
  /\ SetupTypeOK /\ CoverInv /\ MetInv
  /\ \A c \in Callers : StationInv(c) /\ AloneInv(c) /\ ListedInv(c) /\ EraseInv(c)

-----------------------------------------------------------------------------
(* How a call moves *)

Same(c) ==
  /\ call' \in [Callers -> Call]
  /\ \A d \in Callers \ {c} : call'[d] = call[d]

(* It goes on with what it knows ... *)
Goes(c, pc) ==
  /\ Same(c)
  /\ call'[c].pc = pc
  /\ call'[c].task = call[c].task /\ call'[c].names = call[c].names
  /\ call'[c].alone = call[c].alone
  /\ Is(c, {"paste"}) => call'[c].found = call[c].found

(* ... or ends. *)
Ends(c, pc) ==
  /\ Same(c)
  /\ call'[c].pc = pc /\ call'[c].task = "none" /\ call'[c].names = {}
  /\ ~call'[c].alone /\ ~call'[c].found

LEMMA GoGoes ==
  ASSUME call \in [Callers -> Call], NEW c \in Callers, NEW pc \in Stations, Go(c, pc)
  PROVE  Goes(c, pc)
  <1>1. call[c] \in Call
    OBVIOUS
  <1>2. [call[c] EXCEPT !.pc = pc] \in Call
    BY <1>1 DEF Call
  <1>3. call' = [call EXCEPT ![c] = [call[c] EXCEPT !.pc = pc]]
    BY DEF Go
  <1>4. call'[c] = [call[c] EXCEPT !.pc = pc]
    BY <1>3
  <1> QED
    BY <1>1, <1>2, <1>3, <1>4 DEF Goes, Same, Call

LEMMA LookGoes ==
  ASSUME call \in [Callers -> Call], NEW c \in Callers, NEW pc \in Stations, Look(c, pc)
  PROVE  Goes(c, pc) /\ ~call'[c].overtaken
  <1>1. call[c] \in Call
    OBVIOUS
  <1>2. [call[c] EXCEPT !.pc = pc, !.overtaken = FALSE] \in Call
    BY <1>1 DEF Call
  <1>3. call' = [call EXCEPT ![c] = [call[c] EXCEPT !.pc = pc, !.overtaken = FALSE]]
    BY DEF Look
  <1>4. call'[c] = [call[c] EXCEPT !.pc = pc, !.overtaken = FALSE]
    BY <1>3
  <1> QED
    BY <1>1, <1>2, <1>3, <1>4 DEF Goes, Same, Call

LEMMA IdleIs ==
  /\ Idle \in Call /\ [Idle EXCEPT !.pc = "ok"] \in Call
  /\ Idle.pc = "idle" /\ [Idle EXCEPT !.pc = "ok"].pc = "ok"
  /\ \A t \in {Idle, [Idle EXCEPT !.pc = "ok"]} :
       t.task = "none" /\ t.names = {} /\ ~t.alone /\ ~t.found
  <1>1. /\ Idle \in Call /\ Idle.pc = "idle" /\ Idle.task = "none" /\ Idle.names = {}
        /\ ~Idle.alone /\ ~Idle.found
    BY DEF Idle, Call, Stations
  <1>2. "ok" \in Stations
    BY DEF Stations
  <1>3. ASSUME NEW t \in Call
        PROVE  /\ [t EXCEPT !.pc = "ok"] \in Call /\ [t EXCEPT !.pc = "ok"].pc = "ok"
               /\ [t EXCEPT !.pc = "ok"].task = t.task
               /\ [t EXCEPT !.pc = "ok"].names = t.names
               /\ [t EXCEPT !.pc = "ok"].alone = t.alone
               /\ [t EXCEPT !.pc = "ok"].found = t.found
    BY <1>2 DEF Call
  <1> QED
    BY <1>1, <1>3

LEMMA CallEnds ==
  ASSUME call \in [Callers -> Call], NEW c \in Callers
  PROVE  /\ Succeed(c) => Ends(c, "ok")
         /\ Refuse(c) => Ends(c, "idle")
  BY IdleIs DEF Succeed, Refuse, Ends, Same

(* A call that has ended fulfils what is said of calls. *)
LEMMA EndedKeeps ==
  ASSUME NEW c \in Callers, NEW pc \in {"idle", "ok"}, Ends(c, pc)
  PROVE  StationInv(c)' /\ AloneInv(c)' /\ ListedInv(c)' /\ EraseInv(c)'
  BY DEF Ends, StationInv, Reaches, AloneInv, ListedInv, EraseInv, Eraser, At, Is

(* What is said of a call that does not move. *)
LEMMA UnmovedStation ==
  ASSUME NEW d \in Callers, StationInv(d), call'[d] = call[d]
  PROVE  StationInv(d)'
  BY DEF StationInv, Reaches, At, Is

(* Only an active call moves by itself, and nobody is alone beside it. *)
LEMMA NobodyAlone ==
  ASSUME NEW c \in Callers, Active(c), NEW d \in Callers \ {c}, AloneInv(d)
  PROVE  ~call[d].alone
  BY DEF AloneInv

LEMMA UnmovedAlone ==
  ASSUME NEW d \in Callers, ~call[d].alone, call'[d] = call[d]
  PROVE  AloneInv(d)'
  BY DEF AloneInv

-----------------------------------------------------------------------------
(* The registration of the agent *)

(* A step of a call that leaves the profiles alone. *)
Steps(c, from, to, end) ==
  /\ At(c, from) /\ UNCHANGED <<command, app, store, spent>>
  /\ (\E pc \in to : Goes(c, pc)) \/ (\E pc \in end : Ends(c, pc))

LEMMA EnsureSteps ==
  ASSUME SetupTypeOK, NEW c \in Callers, StationInv(c), AloneInv(c), EnsureStep(c)
  PROVE  /\ StationInv(c)' /\ AloneInv(c)'
         /\ plist' \in Programs \union {None} /\ loaded' \in Programs \union {None}
         /\ current' \in BOOLEAN /\ UNCHANGED setup
         /\ \E from \in {"reach", "compare", "list", "probe", "bootout", "bootstrap",
                          "version", "kickstart"} :
              Steps(c, from, {"send", "compare", "list", "probe", "version", "bootout",
                              "bootstrap", "settle", "decide", "kickstart"}, {"idle", "ok"})
  <1> DEFINE tos == {"send", "compare", "list", "probe", "version", "bootout", "bootstrap",
                     "settle", "decide", "kickstart"}
  <1> USE DEF service, setup
  <1>1. call \in [Callers -> Call] /\ call[c] \in Call
    BY DEF SetupTypeOK
  <1>2. \A pc \in tos : pc \in Stations
    BY DEF Stations
  <1>3. plist \in Programs \union {None} /\ loaded \in Programs \union {None}
        /\ current \in BOOLEAN
    BY DEF SetupTypeOK
  <1>4. \A pc \in {"idle", "ok"} : Ends(c, pc) => StationInv(c)' /\ AloneInv(c)'
    BY EndedKeeps
  <1>5. CASE Reach(c)
    <2>1. /\ At(c, "reach") /\ UNCHANGED <<service, setup, store, spent>>
          /\ Goes(c, "send") \/ Goes(c, "compare")
      BY <1>1, <1>2, <1>5, GoGoes DEF Reach
    <2>2. StationInv(c)'
      BY <2>1 DEF StationInv, Reaches, At, Is, Goes
    <2>3. AloneInv(c)'
      BY <2>1 DEF StationInv, Reaches, AloneInv, At, Is, Goes, Same, Active
    <2> QED
      BY <1>3, <2>1, <2>2, <2>3 DEF Steps
  <1>6. CASE Compare(c)
    <2>1. At(c, "compare") /\ UNCHANGED <<service, setup, store, spent>>
      BY <1>6 DEF Compare
    <2>2. Goes(c, "list") \/ Goes(c, "probe")
      <3>1. PICK pc \in {"list", "probe"}, changed \in BOOLEAN :
              call' = [call EXCEPT ![c].pc = pc, ![c].changed = changed]
        <4>1. (plist # call[c].program) \in BOOLEAN
          OBVIOUS
        <4>2. (IF plist # call[c].program THEN "list" ELSE "probe") \in {"list", "probe"}
          OBVIOUS
        <4> QED
          BY <1>6, <4>1, <4>2, Zenon DEF Compare
      <3>2. [call[c] EXCEPT !.pc = pc, !.changed = changed] \in Call
        BY <1>1, <1>2 DEF Call
      <3>3. Goes(c, pc)
        BY <1>1, <3>1, <3>2 DEF Goes, Same, Call
      <3> QED
        BY <3>1, <3>3
    <2>3. StationInv(c)' /\ AloneInv(c)'
      BY <2>1, <2>2 DEF StationInv, Reaches, AloneInv, At, Is, Goes, Same, Active
    <2> QED
      BY <1>3, <2>1, <2>2, <2>3 DEF Steps
  <1>12. CASE List(c)
    <2>1. /\ At(c, "list") /\ plist' = call[c].program /\ Goes(c, "probe")
          /\ UNCHANGED <<loaded, current, setup, store, spent>>
      BY <1>1, <1>2, <1>12, GoGoes DEF List
    <2>2. plist' \in Programs \union {None}
      BY <1>1, <2>1 DEF Call
    <2>3. StationInv(c)' /\ AloneInv(c)'
      BY <2>1 DEF StationInv, Reaches, AloneInv, At, Is, Goes, Same, Active
    <2> QED
      BY <1>3, <2>1, <2>2, <2>3 DEF Steps
  <1>7. CASE Probe(c)
    <2>1. /\ At(c, "probe") /\ UNCHANGED <<service, setup, store, spent>>
          /\ \/ Goes(c, "version") /\ loaded # None
             \/ Goes(c, "bootout") \/ Goes(c, "bootstrap")
      BY <1>1, <1>2, <1>7, GoGoes DEF Probe
    <2>2. StationInv(c)' /\ AloneInv(c)'
      BY <2>1 DEF StationInv, Reaches, AloneInv, At, Is, Goes, Same, Active
    <2> QED
      BY <1>3, <2>1, <2>2 DEF Steps
  <1>8. CASE Bootout(c)
    <2>1. /\ At(c, "bootout") /\ loaded' = None
          /\ UNCHANGED <<plist, current, setup, store, spent>>
          /\ Goes(c, "bootstrap") \/ Ends(c, "idle")
      BY <1>1, <1>2, <1>8, GoGoes, CallEnds DEF Bootout
    <2>2. Goes(c, "bootstrap") => StationInv(c)' /\ AloneInv(c)'
      BY <2>1 DEF StationInv, Reaches, AloneInv, At, Is, Goes, Same, Active
    <2> QED
      BY <1>3, <1>4, <2>1, <2>2 DEF Steps
  <1>9. CASE Bootstrap(c)
    <2>1. /\ At(c, "bootstrap") /\ UNCHANGED <<plist, setup, store, spent>>
          /\ \/ Goes(c, "version") /\ loaded' = plist /\ plist # None /\ current' = TRUE
             \/ Ends(c, "idle") /\ UNCHANGED <<loaded, current>>
      BY <1>1, <1>2, <1>9, GoGoes, CallEnds DEF Bootstrap
    <2>2. Goes(c, "version") /\ loaded' # None => StationInv(c)' /\ AloneInv(c)'
      BY <2>1 DEF StationInv, Reaches, AloneInv, At, Is, Goes, Same, Active
    <2> QED
      BY <1>3, <1>4, <2>1, <2>2 DEF Steps
  <1>10. CASE Version(c)
    <2>1. /\ At(c, "version") /\ UNCHANGED <<service, setup, store, spent>>
          /\ \/ Is(c, CliTasks) /\ Goes(c, "send") /\ ~Is(c, {"install"})
             \/ ~Is(c, CliTasks) /\ (Goes(c, "decide") \/ Goes(c, "kickstart"))
             \/ Is(c, {"initialize"}) /\ Goes(c, "settle")
             \/ Ends(c, "idle") \/ Ends(c, "ok")
      BY <1>1, <1>2, <1>10, GoGoes, CallEnds DEF Version, AfterEnsure
    <2>2. (\E pc \in tos : Goes(c, pc)) => StationInv(c)' /\ AloneInv(c)'
      BY <2>1 DEF StationInv, Reaches, AloneInv, At, Is, Goes, Same, Active, CliTasks, Ends
    <2> QED
      BY <1>3, <1>4, <2>1, <2>2 DEF Steps
  <1>11. CASE Kickstart(c)
    <2>1. /\ At(c, "kickstart") /\ UNCHANGED <<plist, loaded, setup, store, spent>>
          /\ \/ Goes(c, "decide") /\ loaded # None /\ current' = TRUE
             \/ Goes(c, "settle") /\ Is(c, {"initialize"}) /\ current' = TRUE
             \/ Ends(c, "idle") /\ UNCHANGED current
      BY <1>1, <1>2, <1>11, GoGoes, CallEnds DEF Kickstart, AfterEnsure
    <2>2. Goes(c, "decide") \/ Goes(c, "settle") => StationInv(c)' /\ AloneInv(c)'
      BY <2>1 DEF StationInv, Reaches, AloneInv, At, Is, Goes, Same, Active, Ends
    <2> QED
      BY <1>3, <1>4, <2>1, <2>2 DEF Steps
  <1> QED
    BY <1>5, <1>6, <1>7, <1>8, <1>9, <1>10, <1>11, <1>12 DEF EnsureStep

LEMMA SetupSteps ==
  ASSUME SetupTypeOK, NEW c \in Callers, StationInv(c), AloneInv(c), SetupStep(c)
  PROVE  /\ StationInv(c)' /\ AloneInv(c)'
         /\ plist' \in Programs \union {None} /\ loaded' \in Programs \union {None}
         /\ decision' \in Decisions \union {None}
         /\ UNCHANGED <<current, login, link>>
         /\ \E from \in {"registered", "settle", "decide", "probeOut", "unload", "unlist"} :
              Steps(c, from, {"settle", "compare", "decide", "unload", "unlist", "unlink"},
                    {"idle", "ok"})
  <1> DEFINE tos == {"settle", "compare", "decide", "unload", "unlist", "unlink"}
  <1> USE DEF service, setup
  <1>1. call \in [Callers -> Call] /\ call[c] \in Call
    BY DEF SetupTypeOK
  <1>2. \A pc \in tos : pc \in Stations
    BY DEF Stations
  <1>3. /\ plist \in Programs \union {None} /\ loaded \in Programs \union {None}
        /\ decision \in Decisions \union {None}
        /\ login \in Logins
        /\ At(c, "decide") => Is(c, {"enable", "defer", "initialize"})
    BY DEF SetupTypeOK
  <1>4. \A pc \in {"idle", "ok"} : Ends(c, pc) => StationInv(c)' /\ AloneInv(c)'
    BY EndedKeeps
  <1>5. CASE Settle(c)
    <2>1. /\ At(c, "settle") /\ UNCHANGED <<service, setup, store, spent>>
          /\ Goes(c, "decide") \/ Ends(c, "ok")
      BY <1>1, <1>2, <1>5, GoGoes, CallEnds DEF Settle
    <2>2. Goes(c, "decide") => StationInv(c)' /\ AloneInv(c)'
      BY <2>1 DEF StationInv, Reaches, AloneInv, At, Is, Goes, Same, Active
    <2> QED
      BY <1>3, <1>4, <2>1, <2>2 DEF Steps
  <1>6. CASE Registered(c)
    <2>1. /\ At(c, "registered") /\ UNCHANGED <<service, setup, store, spent>>
          /\ \/ Goes(c, "compare") /\ plist # None
             \/ Goes(c, "settle")
      BY <1>1, <1>2, <1>6, GoGoes DEF Registered
    <2>2. StationInv(c)' /\ AloneInv(c)'
      BY <2>1 DEF StationInv, Reaches, AloneInv, At, Is, Goes, Same, Active
    <2> QED
      BY <1>3, <2>1, <2>2 DEF Steps
  <1>7. CASE Decide(c)
    <2>1. /\ At(c, "decide")
          /\ UNCHANGED <<service, login, link, command, app, store, spent>>
          /\ Ends(c, "ok")
      BY <1>1, <1>7, CallEnds DEF Decide
    <2>2. decision' \in {"enabled", "deferred"}
      BY <1>3, <1>7, <2>1 DEF Decide, Is
    <2> QED
      BY <1>3, <1>4, <2>1, <2>2 DEF Steps, Decisions
  <1>8. CASE ProbeOut(c)
    <2>1. /\ At(c, "probeOut") /\ UNCHANGED <<service, setup, store, spent>>
          /\ \/ Goes(c, "unload")
             \/ Goes(c, "unlist") /\ loaded = None
      BY <1>1, <1>2, <1>8, GoGoes DEF ProbeOut
    <2>2. StationInv(c)' /\ AloneInv(c)'
      BY <2>1 DEF StationInv, Reaches, AloneInv, At, Is, Goes, Same, Active
    <2> QED
      BY <1>3, <2>1, <2>2 DEF Steps
  <1>9. CASE Unload(c)
    <2>1. /\ At(c, "unload") /\ loaded' = None
          /\ UNCHANGED <<plist, current, setup, store, spent>>
          /\ Goes(c, "unlist") \/ Ends(c, "idle")
      BY <1>1, <1>2, <1>9, GoGoes, CallEnds DEF Unload
    <2>2. Goes(c, "unlist") => StationInv(c)' /\ AloneInv(c)'
      BY <2>1 DEF StationInv, Reaches, AloneInv, At, Is, Goes, Same, Active
    <2> QED
      BY <1>3, <1>4, <2>1, <2>2 DEF Steps
  <1>10. CASE Unlist(c)
    <2>1. /\ At(c, "unlist") /\ plist' = None
          /\ UNCHANGED <<loaded, current, setup, store, spent>>
          /\ \/ Is(c, {"defer"}) /\ Goes(c, "decide")
             \/ ~Is(c, {"remove", "defer"}) /\ Goes(c, "unlink")
             \/ Ends(c, "ok")
      BY <1>1, <1>2, <1>10, GoGoes, CallEnds DEF Unlist, Is
    <2>2. (\E pc \in tos : Goes(c, pc)) => StationInv(c)' /\ AloneInv(c)'
      BY <2>1 DEF StationInv, Reaches, AloneInv, At, Is, Goes, Same, Active, Ends
    <2> QED
      BY <1>3, <1>4, <2>1, <2>2 DEF Steps
  <1> QED
    BY <1>5, <1>6, <1>7, <1>8, <1>9, <1>10 DEF SetupStep

LEMMA SendMoves ==
  ASSUME call \in [Callers -> Call], NEW c \in Callers, Send(c)
  PROVE  \/ Goes(c, "journal") /\ Is(c, {"enroll"})
         \/ Goes(c, "token") /\ Is(c, {"paste"})
         \/ Ends(c, "idle") \/ Ends(c, "ok")
  <1>1. "journal" \in Stations /\ "token" \in Stations /\ call[c] \in Call
    BY DEF Stations
  <1>2. \/ Succeed(c)
        \/ Refuse(c)
        \/ Go(c, "token") /\ Is(c, {"paste"})
        \/ /\ call' = [call EXCEPT ![c].pc = "journal", ![c].found = ManualMode]
           /\ Is(c, {"enroll"})
    BY DEF Send
  <1>3. ASSUME call' = [call EXCEPT ![c].pc = "journal", ![c].found = ManualMode],
               Is(c, {"enroll"})
        PROVE  Goes(c, "journal")
    <2>1. ManualMode \in BOOLEAN
      BY DEF ManualMode
    <2>2. [call[c] EXCEPT !.pc = "journal", !.found = ManualMode] \in Call
      BY <1>1, <2>1 DEF Call
    <2> QED
      BY <1>1, <1>3, <2>2 DEF Goes, Same, Call, Is
  <1> QED
    BY <1>1, <1>2, <1>3, GoGoes, CallEnds

(* The login item, the link to the command, and sending a mutation *)
LEMMA InstallSteps ==
  ASSUME SetupTypeOK, NEW c \in Callers, StationInv(c), AloneInv(c),
         LoginStep(c) \/ LinkStep(c) \/ Send(c)
  PROVE  /\ StationInv(c)' /\ AloneInv(c)'
         /\ login' \in Logins
         /\ link' \in Links
         /\ UNCHANGED <<service, decision>>
         /\ \E from \in {"login", "associate", "rewrite", "logout", "removeLogin", "detect",
                          "symlink", "verify", "unlink", "removeLink", "send"} :
              Steps(c, from, {"associate", "rewrite", "removeLogin", "registered", "probeOut",
                              "symlink", "verify", "removeLink", "names", "trash", "send",
                              "journal", "token"}, {"idle", "ok"})
         /\ call'[c].pc = "trash" => ~Eraser(c)
  <1> DEFINE tos == {"associate", "rewrite", "removeLogin", "registered", "probeOut",
                     "symlink", "verify", "removeLink", "names", "trash", "send",
                     "journal", "token"}
  <1> USE DEF service, setup
  <1>1. call \in [Callers -> Call] /\ call[c] \in Call
    BY DEF SetupTypeOK
  <1>2. \A pc \in tos : pc \in Stations
    BY DEF Stations
  <1>3. /\ link \in Links
        /\ login \in Logins
    BY DEF SetupTypeOK
  <1>4. \A pc \in {"idle", "ok"} : Ends(c, pc) => StationInv(c)' /\ AloneInv(c)'
    BY EndedKeeps
  <1>5. CASE Login(c)
    <2>1. /\ At(c, "login") /\ UNCHANGED <<service, setup, store, spent>>
          /\ Goes(c, "rewrite") \/ Goes(c, "associate")
      BY <1>1, <1>2, <1>5, LookGoes DEF Login
    <2>2. StationInv(c)' /\ AloneInv(c)'
      BY <2>1 DEF StationInv, Reaches, AloneInv, At, Is, Goes, Same, Active
    <2> QED
      BY <1>3, <2>1, <2>2 DEF Steps, Goes
  <1>6. CASE Associate(c)
    <2>1. At(c, "associate") /\ UNCHANGED <<service, setup, store, spent>>
      BY <1>6 DEF Associate
    <2>2. \/ Goes(c, "rewrite") \/ Ends(c, "idle")
          \/ Goes(c, "registered") /\ Is(c, {"initialize"})
          \/ Goes(c, "send") /\ Is(c, {"login"})
      BY <1>1, <1>2, <1>6, <2>1, GoGoes, LookGoes, CallEnds
      DEF Associate, AfterLogin, Is, At, StationInv, Reaches
    <2>3. (\E pc \in tos : Goes(c, pc)) => StationInv(c)' /\ AloneInv(c)'
      BY <2>1, <2>2 DEF StationInv, Reaches, AloneInv, At, Is, Goes, Same, Active, Ends
    <2> QED
      BY <1>3, <1>4, <2>1, <2>2, <2>3 DEF Steps, Goes, Ends
  <1>7. CASE Rewrite(c)
    <2>1. /\ At(c, "rewrite") /\ login' = "own"
          /\ UNCHANGED <<service, decision, link, command, app, store, spent>>
      BY <1>7 DEF Rewrite
    <2>2. \/ Goes(c, "registered") /\ Is(c, {"initialize"})
          \/ Goes(c, "send") /\ Is(c, {"login"})
      BY <1>1, <1>2, <1>7, <2>1, GoGoes DEF Rewrite, AfterLogin, Is, At, StationInv, Reaches
    <2>3. StationInv(c)' /\ AloneInv(c)'
      BY <2>1, <2>2 DEF StationInv, Reaches, AloneInv, At, Is, Goes, Same, Active
    <2> QED
      BY <1>3, <2>1, <2>2, <2>3 DEF Steps, Goes, Logins
  <1>8. CASE Logout(c)
    <2>1. At(c, "logout") /\ UNCHANGED <<service, setup, store, spent>>
      BY <1>8 DEF Logout
    <2>2. \/ Goes(c, "removeLogin") \/ Ends(c, "idle")
          \/ Goes(c, "send") /\ Is(c, {"logout"}) /\ login = "none"
          \/ Goes(c, "probeOut") /\ Is(c, {"keep", "erase"}) /\ login = "none"
      BY <1>1, <1>2, <1>8, <2>1, GoGoes, LookGoes, CallEnds
      DEF Logout, AfterLogin, Is, At, StationInv, Reaches
    <2>3. (\E pc \in tos : Goes(c, pc)) => StationInv(c)' /\ AloneInv(c)'
      BY <2>1, <2>2 DEF StationInv, Reaches, AloneInv, At, Is, Goes, Same, Active, Ends
    <2> QED
      BY <1>3, <1>4, <2>1, <2>2, <2>3 DEF Steps, Goes, Ends
  <1>9. CASE RemoveLogin(c)
    <2>1. /\ At(c, "removeLogin") /\ login' = "none"
          /\ UNCHANGED <<service, decision, link, command, app, store, spent>>
      BY <1>9 DEF RemoveLogin
    <2>2. \/ Ends(c, "idle")
          \/ Goes(c, "send") /\ Is(c, {"logout"})
          \/ Goes(c, "probeOut") /\ Is(c, {"keep", "erase"})
      BY <1>1, <1>2, <1>9, <2>1, GoGoes, CallEnds
      DEF RemoveLogin, AfterLogin, Is, At, StationInv, Reaches
    <2>3. (\E pc \in tos : Goes(c, pc)) => StationInv(c)' /\ AloneInv(c)'
      BY <2>1, <2>2 DEF StationInv, Reaches, AloneInv, At, Is, Goes, Same, Active, Ends
    <2> QED
      BY <1>3, <1>4, <2>1, <2>2, <2>3 DEF Steps, Goes, Ends, Logins
  <1>11. CASE Detect(c)
    <2>1. /\ At(c, "detect") /\ UNCHANGED <<service, setup, store, spent>>
          /\ Goes(c, "symlink") \/ Ends(c, "idle") \/ Ends(c, "ok")
      BY <1>1, <1>2, <1>3, <1>11, GoGoes, CallEnds DEF Detect, Links
    <2>2. Goes(c, "symlink") => StationInv(c)' /\ AloneInv(c)'
      BY <2>1 DEF StationInv, Reaches, AloneInv, At, Is, Goes, Same, Active
    <2> QED
      BY <1>3, <1>4, <2>1, <2>2 DEF Steps, Goes, Ends
  <1>12. CASE Symlink(c)
    <2>1. /\ At(c, "symlink") /\ link' \in {link, "managed"}
          /\ UNCHANGED <<service, decision, login, command, app, store, spent>>
          /\ Goes(c, "verify") \/ Ends(c, "idle")
      BY <1>1, <1>2, <1>12, GoGoes, CallEnds DEF Symlink
    <2>2. Goes(c, "verify") => StationInv(c)' /\ AloneInv(c)'
      BY <2>1 DEF StationInv, Reaches, AloneInv, At, Is, Goes, Same, Active
    <2> QED
      BY <1>3, <1>4, <2>1, <2>2 DEF Steps, Goes, Ends, Links
  <1>13. CASE Verify(c)
    <2>1. /\ At(c, "verify") /\ UNCHANGED <<service, setup, store, spent>>
          /\ Ends(c, "idle") \/ Ends(c, "ok")
      BY <1>1, <1>13, CallEnds DEF Verify
    <2> QED
      BY <1>3, <1>4, <2>1 DEF Steps, Goes, Ends
  <1>14. CASE Unlink(c)
    <2>1. /\ At(c, "unlink") /\ UNCHANGED <<service, setup, store, spent>>
          /\ \/ Goes(c, "removeLink")
             \/ Goes(c, "names") /\ Eraser(c) /\ link # "managed"
             \/ Goes(c, "trash") /\ ~Eraser(c) /\ link # "managed"
      BY <1>1, <1>2, <1>14, GoGoes, LookGoes DEF Unlink, AfterLink, Eraser
    <2>2. StationInv(c)' /\ AloneInv(c)'
      BY <2>1 DEF StationInv, Reaches, AloneInv, At, Is, Goes, Same, Active, Eraser
    <2> QED
      BY <1>3, <2>1, <2>2 DEF Steps, Goes
  <1>15. CASE RemoveLink(c)
    <2>1. /\ At(c, "removeLink") /\ link' = "missing"
          /\ UNCHANGED <<service, decision, login, command, app, store, spent>>
          /\ \/ Ends(c, "idle")
             \/ Goes(c, "names") /\ Eraser(c)
             \/ Goes(c, "trash") /\ ~Eraser(c)
      BY <1>1, <1>2, <1>15, GoGoes, CallEnds DEF RemoveLink, AfterLink, Eraser
    <2>2. (\E pc \in tos : Goes(c, pc)) => StationInv(c)' /\ AloneInv(c)'
      BY <2>1 DEF StationInv, Reaches, AloneInv, At, Is, Goes, Same, Active, Eraser, Ends
    <2> QED
      BY <1>3, <1>4, <2>1, <2>2 DEF Steps, Goes, Ends, Links
  <1>10. CASE Send(c)
    <2>1. At(c, "send") /\ UNCHANGED <<service, setup, store, spent>>
      BY <1>10 DEF Send
    <2>2. \/ Goes(c, "journal") /\ Is(c, {"enroll"})
          \/ Goes(c, "token") /\ Is(c, {"paste"})
          \/ Ends(c, "idle") \/ Ends(c, "ok")
      BY <1>1, <1>10, SendMoves
    <2>3. (\E pc \in tos : Goes(c, pc)) => StationInv(c)' /\ AloneInv(c)'
      BY <2>1, <2>2 DEF StationInv, Reaches, AloneInv, At, Is, Goes, Same, Active, Ends
    <2> QED
      BY <1>3, <1>4, <2>1, <2>2, <2>3 DEF Steps, Goes, Ends
  <1> QED
    BY <1>5, <1>6, <1>7, <1>8, <1>9, <1>10, <1>11, <1>12, <1>13, <1>14, <1>15
    DEF LoginStep, LinkStep

-----------------------------------------------------------------------------
(* What profiles leave *)

SecretsKnown ==
  /\ CoverInv /\ MetInv
  /\ \A c \in Callers : ListedInv(c) /\ EraseInv(c)

Stationed == \A c \in Callers : StationInv(c)

(* An erasing call is not disturbed while nothing new is left behind. *)
LEMMA EraseUndisturbed ==
  ASSUME NEW d \in Callers, EraseInv(d),
         call'[d].pc = call[d].pc, call'[d].task = call[d].task,
         call'[d].names = call[d].names,
         store.stray \subseteq store'.stray,
         store'.tokens \subseteq store.tokens \union store'.stray,
         store'.journal \subseteq store.journal \union store'.stray
  PROVE  EraseInv(d)'
  <1>1. Rest(d)' = Rest(d)
    BY DEF Rest
  <1>2. Secrets' \subseteq Secrets \union store'.stray
    BY DEF Secrets
  <1> QED
    BY <1>1, <1>2 DEF EraseInv, At, Eraser, Is

LEMMA PlainKnown ==
  ASSUME NEW c \in Callers, Stationed, SecretsKnown,
         NEW from \in Stations \ {"idle", "ok", "journal", "cache", "token", "catalog",
                                 "record", "forget"},
         Steps(c, from, {"send", "compare", "list", "probe", "version", "bootout",
                         "bootstrap", "settle", "decide", "kickstart", "registered", "unload",
                         "unlist", "unlink", "removeLink", "probeOut", "symlink", "verify",
                         "associate", "rewrite", "removeLogin", "names", "trash", "journal",
                         "token"},
               {"idle", "ok"}),
         call'[c].pc = "trash" => ~Eraser(c)
  PROVE  SecretsKnown'
  <1>1. Same(c) /\ store' = store /\ ~Writing(c)
    BY DEF Steps, Goes, Ends, At, Writing
  <1>2. \/ call'[c].task = call[c].task /\ call'[c].names = call[c].names
        \/ call'[c].task = "none" /\ call'[c].names = {}
    BY DEF Steps, Goes, Ends
  <1>3. ~(call'[c].pc \in {"record", "forget", "secret", "clear", "uncache", "include",
                          "support"})
    BY DEF Steps, Goes, Ends
  <1>4. Secrets' = Secrets
    BY <1>1 DEF Secrets
  <1>5. CoverInv'
    BY <1>1, <1>4 DEF SecretsKnown, CoverInv, Same, Writing
  <1>6. MetInv'
    BY <1>1, <1>2 DEF SecretsKnown, MetInv, Same, Eraser, Is
  <1>7. ListedInv(c)' /\ EraseInv(c)'
    BY <1>2, <1>3 DEF Steps, Goes, Ends, ListedInv, EraseInv, At, Eraser, Is
  <1>8. \A d \in Callers \ {c} : ListedInv(d)' /\ EraseInv(d)'
    BY <1>1, <1>4, EraseUndisturbed DEF SecretsKnown, ListedInv, Same
  <1> QED
    BY <1>5, <1>6, <1>7, <1>8 DEF SecretsKnown

(* The deletion of the data *)
LEMMA EraseSteps ==
  ASSUME SetupTypeOK, NEW c \in Callers, StationInv(c), AloneInv(c),
         \/ Names(c) \/ Secret(c) \/ Clear(c)
         \/ Uncache(c) \/ Include(c) \/ Support(c)
  PROVE  /\ StationInv(c)' /\ AloneInv(c)' /\ Same(c)
         /\ call[c].pc \in {"names", "secret", "clear", "uncache", "include", "support"}
         /\ call'[c].pc \in {"secret", "clear", "uncache", "include", "support", "trash"}
         /\ store' \in Store /\ decision' \in Decisions \union {None}
         /\ UNCHANGED <<service, login, link, command, app, spent>>
  <1> DEFINE pcs == {"secret", "clear", "uncache", "include", "support", "trash"}
             T == StationInv(c)' /\ AloneInv(c)'
  <1> USE DEF service, setup
  <1>1. call \in [Callers -> Call] /\ call[c] \in Call /\ store \in Store
        /\ decision \in Decisions \union {None}
    BY DEF SetupTypeOK
  <1>2. \A pc \in pcs : pc \in Stations
    BY DEF Stations
  <1>3. CASE Names(c)
    <2>1. At(c, "names") /\ UNCHANGED <<service, setup, store, spent>>
      BY <1>3 DEF Names
    <2>2. store.catalog \union store.cache \subseteq Profiles
      BY <1>1 DEF Store
    <2>3. [call[c] EXCEPT !.pc = "secret", !.names = store.catalog \union store.cache] \in Call
      BY <1>1, <1>2, <2>2 DEF Call
    <2>4. /\ Same(c) /\ call'[c].pc = "secret" /\ call'[c].task = call[c].task
          /\ call'[c].alone = call[c].alone /\ call'[c].found = call[c].found
      BY <1>1, <1>3, <2>3 DEF Names, Same, Call
    <2>5. T
      BY <2>1, <2>4 DEF StationInv, Reaches, AloneInv, At, Is, Same, Active
    <2> QED
      BY <1>1, <2>1, <2>4, <2>5 DEF At
  <1>4. CASE Secret(c)
    <2>1. At(c, "secret") /\ UNCHANGED <<service, setup, spent>>
      BY <1>4 DEF Secret
    <2>2. /\ Goes(c, "include") \/ Goes(c, "clear")
          /\ store' = store \/ store' = [store EXCEPT !.tokens = @ \ {Least(call[c].names)}]
      BY <1>1, <1>2, <1>4, GoGoes DEF Secret
    <2>3. store' \in Store
      BY <1>1, <2>2 DEF Store
    <2>4. T
      BY <2>1, <2>2 DEF StationInv, Reaches, AloneInv, At, Is, Goes, Same, Active
    <2> QED
      BY <1>1, <2>1, <2>2, <2>3, <2>4 DEF At, Goes
  <1>5. CASE Clear(c)
    <2>1. /\ At(c, "clear") /\ UNCHANGED <<service, setup, spent>> /\ Goes(c, "uncache")
          /\ store' = [store EXCEPT !.journal = @ \ {Least(call[c].names)}]
      BY <1>1, <1>2, <1>5, GoGoes DEF Clear
    <2>2. store' \in Store
      BY <1>1, <2>1 DEF Store
    <2>3. T
      BY <2>1 DEF StationInv, Reaches, AloneInv, At, Is, Goes, Same, Active
    <2> QED
      BY <1>1, <2>1, <2>2, <2>3 DEF At, Goes
  <1>6. CASE Uncache(c)
    <2>1. /\ At(c, "uncache") /\ UNCHANGED <<service, setup, spent>>
          /\ store' = [store EXCEPT !.cache = @ \ {Least(call[c].names)}]
      BY <1>6 DEF Uncache
    <2>2. store' \in Store
      BY <1>1, <2>1 DEF Store
    <2>3. [call[c] EXCEPT !.pc = "secret", !.names = @ \ {Least(call[c].names)}] \in Call
      BY <1>1, <1>2 DEF Call
    <2>4. /\ Same(c) /\ call'[c].pc = "secret" /\ call'[c].task = call[c].task
          /\ call'[c].alone = call[c].alone /\ call'[c].found = call[c].found
      BY <1>1, <1>6, <2>3 DEF Uncache, Same, Call
    <2>5. T
      BY <2>1, <2>4 DEF StationInv, Reaches, AloneInv, At, Is, Same, Active
    <2> QED
      BY <1>1, <2>1, <2>2, <2>4, <2>5 DEF At
  <1>7. CASE Include(c)
    <2>1. /\ At(c, "include") /\ UNCHANGED <<service, setup, spent>> /\ Goes(c, "support")
          /\ store' = [store EXCEPT !.include = FALSE]
      BY <1>1, <1>2, <1>7, GoGoes DEF Include
    <2>2. store' \in Store /\ ~store'.include
      BY <1>1, <2>1 DEF Store
    <2>3. T
      BY <2>1, <2>2 DEF StationInv, Reaches, AloneInv, At, Is, Goes, Same, Active
    <2> QED
      BY <1>1, <2>1, <2>2, <2>3 DEF At, Goes
  <1>8. CASE Support(c)
    <2>1. /\ At(c, "support") /\ UNCHANGED <<service, login, link, command, app, spent>>
          /\ Goes(c, "trash") /\ decision' = None
          /\ store' = [store EXCEPT !.catalog = {}, !.cache = {}]
      BY <1>1, <1>2, <1>8, GoGoes DEF Support
    <2>2. /\ store' \in Store /\ store'.include = store.include
          /\ store'.catalog = {} /\ store'.cache = {}
      BY <1>1, <2>1 DEF Store
    <2>3. T
      BY <2>1, <2>2 DEF StationInv, Reaches, AloneInv, At, Is, Goes, Same, Active
    <2> QED
      BY <1>1, <2>1, <2>2, <2>3 DEF At, Goes
  <1> QED
    BY <1>3, <1>4, <1>5, <1>6, <1>7, <1>8

LEMMA EraseKnown ==
  ASSUME SetupTypeOK, NEW c \in Callers, Stationed, SecretsKnown,
         \/ Names(c) \/ Secret(c) \/ Clear(c)
         \/ Uncache(c) \/ Include(c) \/ Support(c)
  PROVE  SecretsKnown'
  <1>1. call \in [Callers -> Call] /\ call[c] \in Call /\ store \in Store
    BY DEF SetupTypeOK
  <1>2. \A pc \in {"secret", "clear", "uncache", "include", "support", "trash"} : pc \in Stations
    BY DEF Stations
  <1>3. ASSUME ~Writing(c), Eraser(c), Same(c), call'[c].task = call[c].task,
               store'.stray = store.stray,
               store'.tokens \subseteq store.tokens, store'.journal \subseteq store.journal,
               call'[c].pc \in {"secret", "clear", "uncache", "include", "support", "trash"},
               EraseInv(c)',
               \/ UNCHANGED <<store.catalog, store.cache>>
               \/ /\ UNCHANGED store.catalog
                  /\ \E n : store'.cache = store.cache \ {n} /\ n \notin Secrets \ store.stray
               \/ Secrets \subseteq store.stray
        PROVE  SecretsKnown'
    <2>1. Secrets' \subseteq Secrets
      BY <1>3 DEF Secrets
    <2>2. CoverInv'
      BY <1>3, <2>1 DEF SecretsKnown, CoverInv, Same, Writing
    <2>3. MetInv'
      BY <1>3 DEF SecretsKnown, MetInv, Same, Eraser, Is
    <2>4. ASSUME NEW d \in Callers PROVE ListedInv(d)'
      <3>1. CASE d = c
        BY <1>3, <3>1 DEF ListedInv
      <3>2. CASE d # c
        <4>1. call'[d] = call[d]
          BY <1>3, <3>2 DEF Same
        <4>2. call[d].pc \in {"record", "forget"} => call[d].names \subseteq store.stray
          BY <1>3, <3>2 DEF Stationed, StationInv, Reaches, SecretsKnown, MetInv, Is
        <4> QED
          BY <1>3, <4>1, <4>2 DEF ListedInv
      <3> QED
        BY <3>1, <3>2
    <2>5. ASSUME NEW d \in Callers PROVE EraseInv(d)'
      <3>1. CASE d # c
        <4>1. call'[d] = call[d]
          BY <1>3, <3>1 DEF Same
        <4> QED
          BY <1>3, <4>1, EraseUndisturbed DEF SecretsKnown
      <3> QED
        BY <1>3, <3>1
    <2> QED
      BY <2>2, <2>3, <2>4, <2>5 DEF SecretsKnown
  <1>4. EraseInv(c)
    BY DEF SecretsKnown
  <1>5. CASE Names(c)
    <2>1. At(c, "names") /\ store' = store
      BY <1>5 DEF Names
    <2>2. store.catalog \union store.cache \subseteq Profiles
      BY <1>1 DEF Store
    <2>3. [call[c] EXCEPT !.pc = "secret", !.names = store.catalog \union store.cache] \in Call
      BY <1>1, <1>2, <2>2 DEF Call
    <2>4. /\ Same(c) /\ call'[c].pc = "secret" /\ call'[c].task = call[c].task
          /\ call'[c].names = store.catalog \union store.cache
      BY <1>1, <1>5, <2>3 DEF Names, Same, Call
    <2>5. Eraser(c) /\ ~Writing(c)
      BY <2>1 DEF Stationed, StationInv, Reaches, At, Is, Eraser, Writing
    <2>6. \A d \in Callers : Writing(d) => call[d].names \subseteq store.stray
      BY <2>5 DEF SecretsKnown, MetInv, Stationed, StationInv, Reaches, Is, Writing
    <2>7. Secrets \subseteq store.stray \union store.catalog \union store.cache
      BY <2>6 DEF SecretsKnown, CoverInv
    <2>8. EraseInv(c)'
      BY <2>1, <2>4, <2>7 DEF EraseInv, At, Secrets
    <2> QED
      BY <1>3, <2>1, <2>4, <2>5, <2>8
  <1>6. CASE Secret(c)
    <2>1. /\ At(c, "secret")
          /\ \/ Goes(c, "include") /\ store' = store /\ call[c].names = {}
             \/ /\ Goes(c, "clear")
                /\ store' = [store EXCEPT !.tokens = @ \ {Least(call[c].names)}]
      BY <1>1, <1>2, <1>6, GoGoes DEF Secret
    <2>2. Eraser(c) /\ ~Writing(c)
      BY <2>1 DEF Stationed, StationInv, Reaches, At, Is, Eraser, Writing
    <2>3. CASE Goes(c, "include") /\ store' = store /\ call[c].names = {}
      <3>1. EraseInv(c)'
        BY <1>4, <2>1, <2>3 DEF EraseInv, At, Goes, Secrets
      <3> QED
        BY <1>3, <2>2, <2>3, <3>1 DEF Goes
    <2>4. CASE /\ Goes(c, "clear")
               /\ store' = [store EXCEPT !.tokens = @ \ {Least(call[c].names)}]
      <3>1. /\ store'.tokens = store.tokens \ {Least(call[c].names)}
            /\ store'.journal = store.journal /\ store'.stray = store.stray
            /\ store'.catalog = store.catalog /\ store'.cache = store.cache
        BY <1>1, <2>4 DEF Store
      <3>2. Rest(c)' = Rest(c)
        BY <2>4 DEF Rest, Goes
      <3>3. EraseInv(c)'
        BY <1>4, <2>1, <2>4, <3>1, <3>2 DEF EraseInv, At, Goes, Secrets, Rest
      <3> QED
        BY <1>3, <2>2, <2>4, <3>1, <3>3 DEF Goes
    <2> QED
      BY <2>1, <2>3, <2>4
  <1>7. CASE Clear(c)
    <2>1. /\ At(c, "clear") /\ Goes(c, "uncache")
          /\ store' = [store EXCEPT !.journal = @ \ {Least(call[c].names)}]
      BY <1>1, <1>2, <1>7, GoGoes DEF Clear
    <2>2. Eraser(c) /\ ~Writing(c)
      BY <2>1 DEF Stationed, StationInv, Reaches, At, Is, Eraser, Writing
    <2>3. /\ store'.journal = store.journal \ {Least(call[c].names)}
          /\ store'.tokens = store.tokens /\ store'.stray = store.stray
          /\ store'.catalog = store.catalog /\ store'.cache = store.cache
      BY <1>1, <2>1 DEF Store
    <2>4. Rest(c)' = Rest(c)
      BY <2>1 DEF Rest, Goes
    <2>5. EraseInv(c)'
      BY <1>4, <2>1, <2>3, <2>4 DEF EraseInv, At, Goes, Secrets, Rest
    <2> QED
      BY <1>3, <2>1, <2>2, <2>3, <2>5 DEF Goes
  <1>8. CASE Uncache(c)
    <2>1. /\ At(c, "uncache")
          /\ store' = [store EXCEPT !.cache = @ \ {Least(call[c].names)}]
      BY <1>8 DEF Uncache
    <2>2. Eraser(c) /\ ~Writing(c)
      BY <2>1 DEF Stationed, StationInv, Reaches, At, Is, Eraser, Writing
    <2>3. /\ store'.cache = store.cache \ {Least(call[c].names)}
          /\ store'.tokens = store.tokens /\ store'.stray = store.stray
          /\ store'.catalog = store.catalog /\ store'.journal = store.journal
      BY <1>1, <2>1 DEF Store
    <2>4. [call[c] EXCEPT !.pc = "secret", !.names = @ \ {Least(call[c].names)}] \in Call
      BY <1>1, <1>2 DEF Call
    <2>5. /\ Same(c) /\ call'[c].pc = "secret" /\ call'[c].task = call[c].task
          /\ call'[c].names = Rest(c)
      BY <1>1, <1>8, <2>4 DEF Uncache, Same, Call, Rest
    <2>6. EraseInv(c)'
      BY <1>4, <2>1, <2>3, <2>5 DEF EraseInv, At, Secrets
    <2>7. Least(call[c].names) \notin Secrets \ store.stray
      BY <1>4, <2>1 DEF EraseInv, At, Rest
    <2> QED
      BY <1>3, <2>2, <2>3, <2>5, <2>6, <2>7
  <1>9. CASE Include(c)
    <2>1. /\ At(c, "include") /\ Goes(c, "support")
          /\ store' = [store EXCEPT !.include = FALSE]
      BY <1>1, <1>2, <1>9, GoGoes DEF Include
    <2>2. Eraser(c) /\ ~Writing(c)
      BY <2>1 DEF Stationed, StationInv, Reaches, At, Is, Eraser, Writing
    <2>3. /\ store'.tokens = store.tokens /\ store'.stray = store.stray
          /\ store'.journal = store.journal
          /\ store'.catalog = store.catalog /\ store'.cache = store.cache
      BY <1>1, <2>1 DEF Store
    <2>4. EraseInv(c)'
      BY <1>4, <2>1, <2>2, <2>3 DEF EraseInv, At, Goes, Secrets
    <2> QED
      BY <1>3, <2>1, <2>2, <2>3, <2>4 DEF Goes
  <1>10. CASE Support(c)
    <2>1. /\ At(c, "support") /\ Goes(c, "trash")
          /\ store' = [store EXCEPT !.catalog = {}, !.cache = {}]
      BY <1>1, <1>2, <1>10, GoGoes DEF Support
    <2>2. Eraser(c) /\ ~Writing(c)
      BY <2>1 DEF Stationed, StationInv, Reaches, At, Is, Eraser, Writing
    <2>3. /\ store'.tokens = store.tokens /\ store'.stray = store.stray
          /\ store'.journal = store.journal
      BY <1>1, <2>1 DEF Store
    <2>4. EraseInv(c)' /\ Secrets \subseteq store.stray
      BY <1>4, <2>1, <2>2, <2>3 DEF EraseInv, At, Goes, Secrets
    <2> QED
      BY <1>3, <2>1, <2>2, <2>3, <2>4 DEF Goes
  <1> QED
    BY <1>5, <1>6, <1>7, <1>8, <1>9, <1>10

(* A change of a profile *)
LEMMA WriteSteps ==
  ASSUME SetupTypeOK, NEW c \in Callers, StationInv(c), AloneInv(c), Write(c)
  PROVE  /\ StationInv(c)' /\ AloneInv(c)' /\ store' \in Store
         /\ UNCHANGED <<service, setup, spent>>
         /\ Is(c, {"paste", "enroll"}) /\ store'.stray = store.stray
         /\ \/ /\ At(c, "journal") /\ Goes(c, "cache")
               /\ UNCHANGED <<store.tokens, store.catalog, store.cache>>
               /\ store'.journal = store.journal \union call[c].names
            \/ /\ At(c, "cache") /\ Goes(c, "token")
               /\ UNCHANGED <<store.tokens, store.catalog, store.journal>>
               /\ store'.cache = store.cache \union call[c].names
            \/ /\ At(c, "token") /\ Goes(c, "catalog")
               /\ UNCHANGED <<store.journal, store.catalog, store.cache>>
               /\ store'.tokens = store.tokens \union call[c].names
            \/ /\ At(c, "catalog")
               /\ Goes(c, "record") \/ Ends(c, "ok")
               /\ UNCHANGED <<store.tokens, store.journal, store.cache>>
               /\ store'.catalog = store.catalog \union call[c].names
            \/ /\ At(c, "record") /\ Goes(c, "forget")
               /\ UNCHANGED <<store.tokens, store.catalog, store.cache>>
               /\ store'.journal = store.journal \ call[c].names
            \/ /\ At(c, "forget") /\ Ends(c, "ok")
               /\ UNCHANGED <<store.tokens, store.catalog, store.journal>>
               /\ store'.cache = store.cache \ call[c].names
  <1> DEFINE n == call[c].names
  <1>1. call \in [Callers -> Call] /\ call[c] \in Call /\ store \in Store /\ n \subseteq Profiles
    BY DEF SetupTypeOK, Call
  <1>2. \A pc \in {"cache", "token", "catalog", "record", "forget"} : pc \in Stations
    BY DEF Stations
  <1>3. UNCHANGED <<service, setup, spent>>
        /\ call[c].pc \in {"journal", "cache", "token", "catalog", "record", "forget"}
        /\ Is(c, {"paste", "enroll"})
    BY DEF Write, Writing, StationInv, Reaches, Is
  <1>4. \A pc \in {"idle", "ok"} : Ends(c, pc) => StationInv(c)' /\ AloneInv(c)'
    BY EndedKeeps
  <1>5. \A pc \in {"cache", "token", "catalog", "record", "forget"} :
          Goes(c, pc) /\ (pc \in {"record", "forget"} => Is(c, {"paste"}))
            /\ (pc = "cache" => Is(c, {"enroll"}))
            => StationInv(c)' /\ AloneInv(c)'
    BY <1>3 DEF StationInv, Reaches, AloneInv, At, Is, Goes, Same, Active
  <1>6. CASE At(c, "journal")
    <2>1. store' = [store EXCEPT !.journal = @ \union n] /\ Goes(c, "cache")
      BY <1>1, <1>2, <1>6, GoGoes DEF Write, After, At
    <2>2. /\ store' \in Store /\ store'.stray = store.stray
          /\ UNCHANGED <<store.tokens, store.catalog, store.cache>>
          /\ store'.journal = store.journal \union n
      BY <1>1, <2>1 DEF Store
    <2>3. Is(c, {"enroll"})
      BY <1>6 DEF StationInv, Reaches, At, Is
    <2> QED
      BY <1>3, <1>5, <1>6, <2>1, <2>2, <2>3
  <1>7. CASE At(c, "cache")
    <2>1. store' = [store EXCEPT !.cache = @ \union n] /\ Goes(c, "token")
      BY <1>1, <1>2, <1>7, GoGoes DEF Write, After, At
    <2>2. /\ store' \in Store /\ store'.stray = store.stray
          /\ UNCHANGED <<store.tokens, store.catalog, store.journal>>
          /\ store'.cache = store.cache \union n
      BY <1>1, <2>1 DEF Store
    <2> QED
      BY <1>3, <1>5, <1>7, <2>1, <2>2
  <1>8. CASE At(c, "token")
    <2>1. store' = [store EXCEPT !.tokens = @ \union n] /\ Goes(c, "catalog")
      BY <1>1, <1>2, <1>8, GoGoes DEF Write, After, At
    <2>2. /\ store' \in Store /\ store'.stray = store.stray
          /\ UNCHANGED <<store.journal, store.catalog, store.cache>>
          /\ store'.tokens = store.tokens \union n
      BY <1>1, <2>1 DEF Store
    <2> QED
      BY <1>3, <1>5, <1>8, <2>1, <2>2
  <1>9. CASE At(c, "catalog")
    <2>1. /\ store' = [store EXCEPT !.catalog = @ \union n, !.include = TRUE]
          /\ \/ Goes(c, "record") /\ Is(c, {"paste"})
             \/ Ends(c, "ok")
      BY <1>1, <1>2, <1>9, GoGoes, CallEnds DEF Write, After, At
    <2>2. /\ store' \in Store /\ store'.stray = store.stray
          /\ UNCHANGED <<store.tokens, store.journal, store.cache>>
          /\ store'.catalog = store.catalog \union n
      BY <1>1, <2>1 DEF Store
    <2> QED
      BY <1>3, <1>4, <1>5, <1>9, <2>1, <2>2
  <1>10. CASE At(c, "record")
    <2>1. store' = [store EXCEPT !.journal = @ \ n] /\ Goes(c, "forget")
      BY <1>1, <1>2, <1>10, GoGoes DEF Write, After, At
    <2>2. /\ store' \in Store /\ store'.stray = store.stray
          /\ UNCHANGED <<store.tokens, store.catalog, store.cache>>
          /\ store'.journal = store.journal \ n
      BY <1>1, <2>1 DEF Store
    <2>3. Is(c, {"paste"})
      BY <1>10 DEF StationInv, Reaches, At, Is
    <2> QED
      BY <1>3, <1>5, <1>10, <2>1, <2>2, <2>3
  <1>11. CASE At(c, "forget")
    <2>1. store' = [store EXCEPT !.cache = @ \ n] /\ Ends(c, "ok")
      BY <1>1, <1>2, <1>11, CallEnds DEF Write, After, At
    <2>2. /\ store' \in Store /\ store'.stray = store.stray
          /\ UNCHANGED <<store.tokens, store.catalog, store.journal>>
          /\ store'.cache = store.cache \ n
      BY <1>1, <2>1 DEF Store
    <2> QED
      BY <1>3, <1>4, <1>11, <2>1, <2>2
  <1> QED
    BY <1>3, <1>6, <1>7, <1>8, <1>9, <1>10, <1>11 DEF At

LEMMA WriteKnown ==
  ASSUME SetupTypeOK, NEW c \in Callers, Stationed, AloneInv(c), SecretsKnown, Write(c)
  PROVE  SecretsKnown'
  <1> DEFINE n == call[c].names
  <1>1. StationInv(c)
    BY DEF Stationed
  <1>2. /\ Is(c, {"paste", "enroll"}) /\ store'.stray = store.stray /\ Writing(c)
    BY <1>1, WriteSteps DEF Write
  <1>3. /\ Same(c)
        /\ \/ /\ call'[c].pc \in {"cache", "token", "catalog", "record", "forget"}
              /\ call'[c].task = call[c].task /\ call'[c].names = n
           \/ call'[c].pc = "ok" /\ call'[c].task = "none"
    BY <1>1, WriteSteps DEF Goes, Ends
  <1>4. /\ store'.tokens \subseteq store.tokens \union n
        /\ store'.journal \subseteq store.journal \union n
        /\ store.catalog \subseteq store'.catalog
    BY <1>1, WriteSteps
  <1>5. MetInv'
    BY <1>2, <1>3 DEF SecretsKnown, MetInv, Same, Eraser, Is
  <1>6. \A d \in Callers \ {c} : ListedInv(d)'
    BY <1>2, <1>3, <1>4 DEF SecretsKnown, ListedInv, Same
  <1>7. ListedInv(c)'
    <2>1. \/ call'[c].pc = "record" /\ store'.catalog = store.catalog \union n
          \/ call[c].pc = "record"
          \/ ~(call'[c].pc \in {"record", "forget"})
      BY <1>1, WriteSteps DEF Goes, Ends, At
    <2> QED
      BY <1>2, <1>3, <1>4, <2>1 DEF SecretsKnown, ListedInv
  <1>8. EraseInv(c)'
    BY <1>3 DEF EraseInv, At, Eraser, Is
  <1>9. ASSUME NEW d \in Callers \ {c} PROVE EraseInv(d)'
    <2>1. call'[d] = call[d]
      BY <1>3, <1>9 DEF Same
    <2>2. CASE Eraser(d)
      <3>1. n \subseteq store.stray
        BY <1>2, <2>2 DEF SecretsKnown, MetInv
      <3> QED
        BY <1>2, <1>4, <2>1, <3>1, EraseUndisturbed DEF SecretsKnown
    <2>3. CASE ~Eraser(d)
      BY <2>1, <2>3 DEF EraseInv, At, Eraser, Is, Stationed, StationInv, Reaches
    <2> QED
      BY <2>2, <2>3
  <1>10. CoverInv'
    <2>1. SUFFICES ASSUME NEW m \in Secrets', m \notin (store.catalog \union store.cache \union store.stray)',
                          \A d \in Callers : ~(Writing(d)' /\ m \in call'[d].names)
                   PROVE  FALSE
      BY DEF CoverInv
    <2>2. \A d \in Callers \ {c} : ~(Writing(d) /\ m \in call[d].names)
      BY <1>3, <2>1 DEF Same, Writing
    <2>3. m \in Secrets => m \in store.cache \/ m \in n
      BY <1>2, <1>4, <2>1, <2>2 DEF SecretsKnown, CoverInv
    <2>4. call'[c].pc = "ok" \/ m \notin n
      BY <1>3, <2>1 DEF Writing
    <2>5. CASE m \notin n
      <3>1. m \in Secrets /\ (m \in store.cache => m \in store'.cache)
        BY <1>1, <1>4, <2>1, <2>5, WriteSteps DEF Secrets
      <3> QED
        BY <2>1, <2>3, <2>5, <3>1
    <2>6. CASE call'[c].pc = "ok"
      <3>1. \/ At(c, "catalog") /\ store'.catalog = store.catalog \union n
            \/ At(c, "forget")
        BY <1>1, <2>6, WriteSteps DEF Goes, Ends
      <3>2. At(c, "forget") => n \subseteq store.catalog \union store.stray
        BY DEF SecretsKnown, ListedInv, At
      <3>3. n \subseteq store'.catalog \union store'.stray
        BY <1>2, <1>4, <3>1, <3>2
      <3> QED
        BY <2>1, <2>5, <3>3
    <2> QED
      BY <2>4, <2>5, <2>6
  <1> QED
    BY <1>5, <1>6, <1>7, <1>8, <1>9, <1>10 DEF SecretsKnown

-----------------------------------------------------------------------------
(* What goes wrong, and what others do *)

LEMMA CutHas ==
  ASSUME call \in [Callers -> Call], NEW S \in SUBSET Callers
  PROVE  /\ Cut(S) \subseteq Profiles
         /\ \A d \in S : Writing(d) => call[d].names \subseteq Cut(S)
  BY DEF Cut, Call

(* Calls that are cut off leave their profile in "stray". *)
LEMMA CutKnown ==
  ASSUME Stationed, SecretsKnown,
         \A d \in Callers :
           \/ /\ call'[d].pc = call[d].pc /\ call'[d].task = call[d].task
              /\ call'[d].names = call[d].names
           \/ /\ call'[d].pc \in {"idle", "ok"} /\ call'[d].task = "none"
              /\ Writing(d) => call[d].names \subseteq store'.stray,
         store'.tokens = store.tokens, store'.journal = store.journal,
         store.stray \subseteq store'.stray,
         \/ store'.catalog = store.catalog /\ store'.cache = store.cache
         \/ /\ store'.catalog \in {{}, store.catalog}
            /\ Secrets \subseteq store'.stray /\ \E c \in Callers : Eraser(c)
  PROVE  SecretsKnown'
  <1>1. Secrets' = Secrets
    BY DEF Secrets
  <1>2. CoverInv'
    BY <1>1 DEF SecretsKnown, CoverInv, Writing
  <1>3. MetInv'
    BY DEF SecretsKnown, MetInv, Eraser, Is
  <1>4. ASSUME NEW d \in Callers PROVE ListedInv(d)'
    <2>1. call'[d].pc \in {"record", "forget"} =>
            call[d].pc \in {"record", "forget"} /\ call'[d].names = call[d].names
      OBVIOUS
    <2>2. (\E c \in Callers : Eraser(c)) /\ call[d].pc \in {"record", "forget"} =>
            call[d].names \subseteq store.stray
      BY DEF Stationed, StationInv, Reaches, SecretsKnown, MetInv, Is
    <2>3. ListedInv(d)
      BY DEF SecretsKnown
    <2> QED
      BY <2>1, <2>2, <2>3 DEF ListedInv
  <1>5. ASSUME NEW d \in Callers PROVE EraseInv(d)'
    <2>1. CASE /\ call'[d].pc = call[d].pc /\ call'[d].task = call[d].task
               /\ call'[d].names = call[d].names
      BY <2>1, EraseUndisturbed DEF SecretsKnown
    <2>2. CASE call'[d].pc \in {"idle", "ok"}
      BY <2>2 DEF EraseInv, At
    <2> QED
      BY <2>1, <2>2
  <1> QED
    BY <1>2, <1>3, <1>4, <1>5 DEF SecretsKnown

LEMMA FailKnown ==
  ASSUME SetupTypeOK, NEW c \in Callers, Stationed, SecretsKnown, Stopped(c) \/ Fail(c)
  PROVE  /\ SecretsKnown' /\ Ends(c, "idle") /\ Active(c) /\ store' \in Store
         /\ decision' \in Decisions \union {None}
         /\ UNCHANGED <<service, login, link, command, app>>
         /\ spent' \in [{"calls", "failures", "events"} -> Nat]
  <1>1. call \in [Callers -> Call] /\ store \in Store /\ decision \in Decisions \union {None}
        /\ spent \in [{"calls", "failures", "events"} -> Nat]
    BY DEF SetupTypeOK
  <1>2. Ends(c, "idle") /\ Active(c) /\ UNCHANGED <<service, login, link, command, app>>
        /\ spent' \in [{"calls", "failures", "events"} -> Nat]
    BY <1>1, CallEnds DEF Stopped, Fail, Writing, Active, SpendOne, setup
  <1>3. Cut({c}) \subseteq Profiles /\ (Writing(c) => call[c].names \subseteq Cut({c}))
    BY <1>1, CutHas
  <1> DEFINE left == [store EXCEPT !.stray = @ \union Cut({c})]
  <1>4. /\ left \in Store /\ left.stray = store.stray \union Cut({c})
        /\ left.tokens = store.tokens /\ left.journal = store.journal
        /\ left.catalog = store.catalog /\ left.cache = store.cache
    BY <1>1, <1>3 DEF Store
  <1>5. \/ store' = left /\ decision' = decision
        \/ /\ At(c, "support") /\ decision' \in {decision, None}
           /\ \E names \in {{}, store.catalog} :
                store' = [left EXCEPT !.catalog = names, !.cache = {}]
    BY DEF Stopped, Fail, setup
  <1> HIDE DEF left
  <1>6. \A d \in Callers :
          \/ /\ call'[d].pc = call[d].pc /\ call'[d].task = call[d].task
             /\ call'[d].names = call[d].names
          \/ /\ call'[d].pc \in {"idle", "ok"} /\ call'[d].task = "none"
             /\ Writing(d) => call[d].names \subseteq left.stray
    BY <1>2, <1>3, <1>4 DEF Ends, Same
  <1>7. CASE store' = left /\ decision' = decision
    BY <1>1, <1>2, <1>4, <1>6, <1>7, CutKnown
  <1>8. ASSUME NEW names \in {{}, store.catalog}, At(c, "support"),
               decision' \in {decision, None},
               store' = [left EXCEPT !.catalog = names, !.cache = {}]
        PROVE  SecretsKnown' /\ store' \in Store /\ decision' \in Decisions \union {None}
    <2>1. names \subseteq Profiles
      BY <1>1, <1>8 DEF Store
    <2>2. /\ store' \in Store /\ store'.catalog = names
          /\ store'.stray = left.stray /\ store'.tokens = left.tokens
          /\ store'.journal = left.journal
      BY <1>4, <1>8, <2>1 DEF Store
    <2>3. Eraser(c) /\ Secrets \subseteq store.stray
      BY <1>8 DEF Stationed, StationInv, Reaches, SecretsKnown, EraseInv, At, Is, Eraser
    <2>4. SecretsKnown'
      BY <1>4, <1>6, <2>2, <2>3, CutKnown
    <2> QED
      BY <1>1, <1>8, <2>2, <2>4
  <1> QED
    BY <1>2, <1>5, <1>7, <1>8

LEMMA TrashKnown ==
  ASSUME SetupTypeOK, NEW c \in Callers, Stationed, SecretsKnown,
         \A d \in Callers : AloneInv(d), Trash(c)
  PROVE  /\ SecretsKnown' /\ Stationed' /\ \A d \in Callers : AloneInv(d)'
         /\ call' \in [Callers -> Call] /\ store' \in Store /\ app' = "trashed"
         /\ UNCHANGED <<service, decision, login, link, command, spent>>
         /\ \A d \in Callers \ {c} : call'[d] = call[d] \/ call'[d].pc = "idle"
         /\ call'[c].pc = "ok"
         /\ At(c, "trash") /\ store.stray \subseteq store'.stray
         /\ UNCHANGED <<store.tokens, store.journal, store.catalog, store.cache, store.include>>
  <1>1. call \in [Callers -> Call] /\ store \in Store
    BY DEF SetupTypeOK
  <1>2. At(c, "trash") /\ app' = "trashed" /\ UNCHANGED <<service, decision, login, link, command, spent>>
    BY DEF Trash
  <1>3. /\ call' \in [Callers -> Call]
        /\ \A d \in Callers : \/ d # c /\ call'[d] = call[d]
                              \/ /\ call'[d].pc = IF d = c THEN "ok" ELSE "idle"
                                 /\ call'[d].task = "none" /\ ~call'[d].alone /\ ~call'[d].found
    BY <1>1, IdleIs DEF Trash
  <1>4. Cut(Callers) \subseteq Profiles
        /\ \A d \in Callers : Writing(d) => call[d].names \subseteq Cut(Callers)
    BY <1>1, CutHas
  <1>5. /\ store' \in Store /\ store'.stray = store.stray \union Cut(Callers)
        /\ UNCHANGED <<store.tokens, store.journal, store.catalog, store.cache, store.include>>
    BY <1>1, <1>4 DEF Trash, Store
  <1>6. SecretsKnown'
    BY <1>3, <1>4, <1>5, CutKnown
  <1>7. ASSUME NEW d \in Callers PROVE StationInv(d)' /\ AloneInv(d)'
    <2>1. CASE d # c /\ call'[d] = call[d]
      <3>1. Active(c)
        BY <1>2 DEF At, Active
      <3> QED
        BY <2>1, <3>1, NobodyAlone, UnmovedAlone, UnmovedStation DEF Stationed
    <2>2. CASE ~(d # c /\ call'[d] = call[d])
      <3>1. /\ call'[d].pc \in {"ok", "idle"} /\ call'[d].task = "none"
            /\ ~call'[d].alone /\ ~call'[d].found
        BY <1>3, <2>2
      <3> QED
        BY <3>1 DEF StationInv, Reaches, AloneInv, Is
    <2> QED
      BY <2>1, <2>2
  <1> QED
    BY <1>2, <1>3, <1>5, <1>6, <1>7 DEF Stationed

(* Whoever is disturbed stays where it is, and is not alone any longer.    *)
LEMMA DisturbIs ==
  ASSUME call \in [Callers -> Call], NEW stations, Disturb(stations)
  PROVE  /\ call' \in [Callers -> Call]
         /\ \A d \in Callers :
              /\ ~call'[d].alone
              /\ call'[d].pc = call[d].pc /\ call'[d].task = call[d].task
              /\ call'[d].names = call[d].names /\ call'[d].found = call[d].found
              /\ call[d].overtaken \/ call[d].pc \in stations => call'[d].overtaken
  <1>1. ASSUME NEW d \in Callers
        PROVE  LET t == [call[d] EXCEPT !.alone = FALSE,
                                        !.overtaken = @ \/ call[d].pc \in stations]
               IN  /\ t \in Call /\ ~t.alone /\ t.pc = call[d].pc
                   /\ t.task = call[d].task /\ t.names = call[d].names
                   /\ t.found = call[d].found
                   /\ call[d].overtaken \/ call[d].pc \in stations => t.overtaken
    <2>1. (call[d].overtaken \/ call[d].pc \in stations) \in BOOLEAN
      OBVIOUS
    <2>2. ASSUME NEW b \in BOOLEAN
          PROVE  LET t == [call[d] EXCEPT !.alone = FALSE, !.overtaken = b]
                 IN  /\ t \in Call /\ ~t.alone /\ t.pc = call[d].pc
                     /\ t.task = call[d].task /\ t.names = call[d].names
                     /\ t.found = call[d].found /\ t.overtaken = b
      <3>1. call[d] \in Call
        OBVIOUS
      <3> QED
        BY <3>1 DEF Call
    <2> QED
      BY <2>1, <2>2
  <1> QED
    BY <1>1 DEF Disturb

LEMMA EventsKnown ==
  ASSUME SetupTypeOK, Stationed, SecretsKnown, \A d \in Callers : AloneInv(d),
         LogIn \/ Upgrade \/ Reinstall \/ InstallCommand \/ InstallItem
  PROVE  /\ SecretsKnown' /\ Stationed' /\ \A d \in Callers : AloneInv(d)'
         /\ SetupTypeOK'
         /\ \A d \in Callers : call'[d].pc \in {call[d].pc, "idle"}
         /\ UNCHANGED plist
  <1> USE DEF service, setup
  <1>1. call \in [Callers -> Call] /\ store \in Store
        /\ spent \in [{"calls", "failures", "events"} -> Nat]
    BY DEF SetupTypeOK
  <1>2. spent' \in [{"calls", "failures", "events"} -> Nat]
    BY <1>1 DEF LogIn, Upgrade, Reinstall, InstallCommand, InstallItem, SpendOne
  <1>3. CASE LogIn
    <2>1. /\ loaded' = plist /\ current' = TRUE /\ UNCHANGED <<plist, setup>>
          /\ store' = [store EXCEPT !.stray = @ \union Cut(Callers)]
      BY <1>3 DEF LogIn
    <2>2. /\ call' \in [Callers -> Call]
          /\ \A d \in Callers : \/ ~Active(d) /\ call'[d] = call[d]
                                \/ /\ call'[d].pc = "idle" /\ call'[d].task = "none"
                                   /\ ~call'[d].alone /\ ~call'[d].found
      BY <1>1, <1>3, IdleIs DEF LogIn
    <2>3. Cut(Callers) \subseteq Profiles
          /\ \A d \in Callers : Writing(d) => call[d].names \subseteq Cut(Callers)
      BY <1>1, CutHas
    <2>4. /\ store' \in Store /\ store'.stray = store.stray \union Cut(Callers)
          /\ UNCHANGED <<store.tokens, store.journal, store.catalog, store.cache>>
      BY <1>1, <2>1, <2>3 DEF Store
    <2>5. SecretsKnown'
      BY <2>2, <2>3, <2>4, CutKnown
    <2>6. \A d \in Callers : ~Active(d)'
      BY <2>2 DEF Active
    <2>7. ASSUME NEW d \in Callers PROVE StationInv(d)' /\ AloneInv(d)'
      <3>1. CASE ~Active(d) /\ call'[d] = call[d]
        <4>1. StationInv(d)'
          BY <3>1, UnmovedStation DEF Stationed
        <4>2. call'[d].task = "none" /\ call'[d].pc \in {"idle", "ok"}
          BY <3>1 DEF Stationed, StationInv, Reaches, Active
        <4> QED
          BY <2>6, <4>1, <4>2 DEF AloneInv, Is, At
      <3>2. CASE ~(~Active(d) /\ call'[d] = call[d])
        BY <2>2, <3>2 DEF StationInv, Reaches, AloneInv, Is
      <3> QED
        BY <3>1, <3>2
    <2>8. \A d \in Callers : At(d, "decide")' => Is(d, {"enable", "defer", "initialize"})'
      BY <2>6 DEF At, Active
    <2>9. SetupTypeOK'
      BY <1>2, <2>1, <2>2, <2>4, <2>8 DEF SetupTypeOK
    <2> QED
      BY <2>1, <2>2, <2>5, <2>7, <2>9 DEF Stationed
  <1>4. CASE Upgrade \/ Reinstall \/ InstallCommand \/ InstallItem
    <2>1. /\ UNCHANGED <<plist, loaded, decision, store>>
          /\ Disturb({}) \/ Disturb({"removeLink"}) \/ Disturb({"rewrite", "removeLogin"})
          /\ current' \in {current, FALSE} /\ app' \in {app, "reinstalled"}
          /\ link' \in {link, "conflict"} /\ command' \in {command, TRUE}
          /\ login' \in {login, "foreign"}
      BY <1>4 DEF Upgrade, Reinstall, InstallCommand, InstallItem
    <2>2. /\ call' \in [Callers -> Call]
          /\ \A d \in Callers :
               /\ ~call'[d].alone
               /\ call'[d].pc = call[d].pc /\ call'[d].task = call[d].task
               /\ call'[d].names = call[d].names /\ call'[d].found = call[d].found
      <3>1. PICK stations : Disturb(stations)
        BY <2>1
      <3> QED
        BY <1>1, <3>1, DisturbIs
    <2>3. SecretsKnown'
      BY <2>1, <2>2, CutKnown
    <2>4. Stationed' /\ \A d \in Callers : AloneInv(d)'
      BY <2>2 DEF Stationed, StationInv, Reaches, AloneInv, Is
    <2>5. \A d \in Callers : At(d, "decide")' => Is(d, {"enable", "defer", "initialize"})'
      BY <2>2 DEF SetupTypeOK, At, Is
    <2>6. SetupTypeOK'
      <3>1. /\ plist' \in Programs \union {None} /\ loaded' \in Programs \union {None}
            /\ decision' \in Decisions \union {None} /\ store' \in Store
        BY <2>1 DEF SetupTypeOK
      <3>2. /\ current' \in BOOLEAN /\ command' \in BOOLEAN
            /\ app' \in {"installed", "trashed", "reinstalled"}
        BY <2>1 DEF SetupTypeOK
      <3>3. login' \in Logins /\ link' \in Links
        BY <2>1 DEF SetupTypeOK, Links, Logins
      <3> QED
        BY <1>2, <2>2, <2>5, <3>1, <3>2, <3>3 DEF SetupTypeOK
    <2> QED
      BY <2>1, <2>2, <2>3, <2>4, <2>6
  <1> QED
    BY <1>3, <1>4

-----------------------------------------------------------------------------
(* A call begins *)

New(task, pc, program, names, alone) ==
  [Idle EXCEPT !.task = task, !.pc = pc, !.program = program, !.names = names,
               !.alone = alone]

LEMMA NewIs ==
  ASSUME NEW task \in Tasks, NEW pc \in Stations, NEW program \in Programs,
         NEW names \in SUBSET Profiles, NEW alone \in BOOLEAN
  PROVE  LET t == New(task, pc, program, names, alone) IN
         /\ t \in Call /\ t.task = task /\ t.pc = pc /\ t.names = names
         /\ t.alone = alone /\ ~t.found
  BY DEF New, Idle, Call

LEMMA BeginKnown ==
  ASSUME SetupTypeOK, Stationed, SecretsKnown, \A d \in Callers : AloneInv(d),
         NEW c \in Callers, NEW task \in Tasks, NEW n \in Profiles,
         NEW program \in Programs, Begin(c, task, n, program)
  PROVE  /\ SecretsKnown' /\ Stationed' /\ \A d \in Callers : AloneInv(d)'
         /\ SetupTypeOK' /\ UNCHANGED <<service, setup>> /\ ~Active(c)
         /\ call'[c].pc = FirstStation(task)
         /\ \A d \in Callers \ {c} :
              call'[d].pc = call[d].pc /\ call'[d].overtaken = call[d].overtaken
  <1> DEFINE others == {d \in Callers : Active(d)}
             names  == IF task \in {"paste", "enroll"} THEN {n} ELSE {}
             met    == UNION {call[d].names : d \in {e \in others : ~Is(e, {"erase"})}}
             quiet  == \A d \in Callers : ~Active(d)
             new == New(task, FirstStation(task), program, names, quiet)
  <1>1. call \in [Callers -> Call] /\ store \in Store
        /\ spent \in [{"calls", "failures", "events"} -> Nat]
    BY DEF SetupTypeOK
  <1>2. /\ spent' \in [{"calls", "failures", "events"} -> Nat] /\ ~Active(c)
        /\ UNCHANGED <<service, setup>>
    <2>1. SpendOne("calls", MaxCalls) /\ ~Active(c) /\ UNCHANGED <<service, setup>>
      BY DEF Begin
    <2>2. spent' \in [{"calls", "failures", "events"} -> Nat]
      BY <1>1, <2>1 DEF SpendOne
    <2> QED
      BY <2>1, <2>2
  <1>3. /\ call' = [d \in Callers |->
                     IF d = c THEN new ELSE [call[d] EXCEPT !.alone = FALSE]]
        /\ store' = IF task = "erase" \/ \E d \in others : Is(d, {"erase"})
                    THEN [store EXCEPT !.stray = @ \union new.names \union met]
                    ELSE store
    BY DEF Begin, New
  <1>4. FirstStation(task) \in Stations
        /\ (task \in {"install", "enable"} => FirstStation(task) = "compare")
        /\ (task \in {"sync", "paste"} => FirstStation(task) = "reach")
        /\ (task \in {"remove", "defer"} => FirstStation(task) = "probeOut")
        /\ (task = "initialize" => FirstStation(task) = "associate")
        /\ (task = "link" => FirstStation(task) = "detect")
        /\ (task = "enroll" => FirstStation(task) = "send")
        /\ (task = "login" => FirstStation(task) = "login")
        /\ (task \in {"logout", "keep", "erase"} => FirstStation(task) = "logout")
    BY DEF FirstStation, Stations, Tasks, CliTasks
  <1>5. /\ new \in Call /\ new.task = task /\ new.pc = FirstStation(task)
        /\ new.names = names /\ ~new.found
        /\ new.alone => \A d \in Callers : ~Active(d)
    <2>1. names \in SUBSET Profiles /\ quiet \in BOOLEAN
      OBVIOUS
    <2>3. quiet => \A d \in Callers : ~Active(d)
      OBVIOUS
    <2> HIDE DEF quiet, names
    <2>4. /\ new \in Call /\ new.task = task /\ new.pc = FirstStation(task) /\ new.names = names
          /\ new.alone = quiet /\ ~new.found
      BY <1>4, <2>1, NewIs
    <2> QED
      BY <2>3, <2>4
  <1> HIDE DEF new
  <1>6. \A t \in Call : /\ [t EXCEPT !.alone = FALSE] \in Call
                       /\ ~[t EXCEPT !.alone = FALSE].alone
                       /\ [t EXCEPT !.alone = FALSE].pc = t.pc
                       /\ [t EXCEPT !.alone = FALSE].task = t.task
                       /\ [t EXCEPT !.alone = FALSE].names = t.names
                       /\ [t EXCEPT !.alone = FALSE].found = t.found
                       /\ [t EXCEPT !.alone = FALSE].overtaken = t.overtaken
    BY DEF Call
  <1>7. /\ call' \in [Callers -> Call] /\ call'[c] = new
        /\ \A d \in Callers \ {c} :
             /\ ~call'[d].alone /\ call'[d].overtaken = call[d].overtaken
             /\ call'[d].pc = call[d].pc /\ call'[d].task = call[d].task
             /\ call'[d].names = call[d].names /\ call'[d].found = call[d].found
    BY <1>1, <1>3, <1>5, <1>6
  <1>8. names \subseteq Profiles /\ met \subseteq Profiles
    BY <1>1 DEF Call
  <1>9. /\ store' \in Store /\ store.stray \subseteq store'.stray
        /\ UNCHANGED <<store.tokens, store.journal, store.catalog, store.cache>>
        /\ (task = "erase" \/ \E d \in others : Is(d, {"erase"})) =>
             names \union met \subseteq store'.stray
    BY <1>1, <1>3, <1>5, <1>8 DEF Store
  <1> HIDE DEF met, names
  <1>10. ASSUME NEW d \in Callers PROVE StationInv(d)'
    <2>1. CASE d = c
      BY <1>4, <1>5, <1>7, <2>1 DEF StationInv, Reaches, Is, Tasks, CliTasks
    <2>2. CASE d # c
      BY <1>7, <2>2 DEF Stationed, StationInv, Reaches, Is
    <2> QED
      BY <2>1, <2>2
  <1>11. ASSUME NEW d \in Callers PROVE AloneInv(d)'
    <2>1. CASE d = c
      <3>1. call'[c].alone => \A e \in Callers \ {c} : ~Active(e)'
        BY <1>5, <1>7 DEF Active
      <3> QED
        BY <1>4, <1>5, <1>7, <2>1, <3>1 DEF AloneInv, Is, At
    <2>2. CASE d # c
      BY <1>7, <2>2 DEF AloneInv
    <2> QED
      BY <2>1, <2>2
  <1>12. CoverInv'
    <2>1. Secrets' = Secrets
      BY <1>9 DEF Secrets
    <2>2. \A d \in Callers : Writing(d) => d # c /\ Writing(d)' /\ call'[d].names = call[d].names
      BY <1>2, <1>7 DEF Writing, Active
    <2> QED
      BY <1>9, <2>1, <2>2 DEF SecretsKnown, CoverInv
  <1>13. MetInv'
    <2>1. SUFFICES ASSUME NEW e \in Callers, NEW d \in Callers,
                          Eraser(e)', Is(d, {"paste", "enroll"})'
                   PROVE  call'[d].names \subseteq store'.stray
      BY DEF MetInv
    <2>2. CASE e # c /\ d # c
      BY <1>7, <1>9, <2>1, <2>2 DEF SecretsKnown, MetInv, Eraser, Is
    <2>3. CASE e = c /\ d # c
      <3>1. task = "erase" /\ Is(d, {"paste", "enroll"}) /\ ~Is(d, {"erase"})
        BY <1>5, <1>7, <2>1, <2>3 DEF Eraser, Is
      <3>2. Active(d)
        BY <3>1 DEF Stationed, StationInv, Reaches, Active, Is
      <3>3. call[d].names \subseteq met
        BY <3>1, <3>2 DEF met
      <3> QED
        BY <1>7, <1>9, <2>3, <3>1, <3>3
    <2>4. CASE e # c /\ d = c
      <3>1. Is(e, {"erase"}) /\ call'[d].names = names
        BY <1>5, <1>7, <2>1, <2>4 DEF Eraser, Is
      <3>2. Active(e)
        BY <3>1 DEF Stationed, StationInv, Reaches, Active, Is
      <3> QED
        BY <1>9, <3>1, <3>2
    <2>5. CASE e = c /\ d = c
      BY <2>1, <2>5 DEF Eraser, Is
    <2> QED
      BY <2>2, <2>3, <2>4, <2>5
  <1>14. ASSUME NEW d \in Callers PROVE ListedInv(d)' /\ EraseInv(d)'
    <2>1. CASE d = c
      <3>1. ~(call'[c].pc \in {"record", "forget", "secret", "clear", "uncache", "include",
                              "support", "trash"})
        BY <1>4, <1>5, <1>7 DEF Tasks, CliTasks
      <3> QED
        BY <2>1, <3>1 DEF ListedInv, EraseInv, At
    <2>2. CASE d # c
      BY <1>7, <1>9, <2>2, EraseUndisturbed DEF SecretsKnown, ListedInv
    <2> QED
      BY <2>1, <2>2
  <1>15. \A d \in Callers : At(d, "decide")' => Is(d, {"enable", "defer", "initialize"})'
    BY <1>10 DEF StationInv, Reaches, At, Is
  <1>16. SetupTypeOK'
    BY <1>2, <1>7, <1>9, <1>15 DEF SetupTypeOK, service, setup
  <1> QED
    BY <1>2, <1>5, <1>7, <1>10, <1>11, <1>12, <1>13, <1>14, <1>16 DEF SecretsKnown, Stationed

-----------------------------------------------------------------------------
(* The invariant *)

LEMMA InitSetup ==
  ASSUME SetupInit
  PROVE  SetupInv
  <1>1. /\ call \in [Callers -> Call]
        /\ \A c \in Callers : /\ call[c].pc = "idle" /\ call[c].task = "none"
                             /\ ~call[c].alone /\ ~call[c].found /\ call[c].names = {}
    BY IdleIs DEF SetupInit
  <1>2. \A c \in Callers : StationInv(c) /\ AloneInv(c) /\ ListedInv(c) /\ EraseInv(c)
    BY <1>1 DEF StationInv, Reaches, AloneInv, ListedInv, EraseInv, Eraser, Is, At
  <1>3. PICK left \in Traces :
          store = [catalog |-> With(left, {"pasted", "managed"}),
                   tokens  |-> With(left, {"pasted", "managed"}),
                   journal |-> With(left, {"managed", "pending"}),
                   cache   |-> With(left, {"managed", "pending"}),
                   include |-> With(left, {"pasted", "managed"}) # {},
                   stray   |-> {}]
    BY DEF SetupInit
  <1>4. store \in Store /\ Secrets \subseteq store.catalog \union store.cache
    BY <1>3 DEF Store, With, Secrets
  <1>5. CoverInv /\ MetInv
    BY <1>1, <1>4 DEF CoverInv, MetInv, Eraser, Is
  <1>6. SetupTypeOK
    <2>1. /\ plist \in Programs \union {None} /\ loaded \in Programs \union {None}
          /\ decision \in Decisions \union {None}
      BY DEF SetupInit, Programs, Decisions
    <2>2. login \in Logins /\ link \in Links /\ command \in BOOLEAN
      BY MachineAssumption DEF SetupInit
    <2>3. /\ current \in BOOLEAN /\ app \in {"installed", "trashed", "reinstalled"}
          /\ spent \in [{"calls", "failures", "events"} -> Nat]
      BY DEF SetupInit
    <2> QED
      BY <1>1, <1>4, <2>1, <2>2, <2>3 DEF SetupTypeOK, At
  <1> QED
    BY <1>2, <1>5, <1>6 DEF SetupInv

(* Whoever moves, the others stay where they are, and none of them is      *)
(* alone.                                                                  *)
LEMMA OneMoves ==
  ASSUME SetupInv, NEW c \in Callers, Active(c), Same(c),
         StationInv(c)', AloneInv(c)', SecretsKnown',
         plist' \in Programs \union {None}, loaded' \in Programs \union {None},
         current' \in BOOLEAN, decision' \in Decisions \union {None},
         login' \in Logins, link' \in Links, command' = command, app' = app, store' \in Store,
         spent' \in [{"calls", "failures", "events"} -> Nat]
  PROVE  SetupInv'
  <1>1. ASSUME NEW d \in Callers PROVE StationInv(d)' /\ AloneInv(d)'
    <2>1. CASE d = c
      BY <2>1
    <2>2. CASE d # c
      <3>1. call'[d] = call[d]
        BY <2>2 DEF Same
      <3> QED
        BY <2>2, <3>1, NobodyAlone, UnmovedAlone, UnmovedStation DEF SetupInv
    <2> QED
      BY <2>1, <2>2
  <1>2. \A d \in Callers : At(d, "decide")' => Is(d, {"enable", "defer", "initialize"})'
    BY <1>1 DEF StationInv, Reaches, At, Is
  <1>3. SetupTypeOK'
    BY <1>2 DEF SetupInv, SetupTypeOK, Same
  <1> QED
    BY <1>1, <1>3 DEF SetupInv, SecretsKnown

LEMMA NextSetup ==
  ASSUME SetupInv, [SetupNext]_setupVars
  PROVE  SetupInv'
  <1> USE DEF service, setup
  <1>1. /\ SetupTypeOK /\ Stationed /\ SecretsKnown
        /\ \A c \in Callers : StationInv(c) /\ AloneInv(c)
    BY DEF SetupInv, Stationed, SecretsKnown
  <1>2. /\ plist \in Programs \union {None} /\ loaded \in Programs \union {None}
        /\ current \in BOOLEAN /\ decision \in Decisions \union {None}
        /\ login \in Logins /\ link \in Links /\ store \in Store
        /\ spent \in [{"calls", "failures", "events"} -> Nat]
    BY <1>1 DEF SetupTypeOK
  <1>3. ASSUME NEW c \in Callers, NEW task \in Tasks, NEW n \in Profiles,
               NEW program \in Programs, Begin(c, task, n, program)
        PROVE  SetupInv'
    BY <1>1, <1>3, BeginKnown DEF SetupInv, Stationed, SecretsKnown
  <1>4. ASSUME NEW c \in Callers, EnsureStep(c) PROVE SetupInv'
    <2>1. PICK from \in {"reach", "compare", "list", "probe", "bootout", "bootstrap",
                        "version", "kickstart"} :
            Steps(c, from, {"send", "compare", "list", "probe", "version", "bootout",
                            "bootstrap", "settle", "decide", "kickstart"}, {"idle", "ok"})
      BY <1>1, <1>4, EnsureSteps
    <2>2. Active(c) /\ Same(c) /\ UNCHANGED <<command, app, store, spent>> /\ call'[c].pc # "trash"
      BY <2>1 DEF Steps, At, Active, Goes, Ends
    <2>3. SecretsKnown'
      BY <1>1, <2>1, <2>2, PlainKnown DEF Steps, Stations
    <2> QED
      BY <1>1, <1>2, <1>4, <2>2, <2>3, EnsureSteps, OneMoves
  <1>5. ASSUME NEW c \in Callers, SetupStep(c) PROVE SetupInv'
    <2>1. PICK from \in {"registered", "settle", "decide", "probeOut", "unload", "unlist"} :
            Steps(c, from, {"settle", "compare", "decide", "unload", "unlist", "unlink"},
                  {"idle", "ok"})
      BY <1>1, <1>5, SetupSteps
    <2>2. Active(c) /\ Same(c) /\ UNCHANGED <<command, app, store, spent>> /\ call'[c].pc # "trash"
      BY <2>1 DEF Steps, At, Active, Goes, Ends
    <2>3. SecretsKnown'
      BY <1>1, <2>1, <2>2, PlainKnown DEF Steps, Stations
    <2> QED
      BY <1>1, <1>2, <1>5, <2>2, <2>3, SetupSteps, OneMoves
  <1>6. ASSUME NEW c \in Callers, LoginStep(c) \/ LinkStep(c) \/ Send(c) PROVE SetupInv'
    <2>1. PICK from \in {"login", "associate", "rewrite", "logout", "removeLogin", "detect",
                        "symlink", "verify", "unlink", "removeLink", "send"} :
            Steps(c, from, {"associate", "rewrite", "removeLogin", "registered", "probeOut",
                            "symlink", "verify", "removeLink", "names", "trash", "send",
                            "journal", "token"}, {"idle", "ok"})
      BY <1>1, <1>6, InstallSteps
    <2>2. Active(c) /\ Same(c) /\ UNCHANGED <<command, app, store, spent>>
      BY <2>1 DEF Steps, At, Active, Goes, Ends
    <2>3. call'[c].pc = "trash" => ~Eraser(c)
      BY <1>1, <1>6, InstallSteps
    <2>4. SecretsKnown'
      BY <1>1, <2>1, <2>3, PlainKnown DEF Steps, Stations
    <2> QED
      BY <1>1, <1>2, <1>6, <2>2, <2>4, InstallSteps, OneMoves
  <1>7. ASSUME NEW c \in Callers,
               \/ Names(c) \/ Secret(c) \/ Clear(c)
               \/ Uncache(c) \/ Include(c) \/ Support(c)
        PROVE  SetupInv'
    <2>1. /\ StationInv(c)' /\ AloneInv(c)' /\ Same(c) /\ Active(c)
          /\ store' \in Store /\ decision' \in Decisions \union {None}
          /\ UNCHANGED <<service, login, link, command, app, spent>>
      BY <1>1, <1>7, EraseSteps DEF Active
    <2>2. SecretsKnown'
      BY <1>1, <1>7, EraseKnown
    <2> QED
      BY <1>2, <2>1, <2>2, OneMoves
  <1>8. ASSUME NEW c \in Callers, Trash(c) PROVE SetupInv'
    <2>1. /\ SecretsKnown' /\ Stationed' /\ (\A d \in Callers : AloneInv(d)')
          /\ call' \in [Callers -> Call] /\ store' \in Store /\ app' = "trashed"
          /\ UNCHANGED <<service, decision, login, link, command, spent>>
      BY <1>1, <1>8, TrashKnown
    <2>2. \A d \in Callers : At(d, "decide")' => Is(d, {"enable", "defer", "initialize"})'
      BY <2>1 DEF Stationed, StationInv, Reaches, At, Is
    <2>3. SetupTypeOK'
      BY <1>1, <1>2, <2>1, <2>2 DEF SetupTypeOK
    <2> QED
      BY <2>1, <2>3 DEF SetupInv, SecretsKnown, Stationed
  <1>9. ASSUME NEW c \in Callers, Write(c) PROVE SetupInv'
    <2>1. /\ StationInv(c)' /\ AloneInv(c)' /\ store' \in Store
          /\ UNCHANGED <<service, setup, spent>>
      BY <1>1, <1>9, WriteSteps
    <2>2. Same(c) /\ Active(c)
      BY <1>1, <1>9, WriteSteps DEF Goes, Ends, At, Active
    <2>3. SecretsKnown'
      BY <1>1, <1>9, WriteKnown
    <2> QED
      BY <1>2, <2>1, <2>2, <2>3, OneMoves
  <1>10. ASSUME NEW c \in Callers, Stopped(c) \/ Fail(c) PROVE SetupInv'
    <2>1. /\ SecretsKnown' /\ Ends(c, "idle") /\ Active(c) /\ store' \in Store
          /\ decision' \in Decisions \union {None}
          /\ UNCHANGED <<service, login, link, command, app>>
          /\ spent' \in [{"calls", "failures", "events"} -> Nat]
      BY <1>1, <1>10, FailKnown
    <2>2. StationInv(c)' /\ AloneInv(c)' /\ Same(c)
      BY <2>1, EndedKeeps DEF Ends
    <2> QED
      BY <1>2, <2>1, <2>2, OneMoves
  <1>11. CASE LogIn \/ Upgrade \/ Reinstall \/ InstallCommand \/ InstallItem
    BY <1>1, <1>11, EventsKnown DEF SetupInv, Stationed, SecretsKnown
  <1>12. CASE UNCHANGED setupVars
    BY <1>12 DEF setupVars, SetupInv, SetupTypeOK, CoverInv, MetInv, Secrets, Writing, Eraser,
       StationInv, Reaches, AloneInv, ListedInv, EraseInv, Rest, At, Is, Active
  <1> QED
    BY <1>3, <1>4, <1>5, <1>6, <1>7, <1>8, <1>9, <1>10, <1>11, <1>12
    DEF SetupNext, EraseStep, ChangeStep

-----------------------------------------------------------------------------
(* Who succeeds, and what is known then *)

NoneSucceeds == \A d \in Callers : call'[d].pc = "ok" => call[d].pc = "ok"

LEMMA GoingOn ==
  ASSUME call \in [Callers -> Call], NEW c \in Callers
  PROVE  /\ \A pc \in Stations \ {"ok"} : Go(c, pc) => NoneSucceeds
         /\ Refuse(c) => NoneSucceeds
  <1>1. \A pc \in Stations \ {"ok"} : Goes(c, pc) => NoneSucceeds
    BY DEF Goes, Same, NoneSucceeds
  <1>2. Ends(c, "idle") => NoneSucceeds
    BY DEF Ends, Same, NoneSucceeds
  <1> QED
    BY <1>1, <1>2, GoGoes, CallEnds

LEMMA WhoSucceeds ==
  ASSUME SetupInv, [SetupNext]_setupVars, NEW c \in Callers, Succeeds(c)
  PROVE  \/ Version(c) \/ Settle(c) \/ Decide(c) \/ Unlist(c) \/ Detect(c) \/ Verify(c)
         \/ Send(c) \/ Write(c) \/ Trash(c)
  <1> DEFINE Ending(d) == \/ Version(d) \/ Settle(d) \/ Decide(d) \/ Unlist(d) \/ Detect(d)
                          \/ Verify(d) \/ Send(d) \/ Write(d) \/ Trash(d)
  <1>1. /\ SetupTypeOK /\ Stationed /\ SecretsKnown
        /\ \A d \in Callers : StationInv(d) /\ AloneInv(d)
        /\ call \in [Callers -> Call]
    BY DEF SetupInv, Stationed, SecretsKnown, SetupTypeOK
  <1>2. ~NoneSucceeds
    BY DEF Succeeds, Active, NoneSucceeds
  <1>3. ASSUME NEW d \in Callers, Ending(d) PROVE Ending(c)
    <2>1. Same(d) \/ (\A e \in Callers \ {d} : call'[e] = call[e] \/ call'[e].pc = "idle")
      BY <1>1, <1>3, EnsureSteps, SetupSteps, InstallSteps, WriteSteps, TrashKnown
      DEF EnsureStep, SetupStep, LinkStep, Steps, Goes, Ends
    <2>2. d = c
      BY <2>1 DEF Same, Succeeds, Active
    <2> QED
      BY <1>3, <2>2
  <1>4. ASSUME NEW d \in Callers, NEW task \in Tasks, NEW n \in Profiles,
               NEW program \in Programs, Begin(d, task, n, program)
        PROVE  FALSE
    <2>1. ~Active(d) /\ \A e \in Callers \ {d} : call'[e].pc = call[e].pc
      BY <1>1, <1>4, BeginKnown
    <2> QED
      BY <2>1 DEF Succeeds, Active
  <1>5. ASSUME NEW d \in Callers,
               \/ Reach(d) \/ Compare(d) \/ List(d) \/ Probe(d) \/ Bootout(d)
               \/ Bootstrap(d) \/ Kickstart(d)
        PROVE  FALSE
    <2>1. \A pc \in {"reach", "send", "compare", "probe", "version", "bootout", "bootstrap",
                     "settle", "decide"} : pc \in Stations \ {"ok"}
      BY DEF Stations
    <2>2. Compare(d) => NoneSucceeds
      BY <1>1 DEF Compare, NoneSucceeds
    <2> QED
      BY <1>1, <1>2, <1>5, <2>1, <2>2, GoingOn
      DEF Reach, List, Probe, Bootout, Bootstrap, Kickstart, AfterEnsure
  <1>6. ASSUME NEW d \in Callers,
               \/ Registered(d) \/ ProbeOut(d) \/ Unload(d)
               \/ LoginStep(d) \/ Symlink(d) \/ Unlink(d) \/ RemoveLink(d)
        PROVE  FALSE
    <2>1. \A pc \in {"registered", "compare", "settle", "unload", "unlist", "send", "probeOut",
                     "associate", "rewrite", "removeLogin", "verify", "removeLink", "names",
                     "trash"} : pc \in Stations \ {"ok"}
      BY DEF Stations
    <2>2. \A pc \in {"associate", "rewrite", "removeLogin", "removeLink"} :
            Look(d, pc) => NoneSucceeds
      BY <1>1, <2>1, LookGoes DEF Goes, Same, NoneSucceeds
    <2>3. AfterLogin(d) \in {"registered", "send", "probeOut"}
          /\ AfterLink(d) \in {"names", "trash"}
      BY DEF AfterLogin, AfterLink
    <2>4. Go(d, AfterLogin(d)) \/ Go(d, AfterLink(d)) => NoneSucceeds
      BY <1>1, <2>1, <2>3, GoingOn
    <2> QED
      BY <1>1, <1>2, <1>6, <2>1, <2>2, <2>4, GoingOn
      DEF Registered, ProbeOut, Unload, LoginStep, Login, Associate, Rewrite, Logout,
          RemoveLogin, Symlink, Unlink, RemoveLink
  <1>7. ASSUME NEW d \in Callers,
               \/ Names(d) \/ Secret(d) \/ Clear(d) \/ Uncache(d) \/ Include(d)
               \/ Support(d) \/ Stopped(d) \/ Fail(d)
        PROVE  FALSE
    <2>1. \A pc \in {"include", "clear", "uncache", "support", "trash"} : pc \in Stations \ {"ok"}
      BY DEF Stations
    <2>2. Names(d) => NoneSucceeds
      BY <1>1 DEF Names, NoneSucceeds
    <2>3. Uncache(d) => NoneSucceeds
      <3>1. SUFFICES ASSUME Uncache(d) PROVE NoneSucceeds
        OBVIOUS
      <3>2. Same(d) /\ call[d].pc = "uncache"
        BY <1>1, <3>1, EraseSteps DEF Uncache, At
      <3>3. call'[d].pc = "secret"
        BY <1>1, <3>1 DEF Uncache
      <3> QED
        BY <3>2, <3>3 DEF Same, NoneSucceeds
    <2> QED
      BY <1>1, <1>2, <1>7, <2>1, <2>2, <2>3, GoingOn
      DEF Secret, Clear, Include, Support, Stopped, Fail
  <1>8. CASE LogIn \/ Upgrade \/ Reinstall \/ InstallCommand \/ InstallItem
    BY <1>1, <1>2, <1>8, EventsKnown DEF NoneSucceeds
  <1>9. CASE UNCHANGED setupVars
    BY <1>2, <1>9 DEF setupVars, NoneSucceeds
  <1> HIDE DEF Ending
  <1>10. Ending(c)
    BY <1>3, <1>4, <1>5, <1>6, <1>7, <1>8, <1>9
    DEF SetupNext, EnsureStep, SetupStep, LinkStep, EraseStep, ChangeStep, Ending
  <1> QED
    BY <1>10 DEF Ending

-----------------------------------------------------------------------------
(* The invariant of the registration and of what profiles leave: whatever  *)
(* the callers, the agent, launchd and other programs do, and whichever    *)
(* effects are refused.                                                    *)
THEOREM SetupInvariant == SetupSpec => []SetupInv
  <1>1. SetupInit => SetupInv
    BY InitSetup
  <1>2. SetupInv /\ [SetupNext]_setupVars => SetupInv'
    BY NextSetup
  <1> QED
    BY <1>1, <1>2, PTL DEF SetupSpec

(* Every part of the machine keeps its type, and only a call about the     *)
(* agent records a choice.                                                 *)
THEOREM SetupTyped == SetupSpec => []SetupTypeOK
  <1>1. SetupInv => SetupTypeOK
    BY DEF SetupInv
  <1> QED
    BY <1>1, SetupInvariant, PTL

(* keep and erase: an uninstallation that reports success left nothing of  *)
(* the product, however many profiles there were and however many attempts *)
(* failed before.                                                          *)
THEOREM UninstallsClean == SetupSpec => UninstallLeavesNothing
  <1>1. ASSUME SetupInv, [SetupNext]_setupVars, NEW c \in Callers,
               Succeeds(c), Is(c, {"keep", "erase"}), call[c].alone
        PROVE  /\ plist' = None /\ loaded' = None
               /\ login' = "none" /\ link' # "managed"
               /\ Is(c, {"erase"}) =>
                    /\ decision' = None /\ ~store'.include
                    /\ store'.catalog = {} /\ store'.cache = {}
                    /\ store'.tokens \union store'.journal \subseteq store'.stray
    <2>1. /\ SetupTypeOK /\ Stationed /\ SecretsKnown
          /\ \A d \in Callers : StationInv(d) /\ AloneInv(d)
          /\ call \in [Callers -> Call]
      BY <1>1 DEF SetupInv, Stationed, SecretsKnown, SetupTypeOK
    <2>2. Trash(c)
      <3>1. ~(\/ Version(c) \/ Settle(c) \/ Decide(c) \/ Detect(c) \/ Verify(c)
              \/ Send(c) \/ Write(c))
        BY <1>1, <2>1 DEF Version, Settle, Decide, Detect, Verify, Send, Write, Writing, At,
           Is, Stationed, StationInv, Reaches
      <3>2. ~Unlist(c)
        <4>1. SUFFICES ASSUME Unlist(c) PROVE FALSE
          OBVIOUS
        <4>2. Go(c, "unlink")
          BY <1>1, <4>1 DEF Unlist, Is
        <4>3. NoneSucceeds
          BY <2>1, <4>2, GoingOn DEF Stations
        <4> QED
          BY <1>1, <4>3 DEF NoneSucceeds, Succeeds, Active
      <3> QED
        BY <1>1, <3>1, <3>2, WhoSucceeds
    <2>3. /\ At(c, "trash") /\ UNCHANGED <<plist, loaded, decision, login, link>>
          /\ store.stray \subseteq store'.stray
          /\ UNCHANGED <<store.tokens, store.journal, store.catalog, store.cache, store.include>>
      BY <2>1, <2>2, TrashKnown DEF service
    <2>4. AloneInv(c) /\ EraseInv(c)
      BY <2>1 DEF SecretsKnown
    <2> QED
      BY <1>1, <2>3, <2>4 DEF AloneInv, EraseInv, Eraser, Is, At, Secrets
  <1>2. SetupInv /\ [SetupNext]_setupVars =>
          [\A c \in Callers :
             Succeeds(c) /\ Is(c, {"keep", "erase"}) /\ call[c].alone =>
               /\ plist' = None /\ loaded' = None
               /\ login' = "none" /\ link' # "managed"
               /\ Is(c, {"erase"}) =>
                    /\ decision' = None /\ ~store'.include
                    /\ store'.catalog = {} /\ store'.cache = {}
                    /\ store'.tokens \union store'.journal \subseteq store'.stray]_setupVars
    BY <1>1
  <1> QED
    BY <1>2, SetupInvariant, PTL DEF SetupSpec, UninstallLeavesNothing

(* ensure_installed and its callers: success means that the agent runs.    *)
THEOREM EnsuringStarts == SetupSpec => EnsureStarts
  <1>1. ASSUME SetupInv, [SetupNext]_setupVars, NEW c \in Callers,
               Succeeds(c), Is(c, {"install", "enable", "sync", "paste"}), call[c].alone
        PROVE  loaded' # None
    <2>1. /\ SetupTypeOK /\ Stationed /\ StationInv(c) /\ AloneInv(c)
          /\ call \in [Callers -> Call]
      BY <1>1 DEF SetupInv, Stationed, SetupTypeOK
    <2>2. CASE Version(c)
      <3>1. Is(c, CliTasks) => loaded # None
        BY <1>1, <2>1, <2>2, CallEnds DEF Version, Ends, Succeeds
      <3>2. ~Is(c, CliTasks) => NoneSucceeds
        BY <2>1, <2>2, GoingOn DEF Version, AfterEnsure, Stations
      <3>3. Is(c, CliTasks)
        BY <1>1, <3>2 DEF NoneSucceeds, Succeeds, Active
      <3> QED
        BY <2>2, <3>1, <3>3 DEF Version, service
    <2>3. CASE Decide(c)
      <3>1. Is(c, {"enable"})
        BY <1>1, <2>1, <2>3 DEF Decide, At, Is, StationInv, Reaches
      <3> QED
        BY <1>1, <2>1, <2>3, <3>1 DEF Decide, AloneInv, At, service
    <2>4. CASE Send(c)
      <3>1. Is(c, {"sync", "paste"})
        BY <1>1, <2>1, <2>4 DEF Send, At, Is, StationInv, Reaches
      <3>2. loaded # None \/ Refuse(c)
        BY <2>4, <3>1 DEF Send, Is, CliTasks
      <3>3. Refuse(c) => FALSE
        BY <1>1, <2>1, CallEnds DEF Ends, Succeeds
      <3> QED
        BY <2>4, <3>2, <3>3 DEF Send, service
    <2>5. CASE Write(c)
      <3>1. Is(c, {"paste"})
        BY <1>1, <2>1, <2>5 DEF Write, Writing, Is, StationInv, Reaches
      <3> QED
        BY <2>1, <2>5, <3>1 DEF Write, StationInv, service
    <2>6. ~(Unlist(c) \/ Settle(c) \/ Detect(c) \/ Verify(c) \/ Trash(c))
      BY <1>1, <2>1 DEF Unlist, Settle, Detect, Verify, Trash, At, Is, StationInv, Reaches
    <2> QED
      BY <1>1, <2>2, <2>3, <2>4, <2>5, <2>6, WhoSucceeds
  <1>2. SetupInv /\ [SetupNext]_setupVars =>
          [\A c \in Callers :
             Succeeds(c) /\ Is(c, {"install", "enable", "sync", "paste"})
               /\ call[c].alone => loaded' # None]_setupVars
    BY <1>1
  <1> QED
    BY <1>2, SetupInvariant, PTL DEF SetupSpec, EnsureStarts

(* Starting the companion registers nothing that was not registered.       *)
THEOREM StartupRegistersNothing == SetupSpec => StartupCreatesNothing
  <1>1. ASSUME [SetupNext]_setupVars
        PROVE  plist' = plist \/ plist' = None \/ \E d \in Callers : List(d)
    <2>1. ASSUME NEW c \in Callers, NEW task \in Tasks, NEW n \in Profiles,
                 NEW program \in Programs, Begin(c, task, n, program)
          PROVE  plist' = plist
      BY <2>1 DEF Begin, service
    <2>2. ASSUME NEW c \in Callers, EnsureStep(c)
          PROVE  plist' = plist \/ List(c)
      BY <2>2
      DEF EnsureStep, Reach, Compare, Probe, Bootout, Bootstrap, Version, Kickstart, service
    <2>3. ASSUME NEW c \in Callers, SetupStep(c)
          PROVE  plist' = plist \/ plist' = None
      BY <2>3 DEF SetupStep, Registered, Settle, Decide, ProbeOut, Unload, Unlist, service
    <2>4. ASSUME NEW c \in Callers, LoginStep(c) \/ LinkStep(c) \/ EraseStep(c)
          PROVE  plist' = plist
      BY <2>4
      DEF LoginStep, Login, Associate, Rewrite, Logout, RemoveLogin, LinkStep, Detect, Symlink,
          Verify, Unlink, RemoveLink, EraseStep, Names, Secret, Clear, Uncache, Include,
          Support, Trash, service
    <2>5. ASSUME NEW c \in Callers, ChangeStep(c) \/ Fail(c)
          PROVE  plist' = plist
      BY <2>5 DEF ChangeStep, Send, Write, Stopped, Fail, service
    <2>6. CASE LogIn \/ Upgrade \/ Reinstall \/ InstallCommand \/ InstallItem
      BY <2>6 DEF LogIn, Upgrade, Reinstall, InstallCommand, InstallItem, service
    <2>7. CASE UNCHANGED setupVars
      BY <2>7 DEF setupVars, service
    <2> QED
      BY <1>1, <2>1, <2>2, <2>3, <2>4, <2>5, <2>6, <2>7 DEF SetupNext
  <1>2. ASSUME SetupInv, [SetupNext]_setupVars, NEW c \in Callers,
               Is(c, {"initialize"}), call[c].alone, call'[c] # call[c], plist = None
        PROVE  plist' = None
    <2>1. SUFFICES ASSUME NEW d \in Callers, List(d) PROVE FALSE
      BY <1>1, <1>2
    <2>2. d = c
      BY <1>2, <2>1 DEF List, Go, SetupInv, SetupTypeOK
    <2> QED
      BY <1>2, <2>1, <2>2 DEF List, SetupInv, AloneInv, At
  <1>3. SetupInv /\ [SetupNext]_setupVars =>
          [\A c \in Callers :
             Is(c, {"initialize"}) /\ call[c].alone /\ call'[c] # call[c] =>
               (plist = None => plist' = None)]_setupVars
    BY <1>2
  <1> QED
    BY <1>3, SetupInvariant, PTL DEF SetupSpec, StartupCreatesNothing

-----------------------------------------------------------------------------
(* What belongs to others *)

Gaps == {"rewrite", "removeLogin", "removeLink"}
(* A call about to replace or remove an item or a file that is not the     *)
(* product's was overtaken: when it looked, that was not there.            *)
GapInv ==
  \A c \in Callers :
    /\ call[c].pc \in {"rewrite", "removeLogin"} /\ login = "foreign" => call[c].overtaken
    /\ call[c].pc = "removeLink" /\ link = "conflict" => call[c].overtaken

Kept ==
  /\ login = "foreign" /\ login' # "foreign" =>
       \E c \in Callers : Overtaken(c, {"rewrite", "removeLogin"})
  /\ link = "conflict" /\ link' # "conflict" =>
       \E c \in Callers : Overtaken(c, {"removeLink"})

(* Nothing comes, and no call enters a gap or forgets in one. *)
LEMMA QuietKeeps ==
  ASSUME GapInv, UNCHANGED <<login, link>>,
         \A d \in Callers :
           call'[d].pc \in Gaps =>
             call'[d].pc = call[d].pc /\ (call[d].overtaken => call'[d].overtaken)
  PROVE  GapInv' /\ Kept
  BY DEF GapInv, Kept, Gaps

LEMMA MovesKeep ==
  ASSUME GapInv, UNCHANGED <<login, link>>, NEW c \in Callers, Same(c),
         call'[c].pc \notin Gaps
  PROVE  GapInv' /\ Kept
  BY QuietKeeps DEF Same

LEMMA LooksKeep ==
  ASSUME SetupInv, GapInv, NEW c \in Callers, LoginStep(c) \/ LinkStep(c)
  PROVE  GapInv' /\ Kept
  <1> USE DEF service, setup
  <1>1. call \in [Callers -> Call] /\ call[c] \in Call /\ StationInv(c)
    BY DEF SetupInv, SetupTypeOK
  <1>2. \A pc \in {"registered", "send", "probeOut", "symlink", "verify", "names", "trash",
                   "associate", "rewrite", "removeLogin", "removeLink"} : pc \in Stations
    BY DEF Stations
  <1>3. AfterLogin(c) \in {"registered", "send", "probeOut"}
        /\ AfterLink(c) \in {"names", "trash"}
    BY DEF AfterLogin, AfterLink
  <1>4. \A pc \in {"registered", "send", "probeOut", "symlink", "verify", "names", "trash",
                   "associate"} : Go(c, pc) \/ Look(c, pc) => Same(c) /\ call'[c].pc = pc
    BY <1>1, <1>2, GoGoes, LookGoes DEF Goes
  <1>5. Succeed(c) \/ Refuse(c) => Same(c) /\ call'[c].pc \in {"idle", "ok"}
    BY <1>1, CallEnds DEF Ends
  <1>6. CASE Go(c, AfterLogin(c)) /\ UNCHANGED <<login, link>>
    BY <1>3, <1>4, <1>6, MovesKeep DEF Gaps
  <1>7. CASE Go(c, AfterLink(c)) /\ UNCHANGED <<login, link>>
    BY <1>3, <1>4, <1>7, MovesKeep DEF Gaps
  <1>8. CASE (Succeed(c) \/ Refuse(c)) /\ UNCHANGED <<login, link>>
    BY <1>5, <1>8, MovesKeep DEF Gaps
  <1>9. CASE (Look(c, "associate") \/ Go(c, "symlink")) /\ UNCHANGED <<login, link>>
    BY <1>4, <1>9, MovesKeep DEF Gaps
  <1>10. ASSUME NEW pc \in {"rewrite", "removeLogin"}, Look(c, pc), login # "foreign",
                UNCHANGED <<login, link>>
         PROVE  GapInv' /\ Kept
    <2>1. Same(c) /\ call'[c].pc = pc
      BY <1>1, <1>2, <1>10, LookGoes DEF Goes
    <2> QED
      BY <1>10, <2>1 DEF GapInv, Kept, Same
  <1>11. CASE Look(c, "removeLink") /\ link # "conflict" /\ UNCHANGED <<login, link>>
    <2>1. Same(c) /\ call'[c].pc = "removeLink"
      BY <1>1, <1>2, <1>11, LookGoes DEF Goes
    <2> QED
      BY <1>11, <2>1 DEF GapInv, Kept, Same
  <1>12. ASSUME call[c].pc \in {"rewrite", "removeLogin"}, login' \in {"own", "none"},
                UNCHANGED link, Go(c, AfterLogin(c)) \/ Refuse(c)
         PROVE  GapInv' /\ Kept
    <2>1. Same(c) /\ call'[c].pc \notin Gaps
      BY <1>3, <1>4, <1>5, <1>12 DEF Gaps
    <2>2. GapInv'
      BY <1>12, <2>1 DEF GapInv, Same, Gaps
    <2>3. call'[c].pc # call[c].pc
      BY <1>12, <2>1 DEF Gaps
    <2>4. Kept
      BY <1>12, <2>3 DEF GapInv, Kept, Overtaken
    <2> QED
      BY <2>2, <2>4
  <1>13. CASE RemoveLink(c)
    <2>1. /\ call[c].pc = "removeLink" /\ link' = "missing" /\ login' = login
          /\ (Go(c, AfterLink(c)) \/ Refuse(c))
      BY <1>13 DEF RemoveLink, At
    <2>2. Same(c) /\ call'[c].pc \notin Gaps
      BY <1>3, <1>4, <1>5, <2>1 DEF Gaps
    <2>3. GapInv'
      BY <2>1, <2>2 DEF GapInv, Same, Gaps
    <2>4. Kept
      BY <2>1, <2>2 DEF GapInv, Kept, Overtaken, Gaps
    <2> QED
      BY <2>3, <2>4
  <1>14. CASE Symlink(c)
    <2>1. /\ login' = login
          /\ Go(c, "verify") \/ Refuse(c)
          /\ link' = link \/ (link = "missing" /\ link' = "managed")
      BY <1>14 DEF Symlink
    <2>2. Same(c) /\ call'[c].pc \notin Gaps
      BY <1>4, <1>5, <2>1 DEF Gaps
    <2> QED
      BY <2>1, <2>2 DEF GapInv, Kept, Same, Gaps
  <1>15. CASE LoginStep(c)
    BY <1>6, <1>8, <1>9, <1>10, <1>12, <1>15
    DEF LoginStep, Login, Associate, Rewrite, Logout, RemoveLogin, At
  <1>16. CASE LinkStep(c)
    BY <1>7, <1>8, <1>9, <1>11, <1>13, <1>14, <1>16 DEF LinkStep, Detect, Verify, Unlink
  <1> QED
    BY <1>15, <1>16

(* What others put there overtakes the calls that have looked. *)
LEMMA OthersKeep ==
  ASSUME SetupInv, GapInv, LogIn \/ Upgrade \/ Reinstall \/ InstallCommand \/ InstallItem
  PROVE  GapInv' /\ Kept
  <1> USE DEF service, setup
  <1>1. call \in [Callers -> Call]
    BY DEF SetupInv, SetupTypeOK
  <1>2. CASE LogIn
    <2>1. \A d \in Callers : call'[d].pc \notin Gaps
      BY <1>1, <1>2, IdleIs DEF LogIn, Active, Gaps
    <2> QED
      BY <1>2, <2>1, QuietKeeps DEF LogIn
  <1>3. CASE (Upgrade \/ Reinstall \/ InstallCommand) /\ Disturb({}) /\ UNCHANGED link
    <2>1. UNCHANGED login
      BY <1>3 DEF Upgrade, Reinstall, InstallCommand
    <2> QED
      BY <1>1, <1>3, <2>1, DisturbIs, QuietKeeps
  <1>4. CASE InstallCommand /\ link' = "conflict" /\ Disturb({"removeLink"})
    <2>1. UNCHANGED login
      BY <1>4 DEF InstallCommand
    <2>2. \A d \in Callers :
            /\ call'[d].pc = call[d].pc /\ (call[d].overtaken => call'[d].overtaken)
            /\ call[d].pc = "removeLink" => call'[d].overtaken
      BY <1>1, <1>4, DisturbIs
    <2> QED
      BY <1>4, <2>1, <2>2 DEF GapInv, Kept
  <1>5. CASE InstallItem
    <2>1. UNCHANGED link /\ login' = "foreign" /\ login # "foreign"
      BY <1>5 DEF InstallItem
    <2>2. \A d \in Callers :
            /\ call'[d].pc = call[d].pc /\ (call[d].overtaken => call'[d].overtaken)
            /\ call[d].pc \in {"rewrite", "removeLogin"} => call'[d].overtaken
      BY <1>1, <1>5, DisturbIs DEF InstallItem
    <2> QED
      BY <2>1, <2>2 DEF GapInv, Kept
  <1> QED
    BY <1>2, <1>3, <1>4, <1>5 DEF Upgrade, Reinstall, InstallCommand

LEMMA NextKeeps ==
  ASSUME SetupInv, GapInv, [SetupNext]_setupVars
  PROVE  GapInv' /\ Kept
  <1> USE DEF service, setup
  <1>1. /\ SetupTypeOK /\ Stationed /\ SecretsKnown
        /\ \A c \in Callers : StationInv(c) /\ AloneInv(c)
    BY DEF SetupInv, Stationed, SecretsKnown
  <1>2. ASSUME NEW c \in Callers, NEW task \in Tasks, NEW n \in Profiles,
               NEW program \in Programs, Begin(c, task, n, program)
        PROVE  GapInv' /\ Kept
    <2>1. FirstStation(task) \notin Gaps
      BY DEF FirstStation, Gaps, Tasks, CliTasks
    <2>2. /\ UNCHANGED <<login, link>> /\ call'[c].pc \notin Gaps
          /\ \A d \in Callers \ {c} :
               call'[d].pc = call[d].pc /\ call'[d].overtaken = call[d].overtaken
      BY <1>1, <1>2, <2>1, BeginKnown
    <2> QED
      BY <2>2, QuietKeeps
  <1>3. ASSUME NEW c \in Callers, EnsureStep(c) PROVE GapInv' /\ Kept
    <2>1. UNCHANGED <<login, link>> /\ Same(c) /\ call'[c].pc \notin Gaps
      BY <1>1, <1>3, EnsureSteps DEF Steps, Goes, Ends, Gaps
    <2> QED
      BY <2>1, MovesKeep
  <1>4. ASSUME NEW c \in Callers, SetupStep(c) PROVE GapInv' /\ Kept
    <2>1. UNCHANGED <<login, link>> /\ Same(c) /\ call'[c].pc \notin Gaps
      BY <1>1, <1>4, SetupSteps DEF Steps, Goes, Ends, Gaps
    <2> QED
      BY <2>1, MovesKeep
  <1>5. ASSUME NEW c \in Callers, EraseStep(c) PROVE GapInv' /\ Kept
    <2>1. CASE Trash(c)
      <3>1. /\ UNCHANGED <<login, link>> /\ call'[c].pc = "ok"
            /\ \A d \in Callers \ {c} : call'[d] = call[d] \/ call'[d].pc = "idle"
        BY <1>1, <2>1, TrashKnown
      <3> QED
        BY <3>1, QuietKeeps DEF Gaps
    <2>2. CASE \/ Names(c) \/ Secret(c) \/ Clear(c)
               \/ Uncache(c) \/ Include(c) \/ Support(c)
      <3>1. UNCHANGED <<login, link>> /\ Same(c) /\ call'[c].pc \notin Gaps
        BY <1>1, <2>2, EraseSteps DEF Gaps
      <3> QED
        BY <3>1, MovesKeep
    <2> QED
      BY <1>5, <2>1, <2>2 DEF EraseStep
  <1>6. ASSUME NEW c \in Callers, ChangeStep(c) \/ Fail(c) PROVE GapInv' /\ Kept
    <2>1. UNCHANGED <<login, link>>
      BY <1>6 DEF ChangeStep, Send, Write, Stopped, Fail
    <2>2. Same(c) /\ call'[c].pc \notin Gaps
      <3>1. CASE Send(c)
        BY <1>1, <3>1, SendMoves DEF SetupTypeOK, Goes, Ends, Gaps
      <3>2. CASE Write(c)
        BY <1>1, <3>2, WriteSteps DEF Goes, Ends, Gaps
      <3>3. CASE Stopped(c) \/ Fail(c)
        BY <1>1, <3>3, FailKnown DEF Ends, Gaps
      <3> QED
        BY <1>6, <3>1, <3>2, <3>3 DEF ChangeStep
    <2> QED
      BY <2>1, <2>2, MovesKeep
  <1>7. CASE UNCHANGED setupVars
    BY <1>7, QuietKeeps DEF setupVars
  <1> QED
    BY <1>2, <1>3, <1>4, <1>5, <1>6, <1>7, LooksKeep, OthersKeep DEF SetupNext

(* read_owned and detect, and what follows them: a login item or a file of *)
(* others that a call could see is kept by it, and by every other call;    *)
(* one is lost only to a call that had looked before it came.              *)
THEOREM OthersKept == SetupSpec => ForeignKept
  <1>1. SetupInit => GapInv
    BY DEF SetupInit, GapInv, Idle
  <1>2. SetupInv /\ GapInv /\ [SetupNext]_setupVars => GapInv' /\ [Kept]_setupVars
    BY NextKeeps
  <1>3. SetupSpec => [][Kept]_setupVars
    BY <1>1, <1>2, SetupInvariant, PTL DEF SetupSpec
  <1>4. [][Kept]_setupVars => ForeignKept
    BY DEF Kept, ForeignKept
  <1> QED
    BY <1>3, <1>4
=============================================================================
