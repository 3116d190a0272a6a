---------------------------- MODULE ServiceSetup ----------------------------
(***************************************************************************)
(* What the product registers on a Mac and takes away again: the agent's   *)
(* launchd service, the companion's login item, the link to the command,   *)
(* the saved choice, and the secrets and files an uninstallation deletes.  *)
(* The companion and the command line act on them in separate processes,   *)
(* with no lock, and other programs write to the same places.  Every look  *)
(* at the machine and every effect on it is a step of its own, may be      *)
(* refused, and its process may die before it; the whole may be tried      *)
(* again afterwards.                                                       *)
(***************************************************************************)
EXTENDS Naturals, FiniteSets, Workstation

CONSTANTS
  Machines,    \* [login, link, command] found on a machine before
  Traces,      \* profile -> what it had left on a machine before
  MaxEvents    \* bound of what others do: upgrade, log in, install their own

(* A profile left nothing, was saved with a pasted token, is managed, or   *)
(* its enrolment was cut off before the profile was saved.                 *)
Left == {"nothing", "pasted", "managed", "pending"}

VARIABLES
  plist,       \* program named by the launch agent's property list
  loaded,      \* program of the definition launchd runs
  current,     \* whether the running program is the one on disk
  decision,    \* agent-setup.json
  login,       \* the companion's login item
  link,        \* /usr/local/bin/warpgatesh
  command,     \* whether PATH has a command of another installation
  app,         \* the application bundle
  store,       \* what profiles leave on the machine
  call,        \* caller -> the call it executes
  spent        \* what has happened of each bounded kind

service   == <<plist, loaded, current>>
setup     == <<decision, login, link, command, app>>
setupVars == <<service, setup, store, call, spent>>

-----------------------------------------------------------------------------
Programs  == {"bundled", "other"}
Logins    == {"none", "own", "stale", "foreign"}
Links     == {"missing", "managed", "conflict"}
ASSUME MachineAssumption ==
  Machines \subseteq [login: Logins, link: Links, command: BOOLEAN]

Decisions == {"enabled", "deferred"}
CliTasks  == {"install", "remove", "sync", "paste"}
Tasks     == CliTasks \union {"enable", "defer", "initialize", "link", "login",
               "logout", "enroll", "keep", "erase"}

(* Names of profiles that have each kind of trace; "stray" is kept for the *)
(* properties: a change of these profiles did not end, or met a deletion.  *)
Store == [catalog: SUBSET Profiles, tokens: SUBSET Profiles,
          journal: SUBSET Profiles, cache: SUBSET Profiles,
          include: BOOLEAN, stray: SUBSET Profiles]

Stations == {"idle", "ok", "reach", "compare", "list", "probe", "bootout",
             "bootstrap", "version", "kickstart", "registered", "settle", "decide",
             "probeOut", "unload", "unlist", "unlink", "removeLink", "detect",
             "symlink", "verify", "login", "associate", "rewrite", "logout",
             "removeLogin", "send", "journal", "cache", "token", "catalog",
             "record", "forget", "names", "secret", "clear", "uncache",
             "include", "support", "trash"}

Call == [task: Tasks \union {"none"}, pc: Stations,
         program: Programs \union {None},
         changed: BOOLEAN, found: BOOLEAN,
         names: SUBSET Profiles, alone: BOOLEAN,
         overtaken: BOOLEAN]   \* history: others came between look and effect

Idle == [task |-> "none", pc |-> "idle", program |-> None, changed |-> FALSE,
         found |-> FALSE, names |-> {}, alone |-> FALSE, overtaken |-> FALSE]

Active(c)   == call[c].pc \notin {"idle", "ok"}
At(c, pc)   == call[c].pc = pc
Is(c, S)    == call[c].task \in S
Go(c, pc)   == call' = [call EXCEPT ![c].pc = pc]
Look(c, pc) == call' = [call EXCEPT ![c].pc = pc, ![c].overtaken = FALSE]
Succeed(c)  == call' = [call EXCEPT ![c] = [Idle EXCEPT !.pc = "ok"]]
Refuse(c)   == call' = [call EXCEPT ![c] = Idle]
Least(S)    == CHOOSE n \in S : \A m \in S : n <= m

SpendOne(kind, bound) ==
  /\ spent[kind] < bound
  /\ spent' = [spent EXCEPT ![kind] = @ + 1]

Writing(c) == call[c].pc \in {"journal", "cache", "token", "catalog", "record",
                              "forget"}

(* Profiles whose change ends with the callers' processes *)
Cut(S) == UNION {call[c].names : c \in {d \in S : Writing(d)}}

-----------------------------------------------------------------------------
(* agent_setup::manual_mode: foreground changes only when no service is    *)
(* installed or loaded.  A loaded agent answers on its socket, at last.    *)
ManualMode == plist = None /\ loaded = None

FirstStation(task) ==
  CASE task \in {"install", "enable"}     -> "compare"
    [] task \in {"sync", "paste"}         -> "reach"
    [] task \in {"remove", "defer"}       -> "probeOut"
    [] task = "initialize"                -> "associate"
    [] task = "link"                      -> "detect"
    [] task = "enroll"                    -> "send"
    [] task = "login"                     -> "login"
    [] task \in {"logout", "keep", "erase"} -> "logout"

(* The command runs from its link or another installation and registers    *)
(* the agent beside it; the companion is the application.                  *)
Begin(c, task, n, program) ==
  /\ ~Active(c)
  /\ IF task \in CliTasks
     THEN \/ program = "bundled" /\ link = "managed" /\ app # "trashed"
          \/ program = "other" /\ command
     ELSE program = "bundled" /\ app # "trashed"
  /\ SpendOne("calls", MaxCalls)
  /\ LET new == [Idle EXCEPT
           !.task = task, !.pc = FirstStation(task), !.program = program,
           !.names = IF task \in {"paste", "enroll"} THEN {n} ELSE {},
           !.alone = \A d \in Callers : ~Active(d)]
         others == {d \in Callers : Active(d)}
     IN  /\ call' = [d \in Callers |->
              IF d = c THEN new ELSE [call[d] EXCEPT !.alone = FALSE]]
         /\ store' = IF task = "erase" \/ \E d \in others : Is(d, {"erase"})
                     THEN [store EXCEPT !.stray = @ \union new.names \union
                             UNION {call[d].names : d \in {e \in others : ~Is(e, {"erase"})}}]
                     ELSE store
  /\ UNCHANGED <<service, setup>>

-----------------------------------------------------------------------------
(* launchd::ensure_installed, and what each caller adds to it *)

(* ensure_agent_available: only a command that gets no answer registers;   *)
(* an agent that is starting may not answer yet.                           *)
Reach(c) ==
  /\ At(c, "reach")
  /\ \/ loaded # None /\ Go(c, "send")
     \/ Go(c, "compare")
  /\ UNCHANGED <<service, setup, store, spent>>

(* The property list is compared ... *)
Compare(c) ==
  /\ At(c, "compare")
  /\ LET changed == plist # call[c].program
     IN call' = [call EXCEPT ![c].pc = IF changed THEN "list" ELSE "probe",
                             ![c].changed = changed]
  /\ UNCHANGED <<service, setup, store, spent>>

(* ... and replaced. *)
List(c) ==
  /\ At(c, "list")
  /\ plist' = call[c].program
  /\ Go(c, "probe")
  /\ UNCHANGED <<loaded, current, setup, store, spent>>

(* Mutant: a service that is not loaded is only started when its property  *)
(* list is new.                                                            *)
ProbeChanged(c) ==
  /\ At(c, "probe")
  /\ Go(c, IF ~call[c].changed THEN "version"
           ELSE IF loaded # None THEN "bootout" ELSE "bootstrap")
  /\ UNCHANGED <<service, setup, store, spent>>

Probe(c) ==
  /\ At(c, "probe")
  /\ Go(c, IF loaded # None /\ ~call[c].changed THEN "version"
           ELSE IF loaded # None THEN "bootout" ELSE "bootstrap")
  /\ UNCHANGED <<service, setup, store, spent>>

(* launchctl refuses to stop what is not loaded ... *)
Bootout(c) ==
  /\ At(c, "bootout")
  /\ loaded' = None
  /\ IF loaded # None THEN Go(c, "bootstrap") ELSE Refuse(c)
  /\ UNCHANGED <<plist, current, setup, store, spent>>

(* ... and to start what is loaded, or has no property list. *)
Bootstrap(c) ==
  /\ At(c, "bootstrap")
  /\ IF loaded = None /\ plist # None
     THEN loaded' = plist /\ current' = TRUE /\ Go(c, "version")
     ELSE Refuse(c) /\ UNCHANGED <<loaded, current>>
  /\ UNCHANGED <<plist, setup, store, spent>>

(* set_enabled records the choice, initialize first looks for one. *)
AfterEnsure(c) == IF Is(c, {"initialize"}) THEN "settle" ELSE "decide"

(* Mutant: the command goes on like the companion. *)
VersionForAll(c) ==
  /\ At(c, "version")
  /\ \/ Go(c, AfterEnsure(c))
     \/ Go(c, "kickstart") /\ ~call[c].changed /\ loaded # None /\ ~current
  /\ UNCHANGED <<service, setup, store, spent>>

(* The command waits for an answer.  The companion restarts an agent that  *)
(* answers with another version, unless it was registered anew; an agent   *)
(* may be too slow to answer.                                              *)
Version(c) ==
  /\ At(c, "version")
  /\ IF Is(c, CliTasks)
     THEN IF loaded = None THEN Refuse(c)
          ELSE IF Is(c, {"install"}) THEN Succeed(c) ELSE Go(c, "send")
     ELSE \/ Go(c, AfterEnsure(c))
          \/ Go(c, "kickstart") /\ ~call[c].changed /\ loaded # None /\ ~current
  /\ UNCHANGED <<service, setup, store, spent>>

Kickstart(c) ==
  /\ At(c, "kickstart")
  /\ IF loaded # None THEN current' = TRUE /\ Go(c, AfterEnsure(c))
     ELSE Refuse(c) /\ UNCHANGED current
  /\ UNCHANGED <<plist, loaded, setup, store, spent>>

-----------------------------------------------------------------------------
(* agent_setup and launchd::uninstall *)

(* Mutant: the companion registers its agent whenever it starts. *)
RegisteredAlways(c) ==
  /\ At(c, "registered")
  /\ Go(c, "compare")
  /\ UNCHANGED <<service, setup, store, spent>>

Registered(c) ==
  /\ At(c, "registered")
  /\ Go(c, IF plist # None /\ loaded # None THEN "compare" ELSE "settle")
  /\ UNCHANGED <<service, setup, store, spent>>

Settle(c) ==
  /\ At(c, "settle")
  /\ IF decision = None /\ (plist # None \/ loaded # None)
     THEN Go(c, "decide") ELSE Succeed(c)
  /\ UNCHANGED <<service, setup, store, spent>>

Decide(c) ==
  /\ At(c, "decide")
  /\ decision' = IF Is(c, {"defer"}) THEN "deferred" ELSE "enabled"
  /\ Succeed(c)
  /\ UNCHANGED <<service, login, link, command, app, store, spent>>

ProbeOut(c) ==
  /\ At(c, "probeOut")
  /\ Go(c, IF loaded # None THEN "unload" ELSE "unlist")
  /\ UNCHANGED <<service, setup, store, spent>>

Unload(c) ==
  /\ At(c, "unload")
  /\ loaded' = None
  /\ IF loaded # None THEN Go(c, "unlist") ELSE Refuse(c)
  /\ UNCHANGED <<plist, current, setup, store, spent>>

Unlist(c) ==
  /\ At(c, "unlist")
  /\ plist' = None
  /\ CASE Is(c, {"remove"}) -> Succeed(c)
       [] Is(c, {"defer"})  -> Go(c, "decide")
       [] OTHER             -> Go(c, "unlink")
  /\ UNCHANGED <<loaded, current, setup, store, spent>>

-----------------------------------------------------------------------------
(* companion_login and installation *)

(* initialize goes on with the agent, save_preferences with the            *)
(* preferences, an uninstallation with the service.                        *)
AfterLogin(c) ==
  IF Is(c, {"initialize"}) THEN "registered"
  ELSE IF Is(c, {"login", "logout"}) THEN "send" ELSE "probeOut"

(* enable_file: an item that is there is only completed. *)
Login(c) ==
  /\ At(c, "login")
  /\ Look(c, IF login = "none" THEN "rewrite" ELSE "associate")
  /\ UNCHANGED <<service, setup, store, spent>>

(* associate_file: read_owned refuses an item that is not the companion's. *)
Associate(c) ==
  /\ At(c, "associate")
  /\ \/ login = "foreign" /\ Refuse(c)
     \/ login = "stale" /\ Look(c, "rewrite")
     \/ login \in {"own", "none"} /\ Go(c, AfterLogin(c))
  /\ UNCHANGED <<service, setup, store, spent>>

(* write_plist replaces the item that is there by now. *)
Rewrite(c) ==
  /\ At(c, "rewrite")
  /\ login' = "own"
  /\ Go(c, AfterLogin(c))
  /\ UNCHANGED <<service, decision, link, command, app, store, spent>>

(* Mutant: the login item is removed whoever wrote it. *)
LogoutUnchecked(c) ==
  /\ At(c, "logout")
  /\ \/ login = "none" /\ Go(c, AfterLogin(c))
     \/ login # "none" /\ Look(c, "removeLogin")
  /\ UNCHANGED <<service, setup, store, spent>>

(* disable: read_owned ... *)
Logout(c) ==
  /\ At(c, "logout")
  /\ \/ login = "foreign" /\ Refuse(c)
     \/ login = "none" /\ Go(c, AfterLogin(c))
     \/ login \in {"own", "stale"} /\ Look(c, "removeLogin")
  /\ UNCHANGED <<service, setup, store, spent>>

(* ... and remove_file, of the item that is there by now *)
RemoveLogin(c) ==
  /\ At(c, "removeLogin")
  /\ login' = "none"
  /\ IF login = "none" THEN Refuse(c) ELSE Go(c, AfterLogin(c))
  /\ UNCHANGED <<service, decision, link, command, app, store, spent>>

Detect(c) ==
  /\ At(c, "detect")
  /\ \/ link = "managed" /\ Succeed(c)
     \/ link = "conflict" /\ Refuse(c)
     \/ link = "missing" /\ command /\ Succeed(c)
     \/ link = "missing" /\ ~command /\ Go(c, "symlink")
  /\ UNCHANGED <<service, setup, store, spent>>

(* The name may be taken by then. *)
Symlink(c) ==
  /\ At(c, "symlink")
  /\ IF link = "missing" THEN link' = "managed" /\ Go(c, "verify")
     ELSE Refuse(c) /\ UNCHANGED link
  /\ UNCHANGED <<service, decision, login, command, app, store, spent>>

Verify(c) ==
  /\ At(c, "verify")
  /\ IF link = "managed" THEN Succeed(c) ELSE Refuse(c)
  /\ UNCHANGED <<service, setup, store, spent>>

AfterLink(c) == IF Is(c, {"erase"}) THEN "names" ELSE "trash"

(* uninstall_managed_cli_from: detect ... *)
Unlink(c) ==
  /\ At(c, "unlink")
  /\ IF link = "managed" THEN Look(c, "removeLink") ELSE Go(c, AfterLink(c))
  /\ UNCHANGED <<service, setup, store, spent>>

(* ... and remove what has the name by now, perhaps after the              *)
(* administrator was asked *)
RemoveLink(c) ==
  /\ At(c, "removeLink")
  /\ link' = "missing"
  /\ IF link = "missing" THEN Refuse(c) ELSE Go(c, AfterLink(c))
  /\ UNCHANGED <<service, decision, login, command, app, store, spent>>

-----------------------------------------------------------------------------
(* delete_user_data *)

(* Mutant: only the catalog says whose secrets there are. *)
NamesOfCatalog(c) ==
  /\ At(c, "names")
  /\ call' = [call EXCEPT ![c].pc = "secret", ![c].names = store.catalog]
  /\ UNCHANGED <<service, setup, store, spent>>

Names(c) ==
  /\ At(c, "names")
  /\ call' = [call EXCEPT ![c].pc = "secret",
                          ![c].names = store.catalog \union store.cache]
  /\ UNCHANGED <<service, setup, store, spent>>

Secret(c) ==
  /\ At(c, "secret")
  /\ IF call[c].names = {} THEN Go(c, "include") /\ UNCHANGED store
     ELSE /\ store' = [store EXCEPT !.tokens = @ \ {Least(call[c].names)}]
          /\ Go(c, "clear")
  /\ UNCHANGED <<service, setup, spent>>

(* clear_management: the record, then the cached status *)
Clear(c) ==
  /\ At(c, "clear")
  /\ store' = [store EXCEPT !.journal = @ \ {Least(call[c].names)}]
  /\ Go(c, "uncache")
  /\ UNCHANGED <<service, setup, spent>>

Uncache(c) ==
  /\ At(c, "uncache")
  /\ store' = [store EXCEPT !.cache = @ \ {Least(call[c].names)}]
  /\ call' = [call EXCEPT ![c].pc = "secret",
                          ![c].names = @ \ {Least(call[c].names)}]
  /\ UNCHANGED <<service, setup, spent>>

Include(c) ==
  /\ At(c, "include")
  /\ store' = [store EXCEPT !.include = FALSE]
  /\ Go(c, "support")
  /\ UNCHANGED <<service, setup, spent>>

Support(c) ==
  /\ At(c, "support")
  /\ store' = [store EXCEPT !.catalog = {}, !.cache = {}]
  /\ decision' = None
  /\ Go(c, "trash")
  /\ UNCHANGED <<service, login, link, command, app, spent>>

(* The companion ends, and its other calls with it. *)
Trash(c) ==
  /\ At(c, "trash")
  /\ app' = "trashed"
  /\ call' = [d \in Callers |->
       IF d = c THEN [Idle EXCEPT !.pc = "ok"]
       ELSE IF Is(d, CliTasks) THEN call[d] ELSE Idle]
  /\ store' = [store EXCEPT !.stray = @ \union Cut(Callers)]
  /\ UNCHANGED <<service, decision, login, link, command, spent>>

-----------------------------------------------------------------------------
(* A change of a profile: applied by the agent, or in manual mode by the   *)
(* companion itself; the agent takes its writes with it when it is stopped.*)

Send(c) ==
  /\ At(c, "send")
  /\ IF loaded # None \/ (~Is(c, CliTasks) /\ ManualMode)
     THEN IF Is(c, {"sync", "login", "logout"}) THEN Succeed(c)
          ELSE IF \E d \in Callers : Writing(d) THEN Refuse(c)
          ELSE \/ /\ Is(c, {"enroll"})
                  /\ call' = [call EXCEPT ![c].pc = "journal", ![c].found = ManualMode]
               \/ Is(c, {"paste"}) /\ Go(c, "token")
     ELSE Refuse(c)
  /\ UNCHANGED <<service, setup, store, spent>>

After(c) ==
  CASE At(c, "journal") -> "cache"   [] At(c, "cache")  -> "token"
    [] At(c, "token")   -> "catalog" [] At(c, "record") -> "forget"
    [] At(c, "catalog") -> IF Is(c, {"paste"}) THEN "record" ELSE "ok"
    [] At(c, "forget")  -> "ok"

Write(c) ==
  /\ Writing(c)
  /\ loaded # None \/ call[c].found
  /\ LET n == call[c].names IN
     store' = CASE At(c, "journal") -> [store EXCEPT !.journal = @ \union n]
                [] At(c, "cache")   -> [store EXCEPT !.cache = @ \union n]
                [] At(c, "token")   -> [store EXCEPT !.tokens = @ \union n]
                [] At(c, "catalog") -> [store EXCEPT !.catalog = @ \union n,
                                          !.include = TRUE]
                [] At(c, "record")  -> [store EXCEPT !.journal = @ \ n]
                [] At(c, "forget")  -> [store EXCEPT !.cache = @ \ n]
  /\ IF After(c) = "ok" THEN Succeed(c) ELSE Go(c, After(c))
  /\ UNCHANGED <<service, setup, spent>>

Stopped(c) ==
  /\ Writing(c) /\ loaded = None /\ ~call[c].found
  /\ store' = [store EXCEPT !.stray = @ \union Cut({c})]
  /\ Refuse(c)
  /\ UNCHANGED <<service, setup, spent>>

-----------------------------------------------------------------------------
(* What may go wrong, and what others do *)

(* Removing the support directory may fail half-way. *)
Fail(c) ==
  /\ Active(c)
  /\ SpendOne("failures", MaxFailures)
  /\ Refuse(c)
  /\ LET left == [store EXCEPT !.stray = @ \union Cut({c})]
     IN \/ store' = left /\ UNCHANGED decision
        \/ /\ At(c, "support")
           /\ \E d \in {decision, None}, names \in {{}, store.catalog} :
                /\ decision' = d
                /\ store' = [left EXCEPT !.catalog = names, !.cache = {}]
  /\ UNCHANGED <<service, login, link, command, app>>

(* Calls between a look and its effect at one of these stations are        *)
(* overtaken. *)
Disturb(stations) ==
  call' = [c \in Callers |->
             [call[c] EXCEPT !.alone = FALSE, !.overtaken = @ \/ call[c].pc \in stations]]

(* A new session starts what is listed; nothing else is running then. *)
LogIn ==
  /\ SpendOne("events", MaxEvents)
  /\ loaded' = plist /\ current' = TRUE
  /\ call' = [c \in Callers |-> IF Active(c) THEN Idle ELSE call[c]]
  /\ store' = [store EXCEPT !.stray = @ \union Cut(Callers)]
  /\ UNCHANGED <<plist, setup>>

Upgrade ==
  /\ app # "trashed" /\ loaded = "bundled"
  /\ SpendOne("events", MaxEvents)
  /\ current' = FALSE
  /\ Disturb({})
  /\ UNCHANGED <<plist, loaded, setup, store>>

Reinstall ==
  /\ app = "trashed"
  /\ SpendOne("events", MaxEvents)
  /\ app' = "reinstalled"
  /\ Disturb({})
  /\ UNCHANGED <<service, decision, login, link, command, store>>

(* Another installation or a package puts its command into PATH, or takes  *)
(* the name of the link; another program writes the login item. *)
InstallCommand ==
  /\ SpendOne("events", MaxEvents)
  /\ \/ /\ ~command /\ command' = TRUE
        /\ Disturb({}) /\ UNCHANGED link
     \/ /\ link # "conflict" /\ link' = "conflict"
        /\ Disturb({"removeLink"}) /\ UNCHANGED command
  /\ UNCHANGED <<service, decision, login, app, store>>

InstallItem ==
  /\ SpendOne("events", MaxEvents)
  /\ login # "foreign" /\ login' = "foreign"
  /\ Disturb({"rewrite", "removeLogin"})
  /\ UNCHANGED <<service, decision, link, command, app, store>>

-----------------------------------------------------------------------------
With(left, kinds) == {n \in Profiles : left[n] \in kinds}

SetupInit ==
  /\ \E left \in Traces :
       store = [catalog |-> With(left, {"pasted", "managed"}),
                tokens  |-> With(left, {"pasted", "managed"}),
                journal |-> With(left, {"managed", "pending"}),
                cache   |-> With(left, {"managed", "pending"}),
                include |-> With(left, {"pasted", "managed"}) # {},
                stray   |-> {}]
  /\ \/ plist = None /\ loaded = None /\ decision \in {None, "deferred"}
     \/ plist = "bundled" /\ loaded = "bundled" /\ decision = "enabled"
     \/ plist = "other" /\ loaded = "other" /\ decision = None
  /\ \E m \in Machines : login = m.login /\ link = m.link /\ command = m.command
  /\ current = TRUE /\ app = "installed"
  /\ call = [c \in Callers |-> Idle]
  /\ spent = [k \in {"calls", "failures", "events"} |-> 0]

EnsureStep(c) ==
  Reach(c) \/ Compare(c) \/ List(c) \/ Probe(c) \/ Bootout(c) \/ Bootstrap(c)
    \/ Version(c) \/ Kickstart(c)
SetupStep(c) ==
  Registered(c) \/ Settle(c) \/ Decide(c) \/ ProbeOut(c) \/ Unload(c)
    \/ Unlist(c)
LoginStep(c) ==
  Login(c) \/ Associate(c) \/ Rewrite(c) \/ Logout(c) \/ RemoveLogin(c)
LinkStep(c) ==
  Detect(c) \/ Symlink(c) \/ Verify(c) \/ Unlink(c) \/ RemoveLink(c)
EraseStep(c) ==
  Names(c) \/ Secret(c) \/ Clear(c) \/ Uncache(c) \/ Include(c) \/ Support(c)
    \/ Trash(c)
ChangeStep(c) == Send(c) \/ Write(c) \/ Stopped(c)

SetupNext ==
  \/ \E c \in Callers :
       \/ \E task \in Tasks, n \in Profiles, program \in Programs :
            Begin(c, task, n, program)
       \/ EnsureStep(c) \/ SetupStep(c) \/ LoginStep(c) \/ LinkStep(c)
       \/ EraseStep(c) \/ ChangeStep(c) \/ Fail(c)
  \/ LogIn \/ Upgrade \/ Reinstall \/ InstallCommand \/ InstallItem

SetupSpec == SetupInit /\ [][SetupNext]_setupVars

-----------------------------------------------------------------------------
SetupTypeOK ==
  /\ plist \in Programs \union {None} /\ loaded \in Programs \union {None}
  /\ current \in BOOLEAN
  /\ decision \in Decisions \union {None}
  /\ login \in Logins /\ link \in Links /\ command \in BOOLEAN
  /\ app \in {"installed", "trashed", "reinstalled"}
  /\ store \in Store
  /\ call \in [Callers -> Call]
  /\ \A c \in Callers :
       At(c, "decide") => Is(c, {"enable", "defer", "initialize"})
  /\ spent \in [{"calls", "failures", "events"} -> Nat]

Succeeds(c) == Active(c) /\ call'[c].pc = "ok"

(* An uninstallation that reports success and that nothing overlapped, be  *)
(* it the first attempt or one after others that failed at any step,       *)
(* leaves no service, no login item and no link of the product; with the   *)
(* data deleted, no choice, profile or status is left, nor any secret but  *)
(* of profiles whose change was itself cut off.                            *)
UninstallLeavesNothing ==
  [][\A c \in Callers :
       Succeeds(c) /\ Is(c, {"keep", "erase"}) /\ call[c].alone =>
         /\ plist' = None /\ loaded' = None
         /\ login' = "none" /\ link' # "managed"
         /\ Is(c, {"erase"}) =>
              /\ decision' = None /\ ~store'.include
              /\ store'.catalog = {} /\ store'.cache = {}
              /\ store'.tokens \union store'.journal \subseteq store'.stray]_setupVars

(* A call that registers the agent, or needs one, and reports success      *)
(* leaves it running, also when it repeats one that launchd had refused    *)
(* between stopping the old definition and starting the new one.           *)
EnsureStarts ==
  [][\A c \in Callers :
       Succeeds(c) /\ Is(c, {"install", "enable", "sync", "paste"})
         /\ call[c].alone => loaded' # None]_setupVars

(* Starting the companion never registers a service that was not there,    *)
(* whatever a refused registration or removal left.                        *)
StartupCreatesNothing ==
  [][\A c \in Callers :
       Is(c, {"initialize"}) /\ call[c].alone /\ call'[c] # call[c] =>
         (plist = None => plist' = None)]_setupVars

(* A login item or a file at the link's place that is not the product's    *)
(* when a call looks at it is never changed.  What is lost at all is what  *)
(* another program put there after the look that precedes this very        *)
(* removal or replacement, as the administrator is being asked for one.    *)
Overtaken(c, stations) ==
  call[c].pc \in stations /\ call[c].overtaken /\ call'[c].pc # call[c].pc
ForeignKept ==
  [][/\ login = "foreign" /\ login' # "foreign" =>
          \E c \in Callers : Overtaken(c, {"rewrite", "removeLogin"})
     /\ link = "conflict" /\ link' # "conflict" =>
          \E c \in Callers : Overtaken(c, {"removeLink"})]_setupVars
=============================================================================
