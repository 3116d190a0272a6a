-------------------------- MODULE Synchronization --------------------------
(***************************************************************************)
(* The local files of the product and the operations that replace them:    *)
(* a synchronization, which asks every profile's server and publishes the  *)
(* managed SSH configuration, and a configuration change, which saves,     *)
(* removes or adjusts a profile.  They run in different threads or         *)
(* processes, take the same nonblocking lock, and each of their file       *)
(* replacements is atomic while the sequence of them is not.  The process  *)
(* may die, or a call fail, between any two; the servers change meanwhile. *)
(***************************************************************************)
EXTENDS Naturals, FiniteSets

CONSTANTS
  Profiles,    \* profile names; their order is the order of the numbers
  Endpoints,   \* SSH host and port a server may advertise
  Keys,        \* host-key material a server may present
  Listings,    \* what a server may list as the user's SSH targets
  None,
  MaxEdits,    \* bound of the configuration changes
  MaxChanges,  \* bound of the changes on the servers
  MaxFailures  \* bound of the failed calls and crashes

ASSUME SynchronizationAssumption ==
  /\ Profiles \subseteq Nat /\ IsFiniteSet(Profiles)
  /\ {MaxEdits, MaxChanges, MaxFailures} \subseteq Nat
  /\ None \notin Profiles \union Listings \union Keys \union Endpoints

VARIABLES
  server,      \* profile -> what its server says and presents
  \* files and secret store
  catalog,     \* profiles.json
  token,       \* profile -> whether the secret store has its token
  pins,        \* profile -> its known_hosts file
  config,      \* profile -> its part of the managed SSH configuration
  snapshot,    \* profile -> its targets in snapshot.json
  \* processes
  lock,        \* holder of configuration.lock
  sync,        \* the synchronization
  edit,        \* the configuration change
  budget       \* what has happened of each bounded kind

files == <<catalog, token, pins, config, snapshot>>
vars  == <<server, files, lock, sync, edit, budget>>

-----------------------------------------------------------------------------
Maybe(S) == S \union {None}
Auths == {"auto", "in_browser"}

Server  == [endpoint: Endpoints, key: Keys, targets: Listings]
Entry   == [endpoint: Endpoints, auth: Auths]
Catalog == [default: Maybe(Profiles), entries: [Profiles -> Maybe(Entry)]]
Pin     == [endpoint: Endpoints, key: Keys]
Section == [endpoint: Endpoints, auth: Auths, targets: Listings, short: BOOLEAN]

(* An absent value is none of the present ones. *)
ASSUME NoneAssumption == None \notin Entry \union Pin \union Section

Known(c) == {p \in Profiles : c.entries[p] # None}
First(S) == CHOOSE p \in S : \A q \in S : p <= q
NoCatalog == [default |-> None, entries |-> [p \in Profiles |-> None]]

Sync == [pc: {"idle", "verify", "scan", "pin", "render", "list",
              "config", "snapshot", "catalog"},
         todo: SUBSET Profiles, endpoint: Maybe(Endpoints),
         key: Maybe(Keys), catalog: Catalog,
         rendered: [Profiles -> Maybe(Section)]]
Edit == [task: {"none", "save", "paste", "authenticate", "remove", "default"},
         pc: {"idle", "token", "hostKeys", "catalog"},
         name: Maybe(Profiles), pin: Maybe(Pin), catalog: Catalog]

NoSections == [p \in Profiles |-> None]
SyncIdle == [pc |-> "idle", todo |-> {}, endpoint |-> None, key |-> None,
             catalog |-> NoCatalog, rendered |-> NoSections]
EditIdle == [task |-> "none", pc |-> "idle", name |-> None, pin |-> None,
             catalog |-> NoCatalog]

(* Every bounded kind of event is counted. *)
Spend(kind, bound) ==
  /\ budget[kind] < bound
  /\ budget' = [budget EXCEPT ![kind] = @ + 1]

-----------------------------------------------------------------------------
(* verify_and_synchronize_all, first loop: the pinned host keys *)

(* Mutant: the lock is not taken. *)
StartSyncUnlocked ==
  /\ sync.pc = "idle"
  /\ sync' = [SyncIdle EXCEPT !.pc = "verify", !.todo = Known(catalog),
                              !.catalog = catalog]
  /\ UNCHANGED <<server, files, edit, budget, lock>>

StartSync ==
  /\ sync.pc = "idle"
  /\ lock = "free"
  /\ lock' = "sync"
  /\ sync' = [SyncIdle EXCEPT !.pc = "verify", !.todo = Known(catalog),
                              !.catalog = catalog]
  /\ UNCHANGED <<server, files, edit, budget>>

Current == First(sync.todo)
AbortSync == sync' = SyncIdle /\ lock' = "free"

(* The first loop is over: synchronize_all loads the catalog again. *)
Rendering == [SyncIdle EXCEPT !.pc = "render", !.todo = Known(catalog),
                              !.catalog = catalog]

Verify ==
  /\ sync.pc = "verify"
  /\ IF sync.todo = {}
     THEN sync' = Rendering /\ UNCHANGED lock
     ELSE IF token[Current]
     THEN /\ sync' = [sync EXCEPT !.pc = "scan",
                                  !.endpoint = server[Current].endpoint]
          /\ UNCHANGED lock
     ELSE AbortSync
  /\ UNCHANGED <<server, files, edit, budget>>

(* Mutant: the presented key is not compared with the pinned one. *)
SameKeyAlways(p) == pins[p] # None

SameKey(p) == pins[p] # None /\ pins[p].key = server[p].key

(* Mutant: the moved endpoint is saved before the pins that name it.       *)
ScanSaving ==
  /\ sync.pc = "scan"
  /\ IF SameKey(Current)
     THEN /\ UNCHANGED lock
          /\ sync' = IF sync.catalog.entries[Current].endpoint = sync.endpoint
                     THEN [sync EXCEPT !.pc = "verify", !.todo = @ \ {Current},
                                       !.endpoint = None]
                     ELSE [sync EXCEPT !.pc = "pin", !.key = server[Current].key]
          /\ catalog' = [catalog EXCEPT !.entries[Current].endpoint = sync.endpoint]
     ELSE AbortSync /\ UNCHANGED catalog
  /\ UNCHANGED <<server, token, pins, config, snapshot, edit, budget>>

Scan ==
  /\ sync.pc = "scan"
  /\ IF SameKey(Current)
     THEN /\ UNCHANGED lock
          /\ sync' = IF sync.catalog.entries[Current].endpoint = sync.endpoint
                     THEN [sync EXCEPT !.pc = "verify", !.todo = @ \ {Current},
                                       !.endpoint = None]
                     ELSE [sync EXCEPT !.pc = "pin", !.key = server[Current].key]
     ELSE AbortSync
  /\ UNCHANGED <<server, files, edit, budget>>

(* The presented keys, which name the endpoint, replace the pinned ones. *)
WritePin ==
  /\ sync.pc = "pin"
  /\ pins' = [pins EXCEPT ![Current] = [endpoint |-> sync.endpoint, key |-> sync.key]]
  /\ sync' = [sync EXCEPT !.pc = "verify", !.todo = @ \ {Current},
                          !.endpoint = None, !.key = None]
  /\ UNCHANGED <<server, catalog, token, config, snapshot, lock, edit, budget>>

-----------------------------------------------------------------------------
(* synchronize_all: every profile is asked before the first file is        *)
(* replaced *)

Render ==
  /\ sync.pc = "render"
  /\ IF sync.todo = {}
     THEN sync' = [sync EXCEPT !.pc = "config"] /\ UNCHANGED lock
     ELSE IF pins[Current] # None /\ token[Current]
     THEN /\ sync' = [sync EXCEPT !.pc = "list",
                                  !.endpoint = server[Current].endpoint]
          /\ UNCHANGED lock
     ELSE AbortSync
  /\ UNCHANGED <<server, files, edit, budget>>

(* Mutant: the first answer is published without waiting for the others. *)
ListPublishing ==
  /\ sync.pc = "list"
  /\ sync' = [sync EXCEPT
       !.pc = "config",
       !.todo = @ \ {Current},
       !.endpoint = None,
       !.catalog.entries[Current].endpoint = sync.endpoint,
       !.rendered[Current] =
         [endpoint |-> sync.endpoint,
          auth |-> sync.catalog.entries[Current].auth,
          targets |-> server[Current].targets,
          short |-> sync.catalog.default = Current]]
  /\ UNCHANGED <<server, files, lock, edit, budget>>

(* The metadata goes to the copy of the catalog, the section to the text   *)
(* that will be published. *)
List ==
  /\ sync.pc = "list"
  /\ sync' = [sync EXCEPT
       !.pc = "render",
       !.todo = @ \ {Current},
       !.endpoint = None,
       !.catalog.entries[Current].endpoint = sync.endpoint,
       !.rendered[Current] =
         [endpoint |-> sync.endpoint,
          auth |-> sync.catalog.entries[Current].auth,
          targets |-> server[Current].targets,
          short |-> sync.catalog.default = Current]]
  /\ UNCHANGED <<server, files, lock, edit, budget>>

WriteConfig ==
  /\ sync.pc = "config"
  /\ config' = sync.rendered
  /\ sync' = [sync EXCEPT !.pc = "snapshot"]
  /\ UNCHANGED <<server, catalog, token, pins, snapshot, lock, edit, budget>>

Targets(sections) ==
  [p \in Profiles |-> IF sections[p] = None THEN None ELSE sections[p].targets]

(* Without profiles the catalog is not written. *)
WriteSnapshot ==
  /\ sync.pc = "snapshot"
  /\ snapshot' = Targets(sync.rendered)
  /\ IF Known(sync.catalog) = {}
     THEN AbortSync
     ELSE sync' = [sync EXCEPT !.pc = "catalog"] /\ UNCHANGED lock
  /\ UNCHANGED <<server, catalog, token, pins, config, edit, budget>>

WriteCatalog ==
  /\ sync.pc = "catalog"
  /\ catalog' = sync.catalog
  /\ AbortSync
  /\ UNCHANGED <<server, token, pins, config, snapshot, edit, budget>>

SyncStep ==
  \/ Verify \/ Scan \/ WritePin \/ Render \/ List
  \/ WriteConfig \/ WriteSnapshot \/ WriteCatalog

-----------------------------------------------------------------------------
(* Configuration changes: the changed catalog is computed from what is     *)
(* read first and written last. *)

Upserted(p, entry) ==
  [default |-> IF Known(catalog) = {} THEN p ELSE catalog.default,
   entries |-> [catalog.entries EXCEPT ![p] = entry]]

(* Mutant: the default profile is removed and stays the default. *)
WithoutNewDefault(p) ==
  [default |-> catalog.default, entries |-> [catalog.entries EXCEPT ![p] = None]]

(* Removing the default profile makes the first remaining one the default. *)
Without(p) ==
  LET rest == Known(catalog) \ {p}
  IN [default |-> IF catalog.default # p THEN catalog.default
                  ELSE IF rest = {} THEN None ELSE First(rest),
      entries |-> [catalog.entries EXCEPT ![p] = None]]

StartEdit(task, pc, name, pin, changed) ==
  /\ edit.pc = "idle"
  /\ lock = "free"
  /\ lock' = "edit"
  /\ edit' = [task |-> task, pc |-> pc, name |-> name, pin |-> pin,
              catalog |-> changed]
  /\ Spend("edits", MaxEdits)
  /\ UNCHANGED <<server, files, sync>>

(* The user approved the keys that were presented at this endpoint.  A     *)
(* profile saved again keeps its choice of SSH authentication. *)
SaveProfile(p, pin) ==
  LET auth == IF catalog.entries[p] = None THEN "auto" ELSE catalog.entries[p].auth
  IN StartEdit("save", "token", p, pin,
               Upserted(p, [endpoint |-> pin.endpoint, auth |-> auth]))

RenewToken(p) ==
  /\ p \in Known(catalog)
  /\ StartEdit("paste", "token", p, None, catalog)

SetSshAuthentication(p, auth) ==
  /\ p \in Known(catalog)
  /\ StartEdit("authenticate", "catalog", p, None,
               Upserted(p, [catalog.entries[p] EXCEPT !.auth = auth]))

RemoveProfile(p) ==
  /\ p \in Known(catalog)
  /\ StartEdit("remove", "token", p, None, Without(p))

SetDefaultProfile(p) ==
  /\ p \in Known(catalog)
  /\ StartEdit("default", "catalog", p, None, [catalog EXCEPT !.default = p])

EditToken ==
  /\ edit.pc = "token"
  /\ token' = [token EXCEPT ![edit.name] = edit.task # "remove"]
  /\ edit' = [edit EXCEPT !.pc = IF edit.task = "paste" THEN "catalog" ELSE "hostKeys"]
  /\ UNCHANGED <<server, catalog, pins, config, snapshot, lock, sync, budget>>

EditHostKeys ==
  /\ edit.pc = "hostKeys"
  /\ pins' = [pins EXCEPT ![edit.name] = edit.pin]
  /\ edit' = [edit EXCEPT !.pc = "catalog"]
  /\ UNCHANGED <<server, catalog, token, config, snapshot, lock, sync, budget>>

(* Mutant: the lock is not released. *)
AbortEditLocked == edit' = EditIdle /\ UNCHANGED lock

AbortEdit == edit' = EditIdle /\ lock' = "free"

EditCatalog ==
  /\ edit.pc = "catalog"
  /\ catalog' = edit.catalog
  /\ AbortEdit
  /\ UNCHANGED <<server, token, pins, config, snapshot, sync, budget>>

EditStep == EditToken \/ EditHostKeys \/ EditCatalog

-----------------------------------------------------------------------------
(* Failures and the world *)

(* A call of the synchronization returns an error, or its process dies. *)
SyncFails ==
  /\ sync.pc # "idle"
  /\ AbortSync
  /\ Spend("failures", MaxFailures)
  /\ UNCHANGED <<server, files, edit>>

EditFails ==
  /\ edit.pc # "idle"
  /\ AbortEdit
  /\ Spend("failures", MaxFailures)
  /\ UNCHANGED <<server, files, sync>>

ServerChanges(p, new) ==
  /\ new # server[p]
  /\ server' = [server EXCEPT ![p] = new]
  /\ Spend("changes", MaxChanges)
  /\ UNCHANGED <<files, lock, sync, edit>>

-----------------------------------------------------------------------------
Init ==
  /\ server \in [Profiles -> Server]
  /\ catalog = NoCatalog
  /\ token = [p \in Profiles |-> FALSE]
  /\ pins = [p \in Profiles |-> None]
  /\ config = NoSections
  /\ snapshot = [p \in Profiles |-> None]
  /\ lock = "free" /\ sync = SyncIdle /\ edit = EditIdle
  /\ budget = [kind \in {"edits", "changes", "failures"} |-> 0]

Edits ==
  \E p \in Profiles :
    \/ \E pin \in Pin : SaveProfile(p, pin)
    \/ \E auth \in Auths : SetSshAuthentication(p, auth)
    \/ RenewToken(p) \/ RemoveProfile(p) \/ SetDefaultProfile(p)

World ==
  \/ SyncFails \/ EditFails
  \/ \E p \in Profiles, new \in Server : ServerChanges(p, new)

Next == StartSync \/ SyncStep \/ Edits \/ EditStep \/ World

Spec == Init /\ [][Next]_vars

(* The agent starts a synchronization again and again; a thread that is    *)
(* running goes on.  The user need not change anything. *)
Fairness == WF_vars(StartSync) /\ WF_vars(SyncStep) /\ WF_vars(EditStep)
FairSpec == Spec /\ Fairness

-----------------------------------------------------------------------------
(* The types, and who holds the lock. *)
TypeOK ==
  /\ server \in [Profiles -> Server]
  /\ catalog \in Catalog
  /\ token \in [Profiles -> BOOLEAN]
  /\ pins \in [Profiles -> Maybe(Pin)]
  /\ config \in [Profiles -> Maybe(Section)]
  /\ snapshot \in [Profiles -> Maybe(Listings)]
  /\ lock = IF sync.pc # "idle" THEN "sync"
            ELSE IF edit.pc # "idle" THEN "edit" ELSE "free"
  /\ sync \in Sync
  /\ edit \in Edit
  /\ budget \in [{"edits", "changes", "failures"} -> Nat]

(* ADR 0010: the managed configuration is replaced only by a complete one: *)
(* a section for every profile of the catalog and for no other, each with  *)
(* the preferences the catalog holds at that moment.                       *)
NeverPartial ==
  [][config' # config =>
       \A p \in Profiles :
         /\ config'[p] # None <=> catalog.entries[p] # None
         /\ config'[p] # None =>
              /\ config'[p].auth = catalog.entries[p].auth
              /\ config'[p].short = (catalog.default = p)]_vars

(* ADR 0016: the last write of a synchronization takes back no change a    *)
(* user made: it brings metadata, never another set of profiles, another   *)
(* default or another choice of authentication.                            *)
ChangesKept ==
  [][catalog' # catalog /\ edit' = edit =>
       /\ catalog'.default = catalog.default
       /\ \A p \in Profiles :
            /\ catalog'.entries[p] = None <=> catalog.entries[p] = None
            /\ catalog.entries[p] # None =>
                 catalog'.entries[p].auth = catalog.entries[p].auth]_vars

(* ADR 0014: no synchronization trusts a key the user has not approved,    *)
(* and none drops a pin.                                                   *)
TrustKept ==
  [][\A p \in Profiles :
       pins'[p] # pins[p] /\ edit' = edit =>
         /\ pins[p] # None /\ pins'[p] # None
         /\ pins'[p].key = pins[p].key]_vars

(* A default profile exists whenever a profile does, and it is one. *)
DefaultIn(c) ==
  IF Known(c) = {} THEN c.default = None ELSE c.default \in Known(c)

DefaultKnown == DefaultIn(catalog)

(* The user's choices in two catalogs agree; only metadata may differ. *)
SameChoices(c, d) ==
  /\ c.default = d.default
  /\ \A p \in Profiles :
       /\ c.entries[p] = None <=> d.entries[p] = None
       /\ d.entries[p] # None => c.entries[p].auth = d.entries[p].auth

(* A profile has a rendered section once it has been asked, made from the  *)
(* choices in the file. *)
RenderedFrom(c) ==
  \A p \in Profiles :
    /\ sync.rendered[p] # None <=> p \in Known(c) \ sync.todo
    /\ sync.rendered[p] # None =>
         /\ sync.rendered[p].auth = c.entries[p].auth
         /\ sync.rendered[p].short = (c.default = p)

(* What makes the three promises above and DefaultKnown survive the steps  *)
(* between reading the catalog and writing it: nobody else writes in       *)
(* between, so what a thread read stays a faithful copy of the files.      *)
CopiesFaithful ==
  /\ sync.pc = "idle" \/ edit.pc = "idle"
  /\ sync.pc # "idle" =>
       SameChoices(sync.catalog, catalog) /\ sync.todo \subseteq Known(catalog)
  /\ sync.pc \in {"scan", "pin", "list"} =>
       sync.todo # {} /\ sync.endpoint # None
  /\ sync.pc = "pin" => pins[Current] # None /\ pins[Current].key = sync.key
  /\ sync.pc \in {"render", "list", "config"} => RenderedFrom(catalog)
  /\ sync.pc = "config" => sync.todo = {}
  /\ edit.pc # "idle" => edit.name \in Profiles /\ DefaultIn(edit.catalog)

(* A profile the synchronization cannot pass: its token or its pin is      *)
(* gone, or its server presents another key. *)
Blocked ==
  \E p \in Known(catalog) : ~token[p] \/ ~SameKey(p)

UpToDate ==
  /\ \A p \in Profiles :
       config[p] = IF catalog.entries[p] = None THEN None
                   ELSE [endpoint |-> server[p].endpoint,
                         auth |-> catalog.entries[p].auth,
                         targets |-> server[p].targets,
                         short |-> catalog.default = p]
  /\ snapshot = Targets(config)
  /\ \A p \in Known(catalog) : catalog.entries[p].endpoint = server[p].endpoint

(* Whatever failed or died between two writes, once users and servers      *)
(* leave it alone the three files agree with each other and with the       *)
(* servers for good, unless a profile needs its user.                      *)
Converges == <>[](Blocked \/ UpToDate)

-----------------------------------------------------------------------------
(* Statements of the documentation that the code does not meet *)

Usable(p) == config[p] # None /\ pins[p] # None /\ pins[p].endpoint = config[p].endpoint

(* "All targets of this profile reuse this trust": in the long run every   *)
(* published alias connects to an endpoint its pin names.                  *)
AliasesTrusted == <>[](Blocked \/ \A p \in Known(catalog) : Usable(p))

=============================================================================
