--------------------------- MODULE TokenLifecycle ---------------------------
(***************************************************************************)
(* The life of one profile's credential: enrolment, rotation, renewal by   *)
(* the agent, retirement, and the manual mutations that take the           *)
(* credential out of management.  Every operation runs under the           *)
(* configuration lock, but is a sequence of separate effects (a request to *)
(* the server, a write to the secret store, a file replacement).  Between  *)
(* any two of them the process may die, a call may fail, a response may be *)
(* lost, time passes and the server may let any token lapse.               *)
(*                                                                         *)
(* A secret is named by the token it authenticates.  Issuable tokens are   *)
(* created by this application; Imported ones by the user.                 *)
(***************************************************************************)
EXTENDS Naturals, FiniteSets

CONSTANTS
  Users,      \* Warpgate identities a profile may name
  Pins,       \* host-key sets a user may approve when saving a profile
  Imported,   \* tokens the user created and pasted
  Issuable,   \* tokens the server can still create; bounds the issues
  Labels,     \* unique labels; bounds the rotations journaled
  None,       \* an absent Option
  Session,    \* authorization by the cookie of an interactive sign-in
  MaxClock,   \* bound of the clock
  MaxDisruptions,  \* bound of the disruptions
  MaxFailures,     \* bound of the failure count, which saturates
  Lifetime,   \* requested token lifetime, safety margin deducted
  Lead,       \* how long before its expiry a token is due for renewal
  Grace,      \* RETIREMENT_GRACE
  BaseDelay, MaxDelay   \* 60 and 3600 seconds: the renewal backoff

Secrets == Issuable \union Imported

ASSUME ConstantsAssumption ==
  /\ Issuable \intersect Imported = {}
  /\ None \notin Secrets \union Users \union Pins \union Labels
  /\ Session \notin Secrets \union {None}
  /\ Users # {}

ASSUME TimesAssumption ==
  /\ {MaxClock, MaxDisruptions, MaxFailures, Lifetime, Lead, Grace, BaseDelay, MaxDelay} \subseteq Nat
  /\ 0 < Lead /\ Lead < Lifetime

VARIABLES
  clock,
  disruptions,  \* what the environment has done so far
  \* the server
  account,    \* username the server reports for this identity
  issued,     \* token -> label it was created with, None before
  expiry,     \* token -> expiry the server reported
  revoked,    \* tokens deleted by this application while they were alive
  lapsed,     \* tokens that expired or were deleted by somebody else
  \* durable local state
  primary,    \* secret-store entry of the profile
  hostKeys,   \* pinned known_hosts file
  profile,    \* username in the profile catalog, None when absent
  record,     \* managed-token:: journal entry of the secret store
  cache,      \* entry of token-status.json
  \* the operation that holds the configuration lock
  op,         \* where it is
  mem,        \* its copy of the record
  failing     \* start of a failed renew_one_due not yet recorded, or None

world  == <<clock, disruptions>>
server == <<account, issued, expiry, revoked, lapsed>>
local  == <<primary, hostKeys, profile, record, cache>>
vars   == <<world, server, local, op, mem, failing>>

-----------------------------------------------------------------------------
Maybe(S) == S \union {None}

Transition ==
  [auth: Secrets \union {Session}, previous: Maybe(Secrets), label: Labels,
   requested: Nat, candidate: Maybe(Issuable),
   enrollment: Maybe([user: Users, pin: Pins]), cancelled: BOOLEAN]

Retirement == [id: Issuable, notBefore: Nat]

Record ==
  [user: Users, automatic: BOOLEAN, active: Maybe(Issuable),
   transition: Maybe(Transition), retirements: SUBSET Retirement]

Status ==
  [token: Maybe(Issuable), automatic: BOOLEAN, failures: Nat, nextAttempt: Nat]

(* An absent Option is none of the values an Option holds. *)
ASSUME NoneAssumption ==
  None \notin Transition /\ None \notin Record /\ None \notin Status
  /\ None \notin Nat /\ None \notin [user: Users, pin: Pins]

Tasks == {"none", "rotate", "enroll", "renew", "cancel", "choose",
          "save", "paste", "remove"}
Steps == {"idle", "auth", "reauth", "drop", "record", "cache", "sweep",
          "withdraw", "issue", "validate", "discard", "compare", "switch", "store",
          "hostKeys", "catalog", "retire", "clear", "clearCache"}
After == Steps \union {"end", "fail", "due"}

Operation ==
  [task: Tasks, pc: Steps, next: After, now: Nat, session: BOOLEAN,
   token: Maybe(Secrets), user: Maybe(Users), pin: Maybe(Pins),
   overtaken: BOOLEAN]   \* history: the entry changed between look and write

Idle == [task |-> "none", pc |-> "idle", next |-> "end", now |-> 0,
         session |-> FALSE, token |-> None, user |-> None, pin |-> None,
         overtaken |-> FALSE]

Live(t) == /\ t \notin revoked \union lapsed
           /\ t \in Issuable => issued[t] # None
Authorized(auth) == auth = Session \/ (auth \in Secrets /\ Live(auth))

FreshRecord(user) ==
  [user |-> user, automatic |-> TRUE, active |-> None,
   transition |-> None, retirements |-> {}]

RenewAfter(t) == expiry[t] - Lead
Due(r, now) == r.automatic /\ r.active # None /\ RenewAfter(r.active) <= now

-----------------------------------------------------------------------------
(* Control of the running operation *)

At(pc) == op.pc = pc
Goto(pc) == op' = [op EXCEPT !.pc = pc] /\ UNCHANGED <<mem, failing>>
Journal(r, next) ==
  /\ mem' = r
  /\ op' = [Idle EXCEPT !.task = op.task, !.now = op.now,
                        !.pc = "record", !.next = next]
  /\ UNCHANGED failing
Stop == op' = Idle /\ mem' = None
Succeed == Stop /\ UNCHANGED failing
(* An error returned by renew_one_due reaches renew_due's bookkeeping,     *)
(* unless it was cleaning up a cancelled transition.                       *)
Fail == /\ Stop
        /\ failing' = IF op.task = "renew" THEN op.now ELSE failing

(* What the environment does to an operation is counted: failed calls,     *)
(* lost responses, crashes, lapsed tokens, a taken lock, outside edits and *)
(* manual mutations. *)
Disrupt ==
  /\ disruptions < MaxDisruptions
  /\ disruptions' = disruptions + 1
  /\ UNCHANGED clock

(* Mutant: a cancelled transition is finished like any other. *)
FinishStepIgnoringCancel(r) ==
  IF r.transition.candidate = None THEN "issue" ELSE "validate"

(* Mutant: a cancelled candidate is withdrawn even when it is in use. *)
FinishStepWithdrawing(r) ==
  LET t == r.transition
  IN IF t.candidate = None THEN "sweep"
     ELSE IF t.cancelled THEN "withdraw" ELSE "validate"

(* Where finish_transition starts on record r.  A cancelled transition     *)
(* whose candidate is already the primary is completed. *)
FinishStep(r) ==
  LET t == r.transition
  IN IF t.candidate = None THEN "sweep"
     ELSE IF t.cancelled /\ primary # t.candidate THEN "withdraw"
     ELSE "validate"

(* rotate_locked, up to its first request *)
EnterRotation(task, now, session, user, pin) ==
  LET r == IF record = None THEN FreshRecord(user) ELSE record
      Begin(pc, next) ==
        /\ mem' = r
        /\ op' = [task |-> task, pc |-> pc, next |-> next, now |-> now,
                  session |-> session, token |-> primary,
                  user |-> user, pin |-> pin, overtaken |-> FALSE]
        /\ UNCHANGED failing
  IN /\ r.user = user
     /\ \/ /\ r.transition # None
           /\ Begin(IF session THEN "reauth" ELSE FinishStep(r), "end")
        \/ /\ r.transition = None
           /\ r.active \notin {None, primary}
           /\ Begin("clear", "fail")
        \/ /\ r.transition = None
           /\ r.active \in {None, primary}
           /\ session \/ primary # None
           /\ Begin("auth", "end")
     /\ UNCHANGED <<world, server, local>>

StartRotate(session) ==
  /\ op = Idle
  /\ profile # None
  /\ EnterRotation("rotate", clock, session, profile, None)

StartEnroll(user, pin) ==
  /\ op = Idle
  /\ profile \in {None, user}
  /\ EnterRotation("enroll", clock, TRUE, user, pin)

(* identity_matches and maximum_duration, then the journaled intent *)
Authenticate ==
  /\ At("auth")
  /\ account = op.user
  /\ \E l \in Labels :
       LET auth == IF op.session THEN Session ELSE op.token
       IN /\ \A t \in Issuable : issued[t] # l
          /\ Authorized(auth)
          /\ Journal([mem EXCEPT
                !.automatic = TRUE,
                !.transition =
                   [auth |-> auth, previous |-> op.token, label |-> l,
                    requested |-> op.now + Lifetime, candidate |-> None,
                    enrollment |-> IF op.task = "enroll"
                                   THEN [user |-> op.user, pin |-> op.pin]
                                   ELSE None,
                    cancelled |-> FALSE]], "sweep")
  /\ UNCHANGED <<world, server, local>>

(* The journal of a transition taken over by an interactive sign-in *)
Reconnected(candidate, previous) ==
  [mem EXCEPT
     !.automatic = TRUE,
     !.transition = [mem.transition EXCEPT
                       !.auth = Session, !.requested = op.now + Lifetime,
                       !.cancelled = FALSE,
                       !.candidate = candidate, !.previous = previous]]

Reauthenticate ==
  /\ At("reauth")
  /\ account = op.user
  /\ LET candidate == mem.transition.candidate
         kept == Reconnected(candidate, mem.transition.previous)
     IN \/ /\ candidate # None /\ ~Live(candidate)
           /\ Goto("drop")
        \/ Journal(kept, FinishStep(kept))   \* also when the probe fails
  /\ UNCHANGED <<world, server, local>>

-----------------------------------------------------------------------------
(* Requests that change the server.  A response may be lost: the effect    *)
(* stays and the operation fails.                                          *)

Answered(continue) == continue /\ UNCHANGED world
Lost == Fail /\ Disrupt

Revoke(auth, t) ==
  /\ Authorized(auth)
  /\ revoked' = revoked \union ({t} \ lapsed)
  /\ UNCHANGED <<account, issued, expiry, lapsed, local>>

DropCandidate ==
  /\ At("drop")
  /\ Revoke(Session, mem.transition.candidate)
  /\ Lost \/ Answered(Journal(Reconnected(None, op.token), "sweep"))

(* Mutant: only a token known by its identifier is looked for. *)
OrphansKnown == {t \in Issuable : Live(t) /\ t = mem.transition.candidate}

(* list, then revoke of every token that carries the pending label *)
Orphans == {t \in Issuable : Live(t) /\ issued[t] = mem.transition.label}

Sweep ==
  /\ At("sweep")
  /\ \E t \in Orphans : Revoke(mem.transition.auth, t)
  /\ Lost \/ Answered(UNCHANGED <<op, mem, failing>>)

Swept ==
  /\ At("sweep")
  /\ Authorized(mem.transition.auth)
  /\ Orphans = {}
  /\ IF mem.transition.cancelled
     THEN Journal([mem EXCEPT !.transition = None], "end")
     ELSE Goto("issue")
  /\ UNCHANGED <<world, server, local>>

Withdraw ==
  /\ At("withdraw")
  /\ Revoke(mem.transition.auth, mem.transition.candidate)
  /\ Lost \/ Answered(Journal([mem EXCEPT !.transition = None], "end"))

(* The server creates a token; expiries is what it may report.  A token    *)
(* reported as expired is refused and stays behind its label.              *)
Issue ==
  /\ At("issue")
  /\ Authorized(mem.transition.auth)
  /\ \E t \in Issuable, e \in {mem.transition.requested, 0} :
       /\ issued[t] = None
       /\ issued' = [issued EXCEPT ![t] = mem.transition.label]
       /\ expiry' = [expiry EXCEPT ![t] = e]
       /\ \/ Lost
          \/ Answered(IF e > op.now
                      THEN Journal([mem EXCEPT !.transition.candidate = t],
                                   "validate")
                      ELSE Fail)
  /\ UNCHANGED <<account, revoked, lapsed, local>>

Accepted(t) == Live(t) /\ account = mem.user

(* Mutants: the retired token is what the primary was before, the new      *)
(* candidate, or whatever the record holds as active. *)
RetiringPrevious(candidate) == {mem.transition.previous} \ {None}
RetiringCandidate(candidate) == {candidate}
RetiringBlindly(candidate) == {mem.active}

Retiring(candidate) == {mem.active} \ {None, candidate}

(* The record once the candidate is the primary: the bookkeeping that is   *)
(* left after the switch. *)
Committed ==
  LET candidate == mem.transition.candidate
  IN [mem EXCEPT
        !.active = candidate,
        !.transition = None,
        !.retirements =
           @ \union {[id |-> t, notBefore |-> op.now + Grace] : t \in Retiring(candidate)}]

Validate ==
  /\ At("validate")
  /\ Goto(IF Accepted(mem.transition.candidate) THEN "compare" ELSE "discard")
  /\ UNCHANGED <<world, server, local>>

Discard ==
  /\ At("discard")
  /\ Revoke(mem.transition.auth, mem.transition.candidate)
  /\ Lost \/ Answered(Journal([mem EXCEPT !.transition = None], "fail"))

(* Mutant: the stored secret is not compared. *)
ReplaceableAlways(t) == TRUE

Replaceable(t) == primary = t.previous

(* Read the stored secret: it may be the candidate already, the one the    *)
(* intent saw, or another, which ends the operation. *)
Compare ==
  /\ At("compare")
  /\ LET t == mem.transition
     IN \/ primary = t.candidate /\ Journal(Committed, "retire")
        \/ primary # t.candidate /\ ~Replaceable(t) /\ Fail
        \/ primary # t.candidate /\ Replaceable(t) /\ Goto("switch")
  /\ UNCHANGED <<world, server, local>>

(* Replace it.  The secret store has no compare-and-set: whatever it holds *)
(* by now is overwritten.  An enrolment goes on to the rest of             *)
(* save_profile. *)
Switch ==
  /\ At("switch")
  /\ primary' = mem.transition.candidate
  /\ LET enrollment == mem.transition.enrollment
     IN IF enrollment = None
        THEN Journal(Committed, "retire")
        ELSE /\ op' = [op EXCEPT !.pc = "hostKeys", !.overtaken = FALSE,
                                 !.user = enrollment.user,
                                 !.pin = enrollment.pin]
             /\ UNCHANGED <<mem, failing>>
  /\ UNCHANGED <<world, server, hostKeys, profile, record, cache>>

(* cleanup_retired: at most one due retirement is attempted per call, the  *)
(* earliest; the entry stays unless the server confirmed. *)
Retire ==
  /\ At("retire")
  /\ LET due == {r \in mem.retirements : r.notBefore <= op.now}
         kept == Journal(mem, op.next)
     IN \/ kept /\ UNCHANGED <<world, server, local>>
        \/ \E r \in due :
             /\ \A s \in due : r.notBefore <= s.notBefore
             /\ Revoke(mem.active, r.id)
             /\ \/ Answered(Journal([mem EXCEPT !.retirements = @ \ {r}], op.next))
                \/ kept /\ Disrupt

-----------------------------------------------------------------------------
(* Mutant: the journal is rewritten only when the visible status changes. *)
WriteRecordIfVisible ==
  /\ At("record")
  /\ record' = IF record # None /\ record.active = mem.active
               THEN record ELSE mem
  /\ Goto("cache")
  /\ UNCHANGED <<world, server, primary, hostKeys, profile, cache>>

(* persist: the record goes to the secret store, then its status to the    *)
(* cache file. *)

WriteRecord ==
  /\ At("record")
  /\ record' = mem
  /\ Goto("cache")
  /\ UNCHANGED <<world, server, primary, hostKeys, profile, cache>>

ExpiryOf(t) == IF t = None THEN None ELSE expiry[t]

(* A renewing profile keeps its failure count until another expiry is      *)
(* committed. *)
StatusOf(r) ==
  LET keep == /\ r.automatic
              /\ cache # None
              /\ \/ ExpiryOf(cache.token) = ExpiryOf(r.active)
                 \/ r.transition # None
  IN [token |-> r.active, automatic |-> r.automatic,
      failures |-> IF keep THEN cache.failures ELSE 0,
      nextAttempt |-> IF keep THEN cache.nextAttempt ELSE 0]

(* After the cache: the rest of the caller.  "due" is the end of           *)
(* renew_one_due, which rotates a token whose time has come. *)
WriteCache ==
  /\ At("cache")
  /\ cache' = StatusOf(mem)
  /\ UNCHANGED <<world, server, primary, hostKeys, profile, record>>
  /\ \/ op.next = "end" /\ Succeed
     \/ op.next = "fail" /\ Fail
     \/ op.next = "due" /\ ~Due(mem, op.now) /\ Succeed
     \/ /\ op.next = "due" /\ Due(mem, op.now)
        /\ op' = [op EXCEPT
             !.pc = IF mem.active = primary THEN "auth" ELSE "clear",
             !.next = IF mem.active = primary THEN "end" ELSE "fail",
             !.token = primary, !.user = profile]
        /\ UNCHANGED <<mem, failing>>
     \/ /\ op.next \notin {"end", "fail", "due"}
        /\ op' = [op EXCEPT !.pc = op.next, !.next = "end"]
        /\ UNCHANGED <<mem, failing>>

-----------------------------------------------------------------------------
(* Automatic renewal *)

StartRenew ==
  /\ op = Idle /\ failing = None
  /\ cache # None /\ cache.nextAttempt <= clock
  /\ record # None
  /\ IF profile = None
     THEN record.transition # None /\ record.transition.enrollment # None
     ELSE profile = record.user
  /\ LET Begin(task, pc, next) ==
           /\ mem' = record
           /\ op' = [Idle EXCEPT !.task = task, !.pc = pc, !.next = next,
                                 !.now = clock, !.token = primary,
                                 !.user = profile]
           /\ UNCHANGED failing
     IN \/ /\ record.transition # None
           /\ Begin(IF record.transition.cancelled THEN "cancel" ELSE "renew",
                    FinishStep(record), "end")
        \/ /\ record.transition = None
           /\ record.active \notin {None, primary}
           /\ Begin("renew", "clear", "end")
        \/ /\ record.transition = None
           /\ record.active # None /\ record.active = primary
           /\ Begin("renew", "retire", "due")
  /\ UNCHANGED <<world, server, local>>

(* The configuration lock is taken: an error too. *)
RenewCannotStart ==
  /\ op.task \notin {"none", "renew", "cancel"} /\ failing = None
  /\ cache # None
  /\ failing' = clock
  /\ Disrupt
  /\ UNCHANGED <<server, local, op, mem>>

Smaller(a, b) == IF a <= b THEN a ELSE b
Doubling == <<1, 2, 4, 8, 16, 32, 64>>
Backoff(failures) ==
  Smaller(BaseDelay * Doubling[Smaller(failures, 7)], MaxDelay)

(* The lock was released when renew_one_due returned: it is taken again,   *)
(* and the failure goes unrecorded if somebody else was faster. *)
RecordFailure ==
  /\ failing # None
  /\ failing' = None
  /\ IF op = Idle /\ record # None /\ cache # None
     THEN cache' = [cache EXCEPT
                      !.failures = Smaller(@ + 1, MaxFailures),
                      !.nextAttempt = failing + Backoff(cache.failures + 1)]
     ELSE UNCHANGED cache
  /\ UNCHANGED <<world, server, primary, hostKeys, profile, record, op, mem>>

SetAutomatic(enabled) ==
  /\ op = Idle
  /\ record # None
  /\ mem' = [record EXCEPT
        !.automatic = enabled,
        !.transition = IF @ # None /\ ~enabled
                       THEN [@ EXCEPT !.cancelled = TRUE] ELSE @]
  /\ op' = [Idle EXCEPT !.task = "choose", !.pc = "record"]
  /\ UNCHANGED <<world, server, local, failing>>

-----------------------------------------------------------------------------
(* apply_manual: the mutation, then clear_management *)

StartManual(task, token, user, pin) ==
  /\ op = Idle
  /\ op' = [Idle EXCEPT !.task = task, !.pc = "store",
                        !.token = token, !.user = user, !.pin = pin]
  /\ Disrupt
  /\ UNCHANGED <<server, local, mem, failing>>

SaveProfile(token, user, pin) == StartManual("save", token, user, pin)
RenewToken(token, user) ==
  profile # None /\ StartManual("paste", token, user, None)
RemoveProfile ==
  profile # None /\ StartManual("remove", None, None, None)

Store ==
  /\ At("store")
  /\ primary' = op.token
  /\ Goto(IF op.task = "paste" THEN "catalog" ELSE "hostKeys")
  /\ UNCHANGED <<world, server, hostKeys, profile, record, cache>>

WriteHostKeys ==
  /\ At("hostKeys")
  /\ hostKeys' = op.pin
  /\ Goto("catalog")
  /\ UNCHANGED <<world, server, primary, profile, record, cache>>

WriteCatalog ==
  /\ At("catalog")
  /\ profile' = op.user
  /\ IF mem = None
     THEN op' = [op EXCEPT !.pc = "clear", !.next = "end"]
          /\ UNCHANGED <<mem, failing>>
     ELSE Journal(Committed, "retire")
  /\ UNCHANGED <<world, server, primary, hostKeys, record, cache>>

Clear ==
  /\ At("clear")
  /\ record' = None
  /\ Goto("clearCache")
  /\ UNCHANGED <<world, server, primary, hostKeys, profile, cache>>

ClearCache ==
  /\ At("clearCache")
  /\ cache' = None
  /\ IF op.next = "fail" THEN Fail ELSE Succeed
  /\ UNCHANGED <<world, server, primary, hostKeys, profile, record>>

-----------------------------------------------------------------------------
(* Failures and the world *)

(* Any call may return an error before it has an effect. *)
CallFails ==
  /\ op # Idle
  /\ Fail
  /\ Disrupt
  /\ UNCHANGED <<server, local>>

(* The process dies; its lock goes with it. *)
Crash ==
  /\ op # Idle \/ failing # None
  /\ Stop
  /\ failing' = None
  /\ Disrupt
  /\ UNCHANGED <<server, local>>

Tick ==
  /\ clock < MaxClock
  /\ clock' = clock + 1
  /\ UNCHANGED <<disruptions, server, local, op, mem, failing>>

Lapse(t) ==
  /\ Live(t)
  /\ lapsed' = lapsed \union {t}
  /\ Disrupt
  /\ UNCHANGED <<account, issued, expiry, revoked, local, op, mem, failing>>

(* The secret-store entry is changed without the application and without   *)
(* its lock, also between the look of Compare and the write of Switch. *)
ReplaceOutside(t) ==
  /\ primary # t
  /\ primary' = t
  /\ op' = IF At("switch") THEN [op EXCEPT !.overtaken = TRUE] ELSE op
  /\ Disrupt
  /\ UNCHANGED <<server, hostKeys, profile, record, cache, mem, failing>>

(* The identity is renamed on the server; the next synchronization copies  *)
(* the new name to the catalog. *)
Rename(user) ==
  /\ account' = user
  /\ UNCHANGED <<world, issued, expiry, revoked, lapsed, local, op, mem, failing>>

SynchronizeProfile ==
  /\ op = Idle
  /\ profile # None /\ primary # None /\ Live(primary)
  /\ profile' = account
  /\ UNCHANGED <<world, server, primary, hostKeys, record, cache, op, mem, failing>>

-----------------------------------------------------------------------------
Init ==
  /\ clock = 0 /\ disruptions = 0
  /\ account \in Users
  /\ issued = [t \in Issuable |-> None]
  /\ expiry = [t \in Issuable |-> 0]
  /\ revoked = {} /\ lapsed = {}
  /\ primary = None /\ hostKeys = None /\ profile = None
  /\ record = None /\ cache = None
  /\ op = Idle /\ mem = None /\ failing = None

Rotation ==
  \/ \E session \in BOOLEAN : StartRotate(session)
  \/ \E user \in Users, pin \in Pins : StartEnroll(user, pin)
  \/ Authenticate \/ Reauthenticate \/ DropCandidate
  \/ Sweep \/ Swept \/ Withdraw \/ Issue \/ Validate \/ Discard
  \/ Compare \/ Switch \/ Retire \/ WriteRecord \/ WriteCache

Renewal ==
  \/ StartRenew \/ RenewCannotStart \/ RecordFailure
  \/ \E enabled \in BOOLEAN : SetAutomatic(enabled)

Manual ==
  \/ \E t \in Imported, user \in Users :
       \/ RenewToken(t, user)
       \/ \E pin \in Pins : SaveProfile(t, user, pin)
  \/ RemoveProfile
  \/ Store \/ WriteHostKeys \/ WriteCatalog \/ Clear \/ ClearCache

World ==
  \/ CallFails \/ Crash \/ Tick \/ SynchronizeProfile
  \/ \E t \in Secrets : Lapse(t)
  \/ \E t \in Imported : ReplaceOutside(t)
  \/ \E user \in Users : Rename(user)

Next == Rotation \/ Renewal \/ Manual \/ World

Spec == Init /\ [][Next]_vars

-----------------------------------------------------------------------------
(* Type invariant *)

TypeOK ==
  /\ clock \in Nat /\ disruptions \in Nat
  /\ account \in Users
  /\ issued \in [Issuable -> Maybe(Labels)]
  /\ expiry \in [Issuable -> Nat]
  /\ revoked \subseteq Secrets /\ lapsed \subseteq Secrets
  /\ primary \in Maybe(Secrets)
  /\ hostKeys \in Maybe(Pins)
  /\ profile \in Maybe(Users)
  /\ record \in Maybe(Record)
  /\ cache \in Maybe(Status)
  /\ op \in Operation
  /\ mem \in Maybe(Record)
  /\ failing \in Maybe(Nat)

-----------------------------------------------------------------------------
(* Safety *)

Candidates(r) ==
  IF r = None THEN {}
  ELSE IF r.transition = None THEN {} ELSE {r.transition.candidate} \ {None}
Retired(r) == IF r = None THEN {} ELSE {x.id : x \in r.retirements}
Active(r) == IF r = None THEN {} ELSE {r.active} \ {None}
Pending(r) ==
  IF r = None THEN {}
  ELSE IF r.transition = None THEN {}
  ELSE {t \in Issuable : issued[t] = r.transition.label}

(* The tokens the journal lets the application find again. *)
Accounted(r) == Active(r) \union Retired(r) \union Candidates(r) \union Pending(r)

(* ADR 0037: imported credentials are never revoked. *)
ImportedNeverRevoked == revoked \intersect Imported = {}

(* "retaining the usable old credential until the replacement has been     *)
(* validated and journaled": a usable token of ours is the primary only if *)
(* the journal already names it, so that no crash makes it anonymous.      *)
JournaledBeforeInstalled ==
  primary \in Issuable /\ Live(primary)
  => primary \in Active(record) \union Candidates(record)

(* A credential waiting for its deletion is not in use any more, neither   *)
(* as the primary nor as a token the journal may still promote. *)
RetiredNotInUse ==
  Retired(record) \intersect
    ({primary} \union Active(record) \union Candidates(record)) = {}

(* No usable token escapes: whatever fails, every live token of ours stays *)
(* findable through the journal until a manual change ends the management. *)
NothingOrphaned ==
  [][\A t \in Issuable :
       Live(t)' /\ t \notin Accounted(record)'
       => \/ Live(t) /\ t \notin Accounted(record)
          \/ record' = None]_vars

(* "Disabling renewal prevents future creation and cancels pending         *)
(* replacement": while the journal says disabled, nothing is created and   *)
(* no token of ours becomes the primary, except the one that already was   *)
(* the primary when the running operation read it.                         *)
DisabledMeansNoReplacement ==
  [][record # None /\ ~record.automatic
     => /\ issued' = issued
        /\ primary' # primary
           => primary' \notin Issuable \/ primary' = op.token]_vars

(* A token of ours replaces only the credential its journaled intent saw:  *)
(* one pasted or edited since then stays, whatever failures, crashes and   *)
(* retries lie between, unless it was edited after the look that precedes  *)
(* this very write.  The one exception is the gap the code has: Compare    *)
(* and Switch are two calls of the secret store. *)
UnexpectedPrimaryKept ==
  [][primary' \in Issuable /\ primary' # primary
     => /\ Candidates(record) = {primary'}
        /\ record.transition.previous = primary \/ op.overtaken]_vars

(* Without a rename of the identity, the lifecycle implements the contract. *)
Contract == INSTANCE CredentialContract WITH
  Owned <- Issuable, Foreign <- Imported, NoToken <- None,
  stored <- primary, created <- {t \in Issuable : issued[t] # None},
  deleted <- revoked
ContractSpec == Contract!CSpec

-----------------------------------------------------------------------------
(* Statements of the documentation that the code does not meet *)

(* "The primary was already committed before interruption: finish          *)
(* bookkeeping only": an enrolment that is closed as committed has its     *)
(* profile and its approved host keys. *)
CommittedEnrollmentIsComplete ==
  [][/\ record # None /\ record' # None
     /\ Candidates(record) # {} /\ record.transition.enrollment # None
     /\ record'.transition = None /\ record'.active \in Candidates(record)
     => profile # None /\ hostKeys = record.transition.enrollment.pin]_vars

(* "Failed automatic renewals preserve the last usable token". *)
LastUsableTokenKept == [][primary \notin revoked' \ revoked]_vars

=============================================================================
