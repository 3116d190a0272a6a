------------------------- MODULE TokenLifecycleTypes -------------------------
(***************************************************************************)
(* The types of TokenLifecycle, proved for every value of its constants.   *)
(***************************************************************************)
EXTENDS TokenLifecycleInvariant, TLAPS

-----------------------------------------------------------------------------
(* Control: what the operation's copy of the record holds at each step. *)

Ready(step, r) ==
  /\ step \in {"sweep", "issue"} =>
       r.transition # None /\ r.transition.candidate = None
  /\ step \in {"drop", "withdraw", "validate", "discard", "compare", "switch"} =>
       r.transition # None /\ r.transition.candidate # None
  /\ step = "reauth" => r.transition # None
  /\ step = "auth" => r.transition = None
  /\ step \in {"retire", "due"} => r.transition = None /\ r.active # None

Managed == {"auth", "reauth", "drop", "sweep", "issue", "withdraw", "validate",
            "discard", "compare", "switch", "retire"}
Continuations == {"sweep", "validate", "retire", "due", "end", "fail"}

Control ==
  /\ op.pc = "idle" => op = Idle /\ mem = None
  /\ op.pc \in Managed => mem \in Record /\ Ready(op.pc, mem)
  /\ op.pc \in {"record", "cache"} =>
       mem \in Record /\ Ready(op.next, mem) /\ op.next \in Continuations
  /\ op.pc = "retire" => op.next \in {"end", "due"}
  /\ op.pc = "store" => mem = None
  /\ op.pc \in {"hostKeys", "catalog"} /\ mem # None =>
       mem \in Record /\ Ready("switch", mem)
  /\ op.pc = "auth" /\ op.task = "enroll" => op.pin \in Pins
  /\ op.next = "due" => op.task # "enroll"

VolatileOK ==
  /\ op \in Operation
  /\ mem \in Maybe(Record)
  /\ failing \in Maybe(Nat)
  /\ Control

DurableOK ==
  /\ clock \in Nat /\ disruptions \in Nat
  /\ account \in Users
  /\ issued \in [Issuable -> Maybe(Labels)]
  /\ expiry \in [Issuable -> Nat]
  /\ revoked \subseteq Secrets /\ lapsed \subseteq Secrets
  /\ primary \in Maybe(Secrets)
  /\ hostKeys \in Maybe(Pins)
  /\ profile \in Maybe(Users)
  /\ record \in Maybe(Record)
  /\ cache \in Maybe(Status)

TypeInv == DurableOK /\ VolatileOK

LEMMA RevokeType ==
  ASSUME DurableOK, NEW auth, NEW t \in Secrets, Revoke(auth, t),
         clock' \in Nat, disruptions' \in Nat
  PROVE  DurableOK'
  BY DEF Revoke, DurableOK, local

LEMMA IdleType == Idle \in Operation /\ Idle.pc = "idle"
  BY DEF Idle, Operation, Tasks, Steps, After, Maybe

LEMMA FreshRecordType ==
  ASSUME NEW u \in Users
  PROVE  FreshRecord(u) \in Record /\ FreshRecord(u).transition = None
  BY DEF FreshRecord, Record, Maybe

(* finish_transition starts where the record has what the step needs. *)
LEMMA FinishStepReady ==
  ASSUME NEW r, r.transition # None
  PROVE  /\ FinishStep(r) \in {"sweep", "withdraw", "validate"}
         /\ Ready(FinishStep(r), r)
  BY DEF FinishStep, Ready

LEMMA BackoffType ==
  ASSUME NEW n \in Nat, n > 0
  PROVE  Backoff(n) \in Nat
  <1>1. Smaller(n, 7) \in 1..7
    BY DEF Smaller
  <1>2. Doubling[Smaller(n, 7)] \in Nat
    BY <1>1 DEF Doubling
  <1>3. BaseDelay \in Nat /\ MaxDelay \in Nat
    BY TimesAssumption DEF TimesAssumption
  <1>4. BaseDelay * Doubling[Smaller(n, 7)] \in Nat
    BY <1>2, <1>3
  <1> QED
    BY <1>3, <1>4 DEF Backoff, Smaller

-----------------------------------------------------------------------------
(* The ways an operation goes on *)

LEMMA JournalControl ==
  ASSUME VolatileOK, NEW r \in Record, NEW next \in Continuations,
         Ready(next, r), Journal(r, next), next = "due" => op.next = "due"
  PROVE  VolatileOK'
  <1>1. op.task \in Tasks /\ op.now \in Nat
    BY DEF VolatileOK, Operation
  <1>2. op' = [Idle EXCEPT !.task = op.task, !.now = op.now,
                           !.pc = "record", !.next = next]
        /\ mem' = r /\ failing' = failing
    BY DEF Journal
  <1>3. op' \in Operation /\ op'.pc = "record" /\ op'.next = next /\ op'.task = op.task
    BY <1>1, <1>2, IdleType DEF Operation, Continuations, Steps, After
  <1>4. Control'
    BY <1>2, <1>3 DEF VolatileOK, Control, Managed
  <1> QED
    BY <1>2, <1>3, <1>4 DEF VolatileOK, Maybe

LEMMA GotoControl ==
  ASSUME VolatileOK, NEW step \in Managed \ {"auth", "retire"},
         mem \in Record, Ready(step, mem), Goto(step)
  PROVE  VolatileOK'
  BY DEF VolatileOK, Control, Goto, Managed, Continuations, Operation, Steps, After

LEMMA StopControl ==
  ASSUME VolatileOK, Stop, failing' \in Maybe(Nat)
  PROVE  VolatileOK'
  BY IdleType DEF VolatileOK, Control, Stop, Managed, Maybe, Idle

LEMMA FailControl == ASSUME VolatileOK, Fail PROVE VolatileOK'
  BY StopControl DEF Fail, VolatileOK, Operation, Maybe

LEMMA SucceedControl == ASSUME VolatileOK, Succeed PROVE VolatileOK'
  BY StopControl DEF Succeed, VolatileOK

LEMMA UnchangedControl ==
  ASSUME VolatileOK, UNCHANGED <<op, mem, failing>> PROVE VolatileOK'
  BY DEF VolatileOK, Control

-----------------------------------------------------------------------------
(* The records an operation writes *)

LEMMA IntentType ==
  ASSUME NEW r \in Record, NEW a \in Secrets \union {Session},
         NEW s \in Maybe(Secrets), NEW l \in Labels, NEW n \in Nat,
         NEW e \in Maybe([user: Users, pin: Pins])
  PROVE  LET i == [r EXCEPT !.automatic = TRUE,
                            !.transition = [auth |-> a, previous |-> s, label |-> l,
                               requested |-> n, candidate |-> None,
                               enrollment |-> e, cancelled |-> FALSE]]
         IN i \in Record /\ Ready("sweep", i)
  <1> DEFINE t == [auth |-> a, previous |-> s, label |-> l, requested |-> n,
                   candidate |-> None, enrollment |-> e, cancelled |-> FALSE]
  <1>1. t \in Transition
    BY DEF Transition, Maybe
  <1>2. t.candidate = None /\ t # None
    BY <1>1, NoneAssumption DEF NoneAssumption
  <1> HIDE DEF t
  <1>3. [r EXCEPT !.automatic = TRUE, !.transition = t] \in Record
    BY <1>1 DEF Record, Maybe
  <1> QED
    BY <1>2, <1>3 DEF Ready, Record, t


LEMMA ReconnectedType ==
  ASSUME TypeInv, mem \in Record, mem.transition # None,
         NEW c \in Maybe(Issuable), NEW p \in Maybe(Secrets)
  PROVE  /\ Reconnected(c, p) \in Record
         /\ Reconnected(c, p).transition # None
         /\ Reconnected(c, p).transition.candidate = c
         /\ ~Reconnected(c, p).transition.cancelled
         /\ Reconnected(c, p).transition.label = mem.transition.label
         /\ Reconnected(c, p).automatic
         /\ Reconnected(c, p).active = mem.active
         /\ Reconnected(c, p).retirements = mem.retirements
  <1> DEFINE t == [mem.transition EXCEPT
                     !.auth = Session, !.requested = op.now + Lifetime,
                     !.cancelled = FALSE, !.candidate = c, !.previous = p]
  <1>1. mem.transition \in Transition
    BY DEF Record, Maybe
  <1>2. op.now + Lifetime \in Nat
    BY TimesAssumption DEF TimesAssumption, TypeInv, VolatileOK, Operation
  <1>3. t \in Transition /\ t.candidate = c /\ ~t.cancelled
        /\ t.label = mem.transition.label
    BY <1>1, <1>2 DEF Transition, Maybe
  <1>4. t # None
    BY <1>3, NoneAssumption DEF NoneAssumption
  <1>5. Reconnected(c, p) = [mem EXCEPT !.automatic = TRUE, !.transition = t]
    BY DEF Reconnected
  <1> HIDE DEF t
  <1>6. [mem EXCEPT !.automatic = TRUE, !.transition = t] \in Record
    BY <1>3 DEF Record, Maybe
  <1> QED
    BY <1>3, <1>4, <1>5, <1>6 DEF Record

LEMMA CandidateType ==
  ASSUME NEW r \in Record, r.transition # None, NEW t \in Issuable
  PROVE  LET i == [r EXCEPT !.transition.candidate = t]
         IN i \in Record /\ Ready("validate", i)
  <1> DEFINE u == [r.transition EXCEPT !.candidate = t]
  <1>1. u \in Transition /\ u.candidate = t
    BY DEF Record, Maybe, Transition
  <1>2. u # None /\ t # None
    BY <1>1, NoneAssumption, ConstantsAssumption
       DEF NoneAssumption, ConstantsAssumption, Secrets
  <1> HIDE DEF u
  <1>3. [r EXCEPT !.transition = u] \in Record
    BY <1>1 DEF Record, Maybe
  <1> QED
    BY <1>1, <1>2, <1>3 DEF Ready, Record, u

LEMMA ClosedType ==
  ASSUME NEW r \in Record
  PROVE  [r EXCEPT !.transition = None] \in Record
  BY DEF Record, Maybe

LEMMA CommittedType ==
  ASSUME TypeInv, mem \in Record, Ready("switch", mem)
  PROVE  Committed \in Record /\ Ready("retire", Committed)
  <1>1. mem.transition \in Transition /\ mem.transition.candidate \in Issuable
    BY DEF Record, Maybe, Ready, Transition
  <1>2. op.now + Grace \in Nat
    BY TimesAssumption DEF TimesAssumption, TypeInv, VolatileOK, Operation
  <1>3. Retiring(mem.transition.candidate) \subseteq Issuable
    BY DEF Retiring, Record, Maybe
  <1>4. {[id |-> t, notBefore |-> op.now + Grace] :
            t \in Retiring(mem.transition.candidate)} \subseteq Retirement
    BY <1>2, <1>3 DEF Retirement
  <1> QED
    BY <1>1, <1>4, ConstantsAssumption
       DEF Committed, Record, Maybe, Ready, ConstantsAssumption, Secrets

LEMMA KeptType ==
  ASSUME NEW r \in Record, NEW x
  PROVE  /\ [r EXCEPT !.retirements = @ \ {x}] \in Record
         /\ [r EXCEPT !.retirements = @ \ {x}].transition = r.transition
         /\ [r EXCEPT !.retirements = @ \ {x}].active = r.active
  BY DEF Record

-----------------------------------------------------------------------------
(* Every step preserves the types. *)

LEMMA EnterRotationType ==
  ASSUME TypeInv, op = Idle, NEW task \in {"rotate", "enroll"}, NEW now \in Nat,
         NEW session \in BOOLEAN, NEW user \in Users, NEW pin \in Maybe(Pins),
         task = "enroll" => pin \in Pins,
         EnterRotation(task, now, session, user, pin)
  PROVE  TypeInv'
  <1> DEFINE r == IF record = None THEN FreshRecord(user) ELSE record
  <1>1. r \in Record
    BY FreshRecordType DEF TypeInv, DurableOK, Maybe
  <1>2. PICK pc, next :
          /\ mem' = r
          /\ op' = [task |-> task, pc |-> pc, next |-> next, now |-> now,
                    session |-> session, token |-> primary,
                    user |-> user, pin |-> pin, overtaken |-> FALSE]
          /\ failing' = failing
          /\ \/ /\ r.transition # None
                /\ pc = (IF session THEN "reauth" ELSE FinishStep(r)) /\ next = "end"
             \/ pc = "clear" /\ next = "fail"
             \/ r.transition = None /\ pc = "auth" /\ next = "end"
    BY DEF EnterRotation
  <1> HIDE DEF r
  <1>3. /\ pc \in {"reauth", "sweep", "withdraw", "validate", "clear", "auth"}
        /\ next \in {"end", "fail"}
        /\ pc # "clear" => Ready(pc, r)
    BY <1>2, FinishStepReady DEF Ready
  <1>4. op' \in Operation /\ op'.pc = pc /\ op'.next = next
        /\ op'.task = task /\ op'.pin = pin
    BY <1>2, <1>3 DEF Operation, Tasks, Steps, After, Maybe, TypeInv, DurableOK
  <1>5. VolatileOK'
    BY <1>1, <1>2, <1>3, <1>4 DEF TypeInv, VolatileOK, Control, Managed, Maybe
  <1>6. DurableOK'
    BY DEF EnterRotation, TypeInv, DurableOK, world, server, local
  <1> QED
    BY <1>5, <1>6 DEF TypeInv

LEMMA RotationType == ASSUME TypeInv, Rotation PROVE TypeInv'
  <1> USE DEF TypeInv
  <1>1. ASSUME NEW session \in BOOLEAN, StartRotate(session) PROVE TypeInv'
    <2>1. profile \in Users /\ clock \in Nat /\ None \in Maybe(Pins)
      BY <1>1 DEF StartRotate, DurableOK, Maybe
    <2> QED
      BY <1>1, <2>1, EnterRotationType DEF StartRotate
  <1>2. ASSUME NEW user \in Users, NEW pin \in Pins, StartEnroll(user, pin)
        PROVE  TypeInv'
    BY <1>2, EnterRotationType DEF StartEnroll, DurableOK, Maybe
  <1>3. CASE Authenticate
    <2>1. mem \in Record /\ op.token \in Maybe(Secrets) /\ op.now \in Nat
          /\ op.user \in Users
      BY <1>3 DEF Authenticate, At, VolatileOK, Control, Managed, Operation, DurableOK
    <2>2. op.task = "enroll" =>
            [user |-> op.user, pin |-> op.pin] \in [user: Users, pin: Pins]
      BY <1>3, <2>1 DEF Authenticate, At, VolatileOK, Control
    <2>3. PICK l \in Labels, a \in Secrets \union {Session},
               e \in Maybe([user: Users, pin: Pins]) :
            Journal([mem EXCEPT !.automatic = TRUE,
                       !.transition = [auth |-> a, previous |-> op.token,
                          label |-> l, requested |-> op.now + Lifetime,
                          candidate |-> None, enrollment |-> e,
                          cancelled |-> FALSE]], "sweep")
      BY <1>3, <2>2 DEF Authenticate, Authorized, Maybe
    <2>4. op.now + Lifetime \in Nat
      BY <2>1, TimesAssumption DEF TimesAssumption
    <2>5. VolatileOK'
      BY <2>1, <2>3, <2>4, IntentType, JournalControl DEF Continuations
    <2> QED
      BY <1>3, <2>5 DEF Authenticate, DurableOK, world, server, local
  <1>4. CASE Reauthenticate
    <2>1. mem \in Record /\ mem.transition # None
      BY <1>4 DEF Reauthenticate, At, VolatileOK, Control, Managed, Ready
    <2>2. CASE mem.transition.candidate # None /\ Goto("drop")
      <3>1. Ready("drop", mem) /\ "drop" \in Managed \ {"auth", "retire"}
        BY <2>1, <2>2 DEF Ready, Managed
      <3> QED
        BY <1>4, <2>1, <2>2, <3>1, GotoControl
           DEF Reauthenticate, DurableOK, world, server, local
    <2> DEFINE kept == Reconnected(mem.transition.candidate, mem.transition.previous)
    <2>3. CASE Journal(kept, FinishStep(kept))
      <3>1. mem.transition.candidate \in Maybe(Issuable)
            /\ mem.transition.previous \in Maybe(Secrets)
        BY <2>1 DEF Record, Transition, Maybe
      <3>2. kept \in Record /\ kept.transition # None /\ ~kept.transition.cancelled
        BY <2>1, <3>1, ReconnectedType
      <3> HIDE DEF kept
      <3>3. FinishStep(kept) \in Continuations \ {"due"}
            /\ Ready(FinishStep(kept), kept)
        BY <3>2, FinishStepReady DEF FinishStep, Continuations
      <3>4. VolatileOK'
        BY <2>3, <3>2, <3>3, JournalControl
      <3> QED
        BY <1>4, <3>4 DEF Reauthenticate, DurableOK, world, server, local
    <2> QED
      BY <1>4, <2>2, <2>3 DEF Reauthenticate
  <1>5. CASE DropCandidate
    <2>1. mem \in Record /\ Ready("drop", mem)
      BY <1>5 DEF DropCandidate, At, VolatileOK, Control, Managed
    <2>2. mem.transition.candidate \in Secrets
      BY <2>1 DEF Ready, Record, Transition, Maybe, Secrets
    <2>3. DurableOK'
      BY <1>5, <2>2, RevokeType DEF DropCandidate, Lost, Answered, Disrupt, DurableOK,
         world
    <2>4. Ready("sweep", Reconnected(None, op.token))
          /\ Reconnected(None, op.token) \in Record
      BY <2>1, ReconnectedType DEF Ready, VolatileOK, Operation, Maybe
    <2> QED
      BY <1>5, <2>3, <2>4, FailControl, JournalControl
         DEF DropCandidate, Lost, Answered, Continuations
  <1>6. CASE Sweep
    <2>1. DurableOK'
      BY <1>6 DEF Sweep, Orphans, Revoke, Lost, Answered, Disrupt, DurableOK,
         world, local, Secrets
    <2> QED
      BY <1>6, <2>1, FailControl, UnchangedControl DEF Sweep, Lost, Answered
  <1>7. CASE Swept
    <2>1. mem \in Record /\ Ready("sweep", mem)
      BY <1>7 DEF Swept, At, VolatileOK, Control, Managed
    <2>2. Ready("end", [mem EXCEPT !.transition = None]) /\ Ready("issue", mem)
      BY <2>1 DEF Ready
    <2>3. VolatileOK'
      BY <1>7, <2>1, <2>2, ClosedType, JournalControl, GotoControl
         DEF Swept, Continuations, Managed
    <2> QED
      BY <1>7, <2>3 DEF Swept, DurableOK, world, server, local
  <1>8. CASE Withdraw
    <2>1. mem \in Record /\ Ready("withdraw", mem)
      BY <1>8 DEF Withdraw, At, VolatileOK, Control, Managed
    <2>2. mem.transition.candidate \in Secrets
      BY <2>1 DEF Ready, Record, Transition, Maybe, Secrets
    <2>3. DurableOK'
      BY <1>8, <2>2, RevokeType DEF Withdraw, Lost, Answered, Disrupt, DurableOK,
         world
    <2>4. Ready("end", [mem EXCEPT !.transition = None])
      BY DEF Ready
    <2> QED
      BY <1>8, <2>1, <2>3, <2>4, FailControl, JournalControl, ClosedType
         DEF Withdraw, Lost, Answered, Continuations
  <1>9. CASE Issue
    <2>1. mem \in Record /\ mem.transition # None /\ mem.transition \in Transition
      BY <1>9 DEF Issue, At, VolatileOK, Control, Managed, Ready, Record, Maybe
    <2>2. mem.transition.requested \in Nat /\ mem.transition.label \in Labels
      BY <2>1 DEF Transition
    <2>3. DurableOK'
      BY <1>9, <2>2 DEF Issue, Lost, Answered, Disrupt, DurableOK, world, local, Maybe
    <2>4. VolatileOK'
      BY <1>9, <2>1, CandidateType, JournalControl, FailControl
         DEF Issue, Lost, Answered, Continuations
    <2> QED
      BY <2>3, <2>4
  <1>10. CASE Validate
    <2>1. mem \in Record /\ Ready("compare", mem) /\ Ready("discard", mem)
      BY <1>10 DEF Validate, At, VolatileOK, Control, Managed, Ready
    <2>2. VolatileOK'
      BY <1>10, <2>1, GotoControl DEF Validate, Managed
    <2> QED
      BY <1>10, <2>2 DEF Validate, DurableOK, world, server, local
  <1>11. CASE Discard
    <2>1. mem \in Record /\ Ready("discard", mem)
      BY <1>11 DEF Discard, At, VolatileOK, Control, Managed
    <2>2. mem.transition.candidate \in Secrets
      BY <2>1 DEF Ready, Record, Transition, Maybe, Secrets
    <2>3. DurableOK'
      BY <1>11, <2>2, RevokeType DEF Discard, Lost, Answered, Disrupt, DurableOK,
         world
    <2>4. Ready("fail", [mem EXCEPT !.transition = None])
      BY DEF Ready
    <2> QED
      BY <1>11, <2>1, <2>3, <2>4, FailControl, JournalControl, ClosedType
         DEF Discard, Lost, Answered, Continuations
  <1>12. CASE Compare
    <2>1. mem \in Record /\ Ready("switch", mem)
      BY <1>12 DEF Compare, At, VolatileOK, Control, Managed, Ready
    <2>2. DurableOK'
      BY <1>12 DEF Compare, DurableOK, world, server, local
    <2>3. CASE Journal(Committed, "retire")
      BY <2>1, <2>2, <2>3, CommittedType, JournalControl DEF Continuations
    <2>4. CASE Fail
      BY <2>2, <2>4, FailControl
    <2>5. CASE Goto("switch")
      <3>1. VolatileOK'
        BY <2>1, <2>5, GotoControl DEF Managed
      <3> QED
        BY <2>2, <3>1
    <2> QED
      BY <1>12, <2>3, <2>4, <2>5 DEF Compare
  <1>13. CASE Switch
    <2>1. mem \in Record /\ Ready("switch", mem) /\ op \in Operation
      BY <1>13 DEF Switch, At, VolatileOK, Control, Managed
    <2>2. mem.transition \in Transition /\ mem.transition.candidate \in Secrets
      BY <2>1 DEF Ready, Record, Transition, Maybe, Secrets
    <2>3. DurableOK'
      BY <1>13, <2>2 DEF Switch, DurableOK, world, server, Maybe
    <2>4. CASE Journal(Committed, "retire")
      BY <2>1, <2>3, <2>4, CommittedType, JournalControl DEF Continuations
    <2>5. CASE /\ mem.transition.enrollment # None
               /\ op' = [op EXCEPT !.pc = "hostKeys", !.overtaken = FALSE,
                                   !.user = mem.transition.enrollment.user,
                                   !.pin = mem.transition.enrollment.pin]
               /\ UNCHANGED <<mem, failing>>
      <3>1. mem.transition.enrollment \in [user: Users, pin: Pins]
        BY <2>2, <2>5 DEF Transition, Maybe
      <3>2. op' \in Operation /\ op'.pc = "hostKeys"
        BY <2>1, <2>5, <3>1 DEF Operation, Steps, Maybe
      <3>3. VolatileOK'
        BY <2>1, <2>5, <3>2 DEF VolatileOK, Control, Managed
      <3> QED
        BY <2>3, <3>3
    <2> QED
      BY <1>13, <2>4, <2>5 DEF Switch
  <1>14. CASE Retire
    <2>1. mem \in Record /\ Ready("retire", mem) /\ op.next \in {"end", "due"}
      BY <1>14 DEF Retire, At, VolatileOK, Control, Managed
    <2>2. Ready(op.next, mem) /\ op.next \in Continuations
      BY <2>1 DEF Ready, Continuations
    <2>3. CASE Journal(mem, op.next) /\ DurableOK'
      BY <2>1, <2>2, <2>3, JournalControl
    <2>4. ASSUME NEW r \in mem.retirements, DurableOK',
                 Journal([mem EXCEPT !.retirements = @ \ {r}], op.next)
          PROVE  TypeInv'
      <3>1. Ready(op.next, [mem EXCEPT !.retirements = @ \ {r}])
        BY <2>1, <2>2, KeptType DEF Ready
      <3> QED
        BY <2>1, <2>2, <2>4, <3>1, KeptType, JournalControl
    <2>5. mem.retirements \subseteq Retirement
      BY <2>1 DEF Record
    <2>6. DurableOK'
      <3>1. CASE UNCHANGED <<world, server, local>>
        BY <3>1 DEF DurableOK, world, server, local
      <3>2. ASSUME NEW r \in mem.retirements, Revoke(mem.active, r.id),
                   UNCHANGED world \/ Disrupt
            PROVE  DurableOK'
        <4>1. r.id \in Secrets /\ clock' \in Nat /\ disruptions' \in Nat
          BY <2>5, <3>2 DEF Retirement, Secrets, Disrupt, world, DurableOK
        <4> QED
          BY <3>2, <4>1, RevokeType
      <3> QED
        BY <1>14, <3>1, <3>2 DEF Retire, Answered
    <2> QED
      BY <1>14, <2>3, <2>4, <2>6 DEF Retire, Answered
  <1>15. CASE WriteRecord
    <2>1. mem \in Record /\ Ready(op.next, mem) /\ op.next \in Continuations
          /\ op \in Operation
      BY <1>15 DEF WriteRecord, At, VolatileOK, Control
    <2>2. op' \in Operation /\ op'.pc = "cache" /\ op'.next = op.next
          /\ op'.task = op.task /\ mem' = mem /\ failing' = failing
      BY <1>15, <2>1 DEF WriteRecord, Goto, Operation, Steps
    <2>3. VolatileOK'
      BY <2>1, <2>2 DEF VolatileOK, Control, Managed
    <2> QED
      BY <1>15, <2>1, <2>3 DEF WriteRecord, DurableOK, world, server, Maybe
  <1>16. CASE WriteCache
    <2>1. mem \in Record /\ Ready(op.next, mem) /\ op.next \in Continuations
          /\ op \in Operation
      BY <1>16 DEF WriteCache, At, VolatileOK, Control
    <2>2. StatusOf(mem) \in Status
      BY <2>1 DEF StatusOf, Status, Record, DurableOK, Maybe
    <2>3. DurableOK'
      BY <1>16, <2>2 DEF WriteCache, DurableOK, world, server, Maybe
    <2>4. CASE Succeed \/ Fail
      BY <2>3, <2>4, SucceedControl, FailControl
    <2>5. CASE /\ op.next = "due"
               /\ op' = [op EXCEPT
                    !.pc = IF mem.active = primary THEN "auth" ELSE "clear",
                    !.next = IF mem.active = primary THEN "end" ELSE "fail",
                    !.token = primary, !.user = profile]
               /\ UNCHANGED <<mem, failing>>
      <3>1. op' \in Operation /\ op'.pc \in {"auth", "clear"}
        BY <2>1, <2>5 DEF Operation, Steps, After, DurableOK
      <3>2. VolatileOK'
        BY <2>1, <2>5, <3>1 DEF VolatileOK, Control, Managed, Ready
      <3> QED
        BY <2>3, <3>2
    <2>6. CASE /\ op.next \notin {"end", "fail", "due"}
               /\ op' = [op EXCEPT !.pc = op.next, !.next = "end"]
               /\ UNCHANGED <<mem, failing>>
      <3>1. op.next \in {"sweep", "validate", "retire"}
        BY <2>1, <2>6 DEF Continuations
      <3>2. op' \in Operation /\ op'.pc = op.next /\ op'.next = "end"
        BY <2>1, <2>6, <3>1 DEF Operation, Steps, After
      <3>3. VolatileOK'
        BY <2>1, <2>6, <3>1, <3>2 DEF VolatileOK, Control, Managed
      <3> QED
        BY <2>3, <3>3
    <2> QED
      BY <1>16, <2>4, <2>5, <2>6 DEF WriteCache
  <1> QED
    BY <1>1, <1>2, <1>3, <1>4, <1>5, <1>6, <1>7, <1>8, <1>9, <1>10, <1>11,
       <1>12, <1>13, <1>14, <1>15, <1>16 DEF Rotation


LEMMA RenewalType == ASSUME TypeInv, Renewal PROVE TypeInv'
  <1> USE DEF TypeInv
  <1>1. CASE StartRenew
    <2>1. record \in Record
      BY <1>1 DEF StartRenew, DurableOK, Maybe
    <2>2. PICK task \in {"cancel", "renew"},
               pc \in {FinishStep(record), "clear", "retire"}, next \in {"end", "due"} :
            /\ mem' = record
            /\ op' = [Idle EXCEPT !.task = task, !.pc = pc, !.next = next,
                                  !.now = clock, !.token = primary,
                                  !.user = profile]
            /\ failing' = failing
            /\ \/ /\ record.transition # None
                  /\ pc = FinishStep(record) /\ next = "end"
               \/ pc = "clear" /\ next = "end"
               \/ /\ record.transition = None /\ record.active # None
                  /\ pc = "retire" /\ next = "due"
      BY <1>1 DEF StartRenew
    <2>3. /\ pc \in {"sweep", "withdraw", "validate", "clear", "retire"}
          /\ next \in {"end", "due"} /\ (pc = "retire" => next \in {"end", "due"})
          /\ pc # "clear" => Ready(pc, record)
      BY <2>2, FinishStepReady DEF Ready
    <2>4. op' \in Operation /\ op'.pc = pc /\ op'.next = next /\ op'.task = task
      BY <2>2, <2>3, IdleType DEF Operation, Tasks, Steps, After, DurableOK, Maybe
    <2>5. VolatileOK'
      BY <2>1, <2>2, <2>3, <2>4 DEF VolatileOK, Control, Managed, Maybe
    <2> QED
      BY <1>1, <2>5 DEF StartRenew, DurableOK, world, server, local
  <1>2. CASE RenewCannotStart
    <2>1. VolatileOK'
      BY <1>2 DEF RenewCannotStart, VolatileOK, Control, DurableOK, Maybe
    <2> QED
      BY <1>2, <2>1 DEF RenewCannotStart, Disrupt, DurableOK, server, local
  <1>3. CASE RecordFailure
    <2>1. VolatileOK'
      BY <1>3 DEF RecordFailure, VolatileOK, Control, Maybe
    <2>2. cache' \in Maybe(Status)
      <3>1. CASE cache' = cache
        BY <3>1 DEF DurableOK
      <3>2. CASE /\ cache # None
                 /\ cache' = [cache EXCEPT
                      !.failures = Smaller(cache.failures + 1, MaxFailures),
                      !.nextAttempt = failing + Backoff(cache.failures + 1)]
        <4>1. cache \in Status /\ failing \in Nat
          BY <1>3, <3>2 DEF RecordFailure, DurableOK, VolatileOK, Maybe
        <4>2. cache.failures \in Nat
          BY <4>1 DEF Status
        <4>3. Smaller(cache.failures + 1, MaxFailures) \in Nat
          BY <4>2, TimesAssumption DEF TimesAssumption, Smaller
        <4>4. Backoff(cache.failures + 1) \in Nat
          BY <4>2, BackoffType
        <4>5. failing + Backoff(cache.failures + 1) \in Nat
          BY <4>1, <4>4
        <4> QED
          BY <3>2, <4>1, <4>3, <4>5 DEF Status, Maybe
      <3> QED
        BY <1>3, <3>1, <3>2 DEF RecordFailure
    <2> QED
      BY <1>3, <2>1, <2>2 DEF RecordFailure, DurableOK, world, server
  <1>4. ASSUME NEW enabled \in BOOLEAN, SetAutomatic(enabled) PROVE TypeInv'
    <2>1. record \in Record
      BY <1>4 DEF SetAutomatic, DurableOK, Maybe
    <2>2. mem' \in Record
      <3>1. ASSUME record.transition # None
            PROVE  [record.transition EXCEPT !.cancelled = TRUE] \in Transition
        BY <2>1, <3>1 DEF Record, Maybe, Transition
      <3> QED
        BY <1>4, <2>1, <3>1 DEF SetAutomatic, Record, Maybe
    <2>3. op' \in Operation /\ op'.pc = "record" /\ op'.next = "end"
      BY <1>4, IdleType DEF SetAutomatic, Operation, Tasks, Steps, Idle
    <2>4. VolatileOK'
      BY <1>4, <2>2, <2>3
         DEF SetAutomatic, VolatileOK, Control, Managed, Ready, Continuations, Maybe
    <2> QED
      BY <1>4, <2>4 DEF SetAutomatic, DurableOK, world, server, local
  <1> QED
    BY <1>1, <1>2, <1>3, <1>4 DEF Renewal

LEMMA StartManualType ==
  ASSUME TypeInv, NEW task \in {"save", "paste", "remove"},
         NEW token \in Maybe(Secrets), NEW user \in Maybe(Users),
         NEW pin \in Maybe(Pins), StartManual(task, token, user, pin)
  PROVE  TypeInv'
  <1>1. op' \in Operation /\ op'.pc = "store" /\ op'.next = "end"
    BY IdleType DEF StartManual, Operation, Tasks, Steps, Idle
  <1>2. mem' = None
    BY DEF StartManual, TypeInv, VolatileOK, Control, Idle
  <1> QED
    BY <1>1, <1>2 DEF StartManual, TypeInv, DurableOK, VolatileOK, Control, Managed,
       Disrupt, server, local, Maybe

LEMMA ManualType == ASSUME TypeInv, Manual PROVE TypeInv'
  <1> USE DEF TypeInv
  <1>1. ASSUME NEW t \in Imported, NEW user \in Users, RenewToken(t, user)
        PROVE  TypeInv'
    BY <1>1, StartManualType DEF RenewToken, Secrets, Maybe
  <1>2. ASSUME NEW t \in Imported, NEW user \in Users, NEW pin \in Pins,
               SaveProfile(t, user, pin)
        PROVE  TypeInv'
    BY <1>2, StartManualType DEF SaveProfile, Secrets, Maybe
  <1>3. CASE RemoveProfile
    BY <1>3, StartManualType DEF RemoveProfile, Maybe
  <1>4. CASE Store
    <2>1. op' \in Operation /\ op'.pc \in {"catalog", "hostKeys"} /\ mem' = None
          /\ op'.next = op.next /\ op'.task = op.task
      BY <1>4 DEF Store, At, Goto, VolatileOK, Control, Operation, Steps
    <2>2. VolatileOK'
      BY <1>4, <2>1 DEF Store, Goto, VolatileOK, Control, Managed, Maybe
    <2> QED
      BY <1>4, <2>2 DEF Store, VolatileOK, Operation, DurableOK, world, server
  <1>5. CASE WriteHostKeys
    <2>1. op' \in Operation /\ op'.pc = "catalog" /\ op'.next = op.next
          /\ op'.task = op.task
      BY <1>5 DEF WriteHostKeys, At, Goto, VolatileOK, Operation, Steps
    <2>2. VolatileOK'
      BY <1>5, <2>1 DEF WriteHostKeys, At, Goto, VolatileOK, Control, Managed
    <2> QED
      BY <1>5, <2>2 DEF WriteHostKeys, VolatileOK, Operation, DurableOK, world, server
  <1>6. CASE WriteCatalog
    <2>1. DurableOK'
      BY <1>6 DEF WriteCatalog, VolatileOK, Operation, DurableOK, world, server
    <2>2. CASE /\ mem = None
               /\ op' = [op EXCEPT !.pc = "clear", !.next = "end"]
               /\ UNCHANGED <<mem, failing>>
      <3>1. op' \in Operation /\ op'.pc = "clear" /\ op'.next = "end"
        BY <2>2 DEF VolatileOK, Operation, Steps, After
      <3> QED
        BY <2>1, <2>2, <3>1 DEF VolatileOK, Control, Managed, Maybe
    <2>3. CASE mem # None /\ Journal(Committed, "retire")
      <3>1. mem \in Record /\ Ready("switch", mem)
        BY <1>6, <2>3 DEF WriteCatalog, At, VolatileOK, Control
      <3> QED
        BY <2>1, <2>3, <3>1, CommittedType, JournalControl DEF Continuations
    <2> QED
      BY <1>6, <2>2, <2>3 DEF WriteCatalog
  <1>7. CASE Clear
    <2>1. op' \in Operation /\ op'.pc = "clearCache" /\ op'.next = op.next
          /\ op'.task = op.task
      BY <1>7 DEF Clear, At, Goto, VolatileOK, Operation, Steps
    <2>2. VolatileOK'
      BY <1>7, <2>1 DEF Clear, Goto, VolatileOK, Control, Managed
    <2> QED
      BY <1>7, <2>2 DEF Clear, DurableOK, world, server, Maybe
  <1>8. CASE ClearCache
    <2>1. VolatileOK'
      BY <1>8, FailControl, SucceedControl DEF ClearCache
    <2> QED
      BY <1>8, <2>1 DEF ClearCache, DurableOK, world, server, Maybe
  <1> QED
    BY <1>1, <1>2, <1>3, <1>4, <1>5, <1>6, <1>7, <1>8 DEF Manual

LEMMA WorldType == ASSUME TypeInv, World PROVE TypeInv'
  <1> USE DEF TypeInv
  <1>1. CASE CallFails
    BY <1>1, FailControl DEF CallFails, Disrupt, DurableOK, server, local
  <1>2. CASE Crash
    BY <1>2, StopControl DEF Crash, Disrupt, DurableOK, server, local, Maybe
  <1>3. CASE Tick
    BY <1>3, UnchangedControl DEF Tick, DurableOK, server, local
  <1>4. CASE SynchronizeProfile
    BY <1>4, UnchangedControl DEF SynchronizeProfile, DurableOK, world, server, Maybe
  <1>5. ASSUME NEW t \in Secrets, Lapse(t) PROVE TypeInv'
    BY <1>5, UnchangedControl DEF Lapse, Disrupt, DurableOK, local
  <1>6. ASSUME NEW t \in Imported, ReplaceOutside(t) PROVE TypeInv'
    <2>1. DurableOK'
      BY <1>6 DEF ReplaceOutside, Disrupt, DurableOK, server, Maybe, Secrets
    <2>2. CASE op' = op
      BY <1>6, <2>1, <2>2, UnchangedControl DEF ReplaceOutside
    <2>3. CASE op.pc = "switch" /\ op' = [op EXCEPT !.overtaken = TRUE]
      <3>1. op' \in Operation /\ op'.pc = "switch"
        BY <2>3 DEF VolatileOK, Operation
      <3>2. UNCHANGED <<mem, failing>> /\ op'.next = op.next /\ op'.task = op.task
        BY <1>6, <2>3 DEF ReplaceOutside, VolatileOK, Operation
      <3> QED
        BY <2>1, <2>3, <3>1, <3>2 DEF VolatileOK, Control, Managed
    <2> QED
      BY <1>6, <2>2, <2>3 DEF ReplaceOutside, At
  <1>7. ASSUME NEW user \in Users, Rename(user) PROVE TypeInv'
    BY <1>7, UnchangedControl DEF Rename, DurableOK, world, local
  <1> QED
    BY <1>1, <1>2, <1>3, <1>4, <1>5, <1>6, <1>7 DEF World

LEMMA InitType == Init => TypeInv
  BY IdleType, TimesAssumption, ConstantsAssumption
     DEF Init, TypeInv, DurableOK, VolatileOK, Control, Managed, Maybe, Idle

LEMMA StepType == ASSUME TypeInv, [Next]_vars PROVE TypeInv'
  <1>1. CASE UNCHANGED vars
    BY <1>1, UnchangedControl DEF vars, world, server, local, TypeInv, DurableOK
  <1> QED
    BY <1>1, RotationType, RenewalType, ManualType, WorldType DEF Next

(* Every variable keeps its type, and every step of an operation finds in  *)
(* its copy of the record what it reads: a finish never runs without a     *)
(* transition, a validation never without a candidate. *)
THEOREM TypeInvariant == Spec => []TypeInv
  <1>1. TypeInv /\ [Next]_vars => TypeInv'
    BY StepType
  <1> QED
    BY <1>1, InitType, PTL DEF Spec

(* TypeOK, the part of it that the model-checking runs check. *)
THEOREM TypeCorrect == Spec => []TypeOK
  <1>1. TypeInv => TypeOK
    BY DEF TypeInv, DurableOK, VolatileOK, TypeOK
  <1> QED
    BY <1>1, TypeInvariant, PTL

=============================================================================
