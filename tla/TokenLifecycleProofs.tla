------------------------ MODULE TokenLifecycleProofs ------------------------
(***************************************************************************)
(* The safety of TokenLifecycle, proved for every value of its constants.  *)
(***************************************************************************)
EXTENDS TokenLifecycleTypes

-----------------------------------------------------------------------------
(* Steps that write no record: tokens may only die, and the primary may    *)
(* only become a credential of the user. *)

Quiet ==
  /\ issued' = issued /\ revoked \subseteq revoked' /\ lapsed \subseteq lapsed'
  /\ primary' = primary \/ primary' \notin Issuable

LEMMA StaysDead ==
  ASSUME TypeInv, Quiet, NEW t \in Secrets, ~Live(t) PROVE ~Live(t)'
  BY DEF Quiet, Live

LEMMA SoundStable ==
  ASSUME TypeInv, Quiet, NEW r, Sound(r), r = None \/ r \in Record
  PROVE  Sound(r)'
  <1>1. Active(r) \subseteq Issuable /\ Candidates(r) \subseteq Issuable
        /\ Retired(r) \subseteq Issuable
    BY DEF Active, Candidates, Retired, Record, Maybe, Transition, Retirement
  <1>2. NamesIssued(r)'
    BY DEF Sound, NamesIssued, Issued, Quiet, Active, Candidates, Retired
  <1>3. RetiredApart(r)'
    BY <1>1 DEF Sound, RetiredApart, Quiet, Active, Candidates, Retired
  <1>4. PrimaryNamed(r)'
    BY StaysDead DEF Sound, PrimaryNamed, Quiet, Active, Candidates, Secrets
  <1>5. LabelOwned(r)'
    BY StaysDead DEF Sound, LabelOwned, Quiet, Secrets
  <1> QED
    BY <1>2, <1>3, <1>4, <1>5 DEF Sound, OffCancels

(* A record that drops from another only dead tokens is as sound, and      *)
(* loses none. *)
LEMMA LessSound ==
  ASSUME TypeInv, Quiet, NEW r \in Record, NEW m \in Record, Sound(r),
         m.active = r.active, m.retirements \subseteq r.retirements,
         \A x \in r.retirements \ m.retirements : ~Live(x.id)',
         \A t \in Candidates(r) \ Candidates(m) : ~Live(t)',
         \/ m.transition = None /\ \A t \in Pending(r) : ~Live(t)'
         \/ /\ m.transition # None /\ r.transition # None
            /\ m.transition.label = r.transition.label
            /\ m.transition.candidate \in {None, r.transition.candidate}
            /\ m.automatic \/ m.transition.cancelled
  PROVE  Sound(m)' /\ (record' = r => KeepsTokens(m)')
  <1>1. Sound(r)'
    BY SoundStable
  <1>2. Active(m) = Active(r) /\ Retired(m) \subseteq Retired(r)
        /\ Candidates(m) \subseteq Candidates(r)
    <2>1. r # None /\ m # None
      BY NoneAssumption DEF NoneAssumption
    <2> QED
      BY <2>1 DEF Active, Retired, Candidates
  <1>3. NamesIssued(m)' /\ RetiredApart(m)'
    <2>1. NamesIssued(r)' /\ RetiredApart(r)'
      BY <1>1 DEF Sound
    <2> QED
      BY <1>2, <2>1 DEF NamesIssued, RetiredApart, Active, Retired, Candidates
  <1>4. PrimaryNamed(m)'
    <2>1. PrimaryNamed(r)'
      BY <1>1 DEF Sound
    <2> QED
      BY <1>2, <2>1 DEF PrimaryNamed, Active, Candidates
  <1>5. LabelOwned(m)'
    <2>1. LabelOwned(r)' /\ r # None
      BY <1>1, NoneAssumption DEF Sound, NoneAssumption
    <2> QED
      BY <2>1 DEF LabelOwned
  <1>6. OffCancels(m)'
    BY DEF OffCancels
  <1>7. ASSUME record' = r PROVE KeepsTokens(m)'
    <2>1. ASSUME NEW t \in Accounted(r)', Live(t)' PROVE t \in Accounted(m)'
      <3>1. CASE t \in Active(r) \union Candidates(r)
        BY <1>2, <2>1, <3>1 DEF Accounted, Active, Candidates
      <3>2. CASE t \in Retired(r)
        <4>1. PICK x \in r.retirements : t = x.id
          BY <3>2, NoneAssumption DEF Retired, NoneAssumption
        <4>2. x \in m.retirements
          BY <2>1, <4>1 DEF Live
        <4> QED
          BY <4>1, <4>2, NoneAssumption DEF Accounted, Retired, NoneAssumption
      <3>3. CASE t \in Pending(r)'
        <4>1. t \in Pending(r)
          BY <3>3 DEF Pending, Quiet
        <4>2. m.transition # None /\ m.transition.label = r.transition.label
          BY <2>1, <4>1
        <4>3. t \in Pending(m)'
          BY <3>3, <4>2, NoneAssumption DEF Pending, NoneAssumption
        <4> QED
          BY <4>3 DEF Accounted
      <3> QED
        BY <2>1, <3>1, <3>2, <3>3 DEF Accounted, Active, Candidates, Retired
    <2> QED
      BY <1>7, <2>1 DEF KeepsTokens
  <1> QED
    BY <1>3, <1>4, <1>5, <1>6, <1>7 DEF Sound


-----------------------------------------------------------------------------
(* The ways an operation goes on *)

LEMMA QuietDurable ==
  ASSUME TypeInv, DurableInv, Quiet, record' = record PROVE DurableInv'
  <1>1. record = None \/ record \in Record
    BY DEF TypeInv, DurableOK, Maybe
  <1>2. Sound(record)'
    BY <1>1, SoundStable DEF DurableInv
  <1> QED
    BY <1>2 DEF DurableInv, Quiet, Issued

LEMMA IdleInv ==
  ASSUME op'.pc \in {"idle", "clearCache"} PROVE CopyInv' /\ StepInv'
  BY DEF CopyInv, StepInv

LEMMA StopInv == ASSUME Stop PROVE CopyInv' /\ StepInv'
  BY IdleInv, IdleType DEF Stop

LEMMA FailInv == ASSUME Fail PROVE CopyInv' /\ StepInv'
  BY StopInv DEF Fail

LEMMA JournalInv ==
  ASSUME NEW r, NEW next, Journal(r, next), record' = record, Sound(r)',
         KeepsTokens(r)',
         next \in {"sweep", "validate"} => ~r.transition.cancelled
  PROVE  CopyInv' /\ StepInv'
  <1>1. op'.pc = "record" /\ op'.next = next /\ mem' = r
    BY DEF Journal, Idle
  <1>2. Sound(mem)' /\ KeepsTokens(mem)'
    BY <1>1
  <1> QED
    BY <1>1, <1>2 DEF CopyInv, StepInv

(* Steps of the world, and the sweep: the operation stays where it is. *)
LEMMA QuietInv ==
  ASSUME TypeInv, SafetyInv, Quiet, record' = record, mem' = mem,
         op'.pc = op.pc, op'.next = op.next, op'.token = op.token,
         op.pc = "switch" /\ ~op'.overtaken => primary' = mem.transition.previous,
         revoked' = revoked \/ op.pc = "sweep"
  PROVE  SafetyInv'
  <1>1. DurableInv'
    BY QuietDurable DEF SafetyInv
  <1>2. CopyInv'
    <2>1. ASSUME op.pc = "record" PROVE Sound(mem)' /\ KeepsTokens(mem)'
      <3>1. mem \in Record /\ Sound(mem) /\ KeepsTokens(mem)
        BY <2>1 DEF TypeInv, VolatileOK, Control, SafetyInv, CopyInv
      <3>2. Sound(mem)'
        BY <3>1, SoundStable
      <3>3. Accounted(record)' = Accounted(record) /\ Accounted(mem)' = Accounted(mem)
        BY DEF Quiet, Accounted, Pending, Active, Retired, Candidates
      <3>4. Accounted(record) \subseteq Secrets
        BY DEF Accounted, Pending, Active, Retired, Candidates, TypeInv, DurableOK,
           Maybe, Record, Transition, Retirement, Secrets
      <3>5. KeepsTokens(mem)'
        BY <3>1, <3>3, <3>4, StaysDead DEF KeepsTokens
      <3> QED
        BY <3>2, <3>5
    <2> QED
      BY <2>1 DEF SafetyInv, CopyInv
  <1>3. StepInv'
    <2> USE DEF SafetyInv, StepInv
    <2>1. op.pc = "clear" => ~(primary \in Issuable /\ Live(primary))'
      BY StaysDead DEF Quiet, Secrets
    <2>2. op.pc \in {"drop", "discard"} => mem.transition.candidate \in Secrets
      BY DEF TypeInv, VolatileOK, Control, Managed, Ready, Record, Transition, Maybe,
         Secrets
    <2>3. op.pc = "drop" => ~Live(mem.transition.candidate)'
      BY <2>2, StaysDead
    <2>4. op.pc = "discard" /\ (\A u, v \in Users : u = v)
          => ~Live(mem.transition.candidate)'
      BY <2>2, StaysDead
    <2>5. op.pc = "withdraw" => primary' # mem.transition.candidate
      BY DEF Quiet, TypeInv, VolatileOK, Control, Managed, Ready, Record, Transition,
         Maybe
    <2>6. op.pc = "issue" => Orphans' = {}
      <3>1. ASSUME NEW t \in Issuable, Live(t)', op.pc = "issue"
            PROVE  issued[t] # mem.transition.label
        BY <3>1, StaysDead DEF Orphans, Secrets
      <3> QED
        BY <3>1 DEF Orphans, Quiet
    <2>7. op.pc \in {"compare", "switch"} => revoked' = revoked
      OBVIOUS
    <2>8. op.pc \in {"hostKeys", "catalog"} =>
            \/ primary' \notin Issuable
            \/ mem # None /\ primary' = mem.transition.candidate
      BY DEF Quiet
    <2> QED
      BY <2>1, <2>3, <2>4, <2>5, <2>6, <2>7, <2>8
  <1> QED
    BY <1>1, <1>2, <1>3 DEF SafetyInv

LEMMA StillInv ==
  ASSUME TypeInv, SafetyInv, Quiet, UNCHANGED <<record, primary, op, mem>>,
         revoked' = revoked \/ op.pc = "sweep"
  PROVE  SafetyInv'
  <1>1. op.pc = "switch" /\ ~op'.overtaken => primary' = mem.transition.previous
    BY DEF SafetyInv, StepInv
  <1> QED
    BY <1>1, QuietInv

-----------------------------------------------------------------------------
(* The records that add something: an intent, a candidate, a commitment. *)

LEMMA IntentSound ==
  ASSUME TypeInv, Quiet, NEW r \in Record, NEW m \in Record, Sound(r),
         r.transition = None, m.active = r.active, m.retirements = r.retirements,
         m.transition # None, m.transition.candidate = None, m.automatic,
         \A t \in Issuable : issued[t] # m.transition.label
  PROVE  Sound(m)' /\ (record' = r => KeepsTokens(m)')
  <1>1. Sound(r)' /\ r # None /\ m # None
    BY SoundStable, NoneAssumption DEF NoneAssumption
  <1>2. Active(m) = Active(r) /\ Retired(m) = Retired(r)
        /\ Candidates(m) = {} /\ Candidates(r) = {} /\ Pending(r) = {}
    BY <1>1 DEF Active, Retired, Candidates, Pending
  <1>3. NamesIssued(m)' /\ RetiredApart(m)' /\ PrimaryNamed(m)'
    BY <1>1, <1>2 DEF Sound, NamesIssued, RetiredApart, PrimaryNamed, Active,
       Candidates, Retired
  <1>4. LabelOwned(m)'
    BY DEF LabelOwned, Quiet, Record, Maybe
  <1>5. record' = r => KeepsTokens(m)'
    BY <1>1, <1>2 DEF KeepsTokens, Accounted, Active, Retired, Candidates, Pending
  <1> QED
    BY <1>3, <1>4, <1>5 DEF Sound, OffCancels

(* The state after a token was issued for the transition of r *)
LEMMA IssuedSound ==
  ASSUME TypeInv, NEW r \in Record, NEW t \in Issuable, Sound(r),
         primary \in Issuable => primary \in Issued,
         r.transition # None, issued[t] = None,
         issued' = [issued EXCEPT ![t] = r.transition.label],
         r.transition.candidate = None,
         UNCHANGED <<revoked, lapsed, primary>>
  PROVE  Sound(r)'
  <1>1. issued \in [Issuable -> Maybe(Labels)] /\ r.transition.label \in Labels
        /\ r.transition.label # None
    BY ConstantsAssumption
       DEF TypeInv, DurableOK, Record, Maybe, Transition, ConstantsAssumption
  <1>2. Issued' = Issued \union {t} /\ t \notin Issued
    BY <1>1 DEF Issued
  <1>3. \A u \in Issuable \ {t} : Live(u)' = Live(u) /\ issued'[u] = issued[u]
    BY <1>1 DEF Live
  <1>4. Active(r)' = Active(r) /\ Candidates(r)' = {} /\ Retired(r)' = Retired(r)
        /\ Candidates(r) = {}
    BY DEF Active, Candidates, Retired
  <1>5. NamesIssued(r)' /\ RetiredApart(r)'
    BY <1>2, <1>4 DEF Sound, NamesIssued, RetiredApart
  <1>6. PrimaryNamed(r)'
    BY <1>2, <1>3, <1>4 DEF Sound, PrimaryNamed
  <1>7. LabelOwned(r)'
    <2>1. ASSUME r.active # None PROVE issued'[r.active] # r.transition.label
      <3>1. r.active \in Issued
        BY <2>1, NoneAssumption DEF Sound, NamesIssued, Active, NoneAssumption
      <3>2. r.active \in Issuable \ {t}
        BY <1>2, <3>1 DEF Issued
      <3> QED
        BY <1>3, <2>1, <3>2, NoneAssumption DEF Sound, LabelOwned, NoneAssumption
    <2> QED
      BY <2>1 DEF LabelOwned
  <1> QED
    BY <1>5, <1>6, <1>7 DEF Sound, OffCancels

LEMMA CandidateSound ==
  ASSUME TypeInv, NEW r \in Record, NEW m \in Record, NEW t \in Issuable,
         Sound(r), primary \in Issuable => primary \in Issued,
         r.transition # None, r.transition.candidate = None,
         issued[t] = None, issued' = [issued EXCEPT ![t] = r.transition.label],
         UNCHANGED <<revoked, lapsed, primary>>,
         \A u \in Issuable : Live(u) => issued[u] # r.transition.label,
         m.active = r.active, m.retirements = r.retirements,
         m.automatic = r.automatic, m.transition # None,
         m.transition.candidate = t,
         m.transition.label = r.transition.label,
         m.transition.cancelled = r.transition.cancelled
  PROVE  Sound(m)' /\ (record' = r => KeepsTokens(m)')
  <1>1. Sound(r)' /\ r # None /\ m # None /\ t # None
    BY IssuedSound, NoneAssumption, ConstantsAssumption
       DEF NoneAssumption, ConstantsAssumption, Secrets
  <1>2. issued \in [Issuable -> Maybe(Labels)] /\ r.transition.label # None
        /\ r.transition.label \in Labels
    BY ConstantsAssumption
       DEF TypeInv, DurableOK, Record, Maybe, Transition, ConstantsAssumption
  <1>3. Active(m) = Active(r) /\ Retired(m) = Retired(r)
        /\ Candidates(m) = {t} /\ Candidates(r) = {}
    BY <1>1 DEF Active, Retired, Candidates
  <1>4. Issued' = Issued \union {t} /\ t \notin Issued
    BY <1>2 DEF Issued
  <1>5. NamesIssued(m)'
    BY <1>1, <1>3, <1>4 DEF Sound, NamesIssued, Active, Retired, Candidates
  <1>6. RetiredApart(m)'
    <2>1. t \notin Retired(r)
      BY <1>4 DEF Sound, NamesIssued
    <2> QED
      BY <1>1, <1>3, <2>1 DEF Sound, RetiredApart, Active, Retired, Candidates
  <1>7. PrimaryNamed(m)'
    BY <1>1, <1>3 DEF Sound, PrimaryNamed, Active, Candidates
  <1>8. LabelOwned(m)'
    <2>1. r.active # None => issued'[r.active] # r.transition.label
      BY <1>1 DEF Sound, LabelOwned
    <2>2. ASSUME NEW u \in Issuable, Live(u)', issued'[u] = r.transition.label
          PROVE  u = t
      BY <1>2, <2>2 DEF Live
    <2> QED
      BY <2>1, <2>2 DEF LabelOwned
  <1>9. OffCancels(m)'
    BY <1>1 DEF Sound, OffCancels
  <1>10. ASSUME record' = r PROVE KeepsTokens(m)'
    <2>1. Pending(m)' = Pending(r)'
      BY <1>1 DEF Pending
    <2> QED
      BY <1>3, <1>10, <2>1 DEF KeepsTokens, Accounted, Active, Retired, Candidates
  <1> QED
    BY <1>5, <1>6, <1>7, <1>8, <1>9, <1>10 DEF Sound

LEMMA CommittedFields ==
  ASSUME TypeInv, mem \in Record, Ready("switch", mem)
  PROVE  /\ Committed \in Record /\ Committed.transition = None
         /\ Committed.active = mem.transition.candidate
         /\ Retired(Committed) =
              Retired(mem) \union (Active(mem) \ {mem.transition.candidate})
  <1> DEFINE c == mem.transition.candidate
             new == {[id |-> t, notBefore |-> op.now + Grace] : t \in Retiring(c)}
  <1>1. Committed \in Record
    BY CommittedType
  <1>2. /\ Committed.active = c /\ Committed.transition = None
        /\ Committed.retirements = mem.retirements \union new
    BY DEF Committed, Record
  <1>3. \A x \in new : x.id \in Retiring(c)
    OBVIOUS
  <1>4. ASSUME NEW t \in Retiring(c) PROVE \E x \in new : x.id = t
    <2>1. [id |-> t, notBefore |-> op.now + Grace] \in new
      OBVIOUS
    <2> HIDE DEF new
    <2> QED
      BY <2>1
  <1> HIDE DEF new
  <1>5. mem # None /\ Committed # None
    BY <1>1, NoneAssumption DEF NoneAssumption
  <1>6. Retiring(c) = Active(mem) \ {c}
    BY <1>5 DEF Retiring, Active
  <1>7. Retired(Committed) = Retired(mem) \union Retiring(c)
    BY <1>2, <1>3, <1>4, <1>5 DEF Retired
  <1> QED
    BY <1>1, <1>2, <1>6, <1>7

(* The candidate is, or has become, the primary; or the user replaced it. *)
LEMMA CommittedSound ==
  ASSUME TypeInv, NEW r \in Record, NEW m \in Record, NEW c \in Issuable,
         Sound(r), r.transition # None, r.transition.candidate = c,
         m.active = c, m.transition = None,
         Retired(m) = Retired(r) \union (Active(r) \ {c}),
         UNCHANGED <<issued, revoked, lapsed>>,
         primary' = c \/ primary' \notin Issuable
  PROVE  Sound(m)' /\ (record' = r => KeepsTokens(m)')
  <1>1. r # None /\ m # None /\ c # None
    BY NoneAssumption, ConstantsAssumption
       DEF NoneAssumption, ConstantsAssumption, Secrets
  <1>2. Active(m) = {c} /\ Candidates(m) = {} /\ Candidates(r) = {c}
    BY <1>1 DEF Active, Candidates
  <1>3. NamesIssued(m)'
    BY <1>2 DEF Sound, NamesIssued, Issued, Active, Candidates, Retired
  <1>4. Retired(m) \subseteq Issuable
    BY <1>2 DEF Sound, NamesIssued, Issued
  <1>5. RetiredApart(m)'
    BY <1>2, <1>4 DEF Sound, RetiredApart, Active, Candidates, Retired
  <1>6. PrimaryNamed(m)'
    BY <1>2 DEF PrimaryNamed, Active, Candidates
  <1>7. LabelOwned(m)' /\ OffCancels(m)'
    BY DEF LabelOwned, OffCancels
  <1>8. ASSUME record' = r PROVE KeepsTokens(m)'
    <2>1. ASSUME NEW t \in Pending(r)', Live(t)' PROVE t = c
      BY <1>1, <2>1 DEF Sound, LabelOwned, Pending, Live
    <2>2. ASSUME NEW t \in Accounted(r)', Live(t)' PROVE t \in Accounted(m)'
      BY <1>2, <2>1, <2>2 DEF Accounted, Active, Candidates, Retired
    <2> QED
      BY <1>8, <2>2 DEF KeepsTokens
  <1> QED
    BY <1>3, <1>5, <1>6, <1>7, <1>8 DEF Sound

-----------------------------------------------------------------------------
(* Every step preserves the invariant. *)

LEMMA StartInv ==
  ASSUME TypeInv, SafetyInv, op = Idle, NEW task, NEW now, NEW session \in BOOLEAN,
         NEW user \in Users, NEW pin,
         EnterRotation(task, now, session, user, pin)
  PROVE  SafetyInv'
  <1> DEFINE r == IF record = None THEN FreshRecord(user) ELSE record
  <1>1. PICK pc, next :
          /\ mem' = r
          /\ op' = [task |-> task, pc |-> pc, next |-> next, now |-> now,
                    session |-> session, token |-> primary,
                    user |-> user, pin |-> pin, overtaken |-> FALSE]
          /\ next \in {"end", "fail"}
          /\ \/ /\ r.transition # None
                /\ pc \in {"reauth", FinishStep(r)}
             \/ /\ r.transition = None /\ r.active \notin {None, primary}
                /\ pc = "clear"
             \/ r.transition = None /\ pc = "auth"
    BY DEF EnterRotation
  <1>2. record = None => r.active = None /\ r.transition = None /\ r.retirements = {}
    BY DEF FreshRecord
  <1>3. record # None => r = record
    OBVIOUS
  <1> HIDE DEF r
  <1>4. UNCHANGED <<world, server, local>>
    BY DEF EnterRotation
  <1>5. Quiet /\ record' = record
    BY <1>4 DEF Quiet, server, local
  <1>6. DurableInv'
    BY <1>5, QuietDurable DEF SafetyInv
  <1>7. op'.pc = pc /\ op'.token = primary /\ op'.next = next
    BY <1>1
  <1>8. CASE r.transition # None /\ pc \in {"reauth", FinishStep(r)}
    <2>1. r = record /\ pc \in {"reauth", "sweep", "withdraw", "validate"}
      BY <1>2, <1>3, <1>8 DEF FinishStep
    <2>2. /\ pc = "withdraw" => primary # r.transition.candidate
          /\ pc = "validate" /\ r.transition.cancelled
             => primary = r.transition.candidate
      BY <1>8 DEF FinishStep
    <2>3. CopyInv'
      BY <1>1, <1>5, <1>7, <2>1 DEF CopyInv
    <2>4. StepInv'
      BY <1>1, <1>4, <1>7, <2>1, <2>2 DEF StepInv, local
    <2> QED
      BY <1>6, <2>3, <2>4 DEF SafetyInv
  <1>9. CASE r.transition = None /\ r.active \notin {None, primary} /\ pc = "clear"
    <2>1. PrimaryNamed(record) /\ record # None
      BY <1>2, <1>9 DEF SafetyInv, DurableInv, Sound
    <2>2. ~(primary \in Issuable /\ Live(primary))
      BY <1>3, <1>9, <2>1 DEF PrimaryNamed, Active, Candidates
    <2>3. ~(primary \in Issuable /\ Live(primary))'
      BY <1>4, <2>2 DEF Live, server, local
    <2> QED
      BY <1>6, <1>7, <1>9, <2>3 DEF SafetyInv, CopyInv, StepInv
  <1>10. CASE r.transition = None /\ pc = "auth"
    <2>1. CopyInv'
      BY <1>1, <1>2, <1>3, <1>5, <1>7, <1>10 DEF CopyInv
    <2> QED
      BY <1>6, <1>7, <1>10, <2>1 DEF SafetyInv, StepInv
  <1> QED
    BY <1>1, <1>8, <1>9, <1>10

(* A revocation by this application *)
LEMMA RevokeQuiet ==
  ASSUME TypeInv, NEW auth, NEW t \in Secrets, Revoke(auth, t)
  PROVE  /\ Quiet /\ record' = record
         /\ ~Live(t)'
  BY DEF Revoke, Quiet, Live, local

LEMMA AuthenticateInv == ASSUME TypeInv, SafetyInv, Authenticate PROVE SafetyInv'
  <1>1. /\ mem \in Record /\ mem.transition = None /\ mem # None
        /\ \/ mem = record
           \/ record = None /\ mem.active = None /\ mem.retirements = {}
    <2>1. op.pc = "auth"
      BY DEF Authenticate, At
    <2>2. mem \in Record /\ mem.transition = None
      BY <2>1 DEF TypeInv, VolatileOK, Control, Managed, Ready
    <2> QED
      BY <2>1, <2>2, NoneAssumption DEF SafetyInv, CopyInv, NoneAssumption
  <1>2. Quiet /\ record' = record
    BY DEF Authenticate, Quiet, server, local
  <1>3. Sound(mem)
    <2>1. CASE mem = record
      BY <2>1 DEF SafetyInv, DurableInv
    <2>2. CASE record = None /\ mem.active = None /\ mem.retirements = {}
      <3>1. Active(mem) = {} /\ Retired(mem) = {} /\ Candidates(mem) = {}
        BY <1>1, <2>2 DEF Active, Retired, Candidates
      <3>2. PrimaryNamed(None) /\ Active(None) = {} /\ Candidates(None) = {}
        BY <2>2 DEF SafetyInv, DurableInv, Sound, Active, Candidates
      <3> QED
        BY <1>1, <3>1, <3>2
           DEF Sound, NamesIssued, RetiredApart, PrimaryNamed, LabelOwned, OffCancels
    <2> QED
      BY <1>1, <2>1, <2>2
  <1>4. PICK l \in Labels, a \in Secrets \union {Session},
             e \in Maybe([user: Users, pin: Pins]) :
          /\ \A t \in Issuable : issued[t] # l
          /\ Journal([mem EXCEPT !.automatic = TRUE,
                       !.transition = [auth |-> a, previous |-> op.token,
                          label |-> l, requested |-> op.now + Lifetime,
                          candidate |-> None, enrollment |-> e,
                          cancelled |-> FALSE]], "sweep")
    <2>1. account = op.user /\ account \in Users /\ op.pc = "auth"
      BY DEF Authenticate, At, TypeInv, DurableOK
    <2>2. op.task = "enroll" => [user |-> op.user, pin |-> op.pin] \in [user: Users, pin: Pins]
      BY <2>1 DEF TypeInv, VolatileOK, Control
    <2> QED
      BY <2>2 DEF Authenticate, Authorized, Maybe
  <1> DEFINE t == [auth |-> a, previous |-> op.token, label |-> l,
                   requested |-> op.now + Lifetime, candidate |-> None,
                   enrollment |-> e, cancelled |-> FALSE]
  <1>0. PICK m : m = [mem EXCEPT !.automatic = TRUE, !.transition = t]
    OBVIOUS
  <1>5. m \in Record /\ t # None
    <2>1. op.now + Lifetime \in Nat /\ op.token \in Maybe(Secrets)
      BY TimesAssumption DEF TypeInv, VolatileOK, Operation, TimesAssumption
    <2>2. t \in Transition
      BY <2>1 DEF Transition, Maybe
    <2>3. t # None
      BY <2>2, NoneAssumption DEF NoneAssumption
    <2> HIDE DEF t
    <2> QED
      BY <1>0, <1>1, <2>2, <2>3 DEF Record, Maybe
  <1>6. m.active = mem.active /\ m.retirements = mem.retirements /\ m.transition = t
        /\ m.automatic
    BY <1>0, <1>1 DEF Record
  <1>7. m.transition.label = l /\ m.transition.candidate = None
        /\ ~m.transition.cancelled /\ m.transition # None
    BY <1>5, <1>6
  <1>8. Journal(m, "sweep")
    BY <1>0, <1>4
  <1> HIDE DEF t
  <1>9. Sound(m)' /\ (record' = mem => KeepsTokens(m)')
    BY <1>1, <1>2, <1>3, <1>4, <1>5, <1>6, <1>7, IntentSound
  <1>10. KeepsTokens(m)'
    <2>1. CASE record = None
      BY <1>2, <2>1 DEF KeepsTokens, Accounted, Active, Retired, Candidates, Pending
    <2> QED
      BY <1>1, <1>2, <1>9, <2>1
  <1>11. CopyInv' /\ StepInv'
    BY <1>2, <1>6, <1>7, <1>8, <1>9, <1>10, JournalInv
  <1> QED
    BY <1>2, <1>11, QuietDurable DEF SafetyInv

LEMMA ReauthenticateInv == ASSUME TypeInv, SafetyInv, Reauthenticate PROVE SafetyInv'
  <1> DEFINE c == mem.transition.candidate
  <1>0. PICK kept : kept = Reconnected(c, mem.transition.previous)
    OBVIOUS
  <1>1. mem \in Record /\ mem.transition # None /\ mem = record /\ op.pc = "reauth"
    BY DEF Reauthenticate, At, TypeInv, VolatileOK, Control, Managed, Ready,
       SafetyInv, CopyInv
  <1>2. Quiet /\ record' = record /\ DurableInv'
    <2>1. Quiet /\ record' = record
      BY DEF Reauthenticate, Quiet, server, local
    <2> QED
      BY <2>1, QuietDurable DEF SafetyInv
  <1>3. CASE ~Live(c) /\ Goto("drop")
    <2>1. op'.pc = "drop" /\ mem' = mem /\ op'.next = op.next
      BY <1>3 DEF Goto, TypeInv, VolatileOK, Operation
    <2>2. ~Live(mem.transition.candidate)'
      BY <1>3, <2>1 DEF Reauthenticate, Live, server
    <2> QED
      BY <1>1, <1>2, <2>1, <2>2 DEF SafetyInv, CopyInv, StepInv
  <1>4. CASE Journal(kept, FinishStep(kept))
    <2>1. c \in Maybe(Issuable) /\ mem.transition.previous \in Maybe(Secrets)
      BY <1>1 DEF Record, Transition, Maybe
    <2>2. /\ kept \in Record /\ kept.transition # None
          /\ kept.transition.candidate = c /\ ~kept.transition.cancelled
          /\ kept.transition.label = mem.transition.label /\ kept.automatic
          /\ kept.active = mem.active /\ kept.retirements = mem.retirements
      BY <1>0, <1>1, <2>1, ReconnectedType
    <2>3. Candidates(kept) = Candidates(mem)
      BY <1>1, <2>2, NoneAssumption DEF Candidates, NoneAssumption
    <2>4. Sound(kept)' /\ KeepsTokens(kept)'
      BY <1>1, <1>2, <2>2, <2>3, LessSound DEF SafetyInv, DurableInv
    <2>5. CopyInv' /\ StepInv'
      BY <1>2, <1>4, <2>2, <2>4, JournalInv
    <2> QED
      BY <1>2, <2>5 DEF SafetyInv
  <1> QED
    BY <1>0, <1>3, <1>4 DEF Reauthenticate

LEMMA DropInv == ASSUME TypeInv, SafetyInv, DropCandidate PROVE SafetyInv'
  <1>0. PICK c, m : c = mem.transition.candidate /\ m = Reconnected(None, op.token)
    OBVIOUS
  <1>1. mem \in Record /\ mem = record /\ Sound(mem) /\ mem.transition # None
        /\ c \in Secrets
    BY <1>0 DEF DropCandidate, At, TypeInv, VolatileOK, Control, Managed, Ready,
       SafetyInv, CopyInv, DurableInv, Record, Transition, Maybe, Secrets
  <1>2. Quiet /\ record' = record /\ ~Live(c)'
    BY <1>0, <1>1, RevokeQuiet DEF DropCandidate
  <1>3. DurableInv'
    BY <1>2, QuietDurable DEF SafetyInv
  <1>4. /\ m \in Record /\ m.transition # None
        /\ m.transition.candidate = None /\ ~m.transition.cancelled
        /\ m.transition.label = mem.transition.label /\ m.automatic
        /\ m.active = mem.active /\ m.retirements = mem.retirements
    BY <1>0, <1>1, ReconnectedType DEF TypeInv, VolatileOK, Operation, Maybe
  <1>5. Candidates(mem) \subseteq {c}
    BY <1>0 DEF Candidates
  <1>6. Sound(m)' /\ KeepsTokens(m)'
    BY <1>1, <1>2, <1>4, <1>5, LessSound
  <1>7. CASE Journal(m, "sweep")
    <2>1. CopyInv' /\ StepInv'
      BY <1>2, <1>4, <1>6, <1>7, JournalInv
    <2> QED
      BY <1>3, <2>1 DEF SafetyInv
  <1> QED
    BY <1>0, <1>3, <1>7, FailInv DEF DropCandidate, Lost, Answered, SafetyInv

LEMMA SweepInv == ASSUME TypeInv, SafetyInv, Sweep PROVE SafetyInv'
  <1>1. op.pc = "sweep" /\ Quiet /\ record' = record /\ primary' = primary
    BY RevokeQuiet DEF Sweep, At, Orphans, Secrets, Revoke, local
  <1>2. DurableInv'
    BY <1>1, QuietDurable DEF SafetyInv
  <1> QED
    BY <1>1, <1>2, StillInv, FailInv DEF Sweep, Lost, Answered, SafetyInv

(* What a transition leaves when it is closed without a commitment *)
LEMMA ClosedInv ==
  ASSUME TypeInv, SafetyInv, mem \in Record, mem = record, mem.transition # None,
         Quiet, record' = record, NEW next \in {"end", "fail"},
         \A t \in Candidates(mem) : ~Live(t)',
         mem.transition.candidate = None => Orphans = {},
         Journal([mem EXCEPT !.transition = None], next)
  PROVE  SafetyInv'
  <1>0. PICK m : m = [mem EXCEPT !.transition = None]
    OBVIOUS
  <1>1. m \in Record /\ m.transition = None /\ m.active = mem.active
        /\ m.retirements = mem.retirements
    BY <1>0, ClosedType DEF Record
  <1>2. mem # None /\ m # None
    BY <1>1, NoneAssumption DEF NoneAssumption
  <1>3. Sound(mem) /\ LabelOwned(mem)
    BY DEF SafetyInv, DurableInv, Sound
  <1>5. ASSUME NEW t \in Pending(mem) PROVE ~Live(t)'
    <2>1. t \in Issuable /\ issued[t] = mem.transition.label
      BY <1>2, <1>5 DEF Pending
    <2>2. Live(t) => t \in Candidates(mem)
      BY <1>2, <1>3, <2>1 DEF LabelOwned, Orphans, Candidates
    <2> QED
      BY <2>1, <2>2, StaysDead DEF Secrets
  <1>6. Sound(m)' /\ KeepsTokens(m)'
    BY <1>1, <1>3, <1>5, LessSound
  <1>7. CopyInv' /\ StepInv'
    BY <1>0, <1>6, JournalInv
  <1> QED
    BY <1>7, QuietDurable DEF SafetyInv

LEMMA SweptInv == ASSUME TypeInv, SafetyInv, Swept PROVE SafetyInv'
  <1>1. mem \in Record /\ mem = record /\ mem.transition # None
        /\ mem.transition.candidate = None /\ op.pc = "sweep" /\ Orphans = {}
    BY DEF Swept, At, TypeInv, VolatileOK, Control, Managed, Ready, SafetyInv, CopyInv
  <1>2. Quiet /\ record' = record
    BY DEF Swept, Quiet, server, local
  <1>3. CASE Journal([mem EXCEPT !.transition = None], "end")
    <2>1. Candidates(mem) = {}
      BY <1>1 DEF Candidates
    <2> QED
      BY <1>1, <1>2, <1>3, <2>1, ClosedInv
  <1>4. CASE ~mem.transition.cancelled /\ Goto("issue")
    <2>1. op'.pc = "issue" /\ mem' = mem
      BY <1>4 DEF Goto, TypeInv, VolatileOK, Operation
    <2>2. Orphans' = {}
      BY <1>1, <2>1 DEF Swept, Orphans, Live, server
    <2>3. DurableInv'
      BY <1>2, QuietDurable DEF SafetyInv
    <2> QED
      BY <1>1, <1>2, <1>4, <2>1, <2>2, <2>3 DEF SafetyInv, CopyInv, StepInv
  <1> QED
    BY <1>3, <1>4 DEF Swept

LEMMA WithdrawInv ==
  ASSUME TypeInv, SafetyInv, Withdraw \/ Discard PROVE SafetyInv'
  <1>0. PICK c : c = mem.transition.candidate
    OBVIOUS
  <1>1. mem \in Record /\ mem = record /\ mem.transition # None
        /\ c # None /\ c \in Secrets
    <2>1. op.pc \in {"withdraw", "discard"}
      BY DEF Withdraw, Discard, At
    <2> QED
      BY <1>0, <2>1 DEF TypeInv, VolatileOK, Control, Managed, Ready, SafetyInv,
         CopyInv, Record, Transition, Maybe, Secrets
  <1>2. Quiet /\ record' = record /\ ~Live(c)'
    BY <1>0, <1>1, RevokeQuiet DEF Withdraw, Discard
  <1>3. Candidates(mem) \subseteq {c}
    BY <1>0 DEF Candidates
  <1>4. CASE \E next \in {"end", "fail"} : Journal([mem EXCEPT !.transition = None], next)
    BY <1>0, <1>1, <1>2, <1>3, <1>4, ClosedInv
  <1>5. CASE Fail
    BY <1>2, <1>5, FailInv, QuietDurable DEF SafetyInv
  <1> QED
    BY <1>4, <1>5 DEF Withdraw, Discard, Lost, Answered

LEMMA IssueInv == ASSUME TypeInv, SafetyInv, Issue PROVE SafetyInv'
  <1>1. mem \in Record /\ mem = record /\ Sound(mem) /\ mem.transition # None
        /\ mem.transition.candidate = None
    BY DEF Issue, At, TypeInv, VolatileOK, Control, Managed, Ready, SafetyInv,
       CopyInv, DurableInv
  <1>2. ~mem.transition.cancelled
        /\ \A u \in Issuable : Live(u) => issued[u] # mem.transition.label
    BY DEF Issue, At, SafetyInv, StepInv, Orphans
  <1>3. PICK t \in Issuable :
          /\ issued[t] = None
          /\ issued' = [issued EXCEPT ![t] = mem.transition.label]
          /\ Fail \/ Journal([mem EXCEPT !.transition.candidate = t], "validate")
    BY DEF Issue, Lost, Answered
  <1>4. UNCHANGED <<revoked, lapsed, primary, record>>
    BY DEF Issue, local
  <1>5. primary \in Issuable => primary \in Issued
    BY DEF SafetyInv, DurableInv
  <1>6. DurableInv'
    <2>1. Sound(record)'
      BY <1>1, <1>3, <1>4, <1>5, IssuedSound
    <2>2. issued \in [Issuable -> Maybe(Labels)] /\ mem.transition.label # None
      BY <1>1, ConstantsAssumption
         DEF TypeInv, DurableOK, Record, Maybe, Transition, ConstantsAssumption
    <2> QED
      BY <1>3, <1>4, <1>5, <2>1, <2>2 DEF DurableInv, Issued
  <1>7. CASE Fail
    BY <1>6, <1>7, FailInv DEF SafetyInv
  <1>8. CASE Journal([mem EXCEPT !.transition.candidate = t], "validate")
    <2>1. PICK m : m = [mem EXCEPT !.transition.candidate = t]
      OBVIOUS
    <2>2. m \in Record /\ m.transition # None
      BY <1>1, <2>1, CandidateType DEF Ready
    <2>3. m.active = mem.active /\ m.retirements = mem.retirements
          /\ m.automatic = mem.automatic
          /\ m.transition = [mem.transition EXCEPT !.candidate = t]
      BY <1>1, <2>1 DEF Record
    <2>4. mem.transition \in Transition
      BY <1>1 DEF Record, Maybe
    <2>5. m.transition.candidate = t /\ m.transition.label = mem.transition.label
          /\ m.transition.cancelled = mem.transition.cancelled
      BY <2>3, <2>4 DEF Transition
    <2>6. Sound(m)' /\ KeepsTokens(m)'
      BY <1>1, <1>2, <1>3, <1>4, <1>5, <2>2, <2>3, <2>5, CandidateSound
    <2>7. CopyInv' /\ StepInv'
      BY <1>2, <1>4, <1>8, <2>1, <2>5, <2>6, JournalInv
    <2> QED
      BY <1>6, <2>7 DEF SafetyInv
  <1> QED
    BY <1>3, <1>7, <1>8

LEMMA ValidateInv == ASSUME TypeInv, SafetyInv, Validate PROVE SafetyInv'
  <1>1. mem \in Record /\ mem = record /\ Ready("switch", mem) /\ op.pc = "validate"
    BY DEF Validate, At, TypeInv, VolatileOK, Control, Managed, Ready, SafetyInv, CopyInv
  <1>2. Quiet /\ record' = record /\ mem' = mem
    BY DEF Validate, Quiet, Goto, server, local
  <1>3. DurableInv'
    BY <1>2, QuietDurable DEF SafetyInv
  <1>4. op'.pc \in {"compare", "discard"} /\ op'.token = op.token
        /\ (op'.pc = "compare" <=> Accepted(mem.transition.candidate))
    BY DEF Validate, Goto, TypeInv, VolatileOK, Operation
  <1>5. mem.transition.cancelled => op'.token = mem.transition.candidate
    BY <1>1, <1>4 DEF SafetyInv, StepInv
  <1>6. op'.pc = "compare" => mem.transition.candidate \notin revoked'
    BY <1>4 DEF Accepted, Live, Validate, server
  <1>7. ASSUME op'.pc = "discard", \A u, v \in Users : u = v
        PROVE  ~Live(mem.transition.candidate)'
    <2>1. account = mem.user
      BY <1>1, <1>7 DEF TypeInv, DurableOK, Record
    <2> QED
      BY <1>2, <1>4, <1>7, <2>1 DEF Accepted, Live, Validate, server
  <1> QED
    BY <1>1, <1>2, <1>3, <1>4, <1>5, <1>6, <1>7 DEF SafetyInv, CopyInv, StepInv

(* The candidate of a sound record becomes the primary. *)
LEMMA InstallSound ==
  ASSUME NEW r, NEW c \in Issuable, Sound(r), Candidates(r) = {c}, primary' = c,
         UNCHANGED <<issued, revoked, lapsed>>
  PROVE  Sound(r)' /\ c \in Issued'
  BY DEF Sound, NamesIssued, RetiredApart, PrimaryNamed, LabelOwned, OffCancels,
     Issued, Live, Candidates, Retired, Active

(* The bookkeeping of a candidate that is the primary by now *)
LEMMA CommitInv ==
  ASSUME TypeInv, SafetyInv, mem \in Record, mem = record, Ready("switch", mem),
         UNCHANGED <<issued, revoked, lapsed, record>>, DurableInv',
         primary' = mem.transition.candidate, Journal(Committed, "retire")
  PROVE  SafetyInv'
  <1>0. PICK c, m : c = mem.transition.candidate /\ m = Committed
    OBVIOUS
  <1>1. Sound(mem) /\ mem.transition # None /\ c \in Issuable /\ c # None
    BY <1>0 DEF SafetyInv, DurableInv, Ready, Record, Transition, Maybe
  <1>2. Candidates(mem) = {c}
    BY <1>0, <1>1, NoneAssumption DEF Candidates, NoneAssumption
  <1>3. /\ m \in Record /\ m.transition = None /\ m.active = c
        /\ Retired(m) = Retired(mem) \union (Active(mem) \ {c})
    BY <1>0, <1>1, CommittedFields
  <1>4. Sound(m)' /\ KeepsTokens(m)'
    BY <1>0, <1>1, <1>2, <1>3, CommittedSound
  <1>5. CopyInv' /\ StepInv'
    BY <1>0, <1>4, JournalInv
  <1> QED
    BY <1>5 DEF SafetyInv

LEMMA CompareInv == ASSUME TypeInv, SafetyInv, Compare PROVE SafetyInv'
  <1>1. mem \in Record /\ mem = record /\ Ready("switch", mem) /\ op.pc = "compare"
    BY DEF Compare, At, TypeInv, VolatileOK, Control, Managed, Ready, SafetyInv, CopyInv
  <1>2. /\ Quiet /\ UNCHANGED <<issued, revoked, lapsed, record, primary>>
    BY DEF Compare, Quiet, server, local
  <1>3. DurableInv'
    BY <1>2, QuietDurable DEF SafetyInv
  <1>4. CASE primary = mem.transition.candidate /\ Journal(Committed, "retire")
    BY <1>1, <1>2, <1>3, <1>4, CommitInv
  <1>5. CASE Fail
    BY <1>3, <1>5, FailInv DEF SafetyInv
  <1>6. CASE Replaceable(mem.transition) /\ Goto("switch")
    <2>1. /\ op'.pc = "switch" /\ op'.token = op.token /\ mem' = mem
      BY <1>6 DEF Goto, TypeInv, VolatileOK, Operation
    <2>2. primary' = mem'.transition.previous
      BY <1>2, <1>6, <2>1 DEF Replaceable
    <2>3. mem.transition.cancelled => op'.token = mem.transition.candidate
      BY <1>1, <2>1 DEF SafetyInv, StepInv
    <2>4. mem.transition.candidate \notin revoked'
      BY <1>1, <1>2 DEF SafetyInv, StepInv
    <2> QED
      BY <1>1, <1>2, <1>3, <2>1, <2>2, <2>3, <2>4 DEF SafetyInv, CopyInv, StepInv
  <1> QED
    BY <1>4, <1>5, <1>6 DEF Compare

LEMMA SwitchInv == ASSUME TypeInv, SafetyInv, Switch PROVE SafetyInv'
  <1>0. PICK c : c = mem.transition.candidate
    OBVIOUS
  <1>1. /\ mem \in Record /\ mem = record /\ Sound(mem) /\ Ready("switch", mem)
        /\ mem.transition # None /\ c \in Issuable /\ c # None
    <2>1. op.pc = "switch"
      BY DEF Switch, At
    <2>2. mem \in Record /\ mem = record /\ Sound(mem) /\ Ready("switch", mem)
      BY <2>1 DEF TypeInv, VolatileOK, Control, Managed, SafetyInv, CopyInv, DurableInv
    <2> QED
      BY <1>0, <2>2 DEF Ready, Record, Transition, Maybe
  <1>2. UNCHANGED <<issued, revoked, lapsed, record>> /\ primary' = c
    BY <1>0 DEF Switch, server
  <1>3. Candidates(mem) = {c}
    BY <1>0, <1>1, NoneAssumption DEF Candidates, NoneAssumption
  <1>4. Sound(record)' /\ c \in Issued'
    BY <1>1, <1>2, <1>3, InstallSound
  <1>5. DurableInv'
    BY <1>2, <1>4 DEF DurableInv
  <1>6. CASE Journal(Committed, "retire")
    BY <1>0, <1>1, <1>2, <1>5, <1>6, CommitInv
  <1>7. CASE op'.pc = "hostKeys" /\ mem' = mem
    <2>1. mem # None
      BY <1>1, NoneAssumption DEF NoneAssumption
    <2> QED
      BY <1>0, <1>1, <1>2, <1>5, <1>7, <2>1 DEF SafetyInv, CopyInv, StepInv
  <1>8. Journal(Committed, "retire") \/ (op'.pc = "hostKeys" /\ mem' = mem)
    <2>1. op \in Operation
      BY DEF TypeInv, VolatileOK
    <2> QED
      BY <2>1 DEF Switch, Operation
  <1> QED
    BY <1>6, <1>7, <1>8

LEMMA KeptInv ==
  ASSUME TypeInv, SafetyInv, mem \in Record, mem = record, mem.transition = None,
         op.next \in {"end", "due"}, Quiet, record' = record,
         NEW m \in Record, m.active = mem.active, m.transition = None,
         m.retirements \subseteq mem.retirements,
         \A x \in mem.retirements \ m.retirements : ~Live(x.id)',
         Journal(m, op.next)
  PROVE  SafetyInv'
  <1>1. Candidates(mem) = {} /\ Pending(mem) = {}
    BY DEF Candidates, Pending
  <1>2. Sound(mem)
    BY DEF SafetyInv, DurableInv
  <1>3. Sound(m)' /\ KeepsTokens(m)'
    BY <1>1, <1>2, LessSound
  <1>4. CopyInv' /\ StepInv'
    BY <1>3, JournalInv
  <1> QED
    BY <1>4, QuietDurable DEF SafetyInv

LEMMA RetireInv == ASSUME TypeInv, SafetyInv, Retire PROVE SafetyInv'
  <1>1. mem \in Record /\ mem = record /\ mem.transition = None
        /\ op.next \in {"end", "due"}
    BY DEF Retire, At, TypeInv, VolatileOK, Control, Managed, Ready, SafetyInv, CopyInv
  <1>2. \A x \in mem.retirements : x.id \in Secrets
    BY <1>1 DEF Record, Retirement, Secrets
  <1>3. ASSUME Journal(mem, op.next), Quiet, record' = record PROVE SafetyInv'
    BY <1>1, <1>3, KeptInv
  <1>4. CASE Journal(mem, op.next) /\ UNCHANGED <<world, server, local>>
    <2>1. Quiet /\ record' = record
      BY <1>4 DEF Quiet, server, local
    <2> QED
      BY <1>3, <1>4, <2>1
  <1>5. ASSUME NEW x \in mem.retirements, Revoke(mem.active, x.id),
               Journal(mem, op.next)
        PROVE  SafetyInv'
    BY <1>2, <1>3, <1>5, RevokeQuiet
  <1>6. ASSUME NEW x \in mem.retirements, Revoke(mem.active, x.id),
               Journal([mem EXCEPT !.retirements = @ \ {x}], op.next)
        PROVE  SafetyInv'
    <2>1. PICK m, i : m = [mem EXCEPT !.retirements = @ \ {x}] /\ i = x.id
      OBVIOUS
    <2>2. m \in Record /\ m.active = mem.active /\ m.transition = None
          /\ m.retirements = mem.retirements \ {x}
      BY <1>1, <2>1 DEF Record
    <2>3. Quiet /\ record' = record /\ ~Live(i)'
      BY <1>2, <1>6, <2>1, RevokeQuiet
    <2>4. \A y \in mem.retirements \ m.retirements : ~Live(y.id)'
      BY <2>1, <2>2, <2>3
    <2> QED
      BY <1>1, <1>6, <2>1, <2>2, <2>3, <2>4, KeptInv
  <1> QED
    BY <1>4, <1>5, <1>6 DEF Retire, Answered

LEMMA WriteRecordInv == ASSUME TypeInv, SafetyInv, WriteRecord PROVE SafetyInv'
  <1>1. mem \in Record /\ Sound(mem) /\ record' = mem /\ mem' = mem
        /\ op'.pc = "cache" /\ op'.next = op.next
    BY DEF WriteRecord, At, Goto, TypeInv, VolatileOK, Control, SafetyInv, CopyInv,
       Operation
  <1>2. UNCHANGED <<issued, revoked, lapsed, primary>>
    BY DEF WriteRecord, server
  <1>3. Sound(mem)'
    BY <1>1, <1>2, SoundStable DEF Quiet
  <1>4. DurableInv'
    BY <1>1, <1>2, <1>3 DEF DurableInv, SafetyInv, Issued
  <1>5. CopyInv' /\ StepInv'
    BY <1>1 DEF CopyInv, StepInv, SafetyInv, WriteRecord, At
  <1> QED
    BY <1>4, <1>5 DEF SafetyInv

LEMMA WriteCacheInv == ASSUME TypeInv, SafetyInv, WriteCache PROVE SafetyInv'
  <1>1. mem \in Record /\ mem = record /\ op.pc = "cache" /\ op \in Operation
        /\ op.next \in Continuations /\ Ready(op.next, mem)
    BY DEF WriteCache, At, TypeInv, VolatileOK, Control, SafetyInv, CopyInv
  <1>2. Quiet /\ record' = record
    BY DEF WriteCache, Quiet, server
  <1>3. DurableInv'
    BY <1>2, QuietDurable DEF SafetyInv
  <1>4. CASE Succeed \/ Fail
    BY <1>3, <1>4, StopInv, FailInv DEF Succeed, SafetyInv
  <1>5. CASE /\ op.next = "due"
             /\ op' = [op EXCEPT
                  !.pc = IF mem.active = primary THEN "auth" ELSE "clear",
                  !.next = IF mem.active = primary THEN "end" ELSE "fail",
                  !.token = primary, !.user = profile]
             /\ UNCHANGED <<mem, failing>>
    <2>1. CASE mem.active = primary
      BY <1>1, <1>2, <1>3, <1>5, <2>1 DEF SafetyInv, CopyInv, StepInv, Operation
    <2>2. CASE mem.active # primary
      <3>1. op'.pc = "clear"
        BY <1>1, <1>5, <2>2 DEF Operation
      <3>2. PrimaryNamed(mem) /\ mem.transition = None
        BY <1>1, <1>5 DEF SafetyInv, DurableInv, Sound, Ready
      <3>3. ~(primary \in Issuable /\ Live(primary))
        BY <2>2, <3>2 DEF PrimaryNamed, Active, Candidates
      <3>4. ~(primary \in Issuable /\ Live(primary))'
        BY <3>3 DEF Live, WriteCache, server
      <3> QED
        BY <1>3, <3>1, <3>4 DEF SafetyInv, CopyInv, StepInv
    <2> QED
      BY <2>1, <2>2
  <1>6. CASE /\ op.next \notin {"end", "fail", "due"}
             /\ op' = [op EXCEPT !.pc = op.next, !.next = "end"]
             /\ UNCHANGED <<mem, failing>>
    <2>1. op'.pc = op.next /\ op'.next = "end" /\ op.next \in {"sweep", "validate", "retire"}
      BY <1>1, <1>6 DEF Operation, Continuations
    <2>2. op.next = "validate" => ~mem.transition.cancelled
      BY <1>1 DEF SafetyInv, StepInv
    <2> QED
      BY <1>1, <1>2, <1>3, <1>6, <2>1, <2>2 DEF SafetyInv, CopyInv, StepInv
  <1> QED
    BY <1>4, <1>5, <1>6 DEF WriteCache

LEMMA RotationInv == ASSUME TypeInv, SafetyInv, Rotation PROVE SafetyInv'
  <1>1. ASSUME NEW session \in BOOLEAN, StartRotate(session) PROVE SafetyInv'
    <2>1. profile \in Users
      BY <1>1 DEF StartRotate, TypeInv, DurableOK, Maybe
    <2> QED
      BY <1>1, <2>1, StartInv DEF StartRotate
  <1>2. ASSUME NEW user \in Users, NEW pin \in Pins, StartEnroll(user, pin)
        PROVE  SafetyInv'
    BY <1>2, StartInv DEF StartEnroll
  <1> QED
    BY <1>1, <1>2, AuthenticateInv, ReauthenticateInv, DropInv, SweepInv, SweptInv,
       WithdrawInv, IssueInv, ValidateInv, CompareInv, SwitchInv, RetireInv, WriteRecordInv,
       WriteCacheInv DEF Rotation

LEMMA StartRenewInv == ASSUME TypeInv, SafetyInv, StartRenew PROVE SafetyInv'
  <1>1. /\ record # None /\ mem' = record /\ UNCHANGED <<world, server, local>>
        /\ op'.token = primary /\ op'.next \in {"end", "due"}
        /\ \/ record.transition # None /\ op'.pc = FinishStep(record)
           \/ /\ record.transition = None /\ record.active \notin {None, primary}
              /\ op'.pc = "clear"
           \/ op'.pc = "retire"
    BY DEF StartRenew, Idle
  <1>2. Quiet /\ record' = record
    BY <1>1 DEF Quiet, server, local
  <1>3. DurableInv'
    BY <1>2, QuietDurable DEF SafetyInv
  <1>4. CASE record.transition # None /\ op'.pc = FinishStep(record)
    <2>1. op'.pc \in {"sweep", "withdraw", "validate"}
      BY <1>4 DEF FinishStep
    <2>2. /\ op'.pc = "withdraw" => primary' # mem'.transition.candidate
          /\ op'.pc = "validate" /\ mem'.transition.cancelled
             => op'.token = mem'.transition.candidate
      BY <1>1, <1>4 DEF FinishStep, local
    <2> QED
      BY <1>1, <1>2, <1>3, <2>1, <2>2 DEF SafetyInv, CopyInv, StepInv
  <1>5. CASE /\ record.transition = None /\ record.active \notin {None, primary}
             /\ op'.pc = "clear"
    <2>1. ~(primary \in Issuable /\ Live(primary))
      BY <1>5 DEF SafetyInv, DurableInv, Sound, PrimaryNamed, Active, Candidates
    <2>2. ~(primary \in Issuable /\ Live(primary))'
      BY <1>1, <2>1 DEF Live, server, local
    <2> QED
      BY <1>3, <1>5, <2>2 DEF SafetyInv, CopyInv, StepInv
  <1>6. CASE op'.pc = "retire"
    BY <1>1, <1>2, <1>3, <1>6 DEF SafetyInv, CopyInv, StepInv
  <1> QED
    BY <1>1, <1>4, <1>5, <1>6

LEMMA SetAutomaticStep ==
  ASSUME TypeInv, SafetyInv, NEW enabled \in BOOLEAN, SetAutomatic(enabled),
         Quiet, record' = record, Sound(mem)', KeepsTokens(mem)'
  PROVE  SafetyInv'
  <1>1. op'.pc = "record" /\ op'.next = "end"
    BY DEF SetAutomatic, Idle
  <1> QED
    BY <1>1, QuietDurable DEF SafetyInv, CopyInv, StepInv

LEMMA SetAutomaticInv ==
  ASSUME TypeInv, SafetyInv, NEW enabled \in BOOLEAN, SetAutomatic(enabled)
  PROVE  SafetyInv'
  <1>0. PICK m : m = mem'
    OBVIOUS
  <1>1. record \in Record /\ record # None /\ Sound(record)
    BY DEF SetAutomatic, TypeInv, DurableOK, Maybe, SafetyInv, DurableInv
  <1>2. Quiet /\ record' = record
    BY DEF SetAutomatic, Quiet, server, local
  <1>3. m \in Record
    <2>1. TypeInv'
      BY RenewalType DEF Renewal
    <2>2. op'.pc = "record"
      BY DEF SetAutomatic, Idle
    <2> QED
      BY <1>0, <2>1, <2>2 DEF TypeInv, VolatileOK, Control
  <1>4. m.active = record.active /\ m.retirements = record.retirements
        /\ m.automatic = enabled
        /\ m.transition = (IF record.transition # None /\ ~enabled
                           THEN [record.transition EXCEPT !.cancelled = TRUE]
                           ELSE record.transition)
    BY <1>0, <1>1 DEF SetAutomatic, Record
  <1>5. CASE record.transition = None
    <2>1. Candidates(record) = {} /\ Pending(record) = {} /\ m.transition = None
      BY <1>4, <1>5 DEF Candidates, Pending
    <2> QED
      BY <1>0, <1>1, <1>2, <1>3, <1>4, <2>1, LessSound, SetAutomaticStep
  <1>6. CASE record.transition # None
    <2>1. record.transition \in Transition
      BY <1>1, <1>6 DEF Record, Maybe
    <2>2. /\ m.transition \in Transition
          /\ m.transition.label = record.transition.label
          /\ m.transition.candidate = record.transition.candidate
          /\ m.automatic \/ m.transition.cancelled
      BY <1>4, <1>6, <2>1 DEF Transition
    <2>3. m.transition # None /\ m # None
      BY <1>3, <2>2, NoneAssumption DEF NoneAssumption
    <2>4. Candidates(m) = Candidates(record)
      BY <1>1, <1>6, <2>2, <2>3 DEF Candidates
    <2> QED
      BY <1>0, <1>1, <1>2, <1>3, <1>4, <1>6, <2>2, <2>3, <2>4, LessSound,
         SetAutomaticStep
  <1> QED
    BY <1>5, <1>6

LEMMA RenewalInv == ASSUME TypeInv, SafetyInv, Renewal PROVE SafetyInv'
  <1>1. CASE RenewCannotStart
    BY <1>1, StillInv DEF RenewCannotStart, Quiet, server, local
  <1>2. CASE RecordFailure
    BY <1>2, StillInv DEF RecordFailure, Quiet, server
  <1> QED
    BY <1>1, <1>2, StartRenewInv, SetAutomaticInv DEF Renewal

LEMMA ManualInv == ASSUME TypeInv, SafetyInv, Manual PROVE SafetyInv'
  <1>1. ASSUME NEW task, NEW token, token \notin Issuable, NEW user, NEW pin,
               StartManual(task, token, user, pin)
        PROVE  SafetyInv'
    <2>1. op'.pc = "store" /\ op'.token = token
      BY <1>1 DEF StartManual, Idle
    <2>2. Quiet /\ record' = record
      BY <1>1 DEF StartManual, Quiet, server, local
    <2> QED
      BY <1>1, <2>1, <2>2, QuietDurable DEF SafetyInv, CopyInv, StepInv
  <1>2. CASE \/ \E t \in Imported, user \in Users :
                  \/ RenewToken(t, user)
                  \/ \E pin \in Pins : SaveProfile(t, user, pin)
             \/ RemoveProfile
    <2>1. None \notin Issuable /\ \A t \in Imported : t \notin Issuable
      BY ConstantsAssumption DEF ConstantsAssumption, Secrets
    <2> QED
      BY <1>1, <1>2, <2>1 DEF RenewToken, SaveProfile, RemoveProfile
  <1>3. CASE Store
    <2>1. op.pc = "store" /\ op.token \notin Issuable /\ mem = None
      BY <1>3 DEF Store, At, SafetyInv, StepInv, TypeInv, VolatileOK, Control
    <2>2. Quiet /\ record' = record /\ primary' \notin Issuable /\ mem' = None
      BY <1>3, <2>1 DEF Store, Goto, Quiet, server
    <2>3. op'.pc \in {"hostKeys", "catalog"}
      BY <1>3 DEF Store, Goto, TypeInv, VolatileOK, Operation
    <2> QED
      BY <2>2, <2>3, QuietDurable DEF SafetyInv, CopyInv, StepInv
  <1>4. CASE WriteHostKeys
    <2>1. Quiet /\ record' = record /\ mem' = mem /\ primary' = primary
      BY <1>4 DEF WriteHostKeys, Goto, Quiet, server
    <2>2. op.pc = "hostKeys" /\ op'.pc = "catalog"
      BY <1>4 DEF WriteHostKeys, At, Goto, TypeInv, VolatileOK, Operation
    <2> QED
      BY <2>1, <2>2, QuietDurable DEF SafetyInv, CopyInv, StepInv
  <1>5. CASE WriteCatalog
    <2>1. Quiet /\ record' = record /\ primary' = primary /\ op.pc = "catalog"
          /\ UNCHANGED <<issued, revoked, lapsed>>
      BY <1>5 DEF WriteCatalog, At, Quiet, server
    <2>2. DurableInv'
      BY <2>1, QuietDurable DEF SafetyInv
    <2>3. CASE mem = None /\ op' = [op EXCEPT !.pc = "clear", !.next = "end"]
      <3>1. op'.pc = "clear"
        BY <2>3 DEF TypeInv, VolatileOK, Operation
      <3>2. primary' \notin Issuable
        BY <2>1, <2>3 DEF SafetyInv, StepInv
      <3> QED
        BY <2>2, <3>1, <3>2 DEF SafetyInv, CopyInv, StepInv
    <2>4. CASE mem # None /\ Journal(Committed, "retire")
      <3>1. PICK c, m : c = mem.transition.candidate /\ m = Committed
        OBVIOUS
      <3>2. mem \in Record /\ Ready("switch", mem) /\ mem = record
            /\ (primary = c \/ primary \notin Issuable)
        BY <2>1, <2>4, <3>1
           DEF TypeInv, VolatileOK, Control, SafetyInv, CopyInv, StepInv
      <3>3. Sound(mem) /\ mem.transition # None /\ c \in Issuable
        BY <3>1, <3>2
           DEF SafetyInv, DurableInv, Ready, Record, Transition, Maybe
      <3>4. /\ m \in Record /\ m.transition = None /\ m.active = c
            /\ Retired(m) = Retired(mem) \union (Active(mem) \ {c})
        BY <3>1, <3>2, CommittedFields
      <3>5. Sound(m)' /\ KeepsTokens(m)'
        BY <2>1, <3>1, <3>2, <3>3, <3>4, CommittedSound
      <3>6. CopyInv' /\ StepInv'
        BY <2>1, <2>4, <3>1, <3>5, JournalInv
      <3> QED
        BY <2>2, <3>6 DEF SafetyInv
    <2> QED
      BY <1>5, <2>3, <2>4 DEF WriteCatalog
  <1>6. CASE Clear
    <2>1. ~(primary \in Issuable /\ Live(primary)) /\ op'.pc = "clearCache"
      BY <1>6 DEF Clear, At, Goto, SafetyInv, StepInv, TypeInv, VolatileOK, Operation
    <2>2. record' = None /\ UNCHANGED <<issued, revoked, lapsed, primary>>
      BY <1>6 DEF Clear, server
    <2>3. Sound(record)'
      BY <2>1, <2>2 DEF Sound, NamesIssued, RetiredApart, PrimaryNamed, LabelOwned,
         OffCancels, Active, Candidates, Retired, Live
    <2> QED
      BY <2>1, <2>2, <2>3, IdleInv DEF SafetyInv, DurableInv, Issued
  <1>7. CASE ClearCache
    <2>1. Quiet /\ record' = record
      BY <1>7 DEF ClearCache, Quiet, server
    <2> QED
      BY <1>7, <2>1, QuietDurable, StopInv, FailInv DEF ClearCache, Succeed, SafetyInv
  <1> QED
    BY <1>2, <1>3, <1>4, <1>5, <1>6, <1>7 DEF Manual

LEMMA WorldInv == ASSUME TypeInv, SafetyInv, World PROVE SafetyInv'
  <1>1. CASE CallFails \/ Crash
    <2>1. Quiet /\ record' = record
      BY <1>1 DEF CallFails, Crash, Quiet, server, local
    <2> QED
      BY <1>1, <2>1, QuietDurable, StopInv, FailInv DEF CallFails, Crash, SafetyInv
  <1>2. CASE Tick \/ SynchronizeProfile \/ \E user \in Users : Rename(user)
    <2>1. Quiet /\ record' = record /\ op' = op /\ mem' = mem /\ revoked' = revoked
        /\ primary' = primary
      BY <1>2 DEF Tick, SynchronizeProfile, Rename, Quiet, server, local
    <2> QED
      BY <2>1, StillInv
  <1>3. ASSUME NEW t \in Secrets, Lapse(t) PROVE SafetyInv'
    BY <1>3, StillInv DEF Lapse, Quiet, local
  <1>4. ASSUME NEW t \in Imported, ReplaceOutside(t) PROVE SafetyInv'
    <2>1. Quiet /\ record' = record /\ mem' = mem /\ revoked' = revoked
      BY <1>4, ConstantsAssumption DEF ReplaceOutside, Quiet, server, ConstantsAssumption
    <2>2. /\ op'.pc = op.pc /\ op'.next = op.next /\ op'.token = op.token
          /\ op.pc = "switch" => op'.overtaken
      BY <1>4 DEF ReplaceOutside, At, TypeInv, VolatileOK, Operation
    <2> QED
      BY <2>1, <2>2, QuietInv
  <1> QED
    BY <1>1, <1>2, <1>3, <1>4 DEF World

LEMMA InitInv == Init => SafetyInv
  BY ConstantsAssumption
     DEF Init, SafetyInv, DurableInv, CopyInv, StepInv, Sound, NamesIssued,
         RetiredApart, PrimaryNamed, LabelOwned, OffCancels, Active, Candidates,
         Retired, Idle, ConstantsAssumption, Secrets

LEMMA StepSafe == ASSUME TypeInv, SafetyInv, [Next]_vars PROVE SafetyInv'
  <1>1. CASE UNCHANGED vars
    BY <1>1, StillInv DEF vars, world, server, local, Quiet
  <1> QED
    BY <1>1, RotationInv, RenewalInv, ManualInv, WorldInv DEF Next

-----------------------------------------------------------------------------
(* The theorems *)

(* The inductive invariant holds in every reachable state. *)
THEOREM Safety == Spec => []SafetyInv
  <1>1. TypeInv /\ SafetyInv /\ [Next]_vars => SafetyInv'
    BY StepSafe
  <1> QED
    BY <1>1, InitInv, TypeInvariant, PTL DEF Spec

(* JournaledBeforeInstalled: no crash finds a usable token of ours as the  *)
(* primary that the journal does not name. *)
THEOREM Journaled == Spec => []JournaledBeforeInstalled
  <1>1. SafetyInv => JournaledBeforeInstalled
    BY DEF SafetyInv, DurableInv, Sound, PrimaryNamed, JournaledBeforeInstalled
  <1> QED
    BY <1>1, Safety, PTL

(* RetiredNotInUse: what waits for its deletion is not in use. *)
THEOREM RetiredApartFromUse == Spec => []RetiredNotInUse
  <1>1. SafetyInv => RetiredNotInUse
    BY DEF SafetyInv, DurableInv, Sound, RetiredApart, RetiredNotInUse
  <1> QED
    BY <1>1, Safety, PTL

-----------------------------------------------------------------------------
(* What a step may do to the credential, the tokens and the server: the    *)
(* action properties and the contract follow from these five cases. *)

SingleIdentity == \A u, v \in Users : u = v

Keeps == UNCHANGED <<issued, revoked, primary>>

Provides == primary' \in Imported \union {None} /\ UNCHANGED <<issued, revoked>>

Installs(c) ==
  /\ record # None /\ Candidates(record) = {c}
  /\ record.transition.previous = primary \/ op.overtaken
  /\ record.automatic \/ op.token = c
  /\ c \in Issued \ revoked
  /\ primary' = c /\ UNCHANGED <<issued, revoked>>

Creates(t) ==
  /\ record # None /\ record.automatic
  /\ Issued' = Issued \union {t}
  /\ UNCHANGED <<revoked, primary>>

Deletes(t) ==
  /\ t \in Issued
  /\ SingleIdentity => t # primary
  /\ revoked' = revoked \union {t}
  /\ UNCHANGED <<issued, primary>>

Effect ==
  \/ Keeps \/ Provides
  \/ \E t \in Issuable : Installs(t) \/ Creates(t) \/ Deletes(t)

(* Deleting a token that is dead already changes nothing. *)
LEMMA RevokeEffect ==
  ASSUME TypeInv, NEW auth, NEW t \in Issued, Revoke(auth, t),
         SingleIdentity /\ Live(t) => t # primary
  PROVE  Effect
  <1>1. t \in Issuable
    BY DEF Issued
  <1>2. UNCHANGED <<issued, primary>>
    BY DEF Revoke, local
  <1>3. CASE t \in revoked \union lapsed
    BY <1>2, <1>3 DEF Revoke, Effect, Keeps
  <1>4. CASE t \notin revoked \union lapsed
    <2>1. Live(t)
      BY <1>4 DEF Live, Issued
    <2> QED
      BY <1>1, <1>2, <1>4, <2>1 DEF Revoke, Effect, Deletes
  <1> QED
    BY <1>3, <1>4

LEMMA RotationEffect == ASSUME TypeInv, SafetyInv, Rotation PROVE Effect
  <1>1. CASE UNCHANGED <<issued, revoked, primary>>
    BY <1>1 DEF Effect, Keeps
  <1>2. CASE DropCandidate \/ Withdraw \/ Discard
    <2>1. op.pc \in {"drop", "withdraw", "discard"}
      BY <1>2 DEF DropCandidate, Withdraw, Discard, At
    <2>2. mem \in Record /\ mem = record /\ Sound(mem) /\ mem.transition # None
          /\ mem.transition.candidate # None
      BY <2>1 DEF TypeInv, VolatileOK, Control, Managed, Ready, SafetyInv, CopyInv,
         DurableInv
    <2>3. mem.transition.candidate \in Issued
      BY <2>2, NoneAssumption DEF Sound, NamesIssued, Candidates, NoneAssumption
    <2>4. SingleIdentity /\ Live(mem.transition.candidate)
          => mem.transition.candidate # primary
      BY <2>1 DEF SafetyInv, StepInv, SingleIdentity
    <2> QED
      BY <1>2, <2>3, <2>4, RevokeEffect DEF DropCandidate, Withdraw, Discard
  <1>3. CASE Sweep
    <2>1. mem \in Record /\ mem = record /\ Sound(mem) /\ mem.transition # None
          /\ mem.transition.candidate = None
      BY <1>3 DEF Sweep, At, TypeInv, VolatileOK, Control, Managed, Ready, SafetyInv,
         CopyInv, DurableInv
    <2>2. PICK t \in Orphans : Revoke(mem.transition.auth, t)
      BY <1>3 DEF Sweep
    <2>3. t \in Issuable /\ Live(t) /\ issued[t] = mem.transition.label
      BY <2>2 DEF Orphans
    <2>4. mem # None
      BY <2>1, NoneAssumption DEF NoneAssumption
    <2>5. t # primary
      BY <2>1, <2>3, <2>4 DEF Sound, PrimaryNamed, LabelOwned, Active, Candidates
    <2>6. t \in Issued
      BY <2>3 DEF Issued, Live
    <2> QED
      BY <2>2, <2>5, <2>6, RevokeEffect
  <1>4. CASE Retire
    <2>1. mem \in Record /\ mem = record /\ Sound(mem)
      BY <1>4 DEF Retire, At, TypeInv, VolatileOK, Control, Managed, SafetyInv,
         CopyInv, DurableInv
    <2>2. CASE UNCHANGED <<world, server, local>>
      BY <2>2 DEF server, local, Effect, Keeps
    <2>3. ASSUME NEW r \in mem.retirements, Revoke(mem.active, r.id) PROVE Effect
      <3>1. r.id \in Retired(mem)
        BY <2>1, NoneAssumption DEF Retired, NoneAssumption
      <3>2. r.id \in Issued /\ r.id # primary
        BY <2>1, <3>1 DEF Sound, NamesIssued, RetiredApart
      <3> QED
        BY <2>3, <3>2, RevokeEffect
    <2> QED
      BY <1>4, <2>2, <2>3 DEF Retire
  <1>5. CASE Issue
    <2>1. mem \in Record /\ mem = record /\ mem.transition # None
          /\ ~mem.transition.cancelled
      BY <1>5 DEF Issue, At, TypeInv, VolatileOK, Control, Managed, Ready, SafetyInv,
         CopyInv, StepInv
    <2>2. record # None /\ record.automatic
      BY <2>1, NoneAssumption
         DEF SafetyInv, DurableInv, Sound, OffCancels, NoneAssumption
    <2>3. PICK t \in Issuable : issued' = [issued EXCEPT ![t] = mem.transition.label]
      BY <1>5 DEF Issue
    <2>4. issued \in [Issuable -> Maybe(Labels)] /\ mem.transition.label # None
      BY <2>1, ConstantsAssumption
         DEF TypeInv, DurableOK, Record, Maybe, Transition, ConstantsAssumption
    <2>5. Issued' = Issued \union {t} /\ UNCHANGED <<revoked, primary>>
      BY <1>5, <2>3, <2>4 DEF Issued, Issue, local
    <2> QED
      BY <2>2, <2>5 DEF Effect, Creates
  <1>6. CASE Switch
    <2>1. op.pc = "switch"
      BY <1>6 DEF Switch, At
    <2>2. mem \in Record /\ mem = record /\ Sound(mem) /\ mem.transition # None
          /\ mem.transition.candidate # None
          /\ mem.transition.candidate \notin revoked
      BY <2>1 DEF TypeInv, VolatileOK, Control, Managed, Ready, SafetyInv, CopyInv,
         DurableInv, StepInv
    <2>3. UNCHANGED <<issued, revoked>> /\ primary' = mem.transition.candidate
      BY <1>6 DEF Switch, server
    <2>4. record.transition.previous = primary \/ op.overtaken
      BY <2>1, <2>2 DEF SafetyInv, StepInv
    <2>5. record # None /\ Candidates(record) = {mem.transition.candidate}
      BY <2>2, NoneAssumption DEF Candidates, NoneAssumption
    <2>6. mem.transition.candidate \in Issued
      BY <2>2, <2>5 DEF Sound, NamesIssued
    <2>7. record.automatic \/ op.token = mem.transition.candidate
      BY <2>1, <2>2, <2>5 DEF Sound, OffCancels, SafetyInv, StepInv
    <2> QED
      BY <2>2, <2>3, <2>4, <2>5, <2>6, <2>7 DEF Effect, Installs, Issued
  <1>7. CASE (\E session \in BOOLEAN : StartRotate(session))
             \/ (\E user \in Users, pin \in Pins : StartEnroll(user, pin))
    BY <1>1, <1>7 DEF StartRotate, StartEnroll, EnterRotation, server, local
  <1>8. CASE Authenticate \/ Reauthenticate \/ Swept \/ Validate \/ Compare
    BY <1>1, <1>8 DEF Authenticate, Reauthenticate, Swept, Validate, Compare, server,
       local
  <1>9. CASE WriteRecord \/ WriteCache
    BY <1>1, <1>9 DEF WriteRecord, WriteCache, server
  <1> QED
    BY <1>2, <1>3, <1>4, <1>5, <1>6, <1>7, <1>8, <1>9 DEF Rotation

LEMMA StepEffect == ASSUME TypeInv, SafetyInv, [Next]_vars PROVE Effect
  <1>1. CASE UNCHANGED <<issued, revoked, primary>>
    BY <1>1 DEF Effect, Keeps
  <1>2. CASE Renewal
    BY <1>1, <1>2 DEF Renewal, StartRenew, RenewCannotStart, RecordFailure,
       SetAutomatic, server, local
  <1>3. CASE Store
    <2>1. op.token \in Imported \union {None}
      BY <1>3 DEF Store, At, SafetyInv, StepInv, TypeInv, VolatileOK, Operation, Maybe,
         Secrets
    <2> QED
      BY <1>3, <2>1 DEF Store, Effect, Provides, server
  <1>4. CASE Manual /\ ~Store
    BY <1>1, <1>4 DEF Manual, RenewToken, SaveProfile, RemoveProfile, StartManual,
       WriteHostKeys, WriteCatalog, Clear, ClearCache, server, local
  <1>5. ASSUME NEW t \in Imported, ReplaceOutside(t) PROVE Effect
    BY <1>5 DEF ReplaceOutside, Effect, Provides, server
  <1>6. CASE World /\ ~\E t \in Imported : ReplaceOutside(t)
    BY <1>1, <1>6 DEF World, CallFails, Crash, Tick, SynchronizeProfile, Lapse, Rename,
       server, local
  <1>7. CASE UNCHANGED vars
    BY <1>1, <1>7 DEF vars, server, local
  <1> QED
    BY <1>2, <1>3, <1>4, <1>5, <1>6, <1>7, RotationEffect DEF Next

(* ImportedNeverRevoked: every deletion is of a token of ours. *)
THEOREM ImportedSafe == Spec => []ImportedNeverRevoked
  <1>1. Init => ImportedNeverRevoked
    BY DEF Init, ImportedNeverRevoked
  <1>2. TypeInv /\ SafetyInv /\ ImportedNeverRevoked /\ [Next]_vars
        => ImportedNeverRevoked'
    BY StepEffect, ConstantsAssumption DEF Effect, Keeps, Provides, Installs, Creates,
       Deletes, Issued, ImportedNeverRevoked, ConstantsAssumption
  <1> QED
    BY <1>1, <1>2, TypeInvariant, Safety, PTL DEF Spec

(* UnexpectedPrimaryKept: a token of ours replaces only the credential its *)
(* journaled intent saw, unless it was edited outside after the look that  *)
(* precedes the write. *)
THEOREM Replacement == Spec => UnexpectedPrimaryKept
  <1>1. TypeInv /\ SafetyInv /\ [Next]_vars
        => [primary' \in Issuable /\ primary' # primary
            => /\ Candidates(record) = {primary'}
               /\ record.transition.previous = primary \/ op.overtaken]_vars
    BY StepEffect, ConstantsAssumption DEF Effect, Keeps, Provides, Installs, Creates,
       Deletes, ConstantsAssumption, Secrets
  <1> QED
    BY <1>1, TypeInvariant, Safety, PTL DEF Spec, UnexpectedPrimaryKept

(* DisabledMeansNoReplacement: with renewal off nothing is created, and no *)
(* token is installed but the one the operation found installed. *)
THEOREM Disabled == Spec => DisabledMeansNoReplacement
  <1>1. TypeInv /\ SafetyInv /\ [Next]_vars
        => [record # None /\ ~record.automatic
            => /\ issued' = issued
               /\ primary' # primary
                  => primary' \notin Issuable \/ primary' = op.token]_vars
    BY StepEffect, ConstantsAssumption DEF Effect, Keeps, Provides, Installs, Creates,
       Deletes, ConstantsAssumption, Secrets
  <1> QED
    BY <1>1, TypeInvariant, Safety, PTL DEF Spec, DisabledMeansNoReplacement

(* A step keeps the live tokens findable, or ends the management. *)
LEMMA RevokeOnlyKills ==
  ASSUME NEW auth, NEW t, Revoke(auth, t) PROVE Quiet /\ record' = record
  <1>1. revoked \subseteq revoked'
    BY DEF Revoke
  <1> QED
    BY <1>1 DEF Revoke, Quiet, local

LEMMA StepKeepsTokens ==
  ASSUME TypeInv, SafetyInv, [Next]_vars, NEW t \in Issuable,
         Live(t)', t \notin Accounted(record)'
  PROVE  (Live(t) /\ t \notin Accounted(record)) \/ record' = None
  <1>1. CASE WriteRecord
    <2>1. record' = mem /\ KeepsTokens(mem)
      BY <1>1 DEF WriteRecord, At, SafetyInv, CopyInv
    <2>2. UNCHANGED <<issued, revoked, lapsed>>
      BY <1>1 DEF WriteRecord, server
    <2>3. Live(t) /\ t \notin Accounted(mem)
      BY <2>1, <2>2 DEF Live, Accounted, Active, Retired, Candidates, Pending
    <2> QED
      BY <2>1, <2>3 DEF KeepsTokens
  <1>2. CASE Clear
    BY <1>2 DEF Clear
  <1>3. CASE Issue
    <2>1. mem \in Record /\ mem = record /\ mem.transition # None /\ mem # None
      BY <1>3, NoneAssumption DEF Issue, At, TypeInv, VolatileOK, Control, Managed,
         Ready, SafetyInv, CopyInv, NoneAssumption
    <2>2. PICK u \in Issuable :
            issued[u] = None /\ issued' = [issued EXCEPT ![u] = mem.transition.label]
      BY <1>3 DEF Issue
    <2>3. UNCHANGED <<revoked, lapsed, record>>
      BY <1>3 DEF Issue, local
    <2>4. issued \in [Issuable -> Maybe(Labels)]
      BY DEF TypeInv, DurableOK
    <2>5. t # u
      BY <2>1, <2>2, <2>3, <2>4 DEF Accounted, Pending
    <2>6. issued'[t] = issued[t]
      BY <2>2, <2>4, <2>5
    <2> QED
      BY <2>1, <2>3, <2>6 DEF Live, Accounted, Active, Retired, Candidates, Pending
  <1>4. CASE Quiet /\ record' = record
    <2>1. Live(t)
      BY <1>4, StaysDead DEF Secrets
    <2> QED
      BY <1>4, <2>1 DEF Quiet, Accounted, Active, Retired, Candidates, Pending
  <1>5. CASE record' = record /\ UNCHANGED <<issued, revoked, lapsed>>
    BY <1>5 DEF Live, Accounted, Active, Retired, Candidates, Pending
  <1>6. \/ Quiet /\ record' = record
        \/ record' = record /\ UNCHANGED <<issued, revoked, lapsed>>
        \/ WriteRecord \/ Clear \/ Issue
    <2>1. CASE Rotation
      <3>1. CASE DropCandidate \/ Withdraw \/ Discard \/ Sweep
        BY <3>1, RevokeOnlyKills DEF DropCandidate, Withdraw, Discard, Sweep
      <3>2. CASE Retire
        <4>1. \/ UNCHANGED <<world, server, local>>
              \/ \E r \in mem.retirements : Revoke(mem.active, r.id)
          BY <3>2 DEF Retire
        <4> QED
          BY <4>1, RevokeOnlyKills DEF server, local
      <3> QED
        BY <2>1, <3>1, <3>2 DEF Rotation, StartRotate, StartEnroll, EnterRotation,
           Authenticate, Reauthenticate, Swept, Validate, Compare, Switch, WriteCache,
           server, local
    <2>2. CASE Renewal
      BY <2>2 DEF Renewal, StartRenew, RenewCannotStart, RecordFailure, SetAutomatic,
         server, local
    <2>3. CASE Manual
      BY <2>3 DEF Manual, RenewToken, SaveProfile, RemoveProfile, StartManual, Store,
         WriteHostKeys, WriteCatalog, ClearCache, server, local
    <2>4. CASE World
      BY <2>4, ConstantsAssumption DEF World, CallFails, Crash, Tick,
         SynchronizeProfile, Lapse, Rename, ReplaceOutside, Quiet, server, local,
         ConstantsAssumption
    <2>5. CASE UNCHANGED vars
      BY <2>5 DEF vars, server, local
    <2> QED
      BY <2>1, <2>2, <2>3, <2>4, <2>5 DEF Next
  <1> QED
    BY <1>1, <1>2, <1>3, <1>4, <1>5, <1>6

(* NothingOrphaned: every live token of ours stays findable through the    *)
(* journal until a manual change ends the management. *)
THEOREM NoOrphans == Spec => NothingOrphaned
  <1>1. TypeInv /\ SafetyInv /\ [Next]_vars
        => [\A t \in Issuable :
              Live(t)' /\ t \notin Accounted(record)'
              => \/ Live(t) /\ t \notin Accounted(record)
                 \/ record' = None]_vars
    BY StepKeepsTokens
  <1> QED
    BY <1>1, TypeInvariant, Safety, PTL DEF Spec, NothingOrphaned

(* ContractSpec: while the server identity is not renamed, the lifecycle   *)
(* implements CredentialContract. *)
THEOREM Implementation ==
  ASSUME SingleIdentity
  PROVE  Spec => ContractSpec
  <1>1. Init => Contract!CInit
    BY DEF Init, Contract!CInit
  <1>2. TypeInv /\ SafetyInv /\ [Next]_vars => [Contract!CNext]_(Contract!cvars)
    <2>1. ASSUME TypeInv, SafetyInv, [Next]_vars PROVE [Contract!CNext]_(Contract!cvars)
      <3>1. Effect
        BY <2>1, StepEffect
      <3>2. CASE Keeps
        BY <3>2 DEF Keeps, Contract!cvars
      <3>3. CASE Provides
        BY <3>3 DEF Provides, Contract!CNext, Contract!Provide
      <3>4. ASSUME NEW t \in Issuable, Installs(t) PROVE Contract!CNext
        BY <3>4 DEF Installs, Issued, Contract!CNext, Contract!Adopt
      <3>5. ASSUME NEW t \in Issuable, Creates(t) PROVE Contract!CNext
        BY <3>5 DEF Creates, Issued, Contract!CNext, Contract!Create
      <3>6. ASSUME NEW t \in Issuable, Deletes(t) PROVE Contract!CNext
        BY <3>6 DEF Deletes, Issued, Contract!CNext, Contract!Delete
      <3> QED
        BY <3>1, <3>2, <3>3, <3>4, <3>5, <3>6 DEF Effect
    <2> QED
      BY <2>1
  <1> QED
    BY <1>1, <1>2, TypeInvariant, Safety, PTL DEF Spec, ContractSpec, Contract!CSpec

=============================================================================
