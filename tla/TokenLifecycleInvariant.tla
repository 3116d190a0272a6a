---------------------- MODULE TokenLifecycleInvariant ----------------------
(***************************************************************************)
(* The inductive invariant behind the safety properties of TokenLifecycle. *)
(* A record is sound when the journal may hold it; the control part says   *)
(* what the running operation knows at each of its steps.                  *)
(***************************************************************************)
EXTENDS TokenLifecycle

Issued == {t \in Issuable : issued[t] # None}

(* The tokens a record names exist. *)
NamesIssued(r) == Active(r) \union Candidates(r) \union Retired(r) \subseteq Issued

(* RetiredNotInUse and JournaledBeforeInstalled, of any record *)
RetiredApart(r) ==
  Retired(r) \intersect ({primary} \union Active(r) \union Candidates(r)) = {}
PrimaryNamed(r) ==
  primary \in Issuable /\ Live(primary) => primary \in Active(r) \union Candidates(r)

(* The label of a transition marks its tokens and no others. *)
LabelOwned(r) ==
  r # None /\ r.transition # None =>
    /\ r.active # None => issued[r.active] # r.transition.label
    /\ r.transition.candidate # None =>
         \A t \in Issuable :
           Live(t) /\ issued[t] = r.transition.label => t = r.transition.candidate

(* Switching renewal off cancels what is pending. *)
OffCancels(r) ==
  r # None /\ r.transition # None /\ ~r.automatic => r.transition.cancelled

Sound(r) ==
  NamesIssued(r) /\ RetiredApart(r) /\ PrimaryNamed(r) /\ LabelOwned(r) /\ OffCancels(r)

(* No live token is lost when the record replaces the journal. *)
KeepsTokens(r) == \A t \in Accounted(record) : Live(t) => t \in Accounted(r)

DurableInv ==
  /\ primary \in Issuable => primary \in Issued
  /\ Sound(record)

(* Where the operation's copy agrees with the journal *)
CopyInv ==
  /\ op.pc \in {"reauth", "drop", "sweep", "issue", "withdraw", "validate",
                "discard", "compare", "switch", "retire", "cache"} => mem = record
  /\ op.pc \in {"hostKeys", "catalog"} /\ mem # None => mem = record
  /\ op.pc = "auth" =>
       \/ mem = record
       \/ record = None /\ mem.active = None /\ mem.retirements = {}
  /\ op.pc = "record" => Sound(mem) /\ KeepsTokens(mem)

(* What the steps established *)
StepInv ==
  /\ op.pc \in {"record", "cache"} /\ op.next \in {"sweep", "validate"}
       => ~mem.transition.cancelled
  /\ op.pc = "store" => op.token \notin Issuable
  /\ op.pc \in {"hostKeys", "catalog"} =>
       \/ primary \notin Issuable
       \/ mem # None /\ primary = mem.transition.candidate
  /\ op.pc = "clear" => ~(primary \in Issuable /\ Live(primary))
  /\ op.pc = "drop" => ~Live(mem.transition.candidate)
  /\ op.pc = "withdraw" => primary # mem.transition.candidate
  /\ op.pc = "issue" => ~mem.transition.cancelled /\ Orphans = {}
  /\ op.pc \in {"compare", "switch"} => mem.transition.candidate \notin revoked
  /\ op.pc = "switch" /\ ~op.overtaken => primary = mem.transition.previous
  /\ op.pc \in {"validate", "discard", "compare", "switch"} /\ mem.transition.cancelled
       => op.token = mem.transition.candidate
  /\ op.pc = "discard" /\ (\A u, v \in Users : u = v)
       => ~Live(mem.transition.candidate)

SafetyInv == DurableInv /\ CopyInv /\ StepInv
=============================================================================
