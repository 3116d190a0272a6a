-------------------------- MODULE AgentLoopProofs --------------------------
(***************************************************************************)
(* The safety of AgentLoop, proved for every number of clients, every      *)
(* limit, schedule and backoff, and without its bounds mattering.          *)
(***************************************************************************)
EXTENDS AgentLoop, FiniteSetTheorems, SequenceTheorems, TLAPS

(* A client has at most one request in the queue, and none while a thread  *)
(* works for it; so that an accepted credential request takes a new place. *)
QueueInv ==
  /\ \A i, j \in DOMAIN queue : queue[i].from = queue[j].from => i = j
  /\ \A i \in DOMAIN queue : worker[queue[i].from] = "none"

(* Between a change and its publication there is always a request, a       *)
(* synchronization that has yet to read the files or has read them since,  *)
(* or a failure; a timer that has run out counts only until the loop looks *)
(* at it.                                                                  *)
PublicationInv ==
  /\ saved.loop <= version /\ published <= version
  /\ sync.pc = "read" => published <= sync.read /\ sync.read <= version
  /\ sync.ok => sync.pc = "done"
  /\ \/ published >= saved.loop
     \/ resync
     \/ sync.pc = "none" /\ failures > 0
     \/ sync.pc = "none" /\ timer = 0 /\ loop \in {"check", "spawn", "dead"}
     \/ sync.pc \in {"renew", "renewing", "open"}
     \/ sync.pc = "read" /\ sync.read >= saved.loop
     \/ sync.pc = "done" /\ ~sync.ok

(* A token that is due waits while nothing else goes on; the look at the   *)
(* tokens comes closer by one with each sleep, and once it has taken place *)
(* the next station of the loop starts the synchronization.                *)
Approaching == waiting + check <= CheckEvery + 1
RenewalInv ==
  /\ check <= CheckEvery
  /\ waiting > 0 =>
       /\ due /\ sync.pc = "none" /\ failures = 0 /\ waiting <= CheckEvery + 1
       /\ loop # "dead"
       /\ loop = "check" => resync \/ Approaching
       /\ loop = "spawn" => resync \/ (check > 0 /\ Approaching)
       /\ loop \in {"reap", "accept", "apply"} => check > 0 /\ Approaching

(* A dead agent has forgotten its schedule, so that the preferences it is  *)
(* started with may be any.                                                *)
DeadInv == loop = "dead" => timer = 0 /\ failures = 0

AgentInv ==
  /\ TypeOK /\ QueueInv /\ PlacesExact /\ LockOwned
  /\ PublicationInv /\ DeadInv /\ AttemptInTime /\ RenewalInv

-----------------------------------------------------------------------------
(* The operators *)

LEMMA MinOfTwo ==
  ASSUME NEW m \in Int, NEW n \in Int
  PROVE  /\ Min({m, n}) \in {m, n} /\ Min({m, n}) <= m /\ Min({m, n}) <= n
  <1>1. \E x \in {m, n} : \A y \in {m, n} : x <= y
    OBVIOUS
  <1> QED
    BY <1>1 DEF Min

LEMMA MaxOfTwo ==
  ASSUME NEW m \in Int, NEW n \in Int
  PROVE  /\ Max({m, n}) \in {m, n} /\ Max({m, n}) >= m /\ Max({m, n}) >= n
  <1>1. \E x \in {m, n} : \A y \in {m, n} : x >= y
    OBVIOUS
  <1> QED
    BY <1>1 DEF Max

LEMMA MaxOfInterval ==
  ASSUME NEW m \in Int, NEW n \in Int, m <= n
  PROVE  Max(m .. n) = n
  <1>1. n \in m .. n /\ \A y \in m .. n : n >= y
    OBVIOUS
  <1>2. \A x \in m .. n : x >= n => x = n
    OBVIOUS
  <1> QED
    BY <1>1, <1>2 DEF Max

(* A set of n elements has 2^n subsets, which is a natural number. *)
LEMMA PowerOfTwo ==
  ASSUME NEW n \in Nat
  PROVE  2 ^ n \in Nat
  <1>1. IsFiniteSet(1 .. n) /\ Cardinality(1 .. n) = n
    BY FS_Interval
  <1>2. IsFiniteSet(SUBSET (1 .. n)) /\ Cardinality(SUBSET (1 .. n)) = 2 ^ n
    BY <1>1, FS_SUBSET
  <1> QED
    BY <1>2, FS_CardinalityType

LEMMA Constants ==
  /\ Limit \in Nat \ {0} /\ CountLimit \in Nat \ {0}
  /\ Intervals \subseteq Nat \ {0}
  /\ Jitter \in Nat /\ InitialBackoff \in Nat /\ MaximumBackoff \in Nat
  /\ CheckEvery \in Nat
  BY AgentAssumption DEF AgentAssumption

LEMMA Apart ==
  /\ "free" \notin Clients /\ "loop" \notin Clients
  /\ "sync" \notin Clients /\ "other" \notin Clients
  BY AgentAssumption DEF AgentAssumption

LEMMA RetryDelayTyped ==
  ASSUME NEW n \in Nat
  PROVE  RetryDelay(n) \in Nat
  <1>1. CASE n = 0
    BY <1>1 DEF RetryDelay
  <1>2. CASE n # 0
    <2> DEFINE e == Min({n - 1, 31})
    <2>1. e \in Nat
      BY <1>2, MinOfTwo
    <2>2. 2 ^ e \in Nat
      BY <2>1, PowerOfTwo
    <2> HIDE DEF e
    <2>3. InitialBackoff * 2 ^ e \in Nat
      BY <2>2, Constants
    <2>4. ASSUME NEW x \in Nat PROVE Min({MaximumBackoff, x}) \in Nat
      <3>1. MaximumBackoff \in Int /\ MaximumBackoff \in Nat /\ x \in Int
        BY Constants
      <3>2. Min({MaximumBackoff, x}) \in {MaximumBackoff, x}
        BY <3>1, MinOfTwo
      <3> QED
        BY <3>1, <3>2
    <2> QED
      BY <1>2, <2>3, <2>4 DEF RetryDelay, e
  <1> QED
    BY <1>1, <1>2

LEMMA PeriodTyped ==
  ASSUME NEW i \in Nat
  PROVE  /\ PeriodicDelays(i) \subseteq Nat
         /\ Max(PeriodicDelays(i)) \in Nat /\ Max(PeriodicDelays(i)) >= i
         /\ \A d \in PeriodicDelays(i) : d <= Max(PeriodicDelays(i))
  <1> DEFINE lower == IF i < Jitter THEN 0 ELSE i - Jitter
  <1>1. lower \in Nat /\ lower + 2 * Jitter \in Nat /\ lower + 2 * Jitter >= i
        /\ lower <= lower + 2 * Jitter
    BY Constants
  <1> HIDE DEF lower
  <1>2. Max(lower .. lower + 2 * Jitter) = lower + 2 * Jitter
    BY <1>1, MaxOfInterval
  <1>3. PeriodicDelays(i) = lower .. lower + 2 * Jitter
    BY DEF PeriodicDelays, lower
  <1> QED
    BY <1>1, <1>2, <1>3

LEMMA OneMoreTyped ==
  ASSUME NEW n \in Nat
  PROVE  OneMore(n) \in Nat /\ OneMore(n) > 0
  <1>1. n + 1 \in Int /\ n + 1 > 0 /\ CountLimit \in Int /\ CountLimit > 0
    BY Constants
  <1>2. Min({n + 1, CountLimit}) \in {n + 1, CountLimit}
    BY <1>1, MinOfTwo
  <1> QED
    BY <1>1, <1>2 DEF OneMore

LEMMA AnswersTyped ==
  ASSUME answer \in [Clients -> {"none", "ok", "error", "lost"}],
         NEW c, NEW text \in {"ok", "error"}, Answers(c, text)
  PROVE  answer' \in [Clients -> {"none", "ok", "error", "lost"}]
  BY DEF Answers

LEMMA SpendTyped ==
  ASSUME budget \in [{"failures", "events"} -> Nat],
         NEW kind \in {"failures", "events"}, NEW bound, Spend(kind, bound)
  PROVE  budget' \in [{"failures", "events"} -> Nat]
  BY DEF Spend

(* An accepted request is one of a client; the rest of the queue moves up. *)
LEMMA AcceptTakes ==
  ASSUME TypeOK, NEW kind, Accept(kind)
  PROVE  /\ Caller \in Clients /\ queue' \in Seq(Request)
         /\ Len(queue) \in Nat \ {0} /\ DOMAIN queue = 1 .. Len(queue)
         /\ Caller = queue[1].from
         /\ DOMAIN queue' = 1 .. Len(queue) - 1
         /\ \A i \in DOMAIN queue' : queue'[i] = queue[i + 1]
  <1>1. queue \in Seq(Request) /\ queue # <<>> /\ queue' = Tail(queue)
    BY DEF TypeOK, Accept
  <1>2. Head(queue) \in Request /\ Head(queue) = queue[1]
        /\ Len(queue) \in Nat \ {0} /\ DOMAIN queue = 1 .. Len(queue)
    BY <1>1, HeadTailProperties, EmptySeq, LenProperties
  <1>3. Tail(queue) \in Seq(Request) /\ Len(Tail(queue)) = Len(queue) - 1
        /\ \A i \in 1 .. Len(Tail(queue)) : Tail(queue)[i] = queue[i + 1]
    BY <1>1, HeadTailProperties
  <1>4. DOMAIN queue' = 1 .. Len(queue) - 1
    BY <1>1, <1>3, LenProperties
  <1> QED
    BY <1>1, <1>2, <1>3, <1>4 DEF Caller, Request

(* A request that arrives is the last one. *)
LEMMA AppendPuts ==
  ASSUME queue \in Seq(Request), NEW r \in Request, queue' = Append(queue, r)
  PROVE  /\ queue' \in Seq(Request) /\ Len(queue) \in Nat
         /\ DOMAIN queue = 1 .. Len(queue)
         /\ DOMAIN queue' = 1 .. Len(queue) + 1
         /\ \A i \in DOMAIN queue : queue'[i] = queue[i]
         /\ queue'[Len(queue) + 1] = r
  <1>1. /\ queue' \in Seq(Request) /\ Len(queue') = Len(queue) + 1
        /\ \A i \in 1 .. Len(queue) : queue'[i] = queue[i]
        /\ queue'[Len(queue) + 1] = r
    BY AppendProperties
  <1> QED
    BY <1>1, LenProperties

-----------------------------------------------------------------------------
(* Types *)

(* A counted client takes a place. *)
LEMMA CountedFinite ==
  /\ IsFiniteSet(Counted) /\ Cardinality(Counted) \in Nat
  /\ \A c \in Counted : Cardinality(Counted) > 0
  <1>1. Counted \subseteq Clients /\ IsFiniteSet(Clients)
    BY AgentAssumption DEF AgentAssumption, Counted
  <1>2. IsFiniteSet(Counted) /\ Cardinality(Counted) \in Nat
    BY <1>1, FS_Subset, FS_CardinalityType
  <1> QED
    BY <1>2, FS_EmptySet

(* A thread goes on. *)
LEMMA ThreadStep ==
  /\ Idle \in Thread /\ [pc |-> "renew", read |-> 0, ok |-> FALSE] \in Thread
  /\ \A v \in Nat : [pc |-> "read", read |-> v, ok |-> FALSE] \in Thread
  /\ \A t \in Thread, ok \in BOOLEAN :
       /\ [t EXCEPT !.pc = "renewing"] \in Thread
       /\ [t EXCEPT !.pc = "open"] \in Thread
       /\ [t EXCEPT !.pc = "done"] \in Thread
       /\ [t EXCEPT !.pc = "done", !.ok = ok] \in Thread
  BY DEF Thread, Idle

LEMMA InitTyped == Init => TypeOK
  <1> SUFFICES ASSUME Init PROVE TypeOK
    OBVIOUS
  <1>1. queue \in Seq(Request) /\ sync \in Thread
    BY EmptySeq, ThreadStep DEF Init
  <1>2. /\ timer \in Nat /\ check \in Nat /\ waiting \in Nat
        /\ failures \in Nat /\ active \in Nat
        /\ version \in Nat /\ published \in Nat
        /\ saved \in [loop: Nat, worker: Nat]
    BY DEF Init
  <1>3. /\ worker \in [Clients -> {"none", "start", "busy", "saved", "failed", "notify"}]
        /\ answer \in [Clients -> {"none", "ok", "error", "lost"}]
        /\ budget \in [{"failures", "events"} -> Nat]
    BY DEF Init
  <1> QED
    BY <1>1, <1>2, <1>3 DEF Init, TypeOK

LEMMA LoopTyped == TypeOK /\ LoopStep => TypeOK'
  <1> SUFFICES ASSUME TypeOK, LoopStep PROVE TypeOK'
    OBVIOUS
  <1> USE Constants DEF vars, loopVars, fileVars, otherVars
  <1>1. CASE CheckTokens
    BY <1>1 DEF CheckTokens, TypeOK
  <1>2. CASE Spawn
    <2>1. sync' = sync \/ sync' = [pc |-> "renew", read |-> 0, ok |-> FALSE]
      BY <1>2 DEF Spawn, StartSync
    <2>2. sync' \in Thread
      BY <2>1, ThreadStep DEF TypeOK
    <2>3. waiting' \in Nat
      <3>1. waiting' = waiting \/ waiting' = 0
        BY <1>2 DEF Spawn, StartSync
      <3> QED
        BY <3>1 DEF TypeOK
    <2>4. resync' \in BOOLEAN
      BY <1>2, Zenon DEF Spawn, TypeOK
    <2> QED
      BY <1>2, <2>2, <2>3, <2>4 DEF Spawn, TypeOK
  <1>3. CASE Reap
    <2>1. /\ stored \in Nat /\ PeriodicDelays(stored) \subseteq Nat
          /\ OneMore(failures) \in Nat /\ RetryDelay(OneMore(failures)) \in Nat
      BY PeriodTyped, OneMoreTyped, RetryDelayTyped DEF TypeOK
    <2>2. sync' \in Thread /\ interval' \in Intervals
      BY <1>3, ThreadStep DEF Reap, TypeOK
    <2>3. failures' \in Nat /\ timer' \in Nat
      BY <1>3, <2>1 DEF Reap, TypeOK
    <2> QED
      BY <1>3, <2>2, <2>3 DEF Reap, TypeOK
  <1>4. CASE Sleep
    <2>1. Less(timer) \in Nat /\ Less(check) \in Nat /\ Aged(due) \in Nat
      BY DEF Less, Aged, TypeOK
    <2> QED
      BY <1>4, <2>1 DEF Sleep, TypeOK
  <1>5. CASE AcceptCredential
    <2>1. queue' \in Seq(Request) /\ Caller \in Clients
      BY <1>5, AcceptTakes DEF AcceptCredential
    <2>2. answer' \in [Clients -> {"none", "ok", "error", "lost"}]
      BY <1>5, AnswersTyped DEF AcceptCredential, TypeOK
    <2> QED
      BY <1>5, <2>1, <2>2 DEF AcceptCredential, TypeOK
  <1>6. CASE AcceptSync
    <2>1. queue' \in Seq(Request)
      BY <1>6, AcceptTakes DEF AcceptSync
    <2>2. answer' \in [Clients -> {"none", "ok", "error", "lost"}]
      BY <1>6, AnswersTyped DEF AcceptSync, TypeOK
    <2>3. sync' = sync \/ sync' = [pc |-> "renew", read |-> 0, ok |-> FALSE]
      BY <1>6 DEF AcceptSync, StartSync
    <2>4. sync' \in Thread
      BY <2>3, ThreadStep DEF TypeOK
    <2>5. waiting' \in Nat
      BY <1>6 DEF AcceptSync, StartSync, TypeOK
    <2> QED
      BY <1>6, <2>1, <2>2, <2>4, <2>5 DEF AcceptSync, TypeOK
  <1>7. CASE AcceptReload
    <2>1. queue' \in Seq(Request)
      BY <1>7, AcceptTakes DEF AcceptReload
    <2>2. answer' \in [Clients -> {"none", "ok", "error", "lost"}]
      BY <1>7, AnswersTyped DEF AcceptReload, TypeOK
    <2> QED
      BY <1>7, <2>1, <2>2 DEF AcceptReload, TypeOK
  <1>8. CASE AcceptSave
    <2>1. queue' \in Seq(Request) /\ Caller \in Clients
      BY <1>8, AcceptTakes DEF AcceptSave
    <2>2. answer' \in [Clients -> {"none", "ok", "error", "lost"}]
      BY <1>8, AnswersTyped DEF AcceptSave, TypeOK
    <2> QED
      BY <1>8, <2>1, <2>2 DEF AcceptSave, TypeOK
  <1>9. CASE Apply
    <2>1. answer' \in [Clients -> {"none", "ok", "error", "lost"}]
      BY <1>9, AnswersTyped DEF Apply, TypeOK
    <2>2. version' \in Nat
      <3>1. version' = version + 1
        BY <1>9 DEF Apply
      <3> QED
        BY <3>1 DEF TypeOK
    <2>3. saved' \in [loop: Nat, worker: Nat]
      BY <1>9, <2>2 DEF Apply, TypeOK
    <2> QED
      BY <1>9, <2>1, <2>2, <2>3 DEF Apply, TypeOK
  <1> QED
    BY <1>1, <1>2, <1>3, <1>4, <1>5, <1>6, <1>7, <1>8, <1>9 DEF LoopStep

LEMMA ThreadTyped ==
  ASSUME TypeOK, PlacesExact,
         \/ SyncStep \/ SyncFails
         \/ \E c \in Clients : CredentialStep(c) \/ CredentialFails(c)
  PROVE  TypeOK'
  <1> USE DEF vars, loopVars, fileVars, otherVars
  <1>1. CASE Renew
    <2>1. sync' \in Thread /\ due' \in BOOLEAN
      BY <1>1, ThreadStep DEF Renew, TypeOK
    <2> QED
      BY <1>1, <2>1 DEF Renew, TypeOK
  <1>2. CASE Renewed
    BY <1>2, ThreadStep DEF Renewed, TypeOK
  <1>3. CASE Open
    <2>1. sync' \in Thread
      BY <1>3, ThreadStep DEF Open, TypeOK
    <2> QED
      BY <1>3, <2>1 DEF Open, TypeOK
  <1>4. CASE Publish
    <2>1. sync' \in Thread /\ published' \in Nat
      BY <1>4, ThreadStep DEF Publish, TypeOK, Thread
    <2> QED
      BY <1>4, <2>1 DEF Publish, TypeOK
  <1>5. CASE SyncFails
    <2>1. budget' \in [{"failures", "events"} -> Nat]
      BY <1>5, SpendTyped DEF SyncFails, TypeOK
    <2>2. sync' \in Thread
      BY <1>5, ThreadStep DEF SyncFails, TypeOK
    <2> QED
      BY <1>5, <2>1, <2>2 DEF SyncFails, TypeOK
  <1>6. ASSUME NEW c \in Clients, CredentialStep(c) PROVE TypeOK'
    <2>1. WorkerStep(c) /\ UNCHANGED <<loopVars, sync, stored, published, due, otherVars>>
      BY <1>6 DEF CredentialStep
    <2>2. worker' \in [Clients -> {"none", "start", "busy", "saved", "failed", "notify"}]
          /\ lock' \in {"free", "loop", "sync", "other"} \union Clients
      BY <2>1 DEF WorkerStep, TypeOK
    <2>3. answer' \in [Clients -> {"none", "ok", "error", "lost"}]
      BY <2>1, AnswersTyped DEF WorkerStep, TypeOK
    <2>4. queue' \in Seq(Request)
      <3>1. [kind |-> "sync", from |-> c] \in Request
        BY DEF Request, Kinds
      <3> QED
        BY <2>1, <3>1, AppendPuts DEF WorkerStep, TypeOK
    <2>5. version' \in Nat /\ saved' \in [loop: Nat, worker: Nat]
      BY <2>1 DEF WorkerStep, TypeOK
    <2>6. active' \in Nat
      <3>1. worker[c] \in {"failed", "saved"} => active > 0
        BY CountedFinite DEF Counted, PlacesExact, TypeOK
      <3> QED
        BY <2>1, <3>1 DEF WorkerStep, TypeOK
    <2> QED
      BY <2>1, <2>2, <2>3, <2>4, <2>5, <2>6 DEF TypeOK
  <1>7. ASSUME NEW c \in Clients, CredentialFails(c) PROVE TypeOK'
    <2>1. budget' \in [{"failures", "events"} -> Nat]
      BY <1>7, SpendTyped DEF CredentialFails, TypeOK
    <2> QED
      BY <1>7, <2>1 DEF CredentialFails, TypeOK
  <1> QED
    BY <1>1, <1>2, <1>3, <1>4, <1>5, <1>6, <1>7 DEF SyncStep

LEMMA WorldTyped ==
  ASSUME TypeOK,
         \/ ApplyFails \/ TokenDue \/ OtherLocks \/ OtherUnlocks \/ Die \/ Restart
         \/ \E c \in Clients, kind \in Kinds : Send(c, kind)
  PROVE  TypeOK'
  <1> USE DEF vars, loopVars, fileVars, otherVars
  <1>1. CASE ApplyFails
    <2>1. answer' \in [Clients -> {"none", "ok", "error", "lost"}]
      BY <1>1, AnswersTyped DEF ApplyFails, TypeOK
    <2>2. budget' \in [{"failures", "events"} -> Nat]
      BY <1>1, SpendTyped DEF ApplyFails, TypeOK
    <2> QED
      BY <1>1, <2>1, <2>2 DEF ApplyFails, TypeOK
  <1>2. CASE TokenDue
    <2>1. budget' \in [{"failures", "events"} -> Nat]
      BY <1>2, SpendTyped DEF TokenDue, TypeOK
    <2> QED
      BY <1>2, <2>1 DEF TokenDue, TypeOK
  <1>3. CASE OtherLocks
    <2>1. budget' \in [{"failures", "events"} -> Nat]
      BY <1>3, SpendTyped DEF OtherLocks, TypeOK
    <2> QED
      BY <1>3, <2>1 DEF OtherLocks, TypeOK
  <1>4. CASE OtherUnlocks
    BY <1>4 DEF OtherUnlocks, TypeOK
  <1>5. CASE Die
    <2>1. budget' \in [{"failures", "events"} -> Nat]
      BY <1>5, SpendTyped DEF Die, TypeOK
    <2>2. queue' \in Seq(Request) /\ sync' \in Thread
      BY <1>5, EmptySeq, ThreadStep DEF Die
    <2>3. /\ worker' \in [Clients -> {"none", "start", "busy", "saved", "failed", "notify"}]
          /\ answer' \in [Clients -> {"none", "ok", "error", "lost"}]
      BY <1>5 DEF Die, TypeOK
    <2> QED
      BY <1>5, <2>1, <2>2, <2>3 DEF Die, TypeOK
  <1>6. CASE Restart
    BY <1>6 DEF Restart, TypeOK
  <1>7. ASSUME NEW c \in Clients, NEW kind \in Kinds, Send(c, kind) PROVE TypeOK'
    <2>1. queue' \in Seq(Request)
      BY <1>7, AppendPuts DEF Send, TypeOK, Request
    <2> QED
      BY <1>7, <2>1 DEF Send, TypeOK
  <1> QED
    BY <1>1, <1>2, <1>3, <1>4, <1>5, <1>6, <1>7

LEMMA TypesKept == TypeOK /\ PlacesExact /\ [Next]_vars => TypeOK'
  <1> SUFFICES ASSUME TypeOK, PlacesExact, [Next]_vars PROVE TypeOK'
    OBVIOUS
  <1>1. CASE UNCHANGED vars
    BY <1>1 DEF vars, loopVars, fileVars, otherVars, TypeOK
  <1> QED
    BY <1>1, LoopTyped, ThreadTyped, WorldTyped DEF Next

-----------------------------------------------------------------------------
(* The queue and the places *)

(* What a step may do to the queue and the credential threads. *)
LEMMA ThreadsMove ==
  ASSUME TypeOK, [Next]_vars
  PROVE  \/ UNCHANGED <<queue, worker, active>>
         \/ AcceptCredential
         \/ /\ UNCHANGED <<worker, active>>
            /\ AcceptSync \/ AcceptReload \/ AcceptSave
         \/ \E c \in Clients : WorkerStep(c) \/ CredentialFails(c)
         \/ /\ UNCHANGED <<worker, active>>
            /\ \E c \in Clients, kind \in Kinds : Send(c, kind)
         \/ Die
  <1>1. CASE LoopStep
    BY <1>1 DEF LoopStep, CheckTokens, Spawn, Reap, Sleep, AcceptSync, AcceptReload,
       AcceptSave, Apply
  <1>2. CASE ApplyFails
    BY <1>2 DEF ApplyFails
  <1>3. CASE SyncStep \/ SyncFails
    BY <1>3 DEF SyncStep, Renew, Renewed, Open, Publish, SyncFails
  <1>4. CASE TokenDue \/ OtherLocks \/ OtherUnlocks \/ Restart
    BY <1>4 DEF TokenDue, OtherLocks, OtherUnlocks, Restart
  <1>5. ASSUME NEW c \in Clients,
               CredentialStep(c) \/ CredentialFails(c) \/ \E kind \in Kinds : Send(c, kind)
        PROVE  \/ \E d \in Clients : WorkerStep(d) \/ CredentialFails(d)
               \/ /\ UNCHANGED <<worker, active>>
                  /\ \E d \in Clients, kind \in Kinds : Send(d, kind)
    BY <1>5 DEF CredentialStep, Send
  <1>6. CASE UNCHANGED vars
    BY <1>6 DEF vars, loopVars
  <1> QED
    BY <1>1, <1>2, <1>3, <1>4, <1>5, <1>6 DEF Next

LEMMA Askers ==
  ASSUME NEW q \in Seq(Request)
  PROVE  \A i \in DOMAIN q : q[i].from \in Clients
  <1> SUFFICES ASSUME NEW i \in DOMAIN q PROVE q[i].from \in Clients
    OBVIOUS
  <1>1. i \in 1 .. Len(q)
    BY LenProperties
  <1>2. q[i] \in Request
    BY <1>1, ElementOfSeq
  <1> QED
    BY <1>2 DEF Request

(* Taking the first request leaves the rest as it was. *)
LEMMA QueueShrinks ==
  ASSUME TypeOK, QueueInv, NEW kind, Accept(kind)
  PROVE  /\ \A i, j \in DOMAIN queue' : queue'[i].from = queue'[j].from => i = j
         /\ \A i \in DOMAIN queue' :
              queue'[i].from # Caller /\ worker[queue'[i].from] = "none"
         /\ worker[Caller] = "none"
  <1>1. /\ Len(queue) \in Nat \ {0} /\ DOMAIN queue = 1 .. Len(queue)
        /\ Caller = queue[1].from
        /\ DOMAIN queue' = 1 .. Len(queue) - 1
        /\ \A i \in DOMAIN queue' : queue'[i] = queue[i + 1]
    BY AcceptTakes
  <1>2. \A i \in DOMAIN queue' : i \in Nat /\ i + 1 \in DOMAIN queue /\ i + 1 # 1
    BY <1>1
  <1>3. 1 \in DOMAIN queue
    BY <1>1
  <1>4. \A i, j \in DOMAIN queue' : i + 1 = j + 1 => i = j
    BY <1>2
  <1> QED
    BY <1>1, <1>2, <1>3, <1>4 DEF QueueInv

(* So does a request that comes in, of a client that had none. *)
LEMMA QueueGrows ==
  ASSUME TypeOK, QueueInv, NEW r \in Request, queue' = Append(queue, r),
         \A i \in DOMAIN queue : queue[i].from # r.from
  PROVE  /\ \A i, j \in DOMAIN queue' : queue'[i].from = queue'[j].from => i = j
         /\ \A i \in DOMAIN queue' : i \in DOMAIN queue \/ queue'[i] = r
         /\ \A i \in DOMAIN queue : queue'[i] = queue[i]
  <1>1. /\ Len(queue) \in Nat /\ DOMAIN queue = 1 .. Len(queue)
        /\ DOMAIN queue' = 1 .. Len(queue) + 1
        /\ \A i \in DOMAIN queue : queue'[i] = queue[i]
        /\ queue'[Len(queue) + 1] = r
    BY AppendPuts DEF TypeOK
  <1>2. \A i \in DOMAIN queue' : i \in DOMAIN queue \/ i = Len(queue) + 1
    BY <1>1
  <1> QED
    BY <1>1, <1>2 DEF QueueInv

LEMMA QueueKept ==
  ASSUME TypeOK, QueueInv, [Next]_vars
  PROVE  QueueInv'
  <1>1. CASE UNCHANGED <<queue, worker, active>>
    BY <1>1 DEF QueueInv
  <1>2. CASE AcceptCredential
    <2>1. Accept("credential")
          /\ \A c \in Clients : c # Caller => worker'[c] = worker[c]
      BY <1>2 DEF AcceptCredential, TypeOK
    <2>2. \A i \in DOMAIN queue' : queue'[i].from \in Clients
      <3>1. queue' \in Seq(Request)
        BY <2>1, AcceptTakes
      <3> QED
        BY <3>1, Askers
    <2> QED
      BY <2>1, <2>2, QueueShrinks DEF QueueInv
  <1>3. CASE UNCHANGED <<worker, active>> /\ (AcceptSync \/ AcceptReload \/ AcceptSave)
    <2>1. \E kind \in Kinds : Accept(kind)
      BY <1>3 DEF AcceptSync, AcceptReload, AcceptSave, Kinds
    <2> QED
      BY <1>3, <2>1, QueueShrinks DEF QueueInv
  <1>4. ASSUME NEW c \in Clients, WorkerStep(c) PROVE QueueInv'
    <2>1. worker[c] # "none" /\ \A i \in DOMAIN queue : queue[i].from # c
      BY <1>4 DEF WorkerStep, QueueInv
    <2>2. \A d \in Clients : d # c => worker'[d] = worker[d]
      BY <1>4 DEF WorkerStep, TypeOK
    <2>3. \A i \in DOMAIN queue : queue[i].from \in Clients
      BY Askers DEF TypeOK
    <2>4. CASE UNCHANGED queue
      BY <2>1, <2>2, <2>3, <2>4 DEF QueueInv
    <2>5. CASE queue' # queue
      <3> DEFINE r == [kind |-> "sync", from |-> c]
      <3>1. queue' = Append(queue, r) /\ worker' = [worker EXCEPT ![c] = "none"]
        BY <1>4, <2>5 DEF WorkerStep
      <3>2. r \in Request /\ r.from = c
        BY DEF Request, Kinds
      <3>3. worker'[c] = "none"
        BY <3>1 DEF TypeOK
      <3> HIDE DEF r
      <3> QED
        BY <2>1, <2>2, <2>3, <3>1, <3>2, <3>3, QueueGrows DEF QueueInv
    <2> QED
      BY <2>4, <2>5
  <1>5. ASSUME NEW c \in Clients, CredentialFails(c) PROVE QueueInv'
    <2>1. /\ worker[c] = "busy" /\ UNCHANGED queue
          /\ \A d \in Clients : d # c => worker'[d] = worker[d]
      BY <1>5 DEF CredentialFails, TypeOK
    <2>2. \A i \in DOMAIN queue : queue[i].from \in Clients
      BY Askers DEF TypeOK
    <2> QED
      BY <2>1, <2>2 DEF QueueInv
  <1>6. ASSUME NEW c \in Clients, NEW kind \in Kinds, Send(c, kind),
               UNCHANGED <<worker, active>>
        PROVE  QueueInv'
    <2> DEFINE r == [kind |-> kind, from |-> c]
    <2>1. /\ queue' = Append(queue, r) /\ worker[c] = "none"
          /\ \A i \in DOMAIN queue : queue[i].from # c
      BY <1>6 DEF Send
    <2>2. r \in Request /\ r.from = c
      BY DEF Request
    <2> HIDE DEF r
    <2> QED
      BY <1>6, <2>1, <2>2, QueueGrows DEF QueueInv
  <1>7. CASE Die
    <2>1. DOMAIN queue' = {}
      BY <1>7 DEF Die
    <2> QED
      BY <2>1 DEF QueueInv
  <1> QED
    BY <1>1, <1>2, <1>3, <1>4, <1>5, <1>6, <1>7, ThreadsMove

(* The count follows the threads. *)
LEMMA PlacesKept ==
  ASSUME TypeOK, QueueInv, PlacesExact, [Next]_vars
  PROVE  PlacesExact'
  <1> DEFINE Places(w) == {c \in Clients : w[c] \in {"start", "busy", "saved", "failed"}}
  <1>1. Counted = Places(worker) /\ Counted' = Places(worker')
    BY DEF Counted
  <1>2. active \in Nat /\ active = Cardinality(Counted) /\ active <= Limit
        /\ Limit \in Nat \ {0}
    BY Constants DEF TypeOK, PlacesExact
  <1>3. CASE Counted' = Counted /\ active' = active
    BY <1>2, <1>3 DEF PlacesExact
  <1>4. ASSUME NEW c \in Clients, c \notin Counted, active < Limit,
               Counted' = Counted \union {c}, active' = active + 1
        PROVE  PlacesExact'
    BY <1>2, <1>4, CountedFinite, FS_AddElement DEF PlacesExact
  <1>5. ASSUME NEW c \in Counted, Counted' = Counted \ {c}, active' = active - 1
        PROVE  PlacesExact'
    BY <1>2, <1>5, CountedFinite, FS_RemoveElement DEF PlacesExact
  <1>6. CASE AcceptCredential
    <2>1. worker[Caller] = "none" /\ Caller \in Clients
      BY <1>6, QueueShrinks, AcceptTakes DEF AcceptCredential
    <2>2. CASE active >= Limit
      BY <1>1, <1>3, <1>6, <2>2 DEF AcceptCredential
    <2>3. CASE ~(active >= Limit)
      <3>1. worker' = [worker EXCEPT ![Caller] = "start"] /\ active' = active + 1
        BY <1>6, <2>3 DEF AcceptCredential
      <3>2. Caller \notin Counted /\ Counted' = Counted \union {Caller}
        BY <2>1, <3>1 DEF TypeOK, Counted
      <3>3. active < Limit
        BY <1>2, <2>3
      <3> QED
        BY <1>4, <2>1, <3>1, <3>2, <3>3
    <2> QED
      BY <2>2, <2>3
  <1>7. ASSUME NEW c \in Clients, WorkerStep(c) PROVE PlacesExact'
    <2>1. CASE worker[c] \in {"start", "busy", "notify"}
      <3>1. UNCHANGED active /\ Counted' = Counted
        BY <1>7, <2>1 DEF WorkerStep, TypeOK, Counted
      <3> QED
        BY <1>3, <3>1
    <2>2. CASE worker[c] \in {"failed", "saved"}
      <3>1. c \in Counted /\ active' = active - 1 /\ Counted' = Counted \ {c}
        BY <1>7, <2>2 DEF WorkerStep, TypeOK, Counted
      <3> QED
        BY <1>5, <3>1
    <2> QED
      BY <1>7, <2>1, <2>2 DEF WorkerStep
  <1>8. ASSUME NEW c \in Clients, CredentialFails(c) PROVE PlacesExact'
    <2>1. UNCHANGED active /\ Counted' = Counted
      BY <1>8 DEF CredentialFails, TypeOK, Counted
    <2> QED
      BY <1>3, <2>1
  <1>9. CASE Die
    <2>1. Counted' = {} /\ active' = 0
      BY <1>9 DEF Die, Counted
    <2> QED
      BY <1>2, <2>1, FS_EmptySet DEF PlacesExact
  <1>10. CASE UNCHANGED <<worker, active>>
    BY <1>1, <1>3, <1>10
  <1> QED
    BY <1>6, <1>7, <1>8, <1>9, <1>10, ThreadsMove

-----------------------------------------------------------------------------
(* The lock *)

(* Every path that takes the lock gives it back, and takes it only when it *)
(* is free.                                                                *)
LEMMA LockKept ==
  ASSUME TypeOK, QueueInv, PublicationInv, LockOwned, [Next]_vars
  PROVE  LockOwned'
  <1> USE Apart DEF LockOwned
  <1>1. CASE CheckTokens \/ Spawn \/ Reap \/ Sleep
    <2>1. loop # "apply" /\ loop' # "apply" /\ UNCHANGED <<lock, worker>>
      BY <1>1 DEF CheckTokens, Spawn, Reap, Sleep
    <2>2. sync.pc \in {"renewing", "read"} <=> sync'.pc \in {"renewing", "read"}
      BY <1>1 DEF CheckTokens, Spawn, StartSync, Reap, Sleep, Synchronizing, Idle
    <2> QED
      BY <2>1, <2>2
  <1>2. CASE AcceptCredential
    <2>1. loop # "apply" /\ loop' # "apply" /\ UNCHANGED <<lock, sync>>
      BY <1>2 DEF AcceptCredential, Accept
    <2>2. \A c \in Clients : worker[c] = "busy" <=> worker'[c] = "busy"
      <3>1. worker[Caller] = "none" /\ Caller \in Clients
        BY <1>2, QueueShrinks, AcceptTakes DEF AcceptCredential
      <3> QED
        BY <1>2, <3>1 DEF AcceptCredential, TypeOK
    <2> QED
      BY <2>1, <2>2
  <1>3. CASE AcceptSync \/ AcceptReload
    <2>1. loop # "apply" /\ loop' # "apply" /\ UNCHANGED <<lock, worker>>
      BY <1>3 DEF AcceptSync, AcceptReload, Accept
    <2>2. sync.pc \in {"renewing", "read"} <=> sync'.pc \in {"renewing", "read"}
      BY <1>3 DEF AcceptSync, StartSync, AcceptReload, Synchronizing
    <2> QED
      BY <2>1, <2>2
  <1>4. CASE AcceptSave
    <2>1. UNCHANGED <<sync, worker>>
      BY <1>4 DEF AcceptSave
    <2> QED
      BY <1>4, <2>1 DEF AcceptSave, Accept
  <1>5. CASE Apply \/ ApplyFails
    <2>1. loop = "apply" /\ loop' = "check" /\ lock' = "free" /\ UNCHANGED <<sync, worker>>
      BY <1>5 DEF Apply, ApplyFails
    <2> QED
      BY <2>1
  <1>6. CASE SyncStep \/ SyncFails
    <2>1. UNCHANGED <<loop, worker>>
      BY <1>6 DEF SyncStep, Renew, Renewed, Open, Publish, SyncFails, loopVars
    <2>2. CASE Renew
      BY <2>1, <2>2 DEF Renew, TypeOK, Thread
    <2>3. CASE Renewed
      BY <2>1, <2>3 DEF Renewed, TypeOK, Thread
    <2>4. CASE Open
      BY <2>1, <2>4 DEF Open, TypeOK, Thread
    <2>5. CASE Publish
      BY <2>1, <2>5 DEF Publish, TypeOK, Thread
    <2>6. CASE SyncFails
      <3>1. sync.pc = "read" \/ sync.pc = "done"
        BY <2>6 DEF SyncFails, PublicationInv
      <3>2. sync'.pc = "done"
        BY <2>6 DEF SyncFails, TypeOK, Thread
      <3> QED
        BY <2>1, <2>6, <3>1, <3>2 DEF SyncFails
    <2> QED
      BY <1>6, <2>2, <2>3, <2>4, <2>5, <2>6 DEF SyncStep
  <1>7. ASSUME NEW c \in Clients, CredentialStep(c) \/ CredentialFails(c)
        PROVE  LockOwned'
    <2>1. UNCHANGED <<loop, sync>>
      BY <1>7 DEF CredentialStep, CredentialFails, loopVars
    <2>2. \A d \in Clients : d # c => worker'[d] = worker[d]
      BY <1>7 DEF CredentialStep, WorkerStep, CredentialFails, TypeOK
    <2>3. \/ lock' = lock /\ (worker[c] = "busy" <=> worker'[c] = "busy")
          \/ lock = "free" /\ lock' = c /\ worker'[c] = "busy"
          \/ lock = c /\ lock' = "free" /\ worker'[c] # "busy"
      BY <1>7 DEF CredentialStep, WorkerStep, CredentialFails, TypeOK
    <2> QED
      BY <2>1, <2>2, <2>3
  <1>8. CASE \/ TokenDue \/ Restart
             \/ \E c \in Clients, kind \in Kinds : Send(c, kind)
    <2>1. /\ UNCHANGED <<lock, sync, worker>>
          /\ loop = "apply" <=> loop' = "apply"
      BY <1>8 DEF TokenDue, Restart, Send, loopVars
    <2> QED
      BY <2>1
  <1>9. CASE OtherLocks \/ OtherUnlocks
    BY <1>9 DEF OtherLocks, OtherUnlocks, loopVars
  <1>10. CASE Die
    <2>1. /\ loop' = "dead" /\ sync'.pc = "none" /\ \A c \in Clients : worker'[c] = "none"
          /\ lock' \in {"other", "free"}
      BY <1>10 DEF Die, Idle
    <2> QED
      BY <2>1
  <1>11. CASE UNCHANGED vars
    BY <1>11 DEF vars, loopVars
  <1> QED
    BY <1>1, <1>2, <1>3, <1>4, <1>5, <1>6, <1>7, <1>8, <1>9, <1>10, <1>11
    DEF Next, LoopStep

-----------------------------------------------------------------------------
(* Changes and their publication *)

LEMMA PublicationKept ==
  ASSUME TypeOK, PublicationInv, [Next]_vars
  PROVE  PublicationInv'
  <1>1. /\ saved.loop \in Nat /\ version \in Nat /\ published \in Nat
        /\ sync.read \in Nat /\ failures \in Nat /\ timer \in Nat
        /\ sync.pc \in {"none", "renew", "renewing", "open", "read", "done"}
    BY DEF TypeOK, Thread
  <1>2. CASE CheckTokens
    <2>1. /\ UNCHANGED <<saved, version, published, sync, failures, timer>>
          /\ loop = "check" /\ loop' = "spawn" /\ (resync => resync')
      BY <1>2 DEF CheckTokens, fileVars
    <2> QED
      BY <2>1 DEF PublicationInv
  <1>3. CASE Spawn
    <2>1. UNCHANGED <<saved, version, published, failures, timer>> /\ loop' = "reap"
      BY <1>3 DEF Spawn, fileVars
    <2>2. CASE ~Synchronizing /\ (resync \/ timer = 0)
      <3>1. sync' = [pc |-> "renew", read |-> 0, ok |-> FALSE]
        BY <1>3, <2>2 DEF Spawn, StartSync
      <3> QED
        BY <2>1, <3>1 DEF PublicationInv
    <2>3. CASE ~(~Synchronizing /\ (resync \/ timer = 0))
      <3>1. UNCHANGED <<sync, resync>>
        BY <1>3, <2>3 DEF Spawn
      <3> QED
        BY <2>1, <2>3, <3>1 DEF PublicationInv, Synchronizing
    <2> QED
      BY <2>2, <2>3
  <1>4. CASE Reap
    <2>1. /\ UNCHANGED <<saved, version, published, resync>>
          /\ loop = "reap" /\ loop' = "accept"
      BY <1>4 DEF Reap, fileVars
    <2>2. CASE sync.pc # "done"
      <3>1. UNCHANGED <<sync, failures, timer>>
        BY <1>4, <2>2 DEF Reap
      <3> QED
        BY <2>1, <3>1 DEF PublicationInv
    <2>3. CASE sync.pc = "done"
      <3>1. sync'.pc = "none" /\ ~sync'.ok
        BY <1>4, <2>3 DEF Reap, Idle
      <3>2. ~sync.ok => failures' > 0
        BY <1>1, <1>4, <2>3, OneMoreTyped DEF Reap
      <3> QED
        BY <2>1, <2>3, <3>1, <3>2 DEF PublicationInv
    <2> QED
      BY <2>2, <2>3
  <1>5. CASE Sleep
    <2>1. /\ UNCHANGED <<saved, version, published, resync, sync, failures>>
          /\ loop = "accept" /\ loop' = "check"
      BY <1>5 DEF Sleep, fileVars
    <2> QED
      BY <2>1 DEF PublicationInv
  <1>6. CASE AcceptCredential \/ AcceptReload \/ AcceptSave
    <2>1. /\ UNCHANGED <<saved, version, published, resync, sync, failures>>
          /\ loop = "accept"
      BY <1>6 DEF AcceptCredential, AcceptReload, AcceptSave, Accept, fileVars
    <2> QED
      BY <2>1 DEF PublicationInv
  <1>7. CASE AcceptSync
    <2>1. UNCHANGED <<saved, version, published, resync, failures>> /\ loop = "accept"
      BY <1>7 DEF AcceptSync, Accept, fileVars
    <2>2. sync' = sync \/ sync' = [pc |-> "renew", read |-> 0, ok |-> FALSE]
      BY <1>7 DEF AcceptSync, StartSync
    <2> QED
      BY <2>1, <2>2 DEF PublicationInv
  <1>8. CASE Apply
    <2>1. /\ version' = version + 1 /\ saved'.loop = version' /\ resync' = TRUE
          /\ UNCHANGED <<published, sync>>
      BY <1>8 DEF Apply, TypeOK
    <2> QED
      BY <1>1, <2>1 DEF PublicationInv
  <1>9. CASE ApplyFails
    <2>1. /\ version' \in {version, version + 1} /\ loop = "apply"
          /\ UNCHANGED <<saved, published, sync, resync, failures>>
      BY <1>9 DEF ApplyFails
    <2> QED
      BY <1>1, <2>1 DEF PublicationInv
  <1>10. CASE SyncStep \/ SyncFails
    <2>1. UNCHANGED <<saved, version, resync, failures, timer, loop>>
      BY <1>10 DEF SyncStep, Renew, Renewed, Open, Publish, SyncFails, loopVars, fileVars
    <2>2. CASE Renew \/ Renewed
      <3>1. sync'.pc \in {"renewing", "open"} /\ UNCHANGED published
            /\ (sync'.ok <=> sync.ok) /\ sync.pc \in {"renew", "renewing"}
        BY <2>2 DEF Renew, Renewed, TypeOK, Thread
      <3> QED
        BY <2>1, <3>1 DEF PublicationInv
    <2>3. CASE Open
      <3>1. /\ UNCHANGED published /\ sync.pc = "open"
            /\ \/ sync' = [pc |-> "read", read |-> version, ok |-> FALSE]
               \/ sync'.pc = "done" /\ (sync'.ok <=> sync.ok)
        BY <2>3 DEF Open, fileVars, TypeOK, Thread
      <3> QED
        BY <1>1, <2>1, <3>1 DEF PublicationInv
    <2>4. CASE Publish
      <3>1. published' = sync.read /\ sync'.pc = "done" /\ sync.pc = "read"
        BY <2>4 DEF Publish, TypeOK, Thread
      <3> QED
        BY <1>1, <2>1, <3>1 DEF PublicationInv
    <2>5. CASE SyncFails
      <3>1. UNCHANGED published /\ sync'.pc = "done" /\ ~sync'.ok
        BY <2>5 DEF SyncFails, fileVars, TypeOK, Thread
      <3> QED
        BY <1>1, <2>1, <3>1 DEF PublicationInv
    <2> QED
      BY <1>10, <2>2, <2>3, <2>4, <2>5 DEF SyncStep
  <1>11. ASSUME NEW c \in Clients, CredentialStep(c) \/ CredentialFails(c)
         PROVE  PublicationInv'
    <2>1. /\ UNCHANGED <<published, sync, resync, failures, timer, loop>>
          /\ version' \in {version, version + 1} /\ saved'.loop = saved.loop
      BY <1>11 DEF CredentialStep, WorkerStep, CredentialFails, loopVars, TypeOK
    <2> QED
      BY <1>1, <2>1 DEF PublicationInv
  <1>12. CASE \/ TokenDue \/ OtherLocks \/ OtherUnlocks
              \/ \E c \in Clients, kind \in Kinds : Send(c, kind)
    <2>1. /\ UNCHANGED <<saved, published, sync, resync, failures, timer, loop>>
          /\ version' \in {version, version + 1}
      BY <1>12 DEF TokenDue, OtherLocks, OtherUnlocks, Send, loopVars, fileVars
    <2> QED
      BY <1>1, <2>1 DEF PublicationInv
  <1>13. CASE Die
    <2>1. /\ UNCHANGED <<saved, version, published>> /\ sync'.pc = "none" /\ ~sync'.ok
          /\ timer' = 0 /\ loop' = "dead"
      BY <1>13 DEF Die, Idle, fileVars
    <2> QED
      BY <2>1 DEF PublicationInv
  <1>14. CASE Restart
    <2>1. /\ UNCHANGED <<saved, version, published, sync, resync, failures, timer>>
          /\ loop = "dead" /\ loop' = "check"
      BY <1>14 DEF Restart, fileVars
    <2> QED
      BY <2>1 DEF PublicationInv
  <1>15. CASE UNCHANGED vars
    BY <1>15 DEF vars, loopVars, fileVars, PublicationInv
  <1> QED
    BY <1>2, <1>3, <1>4, <1>5, <1>6, <1>7, <1>8, <1>9, <1>10, <1>11, <1>12, <1>13,
       <1>14, <1>15 DEF Next, LoopStep

-----------------------------------------------------------------------------
(* The schedule *)

(* How far away the next attempt may be. *)
InTime(t, i, n) ==
  \/ t <= Max(PeriodicDelays(i)) /\ n = 0
  \/ t <= Max({i, RetryDelay(n)}) /\ n > 0

LEMMA InTimeHolds ==
  ASSUME NEW i \in Nat, NEW n \in Nat
  PROVE  /\ InTime(0, i, n) /\ InTime(i, i, n)
         /\ n > 0 => InTime(RetryDelay(n), i, n)
         /\ n = 0 => \A t \in PeriodicDelays(i) : InTime(t, i, n)
         /\ \A t \in Nat : InTime(t, i, n) => InTime(Less(t), i, n)
  <1>1. RetryDelay(n) \in Int /\ i \in Int
    BY RetryDelayTyped
  <1>2. Max({i, RetryDelay(n)}) \in Int /\ Max({i, RetryDelay(n)}) >= i
        /\ Max({i, RetryDelay(n)}) >= RetryDelay(n)
    BY <1>1, MaxOfTwo
  <1>3. /\ Max(PeriodicDelays(i)) \in Nat /\ Max(PeriodicDelays(i)) >= i
        /\ \A d \in PeriodicDelays(i) : d <= Max(PeriodicDelays(i))
    BY PeriodTyped
  <1>4. \A t \in Nat : Less(t) \in Nat /\ Less(t) <= t
    BY DEF Less
  <1> DEFINE longest == Max({i, RetryDelay(n)})
             period  == Max(PeriodicDelays(i))
  <1>5. \A t \in Nat : (t <= longest => Less(t) <= longest)
                       /\ (t <= period => Less(t) <= period)
    BY <1>2, <1>3, <1>4
  <1>6. 0 <= longest /\ 0 <= period
    BY <1>2, <1>3
  <1>7. n = 0 \/ n > 0
    OBVIOUS
  <1> HIDE DEF longest, period
  <1> QED
    BY <1>2, <1>3, <1>5, <1>6, <1>7 DEF InTime, longest, period

LEMMA DeadKept ==
  ASSUME DeadInv, [Next]_vars
  PROVE  DeadInv'
  <1>1. CASE LoopStep \/ ApplyFails \/ Restart
    <2>1. loop' # "dead"
      BY <1>1 DEF LoopStep, CheckTokens, Spawn, Reap, Sleep, AcceptCredential,
         AcceptSync, AcceptReload, AcceptSave, Apply, ApplyFails, Restart
    <2> QED
      BY <2>1 DEF DeadInv
  <1>2. CASE Die
    BY <1>2 DEF Die, DeadInv
  <1>3. CASE SyncStep \/ SyncFails \/ TokenDue \/ OtherLocks \/ OtherUnlocks
    BY <1>3 DEF SyncStep, Renew, Renewed, Open, Publish, SyncFails, TokenDue,
       OtherLocks, OtherUnlocks, loopVars, DeadInv
  <1>4. ASSUME NEW c \in Clients, \/ CredentialStep(c) \/ CredentialFails(c)
                                  \/ \E kind \in Kinds : Send(c, kind)
        PROVE  DeadInv'
    BY <1>4 DEF CredentialStep, CredentialFails, Send, loopVars, DeadInv
  <1>5. CASE UNCHANGED vars
    BY <1>5 DEF vars, loopVars, DeadInv
  <1> QED
    BY <1>1, <1>2, <1>3, <1>4, <1>5 DEF Next

LEMMA AttemptStep ==
  ASSUME TypeOK, AttemptInTime,
         \/ sync'.pc # "none"
         \/ resync' = TRUE
         \/ /\ sync' = sync /\ (resync => resync') /\ failures' = failures
            /\ timer' \in {timer, Less(timer)} /\ interval' = interval
         \/ InTime(timer', interval', failures')
  PROVE  AttemptInTime'
  <1>1. interval \in Nat /\ failures \in Nat /\ timer \in Nat
    BY Constants DEF TypeOK
  <1>2. AttemptInTime <=>
          sync.pc # "none" \/ resync \/ InTime(timer, interval, failures)
    BY DEF AttemptInTime, Synchronizing, InTime
  <1>3. AttemptInTime' <=>
          sync'.pc # "none" \/ resync' \/ InTime(timer', interval', failures')
    BY DEF AttemptInTime, Synchronizing, InTime
  <1> QED
    BY <1>1, <1>2, <1>3, InTimeHolds

LEMMA AttemptKept ==
  ASSUME TypeOK, DeadInv, AttemptInTime, [Next]_vars
  PROVE  AttemptInTime'
  <1>1. stored \in Nat /\ interval \in Nat /\ failures \in Nat /\ timer \in Nat
    BY Constants DEF TypeOK
  <1>2. CASE CheckTokens
    BY <1>2, AttemptStep DEF CheckTokens
  <1>3. CASE Spawn
    <2>1. CASE ~Synchronizing /\ (resync \/ timer = 0)
      <3>1. sync'.pc # "none"
        BY <1>3, <2>1 DEF Spawn, StartSync
      <3> QED
        BY <3>1, AttemptStep
    <2>2. CASE ~(~Synchronizing /\ (resync \/ timer = 0))
      BY <1>3, <2>2, AttemptStep DEF Spawn
    <2> QED
      BY <2>1, <2>2
  <1>4. CASE Reap
    <2>1. CASE sync.pc # "done"
      BY <1>4, <2>1, AttemptStep DEF Reap
    <2>2. CASE sync.pc = "done" /\ sync.ok
      <3>1. failures' = 0 /\ interval' = stored /\ timer' \in PeriodicDelays(stored)
        BY <1>4, <2>2 DEF Reap
      <3>2. InTime(timer', interval', failures')
        BY <1>1, <3>1, InTimeHolds
      <3> QED
        BY <3>2, AttemptStep
    <2>3. CASE sync.pc = "done" /\ ~sync.ok
      <3>1. /\ failures' = OneMore(failures) /\ timer' = RetryDelay(failures')
            /\ interval' = interval
        BY <1>4, <2>3 DEF Reap
      <3>2. failures' \in Nat /\ failures' > 0
        BY <1>1, <3>1, OneMoreTyped
      <3>3. InTime(timer', interval', failures')
        BY <1>1, <3>1, <3>2, InTimeHolds
      <3> QED
        BY <3>3, AttemptStep
    <2> QED
      BY <2>1, <2>2, <2>3
  <1>5. CASE Sleep
    BY <1>5, AttemptStep DEF Sleep
  <1>6. CASE AcceptCredential \/ AcceptSave
    BY <1>6, AttemptStep DEF AcceptCredential, AcceptSave
  <1>7. CASE AcceptSync
    <2>1. CASE Synchronizing
      BY <1>7, <2>1, AttemptStep DEF AcceptSync
    <2>2. CASE ~Synchronizing
      <3>1. sync'.pc # "none"
        BY <1>7, <2>2 DEF AcceptSync, StartSync
      <3> QED
        BY <3>1, AttemptStep
    <2> QED
      BY <2>1, <2>2
  <1>8. CASE AcceptReload
    <2>1. timer' = stored /\ interval' = stored /\ failures' = failures
      BY <1>8 DEF AcceptReload
    <2>2. InTime(timer', interval', failures')
      BY <1>1, <2>1, InTimeHolds
    <2> QED
      BY <2>2, AttemptStep
  <1>9. CASE Apply
    <2>1. resync' = TRUE
      BY <1>9 DEF Apply
    <2> QED
      BY <2>1, AttemptStep
  <1>10. CASE ApplyFails \/ TokenDue \/ OtherLocks \/ OtherUnlocks
    BY <1>10, AttemptStep DEF ApplyFails, TokenDue, OtherLocks, OtherUnlocks, loopVars
  <1>11. ASSUME NEW c \in Clients, \/ CredentialStep(c) \/ CredentialFails(c)
                                   \/ \E kind \in Kinds : Send(c, kind)
         PROVE  AttemptInTime'
    BY <1>11, AttemptStep DEF CredentialStep, CredentialFails, Send, loopVars
  <1>12. CASE SyncStep \/ SyncFails
    <2>1. sync \in Thread
      BY DEF TypeOK
    <2>2. CASE Renew
      BY <2>1, <2>2, AttemptStep DEF Renew, Thread
    <2>3. CASE Renewed
      BY <2>1, <2>3, AttemptStep DEF Renewed, Thread
    <2>4. CASE Open
      <3>1. sync'.pc \in {"read", "done"}
        BY <2>1, <2>4 DEF Open, Thread
      <3> QED
        BY <3>1, AttemptStep
    <2>5. CASE Publish
      BY <2>1, <2>5, AttemptStep DEF Publish, Thread
    <2>6. CASE SyncFails
      <3>1. sync'.pc = "done"
        BY <2>1, <2>6 DEF SyncFails, Thread
      <3> QED
        BY <3>1, AttemptStep
    <2> QED
      BY <1>12, <2>2, <2>3, <2>4, <2>5, <2>6 DEF SyncStep
  <1>13. CASE Die
    <2>1. timer' = 0 /\ failures' = 0 /\ interval' = interval
      BY <1>13 DEF Die
    <2>2. InTime(timer', interval', failures')
      BY <1>1, <2>1, InTimeHolds
    <2> QED
      BY <2>2, AttemptStep
  <1>14. CASE Restart
    <2>1. timer' = 0 /\ failures' = 0 /\ interval' = stored
      BY <1>14 DEF Restart, DeadInv
    <2>2. InTime(timer', interval', failures')
      BY <1>1, <2>1, InTimeHolds
    <2> QED
      BY <2>2, AttemptStep
  <1>15. CASE UNCHANGED vars
    BY <1>15, AttemptStep DEF vars, loopVars
  <1> QED
    BY <1>2, <1>3, <1>4, <1>5, <1>6, <1>7, <1>8, <1>9, <1>10, <1>11, <1>12, <1>13,
       <1>14, <1>15
    DEF Next, LoopStep

-----------------------------------------------------------------------------
(* Due tokens *)

LEMMA RenewalKept ==
  ASSUME TypeOK, PublicationInv, RenewalInv, [Next]_vars
  PROVE  RenewalInv'
  <1>1. check \in Nat /\ waiting \in Nat /\ CheckEvery \in Nat /\ check <= CheckEvery
    BY Constants DEF TypeOK, RenewalInv
  <1>2. ASSUME waiting' = 0, check' <= CheckEvery PROVE RenewalInv'
    BY <1>2 DEF RenewalInv
  <1>3. CASE CheckTokens
    <2>1. /\ loop = "check" /\ loop' = "spawn"
          /\ UNCHANGED <<waiting, due, sync, failures>>
      BY <1>3 DEF CheckTokens, fileVars, otherVars
    <2>2. CASE ~Synchronizing /\ check = 0
      <3>1. check' = CheckEvery /\ resync' = (resync \/ (failures = 0 /\ due))
        BY <1>3, <2>2 DEF CheckTokens
      <3>2. waiting > 0 => resync'
        BY <2>1, <3>1 DEF RenewalInv
      <3> QED
        BY <1>1, <2>1, <3>1, <3>2 DEF RenewalInv
    <2>3. CASE ~(~Synchronizing /\ check = 0)
      <3>1. UNCHANGED <<check, resync>>
        BY <1>3, <2>3 DEF CheckTokens
      <3> QED
        BY <1>1, <2>1, <2>3, <3>1 DEF RenewalInv, Approaching, Synchronizing
    <2> QED
      BY <2>2, <2>3
  <1>4. CASE Spawn
    <2>1. /\ loop = "spawn" /\ loop' = "reap" /\ UNCHANGED <<check, due, failures>>
      BY <1>4 DEF Spawn, fileVars
    <2>2. CASE ~Synchronizing /\ (resync \/ timer = 0)
      <3>1. waiting' = 0
        BY <1>4, <2>2 DEF Spawn, StartSync
      <3> QED
        BY <1>1, <1>2, <2>1, <3>1
    <2>3. CASE ~(~Synchronizing /\ (resync \/ timer = 0))
      <3>1. UNCHANGED <<resync, sync, waiting>>
        BY <1>4, <2>3 DEF Spawn
      <3> QED
        BY <2>1, <2>3, <3>1 DEF RenewalInv, Approaching, Synchronizing
    <2> QED
      BY <2>2, <2>3
  <1>5. CASE Reap
    <2>1. /\ loop = "reap" /\ loop' = "accept" /\ UNCHANGED <<check, due, waiting>>
      BY <1>5 DEF Reap, fileVars, otherVars
    <2>2. CASE sync.pc # "done"
      <3>1. UNCHANGED <<sync, failures>>
        BY <1>5, <2>2 DEF Reap
      <3> QED
        BY <2>1, <3>1 DEF RenewalInv, Approaching
    <2>3. CASE sync.pc = "done"
      <3>1. waiting' = 0
        BY <1>1, <2>1, <2>3 DEF RenewalInv
      <3> QED
        BY <1>1, <1>2, <2>1, <3>1
    <2> QED
      BY <2>2, <2>3
  <1>6. CASE Sleep
    <2>1. /\ loop = "accept" /\ loop' = "check" /\ UNCHANGED <<due, sync, failures>>
          /\ check' = Less(check) /\ waiting' = Aged(due)
      BY <1>6 DEF Sleep, fileVars
    <2>2. check' \in Nat /\ check' <= check /\ (check > 0 => check' = check - 1)
      BY <1>1, <2>1 DEF Less
    <2>3. CASE due /\ ~Synchronizing /\ ~resync /\ failures = 0
      <3>1. waiting' = waiting + 1
        BY <2>1, <2>3 DEF Aged
      <3>2. waiting' + check' <= CheckEvery + 1
        BY <1>1, <2>1, <2>2, <3>1 DEF RenewalInv, Approaching
      <3>3. check' <= CheckEvery
        BY <1>1, <2>2
      <3>4. waiting' <= CheckEvery + 1
        <4>1. waiting' \in Nat
          BY <1>1, <3>1
        <4>2. check' \in Nat
          BY <2>2
        <4>3. ASSUME NEW w \in Nat, NEW k \in Nat, w + k <= CheckEvery + 1
              PROVE  w <= CheckEvery + 1
          BY <1>1, <4>3
        <4> QED
          BY <3>2, <4>1, <4>2, <4>3
      <3> QED
        BY <2>1, <2>3, <3>2, <3>3, <3>4 DEF RenewalInv, Approaching, Synchronizing
    <2>4. CASE ~(due /\ ~Synchronizing /\ ~resync /\ failures = 0)
      <3>1. waiting' = 0 /\ check' <= CheckEvery
        BY <1>1, <2>1, <2>2, <2>4 DEF Aged
      <3> QED
        BY <1>2, <3>1
    <2> QED
      BY <2>3, <2>4
  <1>7. CASE AcceptCredential \/ AcceptReload \/ AcceptSave
    <2>1. /\ loop = "accept" /\ loop' \in {"check", "apply"}
          /\ UNCHANGED <<check, due, waiting, sync, failures>>
      BY <1>7 DEF AcceptCredential, AcceptReload, AcceptSave, Accept, fileVars, otherVars
    <2> QED
      BY <2>1 DEF RenewalInv, Approaching
  <1>8. CASE AcceptSync
    <2>1. /\ loop = "accept" /\ loop' = "check" /\ UNCHANGED <<check, due, failures>>
      BY <1>8 DEF AcceptSync, Accept, fileVars
    <2>2. UNCHANGED <<sync, waiting>> \/ waiting' = 0
      BY <1>8 DEF AcceptSync, StartSync
    <2> QED
      BY <1>1, <1>2, <2>1, <2>2 DEF RenewalInv, Approaching
  <1>9. CASE Apply \/ ApplyFails
    <2>1. /\ loop = "apply" /\ loop' = "check"
          /\ UNCHANGED <<check, due, waiting, sync, failures>>
      BY <1>9 DEF Apply, ApplyFails, otherVars
    <2> QED
      BY <2>1 DEF RenewalInv, Approaching
  <1>10. CASE Renew \/ Renewed
    <2>1. sync.pc # "none" /\ UNCHANGED <<check, waiting>>
      BY <1>10 DEF Renew, Renewed, loopVars, otherVars
    <2>2. waiting' = 0 /\ check' <= CheckEvery
      BY <1>1, <2>1 DEF RenewalInv
    <2> QED
      BY <1>2, <2>2
  <1>11. CASE Open \/ Publish \/ SyncFails
    <2>1. sync.pc # "none" /\ UNCHANGED <<check, waiting>>
      BY <1>11 DEF Open, Publish, SyncFails, PublicationInv, loopVars, otherVars
    <2>2. waiting' = 0 /\ check' <= CheckEvery
      BY <1>1, <2>1 DEF RenewalInv
    <2> QED
      BY <1>2, <2>2
  <1>12. ASSUME NEW c \in Clients, \/ CredentialStep(c) \/ CredentialFails(c)
                                   \/ \E kind \in Kinds : Send(c, kind)
         PROVE  RenewalInv'
    <2>1. UNCHANGED <<check, waiting, due, sync, failures, loop, resync>>
      BY <1>12 DEF CredentialStep, CredentialFails, Send, loopVars, fileVars, otherVars
    <2> QED
      BY <2>1 DEF RenewalInv, Approaching
  <1>13. CASE TokenDue
    <2>1. ~due /\ UNCHANGED <<check, waiting>>
      BY <1>13 DEF TokenDue, loopVars
    <2>2. waiting' = 0 /\ check' <= CheckEvery
      BY <1>1, <2>1 DEF RenewalInv
    <2> QED
      BY <1>2, <2>2
  <1>14. CASE OtherLocks \/ OtherUnlocks
    <2>1. UNCHANGED <<check, waiting, due, sync, failures, loop, resync>>
      BY <1>14 DEF OtherLocks, OtherUnlocks, loopVars, fileVars, otherVars
    <2> QED
      BY <2>1 DEF RenewalInv, Approaching
  <1>15. CASE Die
    BY <1>1, <1>2, <1>15 DEF Die
  <1>16. CASE Restart
    <2>1. loop = "dead" /\ UNCHANGED <<check, waiting>>
      BY <1>16 DEF Restart, otherVars
    <2>2. waiting' = 0 /\ check' <= CheckEvery
      BY <1>1, <2>1 DEF RenewalInv
    <2> QED
      BY <1>2, <2>2
  <1>17. CASE UNCHANGED vars
    BY <1>17 DEF vars, loopVars, fileVars, otherVars, RenewalInv, Approaching
  <1> QED
    BY <1>3, <1>4, <1>5, <1>6, <1>7, <1>8, <1>9, <1>10, <1>11, <1>12, <1>13,
       <1>14, <1>15, <1>16, <1>17 DEF Next, LoopStep, SyncStep

-----------------------------------------------------------------------------
(* The invariant and what it says *)

LEMMA InitInvariant == Init => AgentInv
  <1> SUFFICES ASSUME Init PROVE AgentInv
    OBVIOUS
  <1>1. TypeOK
    BY InitTyped
  <1>2. DOMAIN queue = {} /\ queue = <<>>
    BY DEF Init
  <1>3. PlacesExact
    <2>1. Counted = {}
      BY DEF Init, Counted
    <2> QED
      BY <2>1, Constants, FS_EmptySet DEF Init, PlacesExact
  <1>4. LockOwned
    BY Apart DEF Init, LockOwned, Idle
  <1>5. PublicationInv
    BY DEF Init, PublicationInv, Idle
  <1>6. AttemptInTime /\ DeadInv
    <2>1. interval \in Nat
      BY <1>1, Constants DEF TypeOK
    <2>2. InTime(0, interval, 0)
      BY <2>1, InTimeHolds
    <2> QED
      BY <2>2 DEF Init, InTime, AttemptInTime, DeadInv
  <1>7. RenewalInv
    BY Constants DEF Init, RenewalInv
  <1> QED
    BY <1>1, <1>2, <1>3, <1>4, <1>5, <1>6, <1>7 DEF AgentInv, QueueInv

LEMMA NextInvariant == AgentInv /\ [Next]_vars => AgentInv'
  BY TypesKept, QueueKept, PlacesKept, LockKept, PublicationKept, DeadKept, AttemptKept,
     RenewalKept
  DEF AgentInv

(* The inductive invariant: it holds from the start, and every step of the *)
(* loop, of its threads, of the clients and of other programs keeps it.    *)
THEOREM AgentInvariant == Spec => []AgentInv
  BY InitInvariant, NextInvariant, PTL DEF Spec

(* Every variable stays within its type: the count of the threads never    *)
(* falls below zero, the backoff is a number whatever the failures.        *)
THEOREM AgentTyped == Spec => []TypeOK
  <1>1. AgentInv => TypeOK
    BY DEF AgentInv
  <1> QED
    BY <1>1, AgentInvariant, PTL

(* The credential threads: the counter the loop shares with them is        *)
(* exactly their number and never exceeds the limit, whichever way they    *)
(* end and whatever the requests that come in between.                     *)
THEOREM PlacesCounted == Spec => []PlacesExact
  <1>1. AgentInv => PlacesExact
    BY DEF AgentInv
  <1> QED
    BY <1>1, AgentInvariant, PTL

(* The configuration lock belongs to whoever works on the files, and each  *)
(* path of the loop, of the synchronization and of the credential threads  *)
(* gives it back.                                                          *)
THEOREM LockGivenBack == Spec => []LockOwned
  <1>1. AgentInv => LockOwned
    BY DEF AgentInv
  <1> QED
    BY <1>1, AgentInvariant, PTL

(* A change the loop has acknowledged is published, about to be published, *)
(* or held up by failures alone: no interleaving of the loop, its threads  *)
(* and other programs makes it wait for the interval.                      *)
THEOREM SavesSynchronized == Spec => []SaveIsSynchronized
  <1>1. AgentInv => SaveIsSynchronized
    BY DEF AgentInv, TypeOK, PublicationInv, SaveIsSynchronized, WillPublish
  <1> QED
    BY <1>1, AgentInvariant, PTL

(* The next synchronization is never further away than the loop's interval *)
(* with its jitter or, after failures, the delay of the retry.             *)
THEOREM AttemptsInTime == Spec => []AttemptInTime
  <1>1. AgentInv => AttemptInTime
    BY DEF AgentInv
  <1> QED
    BY <1>1, AgentInvariant, PTL

(* A token that is due waits for the next look at the tokens, however long *)
(* the interval of the synchronization.                                    *)
THEOREM RenewalsPrompt == Spec => []RenewalPrompt
  <1>1. AgentInv => RenewalPrompt
    BY Constants DEF AgentInv, TypeOK, RenewalInv, RenewalPrompt
  <1> QED
    BY <1>1, AgentInvariant, PTL
=============================================================================
