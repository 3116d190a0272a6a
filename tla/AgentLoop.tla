----------------------------- MODULE AgentLoop -----------------------------
(***************************************************************************)
(* The background agent: one loop that starts synchronizations when they   *)
(* are due or asked for, answers local requests in the order they come in, *)
(* and leaves the work of the network to threads of its own: one that      *)
(* synchronizes and a few that handle credentials.  The threads, and the   *)
(* other programs of the user, meet only at the nonblocking configuration  *)
(* lock and at the request queue.  The service manager starts a dead agent *)
(* again.                                                                  *)
(*                                                                         *)
(* What the files hold is abstracted to a version that every saved change  *)
(* increases; a synchronization publishes the version it has read.  Time   *)
(* passes while the loop sleeps, one unit in each sleep; the rest of a     *)
(* round takes none worth counting.                                        *)
(***************************************************************************)
EXTENDS Integers, Sequences, FiniteSets, FiniteSetsExt

CONSTANTS
  Clients,        \* programs that send the agent one request each
  None,
  Limit,          \* credential operations at a time
  Intervals,      \* synchronization intervals the user may choose
  Jitter,
  InitialBackoff, MaximumBackoff,
  CountLimit,     \* where the count of consecutive failures saturates
  CheckEvery,     \* time between two looks at the tokens
  MaxFailures,    \* bound of failed calls and dying agents
  MaxEvents       \* bound of tokens due and of changes by other programs

ASSUME AgentAssumption ==
  /\ IsFiniteSet(Clients) /\ None \notin Clients
  /\ Clients \intersect {"free", "loop", "sync", "other"} = {}
  /\ {Limit, CountLimit} \subseteq Nat \ {0}
  /\ Intervals \subseteq Nat \ {0} /\ Intervals # {}
  /\ {Jitter, InitialBackoff, MaximumBackoff, CheckEvery} \subseteq Nat
  /\ {MaxFailures, MaxEvents} \subseteq Nat

VARIABLES
  loop,      \* where the main loop is
  current,   \* the client whose change the loop applies
  timer,     \* time until the next synchronization is due
  check,     \* time until the next look at the tokens
  failures,  \* consecutive failed synchronizations
  interval,  \* the interval the loop works with
  resync,    \* a synchronization was requested
  sync,      \* the synchronization thread and the version it has read
  worker,    \* the credential thread of each client
  active,    \* the loop's count of the credential threads
  queue,     \* requests the agent has yet to accept, in order
  answer,    \* what each client was told
  lock,      \* holder of configuration.lock
  stored,    \* the interval in preferences.json
  version,   \* what the files hold
  published, \* the version the managed SSH configuration was made from
  saved,     \* the latest version the loop, a worker has acknowledged
  due,       \* a token is to be renewed
  waiting,   \* how long it has been while nothing kept the agent from it
  budget     \* failures and events so far

loopVars  == <<loop, current, timer, check, failures, interval, resync>>
fileVars  == <<stored, version, published, saved, due>>
otherVars == <<waiting, budget>>
vars == <<loopVars, sync, worker, active, queue, answer, lock, fileVars, otherVars>>

-----------------------------------------------------------------------------
Kinds == {"save", "credential", "sync", "reload"}
Request == [kind: Kinds, from: Clients]
Thread == [pc: {"none", "renew", "renewing", "open", "read", "done"},
           read: Nat, ok: BOOLEAN]
Idle == [pc |-> "none", read |-> 0, ok |-> FALSE]
Synchronizing == sync.pc # "none"

Spend(kind, bound) ==
  /\ budget[kind] < bound
  /\ budget' = [budget EXCEPT ![kind] = @ + 1]

(* retry_delay and periodic_delay *)
RetryDelay(n) ==
  IF n = 0 THEN 0 ELSE Min({MaximumBackoff, InitialBackoff * 2^Min({n - 1, 31})})

PeriodicDelays(i) ==
  LET lower == IF i < Jitter THEN 0 ELSE i - Jitter
  IN lower .. lower + 2 * Jitter

OneMore(n) == Min({n + 1, CountLimit})

(* Mutant: the difference of two instants does not stop at zero. *)
LessUnchecked(t) == t - 1
Less(t) == IF t = 0 THEN 0 ELSE t - 1

(* The age of a due token counts only while the loop could see to it. *)
Aged(isDue) ==
  IF isDue /\ ~Synchronizing /\ ~resync /\ failures = 0 THEN waiting + 1 ELSE 0

-----------------------------------------------------------------------------
(* The four stations of the loop *)

StartSync == sync' = [pc |-> "renew", read |-> 0, ok |-> FALSE] /\ waiting' = 0

(* Mutant: the look at the tokens has the period of the synchronization. *)
CheckTokensSeldom ==
  /\ loop = "check"
  /\ loop' = "spawn"
  /\ IF ~Synchronizing /\ check = 0
     THEN check' = 2 * interval /\ resync' = (resync \/ (failures = 0 /\ due))
     ELSE UNCHANGED <<check, resync>>
  /\ UNCHANGED <<current, timer, failures, interval, sync, worker, active,
                 queue, answer, lock, fileVars, otherVars>>

CheckTokens ==
  /\ loop = "check"
  /\ loop' = "spawn"
  /\ IF ~Synchronizing /\ check = 0
     THEN check' = CheckEvery /\ resync' = (resync \/ (failures = 0 /\ due))
     ELSE UNCHANGED <<check, resync>>
  /\ UNCHANGED <<current, timer, failures, interval, sync, worker, active,
                 queue, answer, lock, fileVars, otherVars>>

Spawn ==
  /\ loop = "spawn"
  /\ loop' = "reap"
  /\ IF ~Synchronizing /\ (resync \/ timer = 0)
     THEN resync' = FALSE /\ StartSync
     ELSE UNCHANGED <<resync, sync, waiting>>
  /\ UNCHANGED <<current, timer, check, failures, interval, worker, active,
                 queue, answer, lock, fileVars, budget>>

(* Mutant: the end of a synchronization satisfies every request so far. *)
ReapForgetting ==
  /\ loop = "reap"
  /\ loop' = "accept"
  /\ IF sync.pc # "done"
     THEN UNCHANGED <<timer, failures, interval, resync, sync>>
     ELSE /\ sync' = Idle
          /\ resync' = FALSE
          /\ IF sync.ok
             THEN /\ failures' = 0
                  /\ interval' = stored
                  /\ timer' \in PeriodicDelays(stored)
             ELSE /\ failures' = OneMore(failures)
                  /\ timer' = RetryDelay(failures')
                  /\ UNCHANGED interval
  /\ UNCHANGED <<current, check, worker, active, queue, answer, lock,
                 fileVars, otherVars>>

(* Mutant: a failed synchronization leaves its turn to the next interval. *)
ReapWithoutRetry ==
  /\ loop = "reap"
  /\ loop' = "accept"
  /\ IF sync.pc # "done"
     THEN UNCHANGED <<timer, failures, interval, sync>>
     ELSE /\ sync' = Idle
          /\ interval' = stored
          /\ timer' \in PeriodicDelays(stored)
          /\ failures' = IF sync.ok THEN 0 ELSE OneMore(failures)
  /\ UNCHANGED <<current, check, resync, worker, active, queue, answer, lock,
                 fileVars, otherVars>>

(* Mutant: only a successful thread is collected. *)
ReapSuccesses ==
  /\ loop = "reap"
  /\ loop' = "accept"
  /\ IF sync.pc # "done" \/ ~sync.ok
     THEN UNCHANGED <<timer, failures, interval, sync>>
     ELSE /\ sync' = Idle
          /\ failures' = 0
          /\ interval' = stored
          /\ timer' \in PeriodicDelays(stored)
  /\ UNCHANGED <<current, check, resync, worker, active, queue, answer, lock,
                 fileVars, otherVars>>

(* A success reads the preferences again, a failure is tried again soon. *)
Reap ==
  /\ loop = "reap"
  /\ loop' = "accept"
  /\ IF sync.pc # "done"
     THEN UNCHANGED <<timer, failures, interval, sync>>
     ELSE /\ sync' = Idle
          /\ IF sync.ok
             THEN /\ failures' = 0
                  /\ interval' = stored
                  /\ timer' \in PeriodicDelays(stored)
             ELSE /\ failures' = OneMore(failures)
                  /\ timer' = RetryDelay(failures')
                  /\ UNCHANGED interval
  /\ UNCHANGED <<current, check, resync, worker, active, queue, answer, lock,
                 fileVars, otherVars>>

Sleep ==
  /\ loop = "accept" /\ queue = <<>>
  /\ loop' = "check"
  /\ timer' = Less(timer)
  /\ check' = Less(check)
  /\ waiting' = Aged(due)
  /\ UNCHANGED <<current, failures, interval, resync, sync, worker, active,
                 queue, answer, lock, fileVars, budget>>

-----------------------------------------------------------------------------
(* Accepting a request *)

Accept(kind) ==
  /\ loop = "accept" /\ queue # <<>> /\ Head(queue).kind = kind
  /\ queue' = Tail(queue)

Caller == Head(queue).from

(* Threads hang up after asking, and the answer of their request is lost. *)
Answers(c, text) ==
  answer' = IF answer[c] = "none" THEN [answer EXCEPT ![c] = text] ELSE answer

(* Mutant: one thread too many. *)
AcceptCredentialAbove ==
  /\ Accept("credential")
  /\ loop' = "check"
  /\ IF active > Limit
     THEN Answers(Caller, "error") /\ UNCHANGED <<worker, active>>
     ELSE /\ worker' = [worker EXCEPT ![Caller] = "start"]
          /\ active' = active + 1
          /\ UNCHANGED answer
  /\ UNCHANGED <<current, timer, check, failures, interval, resync, sync,
                 lock, fileVars, otherVars>>

(* Mutant: a request over the limit is dropped. *)
AcceptCredentialSilently ==
  /\ Accept("credential")
  /\ loop' = "check"
  /\ IF active >= Limit
     THEN UNCHANGED <<worker, active>>
     ELSE /\ worker' = [worker EXCEPT ![Caller] = "start"]
          /\ active' = active + 1
  /\ UNCHANGED <<current, timer, check, failures, interval, resync, sync,
                 answer, lock, fileVars, otherVars>>

AcceptCredential ==
  /\ Accept("credential")
  /\ loop' = "check"
  /\ IF active >= Limit
     THEN Answers(Caller, "error") /\ UNCHANGED <<worker, active>>
     ELSE /\ worker' = [worker EXCEPT ![Caller] = "start"]
          /\ active' = active + 1
          /\ UNCHANGED answer
  /\ UNCHANGED <<current, timer, check, failures, interval, resync, sync,
                 lock, fileVars, otherVars>>

AcceptSync ==
  /\ Accept("sync")
  /\ loop' = "check"
  /\ IF Synchronizing THEN UNCHANGED <<sync, waiting>> ELSE StartSync
  /\ Answers(Caller, "ok")
  /\ UNCHANGED <<current, timer, check, failures, interval, resync, worker,
                 active, lock, fileVars, budget>>

AcceptReload ==
  /\ Accept("reload")
  /\ loop' = "check"
  /\ interval' = stored
  /\ timer' = stored
  /\ Answers(Caller, "ok")
  /\ UNCHANGED <<current, check, failures, resync, sync, worker, active, lock,
                 fileVars, otherVars>>

(* The loop itself applies a change that needs no network, if the lock is  *)
(* free. *)
AcceptSave ==
  /\ Accept("save")
  /\ IF lock = "free"
     THEN /\ loop' = "apply" /\ current' = Caller /\ lock' = "loop"
          /\ UNCHANGED answer
     ELSE /\ loop' = "check" /\ Answers(Caller, "error")
          /\ UNCHANGED <<current, lock>>
  /\ UNCHANGED <<timer, check, failures, interval, resync, sync, worker,
                 active, fileVars, otherVars>>

Apply ==
  /\ loop = "apply"
  /\ loop' = "check" /\ current' = None /\ lock' = "free"
  /\ version' = version + 1
  /\ stored' \in Intervals
  /\ interval' = stored'
  /\ resync' = TRUE
  /\ saved' = [saved EXCEPT !.loop = version']
  /\ Answers(current, "ok")
  /\ UNCHANGED <<timer, check, failures, sync, worker, active, queue,
                 published, due, otherVars>>

(* The change is refused, or the preferences cannot be read after it. *)
ApplyFails ==
  /\ loop = "apply"
  /\ loop' = "check" /\ current' = None /\ lock' = "free"
  /\ version' \in {version, version + 1}
  /\ Answers(current, "error")
  /\ Spend("failures", MaxFailures)
  /\ UNCHANGED <<timer, check, failures, interval, resync, sync, worker,
                 active, queue, stored, published, saved, due, waiting>>

LoopStep ==
  \/ CheckTokens \/ Spawn \/ Reap \/ Sleep
  \/ AcceptCredential \/ AcceptSync \/ AcceptReload \/ AcceptSave \/ Apply

-----------------------------------------------------------------------------
(* The synchronization thread *)

(* renew_due first: it takes the lock for each profile, and gives up on    *)
(* the renewal when the lock is taken. *)
Renew ==
  /\ sync.pc = "renew"
  /\ IF lock = "free"
     THEN sync' = [sync EXCEPT !.pc = "renewing"] /\ lock' = "sync" /\ UNCHANGED due
     ELSE sync' = [sync EXCEPT !.pc = "open"] /\ due' \in {FALSE, due} /\ UNCHANGED lock
  /\ UNCHANGED <<loopVars, worker, active, queue, answer, stored, version,
                 published, saved, otherVars>>

Renewed ==
  /\ sync.pc = "renewing"
  /\ sync' = [sync EXCEPT !.pc = "open"]
  /\ lock' = "free"
  /\ due' = FALSE
  /\ UNCHANGED <<loopVars, worker, active, queue, answer, stored, version,
                 published, saved, otherVars>>

Open ==
  /\ sync.pc = "open"
  /\ IF lock = "free"
     THEN sync' = [pc |-> "read", read |-> version, ok |-> FALSE] /\ lock' = "sync"
     ELSE sync' = [sync EXCEPT !.pc = "done"] /\ UNCHANGED lock
  /\ UNCHANGED <<loopVars, worker, active, queue, answer, fileVars, otherVars>>

Publish ==
  /\ sync.pc = "read"
  /\ published' = sync.read
  /\ sync' = [sync EXCEPT !.pc = "done", !.ok = TRUE]
  /\ lock' = "free"
  /\ UNCHANGED <<loopVars, worker, active, queue, answer, stored, version,
                 saved, due, otherVars>>

(* Before the publication, or while the success is recorded. *)
SyncFails ==
  /\ sync.pc = "read" \/ sync.ok
  /\ sync' = [sync EXCEPT !.pc = "done", !.ok = FALSE]
  /\ lock' = IF sync.pc = "read" THEN "free" ELSE lock
  /\ Spend("failures", MaxFailures)
  /\ UNCHANGED <<loopVars, worker, active, queue, answer, fileVars, waiting>>

SyncStep == Renew \/ Renewed \/ Open \/ Publish

-----------------------------------------------------------------------------
(* The credential threads *)

WorkerStep(c) ==
  \/ /\ worker[c] = "start"
     /\ IF lock = "free"
        THEN worker' = [worker EXCEPT ![c] = "busy"] /\ lock' = c
        ELSE worker' = [worker EXCEPT ![c] = "failed"] /\ UNCHANGED lock
     /\ UNCHANGED <<active, queue, answer, version, saved>>
  \/ /\ worker[c] = "busy"
     /\ worker' = [worker EXCEPT ![c] = "saved"]
     /\ lock' = "free"
     /\ version' = version + 1
     /\ saved' = [saved EXCEPT !.worker = version']
     /\ Answers(c, "ok")
     /\ UNCHANGED <<active, queue>>
  \/ /\ worker[c] = "failed"
     /\ worker' = [worker EXCEPT ![c] = "none"]
     /\ active' = active - 1
     /\ Answers(c, "error")
     /\ UNCHANGED <<queue, lock, version, saved>>
  \/ /\ worker[c] = "saved"
     /\ worker' = [worker EXCEPT ![c] = "notify"]
     /\ active' = active - 1
     /\ UNCHANGED <<queue, answer, lock, version, saved>>
  \/ /\ worker[c] = "notify"
     /\ worker' = [worker EXCEPT ![c] = "none"]
     /\ queue' = Append(queue, [kind |-> "sync", from |-> c])
     /\ UNCHANGED <<active, answer, lock, version, saved>>

CredentialStep(c) ==
  /\ WorkerStep(c)
  /\ UNCHANGED <<loopVars, sync, stored, published, due, otherVars>>

(* Mutant: the lock is kept after a failure. *)
CredentialFailsLocked(c) ==
  /\ worker[c] = "busy"
  /\ worker' = [worker EXCEPT ![c] = "failed"]
  /\ version' \in {version, version + 1}
  /\ Spend("failures", MaxFailures)
  /\ UNCHANGED <<loopVars, sync, active, queue, answer, lock, stored,
                 published, saved, due, waiting>>

(* The operation fails, before or after its change is stored. *)
CredentialFails(c) ==
  /\ worker[c] = "busy"
  /\ worker' = [worker EXCEPT ![c] = "failed"]
  /\ lock' = "free"
  /\ version' \in {version, version + 1}
  /\ Spend("failures", MaxFailures)
  /\ UNCHANGED <<loopVars, sync, active, queue, answer, stored, published,
                 saved, due, waiting>>

-----------------------------------------------------------------------------
(* The world *)

(* A request reaches the socket of a living agent. *)
Send(c, kind) ==
  /\ loop # "dead"
  /\ answer[c] = "none" /\ worker[c] = "none" /\ current # c
  /\ \A i \in DOMAIN queue : queue[i].from # c
  /\ queue' = Append(queue, [kind |-> kind, from |-> c])
  /\ UNCHANGED <<loopVars, sync, worker, active, answer, lock, fileVars, otherVars>>

TokenDue ==
  /\ ~due
  /\ due' = TRUE
  /\ Spend("events", MaxEvents)
  /\ UNCHANGED <<loopVars, sync, worker, active, queue, answer, lock, stored,
                 version, published, saved, waiting>>

(* The command line, the desktop application or a second synchronization   *)
(* takes the lock, and may change the files. *)
OtherLocks ==
  /\ lock = "free"
  /\ lock' = "other"
  /\ Spend("events", MaxEvents)
  /\ UNCHANGED <<loopVars, sync, worker, active, queue, answer, fileVars, waiting>>

OtherUnlocks ==
  /\ lock = "other"
  /\ lock' = "free"
  /\ version' \in {version, version + 1}
  /\ UNCHANGED <<loopVars, sync, worker, active, queue, answer, stored,
                 published, saved, due, otherVars>>

(* The agent dies with its threads and connections. *)
Die ==
  /\ loop # "dead"
  /\ loop' = "dead" /\ current' = None
  /\ timer' = 0 /\ check' = 0 /\ failures' = 0 /\ resync' = FALSE
  /\ sync' = Idle
  /\ worker' = [c \in Clients |-> "none"] /\ active' = 0
  /\ queue' = <<>>
  /\ answer' = [c \in Clients |->
       IF answer[c] = "none" /\ (worker[c] # "none" \/ current = c
                                 \/ \E i \in DOMAIN queue : queue[i].from = c)
       THEN "lost" ELSE answer[c]]
  /\ lock' = IF lock = "other" THEN lock ELSE "free"
  /\ waiting' = 0
  /\ Spend("failures", MaxFailures)
  /\ UNCHANGED <<interval, fileVars>>

(* launchd and systemd start it again; the first synchronization is due. *)
Restart ==
  /\ loop = "dead"
  /\ loop' = "check"
  /\ interval' = stored
  /\ UNCHANGED <<current, timer, check, failures, resync, sync, worker, active,
                 queue, answer, lock, fileVars, otherVars>>

-----------------------------------------------------------------------------
Init ==
  /\ loop = "check" /\ current = None
  /\ timer = 0 /\ check = 0 /\ failures = 0 /\ resync = FALSE
  /\ stored \in Intervals /\ interval = stored
  /\ sync = Idle
  /\ worker = [c \in Clients |-> "none"] /\ active = 0
  /\ queue = <<>> /\ answer = [c \in Clients |-> "none"]
  /\ lock = "free"
  /\ version = 1 /\ published = 0 /\ saved = [loop |-> 0, worker |-> 0]
  /\ due \in BOOLEAN /\ waiting = 0
  /\ budget = [kind \in {"failures", "events"} |-> 0]

Next ==
  \/ LoopStep \/ ApplyFails
  \/ SyncStep \/ SyncFails
  \/ \E c \in Clients :
       CredentialStep(c) \/ CredentialFails(c) \/ \E kind \in Kinds : Send(c, kind)
  \/ TokenDue \/ OtherLocks \/ OtherUnlocks
  \/ Die \/ Restart

Spec == Init /\ [][Next]_vars

(* Threads that can run do, other programs let go of the lock, and a dead  *)
(* agent is started again. *)
Fairness ==
  /\ WF_vars(LoopStep) /\ WF_vars(SyncStep)
  /\ \A c \in Clients : WF_vars(CredentialStep(c))
  /\ WF_vars(OtherUnlocks) /\ WF_vars(Restart)

FairSpec == Spec /\ Fairness

-----------------------------------------------------------------------------
(* The types. *)
TypeOK ==
  /\ loop \in {"check", "spawn", "reap", "accept", "apply", "dead"}
  /\ current \in Clients \union {None}
  /\ timer \in Nat /\ check \in Nat /\ waiting \in Nat
  /\ failures \in Nat /\ active \in Nat
  /\ version \in Nat /\ published \in Nat
  /\ interval \in Intervals /\ stored \in Intervals
  /\ resync \in BOOLEAN /\ due \in BOOLEAN
  /\ sync \in Thread
  /\ worker \in [Clients -> {"none", "start", "busy", "saved", "failed", "notify"}]
  /\ queue \in Seq(Request)
  /\ answer \in [Clients -> {"none", "ok", "error", "lost"}]
  /\ lock \in {"free", "loop", "sync", "other"} \union Clients
  /\ saved \in [loop: Nat, worker: Nat]
  /\ budget \in [{"failures", "events"} -> Nat]

(* The loop's count is the number of threads that hold a place, so that no *)
(* place is lost or given twice, and there are never more than the limit.  *)
Counted == {c \in Clients : worker[c] \in {"start", "busy", "saved", "failed"}}
PlacesExact == active = Cardinality(Counted) /\ active <= Limit

(* Nobody works on the files without the lock, and whoever has the lock is *)
(* at work: no path of the loop or of a thread keeps it. *)
LockOwned ==
  /\ lock = "loop" <=> loop = "apply"
  /\ lock = "sync" <=> sync.pc \in {"renewing", "read"}
  /\ \A c \in Clients : lock = c <=> worker[c] = "busy"

(* A synchronization that publishes everything up to version v is running, *)
(* requested or due at once. *)
WillPublish(v) ==
  \/ published >= v
  \/ resync \/ timer = 0
  \/ sync.pc \in {"renew", "renewing", "open"}
  \/ sync.pc = "read" /\ sync.read >= v

(* A change the loop has acknowledged is published by the very next        *)
(* synchronization, which does not wait for the interval; only failing     *)
(* delays it. *)
SaveIsSynchronized ==
  WillPublish(saved.loop) \/ failures > 0 \/ (sync.pc = "done" /\ ~sync.ok)

(* The next attempt is never further away than the loop's own interval,    *)
(* or, after failures, the delay of the retry. *)
AttemptInTime ==
  \/ Synchronizing \/ resync
  \/ timer <= Max(PeriodicDelays(interval)) /\ failures = 0
  \/ timer <= Max({interval, RetryDelay(failures)}) /\ failures > 0

(* A due token waits for the next look at the tokens, not for the interval *)
(* of the synchronization. *)
RenewalPrompt == waiting <= CheckEvery + 1

(* Every change reaches the managed SSH configuration, whoever made it and *)
(* whatever failed or died meanwhile. *)
EveryChangePublished ==
  \A v \in 1 .. Cardinality(Clients) + MaxEvents + 1 :
    version >= v ~> published >= v

(* Nobody waits for an answer forever: the loop never waits for a thread   *)
(* that waits for the loop. *)
EveryRequestAnswered ==
  \A c \in Clients :
    (\E i \in DOMAIN queue : queue[i].from = c) ~> answer[c] # "none"
=============================================================================
