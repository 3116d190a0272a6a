# Verification of WarpgateSH

WarpgateSH keeps a workstation's OpenSSH configuration in step with one or more
Warpgate bastions: a background agent asks each server which SSH targets the
user may reach and publishes them as host aliases, and it manages the personal
API tokens this needs.  This directory models the parts of the program whose
correctness depends on the order of steps (which of them may fail, be
interrupted by the end of the process, or interleave with those of another
thread or program) and the algorithms that the steps rely on.

Run a model with `tlc -workers 2 -config <name>.cfg <module>.tla`; check the
proofs with `tlapm` on the modules whose names end in `Proofs` or `Types`.

## 1. The system

| Component | State | Operations | Hard because | Correct when |
|---|---|---|---|---|
| Token lifecycle (`runtime/token_lifecycle.rs`, `token_api.rs`) | journal record per profile in the secret store, the profile's token, status cache, tokens on the server | enroll, rotate, renew_due, set_automatic, clear_management | every operation is a series of network calls and writes; a crash or lost answer may follow each; retries find any intermediate state | no live token is lost, no token in use and none of the user's is revoked, disabling holds, an unexpected token is not overwritten but in the gap between a look and its write |
| Configuration mutations (`runtime/configuration.rs`) | profiles.json, preferences.json, known_hosts files, tokens | save, paste, set authentication, remove, save preferences | several files per operation, no transaction over them | a failure leaves something a retry or a synchronization can mend |
| Synchronization (`runtime/sync.rs`, `ssh.rs`) | managed ssh_config, snapshot.json, catalog metadata, pinned keys | verify_and_synchronize_all, synchronize_all | asks every server first, then replaces three files one by one, on a copy of the catalog | never partial, loses no user's change, trusts no new key, converges |
| Background agent (`warpgatesh-agent`) | deadlines, failures, resync flag, threads, request queue | main loop, sync / reload / mutate requests, credential threads | one loop, several threads, a nonblocking lock, restarts | nothing acknowledged is forgotten, deadlines are kept, nobody waits forever |
| Configuration lock (`configuration_lock.rs`) | an exclusive file lock | acquire, drop | it refuses instead of waiting | held exactly by who is at work |
| Profile catalog (`core/profiles.rs`) | list of profiles, default | upsert, remove | default follows removals | the default is a profile |
| Callers (`warpgatesh-cli`, `companion/commands.rs`) | what each has read and shown to the user | profile add, login, renew, remove, set-authentication, set-default | read and ask without the lock, then send one mutation | only approved keys are pinned, a token belongs to its profile |
| Service setup (`runtime/launchd.rs`, `companion/agent_setup.rs`, `companion_login.rs`, `installation.rs`) | property list, launchd's definition, login item, link, saved choice, what profiles leave behind | install, remove, enable, defer, initialize, save preferences, link, uninstall | a series of refusable effects without a lock, retried after any of them | a success means what it says; what others had when a call looked is not touched |
| Aliases and managed SSH configuration (`core/aliases.rs`, `ssh_config.rs`, `runtime/ssh.rs`) | – | allocate names, edit `~/.ssh/config`, find manual hosts | collisions of normalized names, cycles and links, idempotence | names are distinct and usable, the user's text is kept |
| Command line and shell (`cli/main.rs`, `cli/shell.rs`) | – | parse, arguments of ssh, edit `.zshrc` | options with and without values, damaged markers | options reach ssh, the user's text is kept |
| Schedule (`core/schedule.rs`) | – | retry_delay, periodic_delay | doubling and jitter at the edges of the types | bounded, monotone delay |
| Diagnostics (`runtime/diagnostics.rs`) | log files by day | record, prune, preview, export | several writers, nested values, old logs | nothing secret leaves, nothing else is lost |
| macOS application (Swift) | shown state, pending bridge requests | polling, actions, bridge | stale polls, timeouts, a dying child process | the newest state wins; every request ends |

How they interact: the command line, the companion and the agent's own threads
meet at two places only.  Requests travel over a local socket that the agent
reads one at a time; each answer says whether the change was made.  Everything
that writes configuration takes `configuration.lock` without waiting: the agent's
loop for plain changes, its credential threads, its synchronization thread, and,
when the agent is switched off, the companion or `warpgatesh-agent --once`.  The
Warpgate servers change on their own.  The registration of the agent and the
installation of the application are outside that lock: any two of these calls may overlap.

PROJECT.json lists the components with what is modelled of each, and the
hazards: places in the code where an order of events that no test covers could
go wrong, with the properties that watch over them.

## 2. Modules

| Module | Models | Notes |
|---|---|---|
| `CredentialContract` | what the management of a credential promises | abstract specification: create, adopt, provide, delete |
| `TokenLifecycle` | one profile's credential through all operations of token_lifecycle.rs and the manual changes of configuration.rs | one action per effect on the server, secret store or files |
| `TokenLifecycleInvariant` | the inductive invariant | checked by TLC, then proved |
| `TokenLifecycleTypes`, `TokenLifecycleProofs` | theorems | TLAPS |
| `Synchronization` | the local files of all profiles, a synchronization and a configuration change with their single writes | two processes, one lock |
| `SynchronizationProofs` | its inductive invariant and theorems | TLAPS |
| `AgentLoop` | the agent's main loop, its threads and its clients | contents of files abstracted to a version |
| `AgentLoopProofs` | its inductive invariant and theorems | TLAPS |
| `ProfileCalls` | callers that add, renew and remove profiles, from their reading to their mutation | a mutation is one step, which may break off |
| `ProfileCallsProofs` | its inductive invariant and theorems | TLAPS |
| `ServiceSetup` | registration, login item, link, uninstallation, manual mode | one action per outside effect |
| `ServiceSetupProofs` | its inductive invariant and theorems | TLAPS |
| `Workstation` | the callers and profiles that these two modules have in common | constants |
| `Evaluation` | an algorithm as one step from an input to an output | what the algorithms share |
| `Aliases`, `Schedule`, `CommandLine`, `HostFiles`, `ManualHosts`, `Diagnostics` | an algorithm each, or a few, with its step and what is true of it | the names of the source; what the results are compared with stands at the end of each |
| `TextProofs` | theorems about `CommandLine` and `HostFiles`, and induction over positions | TLAPS |
| `AlgorithmProofs` | theorems about the other four | TLAPS |
| `Operators` | the algorithms together, one evaluation of one of them | for TLC |
| `MC…` | values and symmetry for TLC | `MCSynchronizationLive` adds a history variable, `unsure` |

The first three system modules cut the program along its lock.  Inside a critical
section `TokenLifecycle` (one profile, all effects of the credential) and
`Synchronization` (several profiles, all files) say what happens to the data;
`AgentLoop` says when critical sections start, and that they exclude each other.
What one module needs of another appears in it in a small form: a synchronization
is the single action `SynchronizeProfile` of `TokenLifecycle` (it renames the
profile), the renewal is `Renew`/`Renewed` of `AgentLoop`, the token operations of
managed profiles keep `token[p]` true in `Synchronization`.  `ProfileCalls` and
`ServiceSetup` are the side of the callers: what happens before a request takes
the lock, and what never takes it.

In every module an operator whose comment begins with "Mutant:" is not part of the
specification.  It is the definition below it with a plausible error, which
PROJECT.json uses to show that a property depends on the code.

### TokenLifecycle

An operation is a record `op` with a program counter; `mem` is its copy of the
journal record.  The source's local variables that live across an effect are fields of
`op`.  Each effect is an action: `Authenticate`, `Reauthenticate`, `Sweep` (the
search for tokens of an earlier attempt), `Issue`, `Validate`, `Discard`, `Compare`,
`Switch`, `Retire`, `WriteRecord`, `WriteCache`, and for manual changes `Store`,
`WriteHostKeys`, `WriteCatalog`, `Clear`, `ClearCache`.  `persist` is `WriteRecord` followed by
`WriteCache`.  Between any two effects `CallFails`, `Crash`, `Tick`, `Lapse`,
`ReplaceOutside`, `Rename` may happen; the last four, failures and crashes count against
`MaxDisruptions`.  A request whose answer is lost has had its effect.  `op.pc`
other than `idle` means that the lock is held.

The secret store has no compare-and-set.  `Compare` reads the stored token, `Switch` replaces
whatever is stored by then, and `ReplaceOutside` needs no lock and may come between
the two.  `op.overtaken` is history: it says that it did.  `UnexpectedPrimaryKept` excepts exactly
that write; what has been replaced before the look is never overwritten, however many
failures, crashes and retries lie between.

A secret is named by the token it authenticates.  Times are small integers:
`Lifetime`, `Lead`, `Grace`, `BaseDelay` and `MaxDelay` stand for the 30-day
lifetime, the renewal window, the five minutes, 60 and 3600 seconds; only their
order matters.  `Labels` bounds the rotations, `Issuable` the tokens the server creates.

### Synchronization

`server[p]` is what the server of a profile answers and presents: its SSH
endpoint, host key, and list of targets.  `catalog`, `token`, `pins`, `config`
and `snapshot` are profiles.json, the secret store, the known_hosts files, the
managed ssh_config and snapshot.json.  `sync` runs the two loops of sync.rs:
`Verify`, `Scan` and `WritePin` for the first, `Render` and `List` for the second
(the two calls to the server in each are separate steps, for the server may
change in between), then `WriteConfig`, `WriteSnapshot`, `WriteCatalog`.  `edit`
is a change: what it has computed from its first read, and its writes `EditToken`,
`EditHostKeys`, `EditCatalog`.  Both may fail or die at every step.

A pin names the endpoint because OpenSSH looks a key up by host and port, and
the generated configuration sets `StrictHostKeyChecking yes`.  `PinsFollow` in
`MCSynchronizationLive` is about that: pins are rewritten before the other servers have answered, and the next
run decides by the catalog whether to rewrite them.  Its history variable `unsure` names the profiles for
which that decision can be wrong for good: their server moved between the two questions of one run or
while pins and catalog named different endpoints, or a save was cut off between the two files.

The version and user name in the catalog behave as the endpoint does and are
left out.  `save_preferences` writes preferences.json before the catalog; that file is
`stored` in `AgentLoop`.  The `Include` line of `~/.ssh/config` is in `HostFiles` as a
text and in `ServiceSetup` as a trace the product leaves.

### AgentLoop

`loop` is the station of the main loop: the look at the tokens (`CheckTokens`,
every 30 seconds), `Spawn`, `Reap`, accepting one request or sleeping, and `apply`
while the loop itself makes a change under the lock.  The synchronization thread is
`sync`, with the version of the files it has read; a credential thread belongs to the client that asked
(`worker[c]`), sends its own `sync` request when it is done, and is counted in
`active`.  `timer` and `check` are the two deadlines.  `Die` and `Restart` are the
end of the process, by a crash or by an error that `run_forever` returns, and the service manager.
`other` as the holder of the lock is the command line, the companion, or a second synchronization.

Abstractions: time passes while the loop sleeps, one unit each time; a client
sends its line as soon as it connects, as `ipc.rs` does; each client sends one request;
a status request, which changes nothing, is left out; whether a token is due is a
flag.  `failures` saturates at `CountLimit` instead of 2^32-1, beyond the
point where the delay stops growing.

### ProfileCalls

`request[c]` is one run of the command or one request of the companion: what it has
read or been told (`name`, `server`, `user`, `endpoint`, `key`) and where it is.  Adding
a profile is `Scan` or `Inspect`, `Confirm` by the user, for the companion
`Rescan`, and `Save`.  `Rescan` asks the server for its endpoint again, which may be another by
now, and compares what stands there, host and key (`Line`), with what the user was
shown (`verify_expected_fingerprints`).  A new token is `Read` or
`Reconnect`, `Validate`, and `Renew`.  The other mutations go from `Ask` to
`Remove`, `Authenticate` or `MakeDefault`.  Other callers and `Change` (an endpoint presents
another key) come in between.  A mutation runs under the lock and readers
see it through its last write, so it is one step; when it breaks off
it leaves what was written first, and its profile is recorded in `torn`, as is one whose
token was checked against an entry that has been saved for another server meanwhile.
`GiveUp` is a timeout or the absence of an agent.  A token is the account and
server it belongs to; fingerprints are keys.

### ServiceSetup

`call[c]` is one call with its station.  `Compare`, `Probe`, `Bootout`, `Bootstrap`,
`Version`, `Kickstart` are `ensure_installed` and what the command line and the
companion add to it; `Compare` is the look at the property list and `List` its replacement.
`ProbeOut`, `Unload`, `Unlist` are `launchd::uninstall`;
`Registered`, `Settle`, `Decide` are `agent_setup`.  `Login`, `Associate` and `Logout` look at the login
item, `Rewrite` and `RemoveLogin` replace and remove it; `Detect`, `Verify` and `Unlink` look at the link,
`Symlink` and `RemoveLink` make and remove it; `Names` to `Trash` are the uninstallation;
`Send`, `Write`, `Stopped` a change of a profile with the five places it writes.
`Fail` stands for every refusal of an effect and for the death of the process
before it; `LogIn`, `Upgrade`, `Reinstall`, `InstallCommand`, `InstallItem` are what else happens
on a machine: the last two are other programs, which write to the places of the link and the login item
at any time, also between a look and the effect that follows.  launchctl refuses to stop what is not loaded and to start what is.

Three fields serve the properties only.  `alone` says that no other call and
no event overlapped a call, because no property of a single call could hold while another
one undoes it; the calls *before* it may have failed anywhere.  `stray`
names profiles whose change was cut off or met a deletion.  `overtaken` says that another program
put something where the call has looked, and is about to remove or replace what it saw.

A machine starts without the service, with the bundled one, or with one that
another installation registered; `Traces` and `Machines` say what else was there.

### The algorithms

A name or a word is a sequence of characters, of an alphabet with a letter in both
cases, a hyphen, a dot and one character that is in no name.  A text is a
sequence of the pieces that the code tells apart: `I` for the Include directive, `S`, `E`, `B` for the
lines of the shell block, `N` for the end of a line, a blank, `x` for anything
else; in events the markers, a blank, `x` and the asterisks.  Some markers end in a blank themselves
("bearer ", "cookie: "), so that they end the word in front of them too (`Spaced`); they are replaced one after
the other in the order of the code's list.  An event is a JSON value of up to
`Nesting` levels: a text, a number, a list, or an object, which is a sequence of fields.
A file of SSH configuration is a
sequence of lines, each with host patterns, with an included file, or with an Include pattern that is malformed;
a file may be missing, which is no error, or unreadable, which ends the search.  (A directory that cannot
be listed while a pattern is expanded is passed over in silence: ssh.rs:242.)  The hash in
a name is a constant (`Suffix`).  Integers of `Schedule` saturate at `Longest`, as
those of the source do at their width.

A loop of the source is a function over the positions it passes, and its result the last value:
`lines[i]` is what has been read of a text up to its piece `i`, `turn[i]` a text
and its cursor after `i` replacements, `collect[depth]` what a search does that may
call itself `depth` times.  The number of turns is bounded by the length of the input, the
number of nested calls by the files there are, and that of levels by `Nesting`, so
that the loop has always ended there; the theorems of section 4 say so.

`Operators` evaluates each algorithm on every input of a bounded set.  What must be true of
the output is stated without following the algorithm: `IsJoined` counts the positions of
characters, `UserText` looks for the marker lines, `Reached` is what every closed
set of files has in it, `Hidden` reads a text once, `Clean` compares a value with what became of
it, and ssh's reading of its arguments is written down from ssh's side.

An export takes its list of files in a preview and opens each of them later.  Meanwhile the agent and
the companion go on: `later` is what they have recorded in each file by the time it is opened, or that they
have pruned it (`Possible`: only a file that has reached the retention).  An export reads what is there
when it opens a file (`Opened`) and ends with an error if one is gone, while its manifest has the counts of the preview.

Left out: the modes and paths of files; the ZIP format; a line that is half written when it is read.

## 3. What is checked

Each run, its properties and one mutant for every property are in PROJECT.json.
A mutant is a plausible error in the code (a guard dropped, a reset
forgotten, the lock not released) under which the property must fail.

| Run | Bounds | States | Shows |
|---|---|---|---|
| `MCTokenLifecycle` | 1 user, 1 pin, 1 pasted token, 2 issuable tokens, 2 labels, clock 2, 2 disruptions, failures counted to 2 | 1.2 M | the inductive invariant and the six safety statements below, and that the lifecycle implements `CredentialContract` |
| `MCSynchronization` | 2 profiles, 2 endpoints, 2 keys, 2 listings, 3 changes, 1 server change, 1 failure | 1.9 M | the inductive invariant `CopiesFaithful` (with the default of every change among its profiles), `NeverPartial`, `ChangesKept`, `TrustKept` |
| `MCSynchronizationLive` | the same with 1 key, 1 listing and 2 server changes | 1.1 M | `Converges`, `PinsFollow` |
| `MCAgentLoop` | 2 clients, limit 1, intervals 3 and 4 with jitter 1, backoff 1 to 2, 1 failure or death, 1 event | 4.1 M | `PlacesExact`, `LockOwned`, `SaveIsSynchronized`, `AttemptInTime`, `RenewalPrompt` |
| `MCAgentLoopLive` | the same with one interval and no event | 0.28 M | `EveryChangePublished`, `EveryRequestAnswered` |
| `MCProfileCalls` | 2 callers, 2 profiles, 2 servers, 2 users, 2 endpoints with 2 keys; 2 calls, 1 change of a key, 1 failure | 0.57 M | `ApprovedTrust`, `CredentialMatches` |
| `MCServiceSetup` | 2 callers, 2 profiles; 2 calls, 1 failure, 1 event | 1.9 M | `UninstallLeavesNothing`, `EnsureStarts`, `StartupCreatesNothing`, `ForeignKept` |
| `MCOperators` | names up to 4 characters, up to 3 targets, 4 arguments, texts of 5 to 7 pieces, 3 files and a link, values in values in values, 3 markers, 2 logs written and pruned meanwhile, 16 ticks | 0.1 M | the eight statements about the algorithms |

Why the bounds are enough: two issuable tokens are an old and a new one, which is all that an
operation ever holds, and two disruptions let a crash meet a manual change or a
rename.  Two profiles are needed for one of them to fail while the other has
answered; three changes create both and then change one.  Two clients with a limit of one reach
the limit; each may be the loop's own change, a credential thread, or a plain request, and the
intervals are longer than the look at the tokens and the backoff, as in the code.
On the desktop two calls are a first attempt that fails and its retry, or two
calls that overlap; the machine is in every state that earlier calls can have left.
Two servers and two users are the profile's own and another; one event is the program
that gets between a look and its effect.  `MCProfileCalls` starts with profiles of one account, and the accounts
are interchangeable.  The inputs of `MCOperators` are long enough for two edits or two collisions to meet in
one input: a name that equals what the hash makes of another, three targets of
which two become alike, a marker that is cut in two, an include that leads back.

The properties, in words:

- `NothingOrphaned`: every live token the application created stays findable
  through the journal, until a manual change ends the management.
- `JournaledBeforeInstalled`, `RetiredNotInUse`, `ImportedNeverRevoked`: what is
  installed is in the journal, what waits for deletion is not in use, what the user made is never deleted.
- `UnexpectedPrimaryKept`, `DisabledMeansNoReplacement`: a token is replaced only
  if it is the one the journaled intent saw, or came in the gap between the look and this write, and not at
  all while renewal is off.
- `NeverPartial`: the managed configuration is replaced only by one with a section for every
  profile and with the current choices.
- `ChangesKept`: the last write of a synchronization, of a copy read long before, takes nothing back.
- `CopiesFaithful`: what a thread has read stays true until it writes it; the reason for the three around it.
- `TrustKept`: no synchronization changes the key a user approved.
- `Converges`: after any failure, the three files come to agree with each other
  and with the servers, unless a profile needs its user.
- `PinsFollow`: also the pins come to name what is published, unless a profile is `unsure` or needs its user.
- `PlacesExact`, `LockOwned`: the agent's count of threads and the lock agree with who is at work.
- `SaveIsSynchronized`: a change the loop acknowledged is in the very next synchronization, even
  if it was made while one was finishing.
- `AttemptInTime`, `RenewalPrompt`: deadlines hold in every order of failures, changed intervals, and requests.
- `EveryChangePublished`, `EveryRequestAnswered`: liveness of the agent as a whole.
- `ApprovedTrust`: a profile is pinned only to a key the user was shown for this profile
  and endpoint, although the key may change between the scan shown and the scan saved.
- `CredentialMatches`: a profile's token is of the account and server that the profile names, whoever
  else saved it between the check and the write, but for the cases in `torn`.
- `UninstallLeavesNothing`: a reported uninstallation left nothing of the product, first
  attempt or retry.
- `EnsureStarts`: a call that registers or needs the agent and reports success
  leaves it running, also after launchd refused half of an earlier one.
- `StartupCreatesNothing`: starting the companion registers nothing new.
- `ForeignKept`: a login item or a file that is not the product's when a call looks at it is kept; what is lost at
  all came between the look and the effect of one and the same call.
- `AliasesDistinct`, `TargetsReachable`: aliases differ in any letter case, are safe names
  for ssh and the shell, and are made of the target's name.
- `ArgumentsPlaced`: the alias goes between the user's words, none of which is lost, changed or moved; if the options
  are complete and none is a cluster that asks for its value in the next word, ssh reads it as the destination.
- `IncludeRestored`, `ShellRestored`: editing twice is editing once, and taking the edit
  out gives the user's file back, or nothing is done.
- `ManualHostsFound`: exactly the hosts declared by hand, through cyclic includes and links, or an
  error if one of these files cannot be read to its end.
- `RedactionComplete`: an archive has every event and no secret of it at any depth, whatever is recorded and pruned
  while it is made.
- `DelaysBounded`: delays double up to their maximum and never shrink, at every width.

### Disagreements between the code and its documentation

Four runs end with a counterexample; each checks one sentence of the documentation.

- `MCTokenEnrollment`: an enrolment that died inside `save_profile` is closed
  as committed, without profile and host keys (token_lifecycle.rs:434).
- `MCTokenRename`: after a rename of the identity the retry of an interrupted
  switch revokes the installed token (token_lifecycle.rs:425).
- `MCSynchronizationTrust`: a server that moves between the two questions of one run is
  published at an endpoint that no pin names, for good (sync.rs:41).
- `MCOperatorsAmbiguous`: a target of the default profile whose name has a dot may have the
  qualified alias of another profile's target as its short alias (aliases.rs:131).

Others were met while reading and modelling; no run checks them by themselves.  Where a property
would be false because of one, its statement names the exception.

- The five minutes of grace start with the operation, not with the durable
  replacement (token_lifecycle.rs:456).
- A token stored by hand between the comparison and the replacement of the stored token is overwritten
  (token_lifecycle.rs:433, :449).
- Host keys are rewritten for a moved endpoint before all servers have answered, and a failure
  then breaks working aliases until the next run, or, if the server moves back
  before it, until the profile is saved again (sync.rs:42).
- A removal that is cut off before it saves the catalog leaves a profile which no
  synchronization passes, and with it none of the others is published any more (configuration.rs:267).
- A login item or a command that another program installs between the look and the removal or the replacement is lost;
  for the command that may be as long as the administrator takes to answer (companion_login.rs:51, :95;
  installation.rs:323).
- An uninstallation that keeps the data keeps the choice of background synchronization too: the application
  installed again finds that a decision was made and does not ask, while no agent is registered (agent_setup.rs:70).
- The synchronization requested after an enrolment is dropped if another one has
  finished but is not collected (agent main.rs:372).
- When launchd refuses to stop the old definition after its property list was
  rewritten, the retry finds the list unchanged and the service loaded, and
  reports success with the old definition running (launchd.rs:37).
- The secrets of an enrolment that was cut off before its profile and its cache entry
  were written are named by neither and survive the deletion of the data (installation.rs:142).
- `login` and `renew_token` check a token against a profile that another
  caller may since have saved for another server; the command does not compare user names either.
- `profile set-default` sends back the preferences it read outside the lock (cli main.rs:253).
- The command line registers the agent again after the companion's user chose to defer it.
- `initialize` may register again what a removal takes away between its look and
  its registration (agent_setup.rs:65).
- The companion changes the login item before the mutation that may fail (commands.rs:211).
- `remove_managed_include` removes only the first directive if it is at the start of the file.
- A cluster of ssh options whose last one wants a value in the next word ("-vp 22") misplaces the alias: it is
  put in front of the value (cli lib.rs:105), although README.md:105 says "Pass regular OpenSSH arguments after `--`".
  The second half of `ArgumentsPlaced` excludes such clusters by name.

### Fairness

`TokenLifecycle`, `ProfileCalls`, `ServiceSetup` and `Operators` have none: their properties are safety, and
every one of them holds for an operation that
stops anywhere.  `Synchronization` assumes that the agent keeps
starting synchronizations (its loop does so at every deadline, and the lock is free whenever nobody works) and that a
running thread goes on; nothing forces a user to act, a server to change or a call to fail.
`AgentLoop` assumes that its loop, its threads and other lock holders go on, since all
their calls have time limits (15 seconds for HTTP, 5 for the key scan), and that the service manager restarts the agent
(`KeepAlive` for launchd, `Restart=on-failure` for systemd).  Failures are bounded, so that
they cannot repeat forever.

## 4. What is proved

All theorems hold for every value of the constants that satisfies the named
assumptions (disjoint sets of tokens, `None` distinct from every value, `0 < Lead < Lifetime`,
finite sets of profiles and clients, clients distinct from the other holders of the lock,
login items and links of the kinds the code tells apart).

`TokenLifecycleTypes` proves the type invariant.  `TypeOK` alone is not inductive: an
operation's step reads fields of its copy of the record, so the invariant adds that
at each station the copy has what the station reads.

`TokenLifecycleProofs` proves `SafetyInv` inductive and derives from it, as theorems of the
specification, every safety property of the run: `Journaled`, `RetiredApartFromUse`,
`ImportedSafe`, `Replacement`, `Disabled`, `NoOrphans`, and `Implementation`, the refinement of `CredentialContract`.  The argument:

- A record is *sound* when it names only issued tokens, keeps retired ones apart
  from those in use, names the primary if that is one of ours, marks its own
  tokens with its label, and is cancelled when renewal is off.
- `DurableInv`: the journal is always sound.  This alone is not inductive, because the
  journal is overwritten with the operation's copy.
- `CopyInv`: hence the copy agrees with the journal wherever nothing is pending,
  and when it is about to be written it is sound and keeps every live token.
- `StepInv`: what an earlier step established and a later one relies on, such as
  that at `Issue` no other token carries the label.

World actions only ever make tokens dead or leave the record alone, and soundness is stable under both.
The refinement needs one hypothesis, `SingleIdentity` (one user name): with two, `MCTokenRename`
shows a step the contract forbids.

`SynchronizationProofs` proves `TypeOK`, `NeverPartial`, `ChangesKept`, `TrustKept` and
`DefaultKnown` for any number of profiles, changes and failures.  None of the last four is inductive:
each is about a write of something read many steps before.  `CopiesFaithful`
bridges the gap: one thread works at a time, the copy of the catalog in a synchronization
differs from the file in endpoints only, exactly the profiles already
asked have a rendered section made from the choices in the file, a scanned
key that is about to be written is the pinned one, and the catalog a change will write has
its default among its profiles.  That the first profile of a set exists rests on the library's theorem that `<`
on the naturals is well founded.

`ProfileCallsProofs` proves `CallTypeOK`, `ApprovedTrust` and `CredentialMatches` for
any number of callers, profiles, servers, accounts, endpoints and keys.  Neither of the last two is
inductive, since a mutation writes what its caller carries; nor is the type invariant, since
`Renew` writes an account that a request need not have.  `CallInv`
adds `RequestsSound`: at each station a request has what the station reads, and one that
is about to be sent for a new profile carries a key which the user has approved for its name and endpoint.  A
mutation of one caller leaves the requests of the others alone, and approvals are never withdrawn, so
that what a caller knows stays true however long it waits.  One lemma says this of
every step that leaves the files alone (`FilesKept`); the five mutations have a lemma each.

`AgentLoopProofs` proves the six safety properties of `AgentLoop` for any number of clients and any
schedule.  They need each other: that the count of threads is a natural number (`TypeOK`) holds
only because it is exact (`PlacesExact`), and that is kept by an accepted request only because its client has no
thread yet.  `AgentInv` adds what connects the stations of the loop:

- `QueueInv`: a client has at most one request in the queue, and no thread works for it meanwhile.
- `PublicationInv`: an acknowledged change that is not published has a request for a synchronization, a
  thread that has yet to read the files or has read them since, or a failure behind it.  A timer that has run
  out counts only until the loop next looks at it, which is why the station matters.
- `DeadInv`: a dead agent has forgotten its schedule.  `AttemptInTime` is not inductive without it, because
  an agent may be started with preferences that were saved while it was dead.
- `RenewalInv`: while a token is due and nothing else goes on, the next look at the tokens comes closer
  with every pause of the loop, and once it has taken place the next station starts the renewal.

`ServiceSetupProofs` proves `SetupTypeOK` and the four properties of calls for any number of callers, profiles and
earlier failures.  Each of the four says what holds when a call ends, some twenty effects after it
began, and none of those effects is under a lock.  `SetupInv` says of each station:

- `StationInv`: which calls come there, so that the branches of a shared effect are known.
- `AloneInv`: what a call that nothing overlapped has done so far is still so: no other call is
  active, and every step of another call or of the outside ends the claim.
- `CoverInv`, `MetInv`, `ListedInv`: a secret is named by the catalog, by the cache or by an ongoing change, or it is a
  stray (what a cut off change left, or wrote during an uninstallation).
- `EraseInv`: hence an uninstallation has, at each of its stations, the names of all secrets that are still there.

The last two are what `UninstallLeavesNothing` is about: the names are read once, before the first secret is
deleted, and each is deleted in two stores.

The algorithms are proved for inputs of every length.  A loop is a recursive
function over the positions of its input; the prover knows nothing of such a function but
the choice that defines it.  So `TextProofs` first shows that a function made step by step exists
(`Recursion`), by an induction over a set of numbers that rests on the library's
theorem that `<` is well founded (`SetInduction`).  `UpTo` is that induction over the positions of one
input, and `WordInduction` over the words of an alphabet.  A loop that only adds one piece after another is the
fold of its step (`FoldIs`, `FoldGrows`), and what it makes of a longer text follows
from what it makes of a shorter one.

`TextProofs` proves

- `ArgumentsPlaced`: for every list of words none is lost or moved; and for complete options without a cluster
  that asks for its value, the code's search for the destination stops where ssh's own reading does
  (`EndsAgree`), so that what is put there reaches ssh as its first operand;
- `IncludeRestored`: a text is cut into lines and put together again without loss, and so the lines of
  the user stay, in their order;
- `ShellRestored`: the startup file is what is before, inside and after the marker lines
  (`PairFound`), the code takes out exactly the inside, and the file it leaves has none.

`AlgorithmProofs` proves

- `DelaysBounded`, for every schedule, number of failures and width (powers of two grow because a
  larger set has more subsets);
- `AliasesDistinct`, for any number of targets, names and identifiers;
- `TargetsReachable`, for any profiles: the normalized name is the name's runs of letters and
  digits, joined by hyphens, character by character;
- `ManualHostsFound`, for any files, cycles of includes, links and unreadable files: a file
  that was visited has been searched or is being searched, and as every nested call visits another
  file, the calls end before the depth does;
- `RedactionComplete`, for any markers in any order, with and without a blank at their end, texts, levels of
  nesting, logs and number of events, also those that are recorded while the export runs.  The code replaces one marker after another, each in turns from left to right, with a cursor;
  `Hidden` reads the text from end to end, once for each marker.  After each turn
  the text is what one such pass has written so far, followed by the unread rest (`At`, `TurnIs`).  Behind a
  marker there is then nothing but the redaction (`Guarded`), and the passes for later markers keep it
  so, as they only take words away (`HidesInOrder`, `GuardKept`).  What is recorded is redacted once
  more by an export, which must find nothing to change (`HiddenAgain`).  The
  values follow level by level (`PartSettles`).

The assumptions say what the model's data are: the alphabets contain what the code looks for; a word of the
program's own commands has no dot, as the aliases that need one do; identifiers have different hashes
of letters and digits, all of one length (a collision is left out); `None`, `Refused` and
`Broken` are no names, texts or values; there are finitely many files; what the code writes, "*", and a blank alone are no markers.  TLC evaluates them on the inputs of its run.

Not proved, checked by TLC only: the liveness properties `Converges`, `PinsFollow`, `EveryChangePublished` and
`EveryRequestAnswered`.  They need fairness and enabledness, which the prover does not handle.
Every safety property of the passing runs is proved.

## 5. Plan

Modelled so far, in this order: the credential (the data that cannot be
recreated), the synchronization (the product's purpose), the agent's loop (what ties both together), the
callers, the machine around them, the algorithms.  Next:

1. Liveness of retirement and of renewal in `TokenLifecycle`, on smaller bounds, with the renewal that a renamed
   identity silently skips.
2. The start of the agent: two agents and one stale socket, a client that connects and is silent.
3. `CompanionModel` and `NativeBridge` of the macOS application: polls against actions with a
   revision, timeouts and a child process that dies.

### Not modelled

- systemd: `ensure_installed` and `uninstall` follow the order of their launchd counterparts with
  other commands; the model is of launchd.
- The companion's displayed state, alerts and the limit of its requests in flight; the macOS views, notifications
  and updater: user interface, and platform services which appear only as actions of the environment.
- Serialization, file modes, quoting and the platform's secret stores: pure input and output,
  whose failures are the failures of the steps around them.
- The demo application, the site and the signing of updates: no state that the rest depends on.
