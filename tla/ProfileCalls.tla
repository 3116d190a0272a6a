---------------------------- MODULE ProfileCalls ----------------------------
(***************************************************************************)
(* How the command line and the companion change profiles.  A caller reads *)
(* the local files and asks the server without any lock, talks to the      *)
(* user, and then sends one mutation, which is applied under the           *)
(* configuration lock by the agent, or by the companion itself when there  *)
(* is none.  Between its reading and its mutation other callers change the *)
(* same profile and the endpoints change their keys.                       *)
(***************************************************************************)
EXTENDS Naturals, FiniteSets, Workstation

CONSTANTS
  Servers,     \* base URLs
  Users,       \* accounts a token may belong to
  Endpoints,   \* SSH endpoints a server names or the user chooses
  Keys,        \* host keys an endpoint may present
  MaxChanges   \* bound of the keys changed by endpoints

ASSUME CallsAssumption ==
  /\ Profiles \subseteq Nat /\ IsFiniteSet(Profiles)
  /\ {MaxCalls, MaxChanges, MaxFailures} \subseteq Nat
  /\ None \notin Profiles \union Servers \union Users \union Endpoints \union Keys

VARIABLES
  presents,    \* endpoint -> the key it presents
  catalog,     \* profile -> its entry in profiles.json
  default,     \* the default profile, in the same file
  tokens,      \* profile -> the token in the secret store
  pins,        \* profile -> its known_hosts file
  approved,    \* what the user has approved: profile, endpoint and key
  torn,        \* profiles whose last change failed half-way or came too late
  request,     \* caller -> what it executes
  used         \* what has happened of each bounded kind

local == <<catalog, default, tokens, pins>>
callVars == <<presents, local, approved, torn, request, used>>

-----------------------------------------------------------------------------
Maybe(S) == S \union {None}
Auths == {"auto", "in_browser"}
Entry == [server: Servers, user: Users, endpoint: Endpoints, auth: Auths]
Token == [server: Servers, user: Users]
Pin   == [endpoint: Endpoints, key: Keys]
Kinds == {"add", "enter", "login", "renew", "remove", "authenticate", "default"}

ASSUME NoneAssumption == None \notin Entry \union Token \union Pin

Request ==
  [kind: Kinds \union {"none"}, pc: {"idle", "confirm", "rescan", "validate", "send"},
   name: Maybe(Profiles), server: Maybe(Servers), user: Maybe(Users),
   endpoint: Maybe(Endpoints), key: Maybe(Keys), auth: Auths]

NoRequest == [kind |-> "none", pc |-> "idle", name |-> None, server |-> None,
              user |-> None, endpoint |-> None, key |-> None, auth |-> "auto"]

Known   == {n \in Profiles : catalog[n] # None}
First(S) == CHOOSE n \in S : \A m \in S : n <= m
Put(c, r)  == request' = [request EXCEPT ![c] = r]
Return(c)  == Put(c, NoRequest)
Trusted(n, e, k) == [name |-> n, endpoint |-> e, key |-> k]

Use(kind, bound) ==
  /\ used[kind] < bound
  /\ used' = [used EXCEPT ![kind] = @ + 1]

Start(c) == request[c].pc = "idle" /\ Use("calls", MaxCalls)

-----------------------------------------------------------------------------
(* Adding a profile: the command's add_profile asks the user to confirm    *)
(* what it scanned; the companion's "enter" is inspect_profile followed by *)
(* add_profile, which scans again.                                         *)

(* Mutant: the endpoint that was scanned is not the one saved. *)
ScanUnnamed(c, kind, n, s, u, e) ==
  /\ Start(c)
  /\ Put(c, [NoRequest EXCEPT !.kind = kind, !.pc = "confirm", !.name = n,
               !.server = s, !.user = u, !.key = presents[e]])
  /\ UNCHANGED <<presents, local, approved, torn>>

(* The user has given a token of an account of the server, or the cookie   *)
(* of its session; an unreachable endpoint is replaced by another.         *)
Scan(c, kind, n, s, u, e) ==
  /\ Start(c)
  /\ Put(c, [NoRequest EXCEPT !.kind = kind, !.pc = "confirm", !.name = n,
               !.server = s, !.user = u, !.endpoint = e, !.key = presents[e]])
  /\ UNCHANGED <<presents, local, approved, torn>>

(* inspect_profile: the companion shows the fingerprints in its editor. *)
Inspect(c, n, s, u, e) == Scan(c, "enter", n, s, u, e)

Confirm(c) ==
  LET r == request[c] IN
  /\ r.pc = "confirm"
  /\ \/ /\ approved' = approved \union {Trusted(r.name, r.endpoint, r.key)}
        /\ Put(c, [r EXCEPT !.pc = IF r.kind = "add" THEN "send" ELSE "rescan"])
     \/ Return(c) /\ UNCHANGED approved
  /\ UNCHANGED <<presents, local, torn, used>>

(* What ssh-keygen prints of a scanned key: its fingerprint and its host.  *)
Line(e, k) == [endpoint |-> e, key |-> k]

(* Mutant: the keys of the second scan are saved without comparing them.   *)
RescanUnchecked(c) ==
  LET r == request[c] IN
  /\ r.pc = "rescan"
  /\ \E e \in Endpoints :
       Put(c, [r EXCEPT !.pc = "send", !.endpoint = e, !.key = presents[e]])
  /\ UNCHANGED <<presents, local, approved, torn, used>>

(* add_profile asks the server for its endpoint again, unless the user has *)
(* chosen one; verify_expected_fingerprints compares what is there now     *)
(* with what the user was shown.                                           *)
Rescan(c) ==
  LET r == request[c] IN
  /\ r.pc = "rescan"
  /\ \E e \in Endpoints :
       IF Line(e, presents[e]) = Line(r.endpoint, r.key)
       THEN Put(c, [r EXCEPT !.pc = "send", !.endpoint = e, !.key = presents[e]])
       ELSE Return(c)
  /\ UNCHANGED <<presents, local, approved, torn, used>>

-----------------------------------------------------------------------------
(* Replacing a token: the command's login and the companion's              *)
(* renew_profile_token validate it against the profile they have read.     *)

Read(c, kind, n) ==
  /\ Start(c) /\ kind \in {"login", "renew"}
  /\ n \in Known
  /\ Put(c, [NoRequest EXCEPT !.kind = kind, !.pc = "validate", !.name = n,
               !.server = catalog[n].server, !.user = catalog[n].user])
  /\ UNCHANGED <<presents, local, approved, torn>>

(* renew_profile_token begins like login. *)
Reconnect(c, n) == Read(c, "renew", n)

(* The token may be of any account; only the companion insists on the one  *)
(* of the profile.                                                         *)
Validate(c) ==
  LET r == request[c] IN
  /\ r.pc = "validate"
  /\ \E u \in Users :
       IF r.kind = "renew" /\ u # r.user THEN Return(c)
       ELSE Put(c, [r EXCEPT !.pc = "send", !.user = u])
  /\ UNCHANGED <<presents, local, approved, torn, used>>

-----------------------------------------------------------------------------
(* remove_profile, set_ssh_authentication and set_default_profile send     *)
(* what the user asked for; the last looks for the profile first.          *)
Ask(c, kind, n, a) ==
  /\ Start(c) /\ kind \in {"remove", "authenticate", "default"}
  /\ kind = "default" => n \in Known
  /\ Put(c, [NoRequest EXCEPT !.kind = kind, !.pc = "send", !.name = n,
                              !.auth = a])
  /\ UNCHANGED <<presents, local, approved, torn>>

AskRemoval(c, n) == Ask(c, "remove", n, "auto")

-----------------------------------------------------------------------------
(* LocalConfiguration::apply_preserving_management, in one step: the lock  *)
(* is held, and readers see only its last write, the catalog's.  It may    *)
(* fail after any of the writes.                                           *)

Broken(n) == Use("failures", MaxFailures) /\ torn' = torn \union {n}

(* save_profile: token, host keys, catalog; the choice of authentication   *)
(* outlives a new enrolment.                                               *)
Save(c) ==
  LET r == request[c]
      n == r.name
      entry == [server |-> r.server, user |-> r.user, endpoint |-> r.endpoint,
                auth |-> IF n \in Known THEN catalog[n].auth ELSE "auto"]
      withToken == [tokens EXCEPT ![n] = [server |-> r.server, user |-> r.user]]
      withPin   == [pins EXCEPT ![n] = [endpoint |-> r.endpoint, key |-> r.key]]
  IN
  /\ r.pc = "send" /\ r.kind \in {"add", "enter"}
  /\ \/ /\ tokens' = withToken /\ pins' = withPin
        /\ catalog' = [catalog EXCEPT ![n] = entry]
        /\ default' = IF Known = {} THEN n ELSE default
        /\ torn' = torn \ {n} /\ UNCHANGED used
     \/ /\ tokens' = withToken /\ pins' \in {pins, withPin}
        /\ Broken(n) /\ UNCHANGED <<catalog, default>>
  /\ Return(c)
  /\ UNCHANGED <<presents, approved>>

(* Mutant: the profile keeps the name of the account it had. *)
RenewUnnamed(c) ==
  LET r == request[c]
      n == r.name
      withToken == [tokens EXCEPT ![n] = [server |-> r.server, user |-> r.user]]
  IN
  /\ r.pc = "send" /\ r.kind \in {"login", "renew"}
  /\ IF n \notin Known THEN UNCHANGED <<local, torn, used>>
     ELSE /\ tokens' = withToken
          /\ torn' = IF catalog[n].server = r.server THEN torn \ {n}
                     ELSE torn \union {n}
          /\ UNCHANGED <<catalog, used, default, pins>>
  /\ Return(c)
  /\ UNCHANGED <<presents, approved>>

(* renew_token: token, catalog.  The profile may have been saved for       *)
(* another server since the token was validated.                           *)
Renew(c) ==
  LET r == request[c]
      n == r.name
      withToken == [tokens EXCEPT ![n] = [server |-> r.server, user |-> r.user]]
  IN
  /\ r.pc = "send" /\ r.kind \in {"login", "renew"}
  /\ IF n \notin Known THEN UNCHANGED <<local, torn, used>>
     ELSE /\ tokens' = withToken
          /\ \/ /\ catalog' = [catalog EXCEPT ![n].user = r.user]
                /\ torn' = IF catalog[n].server = r.server THEN torn \ {n}
                           ELSE torn \union {n}
                /\ UNCHANGED used
             \/ Broken(n) /\ UNCHANGED catalog
          /\ UNCHANGED <<default, pins>>
  /\ Return(c)
  /\ UNCHANGED <<presents, approved>>

(* remove_profile: token, host keys, catalog *)
Remove(c) ==
  LET r == request[c]
      n == r.name
      noToken == [tokens EXCEPT ![n] = None]
      noPin   == [pins EXCEPT ![n] = None]
  IN
  /\ r.pc = "send" /\ r.kind = "remove"
  /\ IF n \notin Known THEN UNCHANGED <<local, torn, used>>
     ELSE \/ /\ tokens' = noToken /\ pins' = noPin
             /\ catalog' = [catalog EXCEPT ![n] = None]
             /\ default' = IF default # n THEN default
                           ELSE IF Known = {n} THEN None ELSE First(Known \ {n})
             /\ torn' = torn \ {n} /\ UNCHANGED used
          \/ /\ tokens' = noToken /\ pins' \in {pins, noPin}
             /\ Broken(n) /\ UNCHANGED <<catalog, default>>
  /\ Return(c)
  /\ UNCHANGED <<presents, approved>>

Authenticate(c) ==
  LET r == request[c] IN
  /\ r.pc = "send" /\ r.kind = "authenticate"
  /\ catalog' = IF r.name \in Known
                THEN [catalog EXCEPT ![r.name].auth = r.auth] ELSE catalog
  /\ Return(c)
  /\ UNCHANGED <<presents, default, tokens, pins, approved, torn, used>>

(* save_preferences looks for the profile again, under the lock. *)
MakeDefault(c) ==
  LET r == request[c] IN
  /\ r.pc = "send" /\ r.kind = "default"
  /\ default' = IF r.name \in Known THEN r.name ELSE default
  /\ Return(c)
  /\ UNCHANGED <<presents, catalog, tokens, pins, approved, torn, used>>

(* No agent answers, or it answers too late; what a caller would have done *)
(* is not done.                                                            *)
GiveUp(c) ==
  /\ request[c].pc = "send"
  /\ Return(c)
  /\ UNCHANGED <<presents, local, approved, torn, used>>

Change(e, k) ==
  /\ presents[e] # k
  /\ Use("changes", MaxChanges)
  /\ presents' = [presents EXCEPT ![e] = k]
  /\ UNCHANGED <<local, approved, torn, request>>

-----------------------------------------------------------------------------
(* Some profiles were there before, with the keys the user had approved.   *)
CallInit ==
  /\ presents \in [Endpoints -> Keys]
  /\ catalog \in [Profiles -> Maybe(Entry)]
  /\ default = IF Known = {} THEN None ELSE First(Known)
  /\ tokens = [n \in Profiles |-> IF n \notin Known THEN None ELSE
                 [server |-> catalog[n].server, user |-> catalog[n].user]]
  /\ pins = [n \in Profiles |-> IF n \notin Known THEN None ELSE
               [endpoint |-> catalog[n].endpoint,
                key |-> presents[catalog[n].endpoint]]]
  /\ approved = {Trusted(n, pins[n].endpoint, pins[n].key) : n \in Known}
  /\ torn = {}
  /\ request = [c \in Callers |-> NoRequest]
  /\ used = [k \in {"calls", "changes", "failures"} |-> 0]

Asks(c) ==
  \E n \in Profiles :
    \/ \E s \in Servers, u \in Users, e \in Endpoints :
         Scan(c, "add", n, s, u, e) \/ Inspect(c, n, s, u, e)
    \/ Read(c, "login", n) \/ Reconnect(c, n) \/ AskRemoval(c, n)
    \/ \E a \in Auths : Ask(c, "authenticate", n, a)
    \/ Ask(c, "default", n, "auto")
Applies(c) ==
  Save(c) \/ Renew(c) \/ Remove(c) \/ Authenticate(c) \/ MakeDefault(c)

CallNext ==
  \/ \E c \in Callers :
       Asks(c) \/ Confirm(c) \/ Rescan(c) \/ Validate(c) \/ Applies(c) \/ GiveUp(c)
  \/ \E e \in Endpoints, k \in Keys : Change(e, k)

CallSpec == CallInit /\ [][CallNext]_callVars

-----------------------------------------------------------------------------
CallTypeOK ==
  /\ presents \in [Endpoints -> Keys]
  /\ catalog \in [Profiles -> Maybe(Entry)]
  /\ default \in Maybe(Profiles)
  /\ tokens \in [Profiles -> Maybe(Token)]
  /\ pins \in [Profiles -> Maybe(Pin)]
  /\ approved \subseteq [name: Profiles, endpoint: Endpoints, key: Keys]
  /\ torn \subseteq Profiles
  /\ request \in [Callers -> Request]
  /\ used \in [{"calls", "changes", "failures"} -> Nat]

(* A profile is never pinned to a key the user has not been shown for this *)
(* profile and endpoint and approved, though the endpoint changes its key  *)
(* between the scan that is shown and the one that is saved, and other     *)
(* callers save the same profile meanwhile.                                *)
ApprovedTrust ==
  \A n \in Profiles : pins[n] # None =>
    Trusted(n, pins[n].endpoint, pins[n].key) \in approved

(* The token of a profile is one of the account and of the server the      *)
(* profile names, whoever saved, renewed or removed it meanwhile; but for  *)
(* profiles whose change failed between its writes, or whose token was     *)
(* validated before another caller saved the profile for another server.   *)
CredentialMatches ==
  \A n \in Known \ torn :
    tokens[n] = [server |-> catalog[n].server, user |-> catalog[n].user]
=============================================================================
