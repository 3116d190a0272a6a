------------------------- MODULE ProfileCallsProofs -------------------------
(***************************************************************************)
(* The safety of ProfileCalls, proved for every number of callers,         *)
(* profiles, servers, accounts, endpoints and keys, and without its        *)
(* bounds mattering.                                                       *)
(***************************************************************************)
EXTENDS ProfileCalls, WellFoundedInduction, TLAPS

(* What a caller knows at each station of its request: what it scanned, or *)
(* for which account it holds a token, and that the user has approved the  *)
(* key it is about to save.                                                *)
Scanned(r) ==
  /\ r.name \in Profiles /\ r.server \in Servers /\ r.user \in Users
  /\ r.endpoint \in Endpoints /\ r.key \in Keys
Sound(r, allowed) ==
  /\ r.pc # "idle" => r.name \in Profiles
  /\ r.pc = "confirm" => Scanned(r) /\ r.kind \in {"add", "enter"}
  /\ r.pc = "rescan" =>
       Scanned(r) /\ r.kind = "enter" /\ Trusted(r.name, r.endpoint, r.key) \in allowed
  /\ r.pc = "send" /\ r.kind \in {"add", "enter"} =>
       Scanned(r) /\ Trusted(r.name, r.endpoint, r.key) \in allowed
  /\ r.pc = "validate" => r.kind \in {"login", "renew"}
  /\ r.kind \in {"login", "renew"} =>
       r.name \in Profiles /\ r.server \in Servers /\ r.user \in Users

RequestsSound == \A c \in Callers : Sound(request[c], approved)

CallInv == CallTypeOK /\ RequestsSound /\ ApprovedTrust /\ CredentialMatches

-----------------------------------------------------------------------------
(* The profiles are ordered, so those that remain have a first one.        *)
LEMMA FirstIn ==
  ASSUME NEW S, S \subseteq Nat, S # {}
  PROVE  First(S) \in S
  <1> DEFINE Less == {x \in Nat \X Nat : x[1] < x[2]}
  <1>1. IsWellFoundedOn(Less, Nat)
    BY NatLessThanWellFounded DEF OpToRel
  <1> HIDE DEF Less
  <1>2. PICK p \in S : \A q \in S : <<q, p>> \notin Less
    BY <1>1, WFMin
  <1>3. \A q \in S : p <= q
    <2> SUFFICES ASSUME NEW q \in S PROVE p <= q
      OBVIOUS
    <2>1. ~(q < p)
      BY <1>2 DEF Less
    <2> QED
      BY <2>1
  <1> QED
    BY <1>2, <1>3 DEF First

LEMMA NoneApart ==
  /\ None \notin Profiles /\ None \notin Servers /\ None \notin Users
  /\ None \notin Endpoints /\ None \notin Keys
  /\ None \notin Entry /\ None \notin Token /\ None \notin Pin
  BY CallsAssumption, NoneAssumption DEF CallsAssumption, NoneAssumption

LEMMA NoRequestSound ==
  /\ NoRequest \in Request
  /\ \A allowed : Sound(NoRequest, allowed)
  BY DEF NoRequest, Request, Maybe, Auths, Sound

LEMMA SpendTyped ==
  ASSUME CallTypeOK, NEW kind \in {"calls", "changes", "failures"}, NEW bound,
         Use(kind, bound)
  PROVE  used' \in [{"calls", "changes", "failures"} -> Nat]
  BY DEF CallTypeOK, Use

(* One caller goes on; what the others know stays true.                    *)
LEMMA RequestStep ==
  ASSUME CallTypeOK, RequestsSound, NEW c \in Callers, NEW r \in Request,
         Put(c, r), approved \subseteq approved', Sound(r, approved')
  PROVE  request' \in [Callers -> Request] /\ RequestsSound'
  <1>1. request \in [Callers -> Request] /\ request' = [request EXCEPT ![c] = r]
    BY DEF CallTypeOK, Put
  <1>2. \A d \in Callers : request'[d] = IF d = c THEN r ELSE request[d]
    BY <1>1
  <1>3. \A d \in Callers : Sound(request'[d], approved')
    BY <1>2 DEF RequestsSound, Sound
  <1> QED
    BY <1>1, <1>3 DEF RequestsSound

(* A step that leaves the local files alone *)
LEMMA FilesKept ==
  ASSUME CallInv, NEW c \in Callers, NEW r \in Request, Put(c, r),
         UNCHANGED <<local, torn>>, presents' \in [Endpoints -> Keys],
         approved \subseteq approved',
         approved' \subseteq [name: Profiles, endpoint: Endpoints, key: Keys],
         used' \in [{"calls", "changes", "failures"} -> Nat],
         Sound(r, approved')
  PROVE  CallInv'
  <1>1. request' \in [Callers -> Request] /\ RequestsSound'
    BY RequestStep DEF CallInv
  <1>2. CallTypeOK'
    BY <1>1 DEF CallInv, CallTypeOK, local
  <1>3. ApprovedTrust'
    BY DEF CallInv, ApprovedTrust, local
  <1>4. CredentialMatches'
    BY DEF CallInv, CredentialMatches, Known, local
  <1> QED
    BY <1>1, <1>2, <1>3, <1>4 DEF CallInv

-----------------------------------------------------------------------------
(* The steps of a caller before its mutation *)

LEMMA ScanKeeps ==
  ASSUME CallInv, NEW c \in Callers, NEW kind \in {"add", "enter"},
         NEW n \in Profiles, NEW s \in Servers, NEW u \in Users,
         NEW e \in Endpoints, Scan(c, kind, n, s, u, e)
  PROVE  CallInv'
  <1> DEFINE r == [NoRequest EXCEPT !.kind = kind, !.pc = "confirm", !.name = n,
                     !.server = s, !.user = u, !.endpoint = e, !.key = presents[e]]
  <1>1. presents[e] \in Keys
    BY DEF CallInv, CallTypeOK
  <1>2. r \in Request
    BY <1>1 DEF NoRequest, Request, Maybe, Kinds, Auths
  <1>3. Sound(r, approved')
    BY <1>1 DEF NoRequest, Sound, Scanned
  <1>4. used' \in [{"calls", "changes", "failures"} -> Nat]
    BY SpendTyped DEF CallInv, Scan, Start
  <1>5. /\ Put(c, r) /\ UNCHANGED <<local, torn>> /\ UNCHANGED presents
        /\ UNCHANGED approved
    BY DEF Scan
  <1> HIDE DEF r
  <1>6. /\ presents' \in [Endpoints -> Keys] /\ approved \subseteq approved'
        /\ approved' \subseteq [name: Profiles, endpoint: Endpoints, key: Keys]
    BY <1>5 DEF CallInv, CallTypeOK
  <1> QED
    BY <1>2, <1>3, <1>4, <1>5, <1>6, FilesKept

LEMMA ConfirmKeeps ==
  ASSUME CallInv, NEW c \in Callers, Confirm(c)
  PROVE  CallInv'
  <1>1. /\ request[c] \in Request /\ Sound(request[c], approved)
        /\ presents' \in [Endpoints -> Keys]
        /\ used' \in [{"calls", "changes", "failures"} -> Nat]
        /\ approved \subseteq [name: Profiles, endpoint: Endpoints, key: Keys]
    BY DEF CallInv, CallTypeOK, RequestsSound, Confirm
  <1>2. UNCHANGED <<local, torn>> /\ request[c].pc = "confirm"
    BY DEF Confirm
  <1>3. CASE Return(c) /\ UNCHANGED approved
    BY <1>1, <1>2, <1>3, NoRequestSound, FilesKept DEF Return
  <1>4. CASE
      /\ approved' = approved \union
           {Trusted(request[c].name, request[c].endpoint, request[c].key)}
      /\ Put(c, [request[c] EXCEPT !.pc =
                   IF request[c].kind = "add" THEN "send" ELSE "rescan"])
    <2> DEFINE r == [request[c] EXCEPT !.pc =
                       IF request[c].kind = "add" THEN "send" ELSE "rescan"]
    <2>1. Scanned(request[c]) /\ request[c].kind \in {"add", "enter"}
      BY <1>1, <1>2 DEF Sound
    <2>2. r \in Request
      BY <1>1 DEF Request
    <2>3. approved' \subseteq [name: Profiles, endpoint: Endpoints, key: Keys]
      BY <1>1, <1>4, <2>1 DEF Trusted, Scanned
    <2>4. Sound(r, approved')
      BY <1>1, <1>4, <2>1 DEF Sound, Scanned, Request
    <2>5. Put(c, r) /\ approved \subseteq approved'
      BY <1>4
    <2> HIDE DEF r
    <2> QED
      BY <1>1, <1>2, <2>2, <2>3, <2>4, <2>5, FilesKept
  <1> QED
    BY <1>3, <1>4 DEF Confirm

LEMMA RescanKeeps ==
  ASSUME CallInv, NEW c \in Callers, Rescan(c)
  PROVE  CallInv'
  <1>1. /\ request[c] \in Request /\ Sound(request[c], approved)
        /\ presents' \in [Endpoints -> Keys] /\ UNCHANGED approved
        /\ used' \in [{"calls", "changes", "failures"} -> Nat]
        /\ approved' \subseteq [name: Profiles, endpoint: Endpoints, key: Keys]
    BY DEF CallInv, CallTypeOK, RequestsSound, Rescan
  <1>2. UNCHANGED <<local, torn>> /\ request[c].pc = "rescan"
    BY DEF Rescan
  <1>3. CASE Return(c)
    BY <1>1, <1>2, <1>3, NoRequestSound, FilesKept DEF Return
  <1>4. ASSUME NEW e \in Endpoints,
               Line(e, presents[e]) = Line(request[c].endpoint, request[c].key),
               Put(c, [request[c] EXCEPT !.pc = "send", !.endpoint = e,
                                         !.key = presents[e]])
        PROVE  CallInv'
    <2> DEFINE r == [request[c] EXCEPT !.pc = "send", !.endpoint = e,
                                       !.key = presents[e]]
    <2>1. /\ e = request[c].endpoint /\ presents[e] = request[c].key
          /\ presents[e] \in Keys
      BY <1>4 DEF Line, CallInv, CallTypeOK
    <2>2. r \in Request
      BY <1>1, <2>1 DEF Request, Maybe
    <2>3. Sound(r, approved')
      BY <1>1, <1>2, <2>1 DEF Sound, Scanned, Request
    <2> HIDE DEF r
    <2> QED
      BY <1>1, <1>2, <1>4, <2>2, <2>3, FilesKept DEF r
  <1> QED
    BY <1>3, <1>4 DEF Rescan

LEMMA ReadKeeps ==
  ASSUME CallInv, NEW c \in Callers, NEW kind, NEW n \in Profiles, Read(c, kind, n)
  PROVE  CallInv'
  <1> DEFINE r == [NoRequest EXCEPT !.kind = kind, !.pc = "validate", !.name = n,
                     !.server = catalog[n].server, !.user = catalog[n].user]
  <1>1. kind \in {"login", "renew"} /\ catalog[n] \in Entry
    BY DEF CallInv, CallTypeOK, Read, Known, Maybe
  <1>2. catalog[n].server \in Servers /\ catalog[n].user \in Users
    BY <1>1 DEF Entry
  <1>3. r \in Request
    BY <1>1, <1>2 DEF NoRequest, Request, Maybe, Kinds, Auths
  <1>4. Sound(r, approved')
    BY <1>1, <1>2 DEF NoRequest, Sound
  <1>5. used' \in [{"calls", "changes", "failures"} -> Nat]
    BY SpendTyped DEF CallInv, Read, Start
  <1>6. /\ Put(c, r) /\ UNCHANGED <<local, torn>>
        /\ UNCHANGED presents /\ UNCHANGED approved
    BY DEF Read
  <1> HIDE DEF r
  <1>7. /\ presents' \in [Endpoints -> Keys] /\ approved \subseteq approved'
        /\ approved' \subseteq [name: Profiles, endpoint: Endpoints, key: Keys]
    BY <1>6 DEF CallInv, CallTypeOK
  <1> QED
    BY <1>3, <1>4, <1>5, <1>6, <1>7, FilesKept

LEMMA ValidateKeeps ==
  ASSUME CallInv, NEW c \in Callers, Validate(c)
  PROVE  CallInv'
  <1>1. /\ request[c] \in Request /\ Sound(request[c], approved)
        /\ presents' \in [Endpoints -> Keys] /\ UNCHANGED approved
        /\ used' \in [{"calls", "changes", "failures"} -> Nat]
        /\ approved' \subseteq [name: Profiles, endpoint: Endpoints, key: Keys]
    BY DEF CallInv, CallTypeOK, RequestsSound, Validate
  <1>2. UNCHANGED <<local, torn>> /\ request[c].pc = "validate"
    BY DEF Validate
  <1>3. PICK u \in Users :
          \/ Return(c)
          \/ Put(c, [request[c] EXCEPT !.pc = "send", !.user = u])
    BY DEF Validate
  <1>4. CASE Return(c)
    BY <1>1, <1>2, <1>4, NoRequestSound, FilesKept DEF Return
  <1>5. CASE Put(c, [request[c] EXCEPT !.pc = "send", !.user = u])
    <2> DEFINE r == [request[c] EXCEPT !.pc = "send", !.user = u]
    <2>1. r \in Request
      BY <1>1 DEF Request, Maybe
    <2>2. Sound(r, approved')
      BY <1>1, <1>2 DEF Sound, Request
    <2> HIDE DEF r
    <2> QED
      BY <1>1, <1>2, <1>5, <2>1, <2>2, FilesKept DEF r
  <1> QED
    BY <1>3, <1>4, <1>5

LEMMA AskKeeps ==
  ASSUME CallInv, NEW c \in Callers, NEW kind, NEW n \in Profiles,
         NEW a \in Auths, Ask(c, kind, n, a)
  PROVE  CallInv'
  <1> DEFINE r == [NoRequest EXCEPT !.kind = kind, !.pc = "send", !.name = n, !.auth = a]
  <1>1. kind \in {"remove", "authenticate", "default"}
    BY DEF Ask
  <1>2. r \in Request
    BY <1>1 DEF NoRequest, Request, Maybe, Kinds, Auths
  <1>3. Sound(r, approved')
    BY <1>1 DEF NoRequest, Sound
  <1>4. used' \in [{"calls", "changes", "failures"} -> Nat]
    BY SpendTyped DEF CallInv, Ask, Start
  <1>5. /\ Put(c, r) /\ UNCHANGED <<local, torn>>
        /\ UNCHANGED presents /\ UNCHANGED approved
    BY DEF Ask
  <1> HIDE DEF r
  <1>6. /\ presents' \in [Endpoints -> Keys] /\ approved \subseteq approved'
        /\ approved' \subseteq [name: Profiles, endpoint: Endpoints, key: Keys]
    BY <1>5 DEF CallInv, CallTypeOK
  <1> QED
    BY <1>2, <1>3, <1>4, <1>5, <1>6, FilesKept

LEMMA GiveUpKeeps ==
  ASSUME CallInv, NEW c \in Callers, GiveUp(c)
  PROVE  CallInv'
  <1>1. /\ presents' \in [Endpoints -> Keys] /\ UNCHANGED approved
        /\ used' \in [{"calls", "changes", "failures"} -> Nat]
        /\ approved' \subseteq [name: Profiles, endpoint: Endpoints, key: Keys]
        /\ UNCHANGED <<local, torn>> /\ Put(c, NoRequest)
    BY DEF CallInv, CallTypeOK, GiveUp, Return
  <1> QED
    BY <1>1, NoRequestSound, FilesKept

LEMMA ChangeKeeps ==
  ASSUME CallInv, NEW e \in Endpoints, NEW k \in Keys, Change(e, k)
  PROVE  CallInv'
  <1>1. used' \in [{"calls", "changes", "failures"} -> Nat]
    BY SpendTyped DEF CallInv, Change
  <1>2. CallTypeOK'
    BY <1>1 DEF CallInv, CallTypeOK, Change, local
  <1> QED
    BY <1>2 DEF CallInv, Change, local, RequestsSound, ApprovedTrust,
       CredentialMatches, Known

-----------------------------------------------------------------------------
(* The mutations.  Each ends its request; what is left is that the files   *)
(* keep their form and agree.                                              *)

LEMMA ReturnKeeps ==
  ASSUME CallInv, NEW c \in Callers, Return(c), UNCHANGED approved
  PROVE  request' \in [Callers -> Request] /\ RequestsSound'
  BY RequestStep, NoRequestSound DEF CallInv, Return

LEMMA BrokenTyped ==
  ASSUME CallTypeOK, NEW n \in Profiles, Broken(n)
  PROVE  /\ used' \in [{"calls", "changes", "failures"} -> Nat]
         /\ torn' = torn \union {n} /\ torn' \subseteq Profiles
  BY SpendTyped DEF CallTypeOK, Broken

(* A profile saved for the account and endpoint that were checked *)
LEMMA SaveKeeps ==
  ASSUME CallInv, NEW c \in Callers, Save(c)
  PROVE  CallInv'
  <1> DEFINE r == request[c]
             n == r.name
             t == [server |-> r.server, user |-> r.user]
             p == [endpoint |-> r.endpoint, key |-> r.key]
             entry == [server |-> r.server, user |-> r.user, endpoint |-> r.endpoint,
                       auth |-> IF n \in Known THEN catalog[n].auth ELSE "auto"]
  <1>1. CallTypeOK /\ RequestsSound
    BY DEF CallInv
  <1>2. Scanned(r) /\ Trusted(n, r.endpoint, r.key) \in approved
    BY <1>1 DEF RequestsSound, Sound, Save
  <1>3. n \in Profiles /\ t \in Token /\ p \in Pin
    BY <1>2 DEF Scanned, Token, Pin
  <1>4. n \in Known => catalog[n] \in Entry
    BY <1>1, <1>3 DEF CallTypeOK, Known, Maybe
  <1>5. entry \in Entry
    BY <1>2, <1>4 DEF Scanned, Entry, Auths
  <1>6. Return(c) /\ UNCHANGED approved /\ UNCHANGED presents
    BY DEF Save
  <1>7. request' \in [Callers -> Request] /\ RequestsSound'
    BY <1>6, ReturnKeeps
  <1>8. tokens' = [tokens EXCEPT ![n] = t]
        /\ pins' \in {pins, [pins EXCEPT ![n] = p]}
    BY DEF Save
  <1>9. \/ /\ catalog' = [catalog EXCEPT ![n] = entry]
           /\ default' = IF Known = {} THEN n ELSE default
           /\ torn' = torn \ {n} /\ UNCHANGED used
        \/ Broken(n) /\ UNCHANGED <<catalog, default>>
    BY DEF Save
  <1> HIDE DEF r, n, t, p, entry
  <1>10. CallTypeOK'
    <2>1. tokens' \in [Profiles -> Maybe(Token)] /\ pins' \in [Profiles -> Maybe(Pin)]
      BY <1>1, <1>3, <1>8 DEF CallTypeOK, Maybe
    <2>2. CASE /\ catalog' = [catalog EXCEPT ![n] = entry]
               /\ default' = IF Known = {} THEN n ELSE default
               /\ torn' = torn \ {n} /\ UNCHANGED used
      BY <1>1, <1>3, <1>5, <1>6, <1>7, <2>1, <2>2 DEF CallTypeOK, Maybe
    <2>3. CASE Broken(n) /\ UNCHANGED <<catalog, default>>
      BY <1>1, <1>3, <1>6, <1>7, <2>1, <2>3, BrokenTyped DEF CallTypeOK
    <2> QED
      BY <1>9, <2>2, <2>3
  <1>11. ApprovedTrust'
    <2> SUFFICES ASSUME NEW m \in Profiles, pins'[m] # None
                 PROVE  Trusted(m, pins'[m].endpoint, pins'[m].key) \in approved
      BY <1>6 DEF ApprovedTrust
    <2>1. CASE pins'[m] = pins[m]
      BY <2>1 DEF CallInv, ApprovedTrust
    <2>2. CASE m = n /\ pins'[m] = p
      BY <1>2, <2>2 DEF p, n, r
    <2> QED
      BY <1>1, <1>3, <1>8, <2>1, <2>2 DEF CallTypeOK
  <1>12. CredentialMatches'
    <2>1. tokens'[n] = t /\ \A m \in Profiles \ {n} : tokens'[m] = tokens[m]
      BY <1>1, <1>3, <1>8 DEF CallTypeOK
    <2>2. CASE catalog' = [catalog EXCEPT ![n] = entry] /\ torn' = torn \ {n}
      <3>1. catalog'[n] = entry /\ \A m \in Profiles \ {n} : catalog'[m] = catalog[m]
        BY <1>1, <1>3, <2>2 DEF CallTypeOK
      <3>2. t = [server |-> entry.server, user |-> entry.user]
        BY DEF t, entry
      <3> QED
        BY <1>3, <2>1, <2>2, <3>1, <3>2 DEF CallInv, CredentialMatches, Known
    <2>3. CASE torn' = torn \union {n} /\ UNCHANGED catalog
      BY <1>3, <2>1, <2>3 DEF CallInv, CredentialMatches, Known
    <2> QED
      BY <1>9, <2>2, <2>3 DEF Broken
  <1> QED
    BY <1>7, <1>10, <1>11, <1>12 DEF CallInv

LEMMA RenewKeeps ==
  ASSUME CallInv, NEW c \in Callers, Renew(c)
  PROVE  CallInv'
  <1> DEFINE r == request[c]
             n == r.name
             t == [server |-> r.server, user |-> r.user]
             differs == catalog[n].server # r.server
  <1>1. CallTypeOK /\ RequestsSound
    BY DEF CallInv
  <1>2. n \in Profiles /\ r.server \in Servers /\ r.user \in Users
    BY <1>1 DEF RequestsSound, Sound, Renew
  <1>3. Return(c) /\ UNCHANGED approved /\ UNCHANGED presents
    BY DEF Renew
  <1>4. request' \in [Callers -> Request] /\ RequestsSound'
    BY <1>3, ReturnKeeps
  <1>5. CASE n \notin Known
    <2>1. UNCHANGED <<local, torn, used>>
      BY <1>5 DEF Renew
    <2> QED
      BY <1>3, <1>4, <2>1 DEF CallInv, CallTypeOK, ApprovedTrust,
         CredentialMatches, Known, local
  <1>6. CASE n \in Known
    <2>1. /\ tokens' = [tokens EXCEPT ![n] = t] /\ UNCHANGED <<default, pins>>
          /\ \/ /\ catalog' = [catalog EXCEPT ![n].user = r.user]
                /\ torn' = IF differs THEN torn \union {n} ELSE torn \ {n}
                /\ UNCHANGED used
             \/ Broken(n) /\ UNCHANGED catalog
      BY <1>6 DEF Renew
    <2>2. catalog[n] \in Entry /\ t \in Token
      BY <1>1, <1>2, <1>6 DEF CallTypeOK, Known, Maybe, Token
    <2> HIDE DEF t
    <2>3. tokens' \in [Profiles -> Maybe(Token)]
          /\ tokens'[n] = t /\ \A m \in Profiles \ {n} : tokens'[m] = tokens[m]
      BY <1>1, <1>2, <2>1, <2>2 DEF CallTypeOK, Maybe
    <2>4. ApprovedTrust'
      BY <1>3, <2>1 DEF CallInv, ApprovedTrust
    <2>5. CASE /\ catalog' = [catalog EXCEPT ![n].user = r.user]
               /\ torn' = IF differs THEN torn \union {n} ELSE torn \ {n}
               /\ UNCHANGED used
      <3> DEFINE new == [catalog[n] EXCEPT !.user = r.user]
      <3>1. new \in Entry /\ new.server = catalog[n].server /\ new.user = r.user
        BY <1>2, <2>2 DEF Entry
      <3>2. catalog' = [catalog EXCEPT ![n] = new]
        BY <2>5
      <3> HIDE DEF new
      <3>3. /\ catalog' \in [Profiles -> Maybe(Entry)]
            /\ catalog'[n] = new /\ \A m \in Profiles \ {n} : catalog'[m] = catalog[m]
        BY <1>1, <1>2, <3>1, <3>2 DEF CallTypeOK, Maybe
      <3>4. CallTypeOK'
        BY <1>1, <1>2, <1>3, <1>4, <2>1, <2>3, <2>5, <3>3 DEF CallTypeOK
      <3>5. ~differs => t = [server |-> new.server, user |-> new.user]
        BY <3>1 DEF t
      <3>6. \A m \in (Known \ torn) \ {n} :
              tokens'[m] = [server |-> catalog'[m].server, user |-> catalog'[m].user]
        BY <2>3, <3>3 DEF CallInv, CredentialMatches, Known
      <3>7. CredentialMatches'
        <4> SUFFICES ASSUME NEW m \in (Known \ torn)'
                     PROVE  tokens'[m] = [server |-> catalog'[m].server,
                                          user |-> catalog'[m].user]
          BY DEF CredentialMatches
        <4>1. CASE m = n
          BY <2>3, <2>5, <3>3, <3>5, <4>1
        <4>2. CASE m # n
          BY <2>5, <3>3, <3>6, <4>2 DEF Known
        <4> QED
          BY <4>1, <4>2
      <3> QED
        BY <1>4, <2>4, <3>4, <3>7 DEF CallInv
    <2>6. CASE Broken(n) /\ UNCHANGED catalog
      <3>1. CallTypeOK'
        BY <1>1, <1>2, <1>3, <1>4, <2>1, <2>3, <2>6, BrokenTyped DEF CallTypeOK
      <3>2. CredentialMatches'
        BY <1>2, <2>3, <2>6 DEF CallInv, CredentialMatches, Known, Broken
      <3> QED
        BY <1>4, <2>4, <3>1, <3>2 DEF CallInv
    <2> QED
      BY <2>1, <2>5, <2>6
  <1> QED
    BY <1>5, <1>6

LEMMA RemoveKeeps ==
  ASSUME CallInv, NEW c \in Callers, Remove(c)
  PROVE  CallInv'
  <1> DEFINE n == request[c].name
  <1>1. CallTypeOK /\ RequestsSound
    BY DEF CallInv
  <1>2. n \in Profiles
    BY <1>1 DEF RequestsSound, Sound, Remove
  <1>3. Return(c) /\ UNCHANGED approved /\ UNCHANGED presents
    BY DEF Remove
  <1>4. request' \in [Callers -> Request] /\ RequestsSound'
    BY <1>3, ReturnKeeps
  <1>5. CASE n \notin Known
    <2>1. UNCHANGED <<local, torn, used>>
      BY <1>5 DEF Remove
    <2> QED
      BY <1>3, <1>4, <2>1 DEF CallInv, CallTypeOK, ApprovedTrust,
         CredentialMatches, Known, local
  <1>6. CASE n \in Known
    <2>1. /\ tokens' = [tokens EXCEPT ![n] = None]
          /\ pins' \in {pins, [pins EXCEPT ![n] = None]}
          /\ \/ /\ catalog' = [catalog EXCEPT ![n] = None]
                /\ default' = IF default # n THEN default
                              ELSE IF Known = {n} THEN None ELSE First(Known \ {n})
                /\ torn' = torn \ {n} /\ UNCHANGED used
             \/ Broken(n) /\ UNCHANGED <<catalog, default>>
      BY <1>6 DEF Remove
    <2> HIDE DEF n
    <2>2. /\ tokens' \in [Profiles -> Maybe(Token)] /\ pins' \in [Profiles -> Maybe(Pin)]
          /\ \A m \in Profiles \ {n} : tokens'[m] = tokens[m]
      BY <1>1, <1>2, <2>1 DEF CallTypeOK, Maybe
    <2>3. ApprovedTrust'
      BY <1>1, <1>2, <1>3, <2>1 DEF CallInv, CallTypeOK, ApprovedTrust
    <2>4. CASE /\ catalog' = [catalog EXCEPT ![n] = None]
               /\ default' = IF default # n THEN default
                             ELSE IF Known = {n} THEN None ELSE First(Known \ {n})
               /\ torn' = torn \ {n} /\ UNCHANGED used
      <3>1. Known \ {n} # {} => First(Known \ {n}) \in Profiles
        BY FirstIn, CallsAssumption DEF CallsAssumption, Known
      <3>2. default' \in Maybe(Profiles)
        BY <1>1, <1>6, <2>4, <3>1 DEF CallTypeOK, Maybe
      <3>3. /\ catalog' \in [Profiles -> Maybe(Entry)] /\ catalog'[n] = None
            /\ \A m \in Profiles \ {n} : catalog'[m] = catalog[m]
        BY <1>1, <1>2, <2>4 DEF CallTypeOK, Maybe
      <3>4. CallTypeOK'
        BY <1>1, <1>3, <1>4, <2>2, <2>4, <3>2, <3>3 DEF CallTypeOK
      <3>5. CredentialMatches'
        BY <2>2, <2>4, <3>3 DEF CallInv, CredentialMatches, Known
      <3> QED
        BY <1>4, <2>3, <3>4, <3>5 DEF CallInv
    <2>5. CASE Broken(n) /\ UNCHANGED <<catalog, default>>
      <3>1. CallTypeOK'
        BY <1>1, <1>2, <1>3, <1>4, <2>2, <2>5, BrokenTyped DEF CallTypeOK
      <3>2. CredentialMatches'
        BY <2>2, <2>5 DEF CallInv, CredentialMatches, Known, Broken
      <3> QED
        BY <1>4, <2>3, <3>1, <3>2 DEF CallInv
    <2> QED
      BY <2>1, <2>4, <2>5
  <1> QED
    BY <1>5, <1>6

LEMMA AuthenticateKeeps ==
  ASSUME CallInv, NEW c \in Callers, Authenticate(c)
  PROVE  CallInv'
  <1> DEFINE n == request[c].name
             new == [catalog[n] EXCEPT !.auth = request[c].auth]
  <1>1. CallTypeOK /\ RequestsSound /\ Return(c)
        /\ UNCHANGED <<presents, default, tokens, pins, approved, torn, used>>
    BY DEF CallInv, Authenticate
  <1>2. request' \in [Callers -> Request] /\ RequestsSound'
    BY <1>1, ReturnKeeps
  <1>3. n \in Profiles /\ request[c].auth \in Auths
    BY <1>1 DEF RequestsSound, Sound, Authenticate, CallTypeOK, Request
  <1>4. n \in Known => catalog[n] \in Entry
    BY <1>1, <1>3 DEF CallTypeOK, Known, Maybe
  <1>5. n \in Known =>
          new \in Entry /\ new.server = catalog[n].server /\ new.user = catalog[n].user
    BY <1>3, <1>4 DEF Entry
  <1>6. catalog' = IF n \in Known THEN [catalog EXCEPT ![n] = new] ELSE catalog
    BY DEF Authenticate
  <1> HIDE DEF n, new
  <1>7. catalog' \in [Profiles -> Maybe(Entry)]
    BY <1>1, <1>3, <1>5, <1>6 DEF CallTypeOK, Maybe
  <1>8. \A m \in Profiles :
          catalog'[m] # None =>
            /\ catalog[m] # None
            /\ catalog'[m].server = catalog[m].server /\ catalog'[m].user = catalog[m].user
    <2>1. CASE n \in Known
      BY <1>1, <1>3, <1>5, <1>6, <2>1 DEF CallTypeOK, Known
    <2>2. CASE n \notin Known
      BY <1>6, <2>2
    <2> QED
      BY <2>1, <2>2
  <1>9. CallTypeOK'
    BY <1>1, <1>2, <1>7 DEF CallTypeOK
  <1>10. CredentialMatches'
    BY <1>1, <1>8 DEF CallInv, CredentialMatches, Known
  <1> QED
    BY <1>1, <1>2, <1>9, <1>10 DEF CallInv, ApprovedTrust

LEMMA MakeDefaultKeeps ==
  ASSUME CallInv, NEW c \in Callers, MakeDefault(c)
  PROVE  CallInv'
  <1>1. /\ CallTypeOK /\ Return(c)
        /\ UNCHANGED <<presents, catalog, tokens, pins, approved, torn, used>>
    BY DEF CallInv, MakeDefault
  <1>2. request' \in [Callers -> Request] /\ RequestsSound'
    BY <1>1, ReturnKeeps
  <1>3. default' \in Maybe(Profiles)
    BY <1>1 DEF CallTypeOK, MakeDefault, Known, Maybe
  <1> QED
    BY <1>1, <1>2, <1>3 DEF CallInv, CallTypeOK, ApprovedTrust, CredentialMatches, Known

-----------------------------------------------------------------------------
LEMMA InitHolds == CallInit => CallInv
  <1> SUFFICES ASSUME CallInit PROVE CallInv
    OBVIOUS
  <1>1. \A n \in Known : catalog[n] \in Entry
    BY DEF CallInit, Known, Maybe
  <1>2. \A n \in Known :
          /\ [server |-> catalog[n].server, user |-> catalog[n].user] \in Token
          /\ [endpoint |-> catalog[n].endpoint, key |-> presents[catalog[n].endpoint]] \in Pin
    BY <1>1 DEF CallInit, Entry, Token, Pin
  <1>3. Known # {} => First(Known) \in Profiles
    BY FirstIn, CallsAssumption DEF CallsAssumption, Known
  <1>4. default \in Maybe(Profiles)
    BY <1>3 DEF CallInit, Maybe
  <1>5. tokens \in [Profiles -> Maybe(Token)] /\ pins \in [Profiles -> Maybe(Pin)]
    BY <1>2 DEF CallInit, Maybe
  <1>6. \A n \in Profiles : pins[n] # None => n \in Known
    BY DEF CallInit
  <1>7. \A n \in Known : pins[n].endpoint \in Endpoints /\ pins[n].key \in Keys
    BY <1>2 DEF CallInit, Pin, Known
  <1>8. approved \subseteq [name: Profiles, endpoint: Endpoints, key: Keys]
    BY <1>7 DEF CallInit, Trusted, Known
  <1>9. CallTypeOK
    BY <1>4, <1>5, <1>8, NoRequestSound DEF CallInit, CallTypeOK
  <1>10. RequestsSound
    BY NoRequestSound DEF CallInit, RequestsSound
  <1>11. ApprovedTrust
    BY <1>6 DEF CallInit, ApprovedTrust
  <1>12. CredentialMatches
    BY DEF CallInit, CredentialMatches, Known
  <1> QED
    BY <1>9, <1>10, <1>11, <1>12 DEF CallInv

(* What callers know and what the files say to each other is kept by every *)
(* step, of the callers and of the servers.                                *)
LEMMA StepKeeps == CallInv /\ [CallNext]_callVars => CallInv'
  <1> SUFFICES ASSUME CallInv, [CallNext]_callVars PROVE CallInv'
    OBVIOUS
  <1>1. ASSUME NEW c \in Callers, Asks(c) PROVE CallInv'
    <2>1. PICK n \in Profiles :
            \/ \E s \in Servers, u \in Users, e \in Endpoints :
                 Scan(c, "add", n, s, u, e) \/ Inspect(c, n, s, u, e)
            \/ Read(c, "login", n) \/ Reconnect(c, n) \/ AskRemoval(c, n)
            \/ \E a \in Auths : Ask(c, "authenticate", n, a)
            \/ Ask(c, "default", n, "auto")
      BY <1>1 DEF Asks
    <2>2. ASSUME NEW s \in Servers, NEW u \in Users, NEW e \in Endpoints,
                 Scan(c, "add", n, s, u, e) \/ Inspect(c, n, s, u, e)
          PROVE  CallInv'
      BY <2>2, ScanKeeps DEF Inspect
    <2>3. CASE Read(c, "login", n) \/ Reconnect(c, n)
      BY <2>3, ReadKeeps DEF Reconnect
    <2>4. ASSUME NEW a \in Auths, NEW kind, Ask(c, kind, n, a) PROVE CallInv'
      BY <2>4, AskKeeps
    <2>5. "auto" \in Auths
      BY DEF Auths
    <2> QED
      BY <2>1, <2>2, <2>3, <2>4, <2>5 DEF AskRemoval
  <1>2. ASSUME NEW c \in Callers, Applies(c) PROVE CallInv'
    BY <1>2, SaveKeeps, RenewKeeps, RemoveKeeps, AuthenticateKeeps, MakeDefaultKeeps
    DEF Applies
  <1>3. ASSUME NEW c \in Callers, Confirm(c) \/ Rescan(c) \/ Validate(c) \/ GiveUp(c)
        PROVE  CallInv'
    BY <1>3, ConfirmKeeps, RescanKeeps, ValidateKeeps, GiveUpKeeps
  <1>4. ASSUME NEW e \in Endpoints, NEW k \in Keys, Change(e, k) PROVE CallInv'
    BY <1>4, ChangeKeeps
  <1>5. CASE UNCHANGED callVars
    BY <1>5 DEF callVars, local, CallInv, CallTypeOK, RequestsSound, ApprovedTrust,
       CredentialMatches, Known
  <1> QED
    BY <1>1, <1>2, <1>3, <1>4, <1>5 DEF CallNext

(* The files agree with each other and with what every caller in flight   *)
(* knows, at every moment.                                                 *)
THEOREM CallInvariant == CallSpec => []CallInv
  BY InitHolds, StepKeeps, PTL DEF CallSpec

(* Whatever overlaps and fails, the files and the requests keep their form. *)
THEOREM CallsTyped == CallSpec => []CallTypeOK
  BY CallInvariant, PTL DEF CallInv

(* No profile is ever pinned to a key that the user was not shown for it   *)
(* and has not approved, however many callers overlap and however often    *)
(* the endpoints change their keys.                                        *)
THEOREM OnlyApproved == CallSpec => []ApprovedTrust
  BY CallInvariant, PTL DEF CallInv

(* The token of a profile is one of the account and server it names, for   *)
(* all profiles whose last change was neither cut off nor too late.        *)
THEOREM OwnCredential == CallSpec => []CredentialMatches
  BY CallInvariant, PTL DEF CallInv
=============================================================================
