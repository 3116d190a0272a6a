------------------------- MODULE CredentialContract -------------------------
(***************************************************************************)
(* What the management of one profile's credential promises, whatever      *)
(* happens to the operations that implement it: the stored credential is   *)
(* replaced by a token of the application only as a whole, and only by one *)
(* that is still good as far as the application knows; the application     *)
(* deletes nothing but tokens it created, and never the stored one.        *)
(***************************************************************************)
EXTENDS Naturals

CONSTANTS Owned,     \* tokens the application may create
          Foreign,   \* tokens created by the user
          NoToken

VARIABLES stored,    \* the credential of the profile
          created,   \* tokens the application created
          deleted    \* tokens the application deleted on the server

cvars == <<stored, created, deleted>>

CInit == stored = NoToken /\ created = {} /\ deleted = {}

Create(t) ==
  /\ created' = created \union {t}
  /\ UNCHANGED <<stored, deleted>>

Adopt(t) ==
  /\ t \in created \ deleted
  /\ stored' = t
  /\ UNCHANGED <<created, deleted>>

Provide(t) ==
  /\ stored' = t
  /\ UNCHANGED <<created, deleted>>

Delete(t) ==
  /\ t \in created \ {stored}
  /\ deleted' = deleted \union {t}
  /\ UNCHANGED <<stored, created>>

CNext ==
  \/ \E t \in Owned : Create(t) \/ Adopt(t) \/ Delete(t)
  \/ \E t \in Foreign \union {NoToken} : Provide(t)

CSpec == CInit /\ [][CNext]_cvars
=============================================================================
