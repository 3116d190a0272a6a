SPECIFICATION Spec
CONSTANTS
  Callers = {c1, c2}
  Profiles = {1, 2}
  Servers = {s1, s2}
  Users = {u1, u2}
  Endpoints = {e1, e2}
  Keys = {k1, k2}
  None = None
  MaxCalls = 2
  MaxChanges = 1
  MaxFailures = 1
INVARIANTS CallTypeOK ApprovedTrust CredentialMatches
SYMMETRY Symmetry
CHECK_DEADLOCK FALSE
