SPECIFICATION Spec
CONSTANTS
  Profiles = {1, 2}
  Endpoints = {e1, e2}
  Keys = {k1, k2}
  Listings = {a, b}
  None = None
  MaxEdits = 3
  MaxChanges = 1
  MaxFailures = 1
INVARIANTS TypeOK CopiesFaithful
PROPERTIES NeverPartial ChangesKept TrustKept
SYMMETRY Symmetry
CHECK_DEADLOCK FALSE
