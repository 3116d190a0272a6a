SPECIFICATION Spec
CONSTANTS
  Users = {u1, u2}
  Pins = {p1}
  Imported = {m1}
  Issuable = {t1, t2}
  Labels = {l1, l2}
  None = None
  Session = Session
  MaxClock = 2
  MaxFailures = 2
  MaxDisruptions = 2
  Lifetime = 2
  Lead = 1
  Grace = 1
  BaseDelay = 1
  MaxDelay = 2
PROPERTY LastUsableTokenKept
SYMMETRY Symmetry
CHECK_DEADLOCK FALSE
