SPECIFICATION Spec
CONSTANTS
  Clients = {c1, c2}
  None = None
  Limit = 1
  Intervals = {3, 4}
  Jitter = 1
  InitialBackoff = 1
  MaximumBackoff = 2
  CountLimit = 2
  CheckEvery = 1
  MaxFailures = 1
  MaxEvents = 1
INVARIANTS TypeOK PlacesExact LockOwned SaveIsSynchronized AttemptInTime RenewalPrompt
SYMMETRY Symmetry
