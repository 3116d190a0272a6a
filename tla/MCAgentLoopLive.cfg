SPECIFICATION FairSpec
CONSTANTS
  Clients = {c1, c2}
  None = None
  Limit = 1
  Intervals = {2}
  Jitter = 0
  InitialBackoff = 1
  MaximumBackoff = 1
  CountLimit = 1
  CheckEvery = 1
  MaxFailures = 1
  MaxEvents = 0
PROPERTIES EveryChangePublished EveryRequestAnswered
