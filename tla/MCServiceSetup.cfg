SPECIFICATION SetupSpec
CONSTANTS
  Callers = {c1, c2}
  Profiles = {1, 2}
  None = None
  Machines <- const_Machines
  Traces <- const_Traces
  MaxCalls = 2
  MaxFailures = 1
  MaxEvents = 1
INVARIANT SetupTypeOK
PROPERTIES UninstallLeavesNothing EnsureStarts StartupCreatesNothing ForeignKept
SYMMETRY Symmetry
CHECK_DEADLOCK FALSE
