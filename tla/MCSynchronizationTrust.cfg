SPECIFICATION FairSpec
CONSTANTS
  Profiles = {1}
  Endpoints = {e1, e2}
  Keys = {k1}
  Listings = {a}
  None = None
  MaxEdits = 1
  MaxChanges = 1
  MaxFailures = 0
PROPERTY AliasesTrusted
CHECK_DEADLOCK FALSE
