SPECIFICATION LiveSpec
CONSTANTS
  Profiles = {1, 2}
  Endpoints = {e1, e2}
  Keys = {k1}
  Listings = {a}
  None = None
  MaxEdits = 3
  MaxChanges = 2
  MaxFailures = 1
PROPERTIES Converges PinsFollow
CHECK_DEADLOCK FALSE
