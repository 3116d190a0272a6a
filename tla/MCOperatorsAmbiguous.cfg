SPECIFICATION Spec
CONSTANTS
  None = None
  Refused = Refused
  Broken = Broken
  Failed = Failed
  Pruned = Pruned
  Characters = {"a", "b", "l", "s", "A", "B", "0", "-", ".", "_", "~",
                "p", "v", "h", "x", "2"}
  Suffix <- const_Suffix
  Reserved <- const_Reserved
  Valued = {"p"}
  Configurations <- const_Configurations
  ManualHosts <- const_ManualHosts
  ArgumentLists <- const_ArgumentLists
  Pieces = {"I", "S", "E", "B", "N", " ", "x"}
  Texts <- const_Texts
  Startups <- const_Startups
  Trees <- const_Trees
  Paths <- const_Paths
  Patterns <- const_Patterns
  Logs <- const_Logs
  Values <- const_Values
  Meanwhile <- const_Meanwhile
  Markers <- const_Markers
  Fragments = {"cookie=", "bearer ", "token=", " ", "x", "*"}
  Spaced = {"bearer "}
  Keys = {"plain", "apiToken"}
  Numbers = {1}
  Nesting = 2
  Sensitive = {"apiToken"}
  Structured = {"agent", "companion"}
  Retention = 1
  Schedules <- const_Schedules
  Bits = 4
  Longest = 16
  MaxFailures = 7
INVARIANT AliasesUnambiguous
CHECK_DEADLOCK FALSE
