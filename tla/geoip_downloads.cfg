SPECIFICATION GSpec
CONSTANTS
  Downloads = {1, 2}
  Lookups = {3}
  MaxFiles = 4
  MaxOps = 3
INVARIANTS HalfAFileReplacesNothing
CHECK_DEADLOCK FALSE
