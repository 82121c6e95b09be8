SPECIFICATION Spec
CONSTANTS
  Source <- MCBerlinSource
  First = 1
  Last = 1
  Workers = {w1}
  MaxCrashes = 0
INVARIANTS
  RecordedKept
CHECK_DEADLOCK FALSE
