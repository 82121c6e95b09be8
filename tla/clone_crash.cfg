SPECIFICATION FairSpec
CONSTANTS
  Source <- MCSource
  First = 1
  Last = 2
  Workers = {w1, w2}
  MaxCrashes = 1
INVARIANTS
  TypeOK
  StoredReadable
  CloneComplete
  RecordedKept
PROPERTIES
  Completes
  PutLooksAtomic
CHECK_DEADLOCK FALSE
