SPECIFICATION FairSpec
CONSTANTS
  NumWorkers = 2
  First = 1
  Last = 3
  ChanFactor = 1
  Mode = "Execute"
  Skip = {"transfer"}
  TaskOutcomes = {"nil", "notInner", "error"}
  BlockSubstates <- MCBlockSubstates
INVARIANTS
  TypeOK
  ExactlyOnce
  NilMeansAllRan
  CountedInOrder
  NoItemLostOrDuplicated
  TotalsComplete
  StopReachesWorkers
PROPERTIES
  Terminates
  ImplementsPromise
CHECK_DEADLOCK FALSE
