SPECIFICATION Spec
CONSTANTS
  CallCreateDepth = 1
  MaxCalls = 2
  MaxLogs = 1
  IsHomestead = TRUE
  SkipTransferTxs = FALSE
INVARIANTS
  NoPanic
CHECK_DEADLOCK FALSE
