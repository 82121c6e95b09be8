SPECIFICATION Spec
CONSTANTS
  CallCreateDepth = 2
  MaxCalls = 4
  MaxLogs = 2
  IsHomestead = FALSE
  SkipTransferTxs = TRUE
INVARIANTS
  TypeOK
  RunsMatchCallStack
  CallStackEmptied
  TraceInExecutionOrder
  CommittedEventsAreLogs
  ReadOnlyInStaticCalls
CHECK_DEADLOCK FALSE
