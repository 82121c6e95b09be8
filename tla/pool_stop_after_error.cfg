SPECIFICATION FairSpec
CONSTANTS
  NumWorkers = 1
  First = 1
  Last = 12
  ChanFactor = 10
  Mode = "Execute"
  Skip = {}
  TaskOutcomes = {"nil", "error"}
  BlockSubstates <- MCFirstFails
PROPERTIES
  Terminates
CHECK_DEADLOCK FALSE
