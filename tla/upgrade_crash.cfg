SPECIFICATION FairSpec
CONSTANTS
  OldSubstates <- MCOldSubstates
  OldCodes <- MCOldCodes
  MaxCrashes = 2
INVARIANTS
  TypeOK
  UpgradeComplete
PROPERTIES
  EventuallyReadable
CHECK_DEADLOCK FALSE
