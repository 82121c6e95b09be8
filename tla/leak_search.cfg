SPECIFICATION Spec
CONSTANTS
  Ether = {"eth"}
  Dai = "dai"
  Wbtc = "wbtc"
  StableTokens <- MCStableTokens
  StakeTokens = {}
  Prices <- MCPrices
  Users <- MCUsers
  Common = {"vault"}
  Managers = {"cat"}
  RelatedTokens = {}
  UserTokenTxMaps <- MCAllMaps
  FlowMaps <- MCFlowMaps
  Relations <- MCRelations
  Never <- MCNever
  Dust = 3
  Commands = {"RecordRate", "CheckAttack"}
INVARIANTS
  TypeOK
  NoRepeatedCall
  
  RelatedFlowsSummed
  
PROPERTIES
  MakesProgress
CHECK_DEADLOCK FALSE
