SPECIFICATION Spec
CONSTANTS
  Ether = {"eth"}
  Dai = "dai"
  Wbtc = "wbtc"
  StableTokens <- MCStableTokens
  StakeTokens = {}
  Prices <- MCPrices
  Users <- MCUsers
  Common = {"vault"}
  Managers = {"cat"}
  RelatedTokens = {}
  UserTokenTxMaps <- MCSingleMaps
  FlowMaps <- MCFlowMaps
  Relations <- MCRelations
  Never <- MCNever
  Dust = 3
  Commands = {"RecordRate"}
INVARIANTS
  UnsupportedRemoved
CHECK_DEADLOCK FALSE
