SPECIFICATION Spec
CONSTANTS
  Addresses <- MCAddresses
  Zero = "0x0"
  Proxies = {"proxy"}
  LPTokens = {"proxy"}
  Senders = {"user"}
  Calls <- MCCalls
  Events <- MCEvents
  Txs <- MCTxs
  BlockOf <- MCBlockOf
  Files <- MCFiles
  StakeFiles <- MCStakeFiles
  StartBlock = 8
  EndBlock = 10
  Never = 99
  Many = 2
  MaxCalls <- MCMaxCalls
  MaxTransfers <- MCMaxTransfers
INVARIANTS
  TypeOK
  UserAndProxyDisjoint
  TransferInOnePlace
  CountedOnce

  
CHECK_DEADLOCK FALSE
