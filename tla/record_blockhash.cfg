SPECIFICATION Spec
CONSTANTS
  s = s
  c = c
  x = x
  Addrs = {s, c, x}
  Keys = {k}
  Sender = s
  Coinbases = {x}
  Trie <- MCTrie
  Fee = 1
  Reward = 1
  MsgValues = {0}
  Values = {0, 1}
  SlotValues = {0, 1}
  CreatedAt = {x}
  ChainHashes <- MCChainHashes
  BlockNums <- MCAllBlockNums
  Rules = {TRUE, FALSE}
  MaxTxs = 2
  MaxSteps = 2
  MaxDepth = 2
INVARIANTS
  EnvHasBlockHashes
CHECK_DEADLOCK FALSE
