-------------------------- MODULE MCLeakingChecker --------------------------
(* Transfers and relations for LeakingChecker.  The amounts of different     *)
(* users are digits of different places, so that a sum shows whose it holds. *)
EXTENDS LeakingChecker, UserFlow

CONSTANT UserTokenTxMaps    \* the possible UserTokenTxMaps: user -> deposits and withdrawals

MCFlowMaps == {GenerateUserFlow(txMap) : txMap \in UserTokenTxMaps}

MCUsers == {"ann", "bob", "cat", "vault"}

\* every relation among three users that starts in block 500, in block 1000 (not those
\* of cat) or never; the vault is related to everyone in both directions
MCNever == 9999
Between == {e \in {"ann", "bob", "cat"} \X {"ann", "bob", "cat"} : e[1] # e[2]}
AsMap(r) ==
  [u \in MCUsers |-> [v \in MCUsers |->
     IF <<u, v>> \in Between THEN r[<<u, v>>]
     ELSE IF u = v THEN MCNever ELSE 500]]
MCRelations ==
  {AsMap(r) : r \in {f \in [Between -> {500, 1000, MCNever}] :
                       \A e \in Between : e[1] = "cat" => f[e] # 1000}}

\* usdc has one decimal less than dai; hbtc more than wbtc, so that it is worth
\* nothing; abc has a price in block 500 only
MCStableTokens ==
  [token \in {"dai", "usdc", "wbtc", "hbtc"} |->
     CASE token = "dai" -> [XToken |-> "0x2", Decimals |-> 18, RateToXToken |-> 1]
       [] token = "usdc" -> [XToken |-> "0x2", Decimals |-> 17, RateToXToken |-> 1]
       [] token = "wbtc" -> [XToken |-> "0x3", Decimals |-> 8, RateToXToken |-> 1]
       [] token = "hbtc" -> [XToken |-> "0x3", Decimals |-> 18, RateToXToken |-> 1]]
MCPrices ==
  [token \in {"dai", "usdc", "wbtc", "hbtc", "abc"} |->
     IF token = "abc" THEN [block \in {500} |-> 1] ELSE [block \in {500, 1000} |-> 1]]

Transfer(block, tx, i, action, token, amount) ==
  [block |-> block, tx |-> tx, index |-> i, action |-> action, token |-> token,
   amount |-> amount]
In(block, tx, i, token, amount) == Transfer(block, tx, i, "deposit", token, amount)
Out(block, tx, i, token, amount) == Transfer(block, tx, i, "withdraw", token, amount)

\* ann deposits first, and withdraws with bob; bob withdraws what ann deposited; cat
\* deposits and withdraws in one transaction.  All use several tokens.
Ann == <<In(501, 0, 0, "eth", 2), Out(1001, 1, 1, "eth", 4), In(1001, 1, 0, "abc", 0),
         In(1001, 1, 3, "dai", 1)>>
Bob == <<Out(501, 1, 0, "dai", 20), Out(1001, 3, 0, "usdc", 3), Out(1000, 2, 0, "hbtc", 70)>>
Cat == <<In(1001, 0, 0, "usdc", 30), Out(1001, 0, 1, "eth", 200)>>
Vault == <<In(501, 0, 0, "eth", 7000), Out(501, 0, 1, "dai", 7000)>>

MCSeveral ==
  [u \in MCUsers |->
     CASE u = "ann" -> Ann [] u = "bob" -> Bob [] u = "cat" -> Cat [] u = "vault" -> Vault]

\* two users of one token without a price, and one with an unsupported token among
\* several; the vault has no transfers
AnnXyz == <<In(501, 0, 0, "xyz", 2), In(1001, 1, 0, "xyz", 1), Out(1001, 1, 1, "xyz", 4)>>
BobXyz == <<Out(501, 1, 0, "xyz", 20), Out(1001, 2, 0, "xyz", 30)>>
CatXyz == <<In(501, 0, 0, "abc", 300), Out(1001, 0, 1, "abc", 200), In(501, 1, 0, "eth", 100)>>

MCSingle ==
  [u \in {"ann", "bob", "cat"} |->
     CASE u = "ann" -> AnnXyz [] u = "bob" -> BobXyz [] u = "cat" -> CatXyz]

\* two users of several tokens, one of a single token
MCMixed == [u \in {"ann", "bob", "cat"} |->
     CASE u = "ann" -> Ann [] u = "bob" -> <<Out(501, 1, 0, "eth", 20), Out(1001, 3, 0, "eth", 30)>>
       [] u = "cat" -> Cat]

MCAllMaps == {MCSeveral, MCSingle, MCMixed}
MCSingleMaps == {MCSingle}

\* The flows the search starts from: the grouped list of every user has one entry for
\* every block with a transfer, in order, and holds what all transfers up to the end of
\* that block are worth, although they are met token by token.
FlowsCorrect ==
  todo = DOMAIN flows =>
    \E txMap \in UserTokenTxMaps :
       /\ flows = GenerateUserFlow(txMap)
       /\ \A u \in DOMAIN flows : GroupedCorrectly(txMap[u], flows[u]["0x5"])
=============================================================================
