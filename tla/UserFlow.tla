------------------------------ MODULE UserFlow ------------------------------
(***************************************************************************)
(* GenerateUserFlow of hunter/defi/check.go: from the deposits and          *)
(* withdrawals of a user to running totals, per token, per kind of stable   *)
(* token ("0x1" to "0x3"), and over all tokens in ether ("0x4", and "0x5"   *)
(* with the transfers grouped).  "0x6" is the list of a user with a single  *)
(* token, and "0x7" marks a user of several tokens of which one cannot be   *)
(* valued.                                                                  *)
(*                                                                          *)
(* Amounts and rates are integers instead of big.Float.  A stable token for *)
(* ether that has a price of its own is left out: its transfer ends the     *)
(* program with a nil decimalsRate.                                         *)
(***************************************************************************)
EXTENDS Integers, SequencesExt

CONSTANTS
  Ether,           \* 0x0 and WETH
  Dai, Wbtc,       \* whose price is that of all stable tokens for USD and BTC
  StableTokens,    \* StableTokenMap
  StakeTokens,     \* LPTokenMap
  Prices           \* the price files: token -> block, a multiple of 500 -> rate

ASSUME FlowAssumption ==
  \A token \in DOMAIN StableTokens :
    /\ StableTokens[token].XToken \in {"0x1", "0x2", "0x3"}
    /\ StableTokens[token].XToken = "0x1" => token \notin DOMAIN Prices

\* TokenTxList.Less
Less(s, t) ==
  \/ s.block < t.block
  \/ s.block = t.block /\ s.tx < t.tx
  \/ s.block = t.block /\ s.tx = t.tx /\ s.index < t.index

\* int64(math.Pow(10, n))
Pow10(n) == IF n < 0 THEN 0 ELSE 10 ^ n

Balance(deposit, withdraw) == IF deposit > withdraw THEN deposit - withdraw ELSE 0

Flow(block, tx, action, deposit, withdraw) ==
  [block |-> block, tx |-> tx, action |-> action, deposit |-> deposit, withdraw |-> withdraw,
   balance |-> Balance(deposit, withdraw)]
EmptyFlow == Flow(0, 0, {"deposit"}, 0, 0)

-----------------------------------------------------------------------------
(* Lists with one entry per transfer.                                       *)

Deposit(t, worth) == IF t.action = "deposit" THEN worth ELSE 0
Withdraw(t, worth) == IF t.action = "withdraw" THEN worth ELSE 0

AddTransfer(list, t, worth) ==
  Append(list, Flow(t.block, t.tx, {t.action}, Last(list).deposit + Deposit(t, worth),
                    Last(list).withdraw + Withdraw(t, worth)))

\* the running totals of the transfers of txs that move something
Totals(txs, worth) ==
  LET step(list, t) == IF t.amount > 0 THEN AddTransfer(list, t, worth[t]) ELSE list
  IN FoldLeft(step, <<EmptyFlow>>, SortSeq(txs, Less))

StableWorth(t) ==
  t.amount * StableTokens[t.token].RateToXToken * Pow10(18 - StableTokens[t.token].Decimals)

-----------------------------------------------------------------------------
(* The list over all tokens.                                                *)

\* the amount in the unit the price is for, and the token whose price is taken
PricedAmount(t) ==
  IF t.token \notin DOMAIN StableTokens THEN t.amount
  ELSE LET stable == StableTokens[t.token]
       IN t.amount * Pow10((IF stable.XToken = "0x2" THEN 18 ELSE 8) - stable.Decimals)
PricedAs(token) ==
  IF token \notin DOMAIN StableTokens THEN token
  ELSE IF StableTokens[token].XToken = "0x2" THEN Dai ELSE Wbtc

RateAt(token, block) ==
  LET bucket == (block \div 500) * 500
  IN IF token \in DOMAIN Prices /\ bucket \in DOMAIN Prices[token] THEN Prices[token][bucket] ELSE 0

Rate(t) ==
  IF t.token \in Ether THEN 1
  ELSE IF t.token \in DOMAIN Prices THEN RateAt(PricedAs(t.token), t.block) ELSE 0

WorthInEther(t) == IF t.token \in Ether THEN t.amount ELSE PricedAmount(t) * Rate(t)

IsUnsupported(t) == t.amount > 0 /\ Rate(t) <= 0
Counts(t) == t.amount > 0 /\ Rate(t) > 0

\* faulty variant: the group takes over no totals
OpenGroupEmpty(acc, t) ==
  IF t.block > acc.group.block
  THEN [acc EXCEPT !.list = Append(@, acc.group),
                   !.group = [Flow(t.block, t.tx, {}, 0, 0) EXCEPT !.balance = 0]]
  ELSE acc

\* a transfer of a later block closes the group and opens the next, with the totals so
\* far and no balance
OpenGroup(acc, t) ==
  IF t.block > acc.group.block
  THEN [acc EXCEPT !.list = Append(@, acc.group),
                   !.group = [Flow(t.block, t.tx, {}, acc.group.deposit, acc.group.withdraw)
                                EXCEPT !.balance = 0]]
  ELSE acc

AddToGroup(group, t) ==
  Flow(group.block, group.tx, group.action \union {t.action},
       group.deposit + Deposit(t, WorthInEther(t)), group.withdraw + Withdraw(t, WorthInEther(t)))

GroupedTotals(txs) ==
  LET step(acc, t) ==
        LET open == OpenGroup(acc, t)
        IN IF Counts(t) THEN [open EXCEPT !.group = AddToGroup(@, t)] ELSE open
      all == FoldLeft(step, [list |-> <<>>, group |-> EmptyFlow], SortSeq(txs, Less))
  IN Append(all.list, all.group)

-----------------------------------------------------------------------------

\* the entry of userTokenFlowMap for a user with the transfers txs
UserFlow(txs) ==
  LET tokens == {txs[i].token : i \in DOMAIN txs}
      listed == {k \in tokens : k \in DOMAIN StableTokens \/ k \notin StakeTokens}
      xTokens == {StableTokens[k].XToken : k \in tokens \cap DOMAIN StableTokens}
      ofToken(k) ==
        LET test(t) == t.token = k
        IN Totals(SelectSeq(txs, test), [t \in Range(txs) |-> t.amount])
      ofStable(x) ==
        LET test(t) == t.token \in DOMAIN StableTokens /\ StableTokens[t.token].XToken = x
            stable == SelectSeq(txs, test)
        IN Totals(stable, [t \in Range(stable) |-> StableWorth(t)])
      single == Cardinality(tokens) = 1
      only == CHOOSE token \in tokens : TRUE
      unsupported == ~single /\ \E i \in DOMAIN txs : IsUnsupported(txs[i])
      keys == listed \union xTokens \union {"0x4", "0x5"}
                \union (IF single THEN {"0x6"} ELSE {})
                \union (IF unsupported THEN {"0x7"} ELSE {})
  IN [key \in keys |->
        CASE key \in xTokens -> ofStable(key)
          [] key = "0x4" -> Totals(SelectSeq(txs, Counts), [t \in Range(txs) |-> WorthInEther(t)])
          [] key = "0x5" -> GroupedTotals(txs)
          [] key = "0x6" -> IF only \in listed THEN ofToken(only) ELSE <<>>
          [] key = "0x7" -> <<>>
          [] OTHER -> ofToken(key)]

GenerateUserFlow(userTokenTxMap) == [u \in DOMAIN userTokenTxMap |-> UserFlow(userTokenTxMap[u])]

-----------------------------------------------------------------------------
(* What the flows should be.                                                *)

\* the grouped list of a user, which is what the checker compares with
GroupedCorrectly(txs, list) ==
  LET worth(i) == WorthInEther(txs[i])
      upTo(e, action) == {i \in DOMAIN txs : Counts(txs[i]) /\ txs[i].block <= e.block
                                             /\ txs[i].action = action}
  IN /\ {list[i].block : i \in DOMAIN list} = {0} \union {txs[i].block : i \in DOMAIN txs}
     /\ \A i, j \in DOMAIN list : i < j => list[i].block < list[j].block
     /\ \A i \in DOMAIN list :
          /\ list[i].deposit = MapThenSumSet(worth, upTo(list[i], "deposit"))
          /\ list[i].withdraw = MapThenSumSet(worth, upTo(list[i], "withdraw"))
=============================================================================
