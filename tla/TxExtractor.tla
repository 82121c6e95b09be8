----------------------------- MODULE TxExtractor -----------------------------
(***************************************************************************)
(* The transaction extractor of hunter/defi/extractor.go, as hunter/main.go *)
(* runs it: InitTokenUserTxMap walks the call trees of the transactions     *)
(* that touch the app's contracts, InitUserRelatedMapWithStake those that   *)
(* touch its LP tokens, then UpdateCommonAddressMap and                     *)
(* ExtractActionInfoListNew turn the recorded actions into deposits and     *)
(* withdrawals per user.                                                    *)
(*                                                                          *)
(* The call trees are the environment's choice: while a call is being       *)
(* walked, its next child or event is any that the EVM can record there.    *)
(* The recursion of extractInTxInfo is the variable stack.  MethodCountMap, *)
(* CommonRelatedUser and FlowMergeMode, which nothing reads, are left out.  *)
(***************************************************************************)
EXTENDS Integers, Sequences, FiniteSets, Functions

CONSTANTS
  Addresses,
  Zero,            \* 0x0, also the token address of ether
  Proxies,         \* ProxyContracts, the keys of ProxyABIMap
  LPTokens,        \* LPTokenMap
  Senders,         \* accounts that send transactions
  Calls,           \* the possible calls, without their From
  Events,          \* the possible token transfer events
  Txs,             \* transactions
  BlockOf,         \* and their block numbers
  Files,           \* the historyTx files of all proxies, as ReadDir lists them
  StakeFiles,      \* those of the LP tokens
  StartBlock, EndBlock,
  Never,           \* not related: a block after all others
  Many,            \* 100
  MaxCalls,        \* bounds: calls of each transaction
  MaxTransfers     \* bounds: ether transfers and events of each transaction

NoTx == "none"

ASSUME ExtractorAssumption ==
  /\ Zero \in Addresses
  /\ Proxies \subseteq Addresses /\ LPTokens \subseteq Addresses
  /\ Senders \subseteq Addresses \ Proxies
  /\ \A c \in Calls :
       /\ c.To \in Addresses /\ c.Args \subseteq Addresses
       /\ c.CallType = "Create" => c.Args = {}       \* its input is not recorded
       /\ c.CallType \in {"DelegateCall", "StaticCall"} => ~c.Value
  /\ \A e \in Events : {e.token, e.sender, e.to} \subseteq Addresses
  /\ NoTx \notin Txs
  /\ BlockOf \in [Txs -> Nat] /\ Never \in Nat
  /\ \A tx \in Txs : BlockOf[tx] < Never
  /\ MaxCalls \in [Txs -> Nat] /\ MaxTransfers \in [Txs -> Nat]
  /\ Files \in Seq(Txs) /\ StakeFiles \in Seq(Txs)

VARIABLES
  phase,                 \* "txs", "stake", "extract"
  file,                  \* of the current directory listing
  usedTxs,
  tx,                    \* the transaction being walked
  stack,                 \* pending calls of extractInTxInfo
  userSuppliedAddress,   \* one map per transaction, shared by all its actions
  proxyRelatedAddress,   \* the same
  transferIndex,
  calls, others,         \* calls and non-transfer events of the transaction so far
  managers,              \* the addresses with RoleMap "manager"
  since,                 \* UserRelatedMap: the block since which one is related to the other
  actions,               \* ActionInfoList
  count,                 \* AddressCountMap
  common,                \* CommonAddressMap
  todo,                  \* the actions not extracted yet
  userTokenTx,           \* UserTokenTxMap
  relatedToken           \* the keys of RelatedToken

walkVars == <<tx, stack, userSuppliedAddress, proxyRelatedAddress, transferIndex, calls, others>>
extractVars == <<common, todo, userTokenTx, relatedToken>>
vars == <<phase, file, usedTxs, walkVars, managers, since, actions, count, extractVars>>

-----------------------------------------------------------------------------

\* faulty variant: the latest block is kept
UpdateToLatest(pairs, block) ==
  [u \in Addresses |-> [v \in Addresses |-> IF u # v /\ <<u, v>> \in pairs THEN block ELSE since[u][v]]]

\* updateUserRelatedMap for pairs of main and related user of one block
UpdateUserRelatedMap(pairs, block) ==
  [u \in Addresses |-> [v \in Addresses |->
     IF u # v /\ <<u, v>> \in pairs /\ block < since[u][v] THEN block ELSE since[u][v]]]

\* an LP token transfer relates its sender to its receiver
StakePairs(e) ==
  IF e.token \in LPTokens /\ Zero \notin {e.sender, e.to} /\ {e.sender, e.to} \cap Proxies = {}
  THEN {<<e.to, e.sender>>} ELSE {}

\* faulty variant: the index is one too small
TokenTxOneLess(e) ==
  [tx |-> tx, index |-> transferIndex - 1, token |-> e.token, sender |-> e.sender, to |-> e.to]

TokenTx(e) ==
  [tx |-> tx, index |-> transferIndex, token |-> e.token, sender |-> e.sender, to |-> e.to]

Init ==
  /\ phase = "txs" /\ file = 1 /\ usedTxs = {}
  /\ tx = NoTx /\ stack = <<>>
  /\ userSuppliedAddress = [t \in Txs |-> {}] /\ proxyRelatedAddress = [t \in Txs |-> {}]
  /\ transferIndex = 0 /\ calls = 0 /\ others = 0
  /\ managers = {}
  /\ since = [u \in Addresses |-> [v \in Addresses |-> Never]]
  /\ actions = <<>>
  /\ count = [a \in Addresses |-> 0]
  /\ common = {} /\ todo = {}
  /\ userTokenTx = [a \in Addresses |-> <<>>]
  /\ relatedToken = {}

-----------------------------------------------------------------------------
(* Walking a call tree.                                                     *)

IsProxyCall(c) == c.To \in Proxies /\ c.CallType # "StaticCall"

\* RoleMap once the creation of a proxy is noted, and after the arguments are looked at
CreatorsAfter(c, from) ==
  IF IsProxyCall(c) /\ c.CallType = "Create" THEN managers \union {from} ELSE managers
ManagersAfter(c, from) ==
  IF IsProxyCall(c) /\ from \in CreatorsAfter(c, from) /\ ~c.Transfer
  THEN CreatorsAfter(c, from) \union c.Args ELSE CreatorsAfter(c, from)

\* the address arguments a user hands to a proxy
SuppliedArgs(c, from, users) ==
  IF IsProxyCall(c) /\ from \in users THEN c.Args \ CreatorsAfter(c, from) ELSE {}

\* faulty variant: an argument may be a proxy related address
MapsAfterUnchecked(c, from, users, proxies) ==
  LET supplied == users \union SuppliedArgs(c, from, users)
      marked == c.CallType \notin {"StaticCall", "DelegateCall"} /\ c.To \notin supplied \union proxies
      user == marked /\ from \in supplied /\ c.To \notin ManagersAfter(c, from)
      proxy == marked /\ ~user /\ from \in proxies
  IN [users |-> IF user THEN supplied \union {c.To} ELSE supplied,
      proxies |-> IF proxy THEN proxies \union {c.To} ELSE proxies]

\* userSuppliedAddress and proxyRelatedAddress before the children of call c
MapsAfter(c, from, users, proxies) ==
  LET supplied == users \union (SuppliedArgs(c, from, users) \ proxies)
      marked == c.CallType \notin {"StaticCall", "DelegateCall"} /\ c.To \notin supplied \union proxies
      user == marked /\ from \in supplied /\ c.To \notin ManagersAfter(c, from)
      proxy == marked /\ ~user /\ from \in proxies
  IN [users |-> IF user THEN supplied \union {c.To} ELSE supplied,
      proxies |-> IF proxy THEN proxies \union {c.To} ELSE proxies]

\* The code of a DelegateCall or CallCode runs as its caller.  Nothing in a static call
\* sends ether, creates a contract or logs.
Frame(c, from, isAction, list, static) ==
  [self |-> IF c.CallType \in {"DelegateCall", "CallCode"} THEN from ELSE c.To,
   from |-> from, action |-> isAction, list |-> list, logged |-> FALSE,
   static |-> static \/ c.CallType = "StaticCall"]

\* extractInTxInfo for a call of transaction t up to the loop over its children
Enter(t, c, from, static, users, proxies) ==
  LET maps == MapsAfter(c, from, users, proxies)
      ether == [tx |-> t, index |-> transferIndex, token |-> Zero, sender |-> from, to |-> c.To]
  IN /\ managers' = ManagersAfter(c, from)
     /\ userSuppliedAddress' = [userSuppliedAddress EXCEPT ![t] = maps.users]
     /\ proxyRelatedAddress' = [proxyRelatedAddress EXCEPT ![t] = maps.proxies]
     /\ stack' = Append(stack, Frame(c, from, IsProxyCall(c) /\ from \in users,
                                     IF c.Value THEN <<ether>> ELSE <<>>, static))
     /\ transferIndex' = IF c.Value THEN transferIndex + 1 ELSE transferIndex
     /\ calls' = calls + 1

InRange(t) == StartBlock <= BlockOf[t] /\ BlockOf[t] <= EndBlock

\* a file seen before or out of the range of blocks
SkipFile ==
  /\ phase = "txs" /\ tx = NoTx /\ file <= Len(Files)
  /\ Files[file] \in usedTxs \/ ~InRange(Files[file])
  /\ usedTxs' = usedTxs \union {Files[file]}
  /\ file' = file + 1
  /\ UNCHANGED <<phase, walkVars, managers, since, actions, count, extractVars>>

\* a file without a call tree
LoadEmptyTx ==
  /\ phase = "txs" /\ tx = NoTx /\ file <= Len(Files)
  /\ Files[file] \notin usedTxs /\ InRange(Files[file])
  /\ usedTxs' = usedTxs \union {Files[file]}
  /\ file' = file + 1
  /\ UNCHANGED <<phase, walkVars, managers, since, actions, count, extractVars>>

\* faulty variant: a transaction that is listed for two proxies is walked twice
LoadTxAgain(sender, c) ==
  /\ phase = "txs" /\ tx = NoTx /\ file <= Len(Files) /\ InRange(Files[file])
  /\ c.CallType \in {"Call", "Create"}
  /\ usedTxs' = usedTxs \union {Files[file]}
  /\ tx' = Files[file]
  /\ Enter(Files[file], c, sender, FALSE, {sender}, Proxies)
  /\ UNCHANGED <<phase, file, others, since, actions, count, extractVars>>

\* ExtractTokenTx for the next file: the sender and all proxies are marked, and the
\* outermost call is entered
LoadTx(sender, c) ==
  /\ phase = "txs" /\ tx = NoTx /\ file <= Len(Files)
  /\ Files[file] \notin usedTxs /\ InRange(Files[file])
  /\ c.CallType \in {"Call", "Create"}
  /\ usedTxs' = usedTxs \union {Files[file]}
  /\ tx' = Files[file]
  /\ Enter(Files[file], c, sender, FALSE, {sender}, Proxies)
  /\ UNCHANGED <<phase, file, others, since, actions, count, extractVars>>

Top == stack[Len(stack)]

\* the next child of the current call
Child(c) ==
  /\ stack # <<>> /\ ~Top.logged /\ calls < MaxCalls[tx]
  /\ Top.static => ~c.Value /\ c.CallType # "Create"
  /\ Enter(tx, c, Top.self, Top.static, userSuppliedAddress[tx], proxyRelatedAddress[tx])
  /\ UNCHANGED <<phase, file, usedTxs, tx, others, since, actions, count, extractVars>>

\* The next event of the current call; they come after the children.  Every event
\* takes an index, a transfer is added to the list.
MayLog == stack # <<>> /\ ~Top.static /\ transferIndex < MaxTransfers[tx]

TransferEvent(e) ==
  /\ MayLog /\ e.token = Top.self
  /\ stack' = [stack EXCEPT ![Len(stack)].list = Append(@, TokenTx(e)),
                           ![Len(stack)].logged = TRUE]
  /\ transferIndex' = transferIndex + 1
  /\ since' = UpdateUserRelatedMap(StakePairs(e), BlockOf[tx])
  /\ UNCHANGED <<phase, file, usedTxs, tx, userSuppliedAddress, proxyRelatedAddress, calls,
                 others, managers, actions, count, extractVars>>

OtherEvent ==
  /\ MayLog
  /\ stack' = [stack EXCEPT ![Len(stack)].logged = TRUE]
  /\ transferIndex' = transferIndex + 1
  /\ others' = others + 1
  /\ UNCHANGED <<phase, file, usedTxs, tx, userSuppliedAddress, proxyRelatedAddress, calls,
                 managers, since, actions, count, extractVars>>

\* AddressCountMap: the transfers of other tokens than the proxies, at both ends
CountedTransfers(list, a) ==
  {i \in DOMAIN list : /\ list[i].token \notin Proxies
                       /\ Zero \notin {list[i].sender, list[i].to}
                       /\ a \in {list[i].sender, list[i].to}}

\* a transfer to oneself counts twice
CountAfter(list) ==
  [a \in Addresses |->
     count[a] + Cardinality(CountedTransfers(list, a))
       + Cardinality({i \in CountedTransfers(list, a) : list[i].sender = list[i].to})]

ActionInfo(frame) == [tx |-> tx, initiator |-> frame.from, list |-> frame.list]

\* faulty variant: the transfers of an action are also handed to the caller
ReturnKeepsList ==
  /\ stack # <<>>
  /\ LET below == Len(stack) - 1 IN
     /\ stack' = IF below = 0 THEN <<>>
                 ELSE [SubSeq(stack, 1, below) EXCEPT ![below].list = @ \o Top.list]
     /\ IF Top.action
        THEN actions' = Append(actions, ActionInfo(Top)) /\ count' = CountAfter(Top.list)
        ELSE UNCHANGED <<actions, count>>
     /\ IF below = 0
        THEN tx' = NoTx /\ file' = file + 1 /\ transferIndex' = 0 /\ calls' = 0 /\ others' = 0
        ELSE UNCHANGED <<tx, file, transferIndex, calls, others>>
  /\ UNCHANGED <<phase, usedTxs, userSuppliedAddress, proxyRelatedAddress, managers, since,
                 extractVars>>

\* extractInTxInfo returns: a user's call of a proxy becomes an action with all the
\* transfers below it, any other call hands its transfers to its caller
Return ==
  /\ stack # <<>>
  /\ LET below == Len(stack) - 1
         rest == IF Top.action THEN <<>> ELSE Top.list
     IN
     /\ stack' = IF below = 0 THEN <<>>
                 ELSE [SubSeq(stack, 1, below) EXCEPT ![below].list = @ \o rest]
     /\ IF Top.action
        THEN actions' = Append(actions, ActionInfo(Top)) /\ count' = CountAfter(Top.list)
        ELSE UNCHANGED <<actions, count>>
     /\ IF below = 0
        THEN tx' = NoTx /\ file' = file + 1 /\ transferIndex' = 0 /\ calls' = 0 /\ others' = 0
        ELSE UNCHANGED <<tx, file, transferIndex, calls, others>>
  /\ UNCHANGED <<phase, usedTxs, userSuppliedAddress, proxyRelatedAddress, managers, since,
                 extractVars>>

-----------------------------------------------------------------------------
(* The LP tokens' transactions.                                             *)

StartStake ==
  /\ phase = "txs" /\ tx = NoTx /\ file > Len(Files)
  /\ phase' = "stake" /\ file' = 1
  /\ UNCHANGED <<usedTxs, walkVars, managers, since, actions, count, extractVars>>

\* an event of the current file
StakeEvent(e) ==
  /\ phase = "stake" /\ file <= Len(StakeFiles) /\ InRange(StakeFiles[file])
  /\ since' = UpdateUserRelatedMap(StakePairs(e), BlockOf[StakeFiles[file]])
  /\ UNCHANGED <<phase, file, usedTxs, walkVars, managers, actions, count, extractVars>>

NextStakeFile ==
  /\ phase = "stake" /\ file <= Len(StakeFiles)
  /\ file' = file + 1
  /\ UNCHANGED <<phase, usedTxs, walkVars, managers, since, actions, count, extractVars>>

-----------------------------------------------------------------------------
(* From actions to deposits and withdrawals.                                *)

\* proxies, and with many actions the addresses that take part in 0.3 of them
CommonAddresses ==
  Proxies \union
    IF Len(actions) > Many THEN {a \in Addresses : 10 * count[a] > 3 * Len(actions)} ELSE {}

UpdateCommonAddressMap ==
  /\ phase = "stake" /\ file > Len(StakeFiles)
  /\ phase' = "extract"
  /\ common' = CommonAddresses
  /\ todo' = DOMAIN actions
  /\ UNCHANGED <<file, usedTxs, walkVars, managers, since, actions, count, userTokenTx, relatedToken>>

Users(a) == userSuppliedAddress[a.tx]
ProxyRelated(a) == proxyRelatedAddress[a.tx]

\* who received minted and whose burnt LP tokens in action a
DepositTo(a) ==
  {t.to : t \in {a.list[i] : i \in {j \in DOMAIN a.list :
     a.list[j].token \in LPTokens /\ a.list[j].sender = Zero /\ a.list[j].to \notin common}}}
WithdrawFrom(a) ==
  {t.sender : t \in {a.list[i] : i \in {j \in DOMAIN a.list :
     /\ a.list[j].token \in LPTokens /\ a.list[j].to = Zero /\ a.list[j].sender \notin common
     /\ ~(a.list[j].sender = Zero /\ a.list[j].to \notin common)}}}

\* a transfer out of the hands of user u of action a into those of the app (v), or back
Crosses(a, u, v) ==
  /\ u \in Users(a) \ common /\ v \notin Users(a)
  /\ v \in common \/ v \in ProxyRelated(a) \/ u = a.initiator

IsTransfer(t) == t.token \notin LPTokens /\ Zero \notin {t.sender, t.to}
IsDeposit(a, t) == IsTransfer(t) /\ Crosses(a, t.sender, t.to)
IsWithdraw(a, t) == IsTransfer(t) /\ ~IsDeposit(a, t) /\ Crosses(a, t.to, t.sender)

\* the transfers of list that are in wanted, in their order
Select(list, wanted) ==
  LET upTo[i \in 0 .. Len(list)] ==
        IF i = 0 THEN <<>>
        ELSE IF list[i] \in wanted THEN Append(upTo[i - 1], list[i]) ELSE upTo[i - 1]
  IN upTo[Len(list)]

\* what action a adds to the list of user u
Mine(a, u, t) == (IsDeposit(a, t) /\ t.sender = u) \/ (IsWithdraw(a, t) /\ t.to = u)
UserTxs(a, u) == Select(a.list, {t \in Range(a.list) : Mine(a, u, t)})

ActionPairs(a) ==
  LET deposits == {t \in Range(a.list) : IsDeposit(a, t)}
      withdrawals == {t \in Range(a.list) : IsWithdraw(a, t)}
      own(u) == u \in Users(a) \ (ProxyRelated(a) \union managers)
  IN {<<u, t.sender>> : u \in DepositTo(a), t \in deposits}
       \union {<<a.initiator, t.sender>> : t \in {d \in deposits : own(d.sender)}}
       \union {<<t.to, u>> : u \in WithdrawFrom(a), t \in withdrawals}
       \union {<<t.to, a.initiator>> : t \in {w \in withdrawals : own(w.to)}}

\* one round of ExtractActionInfoListNew; ActionInfoList is a map, so in any order
ExtractAction(i) ==
  /\ phase = "extract" /\ i \in todo
  /\ todo' = todo \ {i}
  /\ userTokenTx' = [u \in Addresses |-> userTokenTx[u] \o UserTxs(actions[i], u)]
  /\ since' = UpdateUserRelatedMap(ActionPairs(actions[i]), BlockOf[actions[i].tx])
  /\ relatedToken' = relatedToken \union
       {t.token : t \in {d \in Range(actions[i].list) :
                          IsDeposit(actions[i], d) \/ IsWithdraw(actions[i], d)}}
  /\ UNCHANGED <<phase, file, usedTxs, walkVars, managers, actions, count, common>>

Next ==
  \/ SkipFile \/ LoadEmptyTx
  \/ \E sender \in Senders, c \in Calls : LoadTx(sender, c)
  \/ \E c \in Calls : Child(c)
  \/ \E e \in Events : TransferEvent(e) \/ StakeEvent(e)
  \/ OtherEvent \/ Return
  \/ StartStake \/ NextStakeFile \/ UpdateCommonAddressMap
  \/ \E i \in todo : ExtractAction(i)

Spec == Init /\ [][Next]_vars

-----------------------------------------------------------------------------

TokenTxs ==
  [tx : Txs, index : Nat, token : Addresses, sender : Addresses, to : Addresses]
Frames ==
  [self : Addresses, from : Addresses, action : BOOLEAN, list : Seq(TokenTxs),
   logged : BOOLEAN, static : BOOLEAN]
ActionInfos == [tx : Txs, initiator : Addresses, list : Seq(TokenTxs)]

TypeOK ==
  /\ phase \in {"txs", "stake", "extract"}
  /\ file \in Nat /\ usedTxs \subseteq Txs
  /\ tx \in Txs \union {NoTx} /\ (tx = NoTx <=> stack = <<>>)
  /\ stack \in Seq(Frames)
  /\ userSuppliedAddress \in [Txs -> SUBSET Addresses]
  /\ proxyRelatedAddress \in [Txs -> SUBSET Addresses]
  /\ {transferIndex, calls, others} \subseteq Nat
  /\ managers \subseteq Addresses /\ common \subseteq Addresses
  /\ since \in [Addresses -> [Addresses -> Nat]]
  /\ actions \in Seq(ActionInfos)
  /\ count \in [Addresses -> Nat]
  /\ todo \subseteq DOMAIN actions
  /\ userTokenTx \in [Addresses -> Seq(TokenTxs)]
  /\ relatedToken \subseteq Addresses

\* No address is both on the user's side and on the app's side of a transaction, so
\* that whether a transfer crosses between them never depends on which map is asked
\* first, whatever order calls and arguments come in.
UserAndProxyDisjoint ==
  \A t \in Txs : userSuppliedAddress[t] \cap proxyRelatedAddress[t] = {}

\* Every transfer met so far in the transaction is in exactly one place: in the list of
\* one pending call or of one finished action, in the order of the transfer indices,
\* however actions are nested in each other.
ActionsOfTx == {k \in DOMAIN actions : actions[k].tx = tx}
Lists == {stack[i].list : i \in DOMAIN stack} \union {actions[k].list : k \in ActionsOfTx}
TransferInOnePlace ==
  /\ \A list \in Lists : \A i, j \in DOMAIN list : i < j => list[i].index < list[j].index
  /\ stack # <<>> =>
       LET list(p) == IF p > 0 THEN stack[p].list ELSE actions[-p].list
           all == UNION {{p} \X DOMAIN list(p) : p \in DOMAIN stack \union {-k : k \in ActionsOfTx}}
       IN /\ \A x, y \in all : list(x[1])[x[2]].index = list(y[1])[y[2]].index => x = y
          /\ Cardinality(all) + others = transferIndex

\* No transfer is counted twice, neither for one user nor for two, although a
\* transaction is listed for every proxy it touches and actions may be nested.
CountedOnce ==
  \A u, v \in Addresses : \A i \in DOMAIN userTokenTx[u], j \in DOMAIN userTokenTx[v] :
    /\ userTokenTx[u][i].tx = userTokenTx[v][j].tx
    /\ userTokenTx[u][i].index = userTokenTx[v][j].index
    => u = v /\ i = j

\* A relation only ever moves to an earlier block, in whatever order the files and the
\* actions come, and nobody becomes related to itself.
RelatedOnlyEarlier ==
  [][\A u, v \in Addresses : since'[u][v] # since[u][v] =>
       u # v /\ since'[u][v] < since[u][v]]_since
=============================================================================
