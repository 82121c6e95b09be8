-------------------------- MODULE TxExtractorProofs --------------------------
(***************************************************************************)
(* Proofs about TxExtractor for every app, every set of calls and events,   *)
(* and call trees of any size: the bounds MaxCalls and MaxTransfers are     *)
(* arbitrary.                                                               *)
(***************************************************************************)
EXTENDS TxExtractor, TLAPS

-----------------------------------------------------------------------------
(* The two maps of a transaction.                                           *)

\* One call: if the maps were disjoint before it, they are after it.
LEMMA MapsStayDisjoint ==
  ASSUME NEW c, NEW from, NEW users, NEW proxies, users \cap proxies = {}
  PROVE  MapsAfter(c, from, users, proxies).users
           \cap MapsAfter(c, from, users, proxies).proxies = {}
<1> DEFINE supplied == users \union (SuppliedArgs(c, from, users) \ proxies)
           marked == c.CallType \notin {"StaticCall", "DelegateCall"} /\ c.To \notin supplied \union proxies
           user == marked /\ from \in supplied /\ c.To \notin ManagersAfter(c, from)
           proxy == marked /\ ~user /\ from \in proxies
<1>1. supplied \cap proxies = {}
  BY Zenon
<1>2. /\ MapsAfter(c, from, users, proxies).users = (IF user THEN supplied \union {c.To} ELSE supplied)
      /\ MapsAfter(c, from, users, proxies).proxies = (IF proxy THEN proxies \union {c.To} ELSE proxies)
  BY Zenon DEF MapsAfter
<1> HIDE DEF supplied
<1>3. CASE user
  BY <1>1, <1>2, <1>3, Zenon
<1>4. CASE ~user /\ proxy
  BY <1>1, <1>2, <1>4, Zenon
<1>5. CASE ~user /\ ~proxy
  BY <1>1, <1>2, <1>5, Zenon
<1>6. QED
  BY <1>3, <1>4, <1>5, Zenon

\* The strengthening: the maps have an entry for the transaction being walked, and the
\* files listed are transactions.
WalkInv ==
  /\ DOMAIN userSuppliedAddress = Txs /\ DOMAIN proxyRelatedAddress = Txs
  /\ file \in Nat \ {0}
  /\ stack # <<>> => tx \in Txs
  /\ UserAndProxyDisjoint

\* Both maps are empty at first.
LEMMA InitWalkInv == Init => WalkInv
BY DEF Init, WalkInv, UserAndProxyDisjoint

\* Entering a call keeps the maps of its transaction disjoint and those of the others.
LEMMA EnterDisjoint ==
  ASSUME WalkInv, NEW t \in Txs, NEW c, NEW from, NEW static, NEW users, NEW proxies,
         users \cap proxies = {},
         Enter(t, c, from, static, users, proxies)
  PROVE  /\ DOMAIN userSuppliedAddress' = Txs /\ DOMAIN proxyRelatedAddress' = Txs
         /\ UserAndProxyDisjoint'
<1> DEFINE maps == MapsAfter(c, from, users, proxies)
<1>1. maps.users \cap maps.proxies = {}
  BY MapsStayDisjoint, Zenon
<1>2. /\ userSuppliedAddress' = [userSuppliedAddress EXCEPT ![t] = maps.users]
      /\ proxyRelatedAddress' = [proxyRelatedAddress EXCEPT ![t] = maps.proxies]
  BY Zenon DEF Enter
<1> HIDE DEF maps
<1>3. QED
  BY <1>1, <1>2, Zenon DEF WalkInv, UserAndProxyDisjoint

\* A new transaction starts with its sender and the proxies, who are disjoint.
LEMMA LoadTxWalkInv ==
  ASSUME WalkInv, NEW sender \in Senders, NEW c \in Calls, LoadTx(sender, c)
  PROVE  WalkInv'
<1>1. Files[file] \in Txs
  BY ExtractorAssumption DEF WalkInv, LoadTx
<1>2. {sender} \cap Proxies = {}
  BY ExtractorAssumption, Zenon
<1>3. /\ Enter(Files[file], c, sender, FALSE, {sender}, Proxies)
      /\ tx' = Files[file] /\ file' = file
  BY Zenon DEF LoadTx
<1>4. /\ DOMAIN userSuppliedAddress' = Txs /\ DOMAIN proxyRelatedAddress' = Txs
      /\ UserAndProxyDisjoint'
  BY <1>1, <1>2, <1>3, EnterDisjoint, Zenon
<1>5. QED
  BY <1>1, <1>3, <1>4, Zenon DEF WalkInv

\* An internal call goes on with the maps of its transaction.
LEMMA ChildWalkInv ==
  ASSUME WalkInv, NEW c \in Calls, Child(c)
  PROVE  WalkInv'
<1>1. /\ stack # <<>> /\ tx' = tx /\ file' = file
      /\ Enter(tx, c, Top.self, Top.static, userSuppliedAddress[tx], proxyRelatedAddress[tx])
  BY Zenon DEF Child
<1>2. tx \in Txs /\ userSuppliedAddress[tx] \cap proxyRelatedAddress[tx] = {}
  BY <1>1, Zenon DEF WalkInv, UserAndProxyDisjoint
<1>3. /\ DOMAIN userSuppliedAddress' = Txs /\ DOMAIN proxyRelatedAddress' = Txs
      /\ UserAndProxyDisjoint'
  BY <1>1, <1>2, EnterDisjoint, Zenon
<1>4. QED
  BY <1>1, <1>2, <1>3, Zenon DEF WalkInv

\* All other actions leave both maps alone.
LEMMA KeepsMaps ==
  ASSUME WalkInv, UNCHANGED <<userSuppliedAddress, proxyRelatedAddress>>,
         file' \in {1, file, file + 1}, stack' # <<>> => stack # <<>> /\ tx' = tx
  PROVE  WalkInv'
BY DEF WalkInv, UserAndProxyDisjoint

\* The other actions keep the invariant, as they leave the maps alone.
LEMMA OtherWalkInv ==
  ASSUME WalkInv,
         \/ SkipFile \/ LoadEmptyTx \/ OtherEvent \/ Return
         \/ StartStake \/ NextStakeFile \/ UpdateCommonAddressMap
         \/ \E e \in Events : TransferEvent(e) \/ StakeEvent(e)
         \/ \E i \in todo : ExtractAction(i)
  PROVE  WalkInv'
<1>1. UNCHANGED <<userSuppliedAddress, proxyRelatedAddress>>
  BY Zenon DEF SkipFile, LoadEmptyTx, OtherEvent, Return, StartStake, NextStakeFile,
         UpdateCommonAddressMap, TransferEvent, StakeEvent, ExtractAction, walkVars
<1>2. file' \in {1, file, file + 1}
  BY Zenon DEF SkipFile, LoadEmptyTx, OtherEvent, Return, StartStake, NextStakeFile,
         UpdateCommonAddressMap, TransferEvent, StakeEvent, ExtractAction, walkVars
<1>3. stack' # <<>> => stack # <<>> /\ tx' = tx
  <2>1. CASE Return
    BY <2>1, Zenon DEF Return
  <2>2. CASE OtherEvent \/ \E e \in Events : TransferEvent(e)
    BY <2>2, Zenon DEF OtherEvent, TransferEvent, MayLog
  <2>3. CASE \/ SkipFile \/ LoadEmptyTx \/ StartStake \/ NextStakeFile \/ UpdateCommonAddressMap
             \/ \E e \in Events : StakeEvent(e)
             \/ \E i \in todo : ExtractAction(i)
    BY <2>3, Zenon DEF SkipFile, LoadEmptyTx, StartStake, NextStakeFile,
                UpdateCommonAddressMap, StakeEvent, ExtractAction, walkVars
  <2>4. QED
    BY <2>1, <2>2, <2>3, Zenon
<1>4. QED
  BY <1>1, <1>2, <1>3, KeepsMaps, Zenon

\* Every action keeps the invariant.
LEMMA NextWalkInv == WalkInv /\ [Next]_vars => WalkInv'
<1> SUFFICES ASSUME WalkInv, [Next]_vars PROVE WalkInv'
  BY Zenon
<1>1. CASE \E sender \in Senders, c \in Calls : LoadTx(sender, c)
  BY <1>1, LoadTxWalkInv, Zenon
<1>2. CASE \E c \in Calls : Child(c)
  BY <1>2, ChildWalkInv, Zenon
<1>3. CASE \/ SkipFile \/ LoadEmptyTx \/ OtherEvent \/ Return
           \/ StartStake \/ NextStakeFile \/ UpdateCommonAddressMap
           \/ \E e \in Events : TransferEvent(e) \/ StakeEvent(e)
           \/ \E i \in todo : ExtractAction(i)
  BY <1>3, OtherWalkInv, Zenon
<1>4. CASE UNCHANGED vars
  BY <1>4, Zenon DEF vars, walkVars, WalkInv, UserAndProxyDisjoint
<1>5. QED
  BY <1>1, <1>2, <1>3, <1>4, Zenon DEF Next

\* userSuppliedAddress and proxyRelatedAddress of extractInTxInfo stay disjoint in every
\* transaction, for every call tree and every set of proxies and senders.
THEOREM MapsDisjoint == Spec => []UserAndProxyDisjoint
<1>1. WalkInv => UserAndProxyDisjoint
  BY Zenon DEF WalkInv
<1>2. QED
  BY <1>1, InitWalkInv, NextWalkInv, PTL DEF Spec

-----------------------------------------------------------------------------
(* The relations.                                                           *)

\* UpdateCommonAddressMap replaces a block only by an earlier one.
LEMMA UpdateOnlyEarlier ==
  ASSUME NEW pairs, NEW block, since' = UpdateUserRelatedMap(pairs, block)
  PROVE  \A u, v \in Addresses : since'[u][v] # since[u][v] =>
           u # v /\ since'[u][v] < since[u][v]
BY Zenon DEF UpdateUserRelatedMap

\* updateUserRelatedMap, wherever it is called from (the walk, the LP tokens' files and
\* the extraction of the actions), only ever moves a relation to an earlier block.
THEOREM RelationsOnlyMoveEarlier == Spec => RelatedOnlyEarlier
<1> DEFINE Only == \A u, v \in Addresses : since'[u][v] # since[u][v] =>
                     u # v /\ since'[u][v] < since[u][v]
<1>1. [Next]_vars => [Only]_since
  <2> SUFFICES ASSUME [Next]_vars, since' # since PROVE Only
    BY Zenon
  <2>1. \E pairs, block : since' = UpdateUserRelatedMap(pairs, block)
    <3>1. CASE \E e \in Events : TransferEvent(e) \/ StakeEvent(e)
      BY <3>1, Zenon DEF TransferEvent, StakeEvent
    <3>2. CASE \E i \in todo : ExtractAction(i)
      BY <3>2, Zenon DEF ExtractAction
    <3>3. QED
      BY <3>1, <3>2, Zenon DEF Next, vars, SkipFile, LoadEmptyTx, LoadTx, Child, OtherEvent, Return,
         StartStake, NextStakeFile, UpdateCommonAddressMap
  <2>2. QED
    BY <2>1, UpdateOnlyEarlier, Zenon
<1>2. QED
  BY <1>1, PTL DEF Spec, RelatedOnlyEarlier
-----------------------------------------------------------------------------
(* Types.                                                                   *)

\* What the provers need of sequences.
LEMMA SeqUpdate ==
  ASSUME NEW S, NEW s \in Seq(S), NEW i \in 1 .. Len(s), NEW x \in S
  PROVE  /\ [s EXCEPT ![i] = x] \in Seq(S) /\ Len([s EXCEPT ![i] = x]) = Len(s)
         /\ \A j \in 1 .. Len(s) : [s EXCEPT ![i] = x][j] = IF j = i THEN x ELSE s[j]
OBVIOUS

\* A prefix of a sequence, as Return takes one of the stack.
LEMMA SeqPrefix ==
  ASSUME NEW S, NEW s \in Seq(S), NEW k \in 0 .. Len(s)
  PROVE  /\ SubSeq(s, 1, k) \in Seq(S) /\ Len(SubSeq(s, 1, k)) = k
         /\ \A i \in 1 .. k : SubSeq(s, 1, k)[i] = s[i]
OBVIOUS

\* A sequence with one more entry, as a call makes of the stack and an event of a list.
LEMMA SeqAppend ==
  ASSUME NEW S, NEW s \in Seq(S), NEW x \in S
  PROVE  /\ Append(s, x) \in Seq(S) /\ Len(Append(s, x)) = Len(s) + 1
         /\ \A j \in 1 .. Len(s) : Append(s, x)[j] = s[j]
         /\ Append(s, x)[Len(s) + 1] = x
         /\ Append(s, x) # <<>>
OBVIOUS

\* Two sequences joined, as Return does with the list of a call that is no action.
LEMMA SeqConcat ==
  ASSUME NEW S, NEW s \in Seq(S), NEW t \in Seq(S)
  PROVE  /\ s \o t \in Seq(S) /\ Len(s \o t) = Len(s) + Len(t)
         /\ \A i \in 1 .. Len(s) + Len(t) :
              (s \o t)[i] = IF i <= Len(s) THEN s[i] ELSE t[i - Len(s)]
OBVIOUS

\* The positions and the entries of a sequence.
LEMMA SeqDomain ==
  ASSUME NEW S, NEW s \in Seq(S)
  PROVE  /\ Len(s) \in Nat /\ DOMAIN s = 1 .. Len(s) /\ (s = <<>> <=> Len(s) = 0)
         /\ \A i \in 1 .. Len(s) : s[i] \in S
OBVIOUS

\* The maps hold addresses.
LEMMA MapsType ==
  ASSUME managers \subseteq Addresses, NEW c \in Calls, NEW from \in Addresses,
         NEW users \in SUBSET Addresses, NEW proxies \in SUBSET Addresses
  PROVE  /\ ManagersAfter(c, from) \subseteq Addresses
         /\ MapsAfter(c, from, users, proxies).users \in SUBSET Addresses
         /\ MapsAfter(c, from, users, proxies).proxies \in SUBSET Addresses
<1>1. c.To \in Addresses /\ c.Args \subseteq Addresses
  BY ExtractorAssumption, Zenon
<1>2. SuppliedArgs(c, from, users) \subseteq Addresses
  BY <1>1, Zenon DEF SuppliedArgs
<1>3. ManagersAfter(c, from) \subseteq Addresses
  BY <1>1, Zenon DEF ManagersAfter, CreatorsAfter
<1> QED
  BY <1>1, <1>2, <1>3, Zenon DEF MapsAfter

\* The frame that entering a call pushes.
Entered(t, c, from, static, users) ==
  Frame(c, from, IsProxyCall(c) /\ from \in users,
        IF c.Value
        THEN <<[tx |-> t, index |-> transferIndex, token |-> Zero, sender |-> from, to |-> c.To]>>
        ELSE <<>>, static)

\* The frame of a new call, and its list: the ether that came with it, or nothing.
LEMMA FrameType ==
  ASSUME transferIndex \in Nat, NEW t \in Txs, NEW c \in Calls, NEW from \in Addresses,
         NEW static \in BOOLEAN, NEW users
  PROVE  LET ether == [tx |-> t, index |-> transferIndex, token |-> Zero, sender |-> from,
                       to |-> c.To]
         IN /\ Entered(t, c, from, static, users) \in Frames
            /\ ether \in TokenTxs /\ ether.tx = t /\ ether.index = transferIndex
            /\ Entered(t, c, from, static, users).list = IF c.Value THEN <<ether>> ELSE <<>>
<1> DEFINE ether == [tx |-> t, index |-> transferIndex, token |-> Zero, sender |-> from, to |-> c.To]
<1>1. ether \in TokenTxs /\ c.To \in Addresses
  BY ExtractorAssumption, Zenon DEF TokenTxs
<1>2. <<ether>> \in Seq(TokenTxs) /\ <<>> \in Seq(TokenTxs)
  BY <1>1
<1> DEFINE list == IF c.Value THEN <<ether>> ELSE <<>>
<1>3. list \in Seq(TokenTxs)
  BY <1>2, Zenon
<1>4. ether.tx = t /\ ether.index = transferIndex
  BY Zenon
<1> HIDE DEF ether
<1>5. Frame(c, from, IsProxyCall(c) /\ from \in users, list, static).list = list
  BY Zenon DEF Frame
<1>6. Frame(c, from, IsProxyCall(c) /\ from \in users, list, static) \in Frames
  <2> HIDE DEF list
  <2> QED BY <1>1, <1>3, Zenon DEF Frame, Frames, IsProxyCall
<1> QED
  BY <1>1, <1>4, <1>5, <1>6, Zenon DEF Entered, ether

\* Entering a call keeps the maps in their types and pushes its frame.
LEMMA EnterType ==
  ASSUME TypeOK, NEW t \in Txs, NEW c \in Calls, NEW from \in Addresses, NEW static \in BOOLEAN,
         NEW users \in SUBSET Addresses, NEW proxies \in SUBSET Addresses,
         Enter(t, c, from, static, users, proxies)
  PROVE  /\ managers' \subseteq Addresses
         /\ userSuppliedAddress' \in [Txs -> SUBSET Addresses]
         /\ proxyRelatedAddress' \in [Txs -> SUBSET Addresses]
         /\ stack' = Append(stack, Entered(t, c, from, static, users))
         /\ stack' \in Seq(Frames) /\ stack' # <<>>
         /\ transferIndex' = (IF c.Value THEN transferIndex + 1 ELSE transferIndex)
         /\ transferIndex' \in Nat /\ calls' \in Nat
<1>t. /\ managers \subseteq Addresses /\ transferIndex \in Nat /\ calls \in Nat
      /\ userSuppliedAddress \in [Txs -> SUBSET Addresses]
      /\ proxyRelatedAddress \in [Txs -> SUBSET Addresses]
      /\ stack \in Seq(Frames)
  BY Zenon DEF TypeOK
<1> DEFINE maps == MapsAfter(c, from, users, proxies)
<1>1. /\ ManagersAfter(c, from) \subseteq Addresses
      /\ maps.users \in SUBSET Addresses /\ maps.proxies \in SUBSET Addresses
  BY <1>t, MapsType, Zenon
<1>2. /\ managers' = ManagersAfter(c, from)
      /\ userSuppliedAddress' = [userSuppliedAddress EXCEPT ![t] = maps.users]
      /\ proxyRelatedAddress' = [proxyRelatedAddress EXCEPT ![t] = maps.proxies]
      /\ stack' = Append(stack, Entered(t, c, from, static, users))
      /\ transferIndex' = (IF c.Value THEN transferIndex + 1 ELSE transferIndex)
      /\ calls' = calls + 1
  BY Zenon DEF Enter, Entered
<1> HIDE DEF maps
<1>3. Entered(t, c, from, static, users) \in Frames
  BY <1>t, FrameType, Zenon
<1>4. stack' \in Seq(Frames) /\ stack' # <<>>
  <2> DEFINE frame == Entered(t, c, from, static, users)
  <2> HIDE DEF frame
  <2>1. Append(stack, frame) \in Seq(Frames) /\ Append(stack, frame) # <<>>
    BY <1>t, <1>3, SeqAppend DEF frame
  <2> QED BY <1>2, <2>1, Zenon DEF frame
<1>5. transferIndex' \in Nat /\ calls' \in Nat
  BY <1>t, <1>2
<1>6. /\ userSuppliedAddress' \in [Txs -> SUBSET Addresses]
      /\ proxyRelatedAddress' \in [Txs -> SUBSET Addresses]
  BY <1>t, <1>1, <1>2, Zenon
<1> QED
  BY <1>1, <1>2, <1>4, <1>5, <1>6, Zenon

-----------------------------------------------------------------------------
(* The type invariant, with how far the walk has come.                      *)

Walk ==
  /\ file \in Nat \ {0}
  /\ stack # <<>> => phase = "txs" /\ tx \in usedTxs
  /\ stack = <<>> => transferIndex = 0 /\ calls = 0 /\ others = 0
  /\ phase # "extract" => todo = {} /\ userTokenTx = [a \in Addresses |-> <<>>]

Base == TypeOK /\ Walk

\* The variables of each part of TypeOK.
WalkTypes ==
  /\ tx \in Txs \union {NoTx} /\ (tx = NoTx <=> stack = <<>>) /\ stack \in Seq(Frames)
  /\ transferIndex \in Nat /\ calls \in Nat /\ others \in Nat
  /\ userSuppliedAddress \in [Txs -> SUBSET Addresses]
  /\ proxyRelatedAddress \in [Txs -> SUBSET Addresses]
FileTypes == phase \in {"txs", "stake", "extract"} /\ file \in Nat /\ usedTxs \subseteq Txs
ActionTypes == actions \in Seq(ActionInfos) /\ count \in [Addresses -> Nat]
ExtractTypes ==
  /\ common \subseteq Addresses /\ todo \subseteq DOMAIN actions
  /\ userTokenTx \in [Addresses -> Seq(TokenTxs)] /\ relatedToken \subseteq Addresses
SinceType == since \in [Addresses -> [Addresses -> Nat]]

\* The type invariant in parts, so that an action is argued about only in those it
\* changes.
LEMMA TypeParts ==
  TypeOK <=> /\ FileTypes /\ WalkTypes /\ ActionTypes /\ ExtractTypes /\ SinceType
             /\ managers \subseteq Addresses
BY Zenon DEF TypeOK, FileTypes, WalkTypes, ActionTypes, ExtractTypes, SinceType

\* The same after a step.
LEMMA TypePartsNext ==
  /\ FileTypes' /\ WalkTypes' /\ ActionTypes' /\ ExtractTypes' /\ SinceType'
  /\ managers' \subseteq Addresses
  => TypeOK'
BY Zenon DEF TypeOK, FileTypes, WalkTypes, ActionTypes, ExtractTypes, SinceType

\* Nothing has been read at first.
LEMMA InitBase == Init => Base
<1> SUFFICES ASSUME Init PROVE TypeOK /\ Walk
  BY Zenon DEF Base
<1>1. <<>> \in Seq(Frames) /\ <<>> \in Seq(ActionInfos) /\ <<>> \in Seq(TokenTxs)
  OBVIOUS
<1>2. FileTypes /\ WalkTypes
  BY <1>1, Zenon DEF Init, FileTypes, WalkTypes
<1>3. ActionTypes /\ ExtractTypes
  BY <1>1, Zenon DEF Init, ActionTypes, ExtractTypes
<1>4. SinceType /\ managers \subseteq Addresses
  BY ExtractorAssumption, Zenon DEF Init, SinceType
<1>5. Walk
  BY DEF Init, Walk
<1> QED BY <1>2, <1>3, <1>4, <1>5, TypeParts, Zenon

\* UpdateUserRelatedMap keeps a block number, or Never, for each pair.
LEMMA SinceUpdated ==
  ASSUME SinceType, NEW pairs, NEW block \in Nat, since' = UpdateUserRelatedMap(pairs, block)
  PROVE  SinceType'
<1> DEFINE new(u, v) == IF u # v /\ <<u, v>> \in pairs /\ block < since[u][v] THEN block ELSE since[u][v]
<1>1. \A u, v \in Addresses : new(u, v) \in Nat
  BY Zenon DEF SinceType
<1>2. since' = [u \in Addresses |-> [v \in Addresses |-> new(u, v)]]
  BY Zenon DEF UpdateUserRelatedMap
<1> HIDE DEF new
<1> QED BY <1>1, <1>2 DEF SinceType

\* Steps from one file to the next.
LEMMA FileBase ==
  ASSUME Base, SkipFile \/ LoadEmptyTx \/ StartStake \/ NextStakeFile
  PROVE  Base'
<1>t. FileTypes /\ WalkTypes /\ ActionTypes /\ ExtractTypes /\ SinceType /\ managers \subseteq Addresses
  BY TypeParts, Zenon DEF Base
<1>1. /\ UNCHANGED <<walkVars, managers, since, actions, count, extractVars>>
      /\ file' \in {1, file + 1} /\ phase' \in {phase, "stake"}
      /\ phase' # phase => tx = NoTx /\ phase = "txs"
      /\ usedTxs' = usedTxs \/ \E i \in 1 .. Len(Files) : usedTxs' = usedTxs \union {Files[i]}
  <2>0. file \in Nat \ {0} /\ Len(Files) \in Nat
    BY ExtractorAssumption DEF Base, Walk
  <2>1. CASE SkipFile
    BY <2>0, <2>1 DEF SkipFile
  <2>2. CASE LoadEmptyTx
    BY <2>0, <2>2 DEF LoadEmptyTx
  <2>3. CASE StartStake
    BY <2>3, Zenon DEF StartStake
  <2>4. CASE NextStakeFile
    BY <2>4, Zenon DEF NextStakeFile
  <2> QED BY <2>1, <2>2, <2>3, <2>4, Zenon
<1>2. UNCHANGED <<tx, stack, userSuppliedAddress, proxyRelatedAddress, transferIndex, calls, others>>
  BY <1>1, Zenon DEF walkVars
<1>3. UNCHANGED <<common, todo, userTokenTx, relatedToken>>
  BY <1>1, Zenon DEF extractVars
<1>4. \A i \in 1 .. Len(Files) : Files[i] \in Txs
  BY ExtractorAssumption
<1>5. FileTypes' /\ file' \in Nat \ {0} /\ usedTxs \subseteq usedTxs'
  BY <1>t, <1>1, <1>4 DEF FileTypes, Base, Walk
<1>6. WalkTypes'
  BY <1>t, <1>2, Zenon DEF WalkTypes
<1>7. ActionTypes' /\ ExtractTypes' /\ SinceType' /\ managers' \subseteq Addresses
  BY <1>t, <1>1, <1>3, Zenon DEF ActionTypes, ExtractTypes, SinceType
<1>8. Walk'
  BY <1>t, <1>1, <1>2, <1>3, <1>5, Zenon DEF Base, Walk, WalkTypes, FileTypes
<1> QED BY <1>5, <1>6, <1>7, <1>8, TypePartsNext, Zenon DEF Base

\* A stake event changes only the related users.
LEMMA StakeEventBase ==
  ASSUME Base, NEW e \in Events, StakeEvent(e)
  PROVE  Base'
<1>t. FileTypes /\ WalkTypes /\ ActionTypes /\ ExtractTypes /\ SinceType /\ managers \subseteq Addresses
  BY TypeParts, Zenon DEF Base
<1>1. /\ UNCHANGED <<phase, file, usedTxs, walkVars, managers, actions, count, extractVars>>
      /\ file <= Len(StakeFiles)
      /\ since' = UpdateUserRelatedMap(StakePairs(e), BlockOf[StakeFiles[file]])
  BY Zenon DEF StakeEvent
<1>2. UNCHANGED <<tx, stack, userSuppliedAddress, proxyRelatedAddress, transferIndex, calls, others>>
  BY <1>1, Zenon DEF walkVars
<1>3. UNCHANGED <<common, todo, userTokenTx, relatedToken>>
  BY <1>1, Zenon DEF extractVars
<1>4. BlockOf[StakeFiles[file]] \in Nat
  <2>1. file \in 1 .. Len(StakeFiles)
    BY <1>1, ExtractorAssumption DEF Base, Walk
  <2>2. StakeFiles[file] \in Txs
    BY <2>1, ExtractorAssumption
  <2> QED BY <2>2, ExtractorAssumption, Zenon
<1>5. SinceType'
  BY <1>t, <1>1, <1>4, SinceUpdated, Zenon
<1>6. FileTypes' /\ WalkTypes'
  BY <1>t, <1>1, <1>2, Zenon DEF WalkTypes, FileTypes
<1>7. ActionTypes' /\ ExtractTypes' /\ managers' \subseteq Addresses
  BY <1>t, <1>1, <1>3, Zenon DEF ActionTypes, ExtractTypes
<1>8. Walk'
  BY <1>1, <1>2, <1>3, Zenon DEF Base, Walk
<1> QED BY <1>5, <1>6, <1>7, <1>8, TypePartsNext, Zenon DEF Base

\* UpdateCommonAddressMap starts the extraction with every action still to do.
LEMMA UpdateCommonBase == ASSUME Base, UpdateCommonAddressMap PROVE Base'
<1>t. FileTypes /\ WalkTypes /\ ActionTypes /\ ExtractTypes /\ SinceType /\ managers \subseteq Addresses
  BY TypeParts, Zenon DEF Base
<1>1. /\ UNCHANGED <<file, usedTxs, walkVars, managers, since, actions, count, userTokenTx, relatedToken>>
      /\ phase = "stake" /\ phase' = "extract"
      /\ common' = CommonAddresses /\ todo' = DOMAIN actions
  BY Zenon DEF UpdateCommonAddressMap
<1>2. UNCHANGED <<tx, stack, userSuppliedAddress, proxyRelatedAddress, transferIndex, calls, others>>
  BY <1>1, Zenon DEF walkVars
<1>3. CommonAddresses \subseteq Addresses
  BY ExtractorAssumption, Zenon DEF CommonAddresses
<1>4. FileTypes' /\ WalkTypes'
  BY <1>t, <1>1, <1>2, Zenon DEF WalkTypes, FileTypes
<1>5. ActionTypes' /\ ExtractTypes' /\ SinceType' /\ managers' \subseteq Addresses
  BY <1>t, <1>1, <1>3, Zenon DEF ActionTypes, ExtractTypes, SinceType
<1>6. Walk'
  BY <1>1, <1>2, Zenon DEF Base, Walk
<1> QED BY <1>4, <1>5, <1>6, TypePartsNext, Zenon DEF Base

-----------------------------------------------------------------------------
(* What the steps of the walk do to the stack.                              *)

\* What loading a transaction does: it takes a file not read yet, with an empty stack.
LEMMA LoadStep ==
  ASSUME Base, NEW sender \in Senders, NEW c \in Calls, LoadTx(sender, c)
  PROVE  /\ stack = <<>> /\ phase = "txs" /\ UNCHANGED <<phase, file, others, since, actions, count, extractVars>>
         /\ file \in 1 .. Len(Files) /\ Files[file] \in Txs /\ Files[file] \notin usedTxs
         /\ tx' = Files[file] /\ usedTxs' = usedTxs \union {Files[file]}
         /\ sender \in Addresses /\ transferIndex \in Nat
         /\ Enter(Files[file], c, sender, FALSE, {sender}, Proxies)
<1>1. /\ phase = "txs" /\ tx = NoTx /\ file <= Len(Files) /\ Files[file] \notin usedTxs
      /\ tx' = Files[file] /\ usedTxs' = usedTxs \union {Files[file]}
      /\ Enter(Files[file], c, sender, FALSE, {sender}, Proxies)
      /\ UNCHANGED <<phase, file, others, since, actions, count, extractVars>>
  BY Zenon DEF LoadTx
<1>2. file \in 1 .. Len(Files) /\ Files[file] \in Txs
  <2>1. file \in 1 .. Len(Files)
    BY <1>1, ExtractorAssumption DEF Base, Walk
  <2> QED BY <2>1, ExtractorAssumption
<1>3. stack = <<>> /\ transferIndex \in Nat
  BY <1>1, TypeParts, Zenon DEF Base, WalkTypes
<1>4. sender \in Addresses
  BY ExtractorAssumption, Zenon
<1> QED BY <1>1, <1>2, <1>3, <1>4, Zenon

\* Loading a transaction keeps the basic invariant.
LEMMA LoadTxBase ==
  ASSUME Base, NEW sender \in Senders, NEW c \in Calls, LoadTx(sender, c)
  PROVE  Base'
<1>t. FileTypes /\ WalkTypes /\ ActionTypes /\ ExtractTypes /\ SinceType /\ managers \subseteq Addresses
  BY TypeParts, Zenon DEF Base
<1>1. /\ stack = <<>> /\ phase = "txs" /\ UNCHANGED <<phase, file, others, since, actions, count, extractVars>>
      /\ Files[file] \in Txs /\ tx' = Files[file] /\ usedTxs' = usedTxs \union {Files[file]}
      /\ sender \in Addresses
      /\ Enter(Files[file], c, sender, FALSE, {sender}, Proxies)
  BY LoadStep, Zenon
<1>2. {sender} \in SUBSET Addresses /\ Proxies \in SUBSET Addresses /\ NoTx \notin Txs
  BY <1>1, ExtractorAssumption, Zenon
<1>3. /\ managers' \subseteq Addresses
      /\ userSuppliedAddress' \in [Txs -> SUBSET Addresses]
      /\ proxyRelatedAddress' \in [Txs -> SUBSET Addresses]
      /\ stack' \in Seq(Frames) /\ stack' # <<>>
      /\ transferIndex' \in Nat /\ calls' \in Nat
  BY <1>1, <1>2, EnterType, Zenon DEF Base
<1>4. UNCHANGED <<common, todo, userTokenTx, relatedToken>>
  BY <1>1, Zenon DEF extractVars
<1>5. FileTypes' /\ WalkTypes'
  BY <1>t, <1>1, <1>2, <1>3, Zenon DEF FileTypes, WalkTypes
<1>6. ActionTypes' /\ ExtractTypes' /\ SinceType'
  BY <1>t, <1>1, <1>4, Zenon DEF ActionTypes, ExtractTypes, SinceType
<1>7. Walk'
  BY <1>1, <1>3, <1>4, Zenon DEF Base, Walk
<1> QED BY <1>3, <1>5, <1>6, <1>7, TypePartsNext, Zenon DEF Base

\* the top of the stack
LEMMA TopFrame ==
  ASSUME WalkTypes, stack # <<>>
  PROVE  /\ tx \in Txs /\ Len(stack) \in Nat \ {0} /\ Len(stack) \in 1 .. Len(stack)
         /\ DOMAIN stack = 1 .. Len(stack)
         /\ Top = stack[Len(stack)] /\ Top \in Frames
         /\ Top.self \in Addresses /\ Top.from \in Addresses /\ Top.static \in BOOLEAN
         /\ Top.list \in Seq(TokenTxs)
<1>1. Len(stack) \in Nat \ {0} /\ DOMAIN stack = 1 .. Len(stack)
  BY SeqDomain, Zenon DEF WalkTypes
<1>2. Len(stack) \in 1 .. Len(stack)
  BY <1>1
<1>3. Top = stack[Len(stack)] /\ Top \in Frames
  BY <1>2, SeqDomain, Zenon DEF WalkTypes, Top
<1> QED BY <1>1, <1>2, <1>3, Zenon DEF WalkTypes, Frames

\* What an internal call does: it goes on with the transaction of the frame it came from.
LEMMA ChildStep ==
  ASSUME Base, NEW c \in Calls, Child(c)
  PROVE  /\ stack # <<>> /\ tx \in Txs /\ Top.self \in Addresses /\ Top.static \in BOOLEAN
         /\ UNCHANGED <<phase, file, usedTxs, tx, others, since, actions, count, extractVars>>
         /\ userSuppliedAddress[tx] \in SUBSET Addresses
         /\ proxyRelatedAddress[tx] \in SUBSET Addresses
         /\ Enter(tx, c, Top.self, Top.static, userSuppliedAddress[tx], proxyRelatedAddress[tx])
<1>1. /\ stack # <<>>
      /\ Enter(tx, c, Top.self, Top.static, userSuppliedAddress[tx], proxyRelatedAddress[tx])
      /\ UNCHANGED <<phase, file, usedTxs, tx, others, since, actions, count, extractVars>>
  BY Zenon DEF Child
<1>2. WalkTypes
  BY TypeParts, Zenon DEF Base
<1>3. tx \in Txs /\ Top.self \in Addresses /\ Top.static \in BOOLEAN
  BY <1>1, <1>2, TopFrame, Zenon
<1>4. userSuppliedAddress[tx] \in SUBSET Addresses /\ proxyRelatedAddress[tx] \in SUBSET Addresses
  BY <1>2, <1>3, Zenon DEF WalkTypes
<1> QED BY <1>1, <1>3, <1>4, Zenon

\* An internal call keeps the basic invariant.
LEMMA ChildBase ==
  ASSUME Base, NEW c \in Calls, Child(c)
  PROVE  Base'
<1>t. FileTypes /\ WalkTypes /\ ActionTypes /\ ExtractTypes /\ SinceType /\ managers \subseteq Addresses
  BY TypeParts, Zenon DEF Base
<1>1. /\ stack # <<>> /\ tx \in Txs /\ Top.self \in Addresses /\ Top.static \in BOOLEAN
      /\ UNCHANGED <<phase, file, usedTxs, tx, others, since, actions, count, extractVars>>
      /\ userSuppliedAddress[tx] \in SUBSET Addresses
      /\ proxyRelatedAddress[tx] \in SUBSET Addresses
      /\ Enter(tx, c, Top.self, Top.static, userSuppliedAddress[tx], proxyRelatedAddress[tx])
  BY ChildStep, Zenon
<1>2. NoTx \notin Txs
  BY ExtractorAssumption, Zenon
<1>3. /\ managers' \subseteq Addresses
      /\ userSuppliedAddress' \in [Txs -> SUBSET Addresses]
      /\ proxyRelatedAddress' \in [Txs -> SUBSET Addresses]
      /\ stack' \in Seq(Frames) /\ stack' # <<>>
      /\ transferIndex' \in Nat /\ calls' \in Nat
  BY <1>1, EnterType, Zenon DEF Base
<1>4. UNCHANGED <<common, todo, userTokenTx, relatedToken>>
  BY <1>1, Zenon DEF extractVars
<1>5. FileTypes' /\ WalkTypes'
  BY <1>t, <1>1, <1>2, <1>3, Zenon DEF FileTypes, WalkTypes
<1>6. ActionTypes' /\ ExtractTypes' /\ SinceType'
  BY <1>t, <1>1, <1>4, Zenon DEF ActionTypes, ExtractTypes, SinceType
<1>7. Walk'
  BY <1>1, <1>3, <1>4, Zenon DEF Base, Walk
<1> QED BY <1>3, <1>5, <1>6, <1>7, TypePartsNext, Zenon DEF Base

\* The top frame gets another list, and has logged something.
LEMMA TopUpdated ==
  ASSUME WalkTypes, stack # <<>>, NEW list \in Seq(TokenTxs),
         stack' = [stack EXCEPT ![Len(stack)] = [@ EXCEPT !.list = list, !.logged = TRUE]]
  PROVE  /\ stack' \in Seq(Frames) /\ stack' # <<>> /\ Len(stack') = Len(stack)
         /\ DOMAIN stack' = DOMAIN stack
         /\ \A i \in DOMAIN stack :
              stack'[i].list = IF i = Len(stack) THEN list ELSE stack[i].list
<1> DEFINE new == [stack[Len(stack)] EXCEPT !.list = list, !.logged = TRUE]
<1>1. /\ stack[Len(stack)] \in Frames /\ Len(stack) \in 1 .. Len(stack) /\ Len(stack) \in Nat \ {0}
      /\ DOMAIN stack = 1 .. Len(stack)
  BY TopFrame, Zenon
<1>2. new \in Frames /\ new.list = list
  BY <1>1, Zenon DEF Frames
<1>3. stack' = [stack EXCEPT ![Len(stack)] = new] /\ stack \in Seq(Frames)
  BY Zenon DEF WalkTypes
<1> HIDE DEF new
<1>4. /\ stack' \in Seq(Frames) /\ Len(stack') = Len(stack)
      /\ \A j \in 1 .. Len(stack) : stack'[j] = IF j = Len(stack) THEN new ELSE stack[j]
  BY <1>1, <1>2, <1>3, SeqUpdate
<1>5. stack' # <<>> /\ DOMAIN stack' = DOMAIN stack
  BY <1>1, <1>4, Zenon
<1> QED BY <1>1, <1>2, <1>4, <1>5

\* What a transfer event does: it adds one transfer, with the current index, to the
\* topmost list.
LEMMA TransferStep ==
  ASSUME Base, NEW e \in Events, TransferEvent(e)
  PROVE  /\ stack # <<>> /\ tx \in Txs
         /\ TokenTx(e) \in TokenTxs /\ TokenTx(e).tx = tx /\ TokenTx(e).index = transferIndex
         /\ Top.list \in Seq(TokenTxs)
         /\ stack' \in Seq(Frames) /\ stack' # <<>> /\ DOMAIN stack' = DOMAIN stack
         /\ \A i \in DOMAIN stack :
              stack'[i].list = IF i = Len(stack) THEN Append(Top.list, TokenTx(e)) ELSE stack[i].list
         /\ transferIndex' = transferIndex + 1
         /\ since' = UpdateUserRelatedMap(StakePairs(e), BlockOf[tx])
         /\ UNCHANGED <<phase, file, usedTxs, tx, userSuppliedAddress, proxyRelatedAddress, calls,
                        others, managers, actions, count, extractVars>>
<1>1. /\ stack # <<>>
      /\ stack' = [stack EXCEPT ![Len(stack)].list = Append(@, TokenTx(e)),
                                ![Len(stack)].logged = TRUE]
      /\ transferIndex' = transferIndex + 1
      /\ since' = UpdateUserRelatedMap(StakePairs(e), BlockOf[tx])
      /\ UNCHANGED <<phase, file, usedTxs, tx, userSuppliedAddress, proxyRelatedAddress, calls,
                     others, managers, actions, count, extractVars>>
  BY Zenon DEF TransferEvent, MayLog
<1>2. WalkTypes /\ transferIndex \in Nat
  BY TypeParts, Zenon DEF Base, WalkTypes
<1>3. /\ tx \in Txs /\ Top = stack[Len(stack)] /\ Top.list \in Seq(TokenTxs) /\ stack[Len(stack)] \in Frames
      /\ DOMAIN stack = 1 .. Len(stack) /\ Len(stack) \in 1 .. Len(stack)
  BY <1>1, <1>2, TopFrame, Zenon
<1>4. TokenTx(e) \in TokenTxs /\ TokenTx(e).tx = tx /\ TokenTx(e).index = transferIndex
  BY <1>2, <1>3, ExtractorAssumption, Zenon DEF TokenTx, TokenTxs
<1> DEFINE list == Append(Top.list, TokenTx(e))
<1>5. list \in Seq(TokenTxs)
  BY <1>3, <1>4, SeqAppend, Zenon
<1>6. stack' = [stack EXCEPT ![Len(stack)] = [@ EXCEPT !.list = list, !.logged = TRUE]]
  BY <1>1, <1>3, Zenon DEF Frames
<1> HIDE DEF list
<1>7. /\ stack' \in Seq(Frames) /\ stack' # <<>> /\ DOMAIN stack' = DOMAIN stack
      /\ \A i \in DOMAIN stack : stack'[i].list = IF i = Len(stack) THEN list ELSE stack[i].list
  BY <1>1, <1>2, <1>5, <1>6, TopUpdated, Zenon
<1> QED BY <1>1, <1>3, <1>4, <1>7, Zenon DEF list

\* A transfer event keeps the basic invariant.
LEMMA TransferBase ==
  ASSUME Base, NEW e \in Events, TransferEvent(e)
  PROVE  Base'
<1>t. FileTypes /\ WalkTypes /\ ActionTypes /\ ExtractTypes /\ SinceType /\ managers \subseteq Addresses
  BY TypeParts, Zenon DEF Base
<1>1. /\ stack # <<>> /\ tx \in Txs /\ stack' \in Seq(Frames) /\ stack' # <<>>
      /\ transferIndex' = transferIndex + 1
      /\ since' = UpdateUserRelatedMap(StakePairs(e), BlockOf[tx])
      /\ UNCHANGED <<phase, file, usedTxs, tx, userSuppliedAddress, proxyRelatedAddress, calls,
                     others, managers, actions, count, extractVars>>
  BY TransferStep, Zenon
<1>2. BlockOf[tx] \in Nat
  BY <1>1, ExtractorAssumption, Zenon
<1>3. SinceType'
  BY <1>t, <1>1, <1>2, SinceUpdated, Zenon
<1>4. UNCHANGED <<common, todo, userTokenTx, relatedToken>>
  BY <1>1, Zenon DEF extractVars
<1>5. FileTypes' /\ WalkTypes'
  BY <1>t, <1>1 DEF FileTypes, WalkTypes
<1>6. ActionTypes' /\ ExtractTypes' /\ managers' \subseteq Addresses
  BY <1>t, <1>1, <1>4, Zenon DEF ActionTypes, ExtractTypes
<1>7. Walk'
  BY <1>1, <1>4, Zenon DEF Base, Walk
<1> QED BY <1>3, <1>5, <1>6, <1>7, TypePartsNext, Zenon DEF Base

\* What any other event does: it takes an index and leaves all lists alone.
LEMMA OtherStep ==
  ASSUME Base, OtherEvent
  PROVE  /\ stack # <<>> /\ tx \in Txs
         /\ stack' \in Seq(Frames) /\ stack' # <<>> /\ DOMAIN stack' = DOMAIN stack
         /\ \A i \in DOMAIN stack : stack'[i].list = stack[i].list
         /\ transferIndex' = transferIndex + 1 /\ others' = others + 1
         /\ UNCHANGED <<phase, file, usedTxs, tx, userSuppliedAddress, proxyRelatedAddress, calls,
                        managers, since, actions, count, extractVars>>
<1>1. /\ stack # <<>>
      /\ stack' = [stack EXCEPT ![Len(stack)].logged = TRUE]
      /\ transferIndex' = transferIndex + 1 /\ others' = others + 1
      /\ UNCHANGED <<phase, file, usedTxs, tx, userSuppliedAddress, proxyRelatedAddress, calls,
                     managers, since, actions, count, extractVars>>
  BY Zenon DEF OtherEvent, MayLog
<1>2. WalkTypes
  BY TypeParts, Zenon DEF Base
<1>3. /\ tx \in Txs /\ Top = stack[Len(stack)] /\ Top.list \in Seq(TokenTxs) /\ stack[Len(stack)] \in Frames
      /\ DOMAIN stack = 1 .. Len(stack) /\ Len(stack) \in 1 .. Len(stack)
  BY <1>1, <1>2, TopFrame, Zenon
<1> DEFINE list == Top.list
<1>4. stack' = [stack EXCEPT ![Len(stack)] = [@ EXCEPT !.list = list, !.logged = TRUE]]
  BY <1>1, <1>3, Zenon DEF Frames
<1> HIDE DEF list
<1>5. /\ stack' \in Seq(Frames) /\ stack' # <<>> /\ DOMAIN stack' = DOMAIN stack
      /\ \A i \in DOMAIN stack : stack'[i].list = IF i = Len(stack) THEN list ELSE stack[i].list
  BY <1>1, <1>2, <1>3, <1>4, TopUpdated, Zenon DEF list
<1>6. list = stack[Len(stack)].list
  BY <1>3, Zenon DEF list
<1> QED BY <1>1, <1>3, <1>5, <1>6, Zenon

\* Any other event keeps the basic invariant.
LEMMA OtherBase == ASSUME Base, OtherEvent PROVE Base'
<1>t. FileTypes /\ WalkTypes /\ ActionTypes /\ ExtractTypes /\ SinceType /\ managers \subseteq Addresses
  BY TypeParts, Zenon DEF Base
<1>1. /\ stack # <<>> /\ tx \in Txs /\ stack' \in Seq(Frames) /\ stack' # <<>>
      /\ transferIndex' = transferIndex + 1 /\ others' = others + 1
      /\ UNCHANGED <<phase, file, usedTxs, tx, userSuppliedAddress, proxyRelatedAddress, calls,
                     managers, since, actions, count, extractVars>>
  BY OtherStep, Zenon
<1>2. UNCHANGED <<common, todo, userTokenTx, relatedToken>>
  BY <1>1, Zenon DEF extractVars
<1>3. FileTypes' /\ WalkTypes'
  BY <1>t, <1>1 DEF FileTypes, WalkTypes
<1>4. ActionTypes' /\ ExtractTypes' /\ SinceType' /\ managers' \subseteq Addresses
  BY <1>t, <1>1, <1>2, Zenon DEF ActionTypes, ExtractTypes, SinceType
<1>5. Walk'
  BY <1>1, <1>2, Zenon DEF Base, Walk
<1> QED BY <1>3, <1>4, <1>5, TypePartsNext, Zenon DEF Base

\* The call below the one that returns gets the transfers of that one, unless they
\* are those of an action.
LEMMA ReturnStep ==
  ASSUME Base, Return
  PROVE  LET below == Len(stack) - 1
             rest == IF Top.action THEN <<>> ELSE Top.list
         IN
         /\ stack # <<>> /\ tx \in Txs /\ below \in Nat /\ rest \in Seq(TokenTxs)
         /\ Top = stack[Len(stack)] /\ Top.list \in Seq(TokenTxs) /\ DOMAIN stack = 1 .. Len(stack)
         /\ stack' \in Seq(Frames)
         /\ below = 0 => stack' = <<>>
         /\ below # 0 => DOMAIN stack' = 1 .. below /\ stack' # <<>>
         /\ \A i \in 1 .. below :
              stack'[i].list = IF i = below THEN stack[i].list \o rest ELSE stack[i].list
<1> DEFINE below == Len(stack) - 1
           rest == IF Top.action THEN <<>> ELSE Top.list
<1>1. /\ stack # <<>>
      /\ stack' = IF below = 0 THEN <<>>
                  ELSE [SubSeq(stack, 1, below) EXCEPT ![below].list = @ \o rest]
  BY Zenon DEF Return
<1>2. WalkTypes
  BY TypeParts, Zenon DEF Base
<1>3. /\ tx \in Txs /\ Top = stack[Len(stack)] /\ Top.list \in Seq(TokenTxs)
      /\ DOMAIN stack = 1 .. Len(stack) /\ Len(stack) \in Nat \ {0} /\ stack \in Seq(Frames)
  BY <1>1, <1>2, TopFrame, Zenon DEF WalkTypes
<1>4. below \in Nat /\ rest \in Seq(TokenTxs) /\ below \in 0 .. Len(stack)
  BY <1>3
<1> HIDE DEF rest
<1>5. CASE below = 0
  <2>1. stack' = <<>> /\ stack' \in Seq(Frames)
    BY <1>1, <1>5
  <2>2. \A i \in 1 .. below : FALSE
    BY <1>5
  <2> HIDE DEF below
  <2> QED BY <1>1, <1>3, <1>4, <1>5, <2>1, <2>2, Zenon DEF rest, below
<1>6. CASE below # 0
  <2> DEFINE pre == SubSeq(stack, 1, below)
             new == [stack[below] EXCEPT !.list = stack[below].list \o rest]
  <2>1. below \in 1 .. below /\ below \in 1 .. Len(stack)
    BY <1>3, <1>4, <1>6
  <2> HIDE DEF below
  <2>2. pre \in Seq(Frames) /\ Len(pre) = below /\ \A i \in 1 .. below : pre[i] = stack[i]
    BY <1>3, <1>4, SeqPrefix, Zenon
  <2>3. stack[below] \in Frames /\ stack[below].list \in Seq(TokenTxs)
    <3>1. stack[below] \in Frames
      BY <1>3, <2>1, SeqDomain, Zenon
    <3> QED BY <3>1, Zenon DEF Frames
  <2>4. stack[below].list \o rest \in Seq(TokenTxs)
    BY <1>4, <2>3, SeqConcat, Zenon
  <2>5. new \in Frames /\ new.list = stack[below].list \o rest
    BY <2>3, <2>4, Zenon DEF Frames
  <2>6. stack' = [pre EXCEPT ![below] = new]
    BY <1>1, <1>6, <2>1, <2>2, <2>3, Zenon DEF Frames
  <2> HIDE DEF pre, new
  <2>7. /\ stack' \in Seq(Frames) /\ Len(stack') = below
        /\ \A i \in 1 .. below : stack'[i] = IF i = below THEN new ELSE pre[i]
    BY <2>1, <2>2, <2>5, <2>6, SeqUpdate
  <2>8. DOMAIN stack' = 1 .. below /\ stack' # <<>>
    BY <1>4, <1>6, <2>7
  <2>9. \A i \in 1 .. below : stack'[i].list = IF i = below THEN stack[i].list \o rest ELSE stack[i].list
    BY <2>2, <2>5, <2>7, Zenon
  <2> QED BY <1>1, <1>3, <1>4, <1>6, <2>7, <2>8, <2>9, Zenon DEF rest, below
<1> QED BY <1>5, <1>6, Zenon

\* What a call that returns leaves behind, if it is an action.
LEMMA ReturnRest ==
  ASSUME Base, Return
  PROVE  /\ IF Top.action
            THEN actions' = Append(actions, ActionInfo(Top)) /\ count' = CountAfter(Top.list)
            ELSE UNCHANGED <<actions, count>>
         /\ ActionInfo(Top) \in ActionInfos /\ ActionInfo(Top).tx = tx /\ ActionInfo(Top).list = Top.list
         /\ IF Len(stack) - 1 = 0
            THEN tx' = NoTx /\ file' = file + 1 /\ transferIndex' = 0 /\ calls' = 0 /\ others' = 0
            ELSE UNCHANGED <<tx, file, transferIndex, calls, others>>
         /\ UNCHANGED <<phase, usedTxs, userSuppliedAddress, proxyRelatedAddress, managers, since,
                        extractVars>>
<1>1. /\ stack # <<>>
      /\ IF Top.action
         THEN actions' = Append(actions, ActionInfo(Top)) /\ count' = CountAfter(Top.list)
         ELSE UNCHANGED <<actions, count>>
      /\ IF Len(stack) - 1 = 0
         THEN tx' = NoTx /\ file' = file + 1 /\ transferIndex' = 0 /\ calls' = 0 /\ others' = 0
         ELSE UNCHANGED <<tx, file, transferIndex, calls, others>>
      /\ UNCHANGED <<phase, usedTxs, userSuppliedAddress, proxyRelatedAddress, managers, since,
                     extractVars>>
  BY Zenon DEF Return
<1>2. tx \in Txs /\ Top.from \in Addresses /\ Top.list \in Seq(TokenTxs)
  BY <1>1, TopFrame, TypeParts, Zenon DEF Base
<1>3. ActionInfo(Top) \in ActionInfos /\ ActionInfo(Top).tx = tx /\ ActionInfo(Top).list = Top.list
  BY <1>2, Zenon DEF ActionInfo, ActionInfos
<1> QED BY <1>1, <1>3, Zenon

-----------------------------------------------------------------------------
(* Where the transfers are.                                                 *)

\* lists of transfers
Sorted(list) == \A i, j \in DOMAIN list : i < j => list[i].index < list[j].index
Tagged(list, t) == \A i \in DOMAIN list : list[i].tx = t
Under(list, n) == \A i \in DOMAIN list : list[i].index < n
Below(list, other) ==
  \A i \in DOMAIN list, j \in DOMAIN other : list[i].index < other[j].index
Apart(list, other) ==
  \A i \in DOMAIN list, j \in DOMAIN other : list[i].index # other[j].index

\* The pending calls: the transfers of a call come after all that its caller has already
\* collected, so that they can be added to those at any time.
Pending ==
  \A i \in DOMAIN stack :
    /\ Sorted(stack[i].list) /\ Tagged(stack[i].list, tx) /\ Under(stack[i].list, transferIndex)
    /\ \A j \in DOMAIN stack : i < j => Below(stack[i].list, stack[j].list)
    /\ \A k \in DOMAIN actions : actions[k].tx = tx => Apart(actions[k].list, stack[i].list)

\* The actions: a transaction is walked once, so that the transfers of its actions are
\* known by their indices.
Finished ==
  \A k \in DOMAIN actions :
    /\ Sorted(actions[k].list) /\ Tagged(actions[k].list, actions[k].tx)
    /\ actions[k].tx \in usedTxs
    /\ actions[k].tx = tx => Under(actions[k].list, transferIndex)
    /\ \A l \in DOMAIN actions :
         k # l /\ actions[k].tx = actions[l].tx => Apart(actions[k].list, actions[l].list)

\* The empty list.
LEMMA NoTransfers ==
  /\ <<>> \in Seq(TokenTxs) /\ Sorted(<<>>)
  /\ \A t : Tagged(<<>>, t)
  /\ \A n : Under(<<>>, n)
  /\ \A m : Below(m, <<>>) /\ Apart(m, <<>>)
<1>1. <<>> \in Seq(TokenTxs) /\ \A i \in DOMAIN <<>> : FALSE
  OBVIOUS
<1> QED BY <1>1, Zenon DEF Sorted, Tagged, Under, Below, Apart

\* The index of a transfer in a list is a number.
LEMMA TransferIndex ==
  ASSUME NEW list \in Seq(TokenTxs), NEW i \in DOMAIN list
  PROVE  list[i] \in TokenTxs /\ list[i].index \in Nat
<1>1. list[i] \in TokenTxs
  BY SeqDomain, Zenon
<1> QED BY <1>1, Zenon DEF TokenTxs

\* A list of transfers below an index stays so when the index grows.
LEMMA UnderMore ==
  ASSUME NEW list \in Seq(TokenTxs), NEW n \in Nat, NEW m \in Nat, Under(list, n), n <= m
  PROVE  Under(list, m)
<1>1. ASSUME NEW i \in DOMAIN list PROVE list[i].index \in Nat
  BY TransferIndex, Zenon
<1> QED BY <1>1 DEF Under

\* The next transfer at the end of a list.
LEMMA AddTransfer ==
  ASSUME NEW list \in Seq(TokenTxs), NEW x \in TokenTxs, NEW n \in Nat, x.index = n
  PROVE  /\ Append(list, x) \in Seq(TokenTxs)
         /\ Sorted(list) /\ Under(list, n) => Sorted(Append(list, x))
         /\ Under(list, n) => Under(Append(list, x), n + 1)
         /\ Tagged(list, x.tx) => Tagged(Append(list, x), x.tx)
         /\ \A m : Under(m, n) /\ Below(m, list) => Below(m, Append(list, x))
         /\ \A m \in Seq(TokenTxs) : Under(m, n) /\ Apart(m, list) => Apart(m, Append(list, x))
<1> DEFINE new == Append(list, x)
<1>1. /\ new \in Seq(TokenTxs) /\ DOMAIN list = 1 .. Len(list) /\ Len(list) \in Nat
      /\ DOMAIN new = 1 .. Len(list) + 1
      /\ \A i \in DOMAIN list : i \in DOMAIN new /\ new[i] = list[i]
      /\ new[Len(list) + 1] = x
  BY SeqAppend, SeqDomain
<1>2. \A i \in DOMAIN new : i \in DOMAIN list \/ i = Len(list) + 1
  BY <1>1
<1>3. \A m \in Seq(TokenTxs) : \A i \in DOMAIN m : m[i].index \in Nat
  BY TransferIndex, Zenon
<1> HIDE DEF new
<1>4. ASSUME Sorted(list), Under(list, n) PROVE Sorted(new)
  <2> SUFFICES ASSUME NEW i \in DOMAIN new, NEW j \in DOMAIN new, i < j
               PROVE  new[i].index < new[j].index
    BY Zenon DEF Sorted
  <2>1. i \in DOMAIN list
    BY <1>1, <1>2
  <2>2. CASE j \in DOMAIN list
    BY <1>1, <1>4, <2>1, <2>2, Zenon DEF Sorted
  <2>3. CASE j = Len(list) + 1
    BY <1>1, <1>4, <2>1, <2>3, Zenon DEF Under
  <2> QED BY <1>2, <2>2, <2>3, Zenon
<1>5. ASSUME Under(list, n) PROVE Under(new, n + 1)
  <2> SUFFICES ASSUME NEW i \in DOMAIN new PROVE new[i].index < n + 1
    BY Zenon DEF Under
  <2>1. CASE i \in DOMAIN list
    BY <1>1, <1>3, <1>5, <2>1 DEF Under
  <2>2. CASE i = Len(list) + 1
    BY <1>1, <2>2
  <2> QED BY <1>2, <2>1, <2>2, Zenon
<1>6. ASSUME Tagged(list, x.tx) PROVE Tagged(new, x.tx)
  BY <1>1, <1>2, <1>6, Zenon DEF Tagged
<1>7. ASSUME NEW m, Under(m, n), Below(m, list) PROVE Below(m, new)
  BY <1>1, <1>2, <1>7, Zenon DEF Under, Below
<1>8. ASSUME NEW m \in Seq(TokenTxs), Under(m, n), Apart(m, list) PROVE Apart(m, new)
  <2> SUFFICES ASSUME NEW i \in DOMAIN m, NEW j \in DOMAIN new PROVE m[i].index # new[j].index
    BY Zenon DEF Apart
  <2>1. CASE j \in DOMAIN list
    BY <1>1, <1>8, <2>1, Zenon DEF Apart
  <2>2. CASE j = Len(list) + 1
    BY <1>1, <1>3, <1>8, <2>2 DEF Under
  <2> QED BY <1>2, <2>1, <2>2, Zenon
<1> QED BY <1>1, <1>4, <1>5, <1>6, <1>7, <1>8, Zenon DEF new

\* The transfers of a call after those of its caller.
LEMMA JoinLists ==
  ASSUME NEW list \in Seq(TokenTxs), NEW more \in Seq(TokenTxs)
  PROVE  /\ list \o more \in Seq(TokenTxs)
         /\ Sorted(list) /\ Sorted(more) /\ Below(list, more) => Sorted(list \o more)
         /\ \A t : Tagged(list, t) /\ Tagged(more, t) => Tagged(list \o more, t)
         /\ \A n : Under(list, n) /\ Under(more, n) => Under(list \o more, n)
         /\ \A m : Below(m, list) /\ Below(m, more) => Below(m, list \o more)
         /\ \A m : Apart(m, list) /\ Apart(m, more) => Apart(m, list \o more)
<1> DEFINE new == list \o more
<1>1. /\ new \in Seq(TokenTxs) /\ DOMAIN list = 1 .. Len(list) /\ Len(list) \in Nat
      /\ DOMAIN more = 1 .. Len(more) /\ Len(more) \in Nat
      /\ DOMAIN new = 1 .. Len(list) + Len(more)
      /\ \A i \in 1 .. Len(list) + Len(more) :
           new[i] = IF i <= Len(list) THEN list[i] ELSE more[i - Len(list)]
  BY SeqConcat, SeqDomain
<1> HIDE DEF new
<1>2. ASSUME NEW i \in DOMAIN new
      PROVE  \/ i \in DOMAIN list /\ new[i] = list[i]
             \/ i > Len(list) /\ i - Len(list) \in DOMAIN more /\ new[i] = more[i - Len(list)]
  BY <1>1
<1>3. ASSUME Sorted(list), Sorted(more), Below(list, more) PROVE Sorted(new)
  <2> SUFFICES ASSUME NEW i \in DOMAIN new, NEW j \in DOMAIN new, i < j
               PROVE  new[i].index < new[j].index
    BY Zenon DEF Sorted
  <2>1. CASE i \in DOMAIN list /\ new[i] = list[i]
    BY <1>2, <1>3, <2>1, Zenon DEF Sorted, Below
  <2>2. CASE i > Len(list) /\ i - Len(list) \in DOMAIN more /\ new[i] = more[i - Len(list)]
    <3>1. ~(j \in DOMAIN list) /\ i - Len(list) < j - Len(list)
      BY <1>1, <2>2
    <3> QED BY <1>2, <1>3, <2>2, <3>1, Zenon DEF Sorted
  <2> QED BY <1>2, <2>1, <2>2, Zenon
<1>4. ASSUME NEW t, Tagged(list, t), Tagged(more, t) PROVE Tagged(new, t)
  BY <1>2, <1>4, Zenon DEF Tagged
<1>5. ASSUME NEW n, Under(list, n), Under(more, n) PROVE Under(new, n)
  BY <1>2, <1>5, Zenon DEF Under
<1>6. ASSUME NEW m, Below(m, list), Below(m, more) PROVE Below(m, new)
  BY <1>2, <1>6, Zenon DEF Below
<1>7. ASSUME NEW m, Apart(m, list), Apart(m, more) PROVE Apart(m, new)
  BY <1>2, <1>7, Zenon DEF Apart
<1> QED BY <1>1, <1>3, <1>4, <1>5, <1>6, <1>7, Zenon DEF new

\* The lists of a state of the right type.
LEMMA ListTypes ==
  ASSUME Base
  PROVE  /\ stack \in Seq(Frames) /\ actions \in Seq(ActionInfos) /\ transferIndex \in Nat
         /\ DOMAIN stack = 1 .. Len(stack) /\ DOMAIN actions = 1 .. Len(actions)
         /\ Len(stack) \in Nat /\ Len(actions) \in Nat
         /\ \A i \in DOMAIN stack : stack[i].list \in Seq(TokenTxs)
         /\ \A k \in DOMAIN actions : actions[k].list \in Seq(TokenTxs) /\ actions[k].tx \in Txs
<1>1. stack \in Seq(Frames) /\ actions \in Seq(ActionInfos) /\ transferIndex \in Nat
  BY TypeParts, Zenon DEF Base, WalkTypes, ActionTypes
<1>2. /\ DOMAIN stack = 1 .. Len(stack) /\ Len(stack) \in Nat
      /\ \A i \in DOMAIN stack : stack[i] \in Frames
  BY <1>1, SeqDomain, Zenon
<1>3. /\ DOMAIN actions = 1 .. Len(actions) /\ Len(actions) \in Nat
      /\ \A k \in DOMAIN actions : actions[k] \in ActionInfos
  BY <1>1, SeqDomain, Zenon
<1>4. \A i \in DOMAIN stack : stack[i].list \in Seq(TokenTxs)
  BY <1>2, Zenon DEF Frames
<1>5. \A k \in DOMAIN actions : actions[k].list \in Seq(TokenTxs) /\ actions[k].tx \in Txs
  BY <1>3, Zenon DEF ActionInfos
<1> QED BY <1>1, <1>2, <1>3, <1>4, <1>5, Zenon

\* Steps that change no list.
LEMMA SameLists ==
  ASSUME Base, Pending, Finished, UNCHANGED <<tx, actions>>, usedTxs \subseteq usedTxs',
         DOMAIN stack' = DOMAIN stack, \A i \in DOMAIN stack : stack'[i].list = stack[i].list,
         transferIndex' \in Nat, transferIndex <= transferIndex'
  PROVE  Pending' /\ Finished'
<1>t. /\ transferIndex \in Nat
      /\ \A i \in DOMAIN stack : stack[i].list \in Seq(TokenTxs)
      /\ \A k \in DOMAIN actions : actions[k].list \in Seq(TokenTxs)
  BY ListTypes, Zenon
<1>1. Pending'
  <2>1. ASSUME NEW i \in DOMAIN stack PROVE Under(stack[i].list, transferIndex')
    BY <1>t, UnderMore, Zenon DEF Pending
  <2> QED BY <2>1, Zenon DEF Pending
<1>2. Finished'
  <2>1. ASSUME NEW k \in DOMAIN actions, actions[k].tx = tx
        PROVE  Under(actions[k].list, transferIndex')
    BY <1>t, <2>1, UnderMore, Zenon DEF Finished
  <2> QED BY <2>1, Zenon DEF Finished
<1> QED BY <1>1, <1>2, Zenon

\* The list of a call that is entered: its ether transfer, if it has one.
LEMMA EnteredList ==
  ASSUME transferIndex \in Nat, NEW t \in Txs, NEW c \in Calls, NEW from \in Addresses,
         NEW static \in BOOLEAN, NEW users
  PROVE  LET list == Entered(t, c, from, static, users).list
             n == IF c.Value THEN transferIndex + 1 ELSE transferIndex
         IN /\ list \in Seq(TokenTxs) /\ Sorted(list) /\ Tagged(list, t) /\ Under(list, n)
            /\ n \in Nat /\ transferIndex <= n
            /\ \A m \in Seq(TokenTxs) : Under(m, transferIndex) => Below(m, list) /\ Apart(m, list)
<1> DEFINE ether == [tx |-> t, index |-> transferIndex, token |-> Zero, sender |-> from, to |-> c.To]
           list == Entered(t, c, from, static, users).list
           n == IF c.Value THEN transferIndex + 1 ELSE transferIndex
<1>1. /\ ether \in TokenTxs /\ ether.tx = t /\ ether.index = transferIndex
      /\ list = IF c.Value THEN <<ether>> ELSE <<>>
  BY FrameType
<1>2. n \in Nat /\ transferIndex <= n
  OBVIOUS
<1> HIDE DEF list, ether
<1>3. CASE c.Value
  <2>1. list = Append(<<>>, ether) /\ n = transferIndex + 1
    BY <1>1, <1>3
  <2>2. /\ Append(<<>>, ether) \in Seq(TokenTxs)
        /\ Sorted(Append(<<>>, ether)) /\ Tagged(Append(<<>>, ether), t)
        /\ Under(Append(<<>>, ether), transferIndex + 1)
        /\ \A m \in Seq(TokenTxs) : Under(m, transferIndex) =>
             Below(m, Append(<<>>, ether)) /\ Apart(m, Append(<<>>, ether))
    BY <1>1, AddTransfer, NoTransfers, Zenon
  <2> HIDE DEF n
  <2>3. /\ list \in Seq(TokenTxs) /\ Sorted(list) /\ Tagged(list, t) /\ Under(list, n)
        /\ \A m \in Seq(TokenTxs) : Under(m, transferIndex) => Below(m, list) /\ Apart(m, list)
    BY <2>1, <2>2, Zenon
  <2> QED BY <1>2, <2>3, Zenon DEF list, n
<1>4. CASE ~c.Value
  <2>1. list = <<>>
    BY <1>1, <1>4, Zenon
  <2> QED BY <1>2, <2>1, NoTransfers, Zenon DEF list
<1> QED BY <1>3, <1>4, Zenon

\* A new transaction has no transfers in any action yet, and at most one in its frame.
LEMMA LoadLists ==
  ASSUME Base, Pending, Finished, NEW sender \in Senders, NEW c \in Calls, LoadTx(sender, c)
  PROVE  Pending' /\ Finished'
<1> DEFINE t == Files[file]
           frame == Entered(t, c, sender, FALSE, {sender})
<1>1. /\ stack = <<>> /\ UNCHANGED actions /\ t \in Txs /\ t \notin usedTxs
      /\ tx' = t /\ usedTxs' = usedTxs \union {t} /\ sender \in Addresses /\ transferIndex \in Nat
      /\ Enter(t, c, sender, FALSE, {sender}, Proxies)
  BY LoadStep, Zenon
<1>2. {sender} \in SUBSET Addresses /\ Proxies \in SUBSET Addresses
  BY <1>1, ExtractorAssumption, Zenon
<1>3. /\ stack' = Append(stack, frame)
      /\ transferIndex' = (IF c.Value THEN transferIndex + 1 ELSE transferIndex)
  BY <1>1, <1>2, EnterType, Zenon DEF Base
<1>4. /\ Sorted(frame.list) /\ Tagged(frame.list, t) /\ Under(frame.list, transferIndex')
  <2>1. FALSE \in BOOLEAN
    BY Zenon
  <2> QED BY <1>1, <1>3, <2>1, EnteredList, Zenon
<1> HIDE DEF frame, t
<1>5. \A k \in DOMAIN actions : actions[k].tx # t
  BY <1>1, Zenon DEF Finished
<1>6. Pending'
  <2>1. DOMAIN stack' = {1} /\ stack'[1] = frame
    BY <1>1, <1>3
  <2>2. ~(1 < 1)
    OBVIOUS
  <2> QED BY <1>1, <1>4, <1>5, <2>1, <2>2, Zenon DEF Pending
<1>7. Finished'
  BY <1>1, <1>5, Zenon DEF Finished
<1> QED BY <1>6, <1>7, Zenon

\* The ether of an internal call gets an index no transfer has.
LEMMA ChildLists ==
  ASSUME Base, Pending, Finished, NEW c \in Calls, Child(c)
  PROVE  Pending' /\ Finished'
<1> DEFINE frame == Entered(tx, c, Top.self, Top.static, userSuppliedAddress[tx])
<1>t. /\ transferIndex \in Nat /\ DOMAIN stack = 1 .. Len(stack) /\ Len(stack) \in Nat
      /\ stack \in Seq(Frames)
      /\ \A i \in DOMAIN stack : stack[i].list \in Seq(TokenTxs)
      /\ \A k \in DOMAIN actions : actions[k].list \in Seq(TokenTxs)
  BY ListTypes, Zenon
<1>1. /\ tx \in Txs /\ Top.self \in Addresses /\ Top.static \in BOOLEAN
      /\ UNCHANGED <<usedTxs, tx, actions>>
      /\ userSuppliedAddress[tx] \in SUBSET Addresses
      /\ proxyRelatedAddress[tx] \in SUBSET Addresses
      /\ Enter(tx, c, Top.self, Top.static, userSuppliedAddress[tx], proxyRelatedAddress[tx])
  BY ChildStep, Zenon
<1>2. /\ stack' = Append(stack, frame)
      /\ transferIndex' = (IF c.Value THEN transferIndex + 1 ELSE transferIndex)
  BY <1>1, EnterType, Zenon DEF Base
<1>3. /\ frame.list \in Seq(TokenTxs)
      /\ Sorted(frame.list) /\ Tagged(frame.list, tx) /\ Under(frame.list, transferIndex')
      /\ transferIndex' \in Nat /\ transferIndex <= transferIndex'
      /\ \A m \in Seq(TokenTxs) : Under(m, transferIndex) => Below(m, frame.list) /\ Apart(m, frame.list)
  BY <1>t, <1>1, <1>2, EnteredList, Zenon
<1>4. frame \in Frames
  BY <1>t, <1>1, FrameType, Zenon
<1> HIDE DEF frame
<1>5. /\ DOMAIN stack' = 1 .. Len(stack) + 1 /\ stack'[Len(stack) + 1] = frame
      /\ \A i \in DOMAIN stack : stack'[i] = stack[i]
  BY <1>t, <1>2, <1>4, SeqAppend
<1>6. \A i \in DOMAIN stack' : i \in DOMAIN stack \/ i = Len(stack) + 1
  BY <1>t, <1>5
<1>7. Finished'
  <2>1. ASSUME NEW k \in DOMAIN actions, actions[k].tx = tx
        PROVE  Under(actions[k].list, transferIndex')
    BY <1>t, <1>3, <2>1, UnderMore, Zenon DEF Finished
  <2> QED BY <1>1, <2>1, Zenon DEF Finished
<1>8. Pending'
  <2> SUFFICES ASSUME NEW i \in DOMAIN stack'
               PROVE  /\ Sorted(stack'[i].list) /\ Tagged(stack'[i].list, tx)
                      /\ Under(stack'[i].list, transferIndex')
                      /\ \A j \in DOMAIN stack' : i < j => Below(stack'[i].list, stack'[j].list)
                      /\ \A k \in DOMAIN actions : actions[k].tx = tx =>
                           Apart(actions[k].list, stack'[i].list)
    BY <1>1, Zenon DEF Pending
  <2>1. CASE i \in DOMAIN stack
    <3>1. Under(stack[i].list, transferIndex')
      BY <1>t, <1>3, <2>1, UnderMore, Zenon DEF Pending
    <3>2. ASSUME NEW j \in DOMAIN stack', i < j PROVE Below(stack[i].list, stack'[j].list)
      <4>1. CASE j \in DOMAIN stack
        BY <1>5, <2>1, <3>2, <4>1, Zenon DEF Pending
      <4>2. CASE j = Len(stack) + 1
        BY <1>t, <1>3, <1>5, <2>1, <4>2, Zenon DEF Pending
      <4> QED BY <1>6, <4>1, <4>2, Zenon
    <3> QED BY <1>5, <2>1, <3>1, <3>2, Zenon DEF Pending
  <2>2. CASE i = Len(stack) + 1
    <3>1. \A j \in DOMAIN stack' : ~(i < j)
      BY <1>t, <1>5, <2>2
    <3>2. ASSUME NEW k \in DOMAIN actions, actions[k].tx = tx
          PROVE  Apart(actions[k].list, frame.list)
      BY <1>t, <1>3, <3>2, Zenon DEF Finished
    <3> QED BY <1>3, <1>5, <2>2, <3>1, <3>2, Zenon
  <2> QED BY <1>6, <2>1, <2>2, Zenon
<1> QED BY <1>7, <1>8, Zenon

\* A transfer event gets an index no transfer has.
LEMMA TransferLists ==
  ASSUME Base, Pending, Finished, NEW e \in Events, TransferEvent(e)
  PROVE  Pending' /\ Finished'
<1> DEFINE n == Len(stack)
           new == Append(Top.list, TokenTx(e))
<1>t. /\ transferIndex \in Nat /\ DOMAIN stack = 1 .. n /\ n \in Nat
      /\ \A i \in DOMAIN stack : stack[i].list \in Seq(TokenTxs)
      /\ \A k \in DOMAIN actions : actions[k].list \in Seq(TokenTxs)
  BY ListTypes, Zenon
<1>1. /\ stack # <<>> /\ UNCHANGED <<tx, usedTxs, actions>>
      /\ TokenTx(e) \in TokenTxs /\ TokenTx(e).tx = tx /\ TokenTx(e).index = transferIndex
      /\ Top.list \in Seq(TokenTxs) /\ DOMAIN stack' = DOMAIN stack
      /\ \A i \in DOMAIN stack : stack'[i].list = IF i = n THEN new ELSE stack[i].list
      /\ transferIndex' = transferIndex + 1
  BY TransferStep, Zenon
<1>2. n \in DOMAIN stack /\ Top.list = stack[n].list
  BY <1>1, TopFrame, TypeParts, Zenon DEF Base
<1>3. Sorted(Top.list) /\ Tagged(Top.list, tx) /\ Under(Top.list, transferIndex)
  BY <1>2, Zenon DEF Pending
<1>4. /\ Sorted(new) /\ Tagged(new, tx) /\ Under(new, transferIndex + 1)
      /\ \A m \in Seq(TokenTxs) : Under(m, transferIndex) =>
           /\ Below(m, Top.list) => Below(m, new)
           /\ Apart(m, Top.list) => Apart(m, new)
  BY <1>t, <1>1, <1>3, AddTransfer, Zenon
<1> HIDE DEF n, new
<1>5. transferIndex' \in Nat /\ transferIndex <= transferIndex'
  BY <1>t, <1>1
<1>6. Finished'
  <2>1. ASSUME NEW k \in DOMAIN actions, actions[k].tx = tx
        PROVE  Under(actions[k].list, transferIndex')
    BY <1>t, <1>5, <2>1, UnderMore, Zenon DEF Finished
  <2> QED BY <1>1, <2>1, Zenon DEF Finished
<1>7. Pending'
  <2> SUFFICES ASSUME NEW i \in DOMAIN stack
               PROVE  /\ Sorted(stack'[i].list) /\ Tagged(stack'[i].list, tx)
                      /\ Under(stack'[i].list, transferIndex')
                      /\ \A j \in DOMAIN stack : i < j => Below(stack'[i].list, stack'[j].list)
                      /\ \A k \in DOMAIN actions : actions[k].tx = tx =>
                           Apart(actions[k].list, stack'[i].list)
    BY <1>1, Zenon DEF Pending
  <2>1. CASE i # n
    <3>1. stack'[i].list = stack[i].list
      BY <1>1, <2>1, Zenon
    <3>2. Under(stack[i].list, transferIndex')
      BY <1>t, <1>5, UnderMore, Zenon DEF Pending
    <3>3. ASSUME NEW j \in DOMAIN stack, i < j PROVE Below(stack[i].list, stack'[j].list)
      <4>1. CASE j # n
        BY <1>1, <3>3, <4>1, Zenon DEF Pending
      <4>2. CASE j = n
        <5>1. Below(stack[i].list, Top.list) /\ Under(stack[i].list, transferIndex)
          BY <1>2, <3>3, <4>2, Zenon DEF Pending
        <5> QED BY <1>t, <1>1, <1>4, <4>2, <5>1, Zenon
      <4> QED BY <4>1, <4>2, Zenon
    <3> QED BY <3>1, <3>2, <3>3, Zenon DEF Pending
  <2>2. CASE i = n
    <3>1. stack'[i].list = new
      BY <1>1, <2>2, Zenon
    <3>2. \A j \in DOMAIN stack : ~(i < j)
      BY <1>t, <2>2
    <3>3. ASSUME NEW k \in DOMAIN actions, actions[k].tx = tx PROVE Apart(actions[k].list, new)
      <4>1. Apart(actions[k].list, Top.list) /\ Under(actions[k].list, transferIndex)
        BY <1>2, <3>3, Zenon DEF Pending, Finished
      <4> QED BY <1>t, <1>4, <4>1, Zenon
    <3> QED BY <1>1, <1>4, <3>1, <3>2, <3>3, Zenon
  <2> QED BY <2>1, <2>2, Zenon
<1> QED BY <1>6, <1>7, Zenon

\* What the call below a returning one has then, and what an action leaves behind.
LEMMA ReturnLists ==
  ASSUME Base, Pending, Finished, Return
  PROVE  Pending' /\ Finished'
<1> DEFINE n == Len(stack)
           below == Len(stack) - 1
           rest == IF Top.action THEN <<>> ELSE Top.list
<1>t. /\ transferIndex \in Nat /\ DOMAIN stack = 1 .. n /\ n \in Nat /\ stack \in Seq(Frames)
      /\ actions \in Seq(ActionInfos) /\ DOMAIN actions = 1 .. Len(actions) /\ Len(actions) \in Nat
      /\ \A i \in DOMAIN stack : stack[i].list \in Seq(TokenTxs)
      /\ \A k \in DOMAIN actions : actions[k].list \in Seq(TokenTxs) /\ actions[k].tx \in Txs
  BY ListTypes, Zenon
<1>1. /\ stack # <<>> /\ tx \in Txs /\ below \in Nat /\ rest \in Seq(TokenTxs)
      /\ Top = stack[n] /\ Top.list \in Seq(TokenTxs)
      /\ below = 0 => stack' = <<>>
      /\ below # 0 => DOMAIN stack' = 1 .. below
      /\ \A i \in 1 .. below :
           stack'[i].list = IF i = below THEN stack[i].list \o rest ELSE stack[i].list
  BY ReturnStep, Zenon
<1>2. /\ IF Top.action THEN actions' = Append(actions, ActionInfo(Top)) ELSE actions' = actions
      /\ ActionInfo(Top) \in ActionInfos /\ ActionInfo(Top).tx = tx /\ ActionInfo(Top).list = Top.list
      /\ IF below = 0 THEN tx' = NoTx ELSE UNCHANGED <<tx, transferIndex>>
      /\ UNCHANGED usedTxs
  BY ReturnRest, Zenon
<1>3. /\ n \in DOMAIN stack /\ NoTx \notin Txs /\ tx \in usedTxs
      /\ \A i \in 1 .. below : i \in DOMAIN stack /\ i < n
  <2>1. n # 0
    BY <1>t, <1>1, SeqDomain, Zenon
  <2>2. n \in DOMAIN stack /\ \A i \in 1 .. below : i \in DOMAIN stack /\ i < n
    BY <1>t, <2>1
  <2>3. NoTx \notin Txs
    BY ExtractorAssumption, Zenon
  <2> QED BY <1>1, <2>2, <2>3, Zenon DEF Base, Walk
<1>4. /\ Sorted(Top.list) /\ Tagged(Top.list, tx) /\ Under(Top.list, transferIndex)
      /\ \A i \in 1 .. below : Below(stack[i].list, Top.list)
      /\ \A k \in DOMAIN actions : actions[k].tx = tx => Apart(actions[k].list, Top.list)
  BY <1>1, <1>3, Zenon DEF Pending
<1>5. /\ Sorted(rest) /\ Tagged(rest, tx) /\ Under(rest, transferIndex)
      /\ \A i \in 1 .. below : Below(stack[i].list, rest)
      /\ \A k \in DOMAIN actions : actions[k].tx = tx => Apart(actions[k].list, rest)
      /\ Top.action => rest = <<>>
  BY <1>4, NoTransfers, Zenon
<1> HIDE DEF n, below, rest
<1>6. ASSUME Top.action
      PROVE  LET last == Len(actions) + 1 IN
             /\ DOMAIN actions' = 1 .. last /\ actions'[last].tx = tx /\ actions'[last].list = Top.list
             /\ \A k \in DOMAIN actions : actions'[k] = actions[k]
             /\ \A k \in DOMAIN actions' : k \in DOMAIN actions \/ k = last
             /\ last \notin DOMAIN actions
  <2>1. actions' = Append(actions, ActionInfo(Top))
    BY <1>2, <1>6, Zenon
  <2>2. /\ Len(actions') = Len(actions) + 1 /\ actions'[Len(actions) + 1] = ActionInfo(Top)
        /\ DOMAIN actions' = 1 .. Len(actions) + 1
        /\ \A k \in 1 .. Len(actions) : actions'[k] = actions[k]
    <3> DEFINE info == ActionInfo(Top)
    <3> HIDE DEF info
    <3>1. info \in ActionInfos /\ actions' = Append(actions, info)
      BY <1>2, <2>1, Zenon DEF info
    <3>2. /\ Len(actions') = Len(actions) + 1 /\ actions'[Len(actions) + 1] = info
          /\ DOMAIN actions' = 1 .. Len(actions) + 1
          /\ \A k \in 1 .. Len(actions) : actions'[k] = actions[k]
      BY <1>t, <3>1, SeqAppend
    <3> QED BY <3>2, Zenon DEF info
  <2> QED BY <1>t, <1>2, <2>2
<1>7. Finished'
  <2>1. CASE ~Top.action
    <3>1. actions' = actions
      BY <1>2, <2>1, Zenon
    <3>2. CASE below = 0
      <4>1. \A k \in DOMAIN actions : actions[k].tx # tx'
        BY <1>t, <1>2, <1>3, <3>2, Zenon
      <4> QED BY <1>2, <3>1, <4>1, Zenon DEF Finished
    <3>3. CASE below # 0
      BY <1>2, <3>1, <3>3, Zenon DEF Finished
    <3> QED BY <3>2, <3>3, Zenon
  <2>2. CASE Top.action
    <3> DEFINE last == Len(actions) + 1
    <3>1. /\ DOMAIN actions' = 1 .. last /\ actions'[last].tx = tx /\ actions'[last].list = Top.list
          /\ \A k \in DOMAIN actions : actions'[k] = actions[k]
          /\ \A k \in DOMAIN actions' : k \in DOMAIN actions \/ k = last
          /\ last \notin DOMAIN actions
      BY <1>6, <2>2, Zenon
    <3> HIDE DEF last
    <3>2. below = 0 => tx' \notin Txs
      BY <1>2, <1>3, Zenon
    <3>3. below # 0 => tx' = tx /\ transferIndex' = transferIndex
      BY <1>2, Zenon
    <3> SUFFICES ASSUME NEW k \in DOMAIN actions'
                 PROVE  /\ Sorted(actions'[k].list) /\ Tagged(actions'[k].list, actions'[k].tx)
                        /\ actions'[k].tx \in usedTxs
                        /\ actions'[k].tx = tx' => Under(actions'[k].list, transferIndex')
                        /\ \A l \in DOMAIN actions' : k # l /\ actions'[k].tx = actions'[l].tx =>
                             Apart(actions'[k].list, actions'[l].list)
      BY <1>2, Zenon DEF Finished
    <3>4. CASE k \in DOMAIN actions
      <4>0. actions'[k] = actions[k] /\ actions[k].tx \in Txs
        BY <1>t, <3>1, <3>4, Zenon
      <4>1. /\ Sorted(actions[k].list) /\ Tagged(actions[k].list, actions[k].tx)
            /\ actions[k].tx \in usedTxs
            /\ actions[k].tx = tx => Under(actions[k].list, transferIndex)
        BY <3>4, Zenon DEF Finished
      <4>2. actions[k].tx = tx' => Under(actions[k].list, transferIndex')
        BY <3>2, <3>3, <4>0, <4>1, Zenon
      <4>3. ASSUME NEW l \in DOMAIN actions', k # l, actions[k].tx = actions'[l].tx
            PROVE  Apart(actions[k].list, actions'[l].list)
        <5>1. CASE l \in DOMAIN actions
          BY <3>1, <3>4, <4>3, <5>1, Zenon DEF Finished
        <5>2. CASE l = last
          BY <1>4, <3>1, <3>4, <4>3, <5>2, Zenon
        <5> QED BY <3>1, <5>1, <5>2, Zenon
      <4> QED BY <4>0, <4>1, <4>2, <4>3, Zenon
    <3>5. CASE k = last
      <4>1. tx = tx' => Under(Top.list, transferIndex')
        BY <1>1, <1>4, <3>2, <3>3, Zenon
      <4>2. ASSUME NEW l \in DOMAIN actions', k # l, tx = actions'[l].tx
            PROVE  Apart(Top.list, actions'[l].list)
        <5>1. l \in DOMAIN actions /\ actions'[l] = actions[l]
          BY <3>1, <3>5, <4>2, Zenon
        <5>2. Apart(actions[l].list, Top.list)
          BY <1>4, <4>2, <5>1, Zenon
        <5> QED BY <5>1, <5>2, Zenon DEF Apart
      <4> QED BY <1>3, <1>4, <3>1, <3>5, <4>1, <4>2, Zenon
    <3> QED BY <3>1, <3>4, <3>5, Zenon
  <2> QED BY <2>1, <2>2, Zenon
<1>8. Pending'
  <2>1. CASE below = 0
    <3>1. stack' = <<>> /\ \A i \in DOMAIN <<>> : FALSE
      BY <1>1, <2>1
    <3> QED BY <3>1, Zenon DEF Pending
  <2>2. CASE below # 0
    <3>1. DOMAIN stack' = 1 .. below /\ UNCHANGED <<tx, transferIndex>>
      BY <1>1, <1>2, <2>2, Zenon
    <3> SUFFICES ASSUME NEW i \in 1 .. below
                 PROVE  /\ Sorted(stack'[i].list) /\ Tagged(stack'[i].list, tx)
                        /\ Under(stack'[i].list, transferIndex)
                        /\ \A j \in 1 .. below : i < j => Below(stack'[i].list, stack'[j].list)
                        /\ \A k \in DOMAIN actions' : actions'[k].tx = tx =>
                             Apart(actions'[k].list, stack'[i].list)
      BY <3>1, Zenon DEF Pending
    <3>2. /\ Sorted(stack[i].list) /\ Tagged(stack[i].list, tx) /\ Under(stack[i].list, transferIndex)
          /\ \A j \in 1 .. below : i < j => Below(stack[i].list, stack[j].list)
          /\ \A k \in DOMAIN actions : actions[k].tx = tx => Apart(actions[k].list, stack[i].list)
          /\ stack[i].list \in Seq(TokenTxs) /\ i \in DOMAIN stack
      BY <1>t, <1>3, Zenon DEF Pending
    <3>3. /\ Sorted(stack'[i].list) /\ Tagged(stack'[i].list, tx) /\ Under(stack'[i].list, transferIndex)
          /\ \A k \in DOMAIN actions : actions[k].tx = tx => Apart(actions[k].list, stack'[i].list)
      <4>1. CASE i # below
        BY <1>1, <3>2, <4>1, Zenon
      <4>2. CASE i = below
        <5>1. stack'[i].list = stack[i].list \o rest
          BY <1>1, <4>2, Zenon
        <5>2. Sorted(stack[i].list \o rest)
          BY <1>1, <1>5, <3>2, JoinLists, Zenon
        <5>3. Tagged(stack[i].list \o rest, tx) /\ Under(stack[i].list \o rest, transferIndex)
          BY <1>1, <1>5, <3>2, JoinLists, Zenon
        <5>4. ASSUME NEW k \in DOMAIN actions, actions[k].tx = tx
              PROVE  Apart(actions[k].list, stack[i].list \o rest)
          BY <1>1, <1>5, <3>2, <5>4, JoinLists, Zenon
        <5> QED BY <5>1, <5>2, <5>3, <5>4, Zenon
      <4> QED BY <4>1, <4>2, Zenon
    <3>4. ASSUME NEW j \in 1 .. below, i < j PROVE Below(stack'[i].list, stack'[j].list)
      <4>0. stack'[i].list = stack[i].list
        BY <1>1, <3>4
      <4>1. CASE j # below
        BY <1>1, <3>2, <3>4, <4>0, <4>1, Zenon
      <4>2. CASE j = below
        <5>1. stack'[j].list = stack[j].list \o rest /\ stack[j].list \in Seq(TokenTxs)
          BY <1>t, <1>1, <1>3, <4>2, Zenon
        <5>2. Below(stack[i].list, stack[j].list) /\ Below(stack[i].list, rest)
          BY <1>5, <3>2, <3>4, Zenon
        <5> QED BY <1>1, <4>0, <5>1, <5>2, JoinLists, Zenon
      <4> QED BY <4>1, <4>2, Zenon
    <3>5. ASSUME NEW k \in DOMAIN actions', actions'[k].tx = tx
          PROVE  Apart(actions'[k].list, stack'[i].list)
      <4>1. CASE ~Top.action
        BY <1>2, <3>3, <3>5, <4>1, Zenon
      <4>2. CASE Top.action
        <5>1. CASE k \in DOMAIN actions
          BY <1>6, <3>3, <3>5, <4>2, <5>1, Zenon
        <5>2. CASE k \notin DOMAIN actions
          <6>1. actions'[k].list = Top.list
            BY <1>6, <4>2, <5>2, Zenon
          <6>2. rest = <<>>
            BY <1>5, <4>2, Zenon
          <6>3. stack'[i].list = stack[i].list
            <7>1. stack[i].list \o <<>> = stack[i].list
              BY <3>2
            <7> QED BY <1>1, <6>2, <7>1, Zenon
          <6>4. \A a \in DOMAIN stack[i].list, b \in DOMAIN Top.list :
                  Top.list[b].index # stack[i].list[a].index
            <7> SUFFICES ASSUME NEW a \in DOMAIN stack[i].list, NEW b \in DOMAIN Top.list
                         PROVE  Top.list[b].index # stack[i].list[a].index
              BY Zenon
            <7>1. stack[i].list[a].index < Top.list[b].index
              BY <1>4, Zenon DEF Below
            <7>2. stack[i].list[a].index \in Nat /\ Top.list[b].index \in Nat
              BY <1>1, <3>2, TransferIndex, Zenon
            <7> QED BY <7>1, <7>2
          <6> QED BY <6>1, <6>3, <6>4, Zenon DEF Apart
        <5> QED BY <5>1, <5>2, Zenon
      <4> QED BY <4>1, <4>2, Zenon
    <3> QED BY <3>3, <3>4, <3>5, Zenon
  <2> QED BY <2>1, <2>2, Zenon
<1> QED BY <1>7, <1>8, Zenon

\* There are no lists at first.
LEMMA InitLists == Init => Pending /\ Finished
<1> SUFFICES ASSUME Init PROVE Pending /\ Finished
  BY Zenon
<1>1. stack = <<>> /\ actions = <<>>
  BY Zenon DEF Init
<1>2. \A i \in DOMAIN <<>> : FALSE
  OBVIOUS
<1> QED BY <1>1, <1>2, Zenon DEF Pending, Finished

\* Every action keeps the transfers of the lists apart.
LEMMA NextLists == Base /\ Pending /\ Finished /\ [Next]_vars => Pending' /\ Finished'
<1> SUFFICES ASSUME Base, Pending, Finished, [Next]_vars PROVE Pending' /\ Finished'
  BY Zenon
<1>t. transferIndex \in Nat
  BY ListTypes, Zenon
<1>1. CASE \E sender \in Senders, c \in Calls : LoadTx(sender, c)
  BY <1>1, LoadLists, Zenon
<1>2. CASE \E c \in Calls : Child(c)
  BY <1>2, ChildLists, Zenon
<1>3. CASE \E e \in Events : TransferEvent(e)
  BY <1>3, TransferLists, Zenon
<1>4. CASE Return
  BY <1>4, ReturnLists, Zenon
<1>5. CASE OtherEvent
  <2>1. /\ UNCHANGED <<tx, actions, usedTxs>> /\ DOMAIN stack' = DOMAIN stack
        /\ \A i \in DOMAIN stack : stack'[i].list = stack[i].list
        /\ transferIndex' = transferIndex + 1
    BY <1>5, OtherStep, Zenon
  <2>2. transferIndex' \in Nat /\ transferIndex <= transferIndex'
    BY <1>t, <2>1
  <2> QED BY <2>1, <2>2, SameLists, Zenon
<1>6. CASE \/ SkipFile \/ LoadEmptyTx \/ StartStake \/ NextStakeFile \/ UpdateCommonAddressMap
           \/ \E e \in Events : StakeEvent(e)
           \/ \E i \in todo : ExtractAction(i)
           \/ UNCHANGED vars
  <2>1. UNCHANGED <<tx, stack, transferIndex, actions>> /\ usedTxs \subseteq usedTxs'
    BY <1>6, Zenon DEF SkipFile, LoadEmptyTx, StartStake, NextStakeFile, UpdateCommonAddressMap, StakeEvent,
       ExtractAction, vars, walkVars
  <2>2. transferIndex' \in Nat /\ transferIndex <= transferIndex'
    BY <1>t, <2>1
  <2> QED BY <2>1, <2>2, SameLists, Zenon
<1> QED BY <1>1, <1>2, <1>3, <1>4, <1>5, <1>6, Zenon DEF Next

-----------------------------------------------------------------------------
(* No transfer is lost.                                                     *)

Has(list, m) == \E j \in DOMAIN list : list[j].index = m

\* the indices of the transfers that are in some list of the transaction
Held(m) ==
  \/ \E i \in DOMAIN stack : Has(stack[i].list, m)
  \/ \E k \in DOMAIN actions : actions[k].tx = tx /\ Has(actions[k].list, m)
Taken == {m \in 0 .. transferIndex : Held(m)}

\* every index is taken by a transfer in a list, or by another event
NoneLost == stack # <<>> => Cardinality(Taken) + others = transferIndex

\* A step of a walk that takes the next index for a transfer, and one that takes none or
\* takes it for another event.
TakesNext ==
  /\ stack # <<>> /\ UNCHANGED others /\ transferIndex' = transferIndex + 1
  /\ \A m \in Nat : Held(m)' <=> (Held(m) \/ m = transferIndex)
TakesNone ==
  /\ stack # <<>>
  /\ \/ UNCHANGED <<others, transferIndex>>
     \/ others' = others + 1 /\ transferIndex' = transferIndex + 1
  /\ \A m \in Nat : Held(m)' <=> Held(m)

\* An index is in a list with one more transfer if it was there or is that of the
\* transfer.
LEMMA HasAppend ==
  ASSUME NEW list \in Seq(TokenTxs), NEW x \in TokenTxs, NEW m
  PROVE  Has(Append(list, x), m) <=> Has(list, m) \/ x.index = m
<1> DEFINE new == Append(list, x)
<1>1. /\ DOMAIN list = 1 .. Len(list) /\ Len(list) \in Nat /\ DOMAIN new = 1 .. Len(list) + 1
      /\ \A i \in DOMAIN list : i \in DOMAIN new /\ new[i] = list[i]
      /\ new[Len(list) + 1] = x
  BY SeqAppend, SeqDomain
<1>2. /\ Len(list) + 1 \in DOMAIN new
      /\ \A i \in DOMAIN new : i \in DOMAIN list \/ i = Len(list) + 1
  BY <1>1
<1> HIDE DEF new
<1>3. Has(new, m) <=> Has(list, m) \/ x.index = m
  BY <1>1, <1>2, Zenon DEF Has
<1> QED BY <1>3, Zenon DEF new

\* An index is in two joined lists if it is in one of them.
LEMMA HasConcat ==
  ASSUME NEW list \in Seq(TokenTxs), NEW more \in Seq(TokenTxs), NEW m
  PROVE  Has(list \o more, m) <=> Has(list, m) \/ Has(more, m)
<1> DEFINE new == list \o more
<1>1. /\ new \in Seq(TokenTxs) /\ DOMAIN list = 1 .. Len(list) /\ Len(list) \in Nat
      /\ DOMAIN more = 1 .. Len(more) /\ Len(more) \in Nat
      /\ DOMAIN new = 1 .. Len(list) + Len(more)
      /\ \A i \in 1 .. Len(list) + Len(more) :
           new[i] = IF i <= Len(list) THEN list[i] ELSE more[i - Len(list)]
  BY SeqConcat, SeqDomain
<1> HIDE DEF new
<1>2. ASSUME NEW i \in DOMAIN new
      PROVE  \/ i \in DOMAIN list /\ new[i] = list[i]
             \/ i - Len(list) \in DOMAIN more /\ new[i] = more[i - Len(list)]
  BY <1>1
<1>3. \A i \in DOMAIN list : i \in DOMAIN new /\ new[i] = list[i]
  BY <1>1
<1>4. \A i \in DOMAIN more : i + Len(list) \in DOMAIN new /\ new[i + Len(list)] = more[i]
  BY <1>1
<1>5. Has(new, m) <=> Has(list, m) \/ Has(more, m)
  <2>1. Has(list, m) => Has(new, m)
    BY <1>3, Zenon DEF Has
  <2>2. Has(more, m) => Has(new, m)
    BY <1>4, Zenon DEF Has
  <2>3. Has(new, m) => Has(list, m) \/ Has(more, m)
    BY <1>2, Zenon DEF Has
  <2> QED BY <2>1, <2>2, <2>3, Zenon
<1> QED BY <1>5, Zenon DEF new

\* The next indices are not taken yet.
LEMMA NotYetHeld ==
  ASSUME Base, Pending, Finished, NEW n \in Nat, n >= transferIndex
  PROVE  ~Held(n)
<1>t. /\ transferIndex \in Nat
      /\ \A i \in DOMAIN stack : stack[i].list \in Seq(TokenTxs)
      /\ \A k \in DOMAIN actions : actions[k].list \in Seq(TokenTxs)
  BY ListTypes, Zenon
<1>1. ASSUME NEW list \in Seq(TokenTxs), Under(list, transferIndex) PROVE ~Has(list, n)
  <2> SUFFICES ASSUME NEW j \in DOMAIN list, list[j].index = n PROVE FALSE
    BY Zenon DEF Has
  <2>1. list[j].index < transferIndex
    BY <1>1, Zenon DEF Under
  <2> QED BY <1>t, <2>1
<1> QED BY <1>t, <1>1, Zenon DEF Held, Pending, Finished

\* The list of a call that is entered has the next index, if the call sends ether.
LEMMA EnteredHas ==
  ASSUME transferIndex \in Nat, NEW t \in Txs, NEW c \in Calls, NEW from \in Addresses,
         NEW static \in BOOLEAN, NEW users, NEW m
  PROVE  Has(Entered(t, c, from, static, users).list, m) <=> c.Value /\ m = transferIndex
<1> DEFINE ether == [tx |-> t, index |-> transferIndex, token |-> Zero, sender |-> from, to |-> c.To]
           list == Entered(t, c, from, static, users).list
<1>1. /\ ether \in TokenTxs /\ ether.index = transferIndex
      /\ list = IF c.Value THEN <<ether>> ELSE <<>>
  BY FrameType
<1> HIDE DEF list, ether
<1>2. <<>> \in Seq(TokenTxs) /\ \A i \in DOMAIN <<>> : FALSE
  OBVIOUS
<1>3. ~Has(<<>>, m)
  BY <1>2, Zenon DEF Has
<1>4. CASE c.Value
  <2>1. list = Append(<<>>, ether)
    BY <1>1, <1>4
  <2>2. Has(Append(<<>>, ether), m) <=> Has(<<>>, m) \/ ether.index = m
    BY <1>1, <1>2, HasAppend, Zenon
  <2> QED BY <1>1, <1>3, <1>4, <2>1, <2>2, Zenon DEF list
<1>5. CASE ~c.Value
  <2>1. list = <<>>
    BY <1>1, <1>5, Zenon
  <2> QED BY <1>3, <1>5, <2>1, Zenon DEF list
<1> QED BY <1>4, <1>5, Zenon

\* A new transaction has taken one index for its ether, or none.
LEMMA LoadTakes ==
  ASSUME Base, Finished, NEW sender \in Senders, NEW c \in Calls, LoadTx(sender, c)
  PROVE  /\ others' = 0
         /\ \/ transferIndex' = 1 /\ Taken' = {0}
            \/ transferIndex' = 0 /\ Taken' = {}
<1> DEFINE t == Files[file]
           frame == Entered(t, c, sender, FALSE, {sender})
<1>1. /\ stack = <<>> /\ UNCHANGED <<actions, others>> /\ t \in Txs /\ t \notin usedTxs
      /\ tx' = t /\ sender \in Addresses /\ transferIndex \in Nat
      /\ Enter(t, c, sender, FALSE, {sender}, Proxies)
  BY LoadStep, Zenon
<1>2. {sender} \in SUBSET Addresses /\ Proxies \in SUBSET Addresses /\ FALSE \in BOOLEAN
  BY <1>1, ExtractorAssumption, Zenon
<1>3. /\ stack' = Append(stack, frame)
      /\ transferIndex' = (IF c.Value THEN transferIndex + 1 ELSE transferIndex)
  BY <1>1, <1>2, EnterType, Zenon DEF Base
<1>4. \A m : Has(frame.list, m) <=> c.Value /\ m = transferIndex
  BY <1>1, <1>2, EnteredHas, Zenon
<1> HIDE DEF frame, t
<1>5. transferIndex = 0 /\ others = 0
  BY <1>1, Zenon DEF Base, Walk
<1>6. \A k \in DOMAIN actions' : actions'[k].tx # tx'
  BY <1>1, Zenon DEF Finished
<1>7. DOMAIN stack' = {1} /\ stack'[1] = frame
  BY <1>1, <1>3
<1>8. \A m : Held(m)' <=> c.Value /\ m = 0
  BY <1>4, <1>5, <1>6, <1>7, Zenon DEF Held
<1>9. CASE c.Value
  <2>1. transferIndex' = 1
    BY <1>3, <1>5, <1>9
  <2> QED BY <1>1, <1>5, <1>8, <1>9, <2>1 DEF Taken
<1>10. CASE ~c.Value
  <2>1. transferIndex' = 0
    BY <1>3, <1>5, <1>10, Zenon
  <2> QED BY <1>1, <1>5, <1>8, <1>10, <2>1, Zenon DEF Taken
<1> QED BY <1>9, <1>10, Zenon

\* An internal call takes the next index for its ether, or none.
LEMMA ChildTakes ==
  ASSUME Base, NEW c \in Calls, Child(c)
  PROVE  TakesNext \/ TakesNone
<1> DEFINE frame == Entered(tx, c, Top.self, Top.static, userSuppliedAddress[tx])
<1>t. /\ transferIndex \in Nat /\ DOMAIN stack = 1 .. Len(stack) /\ Len(stack) \in Nat
      /\ stack \in Seq(Frames)
  BY ListTypes, Zenon
<1>1. /\ stack # <<>> /\ tx \in Txs /\ Top.self \in Addresses /\ Top.static \in BOOLEAN
      /\ UNCHANGED <<tx, actions, others>>
      /\ userSuppliedAddress[tx] \in SUBSET Addresses
      /\ proxyRelatedAddress[tx] \in SUBSET Addresses
      /\ Enter(tx, c, Top.self, Top.static, userSuppliedAddress[tx], proxyRelatedAddress[tx])
  BY ChildStep, Zenon
<1>2. /\ stack' = Append(stack, frame)
      /\ transferIndex' = (IF c.Value THEN transferIndex + 1 ELSE transferIndex)
  BY <1>1, EnterType, Zenon DEF Base
<1>3. frame \in Frames
  BY <1>t, <1>1, FrameType, Zenon
<1>4. \A m : Has(frame.list, m) <=> c.Value /\ m = transferIndex
  <2> DEFINE from == Top.self
             static == Top.static
             users == userSuppliedAddress[tx]
  <2>1. transferIndex \in Nat /\ tx \in Txs /\ from \in Addresses /\ static \in BOOLEAN
    BY <1>t, <1>1, Zenon
  <2>2. frame = Entered(tx, c, from, static, users)
    BY Zenon
  <2> HIDE DEF frame, from, static, users
  <2>3. \A m : Has(Entered(tx, c, from, static, users).list, m) <=> c.Value /\ m = transferIndex
    <3>1. CASE static = TRUE
      BY <2>1, <3>1, EnteredHas, Zenon
    <3>2. CASE static = FALSE
      BY <2>1, <3>2, EnteredHas, Zenon
    <3> QED BY <2>1, <3>1, <3>2, Zenon
  <2> QED BY <2>2, <2>3, Zenon
<1> HIDE DEF frame
<1>5. /\ DOMAIN stack' = 1 .. Len(stack) + 1 /\ stack'[Len(stack) + 1] = frame
      /\ \A i \in DOMAIN stack : stack'[i] = stack[i]
  BY <1>t, <1>2, <1>3, SeqAppend
<1>6. /\ \A i \in DOMAIN stack' : i \in DOMAIN stack \/ i = Len(stack) + 1
      /\ \A i \in DOMAIN stack : i \in DOMAIN stack'
      /\ Len(stack) + 1 \in DOMAIN stack'
  BY <1>t, <1>5
<1>7. \A m : Held(m)' <=> Held(m) \/ (c.Value /\ m = transferIndex)
  <2> SUFFICES ASSUME NEW m PROVE Held(m)' <=> Held(m) \/ (c.Value /\ m = transferIndex)
    BY Zenon
  <2> DEFINE acts == \E k \in DOMAIN actions : actions[k].tx = tx /\ Has(actions[k].list, m)
  <2>1. Held(m) <=> acts \/ \E i \in DOMAIN stack : Has(stack[i].list, m)
    BY Zenon DEF Held
  <2>2. Held(m)' <=> acts \/ \E i \in DOMAIN stack' : Has(stack'[i].list, m)
    BY <1>1, Zenon DEF Held
  <2>3. (\E i \in DOMAIN stack' : Has(stack'[i].list, m)) <=>
          (\E i \in DOMAIN stack : Has(stack[i].list, m)) \/ Has(frame.list, m)
    BY <1>5, <1>6, Zenon
  <2> HIDE DEF acts
  <2> QED BY <1>4, <2>1, <2>2, <2>3, Zenon
<1>8. CASE c.Value
  BY <1>1, <1>2, <1>7, <1>8, Zenon DEF TakesNext
<1>9. CASE ~c.Value
  BY <1>1, <1>2, <1>7, <1>9, Zenon DEF TakesNone
<1> QED BY <1>8, <1>9, Zenon

\* A transfer event takes the next index.
LEMMA TransferTakes ==
  ASSUME Base, NEW e \in Events, TransferEvent(e)
  PROVE  TakesNext
<1> DEFINE n == Len(stack)
           new == Append(Top.list, TokenTx(e))
<1>1. /\ stack # <<>> /\ UNCHANGED <<tx, others, actions>>
      /\ TokenTx(e) \in TokenTxs /\ TokenTx(e).index = transferIndex
      /\ Top.list \in Seq(TokenTxs) /\ DOMAIN stack' = DOMAIN stack
      /\ \A i \in DOMAIN stack : stack'[i].list = IF i = n THEN new ELSE stack[i].list
      /\ transferIndex' = transferIndex + 1
  BY TransferStep, Zenon
<1>2. n \in DOMAIN stack /\ Top.list = stack[n].list
  BY <1>1, TopFrame, TypeParts, Zenon DEF Base
<1>3. \A m : Has(new, m) <=> Has(stack[n].list, m) \/ m = transferIndex
  BY <1>1, <1>2, HasAppend, Zenon
<1> HIDE DEF n, new
<1>4. \A m : Held(m)' <=> Held(m) \/ m = transferIndex
  <2> SUFFICES ASSUME NEW m PROVE Held(m)' <=> Held(m) \/ m = transferIndex
    BY Zenon
  <2> DEFINE acts == \E k \in DOMAIN actions : actions[k].tx = tx /\ Has(actions[k].list, m)
  <2>1. Held(m) <=> acts \/ \E i \in DOMAIN stack : Has(stack[i].list, m)
    BY Zenon DEF Held
  <2>2. Held(m)' <=> acts \/ \E i \in DOMAIN stack : Has(stack'[i].list, m)
    BY <1>1, Zenon DEF Held
  <2>3. \A i \in DOMAIN stack : Has(stack'[i].list, m) <=>
                                  Has(stack[i].list, m) \/ (i = n /\ m = transferIndex)
    BY <1>1, <1>3, Zenon
  <2> HIDE DEF acts
  <2> QED BY <1>2, <2>1, <2>2, <2>3, Zenon
<1> QED BY <1>1, <1>4, Zenon DEF TakesNext

\* A return moves a list to the caller or to an action, and loses and adds no transfer.
LEMMA ReturnTakes ==
  ASSUME Base, Return
  PROVE  stack' = <<>> \/ TakesNone
<1> DEFINE n == Len(stack)
           below == Len(stack) - 1
           rest == IF Top.action THEN <<>> ELSE Top.list
<1>t. /\ transferIndex \in Nat /\ DOMAIN stack = 1 .. n /\ n \in Nat /\ stack \in Seq(Frames)
      /\ actions \in Seq(ActionInfos) /\ DOMAIN actions = 1 .. Len(actions) /\ Len(actions) \in Nat
      /\ \A i \in DOMAIN stack : stack[i].list \in Seq(TokenTxs)
  BY ListTypes, Zenon
<1>1. /\ stack # <<>> /\ below \in Nat /\ rest \in Seq(TokenTxs)
      /\ Top = stack[n] /\ Top.list \in Seq(TokenTxs)
      /\ below = 0 => stack' = <<>>
      /\ below # 0 => DOMAIN stack' = 1 .. below
      /\ \A i \in 1 .. below :
           stack'[i].list = IF i = below THEN stack[i].list \o rest ELSE stack[i].list
  BY ReturnStep, Zenon
<1>2. /\ IF Top.action THEN actions' = Append(actions, ActionInfo(Top)) ELSE actions' = actions
      /\ ActionInfo(Top) \in ActionInfos /\ ActionInfo(Top).tx = tx /\ ActionInfo(Top).list = Top.list
      /\ below # 0 => UNCHANGED <<tx, transferIndex, others>>
  BY ReturnRest, Zenon
<1>3. CASE below = 0
  BY <1>1, <1>3, Zenon
<1>4. CASE below # 0
  <2>1. /\ below \in 1 .. below /\ n \in DOMAIN stack
        /\ \A i \in DOMAIN stack : i \in 1 .. below \/ i = n
        /\ \A i \in 1 .. below : i \in DOMAIN stack
    <3>1. below = n - 1
      BY Zenon
    <3> HIDE DEF n, below
    <3> QED BY <1>t, <1>1, <1>4, <3>1
  <2> HIDE DEF n, below
  <2> SUFFICES ASSUME NEW m PROVE Held(m)' <=> Held(m)
    BY <1>1, <1>2, <1>4, Zenon DEF TakesNone
  <2> DEFINE acts == \E k \in DOMAIN actions : actions[k].tx = tx /\ Has(actions[k].list, m)
             acts2 == \E k \in DOMAIN actions' : actions'[k].tx = tx /\ Has(actions'[k].list, m)
             deep == \E i \in 1 .. below : Has(stack[i].list, m)
  <2>2. Held(m) <=> acts \/ deep \/ Has(Top.list, m)
    BY <1>1, <2>1, Zenon DEF Held
  <2>3. DOMAIN stack' = 1 .. below /\ tx' = tx
    BY <1>1, <1>2, <1>4, Zenon
  <2>4. Held(m)' <=> acts2 \/ \E i \in 1 .. below : Has(stack'[i].list, m)
    BY <2>3, Zenon DEF Held
  <2>5. (\E i \in 1 .. below : Has(stack'[i].list, m)) <=> deep \/ Has(rest, m)
    <3>1. Has(stack'[below].list, m) <=> Has(stack[below].list, m) \/ Has(rest, m)
      <4>1. stack'[below].list = stack[below].list \o rest /\ stack[below].list \in Seq(TokenTxs)
        BY <1>t, <1>1, <2>1, Zenon
      <4>2. rest \in Seq(TokenTxs)
        BY <1>1, Zenon
      <4> HIDE DEF rest
      <4>3. Has(stack[below].list \o rest, m) <=> Has(stack[below].list, m) \/ Has(rest, m)
        BY <4>1, <4>2, HasConcat
      <4> QED BY <4>1, <4>3, Zenon
    <3>2. \A i \in 1 .. below : i # below => stack'[i].list = stack[i].list
      BY <1>1, Zenon
    <3> QED BY <2>1, <3>1, <3>2, Zenon
  <2>6. acts2 \/ Has(rest, m) <=> acts \/ Has(Top.list, m)
    <3>1. CASE ~Top.action
      BY <1>2, <3>1, Zenon
    <3>2. CASE Top.action
      <4>1. ~Has(rest, m)
        <5>1. rest = <<>> /\ \A i \in DOMAIN <<>> : FALSE
          BY <3>2
        <5> QED BY <5>1, Zenon DEF Has
      <4> DEFINE info == ActionInfo(Top)
      <4>2. info \in ActionInfos /\ info.tx = tx /\ info.list = Top.list /\ actions' = Append(actions, info)
        BY <1>2, <3>2, Zenon
      <4> HIDE DEF info
      <4>3. /\ actions'[Len(actions) + 1] = info /\ DOMAIN actions' = 1 .. Len(actions) + 1
            /\ \A k \in 1 .. Len(actions) : actions'[k] = actions[k]
        BY <1>t, <4>2, SeqAppend
      <4>4. /\ \A k \in DOMAIN actions' : k \in DOMAIN actions \/ k = Len(actions) + 1
            /\ \A k \in DOMAIN actions : k \in DOMAIN actions'
            /\ Len(actions) + 1 \in DOMAIN actions'
        BY <1>t, <4>3
      <4>5. acts2 <=> acts \/ Has(Top.list, m)
        <5>1. acts => acts2
          BY <1>t, <4>3, <4>4, Zenon
        <5>2. Has(Top.list, m) => acts2
          BY <4>2, <4>3, <4>4, Zenon
        <5>3. acts2 => acts \/ Has(Top.list, m)
          BY <1>t, <4>2, <4>3, <4>4, Zenon
        <5> QED BY <5>1, <5>2, <5>3, Zenon
      <4> QED BY <4>1, <4>5, Zenon
    <3> QED BY <3>1, <3>2, Zenon
  <2> HIDE DEF acts, acts2, deep
  <2> QED BY <2>2, <2>4, <2>5, <2>6, Zenon
<1> QED BY <1>3, <1>4, Zenon

\* Any other event takes an index for no transfer.
LEMMA OtherTakes == ASSUME Base, OtherEvent PROVE TakesNone
<1>1. /\ stack # <<>> /\ UNCHANGED <<tx, actions>> /\ DOMAIN stack' = DOMAIN stack
      /\ \A i \in DOMAIN stack : stack'[i].list = stack[i].list
      /\ transferIndex' = transferIndex + 1 /\ others' = others + 1
  BY OtherStep, Zenon
<1>2. \A m : Held(m)' <=> Held(m)
  BY <1>1, Zenon DEF Held
<1> QED BY <1>1, <1>2, Zenon DEF TakesNone

-----------------------------------------------------------------------------
(* The places of the transfers.                                              *)

\* the places of the lists of the transaction, as TransferInOnePlace numbers them, and
\* the places in these lists
ListAt(p) == IF p > 0 THEN stack[p].list ELSE actions[-p].list
Places == DOMAIN stack \union {-k : k \in ActionsOfTx}
InLists == UNION {{p} \X DOMAIN ListAt(p) : p \in Places}
IndexAt(x) == ListAt(x[1])[x[2]].index

\* Positions stand for the frames of the stack, negative ones for the actions of the
\* transaction.
LEMMA PlaceOfList ==
  ASSUME Base
  PROVE  /\ \A p \in Places :
              \/ p \in DOMAIN stack /\ ListAt(p) = stack[p].list
              \/ -p \in ActionsOfTx /\ ListAt(p) = actions[-p].list /\ p < 0
         /\ \A i \in DOMAIN stack : i \in Places /\ ListAt(i) = stack[i].list
         /\ \A k \in ActionsOfTx : -k \in Places /\ ListAt(-k) = actions[k].list
         /\ \A x \in InLists :
              x[1] \in Places /\ x[2] \in DOMAIN ListAt(x[1]) /\ x = <<x[1], x[2]>>
         /\ \A p \in Places : \A j \in DOMAIN ListAt(p) : <<p, j>> \in InLists
<1>t. /\ transferIndex \in Nat /\ DOMAIN stack = 1 .. Len(stack) /\ DOMAIN actions = 1 .. Len(actions)
      /\ Len(stack) \in Nat /\ Len(actions) \in Nat
      /\ \A i \in DOMAIN stack : stack[i].list \in Seq(TokenTxs)
      /\ \A k \in DOMAIN actions : actions[k].list \in Seq(TokenTxs)
  BY ListTypes, Zenon
<1>1. ASSUME NEW p \in Places
      PROVE  \/ p \in DOMAIN stack /\ ListAt(p) = stack[p].list
             \/ -p \in ActionsOfTx /\ ListAt(p) = actions[-p].list /\ p < 0
  <2>1. CASE p \in DOMAIN stack
    BY <1>t, <2>1 DEF ListAt
  <2>2. CASE p \notin DOMAIN stack
    <3>1. PICK k \in ActionsOfTx : p = -k
      BY <2>2, Zenon DEF Places
    <3>2. k \in 1 .. Len(actions)
      BY <1>t, Zenon DEF ActionsOfTx
    <3>3. -p = k /\ ~(p > 0) /\ p < 0
      BY <1>t, <3>1, <3>2
    <3> QED BY <3>1, <3>3, Zenon DEF ListAt
  <2> QED BY <2>1, <2>2, Zenon
<1>2. /\ \A i \in DOMAIN stack : i \in Places /\ ListAt(i) = stack[i].list
      /\ \A k \in ActionsOfTx : -k \in Places /\ ListAt(-k) = actions[k].list
  <2>1. \A i \in DOMAIN stack : i > 0
    BY <1>t
  <2>2. \A k \in ActionsOfTx : ~(-k > 0) /\ -(-k) = k
    BY <1>t DEF ActionsOfTx
  <2> QED BY <2>1, <2>2, Zenon DEF Places, ListAt
<1>3. /\ \A x \in InLists :
            x[1] \in Places /\ x[2] \in DOMAIN ListAt(x[1]) /\ x = <<x[1], x[2]>>
      /\ \A p \in Places : \A j \in DOMAIN ListAt(p) : <<p, j>> \in InLists
  BY DEF InLists
<1> QED BY <1>1, <1>2, <1>3, Zenon

\* Every list is in order and under the next index, and two lists share no index.
LEMMA ListsApart ==
  ASSUME Base, Pending, Finished
  PROVE  /\ \A p \in Places :
              ListAt(p) \in Seq(TokenTxs) /\ Sorted(ListAt(p)) /\ Under(ListAt(p), transferIndex)
         /\ \A p, q \in Places : p # q => Apart(ListAt(p), ListAt(q))
<1>t. /\ transferIndex \in Nat /\ DOMAIN stack = 1 .. Len(stack) /\ DOMAIN actions = 1 .. Len(actions)
      /\ Len(stack) \in Nat /\ Len(actions) \in Nat
      /\ \A i \in DOMAIN stack : stack[i].list \in Seq(TokenTxs)
      /\ \A k \in DOMAIN actions : actions[k].list \in Seq(TokenTxs)
  BY ListTypes, Zenon
<1>1. \A p \in Places :
        \/ p \in DOMAIN stack /\ ListAt(p) = stack[p].list
        \/ -p \in ActionsOfTx /\ ListAt(p) = actions[-p].list /\ p < 0
  BY PlaceOfList, Zenon
<1>2. /\ \A i \in DOMAIN stack : i \in Places /\ ListAt(i) = stack[i].list
      /\ \A k \in ActionsOfTx : -k \in Places /\ ListAt(-k) = actions[k].list
  BY PlaceOfList, Zenon
<1>3. ASSUME NEW p \in Places
      PROVE  ListAt(p) \in Seq(TokenTxs) /\ Sorted(ListAt(p)) /\ Under(ListAt(p), transferIndex)
  BY <1>t, <1>1, Zenon DEF ActionsOfTx, Pending, Finished
<1>4. ASSUME NEW p \in Places, NEW q \in Places, p # q PROVE Apart(ListAt(p), ListAt(q))
  <2>0. ASSUME NEW r, NEW s, Apart(r, s) PROVE Apart(s, r)
    BY <2>0, Zenon DEF Apart
  <2>1. CASE p \in DOMAIN stack /\ q \in DOMAIN stack
    <3>0. ListAt(p) = stack[p].list /\ ListAt(q) = stack[q].list
      BY <1>2, <2>1, Zenon
    <3>1. ASSUME NEW i \in DOMAIN stack, NEW j \in DOMAIN stack, i < j
          PROVE  Apart(stack[i].list, stack[j].list)
      <4> SUFFICES ASSUME NEW a \in DOMAIN stack[i].list, NEW b \in DOMAIN stack[j].list
                   PROVE  stack[i].list[a].index # stack[j].list[b].index
        BY Zenon DEF Apart
      <4>1. stack[i].list[a].index < stack[j].list[b].index
        BY <3>1, Zenon DEF Pending, Below
      <4>2. stack[i].list[a].index \in Nat /\ stack[j].list[b].index \in Nat
        BY <1>t, TransferIndex, Zenon
      <4> QED BY <4>1, <4>2
    <3>2. p < q \/ q < p
      BY <1>t, <1>4, <2>1
    <3> QED BY <2>0, <2>1, <3>0, <3>1, <3>2, Zenon
  <2>2. CASE p \in DOMAIN stack /\ q \notin DOMAIN stack
    <3>1. /\ ListAt(p) = stack[p].list /\ -q \in ActionsOfTx /\ ListAt(q) = actions[-q].list
      BY <1>1, <1>2, <2>2, Zenon
    <3>2. Apart(actions[-q].list, stack[p].list)
      BY <2>2, <3>1, Zenon DEF Pending, ActionsOfTx
    <3> QED BY <2>0, <3>1, <3>2, Zenon
  <2>3. CASE p \notin DOMAIN stack /\ q \in DOMAIN stack
    <3>1. /\ ListAt(q) = stack[q].list /\ -p \in ActionsOfTx /\ ListAt(p) = actions[-p].list
      BY <1>1, <1>2, <2>3, Zenon
    <3>2. Apart(actions[-p].list, stack[q].list)
      BY <2>3, <3>1, Zenon DEF Pending, ActionsOfTx
    <3> QED BY <3>1, <3>2, Zenon
  <2>4. CASE p \notin DOMAIN stack /\ q \notin DOMAIN stack
    <3>1. /\ -p \in ActionsOfTx /\ ListAt(p) = actions[-p].list
          /\ -q \in ActionsOfTx /\ ListAt(q) = actions[-q].list
      BY <1>1, <2>4, Zenon
    <3>2. p \in Int /\ q \in Int
      <4>1. \A k \in ActionsOfTx : k \in Nat
        BY <1>t DEF ActionsOfTx
      <4> QED BY <2>4, <4>1 DEF Places
    <3>3. -p # -q
      BY <1>4, <3>2
    <3>4. Apart(actions[-p].list, actions[-q].list)
      BY <3>1, <3>3, Zenon DEF Finished, ActionsOfTx
    <3> QED BY <3>1, <3>4, Zenon
  <2> QED BY <2>1, <2>2, <2>3, <2>4, Zenon
<1> QED BY <1>3, <1>4, Zenon

\* Different places have different indices, and the indices of the places are those taken.
LEMMA PlacesMatchIndices ==
  ASSUME Base, Pending, Finished
  PROVE  /\ \A x, y \in InLists : IndexAt(x) = IndexAt(y) => x = y
         /\ \A x \in InLists : IndexAt(x) \in Taken
         /\ \A m \in Taken : \E x \in InLists : IndexAt(x) = m
<1>t. /\ transferIndex \in Nat /\ DOMAIN stack = 1 .. Len(stack) /\ DOMAIN actions = 1 .. Len(actions)
      /\ Len(stack) \in Nat /\ Len(actions) \in Nat
      /\ \A i \in DOMAIN stack : stack[i].list \in Seq(TokenTxs)
      /\ \A k \in DOMAIN actions : actions[k].list \in Seq(TokenTxs)
  BY ListTypes, Zenon
<1>1. \A p \in Places :
        \/ p \in DOMAIN stack /\ ListAt(p) = stack[p].list
        \/ -p \in ActionsOfTx /\ ListAt(p) = actions[-p].list /\ p < 0
  BY PlaceOfList, Zenon
<1>2. /\ \A i \in DOMAIN stack : i \in Places /\ ListAt(i) = stack[i].list
      /\ \A k \in ActionsOfTx : -k \in Places /\ ListAt(-k) = actions[k].list
  BY PlaceOfList, Zenon
<1>3. \A p \in Places :
        ListAt(p) \in Seq(TokenTxs) /\ Sorted(ListAt(p)) /\ Under(ListAt(p), transferIndex)
  BY ListsApart, Zenon
<1>4. \A p, q \in Places : p # q => Apart(ListAt(p), ListAt(q))
  BY ListsApart, Zenon
<1>5. /\ \A x \in InLists : x[1] \in Places /\ x[2] \in DOMAIN ListAt(x[1]) /\ x = <<x[1], x[2]>>
      /\ \A p \in Places : \A j \in DOMAIN ListAt(p) : <<p, j>> \in InLists
  BY PlaceOfList, Zenon
<1>6. ASSUME NEW x \in InLists, NEW y \in InLists, IndexAt(x) = IndexAt(y) PROVE x = y
  <2>0. /\ x[1] \in Places /\ x[2] \in DOMAIN ListAt(x[1]) /\ x = <<x[1], x[2]>>
        /\ y[1] \in Places /\ y[2] \in DOMAIN ListAt(y[1]) /\ y = <<y[1], y[2]>>
    BY <1>5, Zenon
  <2>1. x[1] = y[1]
    BY <1>4, <1>6, <2>0, Zenon DEF Apart, IndexAt
  <2>2. x[2] = y[2]
    <3> DEFINE l == ListAt(x[1])
    <3>1. l \in Seq(TokenTxs) /\ Sorted(l) /\ x[2] \in DOMAIN l /\ y[2] \in DOMAIN l
      BY <1>3, <2>0, <2>1, Zenon
    <3>2. l[x[2]].index = l[y[2]].index
      BY <1>6, <2>1, Zenon DEF IndexAt
    <3> HIDE DEF l
    <3>3. l[x[2]].index \in Nat /\ l[y[2]].index \in Nat
      BY <3>1, TransferIndex, Zenon
    <3>4. x[2] \in Nat /\ y[2] \in Nat
      BY <3>1, SeqDomain
    <3>5. ~(x[2] < y[2]) /\ ~(y[2] < x[2])
      BY <3>1, <3>2, <3>3 DEF Sorted
    <3> QED BY <3>4, <3>5
  <2> QED BY <2>0, <2>1, <2>2, Zenon
<1>7. ASSUME NEW x \in InLists PROVE IndexAt(x) \in Taken
  <2>0. x[1] \in Places /\ x[2] \in DOMAIN ListAt(x[1])
    BY <1>5, Zenon
  <2>1. IndexAt(x) \in 0 .. transferIndex
    <3>1. IndexAt(x) < transferIndex
      BY <1>3, <2>0, Zenon DEF Under, IndexAt
    <3>2. IndexAt(x) \in Nat
      BY <1>3, <2>0, TransferIndex, Zenon DEF IndexAt
    <3> QED BY <1>t, <3>1, <3>2
  <2>2. Held(IndexAt(x))
    <3>1. Has(ListAt(x[1]), IndexAt(x))
      BY <2>0, Zenon DEF Has, IndexAt
    <3> QED BY <1>1, <2>0, <3>1, Zenon DEF Held, ActionsOfTx
  <2> QED BY <2>1, <2>2, Zenon DEF Taken
<1>8. ASSUME NEW m \in Taken PROVE \E x \in InLists : IndexAt(x) = m
  <2>1. \E p \in Places : Has(ListAt(p), m)
    BY <1>2, Zenon DEF Taken, Held, ActionsOfTx
  <2>a. PICK p \in Places : Has(ListAt(p), m)
    BY <2>1, Zenon
  <2>2. PICK j \in DOMAIN ListAt(p) : ListAt(p)[j].index = m
    BY <2>a, Zenon DEF Has
  <2>3. <<p, j>> \in InLists /\ IndexAt(<<p, j>>) = m
    BY <1>5, <2>2, Zenon DEF IndexAt
  <2> QED BY <2>3, Zenon
<1> QED BY <1>6, <1>7, <1>8, Zenon

\* What a step does to the indices taken: a transaction starts or ends, or the step takes
\* the next index for a transfer, or none, or one for another event.
Took ==
  \/ stack' = <<>>
  \/ /\ others' = 0
     /\ \/ transferIndex' = 1 /\ Taken' = {0}
        \/ transferIndex' = 0 /\ Taken' = {}
  \/ /\ stack # <<>> /\ UNCHANGED others
     /\ transferIndex' = transferIndex + 1 /\ Taken' = Taken \union {transferIndex}
  \/ /\ stack # <<>> /\ Taken' = Taken
     /\ \/ UNCHANGED <<others, transferIndex>>
        \/ others' = others + 1 /\ transferIndex' = transferIndex + 1

\* The same for the set of indices taken.
LEMMA TakesTook == ASSUME Base, Pending, Finished, TakesNext \/ TakesNone PROVE Took
<1>t. transferIndex \in Nat
  BY ListTypes, Zenon
<1>1. ~Held(transferIndex + 1)
  BY <1>t, NotYetHeld
<1>2. CASE TakesNext
  <2>1. /\ stack # <<>> /\ UNCHANGED others /\ transferIndex' = transferIndex + 1
        /\ \A m \in Nat : Held(m)' <=> (Held(m) \/ m = transferIndex)
    BY <1>2, Zenon DEF TakesNext
  <2>2. Taken' = {m \in 0 .. transferIndex + 1 : Held(m) \/ m = transferIndex}
    BY <1>t, <2>1 DEF Taken
  <2>3. Taken' = Taken \union {transferIndex}
    BY <1>t, <1>1, <2>1, <2>2 DEF Taken
  <2> QED BY <2>1, <2>3, Zenon DEF Took
<1>3. CASE TakesNone
  <2>1. /\ stack # <<>>
        /\ \/ UNCHANGED <<others, transferIndex>>
           \/ others' = others + 1 /\ transferIndex' = transferIndex + 1
        /\ \A m \in Nat : Held(m)' <=> Held(m)
    BY <1>3, Zenon DEF TakesNone
  <2>2. Taken' = {m \in 0 .. transferIndex' : Held(m)}
    BY <1>t, <2>1 DEF Taken
  <2>3. Taken' = Taken
    BY <1>t, <1>1, <2>1, <2>2 DEF Taken
  <2> QED BY <2>1, <2>3, Zenon DEF Took
<1> QED BY <1>2, <1>3, Zenon

\* Every action does one of these.
LEMMA NextTook == Base /\ Pending /\ Finished /\ [Next]_vars => Took
<1> SUFFICES ASSUME Base, Pending, Finished, [Next]_vars PROVE Took
  BY Zenon
<1>1. CASE \E sender \in Senders, c \in Calls : LoadTx(sender, c)
  BY <1>1, LoadTakes, Zenon DEF Took
<1>2. CASE \E c \in Calls : Child(c)
  BY <1>2, ChildTakes, TakesTook, Zenon
<1>3. CASE \E e \in Events : TransferEvent(e)
  BY <1>3, TransferTakes, TakesTook, Zenon
<1>4. CASE Return
  <2>1. stack' = <<>> => Took
    BY Zenon DEF Took
  <2> QED BY <1>4, <2>1, ReturnTakes, TakesTook, Zenon
<1>5. CASE OtherEvent
  BY <1>5, OtherTakes, TakesTook, Zenon
<1>6. CASE \/ SkipFile \/ LoadEmptyTx \/ StartStake \/ NextStakeFile \/ UpdateCommonAddressMap
           \/ \E e \in Events : StakeEvent(e)
           \/ \E i \in todo : ExtractAction(i)
           \/ UNCHANGED vars
  <2>1. UNCHANGED <<tx, stack, transferIndex, others, actions>>
    BY <1>6, Zenon DEF SkipFile, LoadEmptyTx, StartStake, NextStakeFile, UpdateCommonAddressMap, StakeEvent,
       ExtractAction, vars, walkVars
  <2>2. Taken' = Taken
    BY <2>1, Zenon DEF Taken, Held
  <2> QED BY <2>1, <2>2, Zenon DEF Took
<1> QED BY <1>1, <1>2, <1>3, <1>4, <1>5, <1>6, Zenon DEF Next

\* The counters stay numbers, which the last part shows.
CountsNat == \A list \in Seq(TokenTxs) : CountAfter(list) \in [Addresses -> Nat]

\* A return keeps the basic invariant.
LEMMA ReturnBase == ASSUME Base, Return, CountsNat PROVE Base'
<1>t. FileTypes /\ WalkTypes /\ ActionTypes /\ ExtractTypes /\ SinceType /\ managers \subseteq Addresses
  BY TypeParts, Zenon DEF Base
<1>1. /\ stack # <<>> /\ tx \in Txs /\ Top.list \in Seq(TokenTxs) /\ stack' \in Seq(Frames)
      /\ (Len(stack) - 1 = 0 => stack' = <<>>)
      /\ (Len(stack) - 1 # 0 => stack' # <<>>)
  BY ReturnStep, Zenon
<1>2. /\ IF Top.action
         THEN actions' = Append(actions, ActionInfo(Top)) /\ count' = CountAfter(Top.list)
         ELSE UNCHANGED <<actions, count>>
      /\ ActionInfo(Top) \in ActionInfos
      /\ IF Len(stack) - 1 = 0
         THEN tx' = NoTx /\ file' = file + 1 /\ transferIndex' = 0 /\ calls' = 0 /\ others' = 0
         ELSE UNCHANGED <<tx, file, transferIndex, calls, others>>
      /\ UNCHANGED <<phase, usedTxs, userSuppliedAddress, proxyRelatedAddress, managers, since,
                     extractVars>>
  BY ReturnRest, Zenon
<1>3. UNCHANGED <<common, todo, userTokenTx, relatedToken>>
  BY <1>2, Zenon DEF extractVars
<1>4. ActionTypes' /\ DOMAIN actions \subseteq DOMAIN actions'
  <2>1. CASE Top.action
    <3>1. count' \in [Addresses -> Nat]
      BY <1>t, <1>1, <1>2, <2>1, Zenon DEF CountsNat
    <3>2. actions' \in Seq(ActionInfos) /\ DOMAIN actions \subseteq DOMAIN actions'
      <4> DEFINE info == ActionInfo(Top)
      <4>1. actions \in Seq(ActionInfos) /\ info \in ActionInfos /\ actions' = Append(actions, info)
        BY <1>t, <1>2, <2>1, Zenon DEF ActionTypes
      <4> HIDE DEF info
      <4>2. actions' \in Seq(ActionInfos) /\ Len(actions') = Len(actions) + 1
        BY <4>1, SeqAppend, Zenon
      <4>3. /\ DOMAIN actions = 1 .. Len(actions) /\ Len(actions) \in Nat
            /\ DOMAIN actions' = 1 .. Len(actions')
        BY <4>1, <4>2, SeqDomain, Zenon
      <4>4. 1 .. Len(actions) \subseteq 1 .. Len(actions) + 1
        BY <4>3
      <4> QED BY <4>2, <4>3, <4>4, Zenon
    <3> QED BY <3>1, <3>2, Zenon DEF ActionTypes
  <2>2. CASE ~Top.action
    BY <1>t, <1>2, <2>2, Zenon DEF ActionTypes
  <2> QED BY <2>1, <2>2, Zenon
<1>5. ExtractTypes' /\ SinceType' /\ managers' \subseteq Addresses
  BY <1>t, <1>2, <1>3, <1>4, Zenon DEF ExtractTypes, SinceType
<1>6. FileTypes' /\ file' \in Nat \ {0}
  BY <1>t, <1>2 DEF FileTypes, Base, Walk
<1>7. NoTx \notin Txs
  BY ExtractorAssumption, Zenon
<1>8. WalkTypes'
  <2>1. CASE Len(stack) - 1 = 0
    BY <1>t, <1>1, <1>2, <2>1 DEF WalkTypes
  <2>2. CASE Len(stack) - 1 # 0
    BY <1>t, <1>1, <1>2, <1>7, <2>2, Zenon DEF WalkTypes
  <2> QED BY <2>1, <2>2, Zenon
<1>9. Walk'
  <2>1. CASE Len(stack) - 1 = 0
    BY <1>1, <1>2, <1>3, <1>6, <2>1, Zenon DEF Base, Walk
  <2>2. CASE Len(stack) - 1 # 0
    BY <1>1, <1>2, <1>3, <1>6, <2>2, Zenon DEF Base, Walk
  <2> QED BY <2>1, <2>2, Zenon
<1> QED BY <1>4, <1>5, <1>6, <1>8, <1>9, TypePartsNext, Zenon DEF Base

-----------------------------------------------------------------------------
(* The least position, for claims about every position.                      *)

W == INSTANCE WellFoundedInduction

-----------------------------------------------------------------------------
(* Selecting from a list.                                                   *)

\* A set of numbers has a least one.
LEMMA Least ==
  ASSUME NEW T, T \subseteq Nat, T # {}
  PROVE  \E m \in T : \A i \in T : m <= i
<1> DEFINE R == W!OpToRel(<, Nat)
<1>1. PICK m \in T : \A y \in T : ~(<<y, m>> \in R)
  <2> HIDE DEF R
  <2> QED BY W!WFMin, W!NatLessThanWellFounded, Zenon DEF R
<1>2. ASSUME NEW y \in T PROVE m <= y
  <2>1. y \in Nat /\ m \in Nat
    BY Zenon
  <2>2. y < m => <<y, m>> \in R
    BY <2>1, Zenon DEF W!OpToRel
  <2>3. ~(y < m)
    BY <1>1, <2>2, Zenon
  <2> QED BY <2>1, <2>3
<1> QED BY <1>2, Zenon

\* one round of Select
Selected(list, wanted, i, before) ==
  IF list[i] \in wanted THEN Append(before, list[i]) ELSE before

\* the equation of upTo, for the first n entries
SelectEq(list, wanted, n, f) ==
  f = [i \in 0 .. n |-> IF i = 0 THEN <<>> ELSE Selected(list, wanted, i, f[i - 1])]

\* upTo is defined: there is a function as its equation says, since a shortest prefix of the
\* list without one would have a predecessor with one.
LEMMA SelectExists ==
  ASSUME NEW S, NEW list \in Seq(S), NEW wanted
  PROVE  \E f : SelectEq(list, wanted, Len(list), f)
<1> DEFINE Bad == {n \in 0 .. Len(list) : \A f : ~SelectEq(list, wanted, n, f)}
<1>1. SUFFICES Bad = {}
  BY SeqDomain
<1>2. SUFFICES ASSUME Bad # {} PROVE FALSE
  BY Zenon
<1>3. PICK m \in Bad : \A i \in Bad : m <= i
  <2> HIDE DEF Bad
  <2>1. Bad \subseteq Nat
    BY DEF Bad
  <2> QED BY <1>2, <2>1, Least, Zenon
<1>4. m \in Nat /\ m <= Len(list) /\ \A f : ~SelectEq(list, wanted, m, f)
  OBVIOUS
<1>5. CASE m = 0
  <2> DEFINE g == [i \in 0 .. 0 |-> <<>>]
  <2>1. SelectEq(list, wanted, 0, g)
    BY DEF SelectEq
  <2> QED BY <1>4, <1>5, <2>1, Zenon
<1>6. CASE m # 0
  <2>1. m - 1 \in 0 .. Len(list) /\ ~(m <= m - 1)
    BY <1>4, <1>6
  <2>a. m - 1 \notin Bad
    BY <1>3, <2>1, Zenon
  <2>2. PICK f : SelectEq(list, wanted, m - 1, f)
    BY <2>1, <2>a, Zenon
  <2> DEFINE g == [i \in 0 .. m |-> IF i = m THEN Selected(list, wanted, m, f[m - 1]) ELSE f[i]]
  <2>3. ASSUME NEW i \in 0 .. m
        PROVE  g[i] = IF i = 0 THEN <<>> ELSE Selected(list, wanted, i, g[i - 1])
    <3>1. CASE i = m
      BY <1>4, <1>6, <3>1
    <3>2. CASE i # m
      <4>1. i \in 0 .. m - 1 /\ g[i] = f[i]
        BY <1>4, <3>2
      <4>2. f[i] = IF i = 0 THEN <<>> ELSE Selected(list, wanted, i, f[i - 1])
        BY <2>2, <4>1, Zenon DEF SelectEq
      <4>3. i # 0 => g[i - 1] = f[i - 1]
        BY <1>4, <3>2, <4>1
      <4> QED BY <4>1, <4>2, <4>3, Zenon
    <3> QED BY <3>1, <3>2, Zenon
  <2>4. SelectEq(list, wanted, m, g)
    <3> DEFINE h == [i \in 0 .. m |-> IF i = 0 THEN <<>> ELSE Selected(list, wanted, i, g[i - 1])]
    <3>1. \A i \in 0 .. m : g[i] = h[i]
      BY <2>3, Zenon
    <3>2. g = [i \in 0 .. m |-> g[i]] /\ h = [i \in 0 .. m |-> h[i]]
      OBVIOUS
    <3> HIDE DEF g, h
    <3>3. g = h
      BY <3>1, <3>2, Zenon
    <3> QED BY <3>3, Zenon DEF h, SelectEq
  <2> QED BY <1>4, <2>4, Zenon
<1> QED BY <1>5, <1>6, Zenon

\* What Select returns are entries of the list that are wanted, in their order: its i-th
\* one is at position at[i] of the list.
Picks(list, wanted, n, sel) ==
  \E at \in [1 .. Len(sel) -> 1 .. n] :
    /\ \A i \in 1 .. Len(sel) : sel[i] = list[at[i]] /\ sel[i] \in wanted
    /\ \A i, j \in 1 .. Len(sel) : i < j => at[i] < at[j]

\* What holds for the positions below n holds for n, by one step of the recursion.
LEMMA PicksNext ==
  ASSUME NEW S, NEW list \in Seq(S), NEW wanted, NEW n \in 1 .. Len(list),
         NEW before \in Seq(S), Picks(list, wanted, n - 1, before)
  PROVE  /\ Selected(list, wanted, n, before) \in Seq(S)
         /\ Picks(list, wanted, n, Selected(list, wanted, n, before))
<1>1. PICK at \in [1 .. Len(before) -> 1 .. n - 1] :
        /\ \A i \in 1 .. Len(before) : before[i] = list[at[i]] /\ before[i] \in wanted
        /\ \A i, j \in 1 .. Len(before) : i < j => at[i] < at[j]
  BY Zenon DEF Picks
<1>2. Len(list) \in Nat /\ n \in Nat /\ list[n] \in S /\ Len(before) \in Nat
  BY SeqDomain
<1>3. CASE list[n] \notin wanted
  <2>1. Selected(list, wanted, n, before) = before
    BY <1>3, Zenon DEF Selected
  <2>2. at \in [1 .. Len(before) -> 1 .. n]
    BY <1>1, <1>2
  <2>3. Picks(list, wanted, n, before)
    BY <1>1, <2>2, Zenon DEF Picks
  <2> QED BY <2>1, <2>3, Zenon
<1>4. CASE list[n] \in wanted
  <2> DEFINE sel == Append(before, list[n])
             pos == [i \in 1 .. Len(before) + 1 |-> IF i = Len(before) + 1 THEN n ELSE at[i]]
  <2>1. Selected(list, wanted, n, before) = sel
    BY <1>4, Zenon DEF Selected
  <2>2. /\ sel \in Seq(S) /\ Len(sel) = Len(before) + 1
        /\ \A j \in 1 .. Len(before) : sel[j] = before[j]
        /\ sel[Len(before) + 1] = list[n]
    BY <1>2, SeqAppend
  <2> HIDE DEF sel
  <2>3. pos \in [1 .. Len(before) + 1 -> 1 .. n]
    BY <1>1, <1>2
  <2>4. ASSUME NEW i \in 1 .. Len(before) + 1 PROVE sel[i] = list[pos[i]] /\ sel[i] \in wanted
    BY <1>1, <1>2, <1>4, <2>2
  <2>5. ASSUME NEW i \in 1 .. Len(before) + 1, NEW j \in 1 .. Len(before) + 1, i < j
        PROVE  pos[i] < pos[j]
    <3>1. i \in 1 .. Len(before) /\ pos[i] = at[i] /\ at[i] \in 1 .. n - 1
      BY <1>1, <1>2, <2>5
    <3>2. CASE j = Len(before) + 1
      BY <1>2, <3>1, <3>2
    <3>3. CASE j # Len(before) + 1
      <4>1. j \in 1 .. Len(before) /\ pos[j] = at[j]
        BY <1>2, <3>3
      <4>2. at[i] < at[j]
        BY <1>1, <2>5, <3>1, <4>1, Zenon
      <4> QED BY <3>1, <4>1, <4>2, Zenon
    <3> QED BY <3>2, <3>3, Zenon
  <2> HIDE DEF pos
  <2> QED BY <2>1, <2>2, <2>3, <2>4, <2>5, Zenon DEF Picks
<1> QED BY <1>3, <1>4, Zenon

\* Select returns the wanted entries, each from one position, in the order of the list.
LEMMA SelectPicks ==
  ASSUME NEW S, NEW list \in Seq(S), NEW wanted
  PROVE  /\ Select(list, wanted) \in Seq(S)
         /\ Picks(list, wanted, Len(list), Select(list, wanted))
<1> DEFINE upTo == CHOOSE f : SelectEq(list, wanted, Len(list), f)
<1>1. Select(list, wanted) = upTo[Len(list)]
  BY Zenon DEF Select, Selected, SelectEq
<1>2. SelectEq(list, wanted, Len(list), upTo)
  <2>1. \E f : SelectEq(list, wanted, Len(list), f)
    BY SelectExists, Zenon
  <2> QED BY <2>1, Zenon
<1> HIDE DEF upTo
<1>3. /\ upTo[0] = <<>> /\ Len(list) \in Nat
      /\ \A i \in 1 .. Len(list) : upTo[i] = Selected(list, wanted, i, upTo[i - 1])
  <2>1. Len(list) \in Nat
    BY SeqDomain, Zenon
  <2>2. \A i \in 0 .. Len(list) :
          upTo[i] = IF i = 0 THEN <<>> ELSE Selected(list, wanted, i, upTo[i - 1])
    BY <1>2, Zenon DEF SelectEq
  <2> QED BY <2>1, <2>2
<1> DEFINE Good(n) == upTo[n] \in Seq(S) /\ Picks(list, wanted, n, upTo[n])
           Bad == {n \in 0 .. Len(list) : ~Good(n)}
<1>4. SUFFICES ASSUME Bad # {} PROVE FALSE
  BY <1>1, <1>3
<1>5. PICK m \in Bad : \A i \in Bad : m <= i
  <2>1. Bad \subseteq Nat
    BY <1>3
  <2> HIDE DEF Bad
  <2> QED BY <1>4, <2>1, Least, Zenon
<1>6. m \in 0 .. Len(list) /\ ~Good(m)
  BY Zenon
<1>7. CASE m = 0
  <2>1. Len(upTo[0]) = 0 /\ upTo[0] \in Seq(S)
    BY <1>3
  <2> DEFINE at == [i \in 1 .. 0 |-> 0]
  <2>2. Picks(list, wanted, 0, upTo[0])
    BY <2>1 DEF Picks
  <2> QED BY <1>6, <1>7, <2>1, <2>2, Zenon
<1>8. CASE m # 0
  <2>1. m \in 1 .. Len(list) /\ m - 1 \in 0 .. Len(list) /\ ~(m <= m - 1)
    BY <1>3, <1>6, <1>8
  <2>2. Good(m - 1)
    BY <1>5, <2>1, Zenon
  <2>3. Good(m)
    <3>1. upTo[m] = Selected(list, wanted, m, upTo[m - 1])
      BY <1>3, <2>1, Zenon
    <3>2. /\ Selected(list, wanted, m, upTo[m - 1]) \in Seq(S)
          /\ Picks(list, wanted, m, Selected(list, wanted, m, upTo[m - 1]))
      BY <2>1, <2>2, PicksNext, Zenon
    <3> QED BY <3>1, <3>2, Zenon
  <2> QED BY <1>6, <2>3, Zenon
<1> QED BY <1>7, <1>8, Zenon

\* What the extraction of an action adds for a user: some transfers of the action, in
\* their order.
LEMMA UserTxsPicks ==
  ASSUME NEW a \in ActionInfos, NEW u
  PROVE  /\ UserTxs(a, u) \in Seq(TokenTxs)
         /\ Picks(a.list, {t \in Range(a.list) : Mine(a, u, t)}, Len(a.list), UserTxs(a, u))
<1>1. a.list \in Seq(TokenTxs)
  BY Zenon DEF ActionInfos
<1> QED BY <1>1, SelectPicks, Zenon DEF UserTxs

\* What extracting an action does: it appends, for each user, what UserTxs selects.
LEMMA ExtractStep ==
  ASSUME Base, NEW i \in todo, ExtractAction(i)
  PROVE  /\ phase = "extract" /\ i \in DOMAIN actions /\ actions[i] \in ActionInfos
         /\ todo' = todo \ {i}
         /\ \A u \in Addresses : userTokenTx'[u] = userTokenTx[u] \o UserTxs(actions[i], u)
         /\ userTokenTx' \in [Addresses -> Seq(TokenTxs)]
         /\ since' = UpdateUserRelatedMap(ActionPairs(actions[i]), BlockOf[actions[i].tx])
         /\ relatedToken' \subseteq relatedToken \union {t.token : t \in Range(actions[i].list)}
         /\ UNCHANGED <<phase, file, usedTxs, walkVars, managers, actions, count, common>>
<1>1. /\ phase = "extract" /\ todo' = todo \ {i}
      /\ userTokenTx' = [u \in Addresses |-> userTokenTx[u] \o UserTxs(actions[i], u)]
      /\ since' = UpdateUserRelatedMap(ActionPairs(actions[i]), BlockOf[actions[i].tx])
      /\ relatedToken' = relatedToken \union
           {t.token : t \in {d \in Range(actions[i].list) :
                              IsDeposit(actions[i], d) \/ IsWithdraw(actions[i], d)}}
      /\ UNCHANGED <<phase, file, usedTxs, walkVars, managers, actions, count, common>>
  BY Zenon DEF ExtractAction
<1>2. /\ i \in DOMAIN actions /\ actions[i] \in ActionInfos
      /\ userTokenTx \in [Addresses -> Seq(TokenTxs)]
  <2>1. /\ actions \in Seq(ActionInfos) /\ todo \subseteq DOMAIN actions
        /\ userTokenTx \in [Addresses -> Seq(TokenTxs)]
    BY TypeParts, Zenon DEF Base, ActionTypes, ExtractTypes
  <2>2. i \in DOMAIN actions /\ DOMAIN actions = 1 .. Len(actions)
    BY <2>1, SeqDomain, Zenon
  <2> QED BY <2>1, <2>2, SeqDomain, Zenon
<1>3. ASSUME NEW u \in Addresses
      PROVE  userTokenTx[u] \o UserTxs(actions[i], u) \in Seq(TokenTxs)
  <2>1. UserTxs(actions[i], u) \in Seq(TokenTxs)
    BY <1>2, UserTxsPicks, Zenon
  <2>2. userTokenTx[u] \in Seq(TokenTxs)
    BY <1>2, Zenon
  <2> QED BY <2>1, <2>2, SeqConcat, Zenon
<1>4. userTokenTx' \in [Addresses -> Seq(TokenTxs)]
  BY <1>1, <1>3, Zenon
<1>5. relatedToken' \subseteq relatedToken \union {t.token : t \in Range(actions[i].list)}
  BY <1>1, Zenon
<1>6. \A u \in Addresses : userTokenTx'[u] = userTokenTx[u] \o UserTxs(actions[i], u)
  BY <1>1, Zenon
<1> QED BY <1>1, <1>2, <1>4, <1>5, <1>6, Zenon

\* Extracting an action keeps the basic invariant.
LEMMA ExtractBase == ASSUME Base, NEW i \in todo, ExtractAction(i) PROVE Base'
<1>t. FileTypes /\ WalkTypes /\ ActionTypes /\ ExtractTypes /\ SinceType /\ managers \subseteq Addresses
  BY TypeParts, Zenon DEF Base
<1>1. /\ phase = "extract" /\ actions[i] \in ActionInfos
      /\ todo' = todo \ {i}
      /\ userTokenTx' \in [Addresses -> Seq(TokenTxs)]
      /\ since' = UpdateUserRelatedMap(ActionPairs(actions[i]), BlockOf[actions[i].tx])
      /\ relatedToken' \subseteq relatedToken \union {t.token : t \in Range(actions[i].list)}
      /\ UNCHANGED <<phase, file, usedTxs, walkVars, managers, actions, count, common>>
  BY ExtractStep, Zenon
<1>2. UNCHANGED <<tx, stack, userSuppliedAddress, proxyRelatedAddress, transferIndex, calls, others>>
  BY <1>1, Zenon DEF walkVars
<1>3. actions[i].tx \in Txs /\ actions[i].list \in Seq(TokenTxs)
  BY <1>1, Zenon DEF ActionInfos
<1>4. BlockOf[actions[i].tx] \in Nat
  BY <1>3, ExtractorAssumption, Zenon
<1>5. SinceType'
  BY <1>t, <1>1, <1>4, SinceUpdated, Zenon
<1>6. relatedToken' \subseteq Addresses
  <2>1. \A t \in Range(actions[i].list) : t \in TokenTxs
    BY <1>3, SeqDomain DEF Range
  <2>2. \A t \in Range(actions[i].list) : t.token \in Addresses
    BY <2>1, Zenon DEF TokenTxs
  <2> QED BY <1>t, <1>1, <2>2, Zenon DEF ExtractTypes
<1>7. FileTypes' /\ WalkTypes'
  BY <1>t, <1>1, <1>2, Zenon DEF FileTypes, WalkTypes
<1>8. ActionTypes' /\ ExtractTypes' /\ managers' \subseteq Addresses
  BY <1>t, <1>1, <1>6, Zenon DEF ActionTypes, ExtractTypes
<1>9. Walk'
  BY <1>1, <1>2, Zenon DEF Base, Walk
<1> QED BY <1>5, <1>7, <1>8, <1>9, TypePartsNext, Zenon DEF Base

\* What the extraction has listed for the users comes from the actions it has done.
Extracted ==
  \A u \in Addresses : \A i \in DOMAIN userTokenTx[u] :
    \E k \in DOMAIN actions \ todo : \E j \in DOMAIN actions[k].list :
      userTokenTx[u][i] = actions[k].list[j]

\* A transfer of an action is of at most one user, and it is listed once for that user:
\* it is a deposit or a withdrawal, never both.
LEMMA UserTxsOnce ==
  ASSUME NEW a \in ActionInfos, Sorted(a.list), NEW u, NEW v,
         NEW i \in DOMAIN UserTxs(a, u), NEW j \in DOMAIN UserTxs(a, v),
         UserTxs(a, u)[i].index = UserTxs(a, v)[j].index
  PROVE  /\ u = v /\ i = j
         /\ \E p \in DOMAIN a.list : UserTxs(a, u)[i] = a.list[p]
<1> DEFINE l == a.list
           n == Len(l)
           wanted(w) == {t \in Range(l) : Mine(a, w, t)}
           mine == UserTxs(a, u)
           other == UserTxs(a, v)
<1>1. /\ mine \in Seq(TokenTxs) /\ other \in Seq(TokenTxs) /\ l \in Seq(TokenTxs)
      /\ Picks(l, wanted(u), n, mine) /\ Picks(l, wanted(v), n, other)
  BY UserTxsPicks, Zenon DEF ActionInfos
<1>2. /\ DOMAIN l = 1 .. n /\ n \in Nat /\ \A p \in DOMAIN l : l[p].index \in Nat
      /\ i \in 1 .. Len(mine) /\ j \in 1 .. Len(other) /\ Len(mine) \in Nat /\ Len(other) \in Nat
  BY <1>1, SeqDomain, TransferIndex, Zenon
<1>3. ASSUME NEW p \in DOMAIN l, NEW q \in DOMAIN l, l[p].index = l[q].index PROVE p = q
  <2>1. Sorted(l)
    BY Zenon
  <2> HIDE DEF l, n
  <2>2. ~(p < q) /\ ~(q < p)
    BY <1>2, <1>3, <2>1 DEF Sorted
  <2>3. p \in Nat /\ q \in Nat
    BY <1>2
  <2> QED BY <2>2, <2>3
<1>4. \A t \in wanted(u) : Mine(a, u, t)
  BY Zenon
<1>5. \A t \in wanted(v) : Mine(a, v, t)
  BY Zenon
<1>6. mine[i].index = other[j].index
  BY Zenon
<1> HIDE DEF l, n, wanted, mine, other
<1>7. PICK at \in [1 .. Len(mine) -> 1 .. n] :
        /\ \A x \in 1 .. Len(mine) : mine[x] = l[at[x]] /\ mine[x] \in wanted(u)
        /\ \A x, y \in 1 .. Len(mine) : x < y => at[x] < at[y]
  BY <1>1, Zenon DEF Picks
<1>8. PICK to \in [1 .. Len(other) -> 1 .. n] :
        /\ \A x \in 1 .. Len(other) : other[x] = l[to[x]] /\ other[x] \in wanted(v)
  BY <1>1, Zenon DEF Picks
<1>9. at[i] \in 1 .. n /\ to[j] \in 1 .. n /\ mine[i] = l[at[i]] /\ other[j] = l[to[j]]
  BY <1>2, <1>7, <1>8, Zenon
<1>10. mine[i] = other[j]
  BY <1>2, <1>3, <1>6, <1>9, Zenon
<1>11. u = v
  <2>1. Mine(a, u, mine[i]) /\ Mine(a, v, mine[i])
    BY <1>2, <1>4, <1>5, <1>7, <1>8, <1>10, Zenon
  <2> QED BY <2>1, Zenon DEF Mine, IsWithdraw
<1>12. i = j
  <2>1. other = mine
    BY <1>11, Zenon DEF mine, other
  <2>2. j \in 1 .. Len(mine) /\ mine[j] = l[at[j]] /\ at[j] \in 1 .. n
    BY <1>2, <1>7, <2>1, Zenon
  <2>3. at[i] = at[j]
    BY <1>2, <1>3, <1>9, <1>10, <2>1, <2>2, Zenon
  <2>4. ~(i < j) /\ ~(j < i)
    BY <1>2, <1>7, <1>9, <2>2, <2>3
  <2> QED BY <1>2, <2>2, <2>4
<1> QED BY <1>2, <1>9, <1>11, <1>12, Zenon DEF l, mine

\* Where an entry of a user's list comes from when an action is extracted: it was there
\* before, or the action adds it.
LEMMA AddedEntry ==
  ASSUME Base, NEW k \in todo, ExtractAction(k), NEW u \in Addresses,
         NEW i \in DOMAIN userTokenTx'[u]
  PROVE  \/ /\ i \in DOMAIN userTokenTx[u] /\ i <= Len(userTokenTx[u])
            /\ userTokenTx'[u][i] = userTokenTx[u][i]
         \/ /\ i - Len(userTokenTx[u]) \in DOMAIN UserTxs(actions[k], u)
            /\ i > Len(userTokenTx[u])
            /\ userTokenTx'[u][i] = UserTxs(actions[k], u)[i - Len(userTokenTx[u])]
<1> DEFINE s == userTokenTx[u]
           t == UserTxs(actions[k], u)
<1>1. userTokenTx'[u] = s \o t
  BY ExtractStep, Zenon
<1>2. s \in Seq(TokenTxs) /\ t \in Seq(TokenTxs)
  BY ExtractStep, UserTxsPicks, TypeParts, Zenon DEF Base, ExtractTypes
<1> HIDE DEF s, t
<1>3. /\ i \in 1 .. Len(s) + Len(t) /\ DOMAIN s = 1 .. Len(s) /\ DOMAIN t = 1 .. Len(t)
      /\ Len(s) \in Nat /\ Len(t) \in Nat
      /\ (s \o t)[i] = IF i <= Len(s) THEN s[i] ELSE t[i - Len(s)]
  BY <1>1, <1>2, SeqConcat, SeqDomain
<1>4. \/ i \in DOMAIN s /\ i <= Len(s) /\ userTokenTx'[u][i] = s[i]
      \/ i - Len(s) \in DOMAIN t /\ i > Len(s) /\ userTokenTx'[u][i] = t[i - Len(s)]
  BY <1>1, <1>3
<1> QED BY <1>4, Zenon DEF s, t

\* Extracting an action adds transfers no user had, each once.
LEMMA ExtractCounted ==
  ASSUME Base, Finished, Extracted, CountedOnce, NEW k \in todo, ExtractAction(k)
  PROVE  Extracted' /\ CountedOnce'
<1> DEFINE old(u) == userTokenTx[u]
           new(u) == UserTxs(actions[k], u)
<1>1. /\ k \in DOMAIN actions /\ actions[k] \in ActionInfos /\ todo' = todo \ {k}
      /\ actions' = actions /\ Sorted(actions[k].list) /\ Tagged(actions[k].list, actions[k].tx)
  BY ExtractStep, Zenon DEF Finished
<1>2. ASSUME NEW u \in Addresses, NEW i \in DOMAIN new(u)
      PROVE  \E p \in DOMAIN actions[k].list : new(u)[i] = actions[k].list[p]
  BY <1>1, UserTxsOnce
<1>3. \A u \in Addresses : Len(old(u)) \in Nat /\ DOMAIN old(u) \subseteq Nat
  <2>1. \A u \in Addresses : old(u) \in Seq(TokenTxs)
    BY TypeParts, Zenon DEF Base, ExtractTypes
  <2> QED BY <2>1
<1>4. ASSUME NEW u \in Addresses, NEW i \in DOMAIN old(u), NEW v \in Addresses, NEW j \in DOMAIN new(v),
             old(u)[i].tx = new(v)[j].tx, old(u)[i].index = new(v)[j].index
      PROVE  FALSE
  <2>1. PICK l \in DOMAIN actions \ todo : \E q \in DOMAIN actions[l].list : old(u)[i] = actions[l].list[q]
    BY Zenon DEF Extracted
  <2>2. PICK q \in DOMAIN actions[l].list : old(u)[i] = actions[l].list[q]
    BY <2>1, Zenon
  <2>3. PICK p \in DOMAIN actions[k].list : new(v)[j] = actions[k].list[p]
    BY <1>2, Zenon
  <2>4. l \in DOMAIN actions /\ l # k /\ Tagged(actions[l].list, actions[l].tx)
    BY <1>1, <2>1, Zenon DEF Finished
  <2>5. actions[l].tx = actions[k].tx
    BY <1>1, <1>4, <2>2, <2>3, <2>4, Zenon DEF Tagged
  <2>6. Apart(actions[l].list, actions[k].list)
    BY <1>1, <2>4, <2>5, Zenon DEF Finished
  <2> QED BY <1>4, <2>2, <2>3, <2>6, Zenon DEF Apart
<1>5. Extracted'
  <2> SUFFICES ASSUME NEW u \in Addresses, NEW i \in DOMAIN userTokenTx'[u]
               PROVE  \E l \in DOMAIN actions \ (todo \ {k}) : \E j \in DOMAIN actions[l].list :
                        userTokenTx'[u][i] = actions[l].list[j]
    BY <1>1 DEF Extracted
  <2>1. CASE i \in DOMAIN old(u) /\ userTokenTx'[u][i] = old(u)[i]
    <3>1. PICK l \in DOMAIN actions \ todo : \E j \in DOMAIN actions[l].list : old(u)[i] = actions[l].list[j]
      BY <2>1, Zenon DEF Extracted
    <3> QED BY <2>1, <3>1, Zenon
  <2>2. CASE /\ i - Len(old(u)) \in DOMAIN new(u)
             /\ userTokenTx'[u][i] = new(u)[i - Len(old(u))]
    <3>1. PICK p \in DOMAIN actions[k].list : new(u)[i - Len(old(u))] = actions[k].list[p]
      BY <1>2, <2>2, Zenon
    <3> QED BY <1>1, <2>2, <3>1, Zenon
  <2> QED BY <2>1, <2>2, AddedEntry, Zenon
<1>6. CountedOnce'
  <2> SUFFICES ASSUME NEW u \in Addresses, NEW v \in Addresses,
                      NEW i \in DOMAIN userTokenTx'[u], NEW j \in DOMAIN userTokenTx'[v],
                      userTokenTx'[u][i].tx = userTokenTx'[v][j].tx,
                      userTokenTx'[u][i].index = userTokenTx'[v][j].index
               PROVE  u = v /\ i = j
    BY DEF CountedOnce
  <2> DEFINE x == i - Len(old(u))
             y == j - Len(old(v))
             isOld(w, m) == m \in DOMAIN old(w) /\ userTokenTx'[w][m] = old(w)[m]
  <2>1. isOld(u, i) \/ (x \in DOMAIN new(u) /\ i > Len(old(u)) /\ userTokenTx'[u][i] = new(u)[x])
    BY AddedEntry, Zenon
  <2>2. isOld(v, j) \/ (y \in DOMAIN new(v) /\ j > Len(old(v)) /\ userTokenTx'[v][j] = new(v)[y])
    BY AddedEntry, Zenon
  <2>3. CASE isOld(u, i) /\ isOld(v, j)
    BY <2>3 DEF CountedOnce
  <2>4. CASE isOld(u, i) /\ ~isOld(v, j)
    BY <1>4, <2>2, <2>4, Zenon
  <2>5. CASE ~isOld(u, i) /\ isOld(v, j)
    BY <1>4, <2>1, <2>5, Zenon
  <2>6. CASE ~isOld(u, i) /\ ~isOld(v, j)
    <3>1. /\ x \in DOMAIN new(u) /\ y \in DOMAIN new(v) /\ new(u)[x].index = new(v)[y].index
      BY <2>1, <2>2, <2>6, Zenon
    <3>2. u = v /\ x = y
      BY <1>1, <3>1, UserTxsOnce
    <3>3. i \in Int /\ j \in Int
      <4>1. /\ userTokenTx'[u] \in Seq(TokenTxs) /\ userTokenTx'[v] \in Seq(TokenTxs)
        BY ExtractStep, Zenon
      <4> QED BY <4>1
    <3> QED BY <1>3, <3>2, <3>3
  <2> QED BY <2>3, <2>4, <2>5, <2>6, Zenon
<1> QED BY <1>5, <1>6, Zenon

\* Before the extraction every user's list is empty, and afterwards nothing but the
\* extraction of an action changes it.
LEMMA NextCounted ==
  Base /\ Finished /\ Extracted /\ CountedOnce /\ [Next]_vars => (Extracted /\ CountedOnce)'
<1> SUFFICES ASSUME Base, Finished, Extracted, CountedOnce, [Next]_vars
             PROVE  Extracted' /\ CountedOnce'
  BY Zenon
<1>1. CASE \E k \in todo : ExtractAction(k)
  BY <1>1, ExtractCounted, Zenon
<1>2. CASE ~ \E k \in todo : ExtractAction(k)
  <2>1. UNCHANGED userTokenTx /\ (phase # "extract" \/ UNCHANGED <<actions, todo>>)
    <3>1. CASE \/ SkipFile \/ LoadEmptyTx \/ StartStake \/ NextStakeFile \/ UpdateCommonAddressMap
               \/ \E e \in Events : StakeEvent(e)
               \/ \E sender \in Senders, c \in Calls : LoadTx(sender, c)
      BY <3>1, Zenon DEF SkipFile, LoadEmptyTx, StartStake, NextStakeFile, UpdateCommonAddressMap,
         StakeEvent, LoadTx, extractVars
    <3>2. CASE \/ \E c \in Calls : Child(c)
               \/ \E e \in Events : TransferEvent(e)
               \/ OtherEvent \/ Return
      <4>1. UNCHANGED userTokenTx /\ stack # <<>>
        <5>1. CASE \E c \in Calls : Child(c)
          BY <5>1, Zenon DEF Child, extractVars
        <5>2. CASE \E e \in Events : TransferEvent(e)
          BY <5>2, Zenon DEF TransferEvent, MayLog, extractVars
        <5>3. CASE OtherEvent \/ Return
          BY <5>3, Zenon DEF OtherEvent, Return, MayLog, extractVars
        <5> QED BY <3>2, <5>1, <5>2, <5>3, Zenon
      <4> QED BY <4>1, Zenon DEF Base, Walk
    <3>3. CASE UNCHANGED vars
      BY <3>3, Zenon DEF vars, extractVars
    <3> QED BY <1>2, <3>1, <3>2, <3>3, Zenon DEF Next
  <2>2. CASE phase # "extract"
    <3>1. \A u \in Addresses : userTokenTx'[u] = <<>>
      BY <2>1, <2>2, Zenon DEF Base, Walk
    <3>2. \A u \in Addresses : DOMAIN userTokenTx'[u] = {}
      BY <3>1
    <3> QED BY <3>2, Zenon DEF Extracted, CountedOnce
  <2>3. CASE UNCHANGED <<actions, todo>>
    BY <2>1, <2>3 DEF Extracted, CountedOnce
  <2> QED BY <2>1, <2>2, <2>3, Zenon
<1> QED BY <1>1, <1>2, Zenon

\* Every action keeps the basic invariant, as long as the counters stay numbers.
LEMMA StepBase == Base /\ CountsNat /\ [Next]_vars => Base'
<1> SUFFICES ASSUME Base, CountsNat, [Next]_vars PROVE Base'
  BY Zenon
<1>1. CASE SkipFile \/ LoadEmptyTx \/ StartStake \/ NextStakeFile
  BY <1>1, FileBase, Zenon
<1>2. CASE \E sender \in Senders, c \in Calls : LoadTx(sender, c)
  BY <1>2, LoadTxBase, Zenon
<1>3. CASE \E c \in Calls : Child(c)
  BY <1>3, ChildBase, Zenon
<1>4. CASE \E e \in Events : TransferEvent(e) \/ StakeEvent(e)
  BY <1>4, TransferBase, StakeEventBase, Zenon
<1>5. CASE OtherEvent
  BY <1>5, OtherBase, Zenon
<1>6. CASE Return
  BY <1>6, ReturnBase, Zenon
<1>7. CASE UpdateCommonAddressMap
  BY <1>7, UpdateCommonBase, Zenon
<1>8. CASE \E i \in todo : ExtractAction(i)
  BY <1>8, ExtractBase, Zenon
<1>9. CASE UNCHANGED vars
  BY <1>9, Zenon DEF vars, walkVars, extractVars, Base, Walk, TypeOK
<1> QED BY <1>1, <1>2, <1>3, <1>4, <1>5, <1>6, <1>7, <1>8, <1>9, Zenon DEF Next

-----------------------------------------------------------------------------
(* Facts about finite sets and about the least position, for the rest.       *)

INSTANCE FiniteSetTheorems

\* The counters count finitely many transfers.
LEMMA CountType ==
  ASSUME count \in [Addresses -> Nat], NEW list \in Seq(TokenTxs)
  PROVE  CountAfter(list) \in [Addresses -> Nat]
<1> DEFINE some(a) == CountedTransfers(list, a)
           twice(a) == {i \in CountedTransfers(list, a) : list[i].sender = list[i].to}
<1>1. IsFiniteSet(1 .. Len(list)) /\ DOMAIN list = 1 .. Len(list)
  BY SeqDomain, FS_Interval
<1>2. ASSUME NEW a \in Addresses
      PROVE  Cardinality(some(a)) \in Nat /\ Cardinality(twice(a)) \in Nat
  <2>1. some(a) \subseteq 1 .. Len(list) /\ twice(a) \subseteq 1 .. Len(list)
    BY <1>1, Zenon DEF CountedTransfers
  <2> HIDE DEF some, twice
  <2>2. IsFiniteSet(some(a)) /\ IsFiniteSet(twice(a))
    BY <1>1, <2>1, FS_Subset, Zenon
  <2> QED BY <2>2, FS_CardinalityType, Zenon
<1>3. CountAfter(list) = [a \in Addresses |-> count[a] + Cardinality(some(a)) + Cardinality(twice(a))]
  BY Zenon DEF CountAfter
<1> HIDE DEF some, twice
<1> QED BY <1>2, <1>3

\* Every action keeps the basic invariant.
LEMMA NextBase == Base /\ [Next]_vars => Base'
<1>1. Base => count \in [Addresses -> Nat]
  BY TypeParts, Zenon DEF Base, ActionTypes
<1>2. Base => CountsNat
  BY <1>1, CountType, Zenon DEF CountsNat
<1> QED BY <1>2, StepBase, Zenon

\* The type invariant of the extractor.
THEOREM TypeCorrect == Spec => []TypeOK
<1>1. Base => TypeOK
  BY Zenon DEF Base
<1> QED
  BY <1>1, InitBase, NextBase, PTL DEF Spec

\* The next index is not taken yet, so taking it makes one more.
LEMMA TakenGrows ==
  ASSUME Base, Pending, Finished
  PROVE  /\ IsFiniteSet(Taken) /\ Cardinality(Taken) \in Nat /\ ~Held(transferIndex)
         /\ Cardinality(Taken \union {transferIndex}) = Cardinality(Taken) + 1
<1>t. transferIndex \in Nat
  BY ListTypes, Zenon
<1>1. IsFiniteSet(0 .. transferIndex)
  BY <1>t, FS_Interval
<1>2. IsFiniteSet(Taken)
  <2>1. Taken \subseteq 0 .. transferIndex
    BY Zenon DEF Taken
  <2> QED BY <1>1, <2>1, FS_Subset, Zenon
<1>4. ~Held(transferIndex)
  BY <1>t, NotYetHeld
<1>5. transferIndex \notin Taken
  BY <1>4, Zenon DEF Taken
<1> QED BY <1>2, <1>4, <1>5, FS_AddElement, FS_CardinalityType, Zenon

\* Every action keeps the indices taken for transfers or other events equal to the index.
LEMMA NextCount ==
  Base /\ Pending /\ Finished /\ NoneLost /\ [Next]_vars => NoneLost'
<1> SUFFICES ASSUME Base, Pending, Finished, NoneLost, [Next]_vars PROVE NoneLost'
  BY Zenon
<1>1. Took
  BY NextTook, Zenon
<1>2. /\ Cardinality(Taken) \in Nat
      /\ Cardinality(Taken \union {transferIndex}) = Cardinality(Taken) + 1
  BY TakenGrows, Zenon
<1>3. Cardinality({0}) = 1 /\ Cardinality({}) = 0
  BY FS_Singleton, FS_EmptySet, Zenon
<1>4. transferIndex \in Nat /\ others \in Nat
  BY TypeParts, Zenon DEF Base, WalkTypes
<1>5. stack # <<>> => Cardinality(Taken) + others = transferIndex
  BY Zenon DEF NoneLost
<1>6. stack' # <<>> => Cardinality(Taken') + others' = transferIndex'
  <2> DEFINE n == Cardinality(Taken)
             n1 == Cardinality(Taken')
  <2>1. /\ Taken' = {0} => n1 = 1
        /\ Taken' = {} => n1 = 0
        /\ Taken' = Taken \union {transferIndex} => n1 = n + 1
        /\ Taken' = Taken => n1 = n
    BY <1>2, <1>3, Zenon
  <2>2. n \in Nat /\ (stack # <<>> => n + others = transferIndex)
    BY <1>2, <1>5, Zenon
  <2> HIDE DEF n, n1
  <2>3. \/ stack' = <<>>
        \/ /\ others' = 0
           /\ \/ transferIndex' = 1 /\ n1 = 1
              \/ transferIndex' = 0 /\ n1 = 0
        \/ stack # <<>> /\ others' = others /\ transferIndex' = transferIndex + 1 /\ n1 = n + 1
        \/ stack # <<>> /\ n1 = n /\ others' = others /\ transferIndex' = transferIndex
        \/ stack # <<>> /\ n1 = n /\ others' = others + 1 /\ transferIndex' = transferIndex + 1
    <3>1. CASE stack' = <<>>
      BY <3>1, Zenon
    <3>2. CASE /\ others' = 0
               /\ \/ transferIndex' = 1 /\ Taken' = {0}
                  \/ transferIndex' = 0 /\ Taken' = {}
      BY <2>1, <3>2, Zenon
    <3>3. CASE /\ stack # <<>> /\ UNCHANGED others
               /\ transferIndex' = transferIndex + 1 /\ Taken' = Taken \union {transferIndex}
      BY <2>1, <3>3, Zenon
    <3>4. CASE /\ stack # <<>> /\ Taken' = Taken
               /\ \/ UNCHANGED <<others, transferIndex>>
                  \/ others' = others + 1 /\ transferIndex' = transferIndex + 1
      BY <2>1, <3>4, Zenon
    <3> QED BY <1>1, <3>1, <3>2, <3>3, <3>4, Zenon DEF Took
  <2>4. stack' # <<>> => n1 + others' = transferIndex'
    BY <1>4, <2>2, <2>3
  <2> QED BY <2>4, Zenon DEF n1
<1> QED BY <1>6, Zenon DEF NoneLost

\* The places of the transfers are as many as the indices taken.
LEMMA ListsInOnePlace == Base /\ Pending /\ Finished /\ NoneLost => TransferInOnePlace
<1> SUFFICES ASSUME Base, Pending, Finished, NoneLost PROVE TransferInOnePlace
  BY Zenon
<1>1. ASSUME NEW list \in Lists
      PROVE  \A i, j \in DOMAIN list : i < j => list[i].index < list[j].index
  BY Zenon DEF Lists, ActionsOfTx, Pending, Finished, Sorted
<1>2. /\ \A x, y \in InLists : IndexAt(x) = IndexAt(y) => x = y
      /\ \A x \in InLists : IndexAt(x) \in Taken
      /\ \A m \in Taken : \E x \in InLists : IndexAt(x) = m
  BY PlacesMatchIndices, Zenon
<1>3. Cardinality(InLists) = Cardinality(Taken)
  <2> DEFINE f == [x \in InLists |-> IndexAt(x)]
  <2>1. f \in Injection(InLists, Taken)
    BY <1>2, Zenon DEF Injection, IsInjective
  <2>2. f \in Surjection(InLists, Taken)
    BY <1>2, Zenon DEF Surjection
  <2>3. IsFiniteSet(Taken)
    BY TakenGrows, Zenon
  <2> HIDE DEF f
  <2> QED BY <2>1, <2>2, <2>3, FS_Injection, Zenon
<1>4. ASSUME stack # <<>> PROVE Cardinality(InLists) + others = transferIndex
  BY <1>3, <1>4, Zenon DEF NoneLost
<1> QED BY <1>1, <1>2, <1>4, Zenon DEF TransferInOnePlace, InLists, Places, ListAt, IndexAt

\* The invariants about the lists hold in every state.
LEMMA ListsHold == Spec => [](Base /\ Pending /\ Finished /\ NoneLost)
<1>1. Init => Base /\ Pending /\ Finished /\ NoneLost
  BY InitBase, InitLists, Zenon DEF Init, NoneLost
<1>2. Base /\ Pending /\ Finished /\ NoneLost /\ [Next]_vars
        => (Base /\ Pending /\ Finished /\ NoneLost)'
  BY NextBase, NextLists, NextCount, Zenon
<1> QED
  BY <1>1, <1>2, PTL DEF Spec

\* Every transfer that extractInTxInfo meets is in exactly one list, of a pending call or
\* of an action, in the order of the transfer indices, for call trees of any size and
\* however actions are nested.
THEOREM EachInOnePlace == Spec => []TransferInOnePlace
<1> QED
  BY ListsHold, ListsInOnePlace, PTL

\* No transfer is listed twice, neither for one user nor for two, for any number of
\* files, transactions and actions and in every order of the extraction.
THEOREM NoneCountedTwice == Spec => []CountedOnce
<1>1. Init => Extracted /\ CountedOnce
  <2>1. ASSUME Init PROVE \A u \in Addresses : DOMAIN userTokenTx[u] = {}
    BY <2>1 DEF Init
  <2> QED BY <2>1, Zenon DEF Extracted, CountedOnce
<1> QED
  BY <1>1, ListsHold, NextCounted, PTL DEF Spec

=============================================================================
