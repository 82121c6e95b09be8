----------------------- MODULE SubstateRecorderProofs -----------------------
(***************************************************************************)
(* Proofs that what the StateDB records of an account is the account as it  *)
(* was when the transaction began, and that the substate that is stored     *)
(* after a transaction is its effect, for every number of accounts, slots,  *)
(* transactions and operations and every depth of calls.                    *)
(*                                                                          *)
(* The argument: an operation of the EVM is a composition of methods of     *)
(* the StateDB, and each method keeps Good and, with the frames, Fit.  A    *)
(* method that changes an account changes that account only and has         *)
(* recorded it before.  A call that fails is undone entry by entry along    *)
(* the trace, down to its snapshot.  Finalise writes what the trace ends    *)
(* with for the accounts of journal.dirties, and the other accounts are as  *)
(* the trace began.                                                         *)
(***************************************************************************)
EXTENDS SubstateRecorder, StateDBProofs

-----------------------------------------------------------------------------
(* Operations of the EVM keep Good.                                         *)

\* what an operation keeps
OpGood(r, b) == Good(r.sdb, b) /\ r.frames \in Seq(Frame)

\* A frame that is pushed makes a longer stack of frames.
LEMMA PushedFrames ==
  ASSUME NEW f \in Seq(Frame), NEW self \in Addrs, NEW creates \in BOOLEAN,
         NEW static \in BOOLEAN, NEW snapshot \in Nat
  PROVE Pushed(f, self, creates, static, snapshot) \in Seq(Frame)
<1> DEFINE st == static \/ (f # <<>> /\ Top(f).static)
           fr == [self |-> self, creates |-> creates, snapshot |-> snapshot, static |-> st]
<1>1. st \in BOOLEAN
  BY Zenon
<1>2. fr \in Frame
  <2> HIDE DEF st
  <2> QED BY <1>1, Zenon DEF Frame
<1>3. Append(f, fr) \in Seq(Frame)
  <2> HIDE DEF fr
  <2> QED BY <1>2
<1> QED BY <1>3, Zenon DEF Pushed

\* Starting the code of an account changes no account.
LEMMA RunCodeGood ==
  ASSUME NEW s, NEW b, Good(s, b), NEW f \in Seq(Frame), NEW self \in Addrs, NEW a,
         NEW static \in BOOLEAN, NEW snapshot \in Nat
  PROVE OpGood(RunCode(s, f, self, a, static, snapshot), b)
<1>1. Pushed(f, self, FALSE, static, snapshot) \in Seq(Frame)
  BY PushedFrames, Zenon
<1> QED BY <1>1, Zenon DEF RunCode, Result, OpGood

\* A transfer goes through the two balances, which records both accounts.
LEMMA TransferGood ==
  ASSUME NEW s, NEW b, Good(s, b), NEW from \in Addrs, NEW to \in Addrs, NEW value
  PROVE Good(Transfer(s, from, to, value), b)
<1>1. Good(SubBalance(s, from, value), b)
  BY MethodsGood, Zenon DEF Keeps
<1> QED BY <1>1, MethodsGood, Zenon DEF Transfer, Keeps

\* A call reads its target before it creates it or transfers to it.
LEMMA CallGood ==
  ASSUME NEW s, NEW b, Good(s, b), NEW f \in Seq(Frame), NEW caller \in Addrs,
         NEW a \in Addrs, NEW value
  PROVE OpGood(Call(s, f, caller, a, value), b)
<1>1. ASSUME NEW t, Good(t, b), Has(t, a)
      PROVE OpGood(CallExisting(t, f, caller, a, value), b)
  <2> DEFINE u == IF Exist(t, a) THEN t ELSE CreateAccount(t, a)
             w == getStateObject(Transfer(u, caller, a, value), a)
  <2>1. Good(u, b)
    BY <1>1, CreateAccountGood, Zenon DEF Keeps
  <2> HIDE DEF u
  <2>2. Good(Transfer(u, caller, a, value), b)
    BY <2>1, TransferGood, Zenon
  <2>3. Good(w, b)
    BY <2>2, MethodsGood, Zenon DEF Keeps
  <2>4. Len(t.journal) \in Nat
    BY <1>1, JournalLen, Zenon
  <2>5. CallExisting(t, f, caller, a, value) \in
          {Result(t, f, "absent"), RunCode(w, f, a, a, FALSE, Len(t.journal))}
    BY Zenon DEF CallExisting, u
  <2>6. OpGood(Result(t, f, "absent"), b)
    BY <1>1, Zenon DEF Result, OpGood
  <2>7. OpGood(RunCode(w, f, a, a, FALSE, Len(t.journal)), b)
    <3> HIDE DEF w
    <3> QED BY <2>3, <2>4, RunCodeGood, Zenon
  <2> QED BY <2>5, <2>6, <2>7, Zenon
<1>2. Good(getStateObject(s, a), b) /\ Has(getStateObject(s, a), a)
  BY MethodsGood, Zenon DEF Keeps
<1>3. Good(getStateObject(s, caller), b)
  BY MethodsGood, Zenon DEF Keeps
<1>4. /\ Good(getStateObject(getStateObject(s, caller), a), b)
      /\ Has(getStateObject(getStateObject(s, caller), a), a)
  BY <1>3, MethodsGood, Zenon DEF Keeps
<1>5. OpGood(Result(getStateObject(s, caller), f, "insufficient"), b)
  BY <1>3, Zenon DEF Result, OpGood
<1> QED BY <1>1, <1>2, <1>4, <1>5, Zenon DEF Call

\* A creation reads the new address before it takes it, and keeps it recorded if it is
\* taken.
LEMMA CreateGood ==
  ASSUME NEW s, NEW b, Good(s, b), NEW f \in Seq(Frame), NEW caller \in Addrs,
         NEW a \in Addrs, NEW value
  PROVE OpGood(Create(s, f, caller, a, value), b)
<1>1. ASSUME NEW t, Good(t, b), Has(t, a)
      PROVE OpGood(CreateUnlessTaken(t, f, caller, a, value), b)
  <2> DEFINE m == CreateAccount(t, a)
             u == IF isEIP158 THEN SetNonce(m, a, 1) ELSE m
             g == Pushed(f, a, TRUE, FALSE, Len(t.journal))
             n == Account(t, caller).nonce
  <2>1. Good(m, b)
    BY <1>1, CreateAccountGood, Zenon DEF Keeps
  <2>2. CreateUnlessTaken(t, f, caller, a, value) \in
          {Result(t, f, "collision"), Result(Transfer(u, caller, a, value), g, n)}
    BY Zenon DEF CreateUnlessTaken
  <2> HIDE DEF m, n
  <2>3. Good(u, b)
    BY <2>1, MethodsGood, Zenon DEF Keeps
  <2> HIDE DEF u
  <2>4. Good(Transfer(u, caller, a, value), b)
    BY <2>3, TransferGood, Zenon
  <2>5. g \in Seq(Frame)
    BY <1>1, JournalLen, PushedFrames, Zenon
  <2> HIDE DEF g
  <2>6. OpGood(Result(t, f, "collision"), b)
    BY <1>1, Zenon DEF Result, OpGood
  <2>7. OpGood(Result(Transfer(u, caller, a, value), g, n), b)
    BY <2>4, <2>5, Zenon DEF Result, OpGood
  <2> QED BY <2>2, <2>6, <2>7, Zenon
<1> DEFINE c == getStateObject(s, caller)
           n == Account(s, caller).nonce + 1
<1>2. Good(c, b)
  BY MethodsGood, Zenon DEF Keeps
<1>3. Create(s, f, caller, a, value) \in
        {Result(c, f, "insufficient"),
         CreateUnlessTaken(getStateObject(SetNonce(c, caller, n), a), f, caller, a, value)}
  BY Zenon DEF Create
<1> HIDE DEF c, n
<1>4. Good(SetNonce(c, caller, n), b)
  BY <1>2, MethodsGood, Zenon DEF Keeps
<1>5. /\ Good(getStateObject(SetNonce(c, caller, n), a), b)
      /\ Has(getStateObject(SetNonce(c, caller, n), a), a)
  BY <1>4, MethodsGood, Zenon DEF Keeps
<1>6. OpGood(Result(c, f, "insufficient"), b)
  BY <1>2, Zenon DEF Result, OpGood
<1> QED BY <1>1, <1>3, <1>5, <1>6, Zenon

\* The innermost frame, and the frames without it.
LEMMA TopFrame ==
  ASSUME NEW f \in Seq(Frame), f # <<>>
  PROVE Top(f) \in Frame /\ Popped(f) \in Seq(Frame)
<1>1. Len(f) \in Nat /\ Len(f) > 0
  OBVIOUS
<1>2. f[Len(f)] \in Frame
  BY <1>1
<1>3. SubSeq(f, 1, Len(f) - 1) \in Seq(Frame)
  BY <1>1
<1> QED BY <1>2, <1>3, Zenon DEF Top, Popped

\* Block hashes are no part of what Good looks at.
LEMMA BlockhashGood ==
  ASSUME NEW s, NEW b, Good(s, b), NEW f \in Seq(Frame), NEW num, NEW hashes
  PROVE OpGood(Blockhash(s, f, num, hashes), b)
<1>1. PICK h : Blockhash(s, f, num, hashes).sdb = [s EXCEPT !.ResearchBlockHashes = h]
  BY Zenon DEF Blockhash, Result
<1> DEFINE t == [s EXCEPT !.ResearchBlockHashes = h]
<1>2. /\ Shape(t) /\ t.trie = s.trie /\ t.stateObjects = s.stateObjects
      /\ t.journal = s.journal /\ t.ResearchPreAlloc = s.ResearchPreAlloc
  BY DEF Good, Shape
<1> HIDE DEF t
<1>3. \A a \in Addrs : View(t, a) = View(s, a)
  BY <1>2, ViewDepends, Zenon DEF Good
<1>4. Good(t, b)
  BY <1>2, <1>3, Zenon DEF Good, Journaled, Recorded
<1>5. Blockhash(s, f, num, hashes).frames = f
  BY Zenon DEF Blockhash, Result
<1> QED BY <1>1, <1>4, <1>5, Zenon DEF OpGood, t

\* A self-destruction reads both accounts before it moves the balance.
LEMMA SelfdestructGood ==
  ASSUME NEW s, NEW b, Good(s, b), NEW f \in Seq(Frame), f # <<>>, NEW a \in Addrs
  PROVE OpGood(Selfdestruct(s, f, a), b)
<1> DEFINE self == Top(f).self
           t == getStateObject(getStateObject(s, a), self)
           v == Account(s, self).balance
           seen == <<Account(s, self).balance, Exist(s, a)>>
           u == Suicide(AddBalance(t, a, v), self)
<1>1. self \in Addrs /\ Popped(f) \in Seq(Frame)
  BY TopFrame, Zenon DEF Frame
<1>2. Selfdestruct(s, f, a) = Result(StoreCode(u, f, NoCode), Popped(f), seen)
  BY Zenon DEF Selfdestruct
<1>3. StoreCode(u, f, NoCode) \in {u, SetCode(u, self, NoCode)}
  BY Zenon DEF StoreCode
<1> HIDE DEF self, v, seen
<1>4. Good(getStateObject(s, a), b)
  BY MethodsGood, Zenon DEF Keeps
<1>5. Good(t, b)
  BY <1>1, <1>4, MethodsGood, Zenon DEF Keeps
<1> HIDE DEF t
<1>6. Good(AddBalance(t, a, v), b)
  BY <1>5, MethodsGood, Zenon DEF Keeps
<1>7. Good(u, b)
  BY <1>1, <1>6, MethodsGood, Zenon DEF Keeps
<1> HIDE DEF u
<1>8. Good(SetCode(u, self, NoCode), b)
  BY <1>1, <1>7, MethodsGood, Zenon DEF Keeps
<1> QED BY <1>1, <1>2, <1>3, <1>7, <1>8 DEF Result, OpGood

\* Whatever a running frame does, what is recorded stays right.
LEMMA PerformGood ==
  ASSUME NEW s, NEW b, Good(s, b), NEW f \in Seq(Frame), f # <<>>,
         NEW o \in Operations, NEW hashes
  PROVE OpGood(Perform(s, f, o, hashes), b)
<1> DEFINE self == Top(f).self
<1>1. self \in Addrs /\ Popped(f) \in Seq(Frame)
  BY TopFrame, Zenon DEF Frame
<1>2. Len(s.journal) \in Nat
  BY JournalLen, Zenon
<1>3. CASE o.op = "call"
  <2>1. o.a \in Addrs
    BY <1>3, Zenon DEF Operations
  <2>2. Perform(s, f, o, hashes) = Call(s, f, self, o.a, o.value)
    BY <1>3, Zenon DEF Perform
  <2> HIDE DEF self
  <2> QED BY <1>1, <2>1, <2>2, CallGood, Zenon
<1>4. CASE o.op = "static"
  <2>1. o.a \in Addrs
    BY <1>4, Zenon DEF Operations
  <2> DEFINE t == getStateObject(AddBalance(s, o.a, 0), o.a)
  <2>2. Perform(s, f, o, hashes) = RunCode(t, f, o.a, o.a, TRUE, Len(s.journal))
    BY <1>4, Zenon DEF Perform, StaticCall
  <2>3. Good(AddBalance(s, o.a, 0), b)
    BY <2>1, MethodsGood, Zenon DEF Keeps
  <2>4. Good(t, b)
    BY <2>1, <2>3, MethodsGood, SMTT(20) DEF Keeps
  <2> HIDE DEF t
  <2>5. OpGood(RunCode(t, f, o.a, o.a, TRUE, Len(s.journal)), b)
    BY <1>2, <2>1, <2>4, RunCodeGood, Zenon
  <2> QED BY <2>2, <2>5, Zenon
<1>5. CASE o.op = "delegate"
  <2>1. o.a \in Addrs
    BY <1>5, Zenon DEF Operations
  <2> DEFINE t == getStateObject(s, o.a)
  <2>2. Perform(s, f, o, hashes) = RunCode(t, f, self, o.a, FALSE, Len(s.journal))
    BY <1>5, Zenon DEF Perform, DelegateCall
  <2>3. Good(t, b)
    BY <2>1, MethodsGood, Zenon DEF Keeps
  <2> HIDE DEF t, self
  <2> QED BY <1>1, <1>2, <2>1, <2>2, <2>3, RunCodeGood, Zenon
<1>6. CASE o.op = "create"
  <2>1. o.a \in Addrs
    BY <1>6, RecorderAssumption, Zenon DEF Operations
  <2>2. Perform(s, f, o, hashes) = Create(s, f, self, o.a, o.value)
    BY <1>6, Zenon DEF Perform
  <2> HIDE DEF self
  <2> QED BY <1>1, <2>1, <2>2, CreateGood, Zenon
<1>7. CASE o.op = "inspect"
  <2>1. o.a \in Addrs
    BY <1>7, Zenon DEF Operations
  <2>2. Good(getStateObject(s, o.a), b)
    BY <2>1, MethodsGood, Zenon DEF Keeps
  <2> QED BY <1>7, <2>2, Zenon DEF Perform, Inspect, Result, OpGood
<1>8. CASE o.op = "selfdestruct"
  <2>1. o.a \in Addrs
    BY <1>8, Zenon DEF Operations
  <2>2. Perform(s, f, o, hashes) = Selfdestruct(s, f, o.a)
    BY <1>8, Zenon DEF Perform
  <2> QED BY <2>1, <2>2, SelfdestructGood, Zenon
<1>9. CASE o.op = "sload"
  <2>1. Good(GetState(s, self, o.k), b)
    BY <1>1, MethodsGood, Zenon DEF Keeps
  <2> QED BY <1>9, <2>1, Zenon DEF Perform, Sload, Result, OpGood
<1>10. CASE o.op = "sstore"
  <2> DEFINE t == GetState(s, self, o.k)
  <2>1. Good(t, b)
    BY <1>1, MethodsGood, Zenon DEF Keeps
  <2> HIDE DEF t
  <2>2. Good(SetState(t, self, o.k, o.v), b)
    BY <1>1, <2>1, MethodsGood, Zenon DEF Keeps
  <2> QED BY <1>10, <2>2, Zenon DEF Perform, Sstore, Result, OpGood, t
<1>11. CASE o.op = "blockhash"
  <2>1. Perform(s, f, o, hashes) = Blockhash(s, f, o.num, hashes)
    BY <1>11, Zenon DEF Perform
  <2> QED BY <2>1, BlockhashGood, Zenon
<1>12. CASE o.op = "return"
  <2>1. Good(SetCode(s, self, o.code), b)
    BY <1>1, MethodsGood, Zenon DEF Keeps
  <2>2. Perform(s, f, o, hashes).sdb \in {s, SetCode(s, self, o.code)}
    BY <1>12, Zenon DEF Perform, Leave, StoreCode, Result
  <2>3. Perform(s, f, o, hashes).frames = Popped(f)
    BY <1>12, Zenon DEF Perform, Leave, Result
  <2> QED BY <1>1, <2>1, <2>2, <2>3, Zenon DEF OpGood
<1> QED BY <1>3, <1>4, <1>5, <1>6, <1>7, <1>8, <1>9, <1>10, <1>11, <1>12, Zenon DEF Operations

\* A message is good like the operations that follow it.
LEMMA MessageGood ==
  ASSUME NEW s, NEW b, Good(Prepare(s), b), NEW m \in Messages, NEW hashes
  PROVE OpGood(Perform(s, <<>>, m, hashes), b)
<1> DEFINE p == Prepare(s)
           q == SubBalance(p, Sender, Fee)
           n == Account(p, Sender).nonce + 1
<1>1. m.op = "message" /\ m.to \in Addrs /\ Sender \in Addrs
  BY RecorderAssumption, Zenon DEF Messages
<1>2. Perform(s, <<>>, m, hashes) \in
        {Create(q, <<>>, Sender, m.to, m.value),
         Call(SetNonce(q, Sender, n), <<>>, Sender, m.to, m.value)}
  BY <1>1, Zenon DEF Perform, ApplyMessage
<1> HIDE DEF p, n
<1>3. Good(q, b)
  BY <1>1, MethodsGood, Zenon DEF Keeps, p
<1> HIDE DEF q
<1>4. Good(SetNonce(q, Sender, n), b)
  BY <1>1, <1>3, MethodsGood, Zenon DEF Keeps
<1>5. <<>> \in Seq(Frame)
  OBVIOUS
<1>6. OpGood(Create(q, <<>>, Sender, m.to, m.value), b)
  BY <1>1, <1>3, <1>5, CreateGood, Zenon
<1>7. OpGood(Call(SetNonce(q, Sender, n), <<>>, Sender, m.to, m.value), b)
  BY <1>1, <1>4, <1>5, CallGood, Zenon
<1> QED BY <1>2, <1>6, <1>7, Zenon

-----------------------------------------------------------------------------
(* What is recorded.                                                        *)

\* the inductive invariant; while a transaction is replayed it says nothing of the
\* replay's own StateDB
RecorderInv ==
  /\ phase \in {"idle", "record", "recorded", "replay"}
  /\ coinbase \in Addrs
  /\ phase # "replay" => frames \in Seq(Frame) /\ revertTo \in Nat \union {NoRevert}
  /\ phase \in {"idle", "recorded"} => Between(sdb) /\ revertTo = NoRevert
  /\ phase = "replay" => Between(parked)
  /\ phase = "record" => Good(sdb, before)

\* Nothing has been recorded at first.
LEMMA InitInv == Init => RecorderInv
<1> SUFFICES ASSUME Init PROVE RecorderInv
  BY Zenon
<1>1. PICK trie \in Trie : sdb = New(trie)
  BY Zenon DEF Init
<1>2. Between(sdb)
  BY <1>1, NewBetween, RecorderAssumption, Zenon
<1>3. coinbase \in Addrs
  BY RecorderAssumption, Zenon DEF Init
<1>4. frames \in Seq(Frame)
  BY DEF Init
<1> QED BY <1>2, <1>3, <1>4, Zenon DEF Init, RecorderInv, NoRevert

\* Every action keeps the invariant.
LEMMA StepInv == RecorderInv /\ [Next]_vars => RecorderInv'
<1> SUFFICES ASSUME RecorderInv, [Next]_vars PROVE RecorderInv'
  BY Zenon
<1>1. ASSUME NEW m \in Messages, BeginTx(m) PROVE RecorderInv'
  <2>1. Good(Prepare(sdb), before')
    BY <1>1, PrepareGood, Zenon DEF BeginTx, RecorderInv, Between
  <2>2. OpGood(Perform(sdb, <<>>, m, ChainHashes), before')
    BY <2>1, MessageGood, Zenon
  <2>3. Good(sdb', before') /\ frames' \in Seq(Frame)
    BY <1>1, <2>2, Zenon DEF BeginTx, OpGood
  <2> QED BY <1>1, <2>3, Zenon DEF BeginTx, RecorderInv, NoRevert
<1>2. ASSUME NEW o \in Operations, Execute(o) PROVE RecorderInv'
  <2>1. Good(sdb, before) /\ frames \in Seq(Frame) /\ frames # <<>> /\ before' = before
    BY <1>2, Zenon DEF Execute, Running, RecorderInv
  <2>2. OpGood(Perform(sdb, frames, o, ChainHashes), before)
    BY <2>1, PerformGood, Zenon
  <2>3. Good(sdb', before') /\ frames' \in Seq(Frame)
    BY <1>2, <2>1, <2>2, Zenon DEF Execute, OpGood
  <2>4. Top(frames) \in Frame
    BY <2>1, TopFrame, Zenon
  <2>5. revertTo' \in Nat \union {NoRevert}
    BY <1>2, <2>4, Zenon DEF Execute, RevertsTo, Frame
  <2> QED BY <1>2, <2>3, <2>5, Zenon DEF Execute, RecorderInv
<1>3. CASE RevertStep
  <2>1. CASE phase = "record"
    <3>1. Good(sdb, before) /\ revertTo \in Nat
      BY <1>3, <2>1, Zenon DEF RevertStep, RecorderInv, NoRevert
    <3>2. Len(sdb.journal) \in Nat
      BY <3>1, JournalLen, Zenon
    <3>3. revertTo < Len(sdb.journal) => Good(revertLast(sdb), before)
      BY <3>1, <3>2, RevertGood
    <3>4. Good(sdb', before) /\ revertTo' \in Nat \union {NoRevert}
      BY <1>3, <3>1, <3>3, Zenon DEF RevertStep
    <3> QED BY <1>3, <2>1, <3>4, Zenon DEF RevertStep, RecorderInv
  <2>2. CASE phase = "replay"
    BY <1>3, <2>2, Zenon DEF RevertStep, RecorderInv
  <2> QED BY <1>3, <2>1, <2>2, Zenon DEF RevertStep, RecorderInv
<1>4. CASE PutSubstate
  <2> DEFINE u == AddBalance(sdb, Sender, 0)
             w == AddBalance(u, coinbase, Fee)
  <2>1. Good(sdb, before) /\ coinbase \in Addrs /\ Sender \in Addrs
    BY <1>4, RecorderAssumption, Zenon DEF PutSubstate, RecorderInv
  <2>2. Good(u, before)
    BY <2>1, MethodsGood, Zenon DEF Keeps
  <2>3. Good(w, before)
    BY <2>1, <2>2, MethodsGood, Zenon DEF Keeps
  <2>4. sdb' = Finalise(w, isEIP158)
    BY <1>4, Zenon DEF PutSubstate, Finished
  <2> HIDE DEF w
  <2>5. Between(sdb')
    BY <2>3, <2>4, FinaliseShape, Zenon DEF Between, Good
  <2> QED BY <1>4, <2>5, Zenon DEF PutSubstate, RecorderInv
<1>5. CASE NextBlock
  <2> DEFINE tr == Accounts(Finalise(AddBalance(sdb, coinbase, Reward), isEIP158))
  <2>1. tr = [a \in Addrs |-> tr[a]]
    BY Zenon DEF Accounts
  <2>2. sdb' = New(tr) /\ coinbase' \in Addrs
    BY <1>5, RecorderAssumption, Zenon DEF NextBlock
  <2> HIDE DEF tr
  <2>3. Between(sdb')
    BY <2>1, <2>2, NewBetween, Zenon
  <2> QED BY <1>5, <2>2, <2>3, Zenon DEF NextBlock, RecorderInv
<1>6. CASE ReplayTask
  BY <1>6, Zenon DEF ReplayTask, RecorderInv
<1>7. ASSUME NEW result, phase = "replay", Return(result) PROVE RecorderInv'
  <2>1. <<>> \in Seq(Frame)
    OBVIOUS
  <2> QED BY <1>7, <2>1, Zenon DEF Return, RecorderInv, NoRevert
<1>8. CASE ReplayStep
  BY <1>7, <1>8, Zenon DEF ReplayStep, RecorderInv
<1>9. CASE Compare
  BY <1>7, <1>9, Zenon DEF Compare
<1>10. CASE UNCHANGED vars
  BY <1>10, Zenon DEF vars, RecorderInv
<1> QED BY <1>1, <1>2, <1>3, <1>4, <1>5, <1>6, <1>8, <1>9, <1>10, Zenon DEF Next

\* What getStateObject has recorded of an account is the account at the beginning of
\* the transaction, and an account that it has not recorded has not changed, however
\* many accounts there are, whatever contracts do and however deep they call.
THEOREM RecordsPreState == Spec => []InputIsPreState
<1>1. RecorderInv => InputIsPreState
  BY Zenon DEF RecorderInv, Good, Recorded, InputIsPreState
<1> QED BY <1>1, InitInv, StepInv, PTL DEF Spec

\* Everything in the journal is about a recorded account, so that a revert never
\* touches an account that the substate lacks.
THEOREM RecordsBeforeChange == Spec => []ChangesAreRecorded
<1>1. RecorderInv => ChangesAreRecorded
  BY Zenon DEF RecorderInv, Good, Journaled, ChangesAreRecorded
<1> QED BY <1>1, InitInv, StepInv, PTL DEF Spec

-----------------------------------------------------------------------------
(* Operations of the EVM keep Fit.                                          *)

\* The top frame's account is there.
LEMMA TopLive ==
  ASSUME NEW s, NEW b, NEW H, NEW f \in Seq(Frame), Fit(s, b, H, f), f # <<>>
  PROVE /\ Top(f) \in Frame /\ Top(f).self \in Addrs /\ Live(Found(s, Top(f).self))
        /\ Pinned(b[Top(f).self]) => b[Top(f).self].code # NoCode /\ ~Top(f).creates
<1> DEFINE l == Len(s.journal)
<1>1. Top(f) \in Frame
  BY TopFrame, Zenon
<1>2. Top(f).self \in Addrs /\ Top(f).snapshot \in Nat
  BY <1>1, Zenon DEF Frame
<1>3. Len(f) \in 1 .. Len(f)
  OBVIOUS
<1>4. FrameFits(s.journal, b, H, f, Len(f), l) /\ Whole(s, b, H)
  BY <1>3, Zenon DEF Fit, FramesFit
<1>5. PICK q \in Top(f).snapshot .. l : \A i \in q .. l : Live(H[i][Top(f).self])
  BY <1>4, Zenon DEF FrameFits, Top
<1>6. l \in q .. l
  BY <1>2, <1>5
<1>7. Live(Found(s, Top(f).self))
  BY <1>2, <1>4, <1>5, <1>6, NowFits, Zenon
<1> QED BY <1>1, <1>2, <1>4, <1>7, Zenon DEF FrameFits, Top

\* what holds after an operation
OpFit(r, b) == \E G : Fit(r.sdb, b, G, r.frames)

\* The result of an operation fits when its StateDB and frames do.
LEMMA ResultFit ==
  ASSUME NEW s, NEW b, NEW G, NEW f, NEW seen, Fit(s, b, G, f)
  PROVE OpFit(Result(s, f, seen), b)
BY Zenon DEF OpFit, Result

\* RunCode: t is the StateDB of which the snapshot was taken.
LEMMA RunCodeFit ==
  ASSUME NEW s, NEW t, NEW u, NEW b, NEW H, NEW f \in Seq(Frame), Fit(s, b, H, f),
         Follows(s, t, b), Covers(s, t), Follows(t, u, b), Covers(t, u),
         NEW self \in Addrs, NEW a \in Addrs, NEW static \in BOOLEAN,
         Account(u, a).code # NoCode =>
           Live(Found(u, self)) /\ (Pinned(b[self]) => b[self].code # NoCode)
  PROVE OpFit(RunCode(u, f, self, a, static, Len(t.journal)), b)
<1> DEFINE fr == [self |-> self, creates |-> FALSE, snapshot |-> Len(t.journal),
                  static |-> static \/ (f # <<>> /\ Top(f).static)]
           r == RunCode(u, f, self, a, static, Len(t.journal))
<1>1. r.sdb = u /\ r.frames = IF Account(u, a).code = NoCode THEN f ELSE Append(f, fr)
  BY Zenon DEF RunCode, Result, Pushed
<1>2. Len(t.journal) \in Nat
  BY JournalLen, Zenon DEF Follows, Fit, Whole
<1>3. /\ fr \in Frame /\ fr.snapshot = Len(t.journal) /\ fr.self = self /\ ~fr.creates
  <2> DEFINE st == static \/ (f # <<>> /\ Top(f).static)
  <2>1. st \in BOOLEAN
    BY Zenon
  <2> HIDE DEF st
  <2> QED BY <1>2, <2>1, Zenon DEF Frame
<1> HIDE DEF fr, r
<1>4. Follows(s, u, b) /\ Covers(s, u)
  BY FollowsAgain, Zenon DEF Covers
<1>5. CASE Account(u, a).code = NoCode
  <2>1. \E G : Fit(u, b, G, f)
    BY <1>4, FitFollows, Zenon
  <2> QED BY <1>1, <1>5, <2>1, Zenon DEF OpFit, r
<1>6. CASE Account(u, a).code # NoCode
  <2>1. \A x \in Addrs : Bare(u, x) => Bare(t, x)
    BY Zenon DEF Covers
  <2>2. \E G : Fit(u, b, G, Append(f, fr))
    BY <1>3, <1>6, <2>1, FitPush, Zenon
  <2> QED BY <1>1, <1>6, <2>2, Zenon DEF OpFit, r
<1> QED BY <1>5, <1>6, Zenon

\* Transfer from an account that is there.
LEMMA TransferDoes ==
  ASSUME NEW s, NEW b, NEW H, Whole(s, b, H), NEW from \in Addrs, NEW to \in Addrs, NEW v,
         Live(Found(s, from))
  PROVE /\ Follows(s, Transfer(s, from, to, v), b) /\ Covers(s, Transfer(s, from, to, v))
        /\ Live(Found(Transfer(s, from, to, v), to)) /\ Good(Transfer(s, from, to, v), b)
        /\ from # to /\ empty(Found(s, to)) => ~Bare(Transfer(s, from, to, v), to)
<1> DEFINE t == SubBalance(s, from, v)
           u == AddBalance(t, to, v)
<1>1. Good(s, b)
  BY Zenon DEF Whole
<1>2. Does(s, t, b, from) /\ Covers(s, t)
  BY <1>1, MethodsDo, Zenon
<1>3. Good(t, b) /\ Follows(s, t, b) /\ (from # to => Found(t, to) = Found(s, to))
  BY <1>2, Zenon DEF Does, Keeps
<1> HIDE DEF t
<1>4. /\ Does(t, u, b, to) /\ Live(Found(u, to)) /\ Covers(t, u)
      /\ empty(Found(t, to)) => ~Bare(u, to)
  BY <1>3, MethodsDo, Zenon
<1>5. Transfer(s, from, to, v) = u
  BY Zenon DEF Transfer, t
<1> HIDE DEF u
<1>6. Follows(t, u, b) /\ Good(u, b)
  BY <1>4, Zenon DEF Does, Keeps
<1>7. Follows(s, u, b) /\ Covers(s, u)
  BY <1>2, <1>3, <1>4, <1>6, FollowsAgain, Zenon DEF Covers
<1> QED BY <1>3, <1>4, <1>5, <1>6, <1>7, Zenon

\* evm.Call from the Snapshot on.
LEMMA CallExistingFit ==
  ASSUME NEW s, NEW t, NEW b, NEW H, NEW f \in Seq(Frame), Fit(s, b, H, f),
         Follows(s, t, b), Covers(s, t), NEW a \in Addrs, NEW caller \in Addrs, NEW v,
         Live(Found(s, caller)), Has(t, a), t.stateObjects[a] = Found(t, a)
  PROVE OpFit(CallExisting(t, f, caller, a, v), b)
<1> DEFINE u == IF Exist(t, a) THEN t ELSE CreateAccount(t, a)
           w == Transfer(u, caller, a, v)
           z == getStateObject(w, a)
<1>1. PICK F : Fit(t, b, F, f)
  BY FitFollows, Zenon
<1>2. Whole(t, b, F) /\ Good(t, b)
  BY <1>1, Zenon DEF Fit, Whole
<1>3. Live(Found(t, caller))
  BY StaysLive, Zenon DEF Fit
<1>4. /\ Follows(t, u, b) /\ Good(u, b)
      /\ \A x \in Addrs : Bare(u, x) => Bare(t, x) \/ (x = a /\ ~Live(Found(t, a)))
      /\ ~Live(Found(t, a)) => Found(u, a) = Fresh(0)
  <2>1. CASE Live(Found(t, a))
    <3>1. u = t
      BY <2>1, AccountIs, Zenon
    <3> QED BY <1>2, <2>1, <3>1, FollowsSelf, Zenon
  <2>2. CASE ~Live(Found(t, a))
    <3> DEFINE c == CreateAccount(t, a)
    <3>1. u = c /\ Account(t, a).balance = 0
      BY <2>2, AccountIs, Zenon
    <3>2. /\ Does(t, c, b, a) /\ Found(c, a) = Fresh(Account(t, a).balance)
          /\ \A x \in Addrs : Bare(c, x) => x = a \/ Bare(t, x)
      BY <1>2, <2>2, CreateDoes
    <3> HIDE DEF c
    <3> QED BY <2>2, <3>1, <3>2, Zenon DEF Does, Keeps
  <2> QED BY <2>1, <2>2, Zenon
<1> HIDE DEF u
<1>5. PICK G : Whole(u, b, G)
  BY <1>2, <1>4, Zenon DEF Follows
<1>6. Live(Found(u, caller))
  BY <1>2, <1>3, <1>4, StaysLive, Zenon
<1>7. /\ Follows(u, w, b) /\ Covers(u, w) /\ Good(w, b)
      /\ caller # a /\ empty(Found(u, a)) => ~Bare(w, a)
  BY <1>5, <1>6, TransferDoes, Zenon
<1> HIDE DEF w
<1>8. Does(w, z, b, a) /\ \A x : Bare(z, x) <=> Bare(w, x)
  BY <1>7, GetDoes, Zenon
<1>9. CallExisting(t, f, caller, a, v) \in
        {Result(t, f, "absent"), RunCode(z, f, a, a, FALSE, Len(t.journal))}
  BY Zenon DEF CallExisting, u, w
<1> HIDE DEF z
<1>10. Follows(t, z, b)
  <2>1. Follows(w, z, b)
    BY <1>8, Zenon DEF Does
  <2>2. Follows(t, w, b)
    BY <1>4, <1>7, FollowsAgain, Zenon
  <2> QED BY <2>1, <2>2, FollowsAgain, Zenon
<1>11. Covers(t, z)
  <2>1. ~Live(Found(t, a)) => caller # a /\ empty(Found(u, a))
    BY <1>3, <1>4, FreshIs, Zenon
  <2> QED BY <1>4, <1>7, <1>8, <2>1, Zenon DEF Covers
<1>12. OpFit(Result(t, f, "absent"), b)
  BY <1>1, ResultFit, Zenon
<1>13. PICK K : Whole(z, b, K)
  BY <1>2, <1>10, Zenon DEF Follows
<1>14. Account(z, a).code # NoCode => Live(Found(z, a)) /\ (Pinned(b[a]) => b[a].code # NoCode)
  BY <1>13, CodeLive, Zenon
<1>15. OpFit(RunCode(z, f, a, a, FALSE, Len(t.journal)), b)
  BY <1>10, <1>11, <1>14, RunCodeFit, Zenon
<1> QED BY <1>9, <1>12, <1>15, Zenon

\* evm.Call.
LEMMA CallFit ==
  ASSUME NEW s, NEW b, NEW H, NEW f \in Seq(Frame), Fit(s, b, H, f), NEW a \in Addrs,
         NEW caller \in Addrs, NEW v, Live(Found(s, caller))
  PROVE OpFit(Call(s, f, caller, a, v), b)
<1> DEFINE c == getStateObject(s, caller)
           t == getStateObject(s, a)
           u == getStateObject(c, a)
<1>1. Good(s, b)
  BY Zenon DEF Fit, Whole
<1>2. /\ Does(s, t, b, a) /\ t.stateObjects[a] = Found(s, a) /\ Found(t, a) = Found(s, a)
      /\ \A x : Bare(t, x) <=> Bare(s, x)
  BY <1>1, GetDoes, Zenon
<1>3. /\ Does(s, c, b, caller) /\ \A x : Bare(c, x) <=> Bare(s, x)
  BY <1>1, GetDoes, Zenon
<1>4. Call(s, f, caller, a, v) \in
        {CallExisting(t, f, caller, a, v), Result(c, f, "insufficient"),
         CallExisting(u, f, caller, a, v)}
  BY Zenon DEF Call
<1> HIDE DEF t, c
<1>5. Good(c, b) /\ Follows(s, c, b) /\ Follows(s, t, b) /\ Has(t, a)
  BY <1>2, <1>3, Zenon DEF Does, Keeps
<1>6. /\ Does(c, u, b, a) /\ u.stateObjects[a] = Found(c, a) /\ Found(u, a) = Found(c, a)
      /\ \A x : Bare(u, x) <=> Bare(c, x)
  BY <1>5, GetDoes, Zenon
<1> HIDE DEF u
<1>7. Follows(c, u, b) /\ Has(u, a)
  BY <1>6, Zenon DEF Does, Keeps
<1>8. Follows(s, u, b) /\ Covers(s, t) /\ Covers(s, c) /\ Covers(s, u)
  BY <1>2, <1>3, <1>5, <1>6, <1>7, FollowsAgain, Zenon DEF Covers
<1>9. OpFit(CallExisting(t, f, caller, a, v), b)
  BY <1>2, <1>5, <1>8, CallExistingFit, Zenon
<1>10. OpFit(CallExisting(u, f, caller, a, v), b)
  BY <1>6, <1>7, <1>8, CallExistingFit, Zenon
<1>11. \E G : Fit(c, b, G, f)
  BY <1>5, <1>8, FitFollows, Zenon
<1>12. OpFit(Result(c, f, "insufficient"), b)
  BY <1>11, ResultFit, Zenon
<1> QED BY <1>4, <1>9, <1>10, <1>12, Zenon

\* evm.StaticCall, evm.DelegateCall and evm.CallCode.
LEMMA OtherCallsFit ==
  ASSUME NEW s, NEW b, NEW H, NEW f \in Seq(Frame), Fit(s, b, H, f), NEW a \in Addrs
  PROVE /\ OpFit(StaticCall(s, f, a), b)
        /\ f # <<>> => OpFit(DelegateCall(s, f, a), b)
<1> DEFINE t == AddBalance(s, a, 0)
           u == getStateObject(t, a)
           w == getStateObject(s, a)
<1>1. Good(s, b) /\ Whole(s, b, H)
  BY Zenon DEF Fit, Whole
<1>2. Does(s, t, b, a) /\ Covers(s, t)
  BY <1>1, MethodsDo, Zenon
<1>3. /\ StaticCall(s, f, a) = RunCode(u, f, a, a, TRUE, Len(s.journal))
      /\ DelegateCall(s, f, a) = RunCode(w, f, Top(f).self, a, FALSE, Len(s.journal))
  BY Zenon DEF StaticCall, DelegateCall
<1> HIDE DEF t
<1>4. Good(t, b) /\ Follows(s, t, b)
  BY <1>2, Zenon DEF Does, Keeps
<1>5. Does(t, u, b, a) /\ \A x : Bare(u, x) <=> Bare(t, x)
  BY <1>4, GetDoes, Zenon
<1>6. Does(s, w, b, a) /\ \A x : Bare(w, x) <=> Bare(s, x)
  BY <1>1, GetDoes, Zenon
<1> HIDE DEF u, w
<1>7. Follows(s, u, b) /\ Covers(s, u)
  BY <1>2, <1>4, <1>5, FollowsAgain, Zenon DEF Covers, Does
<1>8. Follows(s, w, b) /\ Covers(s, w)
  BY <1>6, Zenon DEF Covers, Does
<1>9. Follows(s, s, b) /\ Covers(s, s)
  BY <1>1, FollowsSelf, Zenon
<1>10. OpFit(RunCode(u, f, a, a, TRUE, Len(s.journal)), b)
  <2>1. PICK G : Whole(u, b, G)
    BY <1>1, <1>7, Zenon DEF Follows
  <2>2. Account(u, a).code # NoCode => Live(Found(u, a)) /\ (Pinned(b[a]) => b[a].code # NoCode)
    BY <2>1, CodeLive, Zenon
  <2> QED BY <1>7, <1>9, <2>2, RunCodeFit, Zenon
<1>11. f # <<>> => OpFit(RunCode(w, f, Top(f).self, a, FALSE, Len(s.journal)), b)
  <2> SUFFICES ASSUME f # <<>>
               PROVE OpFit(RunCode(w, f, Top(f).self, a, FALSE, Len(s.journal)), b)
    BY Zenon
  <2> DEFINE self == Top(f).self
  <2>1. self \in Addrs /\ Live(Found(s, self)) /\ (Pinned(b[self]) => b[self].code # NoCode)
    BY TopLive, Zenon
  <2> HIDE DEF self
  <2>2. Live(Found(w, self))
    BY <1>1, <1>8, <2>1, StaysLive, Zenon
  <2>3. OpFit(RunCode(w, f, self, a, FALSE, Len(s.journal)), b)
    BY <1>8, <1>9, <2>1, <2>2, RunCodeFit, Zenon
  <2> QED BY <2>3, Zenon DEF self
<1> QED BY <1>3, <1>10, <1>11, Zenon

\* evm.create from the collision check on.
LEMMA CreateUnlessTakenFit ==
  ASSUME NEW t, NEW b, NEW F, NEW f \in Seq(Frame), Fit(t, b, F, f), NEW a \in Addrs,
         NEW caller \in Addrs, NEW v, Live(Found(t, caller)), Has(t, a),
         t.stateObjects[a] = Found(t, a),
         Pinned(b[a]) /\ b[a].code = NoCode => Account(t, a).nonce # 0
  PROVE OpFit(CreateUnlessTaken(t, f, caller, a, v), b)
<1>1. Whole(t, b, F) /\ Good(t, b)
  BY Zenon DEF Fit, Whole
<1>2. CASE Account(t, a).nonce # 0 \/ Account(t, a).code # NoCode
  <2>1. CreateUnlessTaken(t, f, caller, a, v) = Result(t, f, "collision")
    BY <1>2, Zenon DEF CreateUnlessTaken
  <2> QED BY <2>1, ResultFit, Zenon
<1>3. CASE Account(t, a).nonce = 0 /\ Account(t, a).code = NoCode
  <2> DEFINE m == CreateAccount(t, a)
             u == IF isEIP158 THEN SetNonce(m, a, 1) ELSE m
             w == Transfer(u, caller, a, v)
             fr == [self |-> a, creates |-> TRUE, snapshot |-> Len(t.journal),
                    static |-> FALSE \/ (f # <<>> /\ Top(f).static)]
             n == Account(t, caller).nonce
  <2>1. CreateUnlessTaken(t, f, caller, a, v) = Result(w, Append(f, fr), n)
    BY <1>3, Zenon DEF CreateUnlessTaken, Pushed
  <2>2. ~Pinned(b[a])
    <3> SUFFICES ASSUME Pinned(b[a]) PROVE FALSE
      BY Zenon
    <3>1. Fits(Found(t, a), b[a])
      BY <1>1, NowFits, Zenon
    <3>2. Live(Found(t, a)) /\ Found(t, a).code = b[a].code
      BY <3>1, Zenon DEF Fits, Pinned
    <3> QED BY <1>3, <3>2, AccountIs, Zenon
  <2>3. Does(t, m, b, a) /\ \A x \in Addrs : Bare(m, x) => x = a \/ Bare(t, x)
    BY <1>1, <2>2, CreateDoes
  <2> HIDE DEF m
  <2>4. Good(m, b) /\ Follows(t, m, b)
    BY <2>3, Zenon DEF Does, Keeps
  <2>5. Follows(m, u, b) /\ Covers(m, u)
    <3>1. Logs(m, SetNonce(m, a, 1), b, a) /\ Covers(m, SetNonce(m, a, 1))
      BY <2>4, MethodsDo, Zenon
    <3>2. Follows(m, m, b) /\ Covers(m, m)
      BY <2>4, FollowsSelf, Zenon
    <3> QED BY <3>1, <3>2, Zenon DEF Logs, Does
  <2> HIDE DEF u
  <2>6. Follows(t, u, b)
    BY <2>4, <2>5, FollowsAgain, Zenon
  <2>7. PICK G : Whole(u, b, G)
    BY <1>1, <2>6, Zenon DEF Follows
  <2>8. Live(Found(u, caller))
    BY <1>1, <2>6, StaysLive, Zenon
  <2>9. Follows(u, w, b) /\ Covers(u, w) /\ Live(Found(w, a))
    BY <2>7, <2>8, TransferDoes, Zenon
  <2> HIDE DEF w
  <2>10. Follows(t, w, b)
    BY <2>6, <2>9, FollowsAgain, Zenon
  <2>11. fr \in Frame /\ fr.snapshot = Len(t.journal) /\ fr.self = a /\ fr.creates
    <3> DEFINE st == FALSE \/ (f # <<>> /\ Top(f).static)
    <3>1. st \in BOOLEAN
      BY Zenon
    <3> HIDE DEF st
    <3>2. Len(t.journal) \in Nat
      BY <1>1, JournalLen, Zenon
    <3> QED BY <3>1, <3>2, Zenon DEF Frame
  <2> HIDE DEF fr, n
  <2>12. \A x \in Addrs : Bare(w, x) => Bare(t, x) \/ (fr.creates /\ x = fr.self)
    BY <2>3, <2>5, <2>9, <2>11, Zenon DEF Covers
  <2>13. Follows(t, t, b) /\ Covers(t, t)
    BY <1>1, FollowsSelf, Zenon
  <2>14. \E K : Fit(w, b, K, Append(f, fr))
    BY <2>2, <2>9, <2>10, <2>11, <2>12, <2>13, FitPush, Zenon
  <2> QED BY <2>1, <2>14, ResultFit, Zenon
<1> QED BY <1>2, <1>3, Zenon

\* a StateDB in the middle of a creation: the caller may still be bare
Paid(s, b, H, f, caller, v) ==
  /\ Whole(s, b, H) /\ FramesFit(s.journal, b, H, f, Len(s.journal))
  /\ \A x \in Addrs : Bare(s, x) =>
        Creator(f, Len(f), x) \/ (x = caller /\ ~(Account(s, caller).balance < v))

\* evm.create.  No two creations take the same address before EIP-158.
LEMMA CreateFit ==
  ASSUME NEW s, NEW b, NEW H, NEW f \in Seq(Frame), NEW a \in Addrs, NEW caller \in Addrs,
         NEW v, Paid(s, b, H, f, caller, v),
         Pinned(b[a]) /\ b[a].code = NoCode => Account(s, a).nonce # 0 /\ caller # a
  PROVE OpFit(Create(s, f, caller, a, v), b)
<1> DEFINE c == getStateObject(s, caller)
           n == Account(s, caller).nonce + 1
           d == SetNonce(c, caller, n)
           t == getStateObject(d, a)
<1>1. Whole(s, b, H) /\ Good(s, b) /\ FramesFit(s.journal, b, H, f, Len(s.journal))
  BY Zenon DEF Paid, Whole
<1>2. Does(s, c, b, caller) /\ \A x : Bare(c, x) <=> Bare(s, x)
  BY <1>1, GetDoes, Zenon
<1>3. Create(s, f, caller, a, v) = IF Account(s, caller).balance < v
                                   THEN Result(c, f, "insufficient")
                                   ELSE CreateUnlessTaken(t, f, caller, a, v)
  BY Zenon DEF Create
<1> HIDE DEF c, n
<1>4. Good(c, b) /\ Follows(s, c, b)
  BY <1>2, Zenon DEF Does, Keeps
<1>5. CASE Account(s, caller).balance < v
  <2>1. Fit(s, b, H, f) /\ Covers(s, c)
    BY <1>2, <1>5, Zenon DEF Paid, Fit, BareCreated, Bare, Covers
  <2>2. PICK G : Fit(c, b, G, f)
    BY <1>4, <2>1, FitFollows, Zenon
  <2> QED BY <1>3, <1>5, <2>2, ResultFit, Zenon
<1>6. CASE ~(Account(s, caller).balance < v)
  <2>1. Logs(c, d, b, caller)
    BY <1>4, MethodsDo, Zenon
  <2> HIDE DEF d
  <2>2. /\ Good(d, b) /\ Follows(c, d, b) /\ Live(Found(d, caller))
        /\ \A x \in Addrs : Bare(d, x) => x # caller /\ Bare(c, x)
    BY <2>1, Zenon DEF Logs, Does, Keeps
  <2>3. /\ Does(d, t, b, a) /\ t.stateObjects[a] = Found(d, a) /\ Found(t, a) = Found(d, a)
        /\ \A x : Bare(t, x) <=> Bare(d, x)
    BY <2>2, GetDoes, Zenon
  <2> HIDE DEF t
  <2>4. Follows(d, t, b) /\ Has(t, a) /\ Good(t, b)
    BY <2>3, Zenon DEF Does, Keeps
  <2>5. Follows(s, d, b)
    BY <1>4, <2>2, FollowsAgain, Zenon
  <2>6. Follows(s, t, b)
    BY <2>4, <2>5, FollowsAgain, Zenon
  <2>7. PICK F : Whole(t, b, F) /\ Extends(s, H, t, F)
    BY <1>1, <2>6, Zenon DEF Follows
  <2>8. FramesFit(t.journal, b, F, f, Len(t.journal))
    BY <1>1, <2>7, FramesExtend, Zenon DEF FramesFit
  <2>9. BareCreated(t.journal, f, Len(t.journal))
    <3>1. \A x \in Addrs : Bare(t, x) => Creator(f, Len(f), x)
      BY <1>2, <2>2, <2>3, Zenon DEF Paid
    <3> QED BY <3>1, Zenon DEF BareCreated, Bare
  <2>10. Fit(t, b, F, f)
    BY <2>7, <2>8, <2>9, Zenon DEF Fit
  <2>11. PICK K : Whole(d, b, K)
    BY <1>1, <2>5, Zenon DEF Follows
  <2>12. Live(Found(t, caller))
    BY <2>2, <2>4, <2>11, StaysLive, Zenon
  <2>13. caller # a => Account(t, a).nonce = Account(s, a).nonce
    <3> SUFFICES ASSUME caller # a PROVE Account(t, a).nonce = Account(s, a).nonce
      BY Zenon
    <3>1. Found(t, a) = Found(s, a)
      BY <1>2, <2>1, <2>3, Zenon DEF Logs, Does
    <3> QED BY <3>1, AccountIs, Zenon
  <2>14. OpFit(CreateUnlessTaken(t, f, caller, a, v), b)
    BY <2>3, <2>4, <2>10, <2>12, <2>13, CreateUnlessTakenFit, Zenon
  <2> QED BY <1>3, <1>6, <2>14, Zenon
<1> QED BY <1>5, <1>6, Zenon

\* Operations of the running frame without calls.
LEMMA InspectFit ==
  ASSUME NEW s, NEW b, NEW H, NEW f \in Seq(Frame), Fit(s, b, H, f), NEW a \in Addrs
  PROVE OpFit(Inspect(s, f, a), b)
<1>1. Good(s, b)
  BY Zenon DEF Fit, Whole
<1>2. Follows(s, getStateObject(s, a), b) /\ Covers(s, getStateObject(s, a))
  BY <1>1, GetDoes, Zenon DEF Does, Covers
<1>3. PICK G : Fit(getStateObject(s, a), b, G, f)
  BY <1>2, FitFollows, Zenon
<1> QED BY <1>3, ResultFit, Zenon DEF Inspect

\* SLOAD and SSTORE.
LEMMA SlotsFit ==
  ASSUME NEW s, NEW b, NEW H, NEW f \in Seq(Frame), Fit(s, b, H, f), f # <<>>,
         NEW k \in Keys, NEW v
  PROVE OpFit(Sload(s, f, k), b) /\ OpFit(Sstore(s, f, k, v), b)
<1> DEFINE self == Top(f).self
           t == GetState(s, self, k)
           u == SetState(t, self, k, v)
<1>1. Good(s, b) /\ Whole(s, b, H)
  BY Zenon DEF Fit, Whole
<1>2. self \in Addrs /\ Live(Found(s, self)) /\ (Pinned(b[self]) => b[self].code # NoCode)
  BY TopLive, Zenon
<1>3. /\ Sload(s, f, k).sdb = t /\ Sload(s, f, k).frames = f
      /\ Sstore(s, f, k, v).sdb = u /\ Sstore(s, f, k, v).frames = f
  BY Zenon DEF Sload, Sstore, Result
<1> HIDE DEF self
<1>4. Does(s, t, b, self) /\ Covers(s, t)
  BY <1>1, <1>2, GetStateDoes, Zenon
<1> HIDE DEF t
<1>5. Good(t, b) /\ Follows(s, t, b)
  BY <1>4, Zenon DEF Does, Keeps
<1>6. Live(Found(t, self))
  BY <1>1, <1>2, <1>5, StaysLive, Zenon
<1>7. Follows(t, u, b) /\ Covers(t, u)
  BY <1>2, <1>5, <1>6, SetStateDoes, Zenon DEF Does
<1> HIDE DEF u
<1>8. Follows(s, u, b) /\ Covers(s, u)
  BY <1>4, <1>5, <1>7, FollowsAgain, Zenon DEF Covers
<1>9. (\E G : Fit(t, b, G, f)) /\ (\E G : Fit(u, b, G, f))
  BY <1>4, <1>5, <1>8, FitFollows, Zenon
<1> QED BY <1>3, <1>9, Zenon DEF OpFit

\* BLOCKHASH records a hash and leaves all else alone.
LEMMA BlockhashFit ==
  ASSUME NEW s, NEW b, NEW H, NEW f \in Seq(Frame), Fit(s, b, H, f), NEW num, NEW hashes
  PROVE OpFit(Blockhash(s, f, num, hashes), b)
<1>1. Good(s, b)
  BY Zenon DEF Fit, Whole
<1> DEFINE t == Blockhash(s, f, num, hashes).sdb
<1>2. PICK h : t = [s EXCEPT !.ResearchBlockHashes = h]
  BY Zenon DEF Blockhash, Result
<1>3. Blockhash(s, f, num, hashes).frames = f
  BY Zenon DEF Blockhash, Result
<1>4. Good(t, b)
  BY <1>1, BlockhashGood, Zenon DEF OpGood
<1> HIDE DEF t
<1>5. /\ t.trie = s.trie /\ t.stateObjects = s.stateObjects /\ t.journal = s.journal
      /\ t.ResearchPreAlloc = s.ResearchPreAlloc /\ t.ResearchPostAlloc = s.ResearchPostAlloc
  BY <1>1, <1>2, Zenon DEF Good, Shape
<1>6. \A a \in Addrs : Found(t, a) = Found(s, a)
  <2> TAKE a \in Addrs
  <2>1. t.stateObjects[a] = s.stateObjects[a] /\ t.trie[a] = s.trie[a]
    BY <1>5, Zenon
  <2> QED BY <1>1, <1>4, <2>1, SameFound, Zenon DEF Good
<1>7. Follows(s, t, b)
  <2>1. \A G : Whole(s, b, G) => \A a \in Addrs : Same(Found(t, a), Found(s, a))
    BY <1>6, NowFits, Zenon
  <2>2. Loaded(s) => Loaded(t)
    BY <1>5, Zenon DEF Loaded, Has
  <2> QED BY <1>1, <1>4, <1>5, <2>1, <2>2, SameFollows, Zenon
<1>8. Covers(s, t)
  BY <1>5, Zenon DEF Covers, Bare
<1>9. \E G : Fit(t, b, G, f)
  BY <1>7, <1>8, FitFollows, Zenon
<1> QED BY <1>3, <1>9, Zenon DEF OpFit, t

\* The frames without the innermost one, when its changes stay and when they are undone.
LEMMA FramesPopped ==
  ASSUME NEW j, NEW b, NEW H, NEW f \in Seq(Frame), f # <<>>, NEW l \in Nat, FramesFit(j, b, H, f, l)
  PROVE /\ FramesFit(j, b, H, Popped(f), l)
        /\ FramesFit(j, b, H, Popped(f), Top(f).snapshot)
        /\ BareCreated(j, Popped(f), Top(f).snapshot)
        /\ Top(f).snapshot \in 0 .. l
        /\ \A x : Creator(f, Len(f), x) =>
              Creator(Popped(f), Len(Popped(f)), x) \/ (Top(f).creates /\ x = Top(f).self)
<1> DEFINE g == Popped(f)
           n == Len(f)
           h == Top(f).snapshot
<1>1. n \in Nat /\ n \in 1 .. n /\ Len(g) = n - 1 /\ \A i \in 1 .. n - 1 : g[i] = f[i]
  BY WithoutLast, Zenon DEF Popped
<1>2. \A i \in 1 .. n - 1 : i \in 1 .. n /\ i < n /\ \A q \in 1 .. i - 1 : q \in 1 .. n - 1
  BY <1>1
<1>3. \A i \in 1 .. n : i \in 1 .. n - 1 \/ i = n
  BY <1>1
<1> HIDE DEF g
<1>4. Top(f) \in Frame
  BY TopFrame, Zenon
<1>5. h \in Nat
  BY <1>4, Zenon DEF Frame
<1>6. FrameFits(j, b, H, f, n, l)
  BY <1>1, Zenon DEF FramesFit
<1>7. \A i \in 1 .. n - 1 : f[i].snapshot \in Nat
  <2>1. \A i \in 1 .. n - 1 : f[i] \in Frame
    BY <1>1
  <2> QED BY <2>1, Zenon DEF Frame
<1>8. h \in 0 .. l
  <2>1. PICK q \in h .. l : TRUE
    BY <1>6, Zenon DEF FrameFits, Top
  <2> QED BY <1>5, <2>1
<1>9. \A i \in 0 .. n - 1 : \A x : Creator(g, i, x) <=> Creator(f, i, x)
  <2>1. \A i \in 0 .. n - 1 : \A q \in 1 .. i : q \in 1 .. n - 1
    BY <1>1
  <2> QED BY <1>1, <2>1, Zenon DEF Creator
<1>10. BareCreated(j, g, h)
  <2>1. n - 1 \in 0 .. n - 1
    BY <1>1
  <2>2. \A x \in Addrs : BareAt(j, h, x) => Creator(f, n - 1, x)
    BY <1>6, Zenon DEF FrameFits, Top
  <2> QED BY <1>1, <1>9, <2>1, <2>2, Zenon DEF BareCreated
<1>11. ASSUME NEW i \in 1 .. n - 1
       PROVE FrameFits(j, b, H, g, i, l) /\ FrameFits(j, b, H, g, i, h)
  <2>1. FrameFits(j, b, H, f, i, l) /\ g[i] = f[i] /\ i < n
    BY <1>1, <1>2, Zenon DEF FramesFit
  <2>2. i - 1 \in 0 .. n - 1
    BY <1>1
  <2>3. \A x \in Addrs : BareAt(j, g[i].snapshot, x) => Creator(g, i - 1, x)
    BY <1>9, <2>1, <2>2, Zenon DEF FrameFits
  <2>4. PICK q \in f[i].snapshot .. l :
               /\ \A m \in 1 .. n : i < m => q <= f[m].snapshot
               /\ \A m \in q .. l : Live(H[m][f[i].self])
    BY <2>1, Zenon DEF FrameFits
  <2>5. q <= h
    BY <1>1, <2>1, <2>4, Zenon DEF Top
  <2>6. q \in g[i].snapshot .. l /\ q \in g[i].snapshot .. h /\ \A m \in q .. h : m \in q .. l
    BY <1>5, <1>7, <1>8, <2>1, <2>4, <2>5
  <2>7. \A m \in 1 .. Len(g) : i < m => q <= g[m].snapshot
    BY <1>1, <1>2, <2>4, Zenon
  <2>8. \A m \in q .. l : Live(H[m][g[i].self])
    BY <2>1, <2>4, Zenon
  <2>9. Pinned(b[g[i].self]) => b[g[i].self].code # NoCode /\ ~g[i].creates
    BY <2>1, Zenon DEF FrameFits
  <2> HIDE DEF h
  <2> QED BY <2>3, <2>6, <2>7, <2>8, <2>9, Zenon DEF FrameFits
<1>12. FramesFit(j, b, H, g, l) /\ FramesFit(j, b, H, g, h)
  BY <1>1, <1>11, Zenon DEF FramesFit
<1>13. \A x : Creator(f, n, x) => Creator(g, Len(g), x) \/ (Top(f).creates /\ x = Top(f).self)
  BY <1>1, <1>3, Zenon DEF Creator, Top
<1> QED BY <1>8, <1>10, <1>12, <1>13, Zenon DEF g

\* A frame that ends well: its creator stores the code.
LEMMA LeaveFit ==
  ASSUME NEW s, NEW u, NEW b, NEW H, NEW f \in Seq(Frame), Fit(s, b, H, f), f # <<>>,
         Follows(s, u, b), Covers(s, u), Good(u, b), NEW code
  PROVE \E G : Fit(StoreCode(u, f, code), b, G, Popped(f))
<1> DEFINE self == Top(f).self
           w == StoreCode(u, f, code)
<1>1. self \in Addrs /\ (Pinned(b[self]) => ~Top(f).creates)
  BY TopLive, Zenon
<1>2. w = IF Top(f).creates THEN SetCode(u, self, code) ELSE u
  BY Zenon DEF StoreCode
<1> HIDE DEF self, w
<1>3. Follows(u, w, b) /\ Covers(u, w) /\ \A x \in Addrs : Bare(w, x) /\ Top(f).creates => x # self
  <2>1. CASE Top(f).creates
    <3>1. Logs(u, w, b, self) /\ Covers(u, w)
      BY <1>1, <1>2, <2>1, MethodsDo, Zenon
    <3> QED BY <3>1, Zenon DEF Logs, Does
  <2>2. CASE ~Top(f).creates
    BY <1>2, <2>2, FollowsSelf, Zenon
  <2> QED BY <2>1, <2>2, Zenon
<1>4. Follows(s, w, b) /\ Covers(s, w)
  BY <1>3, FollowsAgain, Zenon DEF Covers
<1>5. PICK G : Fit(w, b, G, f)
  BY <1>4, FitFollows, Zenon
<1>6. /\ Whole(w, b, G) /\ FramesFit(w.journal, b, G, f, Len(w.journal))
      /\ BareCreated(w.journal, f, Len(w.journal))
  BY <1>5, Zenon DEF Fit
<1>7. Len(w.journal) \in Nat
  BY <1>6, JournalLen, Zenon DEF Whole
<1>8. /\ FramesFit(w.journal, b, G, Popped(f), Len(w.journal))
      /\ \A x : Creator(f, Len(f), x) =>
              Creator(Popped(f), Len(Popped(f)), x) \/ (Top(f).creates /\ x = self)
  BY <1>6, <1>7, FramesPopped, Zenon DEF self
<1>9. BareCreated(w.journal, Popped(f), Len(w.journal))
  BY <1>3, <1>6, <1>8, Zenon DEF BareCreated, Bare
<1> QED BY <1>6, <1>8, <1>9, Zenon DEF Fit, w

\* SELFDESTRUCT pays the beneficiary, destroys the account and ends the frame.
LEMMA SelfdestructFit ==
  ASSUME NEW s, NEW b, NEW H, NEW f \in Seq(Frame), Fit(s, b, H, f), f # <<>>, NEW a \in Addrs
  PROVE OpFit(Selfdestruct(s, f, a), b)
<1> DEFINE self == Top(f).self
           c == getStateObject(s, a)
           t == getStateObject(c, self)
           v == Account(s, self).balance
           d == AddBalance(t, a, v)
           u == Suicide(d, self)
<1>1. self \in Addrs
  BY TopLive, Zenon
<1>2. /\ Selfdestruct(s, f, a).sdb = StoreCode(u, f, NoCode)
      /\ Selfdestruct(s, f, a).frames = Popped(f)
  BY Zenon DEF Selfdestruct, Result
<1> HIDE DEF self, v
<1>3. Good(s, b)
  BY Zenon DEF Fit, Whole
<1>4. Follows(s, c, b) /\ Covers(s, c) /\ Good(c, b)
  BY <1>3, GetDoes, Zenon DEF Does, Keeps, Covers
<1> HIDE DEF c
<1>5. Follows(c, t, b) /\ Covers(c, t) /\ Good(t, b)
  BY <1>1, <1>4, GetDoes, Zenon DEF Does, Keeps, Covers
<1> HIDE DEF t
<1>6. Follows(t, d, b) /\ Covers(t, d) /\ Good(d, b)
  BY <1>5, MethodsDo, Zenon DEF Does, Keeps
<1> HIDE DEF d
<1>7. Follows(d, u, b) /\ Covers(d, u) /\ Good(u, b)
  BY <1>1, <1>6, MethodsDo, Zenon DEF Does, Keeps
<1> HIDE DEF u
<1>8. Follows(s, t, b) /\ Follows(t, u, b)
  BY <1>4, <1>5, <1>6, <1>7, FollowsAgain, Zenon
<1>9. Follows(s, u, b) /\ Covers(s, u)
  BY <1>4, <1>5, <1>6, <1>7, <1>8, FollowsAgain, Zenon DEF Covers
<1>10. \E G : Fit(StoreCode(u, f, NoCode), b, G, Popped(f))
  BY <1>7, <1>9, LeaveFit, Zenon
<1> QED BY <1>2, <1>10, Zenon DEF OpFit

\* Whatever the running frame does, short of failing.
LEMMA PerformFit ==
  ASSUME NEW s, NEW b, NEW H, NEW f \in Seq(Frame), Fit(s, b, H, f), f # <<>>,
         NEW o \in Operations, NEW hashes, o.op = "return" => ~o.failed,
         o.op = "create" => (Account(s, o.a).nonce = 0 /\ Account(s, o.a).code = NoCode
                              => \A k \in Keys : Slot(Account(s, o.a), k) = 0)
  PROVE OpFit(Perform(s, f, o, hashes), b)
<1> DEFINE self == Top(f).self
<1>1. /\ self \in Addrs /\ Live(Found(s, self))
      /\ Pinned(b[self]) => b[self].code # NoCode /\ ~Top(f).creates
  BY TopLive, Zenon
<1>2. Good(s, b) /\ Whole(s, b, H)
  BY Zenon DEF Fit, Whole
<1>3. CASE o.op = "call"
  <2>1. o.a \in Addrs
    BY <1>3, Zenon DEF Operations
  <2>2. Perform(s, f, o, hashes) = Call(s, f, self, o.a, o.value)
    BY <1>3, Zenon DEF Perform
  <2> HIDE DEF self
  <2> QED BY <1>1, <2>1, <2>2, CallFit, Zenon
<1>4. CASE o.op \in {"static", "delegate"}
  <2>1. o.a \in Addrs
    BY <1>4, Zenon DEF Operations
  <2>2. Perform(s, f, o, hashes) \in {StaticCall(s, f, o.a), DelegateCall(s, f, o.a)}
    BY <1>4, Zenon DEF Perform
  <2> QED BY <2>1, <2>2, OtherCallsFit, Zenon
<1>5. CASE o.op = "create"
  <2>1. o.a \in Addrs
    BY <1>5, RecorderAssumption, Zenon DEF Operations
  <2>2. Perform(s, f, o, hashes) = Create(s, f, self, o.a, o.value)
    BY <1>5, Zenon DEF Perform
  <2>3. Paid(s, b, H, f, self, o.value)
    BY Zenon DEF Fit, Paid, BareCreated, Bare
  <2>4. Pinned(b[o.a]) /\ b[o.a].code = NoCode => Account(s, o.a).nonce # 0 /\ self # o.a
    BY <1>1, <1>2, <1>5, <2>1, ReachablePinned, Zenon
  <2> HIDE DEF self
  <2> QED BY <1>1, <2>1, <2>2, <2>3, <2>4, CreateFit, Zenon
<1>6. CASE o.op = "inspect"
  <2>1. o.a \in Addrs
    BY <1>6, Zenon DEF Operations
  <2>2. Perform(s, f, o, hashes) = Inspect(s, f, o.a)
    BY <1>6, Zenon DEF Perform
  <2> QED BY <2>1, <2>2, InspectFit, Zenon
<1>7. CASE o.op = "selfdestruct"
  <2>1. o.a \in Addrs
    BY <1>7, Zenon DEF Operations
  <2>2. Perform(s, f, o, hashes) = Selfdestruct(s, f, o.a)
    BY <1>7, Zenon DEF Perform
  <2> QED BY <2>1, <2>2, SelfdestructFit, Zenon
<1>8. CASE o.op \in {"sload", "sstore"}
  <2>1. o.k \in Keys
    BY <1>8, Zenon DEF Operations
  <2>2. Perform(s, f, o, hashes) \in {Sload(s, f, o.k), Sstore(s, f, o.k, o.v)}
    BY <1>8, Zenon DEF Perform
  <2> QED BY <2>1, <2>2, SlotsFit, Zenon
<1>9. CASE o.op = "blockhash"
  <2>1. Perform(s, f, o, hashes) = Blockhash(s, f, o.num, hashes)
    BY <1>9, Zenon DEF Perform
  <2> QED BY <2>1, BlockhashFit, Zenon
<1>10. CASE o.op = "return"
  <2>1. /\ Perform(s, f, o, hashes).sdb = StoreCode(s, f, o.code)
        /\ Perform(s, f, o, hashes).frames = Popped(f)
    BY <1>10, Zenon DEF Perform, Leave, Result
  <2>2. Follows(s, s, b) /\ Covers(s, s)
    BY <1>2, FollowsSelf, Zenon
  <2>3. \E G : Fit(StoreCode(s, f, o.code), b, G, Popped(f))
    BY <1>2, <2>2, LeaveFit, Zenon
  <2> QED BY <2>1, <2>3, Zenon DEF OpFit
<1> QED BY <1>3, <1>4, <1>5, <1>6, <1>7, <1>8, <1>9, <1>10, Zenon DEF Operations

\* The message: gas is paid for before anything else, and may leave the sender bare until
\* its nonce is set.
LEMMA MessageFit ==
  ASSUME NEW s, NEW b, NEW H, Whole(Prepare(s), b, H), Prepare(s).journal = <<>>,
         NEW m \in Messages, NEW hashes,
         Account(Prepare(s), Sender).balance >= Fee + m.value,
         m.creates => (Account(Prepare(s), m.to).nonce = 0 /\ Account(Prepare(s), m.to).code = NoCode
                        => \A k \in Keys : Slot(Account(Prepare(s), m.to), k) = 0)
  PROVE OpFit(Perform(s, <<>>, m, hashes), b)
<1> DEFINE p == Prepare(s)
           q == SubBalance(p, Sender, Fee)
           n == Account(p, Sender).nonce + 1
           t == SetNonce(q, Sender, n)
           none == <<>>
<1>1. /\ m.op = "message" /\ m.to \in Addrs /\ m.to # Sender /\ m.value \in MsgValues
      /\ Sender \in Addrs /\ m.creates \in BOOLEAN
  BY RecorderAssumption, Zenon DEF Messages
<1>2. Perform(s, none, m, hashes) = IF m.creates THEN Create(q, none, Sender, m.to, m.value)
                                  ELSE Call(t, none, Sender, m.to, m.value)
  BY <1>1, Zenon DEF Perform, ApplyMessage
<1>a. none \in Seq(Frame) /\ Len(none) = 0
  OBVIOUS
<1>3. Whole(p, b, H) /\ Good(p, b)
  BY Zenon DEF Whole
<1>4. \A x \in Addrs : ~Bare(p, x)
  BY DEF Bare, BareAt
<1>5. \A j, G, l : FramesFit(j, b, G, none, l)
  BY <1>a DEF FramesFit
<1> HIDE DEF p, none, n
<1>6. /\ Does(p, q, b, Sender)
      /\ \/ Covers(p, q)
         \/ /\ Fee = 0 /\ Found(q, Sender) = Fresh(0)
            /\ ~Live(Found(p, Sender))
            /\ \A x \in Addrs : Bare(q, x) => x = Sender \/ Bare(p, x)
  <2> HIDE DEF t
  <2>1. Good(p, b) /\ Sender \in Addrs
    BY <1>1, <1>3, Zenon
  <2>2. /\ Does(p, q, b, Sender)
        /\ \/ Covers(p, q)
           \/ /\ Fee = 0 /\ ~Live(Found(p, Sender)) /\ Found(q, Sender) = Fresh(0)
              /\ \A x \in Addrs : Bare(q, x) => x = Sender \/ Bare(p, x)
    BY <2>1, SubBalanceDoes
  <2> HIDE DEF q
  <2> QED BY <2>2, Zenon
<1> HIDE DEF q
<1>7. Good(q, b) /\ Follows(p, q, b)
  BY <1>6, Zenon DEF Does, Keeps
<1>8. PICK F : Whole(q, b, F)
  BY <1>3, <1>7, Zenon DEF Follows
<1>9. CASE m.creates
  <2>1. ASSUME NEW x \in Addrs, Bare(q, x)
        PROVE x = Sender /\ ~(Account(q, Sender).balance < m.value)
    <3>1. /\ Fee = 0 /\ Found(q, Sender) = Fresh(0) /\ x = Sender /\ ~Live(Found(p, Sender))
      BY <1>4, <1>6, <2>1, Zenon DEF Covers
    <3>2. Account(p, Sender).balance = 0
      BY <3>1, AccountIs, Zenon
    <3>3. Account(q, Sender).balance = 0
      BY <3>1, AccountIs, FreshIs, Zenon
    <3>4. m.value \in Nat /\ Account(p, Sender).balance >= Fee + m.value
      BY <1>1, RecorderAssumption, Zenon DEF p
    <3> QED BY <3>1, <3>2, <3>3, <3>4
  <2>2. Paid(q, b, F, none, Sender, m.value)
    BY <1>5, <1>8, <2>1, Zenon DEF Paid
  <2>3. Found(q, m.to) = Found(p, m.to)
    BY <1>1, <1>6, Zenon DEF Does
  <2>4. Account(q, m.to) = Account(p, m.to)
    BY <2>3, Zenon DEF Account, Found
  <2>5. Pinned(b[m.to]) /\ b[m.to].code = NoCode => Account(q, m.to).nonce # 0 /\ Sender # m.to
    BY <1>1, <1>3, <1>9, <2>4, ReachablePinned, Zenon DEF p
  <2>6. OpFit(Create(q, none, Sender, m.to, m.value), b)
    BY <1>1, <1>a, <2>2, <2>5, CreateFit, Zenon
  <2> QED BY <1>2, <1>9, <2>6, Zenon DEF none
<1>10. CASE ~m.creates
  <2>1. Logs(q, t, b, Sender)
    BY <1>1, <1>7, MethodsDo, Zenon
  <2> HIDE DEF t
  <2>2. /\ Follows(q, t, b) /\ Live(Found(t, Sender))
        /\ \A x \in Addrs : Bare(t, x) => x # Sender /\ Bare(q, x)
    BY <2>1, Zenon DEF Logs, Does
  <2>3. PICK G : Whole(t, b, G)
    BY <1>8, <2>2, Zenon DEF Follows
  <2>4. \A x \in Addrs : ~Bare(t, x)
    BY <1>4, <1>6, <2>2, Zenon DEF Covers
  <2>5. Fit(t, b, G, none)
    BY <1>5, <2>3, <2>4, Zenon DEF Fit, BareCreated, Bare
  <2>6. OpFit(Call(t, none, Sender, m.to, m.value), b)
    BY <1>1, <1>a, <2>2, <2>5, CallFit, Zenon
  <2> QED BY <1>2, <1>10, <2>6, Zenon DEF none
<1> QED BY <1>9, <1>10, Zenon

-----------------------------------------------------------------------------
(* What is stored.                                                          *)

\* the journal length at which execution goes on
Remaining == IF revertTo = NoRevert THEN Len(sdb.journal) ELSE revertTo

\* the inductive invariant
EffectInv ==
  /\ RecorderInv
  /\ phase = "record" => \E H : Undoing(sdb, before, H, frames, Remaining)
  /\ phase \in {"idle", "recorded"} => Settled(sdb)
  /\ phase = "replay" => Settled(parked)
  /\ SubstateIsEffect

\* A failed frame ends: what it did is to be undone.
LEMMA UndoingBegins ==
  ASSUME NEW s, NEW b, NEW H, NEW f \in Seq(Frame), f # <<>>, Fit(s, b, H, f)
  PROVE Undoing(s, b, H, Popped(f), Top(f).snapshot)
<1>1. Len(s.journal) \in Nat
  BY JournalLen, Zenon DEF Fit, Whole
<1>2. /\ FramesFit(s.journal, b, H, Popped(f), Top(f).snapshot)
      /\ BareCreated(s.journal, Popped(f), Top(f).snapshot)
      /\ Top(f).snapshot \in 0 .. Len(s.journal)
  BY <1>1, FramesPopped, Zenon DEF Fit
<1> QED BY <1>2, Zenon DEF Undoing, Fit

\* The end of TransitionDb and Finalise.
LEMMA FinishedEffect ==
  ASSUME WellOrdered, NEW s, NEW b, NEW H, Fit(s, b, H, <<>>), coinbase \in Addrs
  PROVE LET F == Finished(s)
        IN /\ \A a \in Addrs :
                 Effect(F.ResearchPreAlloc[a], F.ResearchPostAlloc[a], View(F, a), b[a])
           /\ Settled(F)
<1> DEFINE u == AddBalance(s, Sender, 0)
           w == AddBalance(u, coinbase, Fee)
           none == <<>>
<1>1. Good(s, b) /\ Whole(s, b, H) /\ Sender \in Addrs
  BY RecorderAssumption, Zenon DEF Fit, Whole
<1>2. Does(s, u, b, Sender) /\ Covers(s, u)
  BY <1>1, MethodsDo, Zenon
<1>3. Good(u, b)
  BY <1>1, <1>2, Zenon DEF Does, Keeps
<1>4. Does(u, w, b, coinbase) /\ Covers(u, w)
  BY <1>3, MethodsDo, Zenon
<1> HIDE DEF u, w
<1>5. Follows(s, w, b)
  BY <1>2, <1>4, FollowsAgain, Zenon DEF Does
<1>6. PICK G : Whole(w, b, G)
  BY <1>1, <1>5, Zenon DEF Follows
<1>7. Len(none) = 0 /\ \A i : i \notin 1 .. 0
  OBVIOUS
<1>8. \A x \in Addrs : Bare(s, x) => Creator(none, Len(none), x)
  BY Zenon DEF Fit, BareCreated, Bare
<1> HIDE DEF none
<1>9. \A x \in Addrs : ~Bare(s, x)
  BY <1>7, <1>8, Zenon DEF Creator
<1>10. \A x \in Addrs : ~Bare(w, x)
  BY <1>2, <1>4, <1>9, Zenon DEF Covers
<1>11. Finished(s) = Finalise(w, isEIP158)
  BY Zenon DEF Finished, u, w
<1> QED BY <1>6, <1>10, <1>11, FinaliseEffect

\* Nothing has been done at first.
LEMMA InitEffect == Init => EffectInv
<1> SUFFICES ASSUME Init PROVE EffectInv
  BY Zenon
<1>1. PICK trie \in Trie : sdb = New(trie)
  BY Zenon DEF Init
<1>2. Settled(sdb)
  BY <1>1, NewSettled, RecorderAssumption, Zenon
<1>3. phase = "idle"
  BY Zenon DEF Init
<1> QED BY <1>2, <1>3, InitInv, Zenon DEF EffectInv, SubstateIsEffect

\* A transaction begins.
LEMMA BeginEffect ==
  ASSUME EffectInv, NEW m \in Messages, BeginTx(m)
  PROVE \E H : Undoing(sdb, before, H, frames, Remaining)'
<1> DEFINE p == Prepare(sdb)
           r == Perform(sdb, <<>>, m, ChainHashes)
<1>1. Shape(sdb) /\ sdb.journal = <<>> /\ Settled(sdb)
  BY Zenon DEF EffectInv, RecorderInv, Between, BeginTx
<1>2. PICK H : Whole(p, Accounts(sdb), H)
  BY <1>1, PrepareWhole, Zenon
<1>3. \A a \in Addrs :
        /\ Account(p, a).nonce = Account(sdb, a).nonce
        /\ Account(p, a).balance = Account(sdb, a).balance
        /\ Account(p, a).code = Account(sdb, a).code
        /\ \A k : Slot(Account(p, a), k) = Slot(Account(sdb, a), k)
  BY <1>1, PrepareWhole, Zenon
<1>4. p.journal = <<>>
  BY <1>1, PrepareIs, Zenon
<1>5. m.op = "message" /\ m.to \in Addrs /\ Sender \in Addrs
  BY RecorderAssumption, Zenon DEF Messages
<1>6. Account(p, Sender).balance >= Fee + m.value
  BY <1>3, <1>5, Zenon DEF BeginTx
<1>7. m.creates => (Account(p, m.to).nonce = 0 /\ Account(p, m.to).code = NoCode
                     => \A k \in Keys : Slot(Account(p, m.to), k) = 0)
  <2>1. m.creates => (Account(sdb, m.to).nonce = 0 /\ Account(sdb, m.to).code = NoCode
                       => \A k \in Keys : Slot(Account(sdb, m.to), k) = 0)
    BY <1>5, Zenon DEF BeginTx, Reachable
  <2> QED BY <1>3, <1>5, <2>1, Zenon
<1>8. OpFit(r, Accounts(sdb))
  BY <1>2, <1>4, <1>6, <1>7, MessageFit, Zenon
<1>9. sdb' = r.sdb /\ frames' = r.frames /\ before' = Accounts(sdb) /\ revertTo' = NoRevert
  BY Zenon DEF BeginTx
<1> HIDE DEF r
<1>10. PICK G : Fit(sdb', before', G, frames')
  BY <1>8, <1>9, Zenon DEF OpFit
<1> QED BY <1>9, <1>10, FitUndoing, Zenon DEF Remaining

\* The running frame executes an operation, or ends and has failed.
LEMMA ExecuteEffect ==
  ASSUME EffectInv, NEW o \in Operations, Execute(o)
  PROVE \E H : Undoing(sdb, before, H, frames, Remaining)'
<1> DEFINE r == Perform(sdb, frames, o, ChainHashes)
<1>1. /\ frames \in Seq(Frame) /\ frames # <<>> /\ revertTo = NoRevert /\ before' = before
      /\ phase = "record" /\ Reachable(o)
      /\ sdb' = r.sdb /\ frames' = r.frames /\ revertTo' = RevertsTo(frames, o)
  BY Zenon DEF Execute, Running, EffectInv, RecorderInv
<1>2. PICK H : Fit(sdb, before, H, frames)
  BY <1>1, FitUndoing, Zenon DEF EffectInv, Remaining
<1>3. CASE o.op = "return" /\ o.failed
  <2>1. sdb' = sdb /\ frames' = Popped(frames)
    <3>1. r = Result(sdb, Popped(frames), "left")
      BY <1>3, Zenon DEF Perform, Leave
    <3> HIDE DEF r
    <3>2. r.sdb = sdb /\ r.frames = Popped(frames)
      BY <3>1, Zenon DEF Result
    <3> QED BY <1>1, <3>2, Zenon
  <2>2. revertTo' = Top(frames).snapshot
    BY <1>1, <1>3, Zenon DEF RevertsTo
  <2>3. Undoing(sdb, before, H, Popped(frames), Top(frames).snapshot)
    BY <1>1, <1>2, UndoingBegins, Zenon
  <2>4. Top(frames).snapshot \in Nat
    BY <1>1, TopFrame, Zenon DEF Frame
  <2>5. revertTo' # NoRevert
    BY <2>2, <2>4 DEF NoRevert
  <2> QED BY <1>1, <2>1, <2>2, <2>3, <2>5, Zenon DEF Remaining
<1>4. CASE ~(o.op = "return" /\ o.failed)
  <2>1. o.op = "create" => (Account(sdb, o.a).nonce = 0 /\ Account(sdb, o.a).code = NoCode
                             => \A k \in Keys : Slot(Account(sdb, o.a), k) = 0)
    BY <1>1, Zenon DEF Reachable
  <2>2. OpFit(r, before)
    BY <1>1, <1>2, <1>4, <2>1, PerformFit, Zenon
  <2>3. revertTo' = NoRevert
    BY <1>1, <1>4, Zenon DEF RevertsTo
  <2> HIDE DEF r
  <2>4. PICK G : Fit(sdb', before', G, frames')
    BY <1>1, <2>2, Zenon DEF OpFit
  <2> QED BY <2>3, <2>4, FitUndoing, Zenon DEF Remaining
<1> QED BY <1>3, <1>4, Zenon

\* RevertToSnapshot goes on or comes to its end.
LEMMA RevertEffect ==
  ASSUME EffectInv, phase = "record", RevertStep
  PROVE \E H : Undoing(sdb, before, H, frames, Remaining)'
<1>1. revertTo \in Nat /\ revertTo # NoRevert /\ frames \in Seq(Frame)
  BY Zenon DEF EffectInv, RecorderInv, RevertStep
<1>2. PICK H : Undoing(sdb, before, H, frames, revertTo)
  BY <1>1, Zenon DEF EffectInv, Remaining
<1>3. before' = before /\ frames' = frames
  BY Zenon DEF RevertStep
<1>4. CASE revertTo < Len(sdb.journal)
  <2>1. sdb' = revertLast(sdb) /\ revertTo' = revertTo
    BY <1>4, Zenon DEF RevertStep
  <2>2. Undoing(revertLast(sdb), before, H, frames, revertTo)
    BY <1>1, <1>2, <1>4, UndoingStep, Zenon
  <2> QED BY <1>1, <1>3, <2>1, <2>2, Zenon DEF Remaining
<1>5. CASE ~(revertTo < Len(sdb.journal))
  <2>1. sdb' = sdb /\ revertTo' = NoRevert
    BY <1>5, Zenon DEF RevertStep
  <2>2. revertTo \in 0 .. Len(sdb.journal) /\ Len(sdb.journal) \in Nat
    BY <1>2, JournalLen, Zenon DEF Undoing, Whole
  <2>3. revertTo = Len(sdb.journal)
    BY <1>5, <2>2
  <2> QED BY <1>2, <1>3, <2>1, <2>3, Zenon DEF Remaining
<1> QED BY <1>4, <1>5, Zenon

\* The substate is stored.
LEMMA PutEffect ==
  ASSUME WellOrdered, EffectInv, PutSubstate
  PROVE SubstateIsEffect' /\ Settled(sdb')
<1> DEFINE none == <<>>
<1>1. frames = none /\ revertTo = NoRevert /\ phase = "record" /\ coinbase \in Addrs
  BY Zenon DEF EffectInv, RecorderInv, PutSubstate
<1>2. PICK H : Fit(sdb, before, H, none)
  BY <1>1, FitUndoing, Zenon DEF EffectInv, Remaining
<1>3. /\ \A a \in Addrs : Effect(Finished(sdb).ResearchPreAlloc[a], Finished(sdb).ResearchPostAlloc[a],
                                 View(Finished(sdb), a), before[a])
      /\ Settled(Finished(sdb))
  BY <1>1, <1>2, FinishedEffect
<1>4. /\ sdb' = Finished(sdb) /\ before' = before
      /\ substate'.InputAlloc = sdb'.ResearchPreAlloc
      /\ substate'.OutputAlloc = sdb'.ResearchPostAlloc
  BY Zenon DEF PutSubstate
<1>5. \A a \in Addrs :
        Effect(substate'.InputAlloc[a], substate'.OutputAlloc[a], View(sdb', a), before'[a])
  BY <1>3, <1>4, Zenon
<1>6. SubstateIsEffect'
  BY <1>5, Zenon DEF SubstateIsEffect, Effect, Sliced
<1> QED BY <1>3, <1>4, <1>6, Zenon

\* Every action keeps the invariant.
LEMMA StepEffect ==
  ASSUME WellOrdered, EffectInv, [Next]_vars
  PROVE  EffectInv'
<1>0. RecorderInv'
  BY StepInv, Zenon DEF EffectInv
<1>r. phase \in {"idle", "record", "recorded", "replay"}
  BY Zenon DEF EffectInv, RecorderInv
<1>1. ASSUME NEW m \in Messages, BeginTx(m) PROVE EffectInv'
  <2>1. phase' = "record"
    BY <1>1, Zenon DEF BeginTx
  <2> QED BY <1>0, <1>1, <2>1, BeginEffect, Zenon DEF EffectInv, SubstateIsEffect
<1>2. ASSUME NEW o \in Operations, Execute(o) PROVE EffectInv'
  <2>1. phase' = "record"
    BY <1>2, Zenon DEF Execute
  <2> QED BY <1>0, <1>2, <2>1, ExecuteEffect, Zenon DEF EffectInv, SubstateIsEffect
<1>3. CASE RevertStep
  <2>1. phase' = phase /\ parked' = parked /\ phase \notin {"idle", "recorded"}
    BY <1>3, Zenon DEF RevertStep, EffectInv, RecorderInv
  <2>2. CASE phase = "record"
    BY <1>0, <1>3, <2>1, <2>2, RevertEffect, Zenon DEF EffectInv, SubstateIsEffect
  <2>3. CASE phase = "replay"
    BY <1>0, <2>1, <2>3, Zenon DEF EffectInv, SubstateIsEffect
  <2> QED BY <1>r, <2>1, <2>2, <2>3, Zenon
<1>4. CASE PutSubstate
  <2>1. phase' = "recorded"
    BY <1>4, Zenon DEF PutSubstate
  <2>2. SubstateIsEffect' /\ Settled(sdb')
    BY <1>4, PutEffect, Zenon
  <2> QED BY <1>0, <2>1, <2>2, Zenon DEF EffectInv
<1>5. CASE NextBlock
  <2> DEFINE tr == Accounts(Finalise(AddBalance(sdb, coinbase, Reward), isEIP158))
  <2>1. tr = [a \in Addrs |-> tr[a]]
    BY Zenon DEF Accounts
  <2>2. sdb' = New(tr) /\ phase' = "idle"
    BY <1>5, Zenon DEF NextBlock
  <2> HIDE DEF tr
  <2>3. Settled(sdb')
    BY <2>1, <2>2, NewSettled, Zenon
  <2> QED BY <1>0, <2>2, <2>3, Zenon DEF EffectInv, SubstateIsEffect
<1>6. CASE ReplayTask
  <2>1. phase' = "replay" /\ parked' = sdb /\ phase = "recorded"
    BY <1>6, Zenon DEF ReplayTask
  <2> QED BY <1>0, <2>1, Zenon DEF EffectInv, SubstateIsEffect
<1>7. ASSUME NEW result, phase = "replay", Return(result) PROVE EffectInv'
  <2>1. phase' = "idle" /\ sdb' = parked
    BY <1>7, Zenon DEF Return
  <2> QED BY <1>0, <1>7, <2>1, Zenon DEF EffectInv, SubstateIsEffect
<1>8. CASE ReplayStep
  <2>1. phase = "replay" /\ ((\E result : Return(result)) \/ (phase' = phase /\ parked' = parked))
    BY <1>8, Zenon DEF ReplayStep
  <2>2. CASE phase' = phase /\ parked' = parked
    BY <1>0, <2>1, <2>2, Zenon DEF EffectInv, SubstateIsEffect
  <2> QED BY <1>7, <2>1, <2>2, Zenon
<1>9. CASE Compare
  BY <1>7, <1>9, Zenon DEF Compare
<1>10. CASE UNCHANGED vars
  <2>1. /\ phase' = phase /\ sdb' = sdb /\ frames' = frames /\ revertTo' = revertTo
        /\ parked' = parked /\ before' = before /\ substate' = substate
    BY <1>10, Zenon DEF vars
  <2>2. SubstateIsEffect'
    <3>1. phase = "recorded" =>
            \A a \in Addrs :
               Effect(substate.InputAlloc[a], substate.OutputAlloc[a], View(sdb, a), before[a])
      BY Zenon DEF EffectInv, SubstateIsEffect, Effect, Sliced
    <3>2. phase' = "recorded" =>
            \A a \in Addrs :
               Effect(substate'.InputAlloc[a], substate'.OutputAlloc[a], View(sdb', a), before'[a])
      BY <2>1, <3>1, Zenon
    <3> QED BY <3>2, Zenon DEF SubstateIsEffect, Effect, Sliced
  <2>3. Remaining' = Remaining
    BY <2>1, Zenon DEF Remaining
  <2> QED BY <1>0, <2>1, <2>2, <2>3, Zenon DEF EffectInv
<1> QED BY <1>1, <1>2, <1>3, <1>4, <1>5, <1>6, <1>8, <1>9, <1>10, Zenon DEF Next

W == INSTANCE WellFoundedInduction

\* A set of lengths has a least one.
LEMMA LeastLength == WellOrdered
<1> SUFFICES ASSUME NEW T \in SUBSET Nat, T # {}
             PROVE  \E m \in T : \A i \in T : m <= i
  BY Zenon DEF WellOrdered
<1> DEFINE R == W!OpToRel(<, Nat)
<1>1. PICK m \in T : \A y \in T : ~(<<y, m>> \in R)
  <2> HIDE DEF R
  <2> QED BY W!WFMin, W!NatLessThanWellFounded, Zenon DEF R
<1>2. ASSUME NEW y \in T PROVE m <= y
  <2>1. y \in Nat /\ m \in Nat
    BY Zenon
  <2>2. y < m => <<y, m>> \in R
    BY <2>1, Zenon DEF W!OpToRel
  <2>3. ~(y < m)
    BY <1>1, <2>2, Zenon
  <2> QED BY <2>1, <2>3
<1> QED BY <1>2, Zenon

\* The substate that Process stores after a transaction is the transaction's effect on the
\* accounts, for any accounts and slots, whatever contracts do, however deep they call and
\* whichever of the calls fail and are reverted.
THEOREM StoresEffect == Spec => []SubstateIsEffect
<1>1. EffectInv => SubstateIsEffect
  BY Zenon DEF EffectInv
<1>2. EffectInv /\ [Next]_vars => EffectInv'
  BY LeastLength, StepEffect, Zenon
<1> QED BY <1>1, <1>2, InitEffect, PTL DEF Spec
=============================================================================
