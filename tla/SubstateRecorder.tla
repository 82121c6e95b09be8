-------------------------- MODULE SubstateRecorder --------------------------
(***************************************************************************)
(* Recording substates and replaying them.  Process (core/                  *)
(* state_processor.go) executes the transactions of a block on one StateDB  *)
(* and stores for each of them the accounts, slots and block hashes that    *)
(* the StateDB recorded.  replayTask (cmd/substate-cli/replay/replay.go)    *)
(* executes such a transaction again on a StateDB that holds nothing but    *)
(* the recorded input, and compares the outputs.                            *)
(*                                                                          *)
(* What contracts do is the environment's choice while a transaction is     *)
(* recorded: at any time the running frame executes any operation.  script  *)
(* keeps the operations with what the EVM saw of the state in each.  The    *)
(* EVM is deterministic, so a replay performs the same operations as long   *)
(* as it sees the same.                                                     *)
(***************************************************************************)
EXTENDS StateDB, FiniteSetsExt

CONSTANTS
  Sender,       \* the sender of every transaction, an account without code
  Coinbases,    \* who may mine a block
  Trie,         \* the account tries the first block may start from
  Fee,          \* gas that is paid for, in wei
  Reward,       \* what the engine pays for a block
  MsgValues,    \* ether sent along with a message
  Values,       \* ether sent along with a call or a creation in a contract
  SlotValues,   \* values of SSTORE
  CreatedAt,    \* addresses of created contracts
  ChainHashes,  \* hashes of the last 256 blocks, by number
  BlockNums,    \* operands of BLOCKHASH
  Rules,        \* values of IsEIP158, from which Byzantium's follows
  MaxTxs,       \* bound on the number of transactions
  MaxSteps,     \* bound on the operations of all transactions, returns apart
  MaxDepth      \* bound on the depth of calls

ASSUME RecorderAssumption ==
  /\ Sender \in Addrs /\ Coinbases \subseteq Addrs /\ CreatedAt \subseteq Addrs
  /\ \A trie \in Trie : trie = [a \in Addrs |-> trie[a]]
  /\ Fee \in Nat /\ MsgValues \subseteq Nat

VARIABLES
  phase,      \* "idle", "record", "recorded" or "replay"
  sdb,        \* the StateDB in use
  frames,     \* the call frames of the EVM, innermost last
  revertTo,   \* the journal length RevertToSnapshot goes back to
  script,     \* the operations of the transaction, with what they saw
  pos,        \* replay: operations performed
  parked,     \* replay: the StateDB of the block
  substate,   \* the Substate that was stored last
  outcome,    \* what the last replayTask returned
  before,     \* history: the accounts when the transaction began
  coinbase,   \* header.Coinbase
  isEIP158,   \* chainRules.IsEIP158
  txs,        \* transactions begun
  steps       \* operations executed, returns apart

vars == <<phase, sdb, frames, revertTo, script, pos, parked, substate, outcome,
          before, coinbase, isEIP158, txs, steps>>

\* no RevertToSnapshot is under way
NoRevert == -1

\* the chain's hashes of the blocks that BLOCKHASH answers for, by number
Recent == DOMAIN ChainHashes

Init ==
  /\ phase = "idle"
  /\ \E trie \in Trie : sdb = New(trie)
  /\ frames = <<>> /\ revertTo = NoRevert
  /\ script = <<>> /\ pos = 0
  /\ parked = Nil /\ substate = Nil /\ outcome = "none"
  /\ before = Nowhere
  /\ coinbase \in Coinbases
  /\ isEIP158 \in Rules
  /\ txs = 0 /\ steps = 0

-----------------------------------------------------------------------------
(* The state-changing operations of the EVM.  Each gives the StateDB and    *)
(* the frames afterwards and what the EVM saw of the state.                 *)

Top(f) == f[Len(f)]
Popped(f) == SubSeq(f, 1, Len(f) - 1)
Pushed(f, self, creates, static, snapshot) ==
  Append(f, [self |-> self, creates |-> creates, snapshot |-> snapshot,
             static |-> static \/ (f # <<>> /\ Top(f).static)])

Result(s, f, seen) == [sdb |-> s, frames |-> f, seen |-> seen]

\* the callee's code runs in a frame of its own; without code nothing does
RunCode(s, f, self, a, static, snapshot) ==
  Result(s, IF Account(s, a).code = NoCode THEN f
            ELSE Pushed(f, self, FALSE, static, snapshot), Account(s, a).code)

Transfer(s, from, to, value) == AddBalance(SubBalance(s, from, value), to, value)

\* evm.Call from the Snapshot on.  Addrs has no precompiled contracts.
CallExisting(s, f, caller, a, value) ==
  IF ~Exist(s, a) /\ isEIP158 /\ value = 0 THEN Result(s, f, "absent")
  ELSE RunCode(getStateObject(Transfer(IF Exist(s, a) THEN s ELSE CreateAccount(s, a),
                                       caller, a, value), a),
               f, a, a, FALSE, Len(s.journal))

\* evm.Call
Call(s, f, caller, a, value) ==
  IF value = 0 THEN CallExisting(getStateObject(s, a), f, caller, a, value)
  ELSE IF Account(s, caller).balance < value
  THEN Result(getStateObject(s, caller), f, "insufficient")
  ELSE CallExisting(getStateObject(getStateObject(s, caller), a), f, caller, a, value)

\* evm.StaticCall: adding nothing to the callee touches it
StaticCall(s, f, a) ==
  RunCode(getStateObject(AddBalance(s, a, 0), a), f, a, a, TRUE, Len(s.journal))

\* evm.DelegateCall and evm.CallCode run the callee's code on the caller's account
DelegateCall(s, f, a) ==
  RunCode(getStateObject(s, a), f, Top(f).self, a, FALSE, Len(s.journal))

\* evm.create from the collision check on
CreateUnlessTaken(s, f, caller, a, value) ==
  IF Account(s, a).nonce # 0 \/ Account(s, a).code # NoCode THEN Result(s, f, "collision")
  ELSE Result(Transfer(IF isEIP158 THEN SetNonce(CreateAccount(s, a), a, 1)
                       ELSE CreateAccount(s, a), caller, a, value),
              Pushed(f, a, TRUE, FALSE, Len(s.journal)), Account(s, caller).nonce)

\* evm.create; a failure after the nonce has been set leaves it so
Create(s, f, caller, a, value) ==
  IF Account(s, caller).balance < value
  THEN Result(getStateObject(s, caller), f, "insufficient")
  ELSE CreateUnlessTaken(
         getStateObject(SetNonce(getStateObject(s, caller), caller,
                                 Account(s, caller).nonce + 1), a),
         f, caller, a, value)

\* BALANCE, EXTCODESIZE, EXTCODECOPY, EXTCODEHASH, and the gas of a call
Inspect(s, f, a) ==
  Result(getStateObject(s, a), f,
         <<Exist(s, a), Account(s, a).balance, Account(s, a).code>>)

Sload(s, f, k) ==
  Result(GetState(s, Top(f).self, k), f, Slot(Account(s, Top(f).self), k))

\* the gas of SSTORE depends on the current and on the committed value
Sstore(s, f, k, v) ==
  Result(SetState(GetState(s, Top(f).self, k), Top(f).self, k, v), f,
         <<Slot(Account(s, Top(f).self), k), Account(s, Top(f).self).committed[k]>>)

\* evm.create stores the code that the init code returned; from Homestead on a
\* deployment that is refused is a failed frame
StoreCode(s, f, code) == IF Top(f).creates THEN SetCode(s, Top(f).self, code) ELSE s

\* the gas of SELFDESTRUCT depends on the beneficiary; the frame ends
Selfdestruct(s, f, beneficiary) ==
  LET self == Top(f).self
      found == getStateObject(getStateObject(s, beneficiary), self)
  IN Result(StoreCode(Suicide(AddBalance(found, beneficiary, Account(s, self).balance), self),
                      f, NoCode),
            Popped(f), <<Account(s, self).balance, Exist(s, beneficiary)>>)

\* the end of a frame
Leave(s, f, failed, code) ==
  Result(IF failed THEN s ELSE StoreCode(s, f, code), Popped(f), "left")

\* opBlockhash.  num is the operand: its low 64 bits, and whether it has more.  The
\* deferred function stores what is pushed under the low bits.
Blockhash(s, f, num, hashes) ==
  LET got == IF num.overflow \/ num.low \notin Recent THEN 0 ELSE hashes[num.low]
  IN Result([s EXCEPT !.ResearchBlockHashes =
               [n \in DOMAIN @ \union {num.low} |-> IF n = num.low THEN got ELSE @[n]]],
            f, got)

\* buyGas, then the nonce and the call of a message or a creation
ApplyMessage(s, to, creates, value) ==
  IF creates THEN Create(SubBalance(s, Sender, Fee), <<>>, Sender, to, value)
  ELSE Call(SetNonce(SubBalance(s, Sender, Fee), Sender, Account(s, Sender).nonce + 1),
            <<>>, Sender, to, value)

Operations ==
  [op : {"call"}, a : Addrs, value : Values]
    \union [op : {"static", "delegate", "inspect", "selfdestruct"}, a : Addrs]
    \union [op : {"create"}, a : CreatedAt, value : Values]
    \union [op : {"sload"}, k : Keys]
    \union [op : {"sstore"}, k : Keys, v : SlotValues]
    \union [op : {"blockhash"}, num : BlockNums]
    \union [op : {"return"}, failed : BOOLEAN, code : Codes]

Messages == [op : {"message"}, to : Addrs \ {Sender}, creates : BOOLEAN, value : MsgValues]

\* one operation; GetHash answers from hashes
Perform(s, f, o, hashes) ==
  CASE o.op = "message" -> ApplyMessage(Prepare(s), o.to, o.creates, o.value)
    [] o.op = "call" -> Call(s, f, Top(f).self, o.a, o.value)
    [] o.op = "static" -> StaticCall(s, f, o.a)
    [] o.op = "delegate" -> DelegateCall(s, f, o.a)
    [] o.op = "create" -> Create(s, f, Top(f).self, o.a, o.value)
    [] o.op = "inspect" -> Inspect(s, f, o.a)
    [] o.op = "selfdestruct" -> Selfdestruct(s, f, o.a)
    [] o.op = "sload" -> Sload(s, f, o.k)
    [] o.op = "sstore" -> Sstore(s, f, o.k, o.v)
    [] o.op = "blockhash" -> Blockhash(s, f, o.num, hashes)
    [] o.op = "return" -> Leave(s, f, o.failed, o.code)

\* the caller of a failed frame reverts to the snapshot it took
RevertsTo(f, o) == IF o.op = "return" /\ o.failed THEN Top(f).snapshot ELSE NoRevert

-----------------------------------------------------------------------------
(* Recording.                                                               *)

Running == frames # <<>> /\ revertTo = NoRevert

\* opcodes that a static frame refuses fail the frame, which is a failed return;
\* STATICCALL is younger than EIP-158
Permitted(o) ==
  /\ Top(frames).static =>
       /\ o.op \notin {"create", "sstore", "selfdestruct"}
       /\ o.op = "call" => o.value = 0
  /\ o.op = "static" => isEIP158
  /\ o.op = "return" => o.code = NoCode \/ (Top(frames).creates /\ ~o.failed)

\* before EIP-158 a creation does not number its account, but an address, made from the
\* creator and its nonce, never comes back; afterwards CREATE2 may repeat one
Reachable(o) ==
  o.op \in {"create", "message"} =>
    LET a == IF o.op = "create" THEN o.a ELSE o.to
        acc == Account(sdb, a)
    IN acc.nonce = 0 /\ acc.code = NoCode => \A k \in Keys : Slot(acc, k) = 0

BeginTx(m) ==
  /\ phase = "idle" /\ txs < MaxTxs /\ outcome \in {"none", "consistent"}
  /\ Account(sdb, Sender).balance >= Fee + m.value
  /\ IF m.creates THEN m.to \in CreatedAt /\ Reachable(m) ELSE Account(sdb, m.to).code # NoCode
  /\ \E r \in {Perform(sdb, <<>>, m, ChainHashes)} :
        /\ sdb' = r.sdb /\ frames' = r.frames
        /\ script' = <<[op |-> m, seen |-> r.seen]>>
  /\ before' = Accounts(sdb)
  /\ phase' = "record" /\ txs' = txs + 1 /\ revertTo' = NoRevert
  /\ UNCHANGED <<pos, parked, substate, outcome, coinbase, isEIP158, steps>>

Execute(o) ==
  /\ phase = "record" /\ Running /\ Permitted(o) /\ Reachable(o)
  /\ IF o.op = "return" THEN UNCHANGED steps ELSE steps < MaxSteps /\ steps' = steps + 1
  /\ o.op \in {"call", "static", "delegate", "create"} => Len(frames) < MaxDepth
  /\ \E r \in {Perform(sdb, frames, o, ChainHashes)} :
        /\ sdb' = r.sdb /\ frames' = r.frames
        /\ script' = Append(script, [op |-> o, seen |-> r.seen])
  /\ revertTo' = RevertsTo(frames, o)
  /\ UNCHANGED <<phase, pos, parked, substate, outcome, before, coinbase, isEIP158, txs>>

\* the loop of journal.revert, while recording and while replaying
RevertStep ==
  /\ revertTo # NoRevert
  /\ IF revertTo < Len(sdb.journal)
     THEN sdb' = revertLast(sdb) /\ UNCHANGED revertTo
     ELSE revertTo' = NoRevert /\ UNCHANGED sdb
  /\ UNCHANGED <<phase, frames, script, pos, parked, substate, outcome, before,
                 coinbase, isEIP158, txs, steps>>

\* the end of TransitionDb (refundGas, the miner's tip) and Finalise
Finished(s) ==
  Finalise(AddBalance(AddBalance(s, Sender, 0), coinbase, Fee), isEIP158)

\* Process stores the substate
PutSubstate ==
  /\ phase = "record" /\ frames = <<>> /\ revertTo = NoRevert
  /\ sdb' = Finished(sdb)
  /\ substate' = [InputAlloc |-> sdb'.ResearchPreAlloc, OutputAlloc |-> sdb'.ResearchPostAlloc,
                  BlockHashes |-> sdb'.ResearchBlockHashes]
  /\ phase' = "recorded"
  /\ UNCHANGED <<frames, revertTo, script, pos, parked, outcome, before, coinbase,
                 isEIP158, txs, steps>>

\* engine.Finalize pays the miner and the block is committed; the next one has a StateDB
\* of its own
NextBlock ==
  /\ phase = "idle" /\ 0 < txs /\ txs < MaxTxs /\ outcome = "consistent"
  /\ sdb.stateObjects # Nowhere
  /\ sdb' = New(Accounts(Finalise(AddBalance(sdb, coinbase, Reward), isEIP158)))
  /\ coinbase' \in Coinbases
  /\ UNCHANGED <<phase, frames, revertTo, script, pos, parked, substate, outcome,
                 before, isEIP158, txs, steps>>

-----------------------------------------------------------------------------
(* Replaying.                                                               *)

\* the body of the loop over the input
SetAccount(s, a, account) ==
  FoldSet(LAMBDA k, t : SetState(t, a, k, account.storage[k]),
          SetBalance(SetNonce(SetCode(s, a, account.code), a, account.nonce), a, account.balance),
          DOMAIN account.storage)

MakeOffTheChainStateDB(alloc) ==
  Commit(FoldSet(LAMBDA a, s : SetAccount(s, a, alloc[a]), New(Nowhere),
                 {a \in Addrs : alloc[a] # Absent}), FALSE)

ReplayTask ==
  /\ phase = "recorded"
  /\ phase' = "replay" /\ parked' = sdb /\ pos' = 0
  /\ sdb' = MakeOffTheChainStateDB(substate.InputAlloc)
  /\ UNCHANGED <<frames, revertTo, script, substate, outcome, before, coinbase,
                 isEIP158, txs, steps>>

\* the replay is over: the next transaction goes on with the block's StateDB
Return(result) ==
  /\ outcome' = result /\ phase' = "idle"
  /\ sdb' = parked /\ parked' = Nil
  /\ frames' = <<>> /\ revertTo' = NoRevert
  /\ script' = <<>> /\ pos' = 0 /\ substate' = Nil /\ before' = Nowhere
  /\ UNCHANGED <<coinbase, isEIP158, txs, steps>>

\* getHash of replayTask: a hash that was not recorded is zero, and an error
HashesOf(sub) ==
  [n \in Recent |-> IF n \in DOMAIN sub.BlockHashes THEN sub.BlockHashes[n] ELSE 0]

\* an operation that sees something else than it did takes the EVM another way
ReplayStep ==
  /\ phase = "replay" /\ revertTo = NoRevert /\ pos < Len(script)
  /\ \E e \in {script[pos + 1]} :
     \E r \in {Perform(sdb, frames, e.op, HashesOf(substate))} :
        IF r.seen # e.seen THEN Return("diverged")
        ELSE /\ sdb' = r.sdb /\ frames' = r.frames /\ pos' = pos + 1
             /\ revertTo' = RevertsTo(frames, e.op)
             /\ UNCHANGED <<phase, script, parked, substate, outcome, before, coinbase,
                            isEIP158, txs, steps>>

\* outputAlloc.Equal(evmAlloc)
Compare ==
  /\ phase = "replay" /\ revertTo = NoRevert /\ pos = Len(script)
  /\ Return(IF Finished(sdb).ResearchPostAlloc = substate.OutputAlloc
            THEN "consistent" ELSE "inconsistent output")

Next ==
  \/ \E m \in Messages : BeginTx(m)
  \/ \E o \in Operations : Execute(o)
  \/ RevertStep \/ PutSubstate \/ NextBlock
  \/ ReplayTask \/ ReplayStep \/ Compare

Spec == Init /\ [][Next]_vars

-----------------------------------------------------------------------------
(* What is recorded.                                                        *)

\* Every account that the StateDB has recorded for a transaction is the one that was
\* there when the transaction began, whatever has been created, reset, destroyed,
\* written or reverted since the first access; nil stands for one that was not there.
\* An account that is not recorded is still as it was.
InputIsPreState ==
  phase = "record" =>
    \A a \in Addrs :
       LET sa == sdb.ResearchPreAlloc[a]
       IN /\ sa = Absent => View(sdb, a) = before[a]
          /\ sa = Nil => before[a] = Absent
          /\ sa \notin {Absent, Nil} =>
               before[a] # Absent /\ sa = [before[a] EXCEPT !.storage = <<>>]

\* Whatever the journal can undo has been recorded: no setter, CreateAccount included,
\* gets at an account before getStateObject has seen it.
ChangesAreRecorded ==
  phase = "record" =>
    \A i \in 1 .. Len(sdb.journal) : sdb.ResearchPreAlloc[sdb.journal[i].account] # Absent

\* The stored substate is the effect of the transaction.  Its input has the old values
\* of accounts and slots.  An account in neither allocation is as before, one that is
\* only in the input is gone, and of one in the output the recorded slots have the new
\* values and all others the old ones.
SubstateIsEffect ==
  phase = "recorded" =>
    \A a \in Addrs :
       LET input == substate.InputAlloc[a]
           output == substate.OutputAlloc[a]
           after == View(sdb, a)
           Of(account, slots) ==
             [account EXCEPT !.storage = [k \in slots |-> account.storage[k]]]
       IN /\ input # Absent => input = Of(before[a], DOMAIN input.storage)
          /\ IF output = Absent
             THEN after = IF input = Absent THEN before[a] ELSE Absent
             ELSE /\ after # Absent
                  /\ output = Of(after, DOMAIN output.storage)
                  /\ \A k \in Keys \ DOMAIN output.storage :
                       after.storage[k] = IF before[a] = Absent THEN 0 ELSE before[a].storage[k]

\* A replay on nothing but the recorded input sees in every operation what the recorded
\* execution saw and ends with the recorded output: replayTask returns no error.
ReplayConsistent == outcome \in {"none", "consistent"}

\* Env holds the block information that the transaction needed: of each block in range
\* whose hash it asked for, the hash it was given.
EnvHasBlockHashes ==
  phase = "recorded" =>
    \A i \in 1 .. Len(script) :
       LET o == script[i].op
       IN o.op = "blockhash" /\ ~o.num.overflow =>
            o.num.low \in DOMAIN substate.BlockHashes
              /\ substate.BlockHashes[o.num.low] = script[i].seen
=============================================================================
