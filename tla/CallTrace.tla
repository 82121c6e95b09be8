------------------------------ MODULE CallTrace ------------------------------
(***************************************************************************)
(* The call-tree recorder added to the EVM: core/vm/evm.go and              *)
(* core/vm/interpreter.go.  While a message runs, every call that reaches   *)
(* the interpreter becomes an InternalTx on evm.CallStack; when it returns  *)
(* it is popped and attached to its caller, or to evm.ExTx when it is the   *)
(* outermost one.  The LOG opcodes of a frame are collected in a local      *)
(* variable of Run and stored in the frame's InternalTx only when the       *)
(* opcode loop is left by its break.                                        *)
(*                                                                          *)
(* nodes[i] is the i-th InternalTx that was made, so that i also gives the  *)
(* order in which calls started.  runs is the Go stack of the active        *)
(* invocations of Run (evm.depth is its length), logs the StateDB's log     *)
(* list that RevertToSnapshot truncates.                                    *)
(***************************************************************************)
EXTENDS Integers, Sequences, Functions

CONSTANTS
  CallCreateDepth,   \* params.CallCreateDepth, 1024 in the code
  MaxCalls,          \* bound on the calls recorded for one message
  MaxLogs,           \* bound on the length of the StateDB's log list
  IsHomestead,       \* evm.chainRules.IsHomestead
  SkipTransferTxs    \* the --skip-transfer-txs flag of the task pool

ASSUME TraceAssumption ==
  /\ CallCreateDepth \in Nat /\ MaxCalls \in Nat /\ MaxLogs \in Nat
  /\ IsHomestead \in BOOLEAN /\ SkipTransferTxs \in BOOLEAN

VARIABLES
  phase,      \* where TransitionDb is
  nodes,      \* every InternalTx made so far
  callStack,  \* evm.CallStack, as indices of nodes
  exTx,       \* evm.ExTx.InTxs, as indices of nodes
  runs,       \* the active invocations of Run
  readOnly,   \* interpreter.readOnly
  logs,       \* the logs of the transaction in the StateDB
  reverted    \* history: the nodes whose effects were rolled back

Last(seq) == seq[Len(seq)]
Front(seq) == SubSeq(seq, 1, Len(seq) - 1)

\* the sequences of a sequence, one after the other
Concat(seqs) ==
  LET upTo[i \in 0 .. Len(seqs)] == IF i = 0 THEN <<>> ELSE upTo[i - 1] \o seqs[i]
  IN  upTo[Len(seqs)]

vars == <<phase, nodes, callStack, exTx, runs, readOnly, logs, reverted>>

CallTypes == {"Call", "CallCode", "DelegateCall", "StaticCall", "Create"}

\* an Event: the call that executed the LOG and log.Index; Event{} for a LOG
\* that was refused
Blank == [by |-> 0, index |-> 0]

NewTx(type) == [CallType |-> type, InTxs |-> <<>>, Events |-> <<>>]

Init ==
  /\ phase = "ready"
  /\ nodes = <<>> /\ callStack = <<>> /\ exTx = <<>> /\ runs = <<>>
  /\ readOnly = FALSE
  /\ logs = <<>>
  /\ reverted = {}

-----------------------------------------------------------------------------
(* Entering a call.                                                         *)

\* TransitionDb makes the outermost Call or Create; inside Run the opcodes
\* make any of the five, and opCreate refuses when readOnly.
MayCall(type) ==
  \/ phase = "ready" /\ type \in {"Call", "Create"}
  \/ phase = "running" /\ (type = "Create" => ~readOnly)

\* push the InternalTx and start Run on it
Push(type, snapshot, static) ==
  /\ MayCall(type)
  /\ Len(runs) <= CallCreateDepth /\ Len(nodes) < MaxCalls
  /\ phase' = "running"
  /\ nodes' = Append(nodes, NewTx(type))
  /\ callStack' = Append(callStack, Len(nodes) + 1)
  /\ runs' = Append(runs, [tx |-> Len(nodes) + 1, events |-> <<>>,
                           snapshot |-> snapshot, static |-> static])
  /\ readOnly' = (readOnly \/ type = "StaticCall")
  /\ UNCHANGED <<exTx, logs, reverted>>

\* faulty variants: a static call inside a static call clears readOnly when it
\* returns; the snapshot predates the caller's last log
EnterStaticClears(type) == Push(type, Len(logs), type = "StaticCall")
EnterOldSnapshot(type) ==
  Push(type, IF logs = <<>> THEN 0 ELSE Len(logs) - 1, type = "StaticCall" /\ ~readOnly)

\* a call whose callee has code
Enter(type) == Push(type, Len(logs), type = "StaticCall" /\ ~readOnly)

\* the callee has no code and the call is not a Call: the InternalTx is pushed,
\* Run returns at once, and it is popped and attached
CallEmpty(type) ==
  /\ type # "Call" /\ MayCall(type)
  /\ Len(runs) <= CallCreateDepth /\ Len(nodes) < MaxCalls
  /\ LET made == Append(nodes, NewTx(type))
         me == Len(nodes) + 1
     IN IF callStack # <<>>
        THEN /\ nodes' = [made EXCEPT ![Last(callStack)].InTxs = Append(@, me)]
             /\ UNCHANGED <<exTx, phase>>
        ELSE /\ nodes' = made
             /\ exTx' = Append(exTx, me)
             /\ phase' = "returned"
  /\ UNCHANGED <<callStack, runs, readOnly, logs, reverted>>

\* a Call whose callee has no code: the InternalTx is appended to the caller's
\* without a push, which indexes CallStack at -1 when there is no caller; inTxs is the
\* caller's list with it
AppendLeaf(inTxs) ==
  /\ MayCall("Call")
  /\ phase = "ready" => ~SkipTransferTxs
  /\ Len(runs) <= CallCreateDepth /\ Len(nodes) < MaxCalls
  /\ IF callStack # <<>>
     THEN /\ nodes' = [Append(nodes, NewTx("Call")) EXCEPT
                         ![Last(callStack)].InTxs = inTxs]
          /\ UNCHANGED phase
     ELSE /\ phase' = "panicked"
          /\ UNCHANGED nodes
  /\ UNCHANGED <<callStack, exTx, runs, readOnly, logs, reverted>>

\* faulty variant: the leaf goes in front of the earlier calls
CallCodelessFirst == AppendLeaf(<<Len(nodes) + 1>> \o nodes[Last(callStack)].InTxs)

CallCodeless == AppendLeaf(Append(nodes[Last(callStack)].InTxs, Len(nodes) + 1))

\* a call that leaves no trace: too deep, not enough balance, a nonce or
\* address collision, a precompiled contract, an account that does not exist.
\* The outermost one can only be a refused Create or, when transfers are not
\* skipped, a Call to a precompiled or absent account.
CallUnrecorded(type) ==
  /\ MayCall(type)
  /\ phase = "ready" => type = "Create" \/ ~SkipTransferTxs
  /\ phase' = IF phase = "ready" THEN "returned" ELSE phase
  /\ UNCHANGED <<nodes, callStack, exTx, runs, readOnly, logs, reverted>>

-----------------------------------------------------------------------------
(* Running and leaving a frame.                                             *)

\* LOG0..LOG4 through makeLogSu and AddLogSu
Log ==
  /\ phase = "running" /\ ~readOnly /\ Len(logs) < MaxLogs
  /\ LET event == [by |-> Last(runs).tx, index |-> Len(logs)]
     IN /\ logs' = Append(logs, event)
        /\ runs' = [runs EXCEPT ![Len(runs)].events = Append(@, event)]
  /\ UNCHANGED <<phase, nodes, callStack, exTx, readOnly, reverted>>

\* faulty variant: only the outermost entry is popped
AttachPopsOutermost(stored) ==
  IF Len(callStack) > 1
  THEN /\ nodes' = [stored EXCEPT
              ![callStack[Len(callStack) - 1]].InTxs = Append(@, Last(callStack))]
       /\ UNCHANGED <<exTx, callStack>>
  ELSE /\ nodes' = stored
       /\ exTx' = Append(exTx, callStack[1])
       /\ callStack' = <<>>

\* pop the CallStack and add its last entry to the entry below it
Attach(stored) ==
  /\ callStack' = Front(callStack)
  /\ IF Len(callStack) > 1
     THEN /\ nodes' = [stored EXCEPT
                 ![callStack[Len(callStack) - 1]].InTxs = Append(@, Last(callStack))]
          /\ UNCHANGED exTx
     ELSE /\ nodes' = stored
          /\ exTx' = Append(exTx, callStack[1])

\* leaving Run and the call: Run's deferred functions, the attachment, and
\* RevertToSnapshot to the given length of the log list when the call failed
Unwind(stored, failed, snapshot) ==
  LET run == Last(runs)
  IN /\ Attach(stored)
     /\ runs' = Front(runs)
     /\ readOnly' = (readOnly /\ ~run.static)
     /\ phase' = IF Len(runs) = 1 THEN "returned" ELSE phase
     /\ IF failed
        THEN /\ logs' = SubSeq(logs, 1, snapshot)
             /\ reverted' = reverted \union (run.tx .. Len(nodes))
        ELSE UNCHANGED <<logs, reverted>>

\* faulty variant: a failing call rolls back the whole message's logs
LeaveRevertsAll(stored, failed) == Unwind(stored, failed, 0)

Leave(stored, failed) == Unwind(stored, failed, Last(runs).snapshot)

\* in.evm.CallStack[len - 1].Events = events
StoreEvents(events) == [nodes EXCEPT ![Last(callStack)].Events = events]

\* the loop is left by its break: a stop, a return, a revert or an opcode that
\* failed.  All but the first two fail the call.
ExecuteEnds(failed) ==
  /\ phase = "running"
  /\ Leave(StoreEvents(Last(runs).events), failed)

\* a LOG under readOnly: an empty Event is collected, and the loop ends
LogRefused ==
  /\ phase = "running" /\ readOnly
  /\ Leave(StoreEvents(Append(Last(runs).events, Blank)), TRUE)

\* a stack check or a gas charge fails: Run returns from inside the loop
EarlyReturn ==
  /\ phase = "running"
  /\ Leave(nodes, TRUE)

\* a creation whose code ran but is refused (size, first byte, cost of storing
\* it); before Homestead the last case is not rolled back
CreateRejected(outOfGas) ==
  /\ phase = "running" /\ nodes[Last(runs).tx].CallType = "Create"
  /\ Leave(StoreEvents(Last(runs).events), IsHomestead \/ ~outOfGas)

\* the check TransitionDb makes once the message has run
CheckCallStack ==
  /\ phase = "returned"
  /\ phase' = IF Len(callStack) > 0 THEN "callStackError" ELSE "done"
  /\ UNCHANGED <<nodes, callStack, exTx, runs, readOnly, logs, reverted>>

Next ==
  \/ \E type \in CallTypes :
        Enter(type) \/ CallEmpty(type) \/ CallUnrecorded(type)
  \/ CallCodeless
  \/ Log \/ LogRefused \/ EarlyReturn
  \/ \E failed \in BOOLEAN : ExecuteEnds(failed)
  \/ \E outOfGas \in BOOLEAN : CreateRejected(outOfGas)
  \/ CheckCallStack

Spec == Init /\ [][Next]_vars

-----------------------------------------------------------------------------
(* What the recorder must guarantee to the programs that read the tree.     *)

Ids == 1 .. Len(nodes)

Events == [by : Nat, index : Nat]

TypeOK ==
  /\ phase \in {"ready", "running", "returned", "done", "panicked", "callStackError"}
  /\ nodes \in Seq([CallType : CallTypes, InTxs : Seq(Ids), Events : Seq(Events)])
  /\ callStack \in Seq(Ids) /\ exTx \in Seq(Ids)
  /\ runs \in Seq([tx : Ids, events : Seq(Events), snapshot : 0 .. Len(logs),
                    static : BOOLEAN])
  /\ readOnly \in BOOLEAN
  /\ logs \in Seq(Events)
  /\ reverted \subseteq Ids

\* The CallStack and the nested invocations of Run stay in step, whatever mix of
\* calls with and without code, refused calls and failures happens: the entry
\* into which Run stores its events is the one of its own call.
RunsMatchCallStack == callStack = [i \in 1 .. Len(runs) |-> runs[i].tx]

\* The CallStack is empty when the message has run: TransitionDb's "The length of
\* CallStack is" error never happens.
CallStackEmptied == phase # "callStackError"

\* visit[n] lists the calls below n the way the readers of the tree walk it
Visit ==
  LET visit[n \in Ids] ==
        <<n>> \o Concat([i \in 1 .. Len(nodes[n].InTxs) |-> visit[nodes[n].InTxs[i]]])
  IN visit

\* A finished message leaves at most one tree in ExTx, which is what the readers
\* test for (len(ExTx.InTxs) == 1), and walking it depth first meets every recorded
\* call exactly once and in the order in which the calls were made.
TraceInExecutionOrder ==
  phase = "done" =>
    IF nodes = <<>> THEN exTx = <<>>
    ELSE Len(exTx) = 1 /\ Visit[exTx[1]] = [i \in Ids |-> i]

\* The events of the calls that were not rolled back, together with those still in
\* the local variables of Run, are exactly the StateDB's logs, and their indices
\* are the positions in it: a failed call never leaves a hole or a duplicate.
CommittedEventsAreLogs ==
  /\ \A k \in 1 .. Len(logs) : logs[k].index = k - 1
  /\ Range(logs) = (UNION {Range(nodes[n].Events) : n \in Ids \ reverted})
                     \union (UNION {Range(runs[i].events) : i \in 1 .. Len(runs)})

\* The interpreter is read-only exactly while some active call is a StaticCall,
\* including after a nested static call has returned.
ReadOnlyInStaticCalls ==
  readOnly <=> \E i \in 1 .. Len(runs) : nodes[runs[i].tx].CallType = "StaticCall"

\* Replaying a message never indexes an empty CallStack, in particular not for a
\* plain transfer, whose callee has no code.
NoPanic == phase # "panicked"
=============================================================================
