--------------------------- MODULE CallTraceProofs ---------------------------
(***************************************************************************)
(* The call tree that the EVM records is the tree of the calls, with the    *)
(* events of exactly the calls that were not rolled back, for messages of   *)
(* any depth, any number of calls and any number of logs.                   *)
(***************************************************************************)
EXTENDS CallTrace, TLAPS

Txs == [CallType : CallTypes, InTxs : Seq(Nat), Events : Seq(Events)]
Frames == [tx : Nat, events : Seq(Events), snapshot : Nat, static : BOOLEAN]
Depths == 1 .. Len(runs)

Types ==
  /\ phase \in {"ready", "running", "returned", "done", "panicked"}
  /\ nodes \in Seq(Txs)
  /\ callStack \in Seq(Nat) /\ exTx \in Seq(Nat)
  /\ runs \in Seq(Frames)
  /\ readOnly \in BOOLEAN
  /\ logs \in Seq(Events)
  /\ reverted \subseteq Ids

\* the active calls: newer ones lie deeper, and none of them was rolled back
Stack ==
  /\ callStack = [i \in Depths |-> runs[i].tx]
  /\ phase = "running" <=> Len(runs) > 0
  /\ \A i \in Depths : runs[i].tx \in Ids /\ runs[i].tx \notin reverted
  /\ \A i, j \in Depths : i < j => runs[i].tx < runs[j].tx

\* one static call at most has made the interpreter read-only, the outermost one
Static ==
  /\ readOnly <=> \E i \in Depths : runs[i].static
  /\ \A i, j \in Depths : runs[i].static /\ runs[j].static => i = j
  /\ \A i \in Depths : runs[i].static => nodes[runs[i].tx].CallType = "StaticCall"
  /\ \A i \in Depths : nodes[runs[i].tx].CallType = "StaticCall" =>
       \E j \in 1 .. i : runs[j].static

\* a snapshot separates the logs of the call and of those below it from the earlier ones
Snapshots ==
  /\ \A i \in Depths : runs[i].snapshot <= Len(logs)
  /\ \A i, j \in Depths : i < j => runs[i].snapshot <= runs[j].snapshot
  /\ \A i \in Depths, k \in 1 .. Len(logs) : k > runs[i].snapshot <=> logs[k].by >= runs[i].tx

\* an event of the logs is in the node of its call or, until then, with the call's Run;
\* nothing else is, except in nodes that were rolled back
LogsHeld ==
  \A k \in 1 .. Len(logs) :
    /\ logs[k].index = k - 1
    /\ logs[k].by \in Ids
    /\ \/ logs[k].by \notin reverted /\ logs[k] \in Range(nodes[logs[k].by].Events)
       \/ \E i \in Depths : logs[k] \in Range(runs[i].events)
StoredAreLogs ==
  \A n \in Ids \ reverted : \A e \in Range(nodes[n].Events) :
    e.by = n /\ \E k \in 1 .. Len(logs) : logs[k] = e
HeldAreLogs ==
  \A i \in Depths : \A e \in Range(runs[i].events) :
    e.by = runs[i].tx /\ \E k \in 1 .. Len(logs) : logs[k] = e
NotYetStored == \A i \in Depths : Range(nodes[runs[i].tx].Events) = {}

Committed == LogsHeld /\ StoredAreLogs /\ HeldAreLogs /\ NotYetStored

\* the calls below n that are attached to it are those from n to end[n], child after child
Branch(end, n) ==
  LET c == nodes[n].InTxs IN
  /\ end[n] \in n .. Len(nodes)
  /\ Len(c) = 0 => end[n] = n
  /\ Len(c) > 0 => c[1] = n + 1 /\ end[n] = end[c[Len(c)]]
  /\ \A j \in 1 .. Len(c) : c[j] \in Ids /\ c[j] > n
  /\ \A j \in 1 .. Len(c) - 1 : c[j + 1] = end[c[j]] + 1

\* active calls are not attached, and continue where the attached calls of their callers
\* end; the outermost call is the first one
Open(end) ==
  /\ \A n \in Ids : \A j \in 1 .. Len(nodes[n].InTxs), i \in Depths :
       nodes[n].InTxs[j] # runs[i].tx
  /\ \A i \in 1 .. Len(runs) - 1 : runs[i + 1].tx = end[runs[i].tx] + 1
  /\ Len(runs) > 0 => runs[1].tx = 1 /\ end[runs[Len(runs)].tx] = Len(nodes) /\ exTx = <<>>

Closed(end) ==
  /\ Len(runs) = 0 =>
       IF Len(nodes) = 0 THEN exTx = <<>> ELSE exTx = <<1>> /\ end[1] = Len(nodes)
  /\ phase = "ready" => Len(nodes) = 0

Numbered(end) == (\A n \in Ids : Branch(end, n)) /\ Open(end) /\ Closed(end)

Preorder == \E end \in [Ids -> Nat] : Numbered(end)

IInv == Types /\ Stack /\ Static /\ Snapshots /\ Committed

-----------------------------------------------------------------------------
(* What the steps do to the variables, index by index.                      *)

\* The lengths, the domains and the entries of the sequences of a state.
LEMMA Sequences ==
  ASSUME Types
  PROVE  /\ Len(nodes) \in Nat /\ DOMAIN nodes = Ids /\ Ids = 1 .. Len(nodes)
         /\ Len(runs) \in Nat /\ DOMAIN runs = Depths /\ Depths = 1 .. Len(runs)
         /\ Len(logs) \in Nat /\ DOMAIN logs = 1 .. Len(logs)
         /\ \A n \in Ids : nodes[n] \in Txs
         /\ \A i \in Depths : runs[i] \in Frames
         /\ \A k \in 1 .. Len(logs) : logs[k] \in Events
BY DEF Types, Ids, Depths

\* While a call runs, the last entry of the CallStack is the call of the last Run.
LEMMA Top ==
  ASSUME Types, Stack, phase = "running"
  PROVE  /\ Len(runs) \in Depths /\ Len(callStack) = Len(runs) /\ callStack # <<>>
         /\ Last(callStack) = runs[Len(runs)].tx /\ Last(runs) = runs[Len(runs)]
         /\ runs[Len(runs)].tx \in Ids /\ runs[Len(runs)] \in Frames
<1>1. Len(runs) \in Depths /\ Depths = 1 .. Len(runs)
  BY Sequences DEF Stack
<1>2. Len(callStack) = Len(runs) /\ callStack # <<>>
  BY <1>1, Sequences DEF Stack
<1>3. callStack[Len(runs)] = runs[Len(runs)].tx
  BY <1>1, Zenon DEF Stack
<1> QED BY <1>1, <1>2, <1>3, Sequences, Zenon DEF Stack, Last

\* The CallStack is empty when no call runs.
LEMMA NoTop ==
  ASSUME Types, Stack, phase # "running"
  PROVE  Len(runs) = 0 /\ Depths = {} /\ callStack = <<>> /\ runs = <<>>
<1>1. Len(runs) = 0
  BY Sequences DEF Stack
<1>2. Depths = {} /\ runs = <<>>
  BY <1>1, Sequences DEF Types
<1> QED BY <1>1, <1>2 DEF Stack

\* A new InternalTx is a node.
LEMMA NewTxType ==
  ASSUME NEW type \in CallTypes
  PROVE  NewTx(type) \in Txs
BY DEF NewTx, Txs

\* Appending an event adds it and nothing else.
LEMMA RangeAppend ==
  ASSUME NEW S, NEW s \in Seq(S), NEW e \in S
  PROVE  Range(Append(s, e)) = Range(s) \union {e}
<1>1. /\ Len(s) \in Nat /\ DOMAIN s = 1 .. Len(s) /\ DOMAIN Append(s, e) = 1 .. Len(s) + 1
      /\ \A i \in 1 .. Len(s) : Append(s, e)[i] = s[i]
      /\ Append(s, e)[Len(s) + 1] = e
  OBVIOUS
<1>2. /\ \A i \in DOMAIN Append(s, e) : i \in DOMAIN s \/ i = Len(s) + 1
      /\ \A i \in DOMAIN s : i \in DOMAIN Append(s, e)
      /\ Len(s) + 1 \in DOMAIN Append(s, e)
  BY <1>1
<1> QED BY <1>1, <1>2, Zenon DEF Range

\* A sequence with one entry replaced is one of the same length.
LEMMA SeqUpdate ==
  ASSUME NEW S, NEW s \in Seq(S), NEW i \in 1 .. Len(s), NEW e \in S
  PROVE  [s EXCEPT ![i] = e] \in Seq(S) /\ Len([s EXCEPT ![i] = e]) = Len(s)
OBVIOUS

\* A prefix of a sequence.
LEMMA SeqPrefix ==
  ASSUME NEW S, NEW s \in Seq(S), NEW k \in 0 .. Len(s)
  PROVE  /\ SubSeq(s, 1, k) \in Seq(S) /\ Len(SubSeq(s, 1, k)) = k
         /\ \A i \in 1 .. k : SubSeq(s, 1, k)[i] = s[i]
OBVIOUS

\* Changing one field of a node or of a frame leaves the others.
LEMMA WithInTxs ==
  ASSUME NEW tx \in Txs, NEW list \in Seq(Nat)
  PROVE  LET new == [tx EXCEPT !.InTxs = list] IN
         new \in Txs /\ new.InTxs = list /\ new.CallType = tx.CallType /\ new.Events = tx.Events
BY Zenon DEF Txs

\* The same for the events of a node.
LEMMA WithEvents ==
  ASSUME NEW tx \in Txs, NEW list \in Seq(Events)
  PROVE  LET new == [tx EXCEPT !.Events = list] IN
         new \in Txs /\ new.Events = list /\ new.CallType = tx.CallType /\ new.InTxs = tx.InTxs
BY Zenon DEF Txs

\* The same for the events of a frame.
LEMMA WithFrameEvents ==
  ASSUME NEW run \in Frames, NEW list \in Seq(Events)
  PROVE  LET new == [run EXCEPT !.events = list] IN
         /\ new \in Frames /\ new.events = list
         /\ new.tx = run.tx /\ new.snapshot = run.snapshot /\ new.static = run.static
BY Zenon DEF Frames

\* A call that is pushed and run is a new node and a new frame; nothing else changes.
LEMMA PushStep ==
  ASSUME Types, Stack, NEW type \in CallTypes, Enter(type)
  PROVE  /\ nodes' \in Seq(Txs) /\ Len(nodes') = Len(nodes) + 1 /\ Ids' = 1 .. Len(nodes) + 1
         /\ \A n \in Ids : nodes'[n] = nodes[n]
         /\ nodes'[Len(nodes) + 1] = NewTx(type)
         /\ runs' \in Seq(Frames) /\ Len(runs') = Len(runs) + 1 /\ Depths' = 1 .. Len(runs) + 1
         /\ \A i \in Depths : runs'[i] = runs[i]
         /\ runs'[Len(runs) + 1] = [tx |-> Len(nodes) + 1, events |-> <<>>,
              snapshot |-> Len(logs), static |-> type = "StaticCall" /\ ~readOnly]
         /\ callStack' = [i \in Depths' |-> runs'[i].tx]
         /\ phase' = "running" /\ (phase = "ready" \/ phase = "running")
         /\ readOnly' = (readOnly \/ type = "StaticCall")
         /\ UNCHANGED <<exTx, logs, reverted>>
<1> DEFINE new == [tx |-> Len(nodes) + 1, events |-> <<>>,
              snapshot |-> Len(logs), static |-> type = "StaticCall" /\ ~readOnly]
<1>1. /\ nodes' = Append(nodes, NewTx(type)) /\ runs' = Append(runs, new)
      /\ callStack' = Append(callStack, Len(nodes) + 1)
  BY Zenon DEF Enter, Push
<1>2. /\ phase' = "running" /\ (phase = "ready" \/ phase = "running")
      /\ readOnly' = (readOnly \/ type = "StaticCall")
      /\ UNCHANGED <<exTx, logs, reverted>>
  BY Zenon DEF Enter, Push, MayCall
<1>3. /\ nodes' \in Seq(Txs) /\ Len(nodes') = Len(nodes) + 1 /\ Ids' = 1 .. Len(nodes) + 1
      /\ \A n \in Ids : nodes'[n] = nodes[n]
      /\ nodes'[Len(nodes) + 1] = NewTx(type)
  BY <1>1, NewTxType DEF Types, Ids
<1>4. new \in Frames
  BY Sequences DEF Frames
<1>5. new.tx = Len(nodes) + 1
  BY Zenon
<1> HIDE DEF new
<1>6. /\ runs' \in Seq(Frames) /\ Len(runs') = Len(runs) + 1 /\ Depths' = 1 .. Len(runs) + 1
      /\ \A i \in Depths : runs'[i] = runs[i]
      /\ runs'[Len(runs) + 1] = new
  BY <1>1, <1>4 DEF Types, Depths
<1>7. callStack' = [i \in Depths' |-> runs'[i].tx]
  <2>1. Len(runs) \in Nat /\ Len(callStack) = Len(runs) /\ \A i \in Depths : callStack[i] = runs[i].tx
    BY Sequences DEF Stack
  <2>2. callStack' \in Seq(Nat) /\ Len(callStack') = Len(runs) + 1
    BY <1>1, <2>1, Sequences DEF Types
  <2>3. \A i \in 1 .. Len(runs) : callStack'[i] = callStack[i]
    BY <1>1, <2>1 DEF Types
  <2>4. callStack'[Len(runs) + 1] = Len(nodes) + 1
    BY <1>1, <2>1 DEF Types
  <2>5. \A i \in 1 .. Len(runs) + 1 : i \in 1 .. Len(runs) \/ i = Len(runs) + 1
    BY <2>1
  <2>6. \A i \in 1 .. Len(runs) + 1 : callStack'[i] = runs'[i].tx
    BY <1>5, <1>6, <2>1, <2>3, <2>4, <2>5, Zenon DEF Depths
  <2> QED BY <1>6, <2>2, <2>6
<1> QED BY <1>2, <1>3, <1>6, <1>7, Zenon DEF new

\* A call without a Run of its own, made by a running call, is a new node attached to it.
LEMMA LeafStep ==
  ASSUME Types, Stack, phase = "running", NEW type \in CallTypes,
         CallEmpty(type) \/ (CallCodeless /\ type = "Call")
  PROVE  LET top == runs[Len(runs)].tx IN
         /\ nodes' \in Seq(Txs) /\ Len(nodes') = Len(nodes) + 1 /\ Ids' = 1 .. Len(nodes) + 1
         /\ \A n \in Ids : /\ nodes'[n].CallType = nodes[n].CallType
                           /\ nodes'[n].Events = nodes[n].Events
                           /\ n # top => nodes'[n].InTxs = nodes[n].InTxs
         /\ nodes'[top].InTxs = Append(nodes[top].InTxs, Len(nodes) + 1)
         /\ nodes'[Len(nodes) + 1] = NewTx(type)
         /\ UNCHANGED <<phase, callStack, exTx, runs, readOnly, logs, reverted>>
<1> DEFINE top == runs[Len(runs)].tx
           made == Append(nodes, NewTx(type))
           list == Append(nodes[top].InTxs, Len(nodes) + 1)
<1>1. top \in Ids /\ Last(callStack) = top /\ callStack # <<>>
  BY Top, Zenon
<1>2. /\ made \in Seq(Txs) /\ Len(made) = Len(nodes) + 1 /\ DOMAIN made = 1 .. Len(nodes) + 1
      /\ \A n \in Ids : made[n] = nodes[n]
      /\ made[Len(nodes) + 1] = NewTx(type)
  BY NewTxType DEF Types, Ids
<1>3. list \in Seq(Nat)
  BY <1>1, Sequences DEF Txs
<1>4. UNCHANGED <<phase, callStack, exTx, runs, readOnly, logs, reverted>>
  BY <1>1, Zenon DEF CallEmpty, CallCodeless, AppendLeaf
<1> HIDE DEF top
<1>5. nodes' = [made EXCEPT ![top].InTxs = list]
  <2>1. CASE CallEmpty(type)
    <3>1. nodes' = [made EXCEPT ![top].InTxs = Append(@, Len(nodes) + 1)]
      BY <1>1, <2>1, Zenon DEF CallEmpty
    <3>2. made[top] = nodes[top]
      BY <1>1, <1>2, Zenon
    <3> QED BY <3>1, <3>2, Zenon
  <2>2. CASE CallCodeless /\ type = "Call"
    BY <1>1, <2>2, Zenon DEF CallCodeless, AppendLeaf
  <2> QED BY <2>1, <2>2, Zenon
<1> HIDE DEF made, list
<1>6. /\ made[top] \in Txs /\ [made[top] EXCEPT !.InTxs = list] \in Txs
      /\ top \in 1 .. Len(nodes) + 1 /\ top # Len(nodes) + 1
  <2>1. made[top] \in Txs
    BY <1>1, <1>2, Sequences, Zenon
  <2>2. top \in 1 .. Len(nodes) + 1 /\ top # Len(nodes) + 1
    BY <1>1, Sequences
  <2> QED BY <1>3, <2>1, <2>2, WithInTxs, Zenon
<1>7. nodes' = [made EXCEPT ![top] = [made[top] EXCEPT !.InTxs = list]]
  BY <1>5, Zenon
<1>8. /\ nodes' \in Seq(Txs) /\ Len(nodes') = Len(nodes) + 1
      /\ DOMAIN nodes' = DOMAIN made
  BY <1>2, <1>6, <1>7
<1>9. Ids' = 1 .. Len(nodes) + 1
  BY <1>8, Zenon DEF Ids
<1>10. nodes'[top] = [made[top] EXCEPT !.InTxs = list]
  BY <1>2, <1>6, <1>7, Zenon
<1>11. \A n \in 1 .. Len(nodes) + 1 : n # top => nodes'[n] = made[n]
  BY <1>2, <1>7, Zenon
<1>12. /\ nodes'[top].CallType = nodes[top].CallType /\ nodes'[top].Events = nodes[top].Events
       /\ nodes'[top].InTxs = list
  <2>1. made[top] = nodes[top]
    BY <1>1, <1>2, Zenon
  <2> QED BY <1>3, <1>6, <1>10, <2>1, WithInTxs
<1>13. \A n \in Ids : n # top => nodes'[n] = nodes[n]
  BY <1>2, <1>11, Sequences
<1>14. nodes'[Len(nodes) + 1] = NewTx(type)
  BY <1>2, <1>6, <1>11, Sequences
<1> QED BY <1>4, <1>8, <1>9, <1>12, <1>13, <1>14, Zenon DEF top, list

\* The outermost call, when its callee has no code, is the only node.
LEMMA RootLeafStep ==
  ASSUME Types, Stack, phase # "running", NEW type \in CallTypes, CallEmpty(type)
  PROVE  /\ phase = "ready" /\ phase' = "returned"
         /\ nodes' = Append(nodes, NewTx(type))
         /\ exTx' = Append(exTx, Len(nodes) + 1)
         /\ nodes' \in Seq(Txs) /\ Len(nodes') = Len(nodes) + 1 /\ Ids' = 1 .. Len(nodes) + 1
         /\ \A n \in Ids : nodes'[n] = nodes[n]
         /\ nodes'[Len(nodes) + 1] = NewTx(type)
         /\ UNCHANGED <<callStack, runs, readOnly, logs, reverted>>
<1>1. callStack = <<>>
  BY NoTop, Zenon
<1>2. /\ phase = "ready" /\ phase' = "returned"
      /\ nodes' = Append(nodes, NewTx(type)) /\ exTx' = Append(exTx, Len(nodes) + 1)
      /\ UNCHANGED <<callStack, runs, readOnly, logs, reverted>>
  BY <1>1, Zenon DEF CallEmpty, MayCall
<1>3. /\ nodes' \in Seq(Txs) /\ Len(nodes') = Len(nodes) + 1 /\ Ids' = 1 .. Len(nodes) + 1
      /\ \A n \in Ids : nodes'[n] = nodes[n]
      /\ nodes'[Len(nodes) + 1] = NewTx(type)
  BY <1>2, NewTxType DEF Types, Ids
<1> QED BY <1>2, <1>3, Zenon

\* A LOG adds its event to the StateDB and to the events of the last Run.
LEMMA LogStep ==
  ASSUME Types, Stack, Log
  PROVE  LET event == [by |-> runs[Len(runs)].tx, index |-> Len(logs)] IN
         /\ phase = "running" /\ event \in Events
         /\ logs' \in Seq(Events) /\ Len(logs') = Len(logs) + 1
         /\ \A k \in 1 .. Len(logs) : logs'[k] = logs[k]
         /\ logs'[Len(logs) + 1] = event
         /\ runs' \in Seq(Frames) /\ Len(runs') = Len(runs) /\ Depths' = Depths
         /\ \A i \in Depths : /\ runs'[i].tx = runs[i].tx
                              /\ runs'[i].snapshot = runs[i].snapshot
                              /\ runs'[i].static = runs[i].static
                              /\ i # Len(runs) => runs'[i].events = runs[i].events
         /\ runs'[Len(runs)].events = Append(runs[Len(runs)].events, event)
         /\ UNCHANGED <<phase, nodes, callStack, exTx, readOnly, reverted>>
<1> DEFINE last == Len(runs)
           event == [by |-> runs[last].tx, index |-> Len(logs)]
           new == [runs[last] EXCEPT !.events = Append(@, event)]
<1>1. phase = "running" /\ UNCHANGED <<phase, nodes, callStack, exTx, readOnly, reverted>>
  BY Zenon DEF Log
<1>2. last \in Depths /\ Last(runs) = runs[last] /\ runs[last] \in Frames
  BY <1>1, Top, Zenon
<1>3. event \in Events
  BY <1>2, Sequences, Zenon DEF Events, Frames
<1>4. logs' = Append(logs, event) /\ runs' = [runs EXCEPT ![last] = new]
  BY <1>2, Zenon DEF Log
<1> HIDE DEF event
<1>5. /\ logs' \in Seq(Events) /\ Len(logs') = Len(logs) + 1
      /\ \A k \in 1 .. Len(logs) : logs'[k] = logs[k]
      /\ logs'[Len(logs) + 1] = event
  BY <1>3, <1>4 DEF Types
<1>6. /\ new \in Frames /\ new.events = Append(runs[last].events, event)
      /\ new.tx = runs[last].tx /\ new.snapshot = runs[last].snapshot
      /\ new.static = runs[last].static
  <2>1. runs[last].events \in Seq(Events)
    BY <1>2, Zenon DEF Frames
  <2>2. Append(runs[last].events, event) \in Seq(Events)
    BY <1>3, <2>1
  <2> QED BY <1>2, <2>2, WithFrameEvents, Zenon
<1> HIDE DEF new, last
<1>7. runs' \in Seq(Frames) /\ Len(runs') = Len(runs)
  BY <1>2, <1>4, <1>6, Sequences, SeqUpdate DEF Types
<1>8. runs'[last] = new /\ \A i \in Depths : i # last => runs'[i] = runs[i]
  BY <1>2, <1>4, Sequences, Zenon
<1>9. Depths' = Depths
  BY <1>7, Zenon DEF Depths
<1> QED BY <1>1, <1>3, <1>5, <1>6, <1>7, <1>8, <1>9, Zenon DEF event, last

\* The nodes with the events that the last Run has stored, or not stored, in its own.
Stores(stored, failed) ==
  LET top == runs[Len(runs)].tx IN
  /\ stored \in Seq(Txs) /\ Len(stored) = Len(nodes)
  /\ \A n \in Ids : /\ stored[n].CallType = nodes[n].CallType
                    /\ stored[n].InTxs = nodes[n].InTxs
                    /\ n # top => stored[n].Events = nodes[n].Events
  /\ failed \/ stored[top].Events = runs[Len(runs)].events

\* Storing events in the last entry of the CallStack changes the node of the last Run.
LEMMA StoreEventsStores ==
  ASSUME Types, Stack, phase = "running", NEW events \in Seq(Events), NEW failed \in BOOLEAN,
         failed \/ events = runs[Len(runs)].events
  PROVE  Stores(StoreEvents(events), failed)
<1> DEFINE top == runs[Len(runs)].tx
           new == [nodes[top] EXCEPT !.Events = events]
           stored == StoreEvents(events)
<1>1. top \in Ids /\ Last(callStack) = top /\ nodes[top] \in Txs
  BY Top, Sequences, Zenon
<1>2. stored = [nodes EXCEPT ![top] = new]
  BY <1>1, Zenon DEF StoreEvents
<1>3. new \in Txs /\ new.Events = events /\ new.CallType = nodes[top].CallType
      /\ new.InTxs = nodes[top].InTxs
  BY <1>1, WithEvents, Zenon
<1> HIDE DEF top, new, stored
<1>4. stored \in Seq(Txs) /\ Len(stored) = Len(nodes)
  BY <1>1, <1>2, <1>3, Sequences, SeqUpdate DEF Types
<1>5. stored[top] = new /\ \A n \in Ids : n # top => stored[n] = nodes[n]
  BY <1>1, <1>2, Sequences, Zenon
<1> QED BY <1>3, <1>4, <1>5, Zenon DEF Stores, top, stored

\* Every way of leaving a Run keeps the tree, and either fails the call or stores exactly
\* the events of the Run in its own node.
LEMMA Leaving ==
  ASSUME Types, Stack,
         \/ \E failed \in BOOLEAN : ExecuteEnds(failed)
         \/ LogRefused
         \/ EarlyReturn
         \/ \E outOfGas \in BOOLEAN : CreateRejected(outOfGas)
  PROVE  /\ phase = "running"
         /\ \E failed \in BOOLEAN : \E stored \in Seq(Txs) :
              Stores(stored, failed) /\ Leave(stored, failed)
<1> DEFINE events == runs[Len(runs)].events
<1>1. phase = "running"
  BY Zenon DEF ExecuteEnds, LogRefused, EarlyReturn, CreateRejected
<1>2. /\ Last(runs).events = events /\ events \in Seq(Events)
      /\ Append(events, Blank) \in Seq(Events)
  <2>1. Last(runs).events = events /\ events \in Seq(Events)
    BY <1>1, Top, Zenon DEF Frames
  <2>2. Blank \in Events
    BY Zenon DEF Blank, Events
  <2> HIDE DEF events
  <2> QED BY <2>1, <2>2
<1>3. ASSUME NEW failed \in BOOLEAN
      PROVE  Stores(StoreEvents(events), failed)
  BY <1>1, <1>2, StoreEventsStores, Zenon
<1>4. Stores(StoreEvents(Append(events, Blank)), TRUE)
  BY <1>1, <1>2, StoreEventsStores, Zenon
<1>5. Stores(nodes, TRUE)
  BY Zenon DEF Stores, Types
<1> HIDE DEF events
<1>6. ASSUME NEW failed \in BOOLEAN, ExecuteEnds(failed)
      PROVE  Stores(StoreEvents(events), failed) /\ Leave(StoreEvents(events), failed)
  BY <1>2, <1>3, <1>6, Zenon DEF ExecuteEnds
<1>7. CASE LogRefused
  BY <1>1, <1>2, <1>4, <1>7, Zenon DEF LogRefused, Stores
<1>8. CASE EarlyReturn
  BY <1>1, <1>5, <1>8, Zenon DEF EarlyReturn, Stores
<1>9. ASSUME NEW outOfGas \in BOOLEAN, CreateRejected(outOfGas)
      PROVE  \E failed \in BOOLEAN :
               Stores(StoreEvents(events), failed) /\ Leave(StoreEvents(events), failed)
  <2>1. (IsHomestead \/ ~outOfGas) \in BOOLEAN
    BY Zenon
  <2> QED BY <1>2, <1>3, <1>9, <2>1, Zenon DEF CreateRejected
<1> QED BY <1>1, <1>6, <1>7, <1>8, <1>9, Zenon DEF Stores

\* What leaving a Run does.
LEMMA LeaveStep ==
  ASSUME Types, Stack, phase = "running", NEW failed \in BOOLEAN, NEW stored \in Seq(Txs),
         Stores(stored, failed), Leave(stored, failed)
  PROVE  LET last == Len(runs)
             top == runs[last].tx
         IN /\ nodes' \in Seq(Txs) /\ Len(nodes') = Len(nodes) /\ Ids' = Ids
            /\ \A n \in Ids : /\ nodes'[n].CallType = nodes[n].CallType
                              /\ nodes'[n].Events = stored[n].Events
                              /\ last = 1 \/ n # runs[last - 1].tx =>
                                   nodes'[n].InTxs = nodes[n].InTxs
            /\ last > 1 => nodes'[runs[last - 1].tx].InTxs =
                             Append(nodes[runs[last - 1].tx].InTxs, top)
            /\ exTx' = IF last > 1 THEN exTx ELSE Append(exTx, top)
            /\ runs' \in Seq(Frames) /\ Len(runs') = last - 1 /\ Depths' = 1 .. last - 1
            /\ \A i \in Depths' : i \in Depths /\ i < last /\ runs'[i] = runs[i]
            /\ callStack' = [i \in Depths' |-> runs'[i].tx]
            /\ readOnly' = (readOnly /\ ~runs[last].static)
            /\ phase' = IF last = 1 THEN "returned" ELSE "running"
            /\ logs' = IF failed THEN SubSeq(logs, 1, runs[last].snapshot) ELSE logs
            /\ reverted' = IF failed THEN reverted \union (top .. Len(nodes)) ELSE reverted
<1> DEFINE last == Len(runs)
           top == runs[last].tx
           below == runs[last - 1].tx
           list == Append(nodes[below].InTxs, top)
           new == [stored[below] EXCEPT !.InTxs = list]
<1>1. /\ last \in Depths /\ Len(callStack) = last /\ Last(callStack) = top
      /\ Last(runs) = runs[last] /\ top \in Ids /\ Depths = 1 .. last /\ last \in Nat
  BY Top, Sequences, Zenon
<1>2. /\ Attach(stored) /\ runs' = Front(runs) /\ readOnly' = (readOnly /\ ~runs[last].static)
      /\ phase' = IF last = 1 THEN "returned" ELSE "running"
      /\ logs' = IF failed THEN SubSeq(logs, 1, runs[last].snapshot) ELSE logs
      /\ reverted' = IF failed THEN reverted \union (top .. Len(nodes)) ELSE reverted
  BY <1>1, Zenon DEF Leave, Unwind
<1>3. /\ runs' \in Seq(Frames) /\ Len(runs') = last - 1 /\ Depths' = 1 .. last - 1
      /\ \A i \in Depths' : i \in Depths /\ i < last /\ runs'[i] = runs[i]
  <2>1. runs' = SubSeq(runs, 1, last - 1)
    BY <1>2, Zenon DEF Front
  <2>2. /\ runs' \in Seq(Frames) /\ Len(runs') = last - 1
        /\ \A i \in 1 .. last - 1 : runs'[i] = runs[i]
    BY <1>1, <2>1 DEF Types
  <2> QED BY <1>1, <2>2 DEF Depths
<1>4. callStack' = [i \in Depths' |-> runs'[i].tx]
  <2>1. callStack' = SubSeq(callStack, 1, last - 1)
    BY <1>1, <1>2, Zenon DEF Attach, Front
  <2>2. /\ callStack' \in Seq(Nat) /\ Len(callStack') = last - 1
        /\ \A i \in 1 .. last - 1 : callStack'[i] = callStack[i]
    <3>1. callStack \in Seq(Nat) /\ last - 1 \in 0 .. Len(callStack)
      BY <1>1 DEF Types
    <3> QED BY <2>1, <3>1, SeqPrefix, Zenon
  <2>3. \A i \in 1 .. last - 1 : callStack[i] = runs[i].tx
    BY <1>1 DEF Stack
  <2> HIDE DEF last
  <2>4. \A i \in 1 .. last - 1 : callStack'[i] = runs'[i].tx
    BY <1>3, <2>2, <2>3, Zenon
  <2> QED BY <1>3, <2>2, <2>4
<1>5. /\ stored \in Seq(Txs) /\ Len(stored) = Len(nodes) /\ DOMAIN stored = Ids
      /\ \A n \in Ids : /\ stored[n].CallType = nodes[n].CallType
                        /\ stored[n].InTxs = nodes[n].InTxs
  BY Sequences DEF Stores, Ids
<1>6. CASE last > 1
  <2>1. last - 1 \in Depths /\ below \in Ids /\ callStack[last - 1] = below
    BY <1>1, <1>6 DEF Stack
  <2>2. nodes' = [stored EXCEPT ![below].InTxs = Append(@, top)] /\ exTx' = exTx
    BY <1>1, <1>2, <1>6, <2>1, Zenon DEF Attach
  <2>3. nodes' = [stored EXCEPT ![below] = new]
    BY <1>5, <2>1, <2>2, Zenon
  <2>4. list \in Seq(Nat)
    <3>1. nodes[below].InTxs \in Seq(Nat) /\ top \in Nat
      BY <1>1, <2>1, Sequences DEF Txs
    <3> HIDE DEF below, top
    <3> QED BY <3>1
  <2>5. /\ new \in Txs /\ new.InTxs = list /\ new.CallType = stored[below].CallType
        /\ new.Events = stored[below].Events
    <3>1. stored[below] \in Txs
      BY <1>5, <2>1
    <3> HIDE DEF list, below
    <3> QED BY <2>4, <3>1, WithInTxs, Zenon
  <2> HIDE DEF new, list, below, top, last
  <2>6. nodes' \in Seq(Txs) /\ Len(nodes') = Len(nodes) /\ Ids' = Ids
    BY <1>5, <2>1, <2>3, <2>5, Sequences, SeqUpdate DEF Ids
  <2>7. nodes'[below] = new /\ \A n \in Ids : n # below => nodes'[n] = stored[n]
    BY <1>5, <2>1, <2>3, Zenon
  <2>8. /\ \A n \in Ids : /\ nodes'[n].CallType = nodes[n].CallType
                          /\ nodes'[n].Events = stored[n].Events
                          /\ n # below => nodes'[n].InTxs = nodes[n].InTxs
        /\ nodes'[below].InTxs = list
    BY <1>5, <2>1, <2>5, <2>7
  <2>9. last # 1
    BY <1>1, <1>6
  <2> QED BY <1>2, <1>3, <1>4, <1>6, <2>2, <2>6, <2>8, <2>9, Zenon DEF list, below, top, last
<1>7. CASE ~(last > 1)
  <2>1. last = 1 /\ callStack[1] = top
    BY <1>1, <1>7 DEF Stack
  <2>2. nodes' = stored /\ exTx' = Append(exTx, top)
    BY <1>1, <1>2, <1>7, <2>1, Zenon DEF Attach
  <2>3. nodes' \in Seq(Txs) /\ Len(nodes') = Len(nodes) /\ Ids' = Ids
    BY <1>5, <2>2, Zenon DEF Ids
  <2> HIDE DEF below, top, last
  <2> QED BY <1>2, <1>3, <1>4, <1>5, <1>7, <2>1, <2>2, <2>3, Zenon DEF below, top, last
<1> QED BY <1>6, <1>7, Zenon

-----------------------------------------------------------------------------
(* The invariant is kept.                                                    *)

\* A message starts without calls, frames and logs.
LEMMA InitIInv == Init => IInv
<1> SUFFICES ASSUME Init PROVE IInv
  BY Zenon
<1>1. Len(nodes) = 0 /\ Len(runs) = 0 /\ Len(logs) = 0 /\ Ids = {} /\ Depths = {}
  BY DEF Init, Ids, Depths
<1>2. Types
  <2>1. /\ phase = "ready" /\ nodes = <<>> /\ callStack = <<>> /\ exTx = <<>> /\ runs = <<>>
        /\ readOnly = FALSE /\ logs = <<>> /\ reverted = {}
    BY Zenon DEF Init
  <2>2. \A S : <<>> \in Seq(S)
    OBVIOUS
  <2> QED BY <2>1, <2>2, Zenon DEF Types
<1>3. Stack
  BY <1>1 DEF Init, Stack
<1>4. Static /\ Snapshots
  BY <1>1, Zenon DEF Init, Static, Snapshots
<1>5. Committed
  BY <1>1 DEF Committed, LogsHeld, StoredAreLogs, HeldAreLogs, NotYetStored
<1> QED BY <1>2, <1>3, <1>4, <1>5, Zenon DEF IInv

\* A new frame has the highest number, no events yet and a snapshot of all logs, and is
\* static only when no frame was.
LEMMA EnterIInv == ASSUME IInv, NEW type \in CallTypes, Enter(type) PROVE IInv'
<1> DEFINE n == Len(nodes)
           d == Len(runs)
           new == [tx |-> n + 1, events |-> <<>>, snapshot |-> Len(logs),
                   static |-> type = "StaticCall" /\ ~readOnly]
<1>0. Types /\ Stack /\ Static /\ Snapshots /\ Committed
  BY Zenon DEF IInv
<1>1. /\ nodes' \in Seq(Txs) /\ Len(nodes') = n + 1 /\ Ids' = 1 .. n + 1
      /\ \A m \in Ids : nodes'[m] = nodes[m]
      /\ nodes'[n + 1] = NewTx(type)
  BY <1>0, PushStep, Zenon
<1>2. /\ runs' \in Seq(Frames) /\ Len(runs') = d + 1 /\ Depths' = 1 .. d + 1
      /\ \A i \in Depths : runs'[i] = runs[i]
      /\ runs'[d + 1] = new
  BY <1>0, PushStep, Zenon
<1>3. /\ callStack' = [i \in Depths' |-> runs'[i].tx]
      /\ phase' = "running"
      /\ readOnly' = (readOnly \/ type = "StaticCall")
      /\ UNCHANGED <<exTx, logs, reverted>>
  BY <1>0, PushStep, Zenon
<1>4. /\ new.tx = n + 1 /\ new.events = <<>> /\ new.snapshot = Len(logs)
      /\ new.static = (type = "StaticCall" /\ ~readOnly)
  BY Zenon
<1>5. /\ n \in Nat /\ d \in Nat /\ Len(logs) \in Nat /\ Ids = 1 .. n /\ Depths = 1 .. d
      /\ readOnly \in BOOLEAN /\ reverted \subseteq Ids
      /\ \A i \in Depths : runs[i].tx \in Ids /\ runs[i].tx \notin reverted
  BY <1>0, Sequences, Zenon DEF Types, Stack
<1> HIDE DEF n, d, new
<1>6. /\ \A i \in Depths' : i \in Depths \/ i = d + 1
      /\ \A i \in Depths : i \in Depths' /\ i < d + 1
      /\ d + 1 \in Depths' /\ d + 1 \notin Depths
      /\ \A m \in Ids' : m \in Ids \/ m = n + 1
      /\ \A m \in Ids : m \in Ids' /\ m < n + 1
      /\ n + 1 \in Ids' /\ n + 1 \notin Ids /\ n + 1 \notin reverted
  BY <1>1, <1>2, <1>5
<1>7. Types'
  <2>1. callStack' \in Seq(Nat)
    <3>1. \A i \in Depths' : runs'[i].tx \in Nat
      BY <1>2, <1>4, <1>5, <1>6
    <3> QED BY <1>2, <1>3, <1>5, <3>1
  <2>2. readOnly' \in BOOLEAN
    BY <1>3, Zenon
  <2> QED BY <1>0, <1>1, <1>2, <1>3, <1>5, <1>6, <2>1, <2>2, Zenon DEF Types
<1>8. Stack'
  <2>1. \A i \in Depths' : runs'[i].tx \in Ids' /\ runs'[i].tx \notin reverted'
    BY <1>2, <1>3, <1>4, <1>5, <1>6, Zenon
  <2>2. \A i, j \in Depths' : i < j => runs'[i].tx < runs'[j].tx
    <3> SUFFICES ASSUME NEW i \in Depths', NEW j \in Depths', i < j
                 PROVE  runs'[i].tx < runs'[j].tx
      BY Zenon
    <3>1. i \in Depths
      BY <1>2, <1>5
    <3>2. CASE j \in Depths
      BY <1>0, <1>2, <3>1, <3>2, Zenon DEF Stack
    <3>3. CASE j = d + 1
      BY <1>2, <1>4, <1>5, <1>6, <3>1, <3>3, Zenon
    <3> QED BY <1>6, <3>2, <3>3, Zenon
  <2>3. phase' = "running" <=> Len(runs') > 0
    BY <1>2, <1>3, <1>5
  <2> QED BY <1>3, <2>1, <2>2, <2>3, Zenon DEF Stack
<1>9. /\ \A i \in Depths : nodes'[runs'[i].tx] = nodes[runs[i].tx]
      /\ nodes'[runs'[d + 1].tx].CallType = type
      /\ nodes'[runs'[d + 1].tx].Events = <<>>
  BY <1>1, <1>2, <1>4, <1>5 DEF NewTx
<1>10. Static'
  <2>1. readOnly' <=> \E i \in Depths' : runs'[i].static
    BY <1>0, <1>2, <1>3, <1>4, <1>5, <1>6, Zenon DEF Static
  <2>2. \A i, j \in Depths' : runs'[i].static /\ runs'[j].static => i = j
    <3>1. \A i \in Depths : runs[i].static => readOnly
      BY <1>0, Zenon DEF Static
    <3>2. \A i, j \in Depths : runs[i].static /\ runs[j].static => i = j
      BY <1>0, Zenon DEF Static
    <3>3. runs'[d + 1].static => ~readOnly
      BY <1>2, <1>4, Zenon
    <3> QED BY <1>2, <1>6, <3>1, <3>2, <3>3, Zenon
  <2>3. \A i \in Depths' : runs'[i].static => nodes'[runs'[i].tx].CallType = "StaticCall"
    BY <1>0, <1>2, <1>4, <1>6, <1>9, Zenon DEF Static
  <2>4. ASSUME NEW i \in Depths', nodes'[runs'[i].tx].CallType = "StaticCall"
        PROVE  \E j \in 1 .. i : runs'[j].static
    <3>1. CASE i \in Depths
      <4>1. PICK j \in 1 .. i : runs[j].static
        BY <1>0, <1>9, <2>4, <3>1, Zenon DEF Static
      <4>2. j \in Depths
        BY <1>5, <3>1
      <4> QED BY <1>2, <4>1, <4>2, Zenon
    <3>2. CASE i = d + 1
      <4>1. type = "StaticCall" /\ i \in 1 .. i /\ \A j \in Depths : j \in 1 .. i
        BY <1>5, <1>9, <2>4, <3>2
      <4>2. CASE readOnly
        BY <1>0, <1>2, <4>1, <4>2, Zenon DEF Static
      <4>3. CASE ~readOnly
        BY <1>2, <1>4, <3>2, <4>1, <4>3, Zenon
      <4> QED BY <4>2, <4>3, Zenon
    <3> QED BY <1>6, <3>1, <3>2, Zenon
  <2> QED BY <2>1, <2>2, <2>3, <2>4, Zenon DEF Static
<1>11. Snapshots'
  <2>1. \A i \in Depths' : runs'[i].snapshot <= Len(logs')
    BY <1>0, <1>2, <1>3, <1>4, <1>5, <1>6 DEF Snapshots
  <2>2. \A i, j \in Depths' : i < j => runs'[i].snapshot <= runs'[j].snapshot
    <3> SUFFICES ASSUME NEW i \in Depths', NEW j \in Depths', i < j
                 PROVE  runs'[i].snapshot <= runs'[j].snapshot
      BY Zenon
    <3>1. i \in Depths
      BY <1>2, <1>5
    <3>2. CASE j \in Depths
      BY <1>0, <1>2, <3>1, <3>2, Zenon DEF Snapshots
    <3>3. CASE j = d + 1
      BY <1>0, <1>2, <1>4, <3>1, <3>3, Zenon DEF Snapshots
    <3> QED BY <1>6, <3>2, <3>3, Zenon
  <2>3. ASSUME NEW i \in Depths', NEW k \in 1 .. Len(logs')
        PROVE  k > runs'[i].snapshot <=> logs'[k].by >= runs'[i].tx
    <3>1. CASE i \in Depths
      BY <1>0, <1>2, <1>3, <3>1, Zenon DEF Snapshots
    <3>2. CASE i = d + 1
      <4>1. logs'[k].by \in Ids
        BY <1>0, <1>3, Zenon DEF Committed, LogsHeld
      <4> QED BY <1>2, <1>3, <1>4, <1>5, <3>2, <4>1
    <3> QED BY <1>6, <3>1, <3>2, Zenon
  <2> QED BY <2>1, <2>2, <2>3, Zenon DEF Snapshots
<1>12. Committed'
  <2>1. Range(runs'[d + 1].events) = {} /\ Range(nodes'[runs'[d + 1].tx].Events) = {}
    BY <1>2, <1>4, <1>9 DEF Range
  <2>2. Range(nodes'[n + 1].Events) = {}
    BY <1>2, <1>4, <2>1, Zenon
  <2>3. LogsHeld'
    BY <1>0, <1>1, <1>2, <1>3, <1>6, Zenon DEF Committed, LogsHeld
  <2>4. StoredAreLogs'
    <3> SUFFICES ASSUME NEW m \in Ids' \ reverted', NEW e \in Range(nodes'[m].Events)
                 PROVE  e.by = m /\ \E k \in 1 .. Len(logs') : logs'[k] = e
      BY Zenon DEF StoredAreLogs
    <3>1. m \in Ids \ reverted /\ e \in Range(nodes[m].Events)
      BY <1>1, <1>3, <1>6, <2>2, Zenon
    <3> QED BY <1>0, <1>3, <3>1, Zenon DEF Committed, StoredAreLogs
  <2>5. HeldAreLogs'
    <3> SUFFICES ASSUME NEW i \in Depths', NEW e \in Range(runs'[i].events)
                 PROVE  e.by = runs'[i].tx /\ \E k \in 1 .. Len(logs') : logs'[k] = e
      BY Zenon DEF HeldAreLogs
    <3>1. i \in Depths /\ e \in Range(runs[i].events) /\ runs'[i] = runs[i]
      BY <1>2, <1>6, <2>1, Zenon
    <3> QED BY <1>0, <1>3, <3>1, Zenon DEF Committed, HeldAreLogs
  <2>6. NotYetStored'
    BY <1>0, <1>6, <1>9, <2>1, Zenon DEF Committed, NotYetStored
  <2> QED BY <2>3, <2>4, <2>5, <2>6, Zenon DEF Committed
<1> QED BY <1>7, <1>8, <1>10, <1>11, <1>12, Zenon DEF IInv

\* A step that only adds nodes, or attaches them, leaves the frames and the logs as they are.
LEMMA NodesIInv ==
  ASSUME IInv, nodes' \in Seq(Txs), Len(nodes') = Len(nodes) + 1, Ids' = 1 .. Len(nodes) + 1,
         \A n \in Ids : /\ nodes'[n].CallType = nodes[n].CallType
                        /\ nodes'[n].Events = nodes[n].Events,
         nodes'[Len(nodes) + 1].Events = <<>>,
         exTx' \in Seq(Nat),
         phase' \in {"running", "returned"}, phase = "running" <=> phase' = "running",
         UNCHANGED <<callStack, runs, readOnly, logs, reverted>>
  PROVE  IInv'
<1>0. Types /\ Stack /\ Static /\ Snapshots /\ Committed
  BY Zenon DEF IInv
<1>1. Len(nodes) \in Nat /\ Ids = 1 .. Len(nodes) /\ Depths' = Depths
  BY <1>0, Sequences, Zenon DEF Depths
<1>2. /\ \A m \in Ids : m \in Ids'
      /\ \A m \in Ids' : m \in Ids \/ m = Len(nodes) + 1
  BY <1>1
<1>3. Types'
  BY <1>0, <1>1, <1>2, Zenon DEF Types
<1>4. \A i \in Depths : runs[i].tx \in Ids
  BY <1>0, Zenon DEF Stack
<1>5. Stack'
  <2>1. \A i \in Depths' : runs'[i].tx \in Ids' /\ runs'[i].tx \notin reverted'
    BY <1>0, <1>1, <1>2, Zenon DEF Stack
  <2>2. phase' = "running" <=> Len(runs') > 0
    BY <1>0, Zenon DEF Stack
  <2> QED BY <1>0, <1>1, <2>1, <2>2, Zenon DEF Stack
<1>6. Static'
  BY <1>0, <1>1, <1>4, Zenon DEF Static
<1>7. Snapshots'
  BY <1>0, <1>1, Zenon DEF Snapshots
<1>8. Range(nodes'[Len(nodes) + 1].Events) = {}
  BY DEF Range
<1>9. LogsHeld'
  BY <1>0, <1>1, <1>2, Zenon DEF Committed, LogsHeld
<1>10. StoredAreLogs'
  <2> SUFFICES ASSUME NEW m \in Ids' \ reverted', NEW e \in Range(nodes'[m].Events)
               PROVE  e.by = m /\ \E k \in 1 .. Len(logs') : logs'[k] = e
    BY Zenon DEF StoredAreLogs
  <2>1. m \in Ids \ reverted /\ e \in Range(nodes[m].Events)
    BY <1>2, <1>8, Zenon
  <2> QED BY <1>0, <2>1, Zenon DEF Committed, StoredAreLogs
<1>11. HeldAreLogs'
  BY <1>0, <1>1, Zenon DEF Committed, HeldAreLogs
<1>12. NotYetStored'
  BY <1>0, <1>1, <1>4, Zenon DEF Committed, NotYetStored
<1> QED BY <1>3, <1>5, <1>6, <1>7, <1>9, <1>10, <1>11, <1>12, Zenon DEF IInv, Committed

\* Running empty code adds one node, and no frame.
LEMMA CallEmptyIInv == ASSUME IInv, NEW type \in CallTypes, CallEmpty(type) PROVE IInv'
<1>0. Types /\ Stack /\ NewTx(type).Events = <<>>
  BY Zenon DEF IInv, NewTx
<1>1. CASE phase = "running"
  <2>1. /\ nodes' \in Seq(Txs) /\ Len(nodes') = Len(nodes) + 1 /\ Ids' = 1 .. Len(nodes) + 1
        /\ \A n \in Ids : /\ nodes'[n].CallType = nodes[n].CallType
                          /\ nodes'[n].Events = nodes[n].Events
        /\ nodes'[Len(nodes) + 1] = NewTx(type)
        /\ UNCHANGED <<phase, callStack, exTx, runs, readOnly, logs, reverted>>
    BY <1>0, <1>1, LeafStep, Zenon
  <2>2. exTx' \in Seq(Nat)
    BY <1>0, <2>1, Zenon DEF Types
  <2> QED BY <1>0, <1>1, <2>1, <2>2, NodesIInv, Zenon
<1>2. CASE phase # "running"
  <2>1. /\ phase' = "returned" /\ exTx' = Append(exTx, Len(nodes) + 1)
        /\ nodes' \in Seq(Txs) /\ Len(nodes') = Len(nodes) + 1 /\ Ids' = 1 .. Len(nodes) + 1
        /\ \A n \in Ids : nodes'[n] = nodes[n]
        /\ nodes'[Len(nodes) + 1] = NewTx(type)
        /\ UNCHANGED <<callStack, runs, readOnly, logs, reverted>>
    BY <1>0, <1>2, RootLeafStep, Zenon
  <2>2. exTx' \in Seq(Nat)
    BY <1>0, <2>1, Sequences DEF Types
  <2> QED BY <1>0, <1>2, <2>1, <2>2, NodesIInv, Zenon
<1> QED BY <1>1, <1>2, Zenon

\* A step that only moves TransitionDb on, between two states outside Run or two inside,
\* changes nothing the invariant speaks of.
LEMMA PhaseIInv ==
  ASSUME IInv, phase' \in {"ready", "running", "returned", "done", "panicked"},
         phase = "running" <=> phase' = "running",
         UNCHANGED <<nodes, callStack, exTx, runs, readOnly, logs, reverted>>
  PROVE  IInv'
<1>0. Types /\ Stack /\ Static /\ Snapshots /\ Committed
  BY Zenon DEF IInv
<1>1. Ids' = Ids /\ Depths' = Depths
  BY Zenon DEF Ids, Depths
<1>2. Types'
  BY <1>0, <1>1, Zenon DEF Types
<1>3. Stack'
  BY <1>0, <1>1, Zenon DEF Stack
<1>4. Static' /\ Snapshots'
  BY <1>0, <1>1, Zenon DEF Static, Snapshots
<1>5. Committed'
  <2>1. LogsHeld'
    BY <1>0, <1>1, Zenon DEF Committed, LogsHeld
  <2>2. StoredAreLogs'
    BY <1>0, <1>1 DEF Committed, StoredAreLogs
  <2>3. HeldAreLogs'
    BY <1>0, <1>1, Zenon DEF Committed, HeldAreLogs
  <2>4. NotYetStored'
    BY <1>0, <1>1, Zenon DEF Committed, NotYetStored
  <2> QED BY <2>1, <2>2, <2>3, <2>4, Zenon DEF Committed
<1> QED BY <1>2, <1>3, <1>4, <1>5, Zenon DEF IInv

\* A Call to an account without code adds one node and no frame, or panics outside of any
\* call.
LEMMA CallCodelessIInv == ASSUME IInv, CallCodeless PROVE IInv'
<1>0. Types /\ Stack /\ "Call" \in CallTypes /\ NewTx("Call").Events = <<>>
  BY Zenon DEF IInv, CallTypes, NewTx
<1>1. CASE phase = "running"
  <2>1. /\ nodes' \in Seq(Txs) /\ Len(nodes') = Len(nodes) + 1 /\ Ids' = 1 .. Len(nodes) + 1
        /\ \A n \in Ids : /\ nodes'[n].CallType = nodes[n].CallType
                          /\ nodes'[n].Events = nodes[n].Events
        /\ nodes'[Len(nodes) + 1] = NewTx("Call")
        /\ UNCHANGED <<phase, callStack, exTx, runs, readOnly, logs, reverted>>
    BY <1>0, <1>1, LeafStep, Zenon
  <2>2. exTx' \in Seq(Nat)
    BY <1>0, <2>1, Zenon DEF Types
  <2> QED BY <1>0, <1>1, <2>1, <2>2, NodesIInv, Zenon
<1>2. CASE phase # "running"
  <2>1. callStack = <<>>
    BY <1>0, <1>2, NoTop, Zenon
  <2>2. phase' = "panicked" /\ UNCHANGED <<nodes, callStack, exTx, runs, readOnly, logs, reverted>>
    BY <2>1, Zenon DEF CallCodeless, AppendLeaf
  <2> QED BY <1>2, <2>2, PhaseIInv, Zenon
<1> QED BY <1>1, <1>2, Zenon

\* A call that fails before it is recorded changes nothing but where TransitionDb is.
LEMMA CallUnrecordedIInv == ASSUME IInv, NEW type \in CallTypes, CallUnrecorded(type) PROVE IInv'
<1>1. /\ phase' \in {"ready", "running", "returned", "done", "panicked"}
      /\ phase = "running" <=> phase' = "running"
      /\ UNCHANGED <<nodes, callStack, exTx, runs, readOnly, logs, reverted>>
  BY Zenon DEF IInv, Types, CallUnrecorded
<1> QED BY <1>1, PhaseIInv, Zenon

\* The check of the CallStack passes: no frame is active.
LEMMA CheckCallStackIInv == ASSUME IInv, CheckCallStack PROVE IInv'
<1>1. callStack = <<>>
  BY NoTop, Zenon DEF IInv, CheckCallStack
<1>2. /\ phase' = "done" /\ phase # "running"
      /\ UNCHANGED <<nodes, callStack, exTx, runs, readOnly, logs, reverted>>
  BY <1>1 DEF CheckCallStack
<1> QED BY <1>2, PhaseIInv, Zenon

\* A LOG appends its event to the logs and to the events of the running frame.
LEMMA LogIInv == ASSUME IInv, Log PROVE IInv'
<1> DEFINE d == Len(runs)
           event == [by |-> runs[d].tx, index |-> Len(logs)]
<1>0. Types /\ Stack /\ Static /\ Snapshots /\ Committed
  BY Zenon DEF IInv
<1>1. /\ phase = "running" /\ event \in Events
      /\ logs' \in Seq(Events) /\ Len(logs') = Len(logs) + 1
      /\ \A k \in 1 .. Len(logs) : logs'[k] = logs[k]
      /\ logs'[Len(logs) + 1] = event
  BY <1>0, LogStep, Zenon
<1>2. /\ runs' \in Seq(Frames) /\ Len(runs') = d /\ Depths' = Depths
      /\ \A i \in Depths : /\ runs'[i].tx = runs[i].tx
                           /\ runs'[i].snapshot = runs[i].snapshot
                           /\ runs'[i].static = runs[i].static
                           /\ i # d => runs'[i].events = runs[i].events
      /\ runs'[d].events = Append(runs[d].events, event)
      /\ UNCHANGED <<phase, nodes, callStack, exTx, readOnly, reverted>>
  BY <1>0, LogStep, Zenon
<1>3. event.by = runs[d].tx /\ event.index = Len(logs)
  BY Zenon
<1>4. /\ d \in Depths /\ Depths = 1 .. d /\ d \in Nat /\ Len(logs) \in Nat /\ Ids' = Ids
      /\ runs[d].tx \in Ids /\ runs[d].events \in Seq(Events)
      /\ \A i \in Depths : runs[i].tx \in Nat /\ runs[i].snapshot \in Nat
  BY <1>0, <1>1, <1>2, Top, Sequences, Zenon DEF Ids, Frames
<1> HIDE DEF d, event
<1>5. Range(runs'[d].events) = Range(runs[d].events) \union {event}
  BY <1>1, <1>2, <1>4, RangeAppend
<1>6. /\ \A k \in 1 .. Len(logs') : k \in 1 .. Len(logs) \/ k = Len(logs) + 1
      /\ \A k \in 1 .. Len(logs) : k \in 1 .. Len(logs')
      /\ Len(logs) + 1 \in 1 .. Len(logs')
  BY <1>1, <1>4
<1>7. Types'
  BY <1>0, <1>1, <1>2, <1>4, Zenon DEF Types
<1>8. Stack'
  <2>1. callStack' = [i \in Depths' |-> runs'[i].tx]
    BY <1>0, <1>2, Zenon DEF Stack
  <2>2. \A i \in Depths' : runs'[i].tx \in Ids' /\ runs'[i].tx \notin reverted'
    BY <1>0, <1>2, <1>4, Zenon DEF Stack
  <2>3. \A i, j \in Depths' : i < j => runs'[i].tx < runs'[j].tx
    BY <1>0, <1>2, Zenon DEF Stack
  <2>4. phase' = "running" <=> Len(runs') > 0
    BY <1>0, <1>2, Zenon DEF Stack, d
  <2> QED BY <2>1, <2>2, <2>3, <2>4, Zenon DEF Stack
<1>9. Static'
  <2>1. \A i \in Depths : \A j \in 1 .. i : j \in Depths
    BY <1>4
  <2>2. readOnly' <=> \E i \in Depths' : runs'[i].static
    BY <1>0, <1>2, Zenon DEF Static
  <2>3. \A i, j \in Depths' : runs'[i].static /\ runs'[j].static => i = j
    BY <1>0, <1>2, Zenon DEF Static
  <2>4. \A i \in Depths' : runs'[i].static => nodes'[runs'[i].tx].CallType = "StaticCall"
    BY <1>0, <1>2 DEF Static
  <2>5. \A i \in Depths' : nodes'[runs'[i].tx].CallType = "StaticCall" =>
          \E j \in 1 .. i : runs'[j].static
    BY <1>0, <1>2, <2>1 DEF Static
  <2> QED BY <2>2, <2>3, <2>4, <2>5, Zenon DEF Static
<1>10. Snapshots'
  <2>1. ASSUME NEW i \in Depths' PROVE runs'[i].snapshot <= Len(logs')
    <3>1. runs[i].snapshot <= Len(logs) /\ runs'[i].snapshot = runs[i].snapshot
      BY <1>0, <1>2, Zenon DEF Snapshots
    <3> QED BY <1>1, <1>2, <1>4, <3>1
  <2>2. \A i, j \in Depths' : i < j => runs'[i].snapshot <= runs'[j].snapshot
    BY <1>0, <1>2, Zenon DEF Snapshots
  <2>3. ASSUME NEW i \in Depths', NEW k \in 1 .. Len(logs')
        PROVE  k > runs'[i].snapshot <=> logs'[k].by >= runs'[i].tx
    <3>1. CASE k \in 1 .. Len(logs)
      BY <1>0, <1>1, <1>2, <3>1, Zenon DEF Snapshots
    <3>2. CASE k = Len(logs) + 1
      <4>1. runs[i].snapshot <= Len(logs)
        BY <1>0, <1>2, Zenon DEF Snapshots
      <4>2. runs[d].tx >= runs[i].tx
        <5>1. i = d \/ i < d
          BY <1>2, <1>4
        <5> QED BY <1>0, <1>2, <1>4, <5>1 DEF Stack
      <4> QED BY <1>1, <1>2, <1>3, <1>4, <3>2, <4>1, <4>2
    <3> QED BY <1>6, <3>1, <3>2, Zenon
  <2> QED BY <2>1, <2>2, <2>3, Zenon DEF Snapshots
<1>11. \A i \in Depths : \A e \in Range(runs[i].events) : e \in Range(runs'[i].events)
  BY <1>2, <1>5, Zenon
<1>12. LogsHeld'
  <2> SUFFICES ASSUME NEW k \in 1 .. Len(logs')
               PROVE  /\ logs'[k].index = k - 1
                      /\ logs'[k].by \in Ids'
                      /\ \/ /\ logs'[k].by \notin reverted'
                            /\ logs'[k] \in Range(nodes'[logs'[k].by].Events)
                         \/ \E i \in Depths' : logs'[k] \in Range(runs'[i].events)
    BY Zenon DEF LogsHeld
  <2>1. CASE k \in 1 .. Len(logs)
    BY <1>0, <1>1, <1>2, <1>4, <1>11, <2>1, Zenon DEF Committed, LogsHeld
  <2>2. CASE k = Len(logs) + 1
    <3>1. logs'[k] = event /\ event \in Range(runs'[d].events) /\ d \in Depths'
      BY <1>1, <1>2, <1>4, <1>5, <2>2, Zenon
    <3>2. event.index = k - 1 /\ event.by \in Ids'
      BY <1>3, <1>4, <2>2
    <3> QED BY <3>1, <3>2, Zenon
  <2> QED BY <1>6, <2>1, <2>2, Zenon
<1>13. StoredAreLogs'
  <2> SUFFICES ASSUME NEW m \in Ids' \ reverted', NEW e \in Range(nodes'[m].Events)
               PROVE  e.by = m /\ \E k \in 1 .. Len(logs') : logs'[k] = e
    BY Zenon DEF StoredAreLogs
  <2>1. e.by = m /\ \E k \in 1 .. Len(logs) : logs[k] = e
    BY <1>0, <1>2, <1>4, Zenon DEF Committed, StoredAreLogs
  <2> QED BY <1>1, <1>6, <2>1, Zenon
<1>14. HeldAreLogs'
  <2> SUFFICES ASSUME NEW i \in Depths', NEW e \in Range(runs'[i].events)
               PROVE  e.by = runs'[i].tx /\ \E k \in 1 .. Len(logs') : logs'[k] = e
    BY Zenon DEF HeldAreLogs
  <2>1. CASE e \in Range(runs[i].events)
    <3>1. i \in Depths /\ runs'[i].tx = runs[i].tx
      BY <1>2, Zenon
    <3>2. e.by = runs[i].tx /\ \E k \in 1 .. Len(logs) : logs[k] = e
      BY <1>0, <2>1, <3>1, Zenon DEF Committed, HeldAreLogs
    <3> QED BY <1>1, <1>6, <3>1, <3>2, Zenon
  <2>2. CASE i = d /\ e = event
    BY <1>1, <1>2, <1>3, <1>4, <1>6, <2>2, Zenon
  <2> QED BY <1>2, <1>5, <2>1, <2>2, Zenon
<1>15. NotYetStored'
  BY <1>0, <1>2, Zenon DEF Committed, NotYetStored
<1> QED BY <1>7, <1>8, <1>9, <1>10, <1>12, <1>13, <1>14, <1>15, Zenon DEF IInv, Committed

\* Leaving a call: if it failed, the logs that go are exactly those of the calls that are
\* rolled back; if not, its events move from its Run to its node.
LEMMA LeaveIInv ==
  ASSUME IInv, phase = "running", NEW failed \in BOOLEAN, NEW stored \in Seq(Txs),
         Stores(stored, failed), Leave(stored, failed)
  PROVE  IInv'
<1> DEFINE d == Len(runs)
           top == runs[d].tx
           snap == runs[d].snapshot
<1>0. Types /\ Stack /\ Static /\ Snapshots /\ LogsHeld /\ StoredAreLogs /\ HeldAreLogs /\ NotYetStored
  BY Zenon DEF IInv, Committed
<1>1. /\ nodes' \in Seq(Txs) /\ Len(nodes') = Len(nodes) /\ Ids' = Ids
      /\ \A n \in Ids : /\ nodes'[n].CallType = nodes[n].CallType
                        /\ nodes'[n].Events = stored[n].Events
      /\ exTx' = IF d > 1 THEN exTx ELSE Append(exTx, top)
  BY <1>0, LeaveStep, Zenon
<1>2. /\ runs' \in Seq(Frames) /\ Len(runs') = d - 1 /\ Depths' = 1 .. d - 1
      /\ \A i \in Depths' : i \in Depths /\ i < d /\ runs'[i] = runs[i]
      /\ callStack' = [i \in Depths' |-> runs'[i].tx]
      /\ readOnly' = (readOnly /\ ~runs[d].static)
      /\ phase' = IF d = 1 THEN "returned" ELSE "running"
  BY <1>0, LeaveStep, Zenon
<1>3. /\ logs' = IF failed THEN SubSeq(logs, 1, snap) ELSE logs
      /\ reverted' = IF failed THEN reverted \union (top .. Len(nodes)) ELSE reverted
  BY <1>0, LeaveStep, Zenon
<1>4. /\ d \in Depths /\ d \in Nat /\ Depths = 1 .. d /\ top \in Ids /\ top \notin reverted
      /\ Ids = 1 .. Len(nodes) /\ Len(nodes) \in Nat /\ Len(logs) \in Nat /\ snap \in Nat
      /\ snap <= Len(logs) /\ readOnly \in BOOLEAN
  BY <1>0, Top, Sequences, Zenon DEF Stack, Types, Frames, Snapshots
<1>5. /\ \A n \in Ids : n # top => nodes'[n].Events = nodes[n].Events
      /\ failed \/ nodes'[top].Events = runs[d].events
  BY <1>1, <1>4, Zenon DEF Stores
<1>6. /\ \A k \in 1 .. Len(logs) : k > snap <=> logs[k].by >= top
      /\ \A i \in Depths' : runs[i].tx \in Ids /\ runs[i].tx \notin reverted /\ runs[i].tx < top
      /\ \A i \in Depths' : runs[i].snapshot \in Nat /\ runs[i].snapshot <= snap
  BY <1>0, <1>2, <1>4, Sequences, Zenon DEF Snapshots, Stack, Frames
<1>7. \A i \in Depths : i \in Depths' \/ i = d
  BY <1>2, <1>4
<1> HIDE DEF d, top, snap
\* the logs that stay are those of the calls that do
<1>8. /\ logs' \in Seq(Events) /\ Len(logs') \in Nat /\ Len(logs') <= Len(logs)
      /\ \A k \in 1 .. Len(logs') : k \in 1 .. Len(logs) /\ logs'[k] = logs[k]
      /\ \A k \in 1 .. Len(logs) : logs[k].by < top => k \in 1 .. Len(logs')
      /\ failed => Len(logs') = snap /\ \A k \in 1 .. Len(logs') : logs[k].by < top
  <2>0. \A k \in 1 .. Len(logs) : logs[k].by \in Nat
    BY <1>0, <1>4 DEF LogsHeld
  <2>1. CASE failed
    <3>1. logs' = SubSeq(logs, 1, snap) /\ logs \in Seq(Events)
      BY <1>0, <1>3, <2>1, Zenon DEF Types
    <3>2. /\ logs' \in Seq(Events) /\ Len(logs') = snap
          /\ \A k \in 1 .. snap : logs'[k] = logs[k]
      BY <1>4, <3>1
    <3>3. \A k \in 1 .. Len(logs) : logs[k].by < top <=> k \in 1 .. snap
      BY <1>4, <1>6, <2>0
    <3>4. \A k \in 1 .. snap : k \in 1 .. Len(logs)
      BY <1>4
    <3> QED BY <1>4, <3>2, <3>3, <3>4, Zenon
  <2>2. CASE ~failed
    <3>1. logs' = logs /\ logs \in Seq(Events)
      BY <1>0, <1>3, <2>2, Zenon DEF Types
    <3> QED BY <1>4, <2>2, <3>1
  <2> QED BY <2>1, <2>2, Zenon
<1>9. /\ reverted' \subseteq Ids
      /\ \A n \in Ids : n < top => (n \in reverted' <=> n \in reverted)
      /\ failed => \A n \in Ids \ reverted' : n < top
      /\ ~failed => reverted' = reverted
  <2>1. reverted \subseteq Ids
    BY <1>0, Zenon DEF Types
  <2>2. CASE failed
    <3>1. reverted' = reverted \union (top .. Len(nodes))
      BY <1>3, <2>2, Zenon
    <3>2. \A n \in Ids : n \in top .. Len(nodes) <=> ~(n < top)
      BY <1>4
    <3>3. top .. Len(nodes) \subseteq Ids
      BY <1>4
    <3> QED BY <2>1, <2>2, <3>1, <3>2, <3>3, Zenon
  <2>3. CASE ~failed
    BY <1>3, <2>1, <2>3, Zenon
  <2> QED BY <2>2, <2>3, Zenon
<1>10. Types'
  <2>1. callStack' \in Seq(Nat)
    <3>1. \A i \in Depths' : runs'[i].tx \in Nat
      BY <1>2, <1>4, <1>6
    <3>2. d - 1 \in Nat
      BY <1>4
    <3> QED BY <1>2, <3>1, <3>2
  <2>2. exTx' \in Seq(Nat)
    <3>1. exTx \in Seq(Nat) /\ top \in Nat
      BY <1>0, <1>4 DEF Types
    <3> QED BY <1>1, <3>1
  <2>3. readOnly' \in BOOLEAN /\ phase' \in {"running", "returned"}
    BY <1>2, Zenon
  <2> QED BY <1>1, <1>2, <1>8, <1>9, <2>1, <2>2, <2>3, Zenon DEF Types
<1>11. Stack'
  <2>1. phase' = "running" <=> Len(runs') > 0
    BY <1>2, <1>4
  <2>2. \A i \in Depths' : runs'[i].tx \in Ids' /\ runs'[i].tx \notin reverted'
    BY <1>1, <1>2, <1>6, <1>9, Zenon
  <2>3. \A i, j \in Depths' : i < j => runs'[i].tx < runs'[j].tx
    BY <1>0, <1>2, Zenon DEF Stack
  <2> QED BY <1>2, <2>1, <2>2, <2>3, Zenon DEF Stack
<1>12. Static'
  <2>1. readOnly' <=> \E i \in Depths' : runs'[i].static
    <3>1. CASE runs[d].static
      <4>1. \A i, j \in Depths : runs[i].static /\ runs[j].static => i = j
        BY <1>0, Zenon DEF Static
      <4>2. \A i \in Depths' : i \in Depths /\ i # d /\ runs'[i] = runs[i]
        BY <1>2, <1>4
      <4>3. \A i \in Depths' : ~runs'[i].static
        BY <1>4, <3>1, <4>1, <4>2, Zenon
      <4> QED BY <1>2, <3>1, <4>3, Zenon
    <3>2. CASE ~runs[d].static
      <4>1. readOnly' = readOnly
        BY <1>2, <1>4, <3>2, Zenon
      <4>2. (\E i \in Depths : runs[i].static) <=> \E i \in Depths' : runs'[i].static
        BY <1>2, <1>7, <3>2, Zenon
      <4> QED BY <1>0, <4>1, <4>2, Zenon DEF Static
    <3> QED BY <3>1, <3>2, Zenon
  <2>2. \A i, j \in Depths' : runs'[i].static /\ runs'[j].static => i = j
    BY <1>0, <1>2, Zenon DEF Static
  <2>3. \A i \in Depths' : nodes'[runs'[i].tx].CallType = nodes[runs[i].tx].CallType
    BY <1>1, <1>2, <1>6, Zenon
  <2>4. \A i \in Depths' : \A j \in 1 .. i : j \in Depths'
    BY <1>2, <1>4
  <2>5. \A i \in Depths' : runs'[i].static => nodes'[runs'[i].tx].CallType = "StaticCall"
    BY <1>0, <1>2, <2>3, Zenon DEF Static
  <2>6. \A i \in Depths' : nodes'[runs'[i].tx].CallType = "StaticCall" =>
          \E j \in 1 .. i : runs'[j].static
    <3> SUFFICES ASSUME NEW i \in Depths', nodes'[runs'[i].tx].CallType = "StaticCall"
                 PROVE  \E j \in 1 .. i : runs'[j].static
      BY Zenon
    <3>1. i \in Depths /\ nodes[runs[i].tx].CallType = "StaticCall"
      BY <1>2, <2>3, Zenon
    <3>2. PICK j \in 1 .. i : runs[j].static
      BY <1>0, <3>1, Zenon DEF Static
    <3> QED BY <1>2, <2>4, <3>2, Zenon
  <2> QED BY <2>1, <2>2, <2>5, <2>6, Zenon DEF Static
<1>13. Snapshots'
  <2>1. ASSUME NEW i \in Depths' PROVE runs'[i].snapshot <= Len(logs')
    <3>1. runs[i].snapshot \in Nat /\ runs[i].snapshot <= snap /\ runs'[i] = runs[i]
      BY <1>2, <1>6, Zenon
    <3>2. snap <= Len(logs')
      BY <1>3, <1>4, <1>8
    <3> QED BY <1>4, <1>8, <3>1, <3>2
  <2>2. \A i, j \in Depths' : i < j => runs'[i].snapshot <= runs'[j].snapshot
    BY <1>0, <1>2, Zenon DEF Snapshots
  <2>3. ASSUME NEW i \in Depths', NEW k \in 1 .. Len(logs')
        PROVE  k > runs'[i].snapshot <=> logs'[k].by >= runs'[i].tx
    BY <1>0, <1>2, <1>8, Zenon DEF Snapshots
  <2> QED BY <2>1, <2>2, <2>3, Zenon DEF Snapshots
<1>14. LogsHeld'
  <2> SUFFICES ASSUME NEW k \in 1 .. Len(logs')
               PROVE  /\ logs'[k].index = k - 1
                      /\ logs'[k].by \in Ids'
                      /\ \/ /\ logs'[k].by \notin reverted'
                            /\ logs'[k] \in Range(nodes'[logs'[k].by].Events)
                         \/ \E i \in Depths' : logs'[k] \in Range(runs'[i].events)
    BY Zenon DEF LogsHeld
  <2>1. k \in 1 .. Len(logs) /\ logs'[k] = logs[k]
    BY <1>8, Zenon
  <2>2. logs'[k].index = k - 1 /\ logs'[k].by \in Ids'
    BY <1>0, <1>1, <2>1, Zenon DEF LogsHeld
  <2>3. CASE logs[k].by \notin reverted /\ logs[k] \in Range(nodes[logs[k].by].Events)
    <3>1. logs[k].by # top
      BY <1>0, <1>4, <2>3, Zenon DEF NotYetStored, top
    <3>2. logs[k] \in Range(nodes'[logs[k].by].Events)
      BY <1>1, <1>5, <2>1, <2>2, <2>3, <3>1, Zenon
    <3>3. logs[k].by \notin reverted'
      BY <1>1, <1>8, <1>9, <2>1, <2>2, <2>3, Zenon
    <3> QED BY <2>1, <2>2, <3>2, <3>3, Zenon
  <2>4. ASSUME NEW i \in Depths, logs[k] \in Range(runs[i].events)
        PROVE  \/ /\ logs'[k].by \notin reverted'
                  /\ logs'[k] \in Range(nodes'[logs'[k].by].Events)
               \/ logs'[k] \in Range(runs'[i].events) /\ i \in Depths'
    <3>1. CASE i \in Depths'
      BY <1>2, <2>1, <2>4, <3>1, Zenon
    <3>2. CASE i = d
      <4>1. logs[k].by = top
        BY <1>0, <2>4, <3>2, Zenon DEF HeldAreLogs, top
      <4>2. ~failed
        BY <1>4, <1>8, <4>1
      <4> QED BY <1>4, <1>5, <1>9, <2>1, <2>4, <3>2, <4>1, <4>2, Zenon
    <3> QED BY <1>7, <3>1, <3>2, Zenon
  <2> QED BY <1>0, <2>1, <2>2, <2>3, <2>4, Zenon DEF LogsHeld
<1>15. ASSUME NEW e, e.by \in Ids, e.by < top \/ ~failed, \E k \in 1 .. Len(logs) : logs[k] = e
       PROVE  \E k \in 1 .. Len(logs') : logs'[k] = e
  BY <1>3, <1>8, <1>15, Zenon
<1>16. StoredAreLogs'
  <2> SUFFICES ASSUME NEW m \in Ids' \ reverted', NEW e \in Range(nodes'[m].Events)
               PROVE  e.by = m /\ \E k \in 1 .. Len(logs') : logs'[k] = e
    BY Zenon DEF StoredAreLogs
  <2>1. m \in Ids /\ (m < top \/ ~failed) /\ m \notin reverted
    BY <1>1, <1>9, Zenon
  <2>2. CASE m # top
    <3>1. e \in Range(nodes[m].Events)
      BY <1>5, <2>1, <2>2, Zenon
    <3>2. e.by = m /\ \E k \in 1 .. Len(logs) : logs[k] = e
      BY <1>0, <2>1, <3>1, Zenon DEF StoredAreLogs
    <3> QED BY <1>15, <2>1, <3>2, Zenon
  <2>3. CASE m = top
    <3>1. ~failed /\ e \in Range(runs[d].events)
      BY <1>4, <1>5, <2>1, <2>3
    <3>2. e.by = m /\ \E k \in 1 .. Len(logs) : logs[k] = e
      BY <1>0, <1>4, <2>3, <3>1, Zenon DEF HeldAreLogs, top
    <3> QED BY <1>15, <2>1, <3>1, <3>2, Zenon
  <2> QED BY <2>2, <2>3, Zenon
<1>17. HeldAreLogs'
  <2> SUFFICES ASSUME NEW i \in Depths', NEW e \in Range(runs'[i].events)
               PROVE  e.by = runs'[i].tx /\ \E k \in 1 .. Len(logs') : logs'[k] = e
    BY Zenon DEF HeldAreLogs
  <2>1. i \in Depths /\ e \in Range(runs[i].events) /\ runs'[i] = runs[i]
    BY <1>2, Zenon
  <2>2. e.by = runs[i].tx /\ \E k \in 1 .. Len(logs) : logs[k] = e
    BY <1>0, <2>1, Zenon DEF HeldAreLogs
  <2> QED BY <1>6, <1>15, <2>1, <2>2, Zenon
<1>18. NotYetStored'
  <2> SUFFICES ASSUME NEW i \in Depths'
               PROVE  Range(nodes'[runs'[i].tx].Events) = {}
    BY Zenon DEF NotYetStored
  <2>1. i \in Depths /\ runs'[i] = runs[i] /\ runs[i].tx \in Ids /\ runs[i].tx # top
    BY <1>2, <1>4, <1>6
  <2> QED BY <1>0, <1>5, <2>1, Zenon DEF NotYetStored
<1> QED
  BY <1>10, <1>11, <1>12, <1>13, <1>14, <1>16, <1>17, <1>18, Zenon DEF IInv, Committed

\* Every action keeps the invariant.
LEMMA NextIInv == IInv /\ [Next]_vars => IInv'
<1> SUFFICES ASSUME IInv, [Next]_vars PROVE IInv'
  BY Zenon
<1>1. ASSUME NEW type \in CallTypes, Enter(type) PROVE IInv'
  BY <1>1, EnterIInv, Zenon
<1>2. ASSUME NEW type \in CallTypes, CallEmpty(type) PROVE IInv'
  BY <1>2, CallEmptyIInv, Zenon
<1>3. ASSUME NEW type \in CallTypes, CallUnrecorded(type) PROVE IInv'
  BY <1>3, CallUnrecordedIInv, Zenon
<1>4. CASE CallCodeless
  BY <1>4, CallCodelessIInv, Zenon
<1>5. CASE Log
  BY <1>5, LogIInv, Zenon
<1>6. CASE \/ \E failed \in BOOLEAN : ExecuteEnds(failed)
           \/ LogRefused
           \/ EarlyReturn
           \/ \E outOfGas \in BOOLEAN : CreateRejected(outOfGas)
  <2>1. PICK failed \in BOOLEAN :
          \E stored \in Seq(Txs) : Stores(stored, failed) /\ Leave(stored, failed)
    BY <1>6, Leaving, Zenon DEF IInv
  <2>2. PICK stored \in Seq(Txs) : Stores(stored, failed) /\ Leave(stored, failed)
    BY <2>1, Zenon
  <2>3. phase = "running"
    BY <1>6, Leaving, Zenon DEF IInv
  <2> QED BY <2>2, <2>3, LeaveIInv, Zenon
<1>7. CASE CheckCallStack
  BY <1>7, CheckCallStackIInv, Zenon
<1>8. CASE UNCHANGED vars
  <2>1. phase' \in {"ready", "running", "returned", "done", "panicked"}
    BY <1>8, Zenon DEF vars, IInv, Types
  <2> QED BY <1>8, <2>1, PhaseIInv, Zenon DEF vars
<1> QED BY <1>1, <1>2, <1>3, <1>4, <1>5, <1>6, <1>7, <1>8, Zenon DEF Next

\* The invariant holds in every state of a message.
LEMMA IInvHolds == Spec => []IInv
BY InitIInv, NextIInv, PTL DEF Spec

\* The events of the calls that were not rolled back, with those of the active calls, are
\* the logs, one by one.
LEMMA IInvCommitted == IInv => CommittedEventsAreLogs
<1> SUFFICES ASSUME IInv PROVE CommittedEventsAreLogs
  BY Zenon
<1> DEFINE inNodes == UNION {Range(nodes[n].Events) : n \in Ids \ reverted}
           inRuns == UNION {Range(runs[i].events) : i \in 1 .. Len(runs)}
<1>1. /\ LogsHeld /\ StoredAreLogs /\ HeldAreLogs /\ Depths = 1 .. Len(runs)
      /\ DOMAIN logs = 1 .. Len(logs)
  BY Sequences, Zenon DEF IInv, Committed
<1>2. ASSUME NEW e \in Range(logs)
      PROVE  e \in inNodes \/ e \in inRuns
  <2>1. PICK k \in 1 .. Len(logs) : logs[k] = e
    BY <1>1, Zenon DEF Range
  <2> QED BY <1>1, <2>1, Zenon DEF LogsHeld
<1>3. ASSUME NEW e \in inNodes
      PROVE  e \in Range(logs)
  <2>1. PICK n \in Ids \ reverted : e \in Range(nodes[n].Events)
    BY <1>3, Zenon
  <2>2. PICK k \in 1 .. Len(logs) : logs[k] = e
    BY <1>1, <2>1, Zenon DEF StoredAreLogs
  <2> QED BY <1>1, <2>2, Zenon DEF Range
<1>4. ASSUME NEW e \in inRuns
      PROVE  e \in Range(logs)
  <2>1. PICK i \in 1 .. Len(runs) : e \in Range(runs[i].events)
    BY <1>4, Zenon
  <2>2. PICK k \in 1 .. Len(logs) : logs[k] = e
    BY <1>1, <2>1, Zenon DEF HeldAreLogs
  <2> QED BY <1>1, <2>2, Zenon DEF Range
<1>5. Range(logs) = inNodes \union inRuns
  <2> HIDE DEF inNodes, inRuns
  <2> QED BY <1>2, <1>3, <1>4, Zenon
<1>6. \A k \in 1 .. Len(logs) : logs[k].index = k - 1
  BY <1>1, Zenon DEF LogsHeld
<1> QED BY <1>5, <1>6, Zenon DEF CommittedEventsAreLogs

\* Run stores its events in the entry of its own call: the CallStack is always the list
\* of the calls whose Run is active.
THEOREM InStep == Spec => []RunsMatchCallStack
<1>1. IInv => RunsMatchCallStack
  BY Zenon DEF IInv, Stack, RunsMatchCallStack, Depths
<1> QED BY <1>1, IInvHolds, PTL

\* TransitionDb's check of the CallStack never fails.
THEOREM StackEmptied == Spec => []CallStackEmptied
<1>1. IInv => CallStackEmptied
  BY Zenon DEF IInv, Types, CallStackEmptied
<1> QED BY <1>1, IInvHolds, PTL

\* The interpreter is read-only exactly inside static calls, at any depth of nesting.
THEOREM ReadOnlyExactly == Spec => []ReadOnlyInStaticCalls
<1>1. IInv => ReadOnlyInStaticCalls
  <2> SUFFICES ASSUME IInv PROVE ReadOnlyInStaticCalls
    BY Zenon
  <2>1. Static /\ Depths = 1 .. Len(runs) /\ Len(runs) \in Nat
    BY Sequences, Zenon DEF IInv
  <2>2. \A i \in Depths : \A j \in 1 .. i : j \in Depths
    BY <2>1
  <2>3. readOnly => \E i \in Depths : nodes[runs[i].tx].CallType = "StaticCall"
    BY <2>1, Zenon DEF Static
  <2>4. (\E i \in Depths : nodes[runs[i].tx].CallType = "StaticCall") => readOnly
    BY <2>1, <2>2, Zenon DEF Static
  <2> QED BY <2>1, <2>3, <2>4, Zenon DEF ReadOnlyInStaticCalls
<1> QED BY <1>1, IInvHolds, PTL

\* A failed call takes its own logs and those of the calls below it away and no others,
\* so the tree's events are the StateDB's logs.
THEOREM EventsAreLogs == Spec => []CommittedEventsAreLogs
BY IInvCommitted, IInvHolds, PTL

-----------------------------------------------------------------------------
(* The tree lists the calls in the order in which they were made.            *)

\* a step that adds nodes or none, renumbered from end to end2, keeps the children of n
Keeps(end, end2, n) ==
  /\ Len(nodes) \in Nat /\ Len(nodes') \in Nat /\ Len(nodes) <= Len(nodes')
  /\ Ids \subseteq Ids' /\ n \in Nat /\ nodes[n].InTxs \in Seq(Nat)
  /\ \A j \in 1 .. Len(nodes[n].InTxs) : end2[nodes[n].InTxs[j]] = end[nodes[n].InTxs[j]]

\* A node whose children and end stay the same keeps its branch.
LEMMA BranchKept ==
  ASSUME NEW end, NEW end2, NEW n, Branch(end, n), Keeps(end, end2, n),
         nodes'[n].InTxs = nodes[n].InTxs, end2[n] = end[n]
  PROVE  Branch(end2, n)'
<1> DEFINE c == nodes[n].InTxs
<1>1. /\ Len(c) \in Nat /\ n \in Nat /\ Ids \subseteq Ids'
      /\ Len(nodes) \in Nat /\ Len(nodes') \in Nat /\ Len(nodes) <= Len(nodes')
  <2>1. c \in Seq(Nat)
    BY Zenon DEF Keeps
  <2>2. Len(c) \in Nat
    BY <2>1
  <2> QED BY <2>2, Zenon DEF Keeps
<1>2. /\ end[n] \in n .. Len(nodes) /\ (Len(c) = 0 => end[n] = n)
      /\ Len(c) > 0 => c[1] = n + 1 /\ end[n] = end[c[Len(c)]]
      /\ \A j \in 1 .. Len(c) : c[j] \in Ids /\ c[j] > n
      /\ \A j \in 1 .. Len(c) - 1 : c[j + 1] = end[c[j]] + 1
  BY Zenon DEF Branch
<1> HIDE DEF c
<1>3. nodes'[n].InTxs = c /\ end2[n] = end[n] /\ \A j \in 1 .. Len(c) : end2[c[j]] = end[c[j]]
  BY Zenon DEF c, Keeps
<1>4. end2[n] \in n .. Len(nodes')
  BY <1>1, <1>2, <1>3
<1>5. Len(c) > 0 => c[1] = n + 1 /\ end2[n] = end2[c[Len(c)]]
  BY <1>1, <1>2, <1>3
<1>6. \A j \in 1 .. Len(c) : c[j] \in Ids' /\ c[j] > n
  BY <1>1, <1>2, Zenon
<1>7. ASSUME NEW j \in 1 .. Len(c) - 1 PROVE c[j + 1] = end2[c[j]] + 1
  <2>1. j \in 1 .. Len(c)
    BY <1>1
  <2> QED BY <1>2, <1>3, <2>1, Zenon
<1> QED BY <1>2, <1>3, <1>4, <1>5, <1>6, <1>7, Zenon DEF Branch

\* The call that follows the last call below n becomes its next child.
LEMMA BranchAppend ==
  ASSUME NEW end, NEW end2, NEW n, Branch(end, n), Keeps(end, end2, n),
         NEW m \in Ids', m \in Nat, m = end[n] + 1,
         nodes'[n].InTxs = Append(nodes[n].InTxs, m),
         end2[n] = end2[m], end2[m] \in m .. Len(nodes')
  PROVE  Branch(end2, n)'
<1> DEFINE c == nodes[n].InTxs
           l == Len(c)
           d == nodes'[n].InTxs
<1>0. /\ n \in Nat /\ Ids \subseteq Ids' /\ c \in Seq(Nat)
      /\ Len(nodes) \in Nat /\ Len(nodes') \in Nat /\ Len(nodes) <= Len(nodes')
  BY Zenon DEF Keeps
<1>1. /\ l \in Nat /\ Len(d) = l + 1 /\ d[l + 1] = m
      /\ \A j \in 1 .. l : d[j] = c[j]
  BY <1>0
<1>2. /\ end[n] \in n .. Len(nodes) /\ (l = 0 => end[n] = n)
      /\ l > 0 => c[1] = n + 1 /\ end[n] = end[c[l]]
      /\ \A j \in 1 .. l : c[j] \in Ids /\ c[j] > n
      /\ \A j \in 1 .. l - 1 : c[j + 1] = end[c[j]] + 1
  BY Zenon DEF Branch
<1>3. \A j \in 1 .. l : end2[c[j]] = end[c[j]]
  BY Zenon DEF Keeps
<1> HIDE DEF c, l, d
<1>4. end2[n] \in n .. Len(nodes') /\ m > n
  BY <1>0, <1>2
<1>5. d[1] = n + 1
  <2>1. CASE l = 0
    BY <1>1, <1>2, <2>1
  <2>2. CASE l > 0
    BY <1>1, <1>2, <2>2
  <2> QED BY <1>1, <2>1, <2>2
<1>6. end2[n] = end2[d[Len(d)]] /\ Len(d) > 0
  BY <1>1
<1>7. \A j \in 1 .. Len(d) : d[j] \in Ids' /\ d[j] > n
  <2> SUFFICES ASSUME NEW j \in 1 .. l + 1 PROVE d[j] \in Ids' /\ d[j] > n
    BY <1>1, Zenon
  <2>1. j \in 1 .. l \/ j = l + 1
    BY <1>1
  <2> QED BY <1>0, <1>1, <1>2, <1>4, <2>1, Zenon
<1>8. \A j \in 1 .. Len(d) - 1 : d[j + 1] = end2[d[j]] + 1
  <2>0. Len(d) - 1 = l
    BY <1>1
  <2> SUFFICES ASSUME NEW j \in 1 .. l PROVE d[j + 1] = end2[d[j]] + 1
    BY <2>0, Zenon
  <2>1. CASE j \in 1 .. l - 1
    <3>1. j \in 1 .. l /\ j + 1 \in 1 .. l
      BY <1>1, <2>1
    <3>2. d[j] = c[j] /\ d[j + 1] = c[j + 1]
      BY <1>1, <3>1, Zenon
    <3> QED BY <1>2, <1>3, <2>1, <3>1, <3>2, Zenon
  <2>2. CASE j = l
    <3>1. l > 0 /\ l \in 1 .. l
      BY <1>1, <2>2
    <3>2. m = end[c[l]] + 1
      BY <1>2, <3>1, Zenon
    <3> QED BY <1>1, <1>3, <2>2, <3>1, <3>2, Zenon
  <2> QED BY <1>1, <2>1, <2>2
<1>9. Len(d) # 0
  BY <1>1
<1> QED BY <1>4, <1>5, <1>6, <1>7, <1>8, <1>9, Zenon DEF Branch, d

\* Without nodes there is nothing to number.
LEMMA InitPreorder == Init => Preorder
<1> SUFFICES ASSUME Init PROVE Preorder
  BY Zenon
<1> DEFINE end == [n \in Ids |-> 0]
<1>1. Len(nodes) = 0 /\ Len(runs) = 0 /\ Ids = {} /\ Depths = {} /\ exTx = <<>>
  BY DEF Init, Ids, Depths
<1>2. Open(end) /\ Closed(end)
  BY <1>1 DEF Open, Closed
<1>3. end \in [Ids -> Nat]
  BY Zenon
<1> QED BY <1>1, <1>2, <1>3, Zenon DEF Numbered, Preorder

\* What the numbering says about the children and the active calls of a state.
LEMMA Children ==
  ASSUME Types, NEW end \in [Ids -> Nat], Numbered(end), NEW n \in Ids
  PROVE  /\ Branch(end, n) /\ nodes[n].InTxs \in Seq(Nat) /\ Len(nodes[n].InTxs) \in Nat
         /\ n \in Nat /\ end[n] \in n .. Len(nodes)
         /\ \A j \in 1 .. Len(nodes[n].InTxs) : nodes[n].InTxs[j] \in Ids
<1>1. nodes[n] \in Txs /\ Ids = 1 .. Len(nodes)
  BY Sequences, Zenon
<1>2. nodes[n].InTxs \in Seq(Nat)
  BY <1>1, Zenon DEF Txs
<1>3. Branch(end, n)
  BY Zenon DEF Numbered
<1>4. /\ end[n] \in n .. Len(nodes)
      /\ \A j \in 1 .. Len(nodes[n].InTxs) : nodes[n].InTxs[j] \in Ids
  BY <1>3, Zenon DEF Branch
<1>5. n \in Nat /\ Len(nodes[n].InTxs) \in Nat
  BY <1>1, <1>2
<1> QED BY <1>2, <1>3, <1>4, <1>5, Zenon

\* A new active call is numbered after all others.
LEMMA EnterPreorder == ASSUME IInv, Preorder, NEW type \in CallTypes, Enter(type) PROVE Preorder'
<1> DEFINE n == Len(nodes)
           d == Len(runs)
<1>0. Types /\ Stack /\ n \in Nat /\ d \in Nat /\ Ids = 1 .. n /\ Depths = 1 .. d
  BY Sequences, Zenon DEF IInv
<1>1. /\ Len(nodes') = n + 1 /\ Ids' = 1 .. n + 1
      /\ \A m \in Ids : nodes'[m] = nodes[m]
      /\ nodes'[n + 1] = NewTx(type)
  BY <1>0, PushStep, Zenon
<1>2. /\ Len(runs') = d + 1 /\ Depths' = 1 .. d + 1
      /\ \A i \in Depths : runs'[i] = runs[i]
      /\ runs'[d + 1].tx = n + 1
      /\ phase' = "running" /\ (phase = "ready" \/ phase = "running")
      /\ exTx' = exTx
  <2>1. runs'[d + 1] = [tx |-> n + 1, events |-> <<>>,
              snapshot |-> Len(logs), static |-> type = "StaticCall" /\ ~readOnly]
    BY <1>0, PushStep, Zenon
  <2>2. runs'[d + 1].tx = n + 1
    BY <2>1
  <2> HIDE DEF n, d
  <2> QED BY <1>0, <2>2, PushStep, Zenon DEF n, d
<1>3. PICK end \in [Ids -> Nat] : Numbered(end)
  BY Zenon DEF Preorder
<1>4. PICK end2 \in [Ids' -> Nat] :
        end2 = [m \in Ids' |-> IF m \in Ids THEN end[m] ELSE m]
  <2>1. [m \in Ids' |-> IF m \in Ids THEN end[m] ELSE m] \in [Ids' -> Nat]
    BY <1>0, <1>1
  <2> QED BY <2>1, Zenon
<1>5. /\ end2[n + 1] = n + 1
      /\ \A m \in Ids : m \in Ids' /\ end2[m] = end[m]
      /\ \A m \in Ids' : m \in Ids \/ m = n + 1
      /\ n + 1 \in Ids' /\ n + 1 \notin Ids
  BY <1>0, <1>1, <1>4
<1> HIDE DEF n, d
<1>6. ASSUME NEW m \in Ids' PROVE Branch(end2, m)'
  <2>1. CASE m \in Ids
    <3>1. /\ Branch(end, m) /\ nodes[m].InTxs \in Seq(Nat) /\ m \in Nat
          /\ \A j \in 1 .. Len(nodes[m].InTxs) : nodes[m].InTxs[j] \in Ids
      BY <1>0, <1>3, <2>1, Children, Zenon
    <3>2. /\ Len(nodes) \in Nat /\ Len(nodes') \in Nat /\ Len(nodes) <= Len(nodes')
          /\ Ids \subseteq Ids'
      BY <1>0, <1>1, <1>5 DEF n
    <3>3. /\ nodes'[m].InTxs = nodes[m].InTxs /\ end2[m] = end[m]
          /\ \A j \in 1 .. Len(nodes[m].InTxs) : end2[nodes[m].InTxs[j]] = end[nodes[m].InTxs[j]]
      BY <1>1, <1>5, <2>1, <3>1, Zenon
    <3>4. Keeps(end, end2, m)
      BY <3>1, <3>2, <3>3, Zenon DEF Keeps
    <3> QED BY <3>1, <3>3, <3>4, BranchKept, Zenon
  <2>2. CASE m = n + 1
    <3>1. nodes'[m].InTxs = <<>> /\ Len(<<>>) = 0
      BY <1>1, <2>2 DEF NewTx
    <3>2. end2[m] = m /\ m \in m .. Len(nodes')
      BY <1>0, <1>1, <1>5, <2>2
    <3> QED BY <3>1, <3>2 DEF Branch
  <2> QED BY <1>5, <2>1, <2>2, Zenon
<1>7. (d > 0 => runs[1].tx = 1 /\ end[runs[d].tx] = n /\ exTx = <<>>) /\ (d = 0 => n = 0 /\ exTx = <<>>)
  <2>1. d = 0 => phase = "ready"
    BY <1>0, <1>2 DEF Stack, d
  <2> QED BY <1>3, <2>1, Zenon DEF Numbered, Open, Closed, n, d
<1>8. \A i \in Depths : runs[i].tx \in Ids
  BY <1>0, Zenon DEF Stack
<1>9. Open(end2)'
  <2>1. ASSUME NEW m \in Ids', NEW j \in 1 .. Len(nodes'[m].InTxs), NEW i \in Depths'
        PROVE  nodes'[m].InTxs[j] # runs'[i].tx
    <3>1. m # n + 1
      BY <1>1 DEF NewTx
    <3>2. m \in Ids /\ nodes'[m] = nodes[m]
      BY <1>1, <1>5, <3>1, Zenon
    <3>3. nodes[m].InTxs[j] \in Ids
      BY <1>0, <1>3, <3>2, Children, Zenon
    <3>4. CASE i = d + 1
      BY <1>2, <1>5, <3>2, <3>3, <3>4
    <3>5. CASE i \in Depths
      <4>1. Open(end) /\ runs'[i] = runs[i]
        BY <1>2, <1>3, <3>5, Zenon DEF Numbered
      <4> QED BY <3>2, <3>5, <4>1, Zenon DEF Open
    <3> QED BY <1>0, <1>2, <3>4, <3>5
  <2>2. ASSUME NEW i \in 1 .. Len(runs') - 1 PROVE runs'[i + 1].tx = end2[runs'[i].tx] + 1
    <3>0. i \in Depths /\ runs'[i] = runs[i] /\ end2[runs'[i].tx] = end[runs[i].tx]
      BY <1>0, <1>2, <1>5, <1>8
    <3>1. CASE i = d
      BY <1>0, <1>2, <1>7, <3>0, <3>1
    <3>2. CASE i \in 1 .. d - 1
      <4>1. i + 1 \in Depths
        BY <1>0, <3>2
      <4> QED BY <1>2, <1>3, <3>0, <3>2, <4>1, Zenon DEF Numbered, Open, d
    <3> QED BY <1>0, <1>2, <3>1, <3>2
  <2>3. runs'[1].tx = 1
    <3>1. CASE d = 0
      BY <1>2, <1>7, <3>1
    <3>2. CASE d > 0
      <4>1. 1 \in Depths
        BY <1>0, <3>2
      <4> QED BY <1>2, <1>7, <3>2, <4>1, Zenon
    <3> QED BY <1>0, <3>1, <3>2
  <2>4. end2[runs'[Len(runs')].tx] = Len(nodes')
    BY <1>1, <1>2, <1>5, Zenon
  <2>5. exTx' = <<>>
    BY <1>0, <1>2, <1>7
  <2> QED BY <2>1, <2>2, <2>3, <2>4, <2>5, Zenon DEF Open
<1>10. Closed(end2)'
  BY <1>0, <1>2 DEF Closed
<1>11. Numbered(end2)'
  BY <1>6, <1>9, <1>10, Zenon DEF Numbered
<1> QED BY <1>11, Zenon DEF Preorder

\* A call without a Run is numbered after all others and attached to the active one.
LEMMA LeafPreorder ==
  ASSUME IInv, Preorder, phase = "running", NEW type \in CallTypes,
         CallEmpty(type) \/ (CallCodeless /\ type = "Call")
  PROVE  Preorder'
<1> DEFINE n == Len(nodes)
           d == Len(runs)
           top == runs[d].tx
<1>0. /\ Types /\ Stack /\ n \in Nat /\ d \in Nat /\ Ids = 1 .. n /\ Depths = 1 .. d
      /\ d \in Depths /\ top \in Ids /\ d > 0
  BY Sequences, Top DEF IInv
<1>14. Len(nodes') = n + 1 /\ Ids' = 1 .. n + 1
  BY <1>0, LeafStep, Zenon
<1>1. /\ \A m \in Ids : m # top => nodes'[m].InTxs = nodes[m].InTxs
      /\ nodes'[top].InTxs = Append(nodes[top].InTxs, n + 1)
      /\ phase' = phase /\ exTx' = exTx /\ runs' = runs
  BY <1>0, LeafStep, Zenon
<1>2. nodes'[n + 1].InTxs = <<>> /\ Len(nodes'[n + 1].InTxs) = 0
  <2>1. nodes'[n + 1] = NewTx(type)
    BY <1>0, LeafStep, Zenon
  <2> QED BY <2>1 DEF NewTx
<1>3. PICK end \in [Ids -> Nat] : Numbered(end)
  BY Zenon DEF Preorder
<1>4. PICK end2 \in [Ids' -> Nat] :
        end2 = [m \in Ids' |-> IF m \in Ids \ {top} THEN end[m] ELSE n + 1]
  <2>1. n + 1 \in Nat
    BY <1>0
  <2>2. [m \in Ids' |-> IF m \in Ids \ {top} THEN end[m] ELSE n + 1] \in [Ids' -> Nat]
    BY <2>1, Zenon
  <2> QED BY <2>2, Zenon
<1>5. /\ end2[n + 1] = n + 1 /\ end2[top] = n + 1
      /\ \A m \in Ids : m \in Ids' /\ (m # top => end2[m] = end[m])
      /\ \A m \in Ids' : m \in Ids \/ m = n + 1
      /\ n + 1 \in Ids' /\ n + 1 \notin Ids
  <2>1. /\ \A m \in Ids : m \in Ids'
        /\ \A m \in Ids' : m \in Ids \/ m = n + 1
        /\ n + 1 \in Ids' /\ n + 1 \notin Ids
    BY <1>0, <1>14
  <2> HIDE DEF n, top
  <2> QED BY <1>0, <1>4, <2>1, Zenon
<1>6. Depths' = Depths
  BY <1>1, Zenon DEF Depths
<1>7. /\ \A m \in Ids : \A j \in 1 .. Len(nodes[m].InTxs), i \in Depths :
           nodes[m].InTxs[j] # runs[i].tx
      /\ runs[1].tx = 1 /\ end[top] = n /\ exTx = <<>>
      /\ \A i \in 1 .. d - 1 : runs[i + 1].tx = end[runs[i].tx] + 1
  BY <1>0, <1>3, Zenon DEF Numbered, Open
<1>8. \A m \in Ids : \A j \in 1 .. Len(nodes[m].InTxs) :
        end2[nodes[m].InTxs[j]] = end[nodes[m].InTxs[j]]
  <2> SUFFICES ASSUME NEW m \in Ids, NEW j \in 1 .. Len(nodes[m].InTxs)
               PROVE  end2[nodes[m].InTxs[j]] = end[nodes[m].InTxs[j]]
    BY Zenon
  <2>1. nodes[m].InTxs[j] \in Ids
    BY <1>0, <1>3, Children, Zenon
  <2>2. nodes[m].InTxs[j] # top
    BY <1>0, <1>7, Zenon
  <2> HIDE DEF top, n
  <2> QED BY <1>5, <2>1, <2>2, Zenon
<1> DEFINE new == n + 1
<1> HIDE DEF n, d, top, new
<1>9. /\ Len(nodes) \in Nat /\ Len(nodes') \in Nat /\ Len(nodes) <= Len(nodes')
      /\ Ids \subseteq Ids'
  BY <1>0, <1>14, <1>5 DEF n
<1>10. ASSUME NEW m \in Ids' PROVE Branch(end2, m)'
  <2>1. CASE m \in Ids
    <3>1. /\ Branch(end, m) /\ nodes[m].InTxs \in Seq(Nat) /\ m \in Nat
          /\ \A j \in 1 .. Len(nodes[m].InTxs) :
               end2[nodes[m].InTxs[j]] = end[nodes[m].InTxs[j]]
      BY <1>0, <1>3, <1>8, <2>1, Children, Zenon
    <3>4. Keeps(end, end2, m)
      BY <1>9, <3>1, Zenon DEF Keeps
    <3>2. CASE m # top
      <4>1. nodes'[m].InTxs = nodes[m].InTxs /\ end2[m] = end[m]
        BY <1>1, <1>5, <2>1, <3>2, Zenon
      <4> QED BY <3>1, <3>4, <4>1, BranchKept, Zenon
    <3>3. CASE m = top
      <4>1. /\ nodes'[m].InTxs = Append(nodes[m].InTxs, new) /\ new = end[m] + 1
            /\ new \in Ids' /\ end2[m] = end2[new] /\ end2[new] = new
        BY <1>1, <1>5, <1>7, <3>3, Zenon DEF new
      <4>2. new \in Nat /\ end2[new] \in new .. Len(nodes')
        BY <1>0, <1>14, <4>1 DEF new
      <4> QED BY <3>1, <3>4, <4>1, <4>2, BranchAppend, Zenon
    <3> QED BY <3>2, <3>3, Zenon
  <2>2. CASE m = n + 1
    <3>1. end2[m] = m /\ m \in m .. Len(nodes')
      BY <1>0, <1>14, <1>5, <2>2
    <3> QED BY <1>2, <2>2, <3>1 DEF Branch
  <2> QED BY <1>5, <2>1, <2>2, Zenon
<1>11. Open(end2)'
  <2>1. ASSUME NEW m \in Ids', NEW j \in 1 .. Len(nodes'[m].InTxs), NEW i \in Depths'
        PROVE  nodes'[m].InTxs[j] # runs'[i].tx
    <3>0. m # n + 1
      BY <1>2
    <3>1. m \in Ids /\ i \in Depths /\ runs[i].tx \in Ids
      BY <1>0, <1>5, <1>6, <3>0, Zenon DEF Stack
    <3>2. CASE m # top
      <4>1. nodes'[m].InTxs = nodes[m].InTxs /\ runs'[i].tx = runs[i].tx
        BY <1>1, <3>1, <3>2, Zenon
      <4> QED BY <1>7, <3>1, <4>1, Zenon
    <3>3. CASE m = top
      <4>0. n + 1 \in Nat
        BY <1>0
      <4>1. nodes[m].InTxs \in Seq(Nat) /\ Len(nodes[m].InTxs) \in Nat /\ n + 1 \in Nat
        BY <1>0, <1>3, <3>1, <4>0, Children, Zenon
      <4>2. nodes'[m].InTxs = Append(nodes[m].InTxs, n + 1)
        BY <1>1, <3>3, Zenon
      <4>3. \/ j \in 1 .. Len(nodes[m].InTxs) /\ nodes'[m].InTxs[j] = nodes[m].InTxs[j]
            \/ nodes'[m].InTxs[j] = n + 1
        BY <4>1, <4>2
      <4>4. runs'[i].tx = runs[i].tx
        BY <1>1, Zenon
      <4>5. CASE nodes'[m].InTxs[j] = n + 1
        BY <1>5, <3>1, <4>4, <4>5, Zenon
      <4>6. CASE j \in 1 .. Len(nodes[m].InTxs) /\ nodes'[m].InTxs[j] = nodes[m].InTxs[j]
        BY <1>7, <3>1, <4>4, <4>6, Zenon
      <4> QED BY <4>3, <4>5, <4>6, Zenon
    <3> QED BY <3>2, <3>3, Zenon
  <2>2. ASSUME NEW i \in 1 .. Len(runs') - 1 PROVE runs'[i + 1].tx = end2[runs'[i].tx] + 1
    <3>1. i \in 1 .. d - 1 /\ i \in Depths /\ i < d
      BY <1>0, <1>1 DEF d
    <3>2. runs[i].tx \in Ids /\ runs[i].tx < runs[d].tx
      BY <1>0, <3>1, Zenon DEF Stack
    <3>3. runs[i].tx # top
      BY <1>0, <3>2 DEF top
    <3> QED BY <1>1, <1>5, <1>7, <3>1, <3>2, <3>3, Zenon
  <2>3. runs'[1].tx = 1 /\ end2[runs'[Len(runs')].tx] = Len(nodes') /\ exTx' = <<>>
    BY <1>14, <1>1, <1>5, <1>7, Zenon DEF top, d
  <2> QED BY <2>1, <2>2, <2>3, Zenon DEF Open
<1>12. Closed(end2)'
  BY <1>0, <1>1 DEF Closed, d
<1>13. Numbered(end2)'
  BY <1>10, <1>11, <1>12, Zenon DEF Numbered
<1> QED BY <1>13, Zenon DEF Preorder

\* A message whose only call has no code leaves that call as the tree.
LEMMA RootLeafPreorder ==
  ASSUME IInv, Preorder, phase # "running", NEW type \in CallTypes, CallEmpty(type)
  PROVE  Preorder'
<1>0. Types /\ Stack
  BY Zenon DEF IInv
<1>1. /\ phase = "ready" /\ phase' = "returned" /\ nodes' = Append(nodes, NewTx(type))
      /\ exTx' = Append(exTx, Len(nodes) + 1) /\ runs' = runs
  BY <1>0, RootLeafStep, Zenon
<1>2. Len(runs) = 0 /\ Depths = {} /\ runs = <<>>
  BY <1>0, NoTop, Zenon
<1>3. Len(nodes) = 0 /\ exTx = <<>>
  BY <1>1, <1>2, Zenon DEF Preorder, Numbered, Closed
<1>4. Len(nodes') = 1 /\ nodes'[1] = NewTx(type) /\ Ids' = {1} /\ exTx' = <<1>> /\ Depths' = {}
  BY <1>0, <1>1, <1>2, <1>3, NewTxType DEF Types, Ids, Depths
<1>5. PICK end \in [Ids' -> Nat] : end = [m \in Ids' |-> 1]
  BY Zenon
<1>6. nodes'[1].InTxs = <<>> /\ Len(nodes'[1].InTxs) = 0 /\ end[1] = 1
  BY <1>4, <1>5 DEF NewTx
<1>7. \A m \in Ids' : Branch(end, m)'
  <2>1. Branch(end, 1)'
    BY <1>4, <1>6 DEF Branch
  <2> QED BY <1>4, <2>1, Zenon
<1>8. Open(end)'
  BY <1>1, <1>2, <1>4 DEF Open
<1>9. Closed(end)'
  <2>1. Len(nodes') # 0 /\ phase' # "ready" /\ exTx' = <<1>> /\ end[1] = Len(nodes')
    <3>1. phase' # "ready"
      BY <1>1, Zenon
    <3> QED BY <1>4, <1>6, <3>1
  <2> QED BY <2>1, Zenon DEF Closed
<1>10. Numbered(end)'
  BY <1>7, <1>8, <1>9, Zenon DEF Numbered
<1> QED BY <1>10, Zenon DEF Preorder

\* A step that leaves the tree and the active calls as they are.
LEMMA SamePreorder ==
  ASSUME IInv, Preorder, nodes' = nodes, exTx' = exTx, Len(runs') = Len(runs),
         \A i \in Depths : runs'[i].tx = runs[i].tx,
         phase' = "ready" => phase = "ready"
  PROVE  Preorder'
<1>0. Len(runs) \in Nat /\ Depths = 1 .. Len(runs) /\ Depths' = Depths /\ Ids' = Ids
  BY Sequences, Zenon DEF IInv, Depths, Ids
<1>1. PICK end \in [Ids -> Nat] : Numbered(end)
  BY Zenon DEF Preorder
<1>2. ASSUME NEW n \in Ids PROVE Branch(end, n)'
  <2>1. Branch(end, n)
    BY <1>1, Zenon DEF Numbered
  <2> QED BY <1>0, <2>1, Zenon DEF Branch
<1>3. Open(end)'
  <2>1. \A n \in Ids' : \A j \in 1 .. Len(nodes'[n].InTxs), i \in Depths' :
          nodes'[n].InTxs[j] # runs'[i].tx
    BY <1>0, <1>1 DEF Numbered, Open
  <2>2. ASSUME NEW i \in 1 .. Len(runs') - 1 PROVE runs'[i + 1].tx = end[runs'[i].tx] + 1
    <3>1. i \in Depths /\ i + 1 \in Depths /\ i \in 1 .. Len(runs) - 1
      BY <1>0
    <3> QED BY <1>1, <3>1, Zenon DEF Numbered, Open
  <2>3. Len(runs') > 0 =>
          runs'[1].tx = 1 /\ end[runs'[Len(runs')].tx] = Len(nodes') /\ exTx' = <<>>
    <3>1. Len(runs) > 0 => 1 \in Depths /\ Len(runs) \in Depths
      BY <1>0
    <3> QED BY <1>1, <3>1, Zenon DEF Numbered, Open
  <2> QED BY <2>1, <2>2, <2>3, Zenon DEF Open
<1>4. Closed(end)'
  BY <1>1, Zenon DEF Numbered, Closed
<1>5. Numbered(end)' /\ end \in [Ids' -> Nat]
  BY <1>0, <1>2, <1>3, <1>4, Zenon DEF Numbered
<1> QED BY <1>5, Zenon DEF Preorder

\* A call that is left is the next child of its caller, or the root of the tree.
LEMMA LeavePreorder ==
  ASSUME IInv, Preorder, phase = "running", NEW failed \in BOOLEAN, NEW stored \in Seq(Txs),
         Stores(stored, failed), Leave(stored, failed)
  PROVE  Preorder'
<1> DEFINE n == Len(nodes)
           d == Len(runs)
           top == runs[d].tx
           below == runs[d - 1].tx
<1>0. /\ Types /\ Stack /\ n \in Nat /\ d \in Nat /\ Ids = 1 .. n /\ Depths = 1 .. d
      /\ d \in Depths /\ top \in Ids /\ d > 0
  BY Sequences, Top DEF IInv
<1>1. /\ Len(nodes') = n /\ Ids' = Ids
      /\ \A m \in Ids : d = 1 \/ m # below => nodes'[m].InTxs = nodes[m].InTxs
      /\ d > 1 => nodes'[below].InTxs = Append(nodes[below].InTxs, top)
  BY <1>0, LeaveStep, Zenon
<1>2. /\ exTx' = IF d > 1 THEN exTx ELSE Append(exTx, top)
      /\ Len(runs') = d - 1 /\ Depths' = 1 .. d - 1
      /\ \A i \in Depths' : i \in Depths /\ i < d /\ runs'[i] = runs[i]
      /\ phase' = IF d = 1 THEN "returned" ELSE "running"
  BY <1>0, LeaveStep, Zenon
<1>3. PICK end \in [Ids -> Nat] : Numbered(end)
  BY Zenon DEF Preorder
<1>4. /\ \A m \in Ids : \A j \in 1 .. Len(nodes[m].InTxs), i \in Depths :
           nodes[m].InTxs[j] # runs[i].tx
      /\ runs[1].tx = 1 /\ end[top] = n /\ exTx = <<>>
      /\ \A i \in 1 .. d - 1 : runs[i + 1].tx = end[runs[i].tx] + 1
  BY <1>0, <1>3, Zenon DEF Numbered, Open
<1>5. \A i \in Depths : runs[i].tx \in Ids /\ (i < d => runs[i].tx < top)
  BY <1>0, Zenon DEF Stack
<1> HIDE DEF n, d, top, below
<1>6. ASSUME NEW m \in Ids
      PROVE  /\ Branch(end, m) /\ nodes[m].InTxs \in Seq(Nat) /\ Len(nodes[m].InTxs) \in Nat
             /\ m \in Nat /\ end[m] \in m .. Len(nodes)
             /\ \A j \in 1 .. Len(nodes[m].InTxs) : nodes[m].InTxs[j] \in Ids
             /\ Len(nodes) \in Nat /\ Len(nodes') \in Nat /\ Len(nodes) <= Len(nodes')
             /\ Ids \subseteq Ids'
  <2>1. Len(nodes) \in Nat /\ Len(nodes') \in Nat /\ Len(nodes) <= Len(nodes') /\ Ids \subseteq Ids'
    BY <1>0, <1>1 DEF n
  <2> QED BY <1>0, <1>3, <2>1, Children, Zenon
<1>7. CASE d = 1
  <2>1. top = 1 /\ end[1] = n
    BY <1>4, <1>7, Zenon DEF top
  <2>2. ASSUME NEW m \in Ids' PROVE Branch(end, m)'
    <3>1. Keeps(end, end, m)
      BY <1>1, <1>6, Zenon DEF Keeps
    <3> QED BY <1>1, <1>6, <1>7, <3>1, BranchKept, Zenon
  <2>3. Depths' = {} /\ Len(runs') = 0
    BY <1>2, <1>7
  <2>4. Open(end)'
    BY <2>3 DEF Open
  <2>5. exTx' = <<1>> /\ Len(nodes') # 0 /\ phase' # "ready"
    <3>1. exTx' = Append(<<>>, 1)
      BY <1>2, <1>4, <1>7, <2>1
    <3>2. Append(<<>>, 1) = <<1>>
      OBVIOUS
    <3>3. Len(nodes') # 0
      BY <1>0, <1>1
    <3>4. phase' # "ready"
      BY <1>2, <1>7, Zenon
    <3> QED BY <3>1, <3>2, <3>3, <3>4, Zenon
  <2>6. Closed(end)'
    BY <1>1, <2>1, <2>5, Zenon DEF Closed
  <2>7. Numbered(end)' /\ end \in [Ids' -> Nat]
    BY <1>1, <2>2, <2>4, <2>6, Zenon DEF Numbered
  <2> QED BY <2>7, Zenon DEF Preorder
<1>8. CASE d > 1
  <2>0. d - 1 \in Depths /\ d - 1 \in Depths' /\ d - 1 \in 1 .. d - 1 /\ d - 1 < d
    BY <1>0, <1>2, <1>8
  <2>1. below \in Ids /\ below # top /\ top = end[below] + 1 /\ top \in Nat
    <3>1. runs[(d - 1) + 1].tx = end[below] + 1
      BY <1>4, <2>0, Zenon DEF below
    <3>2. (d - 1) + 1 = d
      BY <1>0
    <3>3. below \in Ids /\ below < top
      BY <1>5, <2>0, Zenon DEF below
    <3> QED BY <1>0, <3>1, <3>2, <3>3 DEF top
  <2>2. PICK end2 \in [Ids' -> Nat] : end2 = [end EXCEPT ![below] = n]
    <3>1. [end EXCEPT ![below] = n] \in [Ids' -> Nat]
      BY <1>0, <1>1, <2>1, Zenon
    <3> QED BY <3>1, Zenon
  <2>3. end2[below] = n /\ end2[top] = n /\ \A m \in Ids : m # below => end2[m] = end[m]
    BY <1>0, <1>4, <2>1, <2>2, Zenon
  <2>4. ASSUME NEW m \in Ids' PROVE Branch(end2, m)'
    <3>0. m \in Ids
      BY <1>1, Zenon
    <3>1. \A j \in 1 .. Len(nodes[m].InTxs) :
            nodes[m].InTxs[j] \in Ids /\ nodes[m].InTxs[j] # below
      BY <1>4, <1>6, <2>0, <3>0, Zenon DEF below
    <3>2. Keeps(end, end2, m)
      BY <1>6, <2>3, <3>0, <3>1, Zenon DEF Keeps
    <3>3. CASE m # below
      BY <1>1, <1>6, <2>3, <3>0, <3>2, <3>3, BranchKept, Zenon
    <3>4. CASE m = below
      <4>1. end2[top] \in top .. Len(nodes') /\ top \in Ids'
        BY <1>0, <1>1, <2>3
      <4>2. nodes'[m].InTxs = Append(nodes[m].InTxs, top) /\ end2[m] = end2[top]
        BY <1>1, <1>8, <2>3, <3>4, Zenon
      <4> QED BY <1>6, <2>1, <3>0, <3>2, <3>4, <4>1, <4>2, BranchAppend, Zenon
    <3> QED BY <3>3, <3>4, Zenon
  <2>5. Open(end2)'
    <3>1. ASSUME NEW m \in Ids', NEW j \in 1 .. Len(nodes'[m].InTxs), NEW i \in Depths'
          PROVE  nodes'[m].InTxs[j] # runs'[i].tx
      <4>0. m \in Ids /\ i \in Depths /\ i < d /\ runs'[i] = runs[i]
        BY <1>1, <1>2, Zenon
      <4>1. m \in Ids /\ i \in Depths /\ runs'[i] = runs[i] /\ runs[i].tx # top
        BY <1>0, <1>5, <4>0
      <4>2. CASE m # below
        BY <1>1, <1>4, <4>1, <4>2, Zenon
      <4>3. CASE m = below
        <5>1. nodes[m].InTxs \in Seq(Nat) /\ Len(nodes[m].InTxs) \in Nat
          BY <1>6, <4>1, Zenon
        <5>2. nodes'[m].InTxs = Append(nodes[m].InTxs, top)
          BY <1>1, <1>8, <4>3, Zenon
        <5>3. \/ j \in 1 .. Len(nodes[m].InTxs) /\ nodes'[m].InTxs[j] = nodes[m].InTxs[j]
              \/ nodes'[m].InTxs[j] = top
          BY <2>1, <5>1, <5>2
        <5> QED BY <1>4, <4>1, <5>3, Zenon
      <4> QED BY <4>2, <4>3, Zenon
    <3>2. ASSUME NEW i \in 1 .. Len(runs') - 1 PROVE runs'[i + 1].tx = end2[runs'[i].tx] + 1
      <4>1. /\ i \in Depths' /\ i + 1 \in Depths' /\ i \in 1 .. d - 1 /\ i \in Depths /\ i < d - 1
        BY <1>0, <1>2, <1>8
      <4>2. runs[i].tx \in Ids /\ runs[i].tx # below
        BY <1>0, <1>5, <2>0, <4>1 DEF Stack, below
      <4>3. runs'[i] = runs[i] /\ runs'[i + 1] = runs[i + 1]
        BY <1>2, <4>1, Zenon
      <4>4. end2[runs[i].tx] = end[runs[i].tx] /\ runs[i + 1].tx = end[runs[i].tx] + 1
        BY <1>4, <2>3, <4>1, <4>2, Zenon
      <4> QED BY <4>3, <4>4, Zenon
    <3>3. runs'[1].tx = 1 /\ end2[runs'[Len(runs')].tx] = Len(nodes') /\ exTx' = <<>>
      <4>1. 1 \in Depths'
        BY <1>0, <1>2, <1>8
      <4>2. runs'[1].tx = 1
        BY <1>2, <1>4, <4>1, Zenon
      <4>3. runs'[Len(runs')].tx = below
        BY <1>2, <2>0, Zenon DEF below
      <4> QED BY <1>1, <1>2, <1>4, <1>8, <2>3, <4>2, <4>3, Zenon
    <3> QED BY <3>1, <3>2, <3>3, Zenon DEF Open
  <2>6. Closed(end2)'
    <3>1. Len(runs') # 0 /\ phase' # "ready"
      BY <1>0, <1>2, <1>8
    <3> QED BY <3>1, Zenon DEF Closed
  <2>7. Numbered(end2)'
    BY <2>4, <2>5, <2>6, Zenon DEF Numbered
  <2> QED BY <2>7, Zenon DEF Preorder
<1> QED BY <1>0, <1>7, <1>8

\* Every action keeps the nodes numbered in preorder.
LEMMA NextPreorder == IInv /\ Preorder /\ [Next]_vars => Preorder'
<1> SUFFICES ASSUME IInv, Preorder, [Next]_vars PROVE Preorder'
  BY Zenon
<1>0. Types /\ Stack
  BY Zenon DEF IInv
<1>1. ASSUME NEW type \in CallTypes, Enter(type) PROVE Preorder'
  BY <1>1, EnterPreorder, Zenon
<1>2. ASSUME NEW type \in CallTypes, CallEmpty(type) PROVE Preorder'
  BY <1>2, LeafPreorder, RootLeafPreorder, Zenon
<1>3. ASSUME nodes' = nodes, exTx' = exTx, runs' = runs, phase' = "ready" => phase = "ready"
      PROVE  Preorder'
  BY <1>3, SamePreorder, Zenon
<1>4. ASSUME NEW type \in CallTypes, CallUnrecorded(type) PROVE Preorder'
  <2>1. /\ nodes' = nodes /\ exTx' = exTx /\ runs' = runs
        /\ phase' = "ready" => phase = "ready"
    BY <1>4, Zenon DEF CallUnrecorded
  <2> QED BY <1>3, <2>1, Zenon
<1>5. CASE CallCodeless
  <2>1. CASE phase = "running"
    <3>1. "Call" \in CallTypes
      BY Zenon DEF CallTypes
    <3> QED BY <1>5, <2>1, <3>1, LeafPreorder, Zenon
  <2>2. CASE phase # "running"
    <3>1. callStack = <<>>
      BY <1>0, <2>2, NoTop, Zenon
    <3>2. nodes' = nodes /\ exTx' = exTx /\ runs' = runs /\ phase' # "ready"
      BY <1>5, <3>1, Zenon DEF CallCodeless, AppendLeaf
    <3> QED BY <1>3, <3>2, Zenon
  <2> QED BY <2>1, <2>2, Zenon
<1>6. CASE Log
  <2>1. /\ nodes' = nodes /\ exTx' = exTx /\ phase' = phase /\ Len(runs') = Len(runs)
        /\ \A i \in Depths : runs'[i].tx = runs[i].tx
    BY <1>0, <1>6, LogStep, Zenon
  <2> QED BY <2>1, SamePreorder, Zenon
<1>7. CASE \/ \E failed \in BOOLEAN : ExecuteEnds(failed)
           \/ LogRefused
           \/ EarlyReturn
           \/ \E outOfGas \in BOOLEAN : CreateRejected(outOfGas)
  <2>1. PICK failed \in BOOLEAN :
          \E stored \in Seq(Txs) : Stores(stored, failed) /\ Leave(stored, failed)
    BY <1>0, <1>7, Leaving, Zenon
  <2>2. PICK stored \in Seq(Txs) : Stores(stored, failed) /\ Leave(stored, failed)
    BY <2>1, Zenon
  <2>3. phase = "running"
    BY <1>0, <1>7, Leaving, Zenon
  <2> QED BY <2>2, <2>3, LeavePreorder, Zenon
<1>8. CASE CheckCallStack
  <2>1. nodes' = nodes /\ exTx' = exTx /\ runs' = runs /\ phase' # "ready"
    BY <1>8, Zenon DEF CheckCallStack
  <2> QED BY <1>3, <2>1, Zenon
<1>9. CASE UNCHANGED vars
  BY <1>3, <1>9, Zenon DEF vars
<1> QED BY <1>1, <1>2, <1>4, <1>5, <1>6, <1>7, <1>8, <1>9, Zenon DEF Next

\* The nodes are numbered in preorder in every state of a message.
LEMMA PreorderHolds == Spec => []Preorder
<1>1. Init => Preorder
  BY InitPreorder, Zenon
<1>2. IInv /\ Preorder /\ [Next]_vars => Preorder'
  BY NextPreorder, Zenon
<1> QED BY <1>1, <1>2, IInvHolds, PTL DEF Spec

\* A sequence is one over any set that holds its elements.
LEMMA SeqOver ==
  ASSUME NEW S, NEW T, NEW s \in Seq(S), \A i \in 1 .. Len(s) : s[i] \in T
  PROVE  s \in Seq(T)
OBVIOUS

\* The invariant and the numbering bound every index that TypeOK speaks of.
LEMMA IInvTypeOK == IInv /\ Preorder => TypeOK
<1> SUFFICES ASSUME IInv, Preorder PROVE TypeOK
  BY Zenon
<1>0. Types /\ Stack /\ Snapshots
  BY Zenon DEF IInv
<1>1. PICK end \in [Ids -> Nat] : Numbered(end)
  BY Zenon DEF Preorder
<1>2. /\ Len(nodes) \in Nat /\ Ids = 1 .. Len(nodes) /\ DOMAIN nodes = Ids
      /\ Len(runs) \in Nat /\ Depths = 1 .. Len(runs) /\ DOMAIN runs = Depths
      /\ Len(logs) \in Nat
  BY <1>0, Sequences, Zenon
<1>3. nodes \in Seq([CallType : CallTypes, InTxs : Seq(Ids), Events : Seq(Events)])
  <2>1. ASSUME NEW n \in Ids
        PROVE  nodes[n] \in [CallType : CallTypes, InTxs : Seq(Ids), Events : Seq(Events)]
    <3>1. nodes[n] \in Txs
      BY <1>0, Sequences, Zenon
    <3>2. nodes[n].InTxs \in Seq(Nat) /\ Len(nodes[n].InTxs) \in Nat
      BY <3>1 DEF Txs
    <3>3. \A j \in 1 .. Len(nodes[n].InTxs) : nodes[n].InTxs[j] \in Ids
      BY <1>1, Zenon DEF Numbered, Branch
    <3>4. nodes[n].InTxs \in Seq(Ids)
      BY <3>2, <3>3, SeqOver, Zenon
    <3> QED BY <3>1, <3>4, Zenon DEF Txs
  <2> DEFINE T == [CallType : CallTypes, InTxs : Seq(Ids), Events : Seq(Events)]
  <2>2. \A n \in 1 .. Len(nodes) : nodes[n] \in T
    BY <1>2, <2>1, Zenon
  <2> HIDE DEF T
  <2>3. nodes \in Seq(T)
    BY <1>0, <2>2, SeqOver, Zenon DEF Types
  <2> QED BY <2>3, Zenon DEF T
<1>4. callStack \in Seq(Ids)
  <2>1. \A i \in 1 .. Len(runs) : runs[i].tx \in Ids
    BY <1>0, <1>2, Zenon DEF Stack
  <2>2. callStack \in Seq(Nat) /\ Len(callStack) = Len(runs)
    BY <1>0, <1>2 DEF Types, Stack
  <2>3. \A i \in 1 .. Len(callStack) : callStack[i] \in Ids
    BY <1>0, <1>2, <2>1, <2>2, Zenon DEF Stack
  <2> QED BY <2>2, <2>3, SeqOver, Zenon
<1>5. exTx \in Seq(Ids)
  <2>1. exTx = <<>> \/ (exTx = <<1>> /\ 1 \in Ids)
    BY <1>1, <1>2 DEF Numbered, Open, Closed
  <2>2. ASSUME NEW S, 1 \in S PROVE <<>> \in Seq(S) /\ <<1>> \in Seq(S)
    BY <2>2
  <2>3. <<>> \in Seq(Ids)
    OBVIOUS
  <2> QED BY <2>1, <2>2, <2>3, Zenon
<1>6. runs \in Seq([tx : Ids, events : Seq(Events), snapshot : 0 .. Len(logs),
                     static : BOOLEAN])
  <2>1. ASSUME NEW i \in Depths
        PROVE  runs[i] \in [tx : Ids, events : Seq(Events), snapshot : 0 .. Len(logs),
                            static : BOOLEAN]
    <3>1. runs[i] \in Frames
      BY <1>0, Sequences, Zenon
    <3>2. runs[i].tx \in Ids /\ runs[i].snapshot <= Len(logs)
      BY <1>0, Zenon DEF Stack, Snapshots
    <3>3. runs[i].snapshot \in 0 .. Len(logs)
      BY <1>2, <3>1, <3>2 DEF Frames
    <3> QED BY <3>1, <3>2, <3>3, Zenon DEF Frames
  <2> DEFINE T == [tx : Ids, events : Seq(Events), snapshot : 0 .. Len(logs),
                   static : BOOLEAN]
  <2>2. \A i \in 1 .. Len(runs) : runs[i] \in T
    BY <1>2, <2>1, Zenon
  <2> HIDE DEF T
  <2>3. runs \in Seq(T)
    BY <1>0, <2>2, SeqOver, Zenon DEF Types
  <2> QED BY <2>3, Zenon DEF T
<1>7. /\ phase \in {"ready", "running", "returned", "done", "panicked", "callStackError"}
      /\ readOnly \in BOOLEAN /\ logs \in Seq(Events) /\ reverted \subseteq Ids
  BY <1>0, Zenon DEF Types
<1> QED BY <1>3, <1>4, <1>5, <1>6, <1>7, Zenon DEF TypeOK

\* Every index the recorder keeps, in the CallStack, in a Run, in a node or in ExTx, is
\* that of a call it has recorded, and no Run keeps a snapshot beyond the logs.
THEOREM TypeCorrect == Spec => []TypeOK
BY IInvHolds, PreorderHolds, IInvTypeOK, PTL

-----------------------------------------------------------------------------
(* Walking the tree.                                                         *)

\* the numbers from a to b
Span(a, b) == [i \in 1 .. (b - a) + 1 |-> (a + i) - 1]

\* What concatenation yields, and that sequences are what is at their positions.
LEMMA ConcatSeqs ==
  ASSUME NEW S, NEW s \in Seq(S), NEW t \in Seq(S)
  PROVE  /\ s \o t \in Seq(S) /\ Len(s \o t) = Len(s) + Len(t)
         /\ \A i \in 1 .. Len(s) + Len(t) :
              (s \o t)[i] = IF i <= Len(s) THEN s[i] ELSE t[i - Len(s)]
OBVIOUS

\* Sequences with the same entries are the same.
LEMMA SameSeqs ==
  ASSUME NEW S, NEW s \in Seq(S), NEW t \in Seq(S),
         Len(s) = Len(t), \A i \in 1 .. Len(s) : s[i] = t[i]
  PROVE  s = t
<1>1. s = [i \in 1 .. Len(s) |-> s[i]] /\ t = [i \in 1 .. Len(t) |-> t[i]]
  OBVIOUS
<1> QED BY <1>1, Zenon

\* Consecutive spans join.
LEMMA SpanConcat ==
  ASSUME NEW a \in Nat, NEW b \in Nat, NEW c \in Nat, a <= b, b < c
  PROVE  Span(a, b) \o Span(b + 1, c) = Span(a, c)
<1> DEFINE s == Span(a, b)
           t == Span(b + 1, c)
           u == Span(a, c)
<1>1. /\ s \in Seq(Nat) /\ Len(s) = (b - a) + 1 /\ \A i \in 1 .. Len(s) : s[i] = (a + i) - 1
  BY DEF Span
<1>2. /\ t \in Seq(Nat) /\ Len(t) = c - b /\ \A i \in 1 .. Len(t) : t[i] = b + i
  BY DEF Span
<1>3. /\ u \in Seq(Nat) /\ Len(u) = (c - a) + 1 /\ \A i \in 1 .. Len(u) : u[i] = (a + i) - 1
  BY DEF Span
<1> HIDE DEF s, t, u
<1>4. /\ s \o t \in Seq(Nat) /\ Len(s \o t) = Len(s) + Len(t)
      /\ \A i \in 1 .. Len(s) + Len(t) : (s \o t)[i] = IF i <= Len(s) THEN s[i] ELSE t[i - Len(s)]
  BY <1>1, <1>2, ConcatSeqs, Zenon
<1>5. Len(s \o t) = Len(u)
  BY <1>1, <1>2, <1>3, <1>4
<1>6. ASSUME NEW i \in 1 .. Len(u) PROVE (s \o t)[i] = u[i]
  <2>1. CASE i <= Len(s)
    BY <1>1, <1>2, <1>3, <1>4, <1>5, <2>1
  <2>2. CASE ~(i <= Len(s))
    <3>1. i - Len(s) \in 1 .. Len(t)
      BY <1>1, <1>2, <1>3, <1>4, <1>5, <2>2
    <3>2. t[i - Len(s)] = b + (i - Len(s))
      BY <1>2, <3>1, Zenon
    <3>3. b + (i - Len(s)) = (a + i) - 1
      BY <1>1, <1>3
    <3> QED BY <1>3, <1>4, <1>5, <2>2, <3>2, <3>3, Zenon
  <2> QED BY <2>1, <2>2, Zenon
<1>7. s \o t = u
  BY <1>3, <1>4, <1>5, <1>6, SameSeqs, Zenon
<1> QED BY <1>7, Zenon DEF s, t, u

\* A claim about every position is proved from its first or its last exception.
W == INSTANCE WellFoundedInduction

\* A set of numbers has a least one.
LEMMA Least ==
  ASSUME NEW T, T \subseteq Nat, T # {}
  PROVE  \E m \in T : \A i \in T : m <= i
<1> DEFINE R == W!OpToRel(<, Nat)
<1>1. PICK m \in T : \A y \in T : ~(<<y, m>> \in R)
  <2> HIDE DEF R
  <2> QED BY W!WFMin, W!NatLessThanWellFounded, Zenon DEF R
<1>2. ASSUME NEW y \in T PROVE m <= y
  <2>1. y \in Nat /\ m \in Nat
    BY Zenon
  <2>2. y < m => <<y, m>> \in R
    BY <2>1, Zenon DEF W!OpToRel
  <2>3. ~(y < m)
    BY <1>1, <2>2, Zenon
  <2> QED BY <2>1, <2>3
<1> QED BY <1>2, Zenon

\* A bounded set of positions has a greatest one.
LEMMA Greatest ==
  ASSUME NEW k \in Nat, NEW T, T \subseteq 1 .. k, T # {}
  PROVE  \E m \in T : \A i \in T : i <= m
<1> DEFINE U == {(k + 1) - i : i \in T}
<1>1. U \subseteq 1 .. k /\ U # {}
  <2>1. ASSUME NEW i \in T PROVE (k + 1) - i \in 1 .. k
    <3>1. i \in 1 .. k
      BY Zenon
    <3> QED BY <3>1
  <2> QED BY <2>1, Zenon
<1> HIDE DEF U
<1>2. PICK u \in U : \A v \in U : u <= v
  <2>1. U \subseteq Nat
    BY <1>1
  <2> QED BY <1>1, <2>1, Least, Zenon
<1>3. PICK m \in T : u = (k + 1) - m
  BY Zenon DEF U
<1>4. ASSUME NEW i \in T PROVE i <= m
  <2>1. (k + 1) - i \in U
    BY Zenon DEF U
  <2>2. u <= (k + 1) - i /\ i \in Nat /\ m \in Nat
    BY <1>2, <2>1
  <2> QED BY <1>3, <2>2
<1> QED BY <1>4, Zenon

\* Nothing, concatenated, is empty.
LEMMA ConcatEmpty == Concat(<<>>) = <<>>
<1> DEFINE Body(f) == [i \in 0 .. Len(<<>>) |-> IF i = 0 THEN <<>> ELSE f[i - 1] \o <<>>[i]]
           flat == CHOOSE f : f = Body(f)
           h == [i \in 0 .. 0 |-> <<>>]
<1>1. h = Body(h)
  OBVIOUS
<1>2. flat = Body(flat)
  <2> HIDE DEF Body, h
  <2> QED BY <1>1, Zenon
<1>3. flat[0] = <<>>
  <2> HIDE DEF flat
  <2> QED BY <1>2
<1>4. Concat(<<>>) = flat[0]
  BY Zenon DEF Concat
<1> QED BY <1>3, <1>4, Zenon

\* The children's spans, one after the other, are one span.
LEMMA ConcatSpans ==
  ASSUME NEW k \in Nat, k > 0, NEW c, NEW e,
         \A j \in 1 .. k : c[j] \in Nat /\ e[j] \in Nat /\ c[j] <= e[j],
         \A j \in 1 .. k - 1 : c[j + 1] = e[j] + 1
  PROVE  Concat([j \in 1 .. k |-> Span(c[j], e[j])]) = Span(c[1], e[k])
<1> DEFINE seqs == [j \in 1 .. k |-> Span(c[j], e[j])]
           Body(f) == [i \in 0 .. Len(seqs) |-> IF i = 0 THEN <<>> ELSE f[i - 1] \o seqs[i]]
           flat == CHOOSE f : f = Body(f)
           h == [i \in 0 .. k |-> IF i = 0 THEN <<>> ELSE Span(c[1], e[i])]
<1>1. Len(seqs) = k /\ \A j \in 1 .. k : seqs[j] = Span(c[j], e[j])
  OBVIOUS
<1>2. Concat(seqs) = flat[k]
  BY <1>1, Zenon DEF Concat
<1> HIDE DEF seqs
\* the ends grow
<1>3. \A i \in 1 .. k : c[1] <= e[i]
  <2> SUFFICES ASSUME NEW b \in 1 .. k, ~(c[1] <= e[b]) PROVE FALSE
    BY Zenon
  <2> DEFINE T == {i \in 1 .. k : ~(c[1] <= e[i])}
  <2>1. PICK m \in T : \A i \in T : m <= i
    <3>1. T # {} /\ T \subseteq Nat
      OBVIOUS
    <3> HIDE DEF T
    <3> QED BY <3>1, Least, Zenon
  <2>2. m \in 1 .. k /\ ~(c[1] <= e[m]) /\ m # 1
    BY Zenon
  <2>3. m - 1 \in 1 .. k /\ m - 1 \in 1 .. k - 1 /\ (m - 1) + 1 = m /\ ~(m <= m - 1)
    BY <2>2
  <2>4. c[1] <= e[m - 1]
    BY <2>1, <2>3, Zenon
  <2>5. c[m] = e[m - 1] + 1 /\ c[m] <= e[m]
    BY <2>2, <2>3, Zenon
  <2>6. c[1] \in Nat /\ e[m] \in Nat /\ e[m - 1] \in Nat
    BY <2>2, <2>3
  <2> QED BY <2>2, <2>4, <2>5, <2>6
\* one more child
<1>4. ASSUME NEW i \in 1 .. k, i # 1
      PROVE  /\ i - 1 \in 1 .. k
             /\ Span(c[1], e[i - 1]) \o seqs[i] = Span(c[1], e[i])
  <2>1. i - 1 \in 1 .. k /\ i - 1 \in 1 .. k - 1 /\ (i - 1) + 1 = i /\ 1 \in 1 .. k
    BY <1>4
  <2>2. c[i] = e[i - 1] + 1 /\ c[1] <= e[i - 1] /\ c[i] <= e[i]
    BY <1>3, <2>1, Zenon
  <2>3. c[1] \in Nat /\ e[i - 1] \in Nat /\ e[i] \in Nat
    BY <2>1, Zenon
  <2>4. e[i - 1] < e[i]
    BY <2>2, <2>3
  <2>5. Span(c[1], e[i - 1]) \o Span(e[i - 1] + 1, e[i]) = Span(c[1], e[i])
    BY <2>2, <2>3, <2>4, SpanConcat, Zenon
  <2> QED BY <1>1, <2>1, <2>2, <2>5, Zenon
<1>5. \A i \in 0 .. k : h[i] = IF i = 0 THEN <<>> ELSE h[i - 1] \o seqs[i]
  <2> TAKE i \in 0 .. k
  <2>1. CASE i = 0
    BY <2>1, Zenon
  <2>2. CASE i = 1
    <3>0. 0 \in 0 .. k /\ 1 \in 0 .. k /\ 1 \in 1 .. k
      BY <2>2
    <3>1. h[0] = <<>> /\ h[1] = Span(c[1], e[1]) /\ seqs[1] = Span(c[1], e[1]) /\ 1 - 1 = 0
      BY <1>1, <3>0
    <3>2. <<>> \o seqs[1] = seqs[1]
      BY <3>1 DEF Span
    <3> QED BY <2>2, <3>1, <3>2, Zenon
  <2>3. CASE i # 0 /\ i # 1
    <3>1. i \in 1 .. k /\ i - 1 \in 0 .. k /\ i - 1 # 0
      BY <2>3
    <3>2. h[i] = Span(c[1], e[i]) /\ h[i - 1] = Span(c[1], e[i - 1])
      BY <3>1
    <3> QED BY <1>4, <2>3, <3>1, <3>2, Zenon
  <2> QED BY <2>1, <2>2, <2>3, Zenon
<1>6. ASSUME NEW f, f = Body(f) PROVE f = h
  <2>1. DOMAIN f = 0 .. k /\ f = [i \in 0 .. k |-> f[i]]
    BY <1>1, <1>6, Zenon
  <2>2. \A i \in 0 .. k : f[i] = IF i = 0 THEN <<>> ELSE f[i - 1] \o seqs[i]
    BY <1>1, <1>6, Zenon
  <2>3. ASSUME NEW b \in 0 .. k, f[b] # h[b] PROVE FALSE
    <3> DEFINE T == {i \in 0 .. k : f[i] # h[i]}
    <3>1. PICK m \in T : \A i \in T : m <= i
      <4>0. b \in T /\ 0 .. k \subseteq Nat
        BY <2>3
      <4>1. T # {} /\ T \subseteq Nat
        BY <4>0, Zenon
      <4> HIDE DEF T
      <4> QED BY <4>1, Least, Zenon
    <3>2. m \in 0 .. k /\ f[m] # h[m]
      BY Zenon
    <3> HIDE DEF h
    <3>3. CASE m = 0
      BY <1>5, <2>2, <3>2, <3>3, Zenon
    <3>4. CASE m # 0
      <4>1. m - 1 \in 0 .. k /\ ~(m <= m - 1)
        BY <3>2, <3>4
      <4>2. f[m - 1] = h[m - 1]
        BY <3>1, <4>1, Zenon
      <4> QED BY <1>5, <2>2, <3>2, <3>4, <4>2, Zenon
    <3> QED BY <3>3, <3>4, Zenon
  <2> QED BY <2>1, <2>3, Zenon
<1>7. flat = h
  <2> HIDE DEF Body, h
  <2>1. h = Body(h)
    BY <1>1, <1>5, Zenon DEF Body, h
  <2>2. flat = Body(flat)
    BY <2>1, Zenon
  <2> QED BY <1>6, <2>2, Zenon
<1> HIDE DEF flat
<1>8. flat[k] = Span(c[1], e[k])
  BY <1>7
<1> QED BY <1>2, <1>8, Zenon DEF seqs

\* A call and the calls below it, as its children list them, are one span.
LEMMA OneBranch ==
  ASSUME Types, NEW end \in [Ids -> Nat], NEW n \in Ids, Branch(end, n),
         \A m \in Ids : Branch(end, m)
  PROVE  <<n>> \o Concat([i \in 1 .. Len(nodes[n].InTxs) |->
                                Span(nodes[n].InTxs[i], end[nodes[n].InTxs[i]])])
           = Span(n, end[n])
<1> DEFINE c == nodes[n].InTxs
           k == Len(c)
           e == [j \in 1 .. k |-> end[c[j]]]
<1>1. c \in Seq(Nat) /\ k \in Nat /\ n \in Nat
  BY Sequences DEF Txs
<1>2. /\ end[n] \in n .. Len(nodes) /\ (k = 0 => end[n] = n)
      /\ k > 0 => c[1] = n + 1 /\ end[n] = end[c[k]]
      /\ \A j \in 1 .. k : c[j] \in Ids /\ c[j] > n
      /\ \A j \in 1 .. k - 1 : c[j + 1] = end[c[j]] + 1
  BY Zenon DEF Branch
<1>3. \A m \in Ids : end[m] \in m .. Len(nodes) /\ m \in Nat /\ end[m] \in Nat
  <2>1. \A m \in Ids : end[m] \in m .. Len(nodes) /\ end[m] \in Nat
    BY Zenon DEF Branch
  <2> QED BY <2>1, Sequences
<1>4. <<n>> = Span(n, n)
  BY <1>1 DEF Span
<1>5. CASE k = 0
  <2>1. [i \in 1 .. k |-> Span(c[i], end[c[i]])] = <<>>
    BY <1>5
  <2>2. Concat(<<>>) = <<>>
    BY ConcatEmpty, Zenon
  <2>3. <<n>> \o <<>> = <<n>>
    BY <1>1
  <2> QED BY <1>2, <1>4, <1>5, <2>1, <2>2, <2>3, Zenon
<1>6. CASE k > 0
  <2> HIDE DEF k, c
  <2>0. k \in 1 .. k /\ 1 \in 1 .. k
    BY <1>1, <1>6
  <2>1. \A j \in 1 .. k : c[j] \in Nat /\ e[j] \in Nat /\ c[j] <= e[j]
    BY <1>2, <1>3
  <2>2. ASSUME NEW j \in 1 .. k - 1 PROVE c[j + 1] = e[j] + 1
    <3>1. j \in 1 .. k
      BY <1>1
    <3> QED BY <1>2, <3>1, Zenon
  <2>3. [j \in 1 .. k |-> Span(c[j], e[j])] = [j \in 1 .. k |-> Span(c[j], end[c[j]])]
    BY Zenon
  <2>4. e[k] = end[n] /\ c[1] = n + 1
    BY <1>2, <1>6, <2>0, Zenon
  <2> HIDE DEF e
  <2>5. Concat([j \in 1 .. k |-> Span(c[j], e[j])]) = Span(c[1], e[k])
    BY <1>1, <1>6, <2>1, <2>2, ConcatSpans, Zenon
  <2>6. Concat([j \in 1 .. k |-> Span(c[j], end[c[j]])]) = Span(n + 1, end[n])
    BY <2>3, <2>4, <2>5, Zenon
  <2>7. n < end[n] /\ end[n] \in Nat
    <3>1. c[1] > n /\ c[1] \in Nat /\ end[n] \in Nat
      BY <1>2, <1>3, <2>0, <2>1, Zenon
    <3>2. end[n] \in n .. Len(nodes) /\ end[n] # n
      <4>1. e[k] \in Nat /\ c[k] \in Nat /\ c[k] <= e[k] /\ c[k] > n
        BY <1>2, <2>0, <2>1, Zenon
      <4> QED BY <1>1, <1>2, <2>4, <4>1
    <3> QED BY <1>1, <3>1, <3>2
  <2>8. Span(n, n) \o Span(n + 1, end[n]) = Span(n, end[n])
    <3>1. n <= n
      BY <1>1
    <3> QED BY <1>1, <2>7, <3>1, SpanConcat, Zenon
  <2> QED BY <1>4, <2>6, <2>8, Zenon DEF c, k
<1>7. k = 0 \/ k > 0
  BY <1>1
<1> QED BY <1>5, <1>6, <1>7, Zenon

\* The walk over the tree meets the calls in the order of their numbers.
LEMMA VisitIsSpan ==
  ASSUME Types, NEW end \in [Ids -> Nat], \A m \in Ids : Branch(end, m)
  PROVE  \A n \in Ids : Visit[n] = Span(n, end[n])
<1> DEFINE Body(f) == [n \in Ids |-> <<n>> \o Concat(
                         [i \in 1 .. Len(nodes[n].InTxs) |-> f[nodes[n].InTxs[i]]])]
           visit == CHOOSE f : f = Body(f)
           g == [n \in Ids |-> Span(n, end[n])]
<1>1. Visit = visit
  BY Zenon DEF Visit
<1>2. \A n \in Ids : \A i \in 1 .. Len(nodes[n].InTxs) :
        nodes[n].InTxs[i] \in Ids /\ nodes[n].InTxs[i] > n
  BY Zenon DEF Branch
\* it is enough to know the walks of the children
<1>3. ASSUME NEW f, NEW n \in Ids,
             \A i \in 1 .. Len(nodes[n].InTxs) : f[nodes[n].InTxs[i]] = g[nodes[n].InTxs[i]]
      PROVE  Body(f)[n] = g[n]
  <2>1. [i \in 1 .. Len(nodes[n].InTxs) |-> f[nodes[n].InTxs[i]]]
          = [i \in 1 .. Len(nodes[n].InTxs) |-> Span(nodes[n].InTxs[i], end[nodes[n].InTxs[i]])]
    BY <1>2, <1>3, Zenon
  <2>2. <<n>> \o Concat([i \in 1 .. Len(nodes[n].InTxs) |->
                               Span(nodes[n].InTxs[i], end[nodes[n].InTxs[i]])])
          = Span(n, end[n])
    BY OneBranch, Zenon
  <2> QED BY <2>1, <2>2, Zenon
<1>4. g = Body(g)
  <2>1. \A n \in Ids : Body(g)[n] = g[n]
    <3> HIDE DEF g, Body
    <3> QED BY <1>3, Zenon
  <2>2. Body(g) = [n \in Ids |-> Body(g)[n]]
    BY Zenon
  <2>3. g = [n \in Ids |-> g[n]]
    BY Zenon
  <2> HIDE DEF g, Body
  <2> QED BY <2>1, <2>2, <2>3, Zenon
<1>5. ASSUME NEW f, f = Body(f) PROVE \A n \in Ids : f[n] = g[n]
  <2> SUFFICES ASSUME NEW b \in Ids, f[b] # g[b] PROVE FALSE
    BY Zenon
  <2> DEFINE T == {n \in Ids : f[n] # g[n]}
  <2> HIDE DEF g, Body
  <2>1. PICK m \in T : \A i \in T : i <= m
    <3>1. T # {} /\ T \subseteq 1 .. Len(nodes) /\ Len(nodes) \in Nat
      BY Sequences, Zenon
    <3> HIDE DEF T
    <3> QED BY <3>1, Greatest, Zenon
  <2>2. m \in Ids /\ f[m] # g[m] /\ m \in Nat /\ \A i \in Ids : i \in Nat
    <3>1. m \in Ids /\ f[m] # g[m]
      BY Zenon
    <3>2. \A i \in Ids : i \in Nat
      BY Sequences
    <3> QED BY <3>1, <3>2, Zenon
  <2>3. \A i \in 1 .. Len(nodes[m].InTxs) : f[nodes[m].InTxs[i]] = g[nodes[m].InTxs[i]]
    <3> SUFFICES ASSUME NEW i \in 1 .. Len(nodes[m].InTxs)
                 PROVE  f[nodes[m].InTxs[i]] = g[nodes[m].InTxs[i]]
      BY Zenon
    <3>1. nodes[m].InTxs[i] \in Ids /\ nodes[m].InTxs[i] > m
      BY <1>2, <2>2, Zenon
    <3>2. ~(nodes[m].InTxs[i] <= m)
      <4> DEFINE c == nodes[m].InTxs[i]
      <4>1. c \in Nat /\ m \in Nat /\ c > m
        BY <2>2, <3>1, Zenon
      <4> HIDE DEF c
      <4>2. ~(c <= m)
        BY <4>1
      <4> QED BY <4>2, Zenon DEF c
    <3> QED BY <2>1, <3>1, <3>2, Zenon
  <2>4. Body(f)[m] = g[m]
    BY <1>3, <2>2, <2>3, Zenon
  <2> QED BY <1>5, <2>2, <2>4, Zenon
<1>6. visit = Body(visit)
  <2> HIDE DEF Body, g
  <2> QED BY <1>4, Zenon
<1> HIDE DEF visit, Body
<1>7. \A n \in Ids : visit[n] = g[n]
  BY <1>5, <1>6, Zenon
<1> QED BY <1>1, <1>7, Zenon

\* When the message is done, the outermost call is the first node and its branch is all of
\* them.
LEMMA PreorderTrace == IInv /\ Preorder => TraceInExecutionOrder
<1> SUFFICES ASSUME IInv, Preorder, phase = "done"
             PROVE  IF nodes = <<>> THEN exTx = <<>>
                    ELSE Len(exTx) = 1 /\ Visit[exTx[1]] = [i \in Ids |-> i]
  BY Zenon DEF TraceInExecutionOrder
<1>1. Types /\ Stack /\ Len(nodes) \in Nat /\ Ids = 1 .. Len(nodes)
  BY Sequences, Zenon DEF IInv
<1>2. Len(runs) = 0
  BY <1>1, NoTop, Zenon
<1>3. PICK end \in [Ids -> Nat] : Numbered(end)
  BY Zenon DEF Preorder
<1>4. IF Len(nodes) = 0 THEN exTx = <<>> ELSE exTx = <<1>> /\ end[1] = Len(nodes)
  BY <1>2, <1>3, Zenon DEF Numbered, Closed
<1>5. nodes = <<>> <=> Len(nodes) = 0
  BY <1>1 DEF Types
<1>6. CASE Len(nodes) # 0
  <2>1. exTx = <<1>> /\ end[1] = Len(nodes) /\ 1 \in Ids
    BY <1>1, <1>4, <1>6
  <2>2. Visit[1] = Span(1, end[1])
    BY <1>1, <1>3, <2>1, VisitIsSpan, Zenon DEF Numbered
  <2>3. Span(1, Len(nodes)) = [i \in Ids |-> i]
    BY <1>1 DEF Span
  <2>4. Len(exTx) = 1 /\ exTx[1] = 1
    BY <2>1, Zenon
  <2> QED BY <1>5, <1>6, <2>1, <2>2, <2>3, <2>4, Zenon
<1> QED BY <1>4, <1>5, <1>6, Zenon

\* A finished message leaves one tree or none, and walking it depth first meets every
\* recorded call once, in the order in which the calls were made.
THEOREM TreeInExecutionOrder == Spec => []TraceInExecutionOrder
BY IInvHolds, PreorderHolds, PreorderTrace, PTL
=============================================================================
