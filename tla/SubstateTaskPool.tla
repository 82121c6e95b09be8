-------------------------- MODULE SubstateTaskPool --------------------------
(***************************************************************************)
(* The worker pool of research/substate_task.go.  The three entry points    *)
(* Execute, ExecuteWithTx and ExecuteTest share one structure: a producer   *)
(* goroutine puts the items of a range on workChan, the worker goroutines   *)
(* run them and report on doneChan, and the caller ("main") counts the      *)
(* finished items in order.  Leaving the function runs the deferred block   *)
(* that sends the stop tokens and waits for every goroutine.                *)
(*                                                                          *)
(* An item is a block for Execute, an index of blockTxList for              *)
(* ExecuteWithTx and a round for ExecuteTest.  BlockSubstates[b] gives the  *)
(* transactions of item b and the kind of each one, which is all that the   *)
(* pool reads of a substate.  The select statements of Go are disjunctions; *)
(* a channel is a sequence of bounded length.                               *)
(***************************************************************************)
EXTENDS Integers, Sequences, FiniteSets

CONSTANTS
  NumWorkers,      \* pool.Workers
  First, Last,     \* the range of items, pool.First and pool.Last
  ChanFactor,      \* channel slots per worker, 10 in the code
  Mode,            \* which entry point runs
  Skip,            \* the kinds whose --skip-* flag is set
  BlockSubstates,  \* item -> transaction index -> kind
  TaskOutcomes     \* what TaskFunc may return

Modes == {"Execute", "ExecuteWithTx", "ExecuteTest"}
Kinds == {"transfer", "call", "create", "outOfRange"}
Outcomes == {"nil", "notInner", "error"}

Blocks == First..Last
Workers == 1..NumWorkers

\* faulty variants of the two sizes below
ChanCapOneLess == NumWorkers * ChanFactor - 1
OneStopToken == 1

\* make(chan uint64, pool.Workers*10), for workChan and doneChan
ChanCap == NumWorkers * ChanFactor

\* one token per worker and one for the producer
StopTokens == NumWorkers + 1

Done == [block : Blocks, err : BOOLEAN]

ASSUME PoolAssumption ==
  /\ NumWorkers \in Nat \ {0}
  /\ First \in Nat /\ Last \in Int
  /\ ChanFactor \in Nat \ {0}
  /\ Mode \in Modes
  /\ Skip \subseteq {"transfer", "call", "create"}
  /\ TaskOutcomes \subseteq Outcomes
  /\ DOMAIN BlockSubstates = Blocks
  /\ \A b \in Blocks : \A t \in DOMAIN BlockSubstates[b] :
        /\ BlockSubstates[b][t] \in Kinds
        /\ BlockSubstates[b][t] = "outOfRange" => Mode = "ExecuteWithTx"

Tasks == UNION {{b} \X DOMAIN BlockSubstates[b] : b \in Blocks}

VARIABLES
  workChan,       \* items handed to the workers
  doneChan,       \* finished items and errors handed to main
  stopChan,       \* number of stop tokens in the channel
  worker,         \* worker -> where its goroutine is
  job,            \* worker -> the item it received last
  todo,           \* worker -> transactions of the item not visited yet
  numTx,          \* worker -> numTx of the running ExecuteBlock
  jobErr,         \* worker -> whether ExecuteBlock returned an error
  producer,       \* "loop" or "exited"
  next,           \* the producer's loop variable
  main,           \* "loop", "stopping" (deferred block) or "returned"
  cursor,         \* main's loop variable
  waitMap,        \* finished items that are not yet counted
  stops,          \* stop tokens main still has to send
  result,         \* what Execute is about to return
  totalNumBlock, totalNumTx,   \* the atomic counters
  ran,            \* history: how often TaskFunc ran on a task
  counted,        \* history: the tasks that numTx counts
  finished,       \* history: items whose execution returned no error
  failed          \* history: items whose execution returned an error

mainVars == <<main, cursor, waitMap, stops, result>>
producerVars == <<producer, next>>
workerVars == <<worker, job, todo, numTx, jobErr>>
totals == <<totalNumBlock, totalNumTx>>
history == <<ran, counted, finished, failed>>
vars == <<workChan, doneChan, stopChan, workerVars, producerVars, mainVars,
          totals, history>>

-----------------------------------------------------------------------------
(* Which transactions an entry point passes over.  ExecuteBlock honours the *)
(* three flags, ExecuteBlockTx only --skip-transfer-txs and the range test, *)
(* TestBlock none of them.                                                  *)
Skipped(k) ==
  CASE Mode = "Execute" -> k \in Skip
    [] Mode = "ExecuteWithTx" -> \/ k = "outOfRange"
                                 \/ k = "transfer" /\ "transfer" \in Skip
    [] Mode = "ExecuteTest" -> FALSE

Init ==
  /\ workChan = <<>> /\ doneChan = <<>> /\ stopChan = 0
  /\ worker = [w \in Workers |-> "select"]
  /\ job = [w \in Workers |-> First]
  /\ todo = [w \in Workers |-> {}]
  /\ numTx = [w \in Workers |-> 0]
  /\ jobErr = [w \in Workers |-> FALSE]
  /\ producer = "loop" /\ next = First
  /\ main = "loop" /\ cursor = First /\ waitMap = {}
  /\ stops = StopTokens /\ result = "none"
  /\ totalNumBlock = 0 /\ totalNumTx = 0
  /\ ran = [k \in Tasks |-> 0]
  /\ counted = {} /\ finished = {} /\ failed = {}

-----------------------------------------------------------------------------
(* Faulty variants of the operations that follow.  No specification uses    *)
(* them: each one stands for a plausible slip in the code and breaks a      *)
(* property (README, "What the properties are sensitive to").               *)

\* the item stays on workChan
WorkerReceivePeek(w) ==
  /\ worker[w] = "select" /\ workChan # <<>>
  /\ job' = [job EXCEPT ![w] = Head(workChan)]
  /\ todo' = [todo EXCEPT ![w] = DOMAIN BlockSubstates[Head(workChan)]]
  /\ numTx' = [numTx EXCEPT ![w] = 0]
  /\ jobErr' = [jobErr EXCEPT ![w] = FALSE]
  /\ worker' = [worker EXCEPT ![w] = "execute"]
  /\ UNCHANGED <<workChan, doneChan, stopChan, producerVars, mainVars, totals, history>>

\* numTx is added only when there was no error
AddNumTxUnlessErr(w) ==
  /\ worker[w] = "execute" /\ todo[w] = {}
  /\ totalNumTx' = IF jobErr[w] THEN totalNumTx ELSE totalNumTx + numTx[w]
  /\ worker' = [worker EXCEPT ![w] = IF Mode = "Execute" THEN "addBlock" ELSE "send"]
  /\ IF jobErr[w]
       THEN failed' = failed \cup {job[w]} /\ UNCHANGED finished
       ELSE finished' = finished \cup {job[w]} /\ UNCHANGED failed
  /\ UNCHANGED <<workChan, doneChan, stopChan, job, todo, numTx, jobErr,
                 producerVars, mainVars, totalNumBlock, ran, counted>>

\* the producer ignores the capacity of workChan
ProducerSendUnbounded ==
  /\ producer = "loop" /\ next <= Last
  /\ workChan' = Append(workChan, next)
  /\ next' = next + 1
  /\ UNCHANGED <<doneChan, stopChan, workerVars, producer, mainVars, totals, history>>

\* delete(waitMap, block) is missing
MainCountNoDelete ==
  /\ main = "loop" /\ cursor <= Last /\ cursor \in waitMap
  /\ cursor' = cursor + 1
  /\ UNCHANGED <<workChan, doneChan, stopChan, workerVars, producerVars, main,
                 waitMap, stops, result, totals, history>>

\* an error is recorded in waitMap like a block
MainReceiveErrAsBlock ==
  /\ main = "loop" /\ cursor <= Last /\ cursor \notin waitMap
  /\ doneChan # <<>>
  /\ doneChan' = Tail(doneChan)
  /\ waitMap' = waitMap \cup {Head(doneChan).block}
  /\ UNCHANGED <<workChan, stopChan, workerVars, producerVars, main, cursor,
                 stops, result, totals, history>>

\* block < pool.Last in the loop condition
MainFinishOneEarly ==
  /\ main = "loop" /\ cursor >= Last
  /\ main' = "stopping" /\ result' = "nil"
  /\ UNCHANGED <<workChan, doneChan, stopChan, workerVars, producerVars, cursor,
                 waitMap, stops, totals, history>>

\* wg.Wait() is missing
MainReturnNoWait ==
  /\ main = "stopping" /\ stops = 0
  /\ main' = "returned"
  /\ UNCHANGED <<workChan, doneChan, stopChan, workerVars, producerVars, cursor,
                 waitMap, stops, result, totals, history>>

-----------------------------------------------------------------------------
(* The worker goroutine. *)

\* case block := <-workChan
WorkerReceive(w) ==
  /\ worker[w] = "select"
  /\ workChan # <<>>
  /\ LET b == Head(workChan) IN
       /\ job' = [job EXCEPT ![w] = b]
       /\ todo' = [todo EXCEPT ![w] = DOMAIN BlockSubstates[b]]
  /\ workChan' = Tail(workChan)
  /\ numTx' = [numTx EXCEPT ![w] = 0]
  /\ jobErr' = [jobErr EXCEPT ![w] = FALSE]
  /\ worker' = [worker EXCEPT ![w] = "execute"]
  /\ UNCHANGED <<doneChan, stopChan, producerVars, mainVars, totals, history>>

\* one iteration of the loop in ExecuteBlock that ends in continue
SkipTx(w) ==
  /\ worker[w] = "execute"
  /\ \E t \in todo[w] :
       /\ Skipped(BlockSubstates[job[w]][t])
       /\ todo' = [todo EXCEPT ![w] = @ \ {t}]
  /\ UNCHANGED <<workChan, doneChan, stopChan, worker, job, numTx, jobErr,
                 producerVars, mainVars, totals, history>>

\* one iteration that calls TaskFunc; an error leaves the loop.  "not inner"
\* takes one off numTx before the common increment.  ExecuteBlockTx drops the
\* error and returns 1 whatever happened.
RunTask(w, t, o) ==
  LET k == <<job[w], t>>
      stop == o = "error" /\ Mode # "ExecuteWithTx"
      one == Mode = "Execute" /\ o = "nil"
  IN /\ worker[w] = "execute"
     /\ ~Skipped(BlockSubstates[job[w]][t])
     /\ ran' = [ran EXCEPT ![k] = @ + 1]
     /\ todo' = [todo EXCEPT ![w] = IF stop THEN {} ELSE @ \ {t}]
     /\ jobErr' = [jobErr EXCEPT ![w] = stop]
     /\ numTx' = [numTx EXCEPT ![w] = IF one THEN @ + 1 ELSE @]
     /\ counted' = IF one THEN counted \cup {k} ELSE counted
     /\ UNCHANGED <<workChan, doneChan, stopChan, worker, job, producerVars,
                    mainVars, totals, finished, failed>>

RunTx(w) == \E t \in todo[w], o \in TaskOutcomes : RunTask(w, t, o)

\* ExecuteBlock has returned; atomic.AddInt64(&totalNumTx, nt)
AddNumTx(w) ==
  /\ worker[w] = "execute"
  /\ todo[w] = {}
  /\ totalNumTx' = totalNumTx + (IF Mode = "ExecuteWithTx" THEN 1 ELSE numTx[w])
  /\ worker' = [worker EXCEPT ![w] = IF Mode = "Execute" THEN "addBlock" ELSE "send"]
  /\ IF jobErr[w]
       THEN failed' = failed \cup {job[w]} /\ UNCHANGED finished
       ELSE finished' = finished \cup {job[w]} /\ UNCHANGED failed
  /\ UNCHANGED <<workChan, doneChan, stopChan, job, todo, numTx, jobErr,
                 producerVars, mainVars, totalNumBlock, ran, counted>>

\* atomic.AddInt64(&totalNumBlock, 1)
AddNumBlock(w) ==
  /\ worker[w] = "addBlock"
  /\ totalNumBlock' = totalNumBlock + 1
  /\ worker' = [worker EXCEPT ![w] = "send"]
  /\ UNCHANGED <<workChan, doneChan, stopChan, job, todo, numTx, jobErr,
                 producerVars, mainVars, totalNumTx, history>>

\* doneChan <- err or doneChan <- block; blocks while the channel is full
WorkerSend(w) ==
  /\ worker[w] = "send"
  /\ Len(doneChan) < ChanCap
  /\ doneChan' = Append(doneChan, [block |-> job[w], err |-> jobErr[w]])
  /\ worker' = [worker EXCEPT ![w] = "select"]
  /\ UNCHANGED <<workChan, stopChan, job, todo, numTx, jobErr, producerVars,
                 mainVars, totals, history>>

\* case <-stopChan
WorkerStop(w) ==
  /\ worker[w] = "select"
  /\ stopChan > 0
  /\ stopChan' = stopChan - 1
  /\ worker' = [worker EXCEPT ![w] = "exited"]
  /\ UNCHANGED <<workChan, doneChan, job, todo, numTx, jobErr, producerVars,
                 mainVars, totals, history>>

Worker(w) ==
  \/ WorkerReceive(w) \/ SkipTx(w) \/ RunTx(w) \/ AddNumTx(w)
  \/ AddNumBlock(w) \/ WorkerSend(w) \/ WorkerStop(w)

-----------------------------------------------------------------------------
(* The producer goroutine. *)

ProducerSend ==
  /\ producer = "loop" /\ next <= Last
  /\ Len(workChan) < ChanCap
  /\ workChan' = Append(workChan, next)
  /\ next' = next + 1
  /\ UNCHANGED <<doneChan, stopChan, workerVars, producer, mainVars, totals, history>>

ProducerStop ==
  /\ producer = "loop" /\ next <= Last
  /\ stopChan > 0
  /\ stopChan' = stopChan - 1
  /\ producer' = "exited"
  /\ UNCHANGED <<workChan, doneChan, workerVars, next, mainVars, totals, history>>

ProducerExit ==
  /\ producer = "loop" /\ next > Last
  /\ producer' = "exited"
  /\ UNCHANGED <<workChan, doneChan, stopChan, workerVars, next, mainVars,
                 totals, history>>

Producer == ProducerSend \/ ProducerStop \/ ProducerExit

-----------------------------------------------------------------------------
(* The goroutine that called Execute. *)

\* count finished items from waitMap in order
MainCount ==
  /\ main = "loop" /\ cursor <= Last
  /\ cursor \in waitMap
  /\ waitMap' = waitMap \ {cursor}
  /\ cursor' = cursor + 1
  /\ UNCHANGED <<workChan, doneChan, stopChan, workerVars, producerVars, main,
                 stops, result, totals, history>>

\* data := <-doneChan
MainReceive ==
  /\ main = "loop" /\ cursor <= Last
  /\ cursor \notin waitMap
  /\ doneChan # <<>>
  /\ doneChan' = Tail(doneChan)
  /\ IF Head(doneChan).err
       THEN main' = "stopping" /\ result' = "error" /\ UNCHANGED waitMap
       ELSE /\ waitMap' = waitMap \cup {Head(doneChan).block}
            /\ UNCHANGED <<main, result>>
  /\ UNCHANGED <<workChan, stopChan, workerVars, producerVars, cursor, stops,
                 totals, history>>

\* the loop is over: return nil
MainFinish ==
  /\ main = "loop" /\ cursor > Last
  /\ main' = "stopping" /\ result' = "nil"
  /\ UNCHANGED <<workChan, doneChan, stopChan, workerVars, producerVars, cursor,
                 waitMap, stops, totals, history>>

\* deferred: stopChan <- struct{}{}, once per worker and once for the producer
MainSendStop ==
  /\ main = "stopping" /\ stops > 0
  /\ stopChan < NumWorkers
  /\ stopChan' = stopChan + 1
  /\ stops' = stops - 1
  /\ UNCHANGED <<workChan, doneChan, workerVars, producerVars, main, cursor,
                 waitMap, result, totals, history>>

\* deferred: wg.Wait(), close(workChan), close(doneChan), and Execute returns
MainReturn ==
  /\ main = "stopping" /\ stops = 0
  /\ producer = "exited" /\ \A w \in Workers : worker[w] = "exited"
  /\ main' = "returned"
  /\ UNCHANGED <<workChan, doneChan, stopChan, workerVars, producerVars, cursor,
                 waitMap, stops, result, totals, history>>

Main == MainCount \/ MainReceive \/ MainFinish \/ MainSendStop \/ MainReturn

Next == Main \/ Producer \/ (\E w \in Workers : Worker(w))

\* the Go scheduler runs every goroutine that can make a step
Fairness ==
  /\ WF_vars(Main) /\ WF_vars(Producer)
  /\ \A w \in Workers : WF_vars(Worker(w))

Spec == Init /\ [][Next]_vars
FairSpec == Spec /\ Fairness
-----------------------------------------------------------------------------
(* Properties. *)

Holding(w) == worker[w] \in {"execute", "addBlock", "send"}
Held == {w \in Workers : Holding(w)}

\* Type invariant: the channels of substate_task.go:345-347 respect their
\* capacities and every goroutine is at one of its program points.
TypeOK ==
  /\ workChan \in Seq(Blocks) /\ Len(workChan) <= ChanCap
  /\ doneChan \in Seq(Done) /\ Len(doneChan) <= ChanCap
  /\ stopChan \in Nat /\ stopChan <= NumWorkers
  /\ worker \in [Workers -> {"select", "execute", "addBlock", "send", "exited"}]
  /\ job \in [Workers -> Int]
  /\ \A w \in Workers : Holding(w) => job[w] \in Blocks
  /\ DOMAIN todo = Workers
  /\ \A w \in Workers : Holding(w) => todo[w] \subseteq DOMAIN BlockSubstates[job[w]]
  /\ numTx \in [Workers -> Nat]
  /\ jobErr \in [Workers -> BOOLEAN]
  /\ producer \in {"loop", "exited"} /\ next \in Nat /\ First <= next
  /\ main \in {"loop", "stopping", "returned"} /\ cursor \in Nat
  /\ waitMap \subseteq Blocks
  /\ stops \in Nat
  /\ result \in {"none", "nil", "error"}
  /\ totalNumBlock \in Nat /\ totalNumTx \in Nat
  /\ ran \in [Tasks -> Nat]
  /\ counted \subseteq Tasks
  /\ finished \subseteq Blocks /\ failed \subseteq Blocks

\* No interleaving of the workers runs TaskFunc twice on a transaction, and no
\* item is both finished and failed (the workers share one workChan).
ExactlyOnce ==
  /\ \A k \in Tasks : ran[k] <= 1
  /\ finished \cap failed = {}

\* When Execute is about to return nil, every item was executed without error
\* and TaskFunc ran on every transaction that no flag skips, and on no other.
NilMeansAllRan ==
  result = "nil" =>
    /\ finished = Blocks /\ failed = {}
    /\ \A k \in Tasks : ran[k] = IF Skipped(BlockSubstates[k[1]][k[2]]) THEN 0 ELSE 1

\* Execute returns an error only if TaskFunc failed on some item, and main
\* counted only items that finished without error before it.
CountedInOrder ==
  /\ result = "error" => failed # {}
  /\ \A b \in Blocks : b < cursor => b \in finished

\* Every item the producer has sent is in exactly one place: on workChan, held
\* by a worker, on doneChan, in waitMap, counted, or the error main received.
NoItemLostOrDuplicated ==
  next - First =
    Len(workChan) + Cardinality(Held) + Len(doneChan)
      + Cardinality(waitMap) + (cursor - First)
      + (IF result = "error" THEN 1 ELSE 0)

\* The counters printed by the deferred report are complete when Execute
\* returns, and never behind the blocks that main has counted in order.
TotalsComplete ==
  /\ Mode = "Execute" => cursor - First <= totalNumBlock
  /\ main = "returned" =>
       CASE Mode = "Execute" -> /\ totalNumBlock = Cardinality(finished \cup failed)
                                /\ totalNumTx = Cardinality(counted)
         [] Mode = "ExecuteWithTx" -> totalNumTx = Cardinality(finished)
         [] Mode = "ExecuteTest" -> totalNumTx = 0

\* After main has stopped receiving, no worker waits on a full doneChan: the
\* stop tokens of the deferred block reach all of them.
StopReachesWorkers ==
  \A w \in Workers :
    main # "loop" /\ worker[w] = "send" => Len(doneChan) < ChanCap

\* Execute returns ("stop all workers", "stop work producer (1)"): the deferred
\* block gets every goroutine to exit.
Terminates == <>(main = "returned")
Promise == INSTANCE InOrderExecution
  WITH outcome <- IF main = "returned" THEN result ELSE "running"

\* The goroutines and channels of Execute implement the promise of
\* InOrderExecution: every step is one of its steps or invisible to the caller.
ImplementsPromise == Promise!Spec

-----------------------------------------------------------------------------
(* The inductive invariant behind the properties: where an item is and what *)
(* has happened to its transactions by then.                                *)

\* how often TaskFunc runs on transaction t of an item that finishes
Expected(b, t) == IF Skipped(BlockSubstates[b][t]) THEN 0 ELSE 1

Untouched(b) ==
  /\ b \notin finished /\ b \notin failed
  /\ \A t \in DOMAIN BlockSubstates[b] : ran[<<b, t>>] = 0

\* items at or beyond next, or still on workChan, are untouched
WaitingItems ==
  /\ \A b \in Blocks : b >= next => Untouched(b)
  /\ \A i \in 1..Len(workChan) : workChan[i] < next /\ Untouched(workChan[i])
  /\ \A i, j \in 1..Len(workChan) : i < j => workChan[i] < workChan[j]
  /\ \A i \in 1..Len(workChan), w \in Workers : Holding(w) => job[w] # workChan[i]

\* no item is with two workers, and each worker is as far as ran says
HeldItems ==
  /\ \A v, w \in Workers : Holding(v) /\ Holding(w) /\ v # w => job[v] # job[w]
  /\ \A w \in Workers : Holding(w) => job[w] < next
  /\ \A w \in Workers : worker[w] = "execute" =>
       /\ job[w] \notin finished /\ job[w] \notin failed
       /\ jobErr[w] => todo[w] = {}
       /\ \A t \in DOMAIN BlockSubstates[job[w]] :
            /\ t \in todo[w] => ran[<<job[w], t>>] = 0
            /\ ~jobErr[w] /\ t \notin todo[w] => ran[<<job[w], t>>] = Expected(job[w], t)
  /\ \A w \in Workers : worker[w] \in {"addBlock", "send"} =>
       IF jobErr[w] THEN job[w] \in failed ELSE job[w] \in finished

\* what main is told, and what it believes, is what happened
ReportedItems ==
  /\ \A i \in 1..Len(doneChan) :
       IF doneChan[i].err THEN doneChan[i].block \in failed
                          ELSE doneChan[i].block \in finished
  /\ waitMap \subseteq finished
  /\ \A b \in Blocks : b < cursor => b \in finished

\* an item that is finished ran completely, and nothing ran twice
ExecutedItems ==
  /\ finished \cap failed = {}
  /\ \A b \in finished : \A t \in DOMAIN BlockSubstates[b] : ran[<<b, t>>] = Expected(b, t)
  /\ \A b \in Blocks : \A t \in DOMAIN BlockSubstates[b] : ran[<<b, t>>] <= 1

\* the result agrees with where main is and with what it counted
ResultAgrees ==
  /\ result = "nil" => cursor > Last
  /\ result = "error" => failed # {}
  /\ result = "none" <=> main = "loop"
  /\ main = "returned" => producer = "exited" /\ \A w \in Workers : worker[w] = "exited"

ItemsAgree == WaitingItems /\ HeldItems /\ ReportedItems /\ ExecutedItems /\ ResultAgrees
IInv == TypeOK /\ ItemsAgree

\* an executed item is in one place between its worker and main's counting
InOnePlace ==
  /\ next <= Last + 1 \/ next = First
  /\ First <= cursor
  /\ \A b \in waitMap : cursor <= b
  /\ \A i, j \in 1..Len(doneChan) : i < j => doneChan[i].block # doneChan[j].block
  /\ \A i \in 1..Len(doneChan) : doneChan[i].block \notin waitMap /\ cursor <= doneChan[i].block
  /\ \A w \in Workers : worker[w] \in {"addBlock", "send"} =>
       /\ job[w] \notin waitMap /\ cursor <= job[w]
       /\ \A i \in 1..Len(doneChan) : job[w] # doneChan[i].block
=============================================================================
