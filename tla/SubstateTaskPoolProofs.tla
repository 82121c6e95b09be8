----------------------- MODULE SubstateTaskPoolProofs -----------------------
(***************************************************************************)
(* What the worker pool of research/substate_task.go guarantees for every   *)
(* number of workers, every range of items, every channel capacity, every   *)
(* set of flags and each of the three entry points.  Type correctness comes *)
(* first, then the inductive invariant with one lemma per action, which     *)
(* keeps where the items are in agreement with what has happened to them,   *)
(* and then the properties that follow from it.  Counting comes last: where *)
(* the items are adds up to the number the producer has sent, so that the   *)
(* deferred block of Execute stops all workers whenever the range exceeds   *)
(* the capacity of doneChan by at most one item; and of the two atomic      *)
(* counters, what the deferred report prints is complete and totalNumBlock  *)
(* is never behind main's loop variable.                                    *)
(***************************************************************************)
EXTENDS SubstateTaskPool, TLAPS

-----------------------------------------------------------------------------
(* The constants, the channels and type correctness. *)

\* The sizes of the pool and of its channels are positive.
LEMMA PoolSizes ==
  /\ NumWorkers \in Nat /\ NumWorkers >= 1
  /\ ChanCap \in Nat /\ ChanCap >= 1
<1>1. /\ NumWorkers \in Nat /\ NumWorkers >= 1
      /\ ChanFactor \in Nat /\ ChanFactor >= 1
  BY PoolAssumption
<1>2. \A n, f \in Nat : n >= 1 /\ f >= 1 => n * f \in Nat /\ n * f >= 1
  OBVIOUS
<1> QED
  BY <1>1, <1>2, Zenon DEF ChanCap

\* A task is an item together with one of its transactions.
LEMMA TaskPair ==
  ASSUME NEW b \in Blocks, NEW t \in DOMAIN BlockSubstates[b]
  PROVE  <<b, t>> \in Tasks
BY DEF Tasks

\* The converse of TaskPair.
LEMMA TaskParts ==
  ASSUME NEW k \in Tasks
  PROVE  /\ k[1] \in Blocks /\ k[2] \in DOMAIN BlockSubstates[k[1]]
         /\ k = <<k[1], k[2]>>
BY DEF Tasks

\* Receiving from a channel shifts its entries by one.
LEMMA Receive ==
  ASSUME NEW S, NEW s \in Seq(S), s # <<>>
  PROVE  /\ Head(s) \in S /\ Head(s) = s[1] /\ Len(s) \in Nat /\ Len(s) >= 1
         /\ Tail(s) \in Seq(S) /\ Len(Tail(s)) = Len(s) - 1
         /\ \A i \in 1..Len(Tail(s)) : i + 1 \in 1..Len(s) /\ Tail(s)[i] = s[i + 1]
OBVIOUS

\* Sending to a channel adds an entry at its end.
LEMMA Send ==
  ASSUME NEW S, NEW s \in Seq(S), NEW e \in S
  PROVE  /\ Append(s, e) \in Seq(S) /\ Len(Append(s, e)) = Len(s) + 1 /\ Len(s) \in Nat
         /\ \A i \in 1..Len(s) : Append(s, e)[i] = s[i]
         /\ Append(s, e)[Len(s) + 1] = e
OBVIOUS

-----------------------------------------------------------------------------
(* Type correctness. *)

\* The initial state has the types of TypeOK.
LEMMA InitType == Init => TypeOK
<1> SUFFICES ASSUME Init PROVE TypeOK
  BY Zenon
<1> USE DEF Init, TypeOK
<1>1. First \in Nat
  BY PoolAssumption, Zenon
<1>2. StopTokens \in Nat
  BY PoolSizes DEF StopTokens
<1> QED
  BY <1>1, <1>2, PoolSizes DEF Holding

\* Every step of a goroutine keeps the types.
LEMMA NextType == TypeOK /\ [Next]_vars => TypeOK'
<1> SUFFICES ASSUME TypeOK, [Next]_vars PROVE TypeOK'
  BY Zenon
<1> USE PoolSizes
<1>1. CASE UNCHANGED vars
  BY <1>1, Zenon DEF TypeOK, Holding, vars, workerVars, producerVars, mainVars, totals, history
<1>2. ASSUME NEW w \in Workers, WorkerReceive(w) PROVE TypeOK'
  <2>1. Head(workChan) \in Blocks /\ workChan' \in Seq(Blocks) /\ Len(workChan') <= ChanCap
    BY <1>2, Receive DEF TypeOK, WorkerReceive
  <2>2. job' \in [Workers -> Int]
    BY <1>2, <2>1, PoolAssumption DEF TypeOK, WorkerReceive, Blocks
  <2>3. /\ numTx' \in [Workers -> Nat] /\ jobErr' \in [Workers -> BOOLEAN]
        /\ worker' \in [Workers -> {"select", "execute", "addBlock", "send", "exited"}]
        /\ DOMAIN todo' = Workers
    BY <1>2, Zenon DEF TypeOK, WorkerReceive
  <2>4. \A v \in Workers : Holding(v)' =>
          job'[v] \in Blocks /\ todo'[v] \subseteq DOMAIN BlockSubstates[job'[v]]
    BY <1>2, <2>1, Zenon DEF TypeOK, WorkerReceive, Holding
  <2> QED
    BY <1>2, <2>1, <2>2, <2>3, <2>4, Zenon DEF TypeOK, WorkerReceive, producerVars, mainVars, totals, history
<1>3. ASSUME NEW w \in Workers, SkipTx(w) PROVE TypeOK'
  BY <1>3 DEF TypeOK, Holding, SkipTx, producerVars, mainVars, totals, history
<1>4. ASSUME NEW w \in Workers, RunTx(w) PROVE TypeOK'
  <2>1. PICK t \in todo[w], o \in TaskOutcomes : RunTask(w, t, o)
    BY <1>4, Zenon DEF RunTx
  <2>2. <<job[w], t>> \in Tasks
    BY <2>1, TaskPair, Zenon DEF TypeOK, RunTask, Holding
  <2>3. ran \in [Tasks -> Nat] /\ counted \subseteq Tasks
    BY Zenon DEF TypeOK
  <2>4. ran' \in [Tasks -> Nat]
    BY <2>1, <2>2, <2>3 DEF RunTask
  <2>5. counted' \subseteq Tasks
    BY <2>1, <2>2, <2>3, Zenon DEF RunTask
  <2>6. jobErr' \in [Workers -> BOOLEAN]
    BY <2>1, Zenon DEF TypeOK, RunTask
  <2>7. /\ UNCHANGED <<workChan, doneChan, worker, job>> /\ numTx' \in [Workers -> Nat]
        /\ DOMAIN todo' = Workers /\ \A v \in Workers : todo'[v] \subseteq todo[v]
    BY <2>1 DEF TypeOK, RunTask
  <2>8. \A v \in Workers : Holding(v)' =>
          job'[v] \in Blocks /\ todo'[v] \subseteq DOMAIN BlockSubstates[job'[v]]
    BY <2>7, Zenon DEF TypeOK, Holding
  <2> QED
    BY <2>1, <2>4, <2>5, <2>6, <2>7, <2>8, Zenon DEF TypeOK, RunTask, producerVars, mainVars, totals
<1>5. ASSUME NEW w \in Workers, AddNumTx(w) PROVE TypeOK'
  BY <1>5 DEF TypeOK, Holding, AddNumTx, producerVars, mainVars
<1>6. ASSUME NEW w \in Workers, AddNumBlock(w) PROVE TypeOK'
  BY <1>6 DEF TypeOK, Holding, AddNumBlock, producerVars, mainVars, history
<1>7. ASSUME NEW w \in Workers, WorkerSend(w) PROVE TypeOK'
  <2>1. [block |-> job[w], err |-> jobErr[w]] \in Done
    BY <1>7, Zenon DEF TypeOK, Holding, WorkerSend, Done
  <2>2. doneChan' \in Seq(Done) /\ Len(doneChan') <= ChanCap
    BY <1>7, <2>1, Send DEF TypeOK, WorkerSend
  <2> QED
    BY <1>7, <2>2, Zenon DEF TypeOK, Holding, WorkerSend, producerVars, mainVars, totals, history
<1>8. ASSUME NEW w \in Workers, WorkerStop(w) PROVE TypeOK'
  BY <1>8 DEF TypeOK, Holding, WorkerStop, producerVars, mainVars, totals, history
<1>9. CASE ProducerSend
  <2>1. next \in Blocks
    BY <1>9, PoolAssumption DEF TypeOK, ProducerSend, Blocks
  <2>2. workChan' \in Seq(Blocks) /\ Len(workChan') <= ChanCap
    BY <1>9, <2>1, Send DEF TypeOK, ProducerSend
  <2>3. next' \in Nat /\ First <= next'
    BY <1>9, PoolAssumption DEF TypeOK, ProducerSend
  <2> QED
    BY <1>9, <2>2, <2>3, Zenon DEF TypeOK, Holding, ProducerSend, workerVars, mainVars, totals, history
<1>10. CASE ProducerStop
  BY <1>10 DEF TypeOK, Holding, ProducerStop, workerVars, mainVars, totals, history
<1>11. CASE ProducerExit
  BY <1>11, Zenon DEF TypeOK, Holding, ProducerExit, workerVars, mainVars, totals, history
<1>12. CASE MainCount
  BY <1>12 DEF TypeOK, Holding, MainCount, workerVars, producerVars, totals, history
<1>13. CASE MainReceive
  <2>1. Head(doneChan) \in Done /\ doneChan' \in Seq(Done) /\ Len(doneChan') <= ChanCap
    BY <1>13, Receive DEF TypeOK, MainReceive
  <2> QED
    BY <1>13, <2>1, Zenon DEF TypeOK, Holding, MainReceive, Done, workerVars, producerVars, totals, history
<1>14. CASE MainFinish
  BY <1>14, Zenon DEF TypeOK, Holding, MainFinish, workerVars, producerVars, totals, history
<1>15. CASE MainSendStop
  BY <1>15 DEF TypeOK, Holding, MainSendStop, workerVars, producerVars, totals, history
<1>16. CASE MainReturn
  BY <1>16, Zenon DEF TypeOK, Holding, MainReturn, workerVars, producerVars, totals, history
<1> QED
  BY <1>1, <1>2, <1>3, <1>4, <1>5, <1>6, <1>7, <1>8, <1>9, <1>10, <1>11, <1>12, <1>13,
     <1>14, <1>15, <1>16, Zenon DEF Next, Worker, Producer, Main

\* TypeOK is an invariant: the channels of Execute never hold more than their
\* capacity and every goroutine stays at one of its program points.
THEOREM TypeCorrect == Spec => []TypeOK
BY InitType, NextType, PTL DEF Spec

-----------------------------------------------------------------------------
(* What each part of the inductive invariant depends on. *)

\* A step that only lets go of items keeps the waiting items as they are.
LEMMA WaitingFrame ==
  ASSUME WaitingItems, UNCHANGED <<workChan, next, finished, failed, ran>>,
         \A v \in Workers : Holding(v)' => Holding(v) /\ job'[v] = job[v]
  PROVE  WaitingItems'
<1>1. (\A b \in Blocks : b >= next => Untouched(b))'
  BY Zenon DEF WaitingItems, Untouched
<1>2. (\A i \in 1..Len(workChan) : workChan[i] < next /\ Untouched(workChan[i]))'
  BY Zenon DEF WaitingItems, Untouched
<1>3. (\A i, j \in 1..Len(workChan) : i < j => workChan[i] < workChan[j])'
  BY Zenon DEF WaitingItems
<1>4. (\A i \in 1..Len(workChan), w \in Workers : Holding(w) => job[w] # workChan[i])'
  BY Zenon DEF WaitingItems
<1> QED
  BY <1>1, <1>2, <1>3, <1>4, Zenon DEF WaitingItems

\* A step in which no worker starts an item, executes one or ends the
\* execution of one keeps the held items as they are.
LEMMA HeldFrame ==
  ASSUME HeldItems, UNCHANGED <<job, todo, jobErr, next, finished, failed, ran>>,
         \A v \in Workers : /\ Holding(v)' => Holding(v)
                            /\ worker'[v] = "execute" => worker[v] = "execute"
                            /\ worker'[v] \in {"addBlock", "send"} => worker[v] \in {"addBlock", "send"}
  PROVE  HeldItems'
<1>1. (\A v, w \in Workers : Holding(v) /\ Holding(w) /\ v # w => job[v] # job[w])'
  BY Zenon DEF HeldItems
<1>2. (\A w \in Workers : Holding(w) => job[w] < next)'
  BY Zenon DEF HeldItems
<1>3. (\A w \in Workers : worker[w] = "execute" =>
         /\ job[w] \notin finished /\ job[w] \notin failed
         /\ jobErr[w] => todo[w] = {}
         /\ \A t \in DOMAIN BlockSubstates[job[w]] :
              /\ t \in todo[w] => ran[<<job[w], t>>] = 0
              /\ ~jobErr[w] /\ t \notin todo[w] => ran[<<job[w], t>>] = Expected(job[w], t))'
  BY Zenon DEF HeldItems, Expected
<1>4. (\A w \in Workers : worker[w] \in {"addBlock", "send"} =>
         IF jobErr[w] THEN job[w] \in failed ELSE job[w] \in finished)'
  BY Zenon DEF HeldItems
<1> QED
  BY <1>1, <1>2, <1>3, <1>4, Zenon DEF HeldItems

\* ReportedItems is about doneChan, waitMap, cursor, finished and failed.
LEMMA ReportedFrame ==
  ASSUME ReportedItems, UNCHANGED <<doneChan, waitMap, cursor, finished, failed>>
  PROVE  ReportedItems'
BY Zenon DEF ReportedItems

\* ExecutedItems is about ran, finished and failed.
LEMMA ExecutedFrame ==
  ASSUME ExecutedItems, UNCHANGED <<ran, finished, failed>>
  PROVE  ExecutedItems'
BY Zenon DEF ExecutedItems, Expected

\* ResultAgrees survives every step that leaves main alone and does not revive
\* a goroutine or forget a failure.
LEMMA ResultFrame ==
  ASSUME ResultAgrees, UNCHANGED <<main, result, cursor>>,
         failed \subseteq failed',
         producer = "exited" => producer' = "exited",
         \A v \in Workers : worker[v] = "exited" => worker'[v] = "exited"
  PROVE  ResultAgrees'
BY Zenon DEF ResultAgrees

-----------------------------------------------------------------------------
(* The inductive invariant. *)

\* Nothing has been sent, run or reported in the initial state.
LEMMA InitIInv == Init => IInv
<1> SUFFICES ASSUME Init PROVE IInv
  BY Zenon
<1>1. TypeOK
  BY InitType, Zenon
<1>2. First \in Nat /\ Last \in Int
  BY PoolAssumption, Zenon
<1>3. \A b \in Blocks : Untouched(b)
  BY TaskPair, Zenon DEF Init, Untouched
<1>4. workChan = <<>> /\ Len(workChan) = 0 /\ doneChan = <<>> /\ Len(doneChan) = 0
  BY Zenon DEF Init
<1>5. WaitingItems /\ HeldItems /\ ReportedItems
  BY <1>2, <1>3, <1>4 DEF Init, WaitingItems, HeldItems, ReportedItems, Holding, Blocks
<1>6. ExecutedItems /\ ResultAgrees
  BY TaskPair DEF Init, ExecutedItems, ResultAgrees
<1> QED
  BY <1>1, <1>5, <1>6, Zenon DEF IInv, ItemsAgree

\* A step that changes nothing keeps the invariant.
LEMMA StutterKeepsItems ==
  ASSUME TypeOK, WaitingItems, HeldItems, ReportedItems, ExecutedItems, ResultAgrees,
         UNCHANGED vars
  PROVE  WaitingItems' /\ HeldItems' /\ ReportedItems' /\ ExecutedItems' /\ ResultAgrees'
<1>1. UNCHANGED <<workChan, doneChan, worker, job, todo, jobErr, producer, next, main, cursor,
                  waitMap, result, ran, finished, failed>>
  BY Zenon DEF vars, workerVars, producerVars, mainVars, history
<1>2. \A v \in Workers : Holding(v)' <=> Holding(v)
  BY <1>1, Zenon DEF Holding
<1> QED
  BY <1>1, <1>2, WaitingFrame, HeldFrame, ReportedFrame, ExecutedFrame, ResultFrame, Zenon

\* Taking an item from workChan keeps the invariant: the item was untouched and nobody held it.
LEMMA WorkerReceiveKeepsItems ==
  ASSUME TypeOK, WaitingItems, HeldItems, ReportedItems, ExecutedItems, ResultAgrees,
         First \in Nat, Last \in Int, Blocks = First..Last,
         NEW w \in Workers, WorkerReceive(w)
  PROVE  WaitingItems' /\ HeldItems' /\ ReportedItems' /\ ExecutedItems' /\ ResultAgrees'
<1>1. /\ Head(workChan) = workChan[1] /\ Head(workChan) \in Blocks /\ Len(workChan) \in Nat
      /\ 1 \in 1..Len(workChan) /\ Len(workChan') = Len(workChan) - 1
      /\ \A i \in 1..Len(workChan') : i + 1 \in 1..Len(workChan) /\ workChan'[i] = workChan[i + 1]
  BY Receive DEF TypeOK, WorkerReceive
<1>2. /\ worker' = [worker EXCEPT ![w] = "execute"] /\ worker[w] = "select"
      /\ job' = [job EXCEPT ![w] = workChan[1]]
      /\ todo' = [todo EXCEPT ![w] = DOMAIN BlockSubstates[workChan[1]]]
      /\ jobErr' = [jobErr EXCEPT ![w] = FALSE]
      /\ DOMAIN worker = Workers /\ DOMAIN job = Workers /\ DOMAIN todo = Workers
      /\ DOMAIN jobErr = Workers
      /\ workChan \in Seq(Blocks)
  BY <1>1, Zenon DEF TypeOK, WorkerReceive
<1>3. UNCHANGED <<doneChan, producer, next, main, cursor, waitMap, result, ran, finished, failed>>
  BY Zenon DEF WorkerReceive, producerVars, mainVars, history
<1>4. \A i \in 1..Len(workChan') : workChan'[i] # workChan[1]
  <2> SUFFICES ASSUME NEW i \in 1..Len(workChan') PROVE workChan'[i] # workChan[1]
    BY Zenon
  <2>1. i + 1 \in 1..Len(workChan) /\ workChan'[i] = workChan[i + 1] /\ 1 < i + 1
    BY <1>1
  <2>2. workChan[1] < workChan[i + 1]
    BY <2>1, <1>1, Zenon DEF WaitingItems
  <2>3. workChan[1] \in Int /\ workChan[i + 1] \in Int
    BY <2>1, <1>1, <1>2
  <2> QED
    BY <2>1, <2>2, <2>3
<1>5. \A b : Untouched(b)' <=> Untouched(b)
  BY <1>3, Zenon DEF Untouched
<1>6. WaitingItems'
  <2>1. \A b \in Blocks : b >= next' => Untouched(b)'
    BY <1>3, <1>5, Zenon DEF WaitingItems
  <2>2. (\A i \in 1..Len(workChan) : workChan[i] < next /\ Untouched(workChan[i]))'
    <3>1. \A i \in 1..Len(workChan') : workChan[i + 1] < next /\ Untouched(workChan[i + 1])
      BY <1>1, Zenon DEF WaitingItems
    <3> QED
      BY <1>1, <1>3, <3>1, Zenon DEF Untouched
  <2>3. \A i, j \in 1..Len(workChan') : i < j => workChan'[i] < workChan'[j]
    <3> SUFFICES ASSUME NEW i \in 1..Len(workChan'), NEW j \in 1..Len(workChan'), i < j
                 PROVE  workChan'[i] < workChan'[j]
      BY Zenon
    <3>1. i + 1 \in 1..Len(workChan) /\ j + 1 \in 1..Len(workChan) /\ i + 1 < j + 1
      BY <1>1
    <3> QED
      BY <3>1, <1>1, Zenon DEF WaitingItems
  <2>4. \A i \in 1..Len(workChan'), v \in Workers : Holding(v)' => job'[v] # workChan'[i]
    BY <1>1, <1>2, <1>4 DEF WaitingItems, Holding
  <2> QED
    BY <2>1, <2>2, <2>3, <2>4, Zenon DEF WaitingItems
<1>7. HeldItems'
  <2>1. Untouched(workChan[1]) /\ workChan[1] < next
        /\ \A v \in Workers : Holding(v) => job[v] # workChan[1]
    BY <1>1, Zenon DEF WaitingItems
  <2>2. \A v \in Workers : v # w => /\ worker'[v] = worker[v] /\ job'[v] = job[v]
                                    /\ todo'[v] = todo[v] /\ jobErr'[v] = jobErr[v]
    BY <1>2, Zenon
  <2>3. worker'[w] = "execute" /\ job'[w] = workChan[1] /\ jobErr'[w] = FALSE
        /\ todo'[w] = DOMAIN BlockSubstates[workChan[1]]
    BY <1>2, Zenon
  <2>4. \A u, v \in Workers : Holding(u)' /\ Holding(v)' /\ u # v => job'[u] # job'[v]
    BY <2>1, <2>2, <2>3 DEF HeldItems, Holding
  <2>5. \A v \in Workers : Holding(v)' => job'[v] < next'
    BY <1>3, <2>1, <2>2, <2>3, Zenon DEF HeldItems, Holding
  <2>6. (\A v \in Workers : worker[v] = "execute" =>
           /\ job[v] \notin finished /\ job[v] \notin failed
           /\ jobErr[v] => todo[v] = {}
           /\ \A t \in DOMAIN BlockSubstates[job[v]] :
                /\ t \in todo[v] => ran[<<job[v], t>>] = 0
                /\ ~jobErr[v] /\ t \notin todo[v] => ran[<<job[v], t>>] = Expected(job[v], t))'
    <3> SUFFICES ASSUME NEW v \in Workers, worker'[v] = "execute"
                 PROVE  /\ job'[v] \notin finished /\ job'[v] \notin failed
                        /\ jobErr'[v] => todo'[v] = {}
                        /\ \A t \in DOMAIN BlockSubstates[job'[v]] :
                             /\ t \in todo'[v] => ran[<<job'[v], t>>] = 0
                             /\ ~jobErr'[v] /\ t \notin todo'[v] =>
                                  ran[<<job'[v], t>>] = Expected(job'[v], t)
      BY <1>3, Zenon DEF Expected
    <3>1. CASE v = w
      <4>1. /\ workChan[1] \notin finished /\ workChan[1] \notin failed
            /\ \A t \in DOMAIN BlockSubstates[workChan[1]] : ran[<<workChan[1], t>>] = 0
        BY <2>1, Zenon DEF Untouched
      <4> QED
        BY <2>3, <3>1, <4>1, Zenon
    <3>2. CASE v # w
      <4>1. worker[v] = "execute"
        BY <2>2, <3>2, Zenon
      <4>2. /\ job[v] \notin finished /\ job[v] \notin failed
            /\ jobErr[v] => todo[v] = {}
            /\ \A t \in DOMAIN BlockSubstates[job[v]] :
                 /\ t \in todo[v] => ran[<<job[v], t>>] = 0
                 /\ ~jobErr[v] /\ t \notin todo[v] => ran[<<job[v], t>>] = Expected(job[v], t)
        BY <4>1, Zenon DEF HeldItems
      <4> QED
        BY <2>2, <3>2, <4>2, Zenon
    <3> QED
      BY <3>1, <3>2, Zenon
  <2>7. (\A v \in Workers : worker[v] \in {"addBlock", "send"} =>
           IF jobErr[v] THEN job[v] \in failed ELSE job[v] \in finished)'
    BY <1>3, <2>2, <2>3, Zenon DEF HeldItems
  <2> QED
    BY <2>4, <2>5, <2>6, <2>7, Zenon DEF HeldItems
<1>8. ReportedItems' /\ ExecutedItems'
  BY <1>3, ReportedFrame, ExecutedFrame, Zenon
<1>9. ResultAgrees'
  BY <1>2, <1>3, ResultFrame, Zenon
<1> QED
  BY <1>6, <1>7, <1>8, <1>9, Zenon

\* Passing over a transaction keeps the invariant: it was not run and is not expected to run.
LEMMA SkipTxKeepsItems ==
  ASSUME TypeOK, WaitingItems, HeldItems, ReportedItems, ExecutedItems, ResultAgrees,
         NEW w \in Workers, SkipTx(w)
  PROVE  WaitingItems' /\ HeldItems' /\ ReportedItems' /\ ExecutedItems' /\ ResultAgrees'
<1>1. PICK t \in todo[w] : /\ Skipped(BlockSubstates[job[w]][t])
                          /\ todo' = [todo EXCEPT ![w] = @ \ {t}]
  BY Zenon DEF SkipTx
<1>2. worker[w] = "execute" /\ DOMAIN todo = Workers /\ todo[w] \subseteq DOMAIN BlockSubstates[job[w]]
  BY Zenon DEF SkipTx, TypeOK, Holding
<1>3. UNCHANGED <<workChan, doneChan, worker, job, jobErr, producer, next, main, cursor,
                  waitMap, result, ran, finished, failed>>
  BY Zenon DEF SkipTx, producerVars, mainVars, history
<1>h. \A v \in Workers : Holding(v)' <=> Holding(v)
  BY <1>3, Zenon DEF Holding
<1>4. WaitingItems' /\ ReportedItems' /\ ExecutedItems' /\ ResultAgrees'
  BY <1>3, <1>h, WaitingFrame, ReportedFrame, ExecutedFrame, ResultFrame, Zenon
<1>5. ran[<<job[w], t>>] = Expected(job[w], t)
  BY <1>1, <1>2, Zenon DEF HeldItems, Expected
<1>6. todo'[w] = todo[w] \ {t} /\ \A v \in Workers : v # w => todo'[v] = todo[v]
  BY <1>1, <1>2, Zenon
<1>7. HeldItems'
  <2>1. (\A u, v \in Workers : Holding(u) /\ Holding(v) /\ u # v => job[u] # job[v])'
    BY <1>3, <1>h, Zenon DEF HeldItems
  <2>2. (\A v \in Workers : Holding(v) => job[v] < next)'
    BY <1>3, <1>h, Zenon DEF HeldItems
  <2>3. (\A v \in Workers : worker[v] = "execute" =>
           /\ job[v] \notin finished /\ job[v] \notin failed
           /\ jobErr[v] => todo[v] = {}
           /\ \A u \in DOMAIN BlockSubstates[job[v]] :
                /\ u \in todo[v] => ran[<<job[v], u>>] = 0
                /\ ~jobErr[v] /\ u \notin todo[v] => ran[<<job[v], u>>] = Expected(job[v], u))'
    <3> SUFFICES ASSUME NEW v \in Workers, worker[v] = "execute"
                 PROVE  (/\ job[v] \notin finished /\ job[v] \notin failed
                         /\ jobErr[v] => todo[v] = {}
                         /\ \A u \in DOMAIN BlockSubstates[job[v]] :
                              /\ u \in todo[v] => ran[<<job[v], u>>] = 0
                              /\ ~jobErr[v] /\ u \notin todo[v] =>
                                   ran[<<job[v], u>>] = Expected(job[v], u))'
      BY <1>3, Zenon
    <3>1. /\ job[v] \notin finished /\ job[v] \notin failed
          /\ jobErr[v] => todo[v] = {}
          /\ \A u \in DOMAIN BlockSubstates[job[v]] :
               /\ u \in todo[v] => ran[<<job[v], u>>] = 0
               /\ ~jobErr[v] /\ u \notin todo[v] => ran[<<job[v], u>>] = Expected(job[v], u)
      BY Zenon DEF HeldItems
    <3>2. \A u : u \in todo'[v] => u \in todo[v]
      BY <1>6, Zenon
    <3>3. \A u : u \in todo[v] /\ u \notin todo'[v] => v = w /\ u = t
      BY <1>6, Zenon
    <3>4. (jobErr[v] => todo[v] = {})'
      BY <1>3, <3>1, <3>2, Zenon
    <3> QED
      <4> SUFFICES ASSUME NEW u \in DOMAIN BlockSubstates[job[v]]
                   PROVE  /\ u \in todo'[v] => ran[<<job[v], u>>] = 0
                          /\ ~jobErr[v] /\ u \notin todo'[v] =>
                               ran[<<job[v], u>>] = Expected(job[v], u)
        BY <1>3, <3>1, <3>4, Zenon DEF Expected
      <4>1. CASE u \in todo'[v]
        BY <3>1, <3>2, <4>1, Zenon
      <4>2. CASE u \in todo[v] /\ u \notin todo'[v]
        BY <1>5, <3>3, <4>2
      <4>3. CASE u \notin todo[v]
        BY <3>1, <3>2, <4>3, Zenon
      <4> QED
        BY <4>1, <4>2, <4>3, Zenon
  <2>4. (\A v \in Workers : worker[v] \in {"addBlock", "send"} =>
           IF jobErr[v] THEN job[v] \in failed ELSE job[v] \in finished)'
    BY <1>3, Zenon DEF HeldItems
  <2> QED
    BY <2>1, <2>2, <2>3, <2>4, Zenon DEF HeldItems
<1> QED
  BY <1>4, <1>7, Zenon

\* Running a task keeps the invariant: it had not run, and nobody else holds the item.
LEMMA RunTxKeepsItems ==
  ASSUME TypeOK, WaitingItems, HeldItems, ReportedItems, ExecutedItems, ResultAgrees,
         First \in Nat, Last \in Int, Blocks = First..Last,
         NEW w \in Workers, RunTx(w)
  PROVE  WaitingItems' /\ HeldItems' /\ ReportedItems' /\ ExecutedItems' /\ ResultAgrees'
<1>1. PICK t \in todo[w], o \in TaskOutcomes : RunTask(w, t, o)
  BY Zenon DEF RunTx
<1>2. /\ worker[w] = "execute" /\ Holding(w) /\ job[w] \in Blocks
      /\ t \in DOMAIN BlockSubstates[job[w]] /\ <<job[w], t>> \in Tasks
      /\ DOMAIN todo = Workers /\ DOMAIN jobErr = Workers /\ ran \in [Tasks -> Nat]
  BY <1>1, TaskPair, Zenon DEF TypeOK, RunTask, Holding
<1>3. UNCHANGED <<workChan, doneChan, worker, job, producer, next, main, cursor,
                  waitMap, result, finished, failed>>
  BY <1>1, Zenon DEF RunTask, producerVars, mainVars
<1>4. ran' = [ran EXCEPT ![<<job[w], t>>] = ran[<<job[w], t>>] + 1]
  BY <1>1, Zenon DEF RunTask
<1>5. /\ ran[<<job[w], t>>] = 0 /\ ~jobErr[w] /\ Expected(job[w], t) = 1
      /\ job[w] \notin finished /\ job[w] \notin failed /\ job[w] < next
  BY <1>1, <1>2, Zenon DEF HeldItems, Expected, RunTask
<1>k. <<job[w], t>> \in Tasks /\ DOMAIN ran = Tasks
  BY <1>2, Zenon
<1>6. ran'[<<job[w], t>>] = 1
  <2>1. ran'[<<job[w], t>>] = ran[<<job[w], t>>] + 1
    BY <1>k, <1>4, Zenon
  <2> QED
    BY <1>5, <2>1
<1>7. \A b \in Blocks : \A u \in DOMAIN BlockSubstates[b] :
        b # job[w] \/ u # t => ran'[<<b, u>>] = ran[<<b, u>>]
  <2> SUFFICES ASSUME NEW b \in Blocks, NEW u \in DOMAIN BlockSubstates[b],
                      b # job[w] \/ u # t
               PROVE  ran'[<<b, u>>] = ran[<<b, u>>]
    BY Zenon
  <2>1. <<b, u>> \in Tasks
    BY TaskPair, Zenon
  <2>2. <<b, u>> # <<job[w], t>>
    BY Zenon
  <2> QED
    BY <1>k, <1>4, <2>1, <2>2, Zenon
<1>8. /\ \A v \in Workers : v # w => todo'[v] = todo[v] /\ jobErr'[v] = jobErr[v]
      /\ jobErr'[w] => todo'[w] = {}
      /\ ~jobErr'[w] => todo'[w] = todo[w] \ {t}
  BY <1>1, <1>2, Zenon DEF RunTask
<1>9. WaitingItems'
  <2>1. \A b \in Blocks : b >= next => b # job[w]
    BY <1>2, <1>5 DEF TypeOK
  <2>a. \A i \in 1..Len(workChan) : workChan[i] # job[w]
    BY <1>2, Zenon DEF WaitingItems
  <2>b. workChan \in Seq(Blocks)
    BY Zenon DEF TypeOK
  <2>2. \A i \in 1..Len(workChan) : workChan[i] # job[w] /\ workChan[i] \in Blocks
    BY <2>a, <2>b
  <2>3. (\A b \in Blocks : b >= next => Untouched(b))'
    <3> SUFFICES ASSUME NEW b \in Blocks, b >= next PROVE Untouched(b)'
      BY <1>3, Zenon
    <3>1. Untouched(b) /\ b # job[w]
      BY <2>1, Zenon DEF WaitingItems
    <3>2. \A u \in DOMAIN BlockSubstates[b] : ran'[<<b, u>>] = ran[<<b, u>>]
      BY <1>7, <3>1, Zenon
    <3> QED
      BY <1>3, <3>1, <3>2, Zenon DEF Untouched
  <2>4. (\A i \in 1..Len(workChan) : workChan[i] < next /\ Untouched(workChan[i]))'
    <3> SUFFICES ASSUME NEW i \in 1..Len(workChan)
                 PROVE  workChan[i] < next /\ Untouched(workChan[i])'
      BY <1>3, Zenon
    <3>1. workChan[i] < next /\ Untouched(workChan[i])
      BY Zenon DEF WaitingItems
    <3>2. \A u \in DOMAIN BlockSubstates[workChan[i]] :
            ran'[<<workChan[i], u>>] = ran[<<workChan[i], u>>]
      BY <1>7, <2>2, Zenon
    <3> QED
      BY <1>3, <3>1, <3>2, Zenon DEF Untouched
  <2>5. (\A i, j \in 1..Len(workChan) : i < j => workChan[i] < workChan[j])'
    BY <1>3, Zenon DEF WaitingItems
  <2>6. (\A i \in 1..Len(workChan), v \in Workers : Holding(v) => job[v] # workChan[i])'
    BY <1>3, Zenon DEF WaitingItems, Holding
  <2> QED
    BY <2>3, <2>4, <2>5, <2>6, Zenon DEF WaitingItems
<1>10. HeldItems'
  <2>1. \A v \in Workers : Holding(v) /\ v # w => job[v] # job[w] /\ job[v] \in Blocks
    BY <1>2, Zenon DEF HeldItems, TypeOK
  <2>2. ASSUME NEW v \in Workers, worker'[v] = "execute"
        PROVE  /\ job'[v] \notin finished' /\ job'[v] \notin failed'
               /\ jobErr'[v] => todo'[v] = {}
               /\ \A u \in DOMAIN BlockSubstates[job'[v]] :
                    /\ u \in todo'[v] => ran'[<<job'[v], u>>] = 0
                    /\ ~jobErr'[v] /\ u \notin todo'[v] =>
                         ran'[<<job'[v], u>>] = Expected(job[v], u)
    <3>1. CASE v = w
      <4>1. job'[w] = job[w] /\ job[w] \notin finished' /\ job[w] \notin failed'
        BY <1>3, <1>5, Zenon
      <4>2. ASSUME NEW u \in DOMAIN BlockSubstates[job[w]]
            PROVE  /\ u \in todo'[w] => ran'[<<job[w], u>>] = 0
                   /\ ~jobErr'[w] /\ u \notin todo'[w] => ran'[<<job[w], u>>] = Expected(job[w], u)
        <5>1. /\ u \in todo[w] => ran[<<job[w], u>>] = 0
              /\ u \notin todo[w] => ran[<<job[w], u>>] = Expected(job[w], u)
          BY <1>2, <1>5, Zenon DEF HeldItems
        <5>2. u # t => ran'[<<job[w], u>>] = ran[<<job[w], u>>]
          BY <1>2, <1>7, Zenon
        <5> QED
          BY <1>5, <1>6, <1>8, <5>1, <5>2, Zenon
      <4> QED
        BY <3>1, <1>8, <4>1, <4>2, Zenon
    <3>2. CASE v # w
      <4>1. /\ worker[v] = "execute" /\ job'[v] = job[v] /\ finished' = finished /\ failed' = failed
            /\ todo'[v] = todo[v] /\ jobErr'[v] = jobErr[v]
        BY <3>2, <1>3, <1>8, <2>2, Zenon
      <4>2. job[v] # job[w] /\ job[v] \in Blocks
        BY <3>2, <2>1, <4>1, Zenon DEF Holding
      <4>3. \A u \in DOMAIN BlockSubstates[job[v]] : ran'[<<job[v], u>>] = ran[<<job[v], u>>]
        BY <1>7, <4>2, Zenon
      <4> QED
        BY <4>1, <4>3, Zenon DEF HeldItems
    <3> QED
      BY <3>1, <3>2, Zenon
  <2>3. ASSUME NEW v \in Workers, worker'[v] \in {"addBlock", "send"}
        PROVE  IF jobErr'[v] THEN job'[v] \in failed' ELSE job'[v] \in finished'
    <3>1. v # w
      BY <1>2, <1>3, <2>3, Zenon
    <3> QED
      BY <3>1, <1>3, <1>8, <2>3, Zenon DEF HeldItems
  <2> QED
    <3>1. (\A u, v \in Workers : Holding(u) /\ Holding(v) /\ u # v => job[u] # job[v])'
      BY <1>3, Zenon DEF HeldItems, Holding
    <3>2. (\A v \in Workers : Holding(v) => job[v] < next)'
      BY <1>3, Zenon DEF HeldItems, Holding
    <3>3. \A v \in Workers : \A u : Expected(job[v], u)' = Expected(job[v], u)
      BY <1>3, Zenon DEF Expected
    <3> QED
      BY <1>3, <2>2, <2>3, <3>1, <3>2, <3>3 DEF HeldItems
<1>11. ReportedItems' /\ ResultAgrees'
  BY <1>3, ReportedFrame, ResultFrame, Zenon
<1>12. ExecutedItems'
  <2>1. finished \subseteq Blocks /\ failed \subseteq Blocks
    BY Zenon DEF TypeOK
  <2>2. \A b \in finished \cup failed : \A u \in DOMAIN BlockSubstates[b] :
          ran'[<<b, u>>] = ran[<<b, u>>]
    BY <1>5, <1>7, <2>1, Zenon
  <2>3. ASSUME NEW b \in Blocks, NEW u \in DOMAIN BlockSubstates[b] PROVE ran'[<<b, u>>] <= 1
    <3>1. CASE b = job[w] /\ u = t
      BY <3>1, <1>6
    <3>2. CASE b # job[w] \/ u # t
      <4>1. ran'[<<b, u>>] = ran[<<b, u>>]
        BY <3>2, <1>7, Zenon
      <4>2. ran[<<b, u>>] <= 1
        BY Zenon DEF ExecutedItems
      <4> QED
        BY <4>1, <4>2, Zenon
    <3> QED
      BY <3>1, <3>2, Zenon
  <2>4. finished' = finished /\ failed' = failed
    BY <1>3, Zenon
  <2>5. \A b \in finished : \A u \in DOMAIN BlockSubstates[b] : ran'[<<b, u>>] = Expected(b, u)
    BY <2>2, Zenon DEF ExecutedItems
  <2> QED
    BY <2>3, <2>4, <2>5, Zenon DEF ExecutedItems
<1> QED
  BY <1>9, <1>10, <1>11, <1>12, Zenon

\* Ending the execution of an item keeps the invariant: what ran is what is expected, or an error is recorded.
LEMMA AddNumTxKeepsItems ==
  ASSUME TypeOK, WaitingItems, HeldItems, ReportedItems, ExecutedItems, ResultAgrees,
         First \in Nat, Last \in Int, Blocks = First..Last,
         NEW w \in Workers, AddNumTx(w)
  PROVE  WaitingItems' /\ HeldItems' /\ ReportedItems' /\ ExecutedItems' /\ ResultAgrees'
<1>1. /\ worker[w] = "execute" /\ Holding(w) /\ job[w] \in Blocks /\ todo[w] = {}
      /\ DOMAIN worker = Workers
  BY Zenon DEF TypeOK, AddNumTx, Holding
<1>2. UNCHANGED <<workChan, doneChan, job, todo, jobErr, producer, next, main, cursor,
                  waitMap, result, ran>>
  BY Zenon DEF AddNumTx, producerVars, mainVars
<1>3. /\ worker'[w] \in {"addBlock", "send"}
      /\ \A v \in Workers : v # w => worker'[v] = worker[v]
  BY <1>1, Zenon DEF AddNumTx
<1>4. IF jobErr[w] THEN failed' = failed \cup {job[w]} /\ finished' = finished
                   ELSE finished' = finished \cup {job[w]} /\ failed' = failed
  BY Zenon DEF AddNumTx
<1>5. /\ job[w] \notin finished /\ job[w] \notin failed /\ job[w] < next
      /\ \A t \in DOMAIN BlockSubstates[job[w]] :
           ~jobErr[w] => ran[<<job[w], t>>] = Expected(job[w], t)
  BY <1>1, Zenon DEF HeldItems
<1>6. WaitingItems'
  <2>1. \A b \in Blocks : b >= next => b # job[w]
    BY <1>1, <1>5 DEF TypeOK
  <2>2. \A i \in 1..Len(workChan) : workChan[i] # job[w]
    BY <1>1, Zenon DEF WaitingItems
  <2>3. (\A b \in Blocks : b >= next => Untouched(b))'
    BY <1>2, <1>4, <2>1, Zenon DEF WaitingItems, Untouched
  <2>4. (\A i \in 1..Len(workChan) : workChan[i] < next /\ Untouched(workChan[i]))'
    BY <1>2, <1>4, <2>2, Zenon DEF WaitingItems, Untouched
  <2>5. (\A i, j \in 1..Len(workChan) : i < j => workChan[i] < workChan[j])'
    BY <1>2, Zenon DEF WaitingItems
  <2>6. (\A i \in 1..Len(workChan), v \in Workers : Holding(v) => job[v] # workChan[i])'
    BY <1>1, <1>2, <1>3, Zenon DEF WaitingItems, Holding
  <2> QED
    BY <2>3, <2>4, <2>5, <2>6, Zenon DEF WaitingItems
<1>7. HeldItems'
  <2>1. \A v \in Workers : Holding(v)' <=> Holding(v)
    BY <1>1, <1>3, Zenon DEF Holding
  <2>2. \A v \in Workers : Holding(v) /\ v # w => job[v] # job[w]
    BY <1>1, Zenon DEF HeldItems
  <2>3. (\A u, v \in Workers : Holding(u) /\ Holding(v) /\ u # v => job[u] # job[v])'
    BY <1>2, <2>1, Zenon DEF HeldItems
  <2>4. (\A v \in Workers : Holding(v) => job[v] < next)'
    BY <1>2, <2>1, Zenon DEF HeldItems
  <2>5. \A v \in Workers : worker'[v] = "execute" => v # w /\ worker[v] = "execute" /\ Holding(v)
    BY <1>1, <1>3, Zenon DEF Holding
  <2>6. (\A v \in Workers : worker[v] = "execute" =>
           /\ job[v] \notin finished /\ job[v] \notin failed
           /\ jobErr[v] => todo[v] = {}
           /\ \A t \in DOMAIN BlockSubstates[job[v]] :
                /\ t \in todo[v] => ran[<<job[v], t>>] = 0
                /\ ~jobErr[v] /\ t \notin todo[v] => ran[<<job[v], t>>] = Expected(job[v], t))'
    <3> SUFFICES ASSUME NEW v \in Workers, worker'[v] = "execute"
                 PROVE  (/\ job[v] \notin finished /\ job[v] \notin failed
                         /\ jobErr[v] => todo[v] = {}
                         /\ \A t \in DOMAIN BlockSubstates[job[v]] :
                              /\ t \in todo[v] => ran[<<job[v], t>>] = 0
                              /\ ~jobErr[v] /\ t \notin todo[v] =>
                                   ran[<<job[v], t>>] = Expected(job[v], t))'
      BY Zenon
    <3>1. v # w /\ worker[v] = "execute" /\ job[v] # job[w]
      BY <2>2, <2>5, Zenon
    <3>2. /\ job[v] \notin finished /\ job[v] \notin failed
          /\ jobErr[v] => todo[v] = {}
          /\ \A t \in DOMAIN BlockSubstates[job[v]] :
               /\ t \in todo[v] => ran[<<job[v], t>>] = 0
               /\ ~jobErr[v] /\ t \notin todo[v] => ran[<<job[v], t>>] = Expected(job[v], t)
      BY <3>1, Zenon DEF HeldItems
    <3>3. job[v] \notin finished' /\ job[v] \notin failed'
      BY <1>4, <3>1, <3>2, Zenon
    <3> QED
      BY <1>2, <3>2, <3>3, Zenon DEF Expected
  <2>7. (\A v \in Workers : worker[v] \in {"addBlock", "send"} =>
           IF jobErr[v] THEN job[v] \in failed ELSE job[v] \in finished)'
    BY <1>2, <1>3, <1>4, Zenon DEF HeldItems
  <2> QED
    BY <2>3, <2>4, <2>6, <2>7, Zenon DEF HeldItems
<1>8. ReportedItems'
  BY <1>2, <1>4, Zenon DEF ReportedItems
<1>9. ExecutedItems'
  BY <1>2, <1>4, <1>5, Zenon DEF ExecutedItems, Expected
<1>10. ResultAgrees'
  BY <1>1, <1>2, <1>3, <1>4, ResultFrame, Zenon
<1> QED
  BY <1>6, <1>7, <1>8, <1>9, <1>10, Zenon

\* Adding to totalNumBlock keeps the invariant.
LEMMA AddNumBlockKeepsItems ==
  ASSUME TypeOK, WaitingItems, HeldItems, ReportedItems, ExecutedItems, ResultAgrees,
         NEW w \in Workers, AddNumBlock(w)
  PROVE  WaitingItems' /\ HeldItems' /\ ReportedItems' /\ ExecutedItems' /\ ResultAgrees'
<1>1. worker[w] = "addBlock" /\ worker' = [worker EXCEPT ![w] = "send"] /\ DOMAIN worker = Workers
  BY Zenon DEF TypeOK, AddNumBlock
<1>2. UNCHANGED <<workChan, doneChan, job, todo, jobErr, producer, next, main, cursor,
                  waitMap, result, ran, finished, failed>>
  BY Zenon DEF AddNumBlock, producerVars, mainVars, history
<1>3. \A v \in Workers : /\ Holding(v)' => Holding(v)
                         /\ worker'[v] = "execute" => worker[v] = "execute"
                         /\ worker'[v] \in {"addBlock", "send"} => worker[v] \in {"addBlock", "send"}
                         /\ worker[v] = "exited" => worker'[v] = "exited"
  BY <1>1, Zenon DEF Holding
<1> QED
  BY <1>2, <1>3, WaitingFrame, HeldFrame, ReportedFrame, ExecutedFrame, ResultFrame, Zenon

\* Reporting an item keeps the invariant: the report says what happened.
LEMMA WorkerSendKeepsItems ==
  ASSUME TypeOK, WaitingItems, HeldItems, ReportedItems, ExecutedItems, ResultAgrees,
         NEW w \in Workers, WorkerSend(w)
  PROVE  WaitingItems' /\ HeldItems' /\ ReportedItems' /\ ExecutedItems' /\ ResultAgrees'
<1>1. /\ worker[w] = "send" /\ worker' = [worker EXCEPT ![w] = "select"] /\ DOMAIN worker = Workers
      /\ jobErr[w] \in BOOLEAN /\ job[w] \in Blocks
      /\ doneChan' = Append(doneChan, [block |-> job[w], err |-> jobErr[w]])
      /\ doneChan \in Seq(Done)
  BY Zenon DEF TypeOK, WorkerSend, Holding
<1>2. UNCHANGED <<workChan, job, todo, jobErr, producer, next, main, cursor,
                  waitMap, result, ran, finished, failed>>
  BY Zenon DEF WorkerSend, producerVars, mainVars, history
<1>3. PICK d \in Done : /\ d = [block |-> job[w], err |-> jobErr[w]]
                       /\ doneChan' = Append(doneChan, d)
  BY <1>1, Zenon DEF Done
<1>d. d.block = job[w] /\ d.err = jobErr[w]
  BY <1>3, Zenon
<1>s. doneChan \in Seq(Done) /\ d \in Done /\ doneChan' = Append(doneChan, d)
  BY <1>1, <1>3, Zenon
<1>4. /\ Len(doneChan') = Len(doneChan) + 1 /\ Len(doneChan) \in Nat
      /\ \A i \in 1..Len(doneChan) : doneChan'[i] = doneChan[i]
      /\ doneChan'[Len(doneChan) + 1] = d
  <2>1. /\ Len(Append(doneChan, d)) = Len(doneChan) + 1
        /\ \A i \in 1..Len(doneChan) : Append(doneChan, d)[i] = doneChan[i]
        /\ Append(doneChan, d)[Len(doneChan) + 1] = d
    BY <1>s
  <2>2. Len(doneChan) \in Nat
    BY <1>s
  <2> QED
    BY <1>s, <2>1, <2>2, Zenon
<1>5. \A i \in 1..Len(doneChan') : i \in 1..Len(doneChan) \/ i = Len(doneChan) + 1
  <2>1. \A n \in Nat : \A i \in 1..n + 1 : i \in 1..n \/ i = n + 1
    OBVIOUS
  <2> QED
    BY <1>4, <2>1, Zenon
<1>6. ReportedItems'
  <2>1. IF jobErr[w] THEN job[w] \in failed ELSE job[w] \in finished
    BY <1>1, Zenon DEF HeldItems
  <2>2. \A i \in 1..Len(doneChan) : IF doneChan[i].err THEN doneChan[i].block \in failed
                                                      ELSE doneChan[i].block \in finished
    BY Zenon DEF ReportedItems
  <2>3. (\A i \in 1..Len(doneChan) : IF doneChan[i].err THEN doneChan[i].block \in failed
                                                       ELSE doneChan[i].block \in finished)'
    BY <1>2, <1>4, <1>5, <1>d, <2>1, <2>2, Zenon
  <2> QED
    BY <1>2, <2>3, Zenon DEF ReportedItems
<1>7. \A v \in Workers : /\ Holding(v)' => Holding(v)
                         /\ worker'[v] = "execute" => worker[v] = "execute"
                         /\ worker'[v] \in {"addBlock", "send"} => worker[v] \in {"addBlock", "send"}
                         /\ worker[v] = "exited" => worker'[v] = "exited"
  BY <1>1, Zenon DEF Holding
<1>8. WaitingItems' /\ HeldItems' /\ ExecutedItems' /\ ResultAgrees'
  BY <1>2, <1>7, WaitingFrame, HeldFrame, ExecutedFrame, ResultFrame, Zenon
<1> QED
  BY <1>6, <1>8, Zenon

\* Taking a stop token keeps the invariant: the worker holds no item.
LEMMA WorkerStopKeepsItems ==
  ASSUME TypeOK, WaitingItems, HeldItems, ReportedItems, ExecutedItems, ResultAgrees,
         NEW w \in Workers, WorkerStop(w)
  PROVE  WaitingItems' /\ HeldItems' /\ ReportedItems' /\ ExecutedItems' /\ ResultAgrees'
<1>1. worker[w] = "select" /\ worker' = [worker EXCEPT ![w] = "exited"] /\ DOMAIN worker = Workers
  BY Zenon DEF TypeOK, WorkerStop
<1>2. UNCHANGED <<workChan, doneChan, job, todo, jobErr, producer, next, main, cursor,
                  waitMap, result, ran, finished, failed>>
  BY Zenon DEF WorkerStop, producerVars, mainVars, history
<1>3. \A v \in Workers : /\ Holding(v)' => Holding(v)
                         /\ worker'[v] = "execute" => worker[v] = "execute"
                         /\ worker'[v] \in {"addBlock", "send"} => worker[v] \in {"addBlock", "send"}
                         /\ worker[v] = "exited" => worker'[v] = "exited"
  BY <1>1, Zenon DEF Holding
<1> QED
  BY <1>2, <1>3, WaitingFrame, HeldFrame, ReportedFrame, ExecutedFrame, ResultFrame, Zenon

\* Sending an item keeps the invariant: it is untouched and larger than the items before it.
LEMMA ProducerSendKeepsItems ==
  ASSUME TypeOK, WaitingItems, HeldItems, ReportedItems, ExecutedItems, ResultAgrees,
         First \in Nat, Last \in Int, Blocks = First..Last,
         ProducerSend
  PROVE  WaitingItems' /\ HeldItems' /\ ReportedItems' /\ ExecutedItems' /\ ResultAgrees'
<1>1. next \in Blocks /\ next' = next + 1 /\ next \in Nat /\ producer = "loop"
  BY DEF TypeOK, ProducerSend
<1>2. /\ Len(workChan') = Len(workChan) + 1 /\ Len(workChan) \in Nat
      /\ \A i \in 1..Len(workChan) : workChan'[i] = workChan[i] /\ workChan[i] \in Blocks
      /\ workChan'[Len(workChan) + 1] = next
  <2>1. workChan \in Seq(Blocks) /\ workChan' = Append(workChan, next)
    BY Zenon DEF TypeOK, ProducerSend
  <2>2. /\ Len(Append(workChan, next)) = Len(workChan) + 1 /\ Len(workChan) \in Nat
        /\ \A i \in 1..Len(workChan) : Append(workChan, next)[i] = workChan[i]
        /\ Append(workChan, next)[Len(workChan) + 1] = next
    BY <1>1, <2>1
  <2>3. \A i \in 1..Len(workChan) : workChan[i] \in Blocks
    BY <2>1
  <2> QED
    BY <2>1, <2>2, <2>3, Zenon
<1>3. \A i \in 1..Len(workChan') : i \in 1..Len(workChan) \/ i = Len(workChan) + 1
  <2>1. \A n \in Nat : \A i \in 1..n + 1 : i \in 1..n \/ i = n + 1
    OBVIOUS
  <2> QED
    BY <1>2, <2>1, Zenon
<1>4. UNCHANGED <<doneChan, worker, job, todo, jobErr, producer, main, cursor,
                  waitMap, result, ran, finished, failed>>
  BY Zenon DEF ProducerSend, workerVars, mainVars, history
<1>h. \A v \in Workers : Holding(v) => job[v] < next /\ job[v] \in Int
  BY Zenon DEF HeldItems, TypeOK
<1>5. WaitingItems'
  <2>1. \A b \in Blocks : b >= next' => b >= next
    BY <1>1
  <2>2. (\A b \in Blocks : b >= next => Untouched(b))'
    BY <1>4, <2>1, Zenon DEF WaitingItems, Untouched
  <2>3. (\A i \in 1..Len(workChan) : workChan[i] < next)'
    BY <1>1, <1>2, <1>3 DEF WaitingItems
  <2>4. Untouched(next)
    BY <1>1 DEF WaitingItems
  <2>5. (\A i \in 1..Len(workChan) : Untouched(workChan[i]))'
    <3>1. \A b : Untouched(b)' <=> Untouched(b)
      BY <1>4, Zenon DEF Untouched
    <3>2. \A i \in 1..Len(workChan) : Untouched(workChan[i])
      BY Zenon DEF WaitingItems
    <3>3. \A i \in 1..Len(workChan') : Untouched(workChan'[i])
      BY <1>2, <1>3, <2>4, <3>2, Zenon
    <3> QED
      BY <1>4, <3>3, Zenon DEF Untouched
  <2>6. ASSUME NEW i \in 1..Len(workChan'), NEW j \in 1..Len(workChan'), i < j
        PROVE  workChan'[i] < workChan'[j]
    <3>1. i \in 1..Len(workChan)
      BY <1>2, <2>6
    <3> QED
      BY <3>1, <2>6, <1>2, <1>3, Zenon DEF WaitingItems
  <2>7. \A v \in Workers : Holding(v) => job[v] # next
    BY <1>h, <1>1
  <2>8. (\A i \in 1..Len(workChan), v \in Workers : Holding(v) => job[v] # workChan[i])'
    BY <1>2, <1>3, <1>4, <2>7, Zenon DEF WaitingItems, Holding
  <2> QED
    BY <2>2, <2>3, <2>5, <2>6, <2>8, Zenon DEF WaitingItems
<1>6. HeldItems'
  <2>1. \A v \in Workers : Holding(v) => job[v] < next'
    BY <1>h, <1>1
  <2>2. (\A u, v \in Workers : Holding(u) /\ Holding(v) /\ u # v => job[u] # job[v])'
    BY <1>4, Zenon DEF HeldItems, Holding
  <2>3. (\A v \in Workers : Holding(v) => job[v] < next)'
    BY <1>4, <2>1, Zenon DEF Holding
  <2>4. (\A v \in Workers : worker[v] = "execute" =>
           /\ job[v] \notin finished /\ job[v] \notin failed
           /\ jobErr[v] => todo[v] = {}
           /\ \A t \in DOMAIN BlockSubstates[job[v]] :
                /\ t \in todo[v] => ran[<<job[v], t>>] = 0
                /\ ~jobErr[v] /\ t \notin todo[v] => ran[<<job[v], t>>] = Expected(job[v], t))'
    BY <1>4, Zenon DEF HeldItems, Expected
  <2>5. (\A v \in Workers : worker[v] \in {"addBlock", "send"} =>
           IF jobErr[v] THEN job[v] \in failed ELSE job[v] \in finished)'
    BY <1>4, Zenon DEF HeldItems
  <2> QED
    BY <2>2, <2>3, <2>4, <2>5, Zenon DEF HeldItems
<1>7. ReportedItems' /\ ExecutedItems' /\ ResultAgrees'
  BY <1>4, ReportedFrame, ExecutedFrame, ResultFrame, Zenon
<1> QED
  BY <1>5, <1>6, <1>7, Zenon

\* A producer that is stopped keeps the invariant.
LEMMA ProducerStopKeepsItems ==
  ASSUME TypeOK, WaitingItems, HeldItems, ReportedItems, ExecutedItems, ResultAgrees,
         ProducerStop
  PROVE  WaitingItems' /\ HeldItems' /\ ReportedItems' /\ ExecutedItems' /\ ResultAgrees'
<1>1. UNCHANGED <<workChan, doneChan, worker, job, todo, jobErr, next, cursor, waitMap, ran, finished, failed>>
  BY Zenon DEF ProducerStop, workerVars, mainVars, history
<1>2. \A v \in Workers : Holding(v)' <=> Holding(v)
  BY <1>1, Zenon DEF Holding
<1>3. ResultAgrees'
  BY ResultFrame, Zenon DEF ProducerStop, ResultAgrees, workerVars, mainVars, history
<1> QED
  BY <1>1, <1>2, <1>3, WaitingFrame, HeldFrame, ReportedFrame, ExecutedFrame, Zenon

\* A producer that is done keeps the invariant.
LEMMA ProducerExitKeepsItems ==
  ASSUME TypeOK, WaitingItems, HeldItems, ReportedItems, ExecutedItems, ResultAgrees,
         ProducerExit
  PROVE  WaitingItems' /\ HeldItems' /\ ReportedItems' /\ ExecutedItems' /\ ResultAgrees'
<1>1. UNCHANGED <<workChan, doneChan, worker, job, todo, jobErr, next, cursor, waitMap, ran, finished, failed>>
  BY Zenon DEF ProducerExit, workerVars, mainVars, history
<1>2. \A v \in Workers : Holding(v)' <=> Holding(v)
  BY <1>1, Zenon DEF Holding
<1>3. ResultAgrees'
  BY ResultFrame, Zenon DEF ProducerExit, ResultAgrees, workerVars, mainVars, history
<1> QED
  BY <1>1, <1>2, <1>3, WaitingFrame, HeldFrame, ReportedFrame, ExecutedFrame, Zenon

\* Counting an item keeps the invariant: it is in waitMap, so it finished.
LEMMA MainCountKeepsItems ==
  ASSUME TypeOK, WaitingItems, HeldItems, ReportedItems, ExecutedItems, ResultAgrees,
         First \in Nat, Last \in Int, Blocks = First..Last,
         MainCount
  PROVE  WaitingItems' /\ HeldItems' /\ ReportedItems' /\ ExecutedItems' /\ ResultAgrees'
<1>1. /\ cursor \in waitMap /\ waitMap' = waitMap \ {cursor} /\ cursor' = cursor + 1
      /\ cursor \in Nat /\ main = "loop"
  BY Zenon DEF TypeOK, MainCount
<1>2. UNCHANGED <<workChan, doneChan, worker, job, todo, jobErr, producer, next, main,
                  result, ran, finished, failed>>
  BY Zenon DEF MainCount, workerVars, producerVars, history
<1>3. ReportedItems'
  <2>1. \A b \in Blocks : b < cursor' => b < cursor \/ b = cursor
    BY <1>1
  <2> QED
    BY <1>1, <1>2, <2>1, Zenon DEF ReportedItems
<1>4. ResultAgrees'
  BY <1>1, <1>2, Zenon DEF ResultAgrees
<1>5. \A v \in Workers : Holding(v)' <=> Holding(v)
  BY <1>2, Zenon DEF Holding
<1>6. WaitingItems'
  BY <1>2, <1>5, WaitingFrame, Zenon
<1>7. HeldItems'
  BY <1>2, <1>5, HeldFrame, Zenon
<1>8. ExecutedItems'
  BY <1>2, ExecutedFrame, Zenon
<1> QED
  BY <1>3, <1>4, <1>6, <1>7, <1>8, Zenon

\* Receiving a report keeps the invariant: an error says that an item failed.
LEMMA MainReceiveKeepsItems ==
  ASSUME TypeOK, WaitingItems, HeldItems, ReportedItems, ExecutedItems, ResultAgrees,
         MainReceive
  PROVE  WaitingItems' /\ HeldItems' /\ ReportedItems' /\ ExecutedItems' /\ ResultAgrees'
<1>s. doneChan \in Seq(Done) /\ doneChan # <<>> /\ doneChan' = Tail(doneChan)
  BY Zenon DEF TypeOK, MainReceive
<1>1. /\ Head(doneChan) = doneChan[1] /\ Head(doneChan) \in Done /\ 1 \in 1..Len(doneChan)
      /\ \A i \in 1..Len(doneChan') : i + 1 \in 1..Len(doneChan) /\ doneChan'[i] = doneChan[i + 1]
  <2>1. /\ Head(doneChan) \in Done /\ Head(doneChan) = doneChan[1]
        /\ Len(doneChan) \in Nat /\ Len(doneChan) >= 1
        /\ \A i \in 1..Len(Tail(doneChan)) :
             i + 1 \in 1..Len(doneChan) /\ Tail(doneChan)[i] = doneChan[i + 1]
    BY <1>s, Receive, Zenon
  <2>2. 1 \in 1..Len(doneChan)
    BY <2>1
  <2> QED
    BY <1>s, <2>1, <2>2, Zenon
<1>2. UNCHANGED <<workChan, worker, job, todo, jobErr, producer, next, cursor,
                  ran, finished, failed>>
  BY Zenon DEF MainReceive, workerVars, producerVars, history
<1>3. main = "loop"
  BY Zenon DEF MainReceive
<1>4. IF doneChan[1].err
        THEN main' = "stopping" /\ result' = "error" /\ waitMap' = waitMap
        ELSE waitMap' = waitMap \cup {doneChan[1].block} /\ main' = main /\ result' = result
  BY <1>1, Zenon DEF MainReceive
<1>5. ReportedItems'
  BY <1>1, <1>2, <1>4, SMTT(30) DEF ReportedItems
<1>6. ResultAgrees'
  BY <1>1, <1>2, <1>3, <1>4, Zenon DEF ResultAgrees, ReportedItems
<1>7. \A v \in Workers : Holding(v)' <=> Holding(v)
  BY <1>2, Zenon DEF Holding
<1>8. WaitingItems'
  BY <1>2, <1>7, WaitingFrame, Zenon
<1>9. HeldItems'
  BY <1>2, <1>7, HeldFrame, Zenon
<1>10. ExecutedItems'
  BY <1>2, ExecutedFrame, Zenon
<1> QED
  BY <1>5, <1>6, <1>8, <1>9, <1>10, Zenon

\* Leaving the loop keeps the invariant: the cursor has passed the range.
LEMMA MainFinishKeepsItems ==
  ASSUME TypeOK, WaitingItems, HeldItems, ReportedItems, ExecutedItems, ResultAgrees,
         MainFinish
  PROVE  WaitingItems' /\ HeldItems' /\ ReportedItems' /\ ExecutedItems' /\ ResultAgrees'
<1>1. UNCHANGED <<workChan, doneChan, worker, job, todo, jobErr, next, cursor, waitMap, ran, finished, failed>>
  BY Zenon DEF MainFinish, workerVars, producerVars, history
<1>2. \A v \in Workers : Holding(v)' <=> Holding(v)
  BY <1>1, Zenon DEF Holding
<1>3. ResultAgrees'
  BY Zenon DEF MainFinish, ResultAgrees, workerVars, producerVars, history
<1> QED
  BY <1>1, <1>2, <1>3, WaitingFrame, HeldFrame, ReportedFrame, ExecutedFrame, Zenon

\* Sending a stop token keeps the invariant.
LEMMA MainSendStopKeepsItems ==
  ASSUME TypeOK, WaitingItems, HeldItems, ReportedItems, ExecutedItems, ResultAgrees,
         MainSendStop
  PROVE  WaitingItems' /\ HeldItems' /\ ReportedItems' /\ ExecutedItems' /\ ResultAgrees'
<1>1. UNCHANGED <<workChan, doneChan, worker, job, todo, jobErr, next, cursor, waitMap, ran, finished, failed>>
  BY Zenon DEF MainSendStop, workerVars, producerVars, history
<1>2. \A v \in Workers : Holding(v)' <=> Holding(v)
  BY <1>1, Zenon DEF Holding
<1>3. ResultAgrees'
  BY Zenon DEF MainSendStop, ResultAgrees, workerVars, producerVars, history
<1> QED
  BY <1>1, <1>2, <1>3, WaitingFrame, HeldFrame, ReportedFrame, ExecutedFrame, Zenon

\* Returning keeps the invariant: every goroutine has exited.
LEMMA MainReturnKeepsItems ==
  ASSUME TypeOK, WaitingItems, HeldItems, ReportedItems, ExecutedItems, ResultAgrees,
         MainReturn
  PROVE  WaitingItems' /\ HeldItems' /\ ReportedItems' /\ ExecutedItems' /\ ResultAgrees'
<1>1. UNCHANGED <<workChan, doneChan, worker, job, todo, jobErr, next, cursor, waitMap, ran, finished, failed>>
  BY Zenon DEF MainReturn, workerVars, producerVars, history
<1>2. \A v \in Workers : Holding(v)' <=> Holding(v)
  BY <1>1, Zenon DEF Holding
<1>3. ResultAgrees'
  BY Zenon DEF MainReturn, ResultAgrees, workerVars, producerVars, history
<1> QED
  BY <1>1, <1>2, <1>3, WaitingFrame, HeldFrame, ReportedFrame, ExecutedFrame, Zenon

\* Every step of a goroutine preserves the inductive invariant.
LEMMA NextIInv == IInv /\ [Next]_vars => IInv'
<1> SUFFICES ASSUME IInv, [Next]_vars PROVE IInv'
  BY Zenon
<1>t. TypeOK /\ TypeOK'
  BY NextType, Zenon DEF IInv
<1>n. First \in Nat /\ Last \in Int /\ Blocks = First..Last
  BY PoolAssumption, Zenon DEF Blocks
<1>w. WaitingItems /\ HeldItems /\ ReportedItems /\ ExecutedItems /\ ResultAgrees
  BY Zenon DEF IInv, ItemsAgree
<1>1. ASSUME UNCHANGED vars PROVE ItemsAgree'
  BY <1>1, <1>t, <1>n, <1>w, StutterKeepsItems, Zenon DEF ItemsAgree
<1>2. ASSUME NEW w \in Workers, WorkerReceive(w) PROVE ItemsAgree'
  BY <1>2, <1>t, <1>n, <1>w, WorkerReceiveKeepsItems, Zenon DEF ItemsAgree
<1>3. ASSUME NEW w \in Workers, SkipTx(w) PROVE ItemsAgree'
  BY <1>3, <1>t, <1>n, <1>w, SkipTxKeepsItems, Zenon DEF ItemsAgree
<1>4. ASSUME NEW w \in Workers, RunTx(w) PROVE ItemsAgree'
  BY <1>4, <1>t, <1>n, <1>w, RunTxKeepsItems, Zenon DEF ItemsAgree
<1>5. ASSUME NEW w \in Workers, AddNumTx(w) PROVE ItemsAgree'
  BY <1>5, <1>t, <1>n, <1>w, AddNumTxKeepsItems, Zenon DEF ItemsAgree
<1>6. ASSUME NEW w \in Workers, AddNumBlock(w) PROVE ItemsAgree'
  BY <1>6, <1>t, <1>n, <1>w, AddNumBlockKeepsItems, Zenon DEF ItemsAgree
<1>7. ASSUME NEW w \in Workers, WorkerSend(w) PROVE ItemsAgree'
  BY <1>7, <1>t, <1>n, <1>w, WorkerSendKeepsItems, Zenon DEF ItemsAgree
<1>8. ASSUME NEW w \in Workers, WorkerStop(w) PROVE ItemsAgree'
  BY <1>8, <1>t, <1>n, <1>w, WorkerStopKeepsItems, Zenon DEF ItemsAgree
<1>9. ASSUME ProducerSend PROVE ItemsAgree'
  BY <1>9, <1>t, <1>n, <1>w, ProducerSendKeepsItems, Zenon DEF ItemsAgree
<1>10. ASSUME ProducerStop PROVE ItemsAgree'
  BY <1>10, <1>t, <1>n, <1>w, ProducerStopKeepsItems, Zenon DEF ItemsAgree
<1>11. ASSUME ProducerExit PROVE ItemsAgree'
  BY <1>11, <1>t, <1>n, <1>w, ProducerExitKeepsItems, Zenon DEF ItemsAgree
<1>12. ASSUME MainCount PROVE ItemsAgree'
  BY <1>12, <1>t, <1>n, <1>w, MainCountKeepsItems, Zenon DEF ItemsAgree
<1>13. ASSUME MainReceive PROVE ItemsAgree'
  BY <1>13, <1>t, <1>n, <1>w, MainReceiveKeepsItems, Zenon DEF ItemsAgree
<1>14. ASSUME MainFinish PROVE ItemsAgree'
  BY <1>14, <1>t, <1>n, <1>w, MainFinishKeepsItems, Zenon DEF ItemsAgree
<1>15. ASSUME MainSendStop PROVE ItemsAgree'
  BY <1>15, <1>t, <1>n, <1>w, MainSendStopKeepsItems, Zenon DEF ItemsAgree
<1>16. ASSUME MainReturn PROVE ItemsAgree'
  BY <1>16, <1>t, <1>n, <1>w, MainReturnKeepsItems, Zenon DEF ItemsAgree
<1>17. ItemsAgree'
  BY <1>1, <1>2, <1>3, <1>4, <1>5, <1>6, <1>7, <1>8, <1>9, <1>10, <1>11, <1>12, <1>13,
     <1>14, <1>15, <1>16, Zenon DEF Next, Worker, Producer, Main
<1> QED
  BY <1>t, <1>17, Zenon DEF IInv

\* The inductive invariant holds in every reachable state.
THEOREM IInvCorrect == Spec => []IInv
BY InitIInv, NextIInv, PTL DEF Spec

-----------------------------------------------------------------------------
(* The safety properties. *)

\* However many workers share workChan, TaskFunc runs at most once on a
\* transaction and no item both finishes and fails.
THEOREM RunsExactlyOnce == Spec => []ExactlyOnce
<1>1. IInv => ExactlyOnce
  BY TaskParts, Zenon DEF IInv, ItemsAgree, ExecutedItems, ExactlyOnce
<1> QED
  BY <1>1, IInvCorrect, PTL

\* When Execute returns nil, every item of the range finished, none failed, and
\* TaskFunc ran once on each transaction that no flag skips and on no other.
THEOREM NilReturnIsComplete == Spec => []NilMeansAllRan
<1>1. IInv => NilMeansAllRan
  <2> SUFFICES ASSUME IInv, result = "nil"
               PROVE  /\ finished = Blocks /\ failed = {}
                      /\ \A k \in Tasks : ran[k] = IF Skipped(BlockSubstates[k[1]][k[2]]) THEN 0 ELSE 1
    BY Zenon DEF NilMeansAllRan
  <2>1. cursor > Last /\ cursor \in Nat /\ First \in Nat /\ Last \in Int
    BY PoolAssumption, Zenon DEF IInv, ItemsAgree, ResultAgrees, TypeOK
  <2>2. \A b \in Blocks : b < cursor
    BY <2>1 DEF Blocks
  <2>3. finished = Blocks
    BY <2>2, Zenon DEF IInv, ItemsAgree, ReportedItems, TypeOK
  <2>4. failed = {}
    BY <2>3, Zenon DEF IInv, ItemsAgree, ExecutedItems, TypeOK
  <2>5. \A b \in Blocks : \A t \in DOMAIN BlockSubstates[b] : ran[<<b, t>>] = Expected(b, t)
    BY <2>3, Zenon DEF IInv, ItemsAgree, ExecutedItems
  <2> QED
    BY <2>3, <2>4, <2>5, TaskParts DEF Expected
<1> QED
  BY <1>1, IInvCorrect, PTL

\* Main counts an item only after it finished without error, in the order of
\* the range, and returns an error only if some item failed.
THEOREM CountsInOrder == Spec => []CountedInOrder
<1>1. IInv => CountedInOrder
  BY Zenon DEF IInv, ItemsAgree, ResultAgrees, ReportedItems, CountedInOrder
<1> QED
  BY <1>1, IInvCorrect, PTL

-----------------------------------------------------------------------------
(* The pool implements the promise of InOrderExecution. *)

\* The initial state of the pool is an initial state of the promise.
LEMMA InitPromise == Init => Promise!Init
BY Zenon DEF Init, Promise!Init

\* A step of a goroutine is a step of the promise or leaves it unchanged:
\* AddNumTx finishes or fails an item, MainCount counts one, MainReturn returns.
LEMMA NextPromise == IInv /\ [Next]_vars => [Promise!Next]_(Promise!vars)
<1> SUFFICES ASSUME IInv, [Next]_vars PROVE [Promise!Next]_(Promise!vars)
  BY Zenon
<1> USE DEF Promise!vars
<1>1. CASE UNCHANGED vars
  BY <1>1, Zenon DEF vars, mainVars, history
<1>2. ASSUME NEW w \in Workers,
             WorkerReceive(w) \/ SkipTx(w) \/ RunTx(w) \/ AddNumBlock(w) \/ WorkerSend(w) \/ WorkerStop(w)
      PROVE  UNCHANGED Promise!vars
  BY <1>2, Zenon DEF WorkerReceive, SkipTx, RunTx, RunTask, AddNumBlock, WorkerSend, WorkerStop,
     mainVars, history
<1>3. ASSUME NEW w \in Workers, AddNumTx(w) PROVE Promise!Next
  <2>1. /\ worker[w] = "execute" /\ job[w] \in Blocks
        /\ job[w] \notin finished /\ job[w] \notin failed
    BY <1>3, Zenon DEF AddNumTx, IInv, ItemsAgree, TypeOK, HeldItems, Holding
  <2>2. main # "returned"
    BY <2>1, Zenon DEF IInv, ItemsAgree, ResultAgrees
  <2>3. job[w] \in Promise!Blocks /\ Promise!Fresh(job[w])
    BY <2>1, Zenon DEF Promise!Blocks, Promise!Fresh, Blocks
  <2>4. UNCHANGED <<main, cursor, result>>
    BY <1>3, Zenon DEF AddNumTx, mainVars
  <2>5. Promise!Finish(job[w]) \/ Promise!Fail(job[w])
    BY <1>3, <2>2, <2>3, <2>4, Zenon DEF AddNumTx, Promise!Finish, Promise!Fail
  <2> QED
    BY <2>3, <2>5, Zenon DEF Promise!Next
<1>4. CASE Producer
  BY <1>4, Zenon DEF Producer, ProducerSend, ProducerStop, ProducerExit, mainVars, history
<1>5. CASE MainCount
  <2>1. cursor \in finished
    BY <1>5, Zenon DEF MainCount, IInv, ItemsAgree, ReportedItems
  <2> QED
    BY <1>5, <2>1, Zenon DEF MainCount, history, Promise!Next, Promise!Count
<1>6. CASE MainReceive \/ MainFinish \/ MainSendStop
  BY <1>6, Zenon DEF MainReceive, MainFinish, MainSendStop, history
<1>7. CASE MainReturn
  <2>1. /\ main = "stopping" /\ main' = "returned" /\ result' = result
        /\ UNCHANGED <<finished, failed, cursor>>
    BY <1>7, Zenon DEF MainReturn, history
  <2>2. result \in {"nil", "error"} /\ (result = "nil" => cursor > Last) /\ (result = "error" => failed # {})
    BY <2>1, Zenon DEF IInv, ItemsAgree, TypeOK, ResultAgrees
  <2>3. Promise!Return
    BY <2>1, <2>2, Zenon DEF Promise!Return
  <2> QED
    BY <2>3, Zenon DEF Promise!Next
<1> QED
  BY <1>1, <1>2, <1>3, <1>4, <1>5, <1>6, <1>7, Zenon DEF Next, Worker, Main

\* The goroutines and channels implement the promise made to the caller: each
\* item is executed at most once, counted in order, nothing is executed after
\* the return, and the returned value is what happened.
THEOREM PoolImplementsPromise == Spec => ImplementsPromise
<1>1. Init => Promise!Init
  BY InitPromise, Zenon
<1>2. IInv /\ [Next]_vars => [Promise!Next]_(Promise!vars)
  BY NextPromise, Zenon
<1> QED
  BY <1>1, <1>2, IInvCorrect, PTL DEF Spec, ImplementsPromise, Promise!Spec

-----------------------------------------------------------------------------
(* The items, and stopping the workers. *)

INSTANCE FiniteSetTheorems

\* The sets counted by NoItemLostOrDuplicated are finite.
LEMMA CountedSetsFinite ==
  ASSUME TypeOK
  PROVE  /\ IsFiniteSet(Held) /\ Cardinality(Held) \in Nat
         /\ IsFiniteSet(waitMap) /\ Cardinality(waitMap) \in Nat
<1>1. NumWorkers \in Int /\ First \in Int /\ Last \in Int
  BY PoolAssumption
<1>2. IsFiniteSet(Workers) /\ IsFiniteSet(Blocks)
  BY <1>1, FS_Interval DEF Workers, Blocks
<1>3. Held \subseteq Workers /\ waitMap \subseteq Blocks
  BY Zenon DEF TypeOK, Held
<1>4. IsFiniteSet(Held) /\ IsFiniteSet(waitMap)
  BY <1>1, <1>2, <1>3, FS_Subset, Zenon
<1> QED
  BY <1>4, FS_CardinalityType, Zenon

\* Initially nothing has been sent.
LEMMA InitCount == Init => InOnePlace /\ NoItemLostOrDuplicated
<1> SUFFICES ASSUME Init PROVE InOnePlace /\ NoItemLostOrDuplicated
  BY Zenon
<1>1. Len(workChan) = 0 /\ Len(doneChan) = 0 /\ First \in Nat /\ Last \in Int
  BY PoolAssumption, Zenon DEF Init
<1>2. Held = {} /\ waitMap = {}
  BY Zenon DEF Init, Held, Holding
<1>3. Cardinality(Held) = 0 /\ Cardinality(waitMap) = 0
  BY <1>2, FS_EmptySet, Zenon
<1>4. InOnePlace
  BY <1>1 DEF Init, InOnePlace
<1>5. NoItemLostOrDuplicated
  BY <1>1, <1>3 DEF Init, NoItemLostOrDuplicated
<1> QED
  BY <1>4, <1>5, Zenon

\* Every step moves one item from one place to the next, or none at all.
LEMMA NextCount ==
  IInv /\ InOnePlace /\ NoItemLostOrDuplicated /\ [Next]_vars
    => InOnePlace' /\ NoItemLostOrDuplicated'
<1> SUFFICES ASSUME IInv, InOnePlace, NoItemLostOrDuplicated, [Next]_vars
             PROVE  InOnePlace' /\ NoItemLostOrDuplicated'
  BY Zenon
<1>t. TypeOK /\ First \in Nat /\ Last \in Int
  BY PoolAssumption, Zenon DEF IInv
<1>f. /\ IsFiniteSet(Held) /\ Cardinality(Held) \in Nat
      /\ IsFiniteSet(waitMap) /\ Cardinality(waitMap) \in Nat
  BY <1>t, CountedSetsFinite, Zenon
<1>l. /\ Len(workChan) \in Nat /\ Len(doneChan) \in Nat /\ next \in Nat /\ cursor \in Nat
      /\ workChan \in Seq(Blocks) /\ doneChan \in Seq(Done) /\ waitMap \subseteq Blocks
      /\ DOMAIN worker = Workers /\ DOMAIN job = Workers
  BY <1>t DEF TypeOK
\* a step that moves no item, and changes no goroutine between addBlock and send
<1>q. ASSUME UNCHANGED <<workChan, doneChan, job, next, cursor, waitMap, result>>, Held' = Held,
             \A v \in Workers : worker'[v] \in {"addBlock", "send"} =>
                                worker[v] \in {"addBlock", "send"}
      PROVE  InOnePlace' /\ NoItemLostOrDuplicated'
  BY <1>q, Zenon DEF InOnePlace, NoItemLostOrDuplicated
<1>1. CASE UNCHANGED vars
  BY <1>1, <1>q, Zenon DEF vars, workerVars, producerVars, mainVars, Held, Holding
<1>2. ASSUME NEW w \in Workers, WorkerReceive(w)
      PROVE  InOnePlace' /\ NoItemLostOrDuplicated'
  <2>1. /\ Len(workChan') = Len(workChan) - 1
        /\ worker[w] = "select" /\ worker' = [worker EXCEPT ![w] = "execute"]
        /\ \A v \in Workers : v # w => job'[v] = job[v]
        /\ UNCHANGED <<doneChan, next, cursor, waitMap, result>>
    BY <1>2, <1>l, Receive, Zenon DEF WorkerReceive, producerVars, mainVars
  <2>2. w \notin Held /\ Held' = Held \cup {w}
    BY <1>l, <2>1, Zenon DEF Held, Holding
  <2>3. Cardinality(Held') = Cardinality(Held) + 1
    BY <1>f, <2>2, FS_AddElement, Zenon
  <2>4. NoItemLostOrDuplicated'
    BY <1>f, <1>l, <1>t, <2>1, <2>3, SMTT(20) DEF NoItemLostOrDuplicated
  <2>5. InOnePlace'
    BY <1>l, <2>1 DEF InOnePlace
  <2> QED
    BY <2>4, <2>5, Zenon
<1>3. ASSUME NEW w \in Workers, SkipTx(w) \/ RunTx(w)
      PROVE  InOnePlace' /\ NoItemLostOrDuplicated'
  BY <1>3, <1>q, Zenon DEF SkipTx, RunTx, RunTask, producerVars, mainVars, Held, Holding
<1>4. ASSUME NEW w \in Workers, AddNumTx(w)
      PROVE  InOnePlace' /\ NoItemLostOrDuplicated'
  <2>1. /\ worker[w] = "execute" /\ worker'[w] \in {"addBlock", "send"}
        /\ \A v \in Workers : v # w => worker'[v] = worker[v]
        /\ UNCHANGED <<workChan, doneChan, job, next, cursor, waitMap, result>>
    BY <1>4, <1>l, Zenon DEF AddNumTx, producerVars, mainVars
  <2>2. Held' = Held
    BY <2>1, Zenon DEF Held, Holding
  <2>3. job[w] \in Blocks /\ job[w] \notin finished /\ job[w] \notin failed
    BY <2>1, <1>t, Zenon DEF IInv, ItemsAgree, HeldItems, TypeOK, Holding
  <2>4. job[w] \notin waitMap /\ ~(job[w] < cursor)
    BY <2>3, Zenon DEF IInv, ItemsAgree, ReportedItems
  <2>5. cursor <= job[w]
    BY <1>l, <1>t, <2>3, <2>4 DEF Blocks
  <2>6. \A i \in 1..Len(doneChan) : job[w] # doneChan[i].block
    BY <2>3, Zenon DEF IInv, ItemsAgree, ReportedItems
  <2>7. InOnePlace'
    BY <2>1, <2>4, <2>5, <2>6 DEF InOnePlace
  <2> QED
    BY <2>1, <2>2, <2>7, Zenon DEF NoItemLostOrDuplicated
<1>5. ASSUME NEW w \in Workers, AddNumBlock(w)
      PROVE  InOnePlace' /\ NoItemLostOrDuplicated'
  <2>1. /\ worker[w] = "addBlock" /\ worker' = [worker EXCEPT ![w] = "send"]
        /\ UNCHANGED <<workChan, doneChan, job, next, cursor, waitMap, result>>
    BY <1>5, Zenon DEF AddNumBlock, producerVars, mainVars
  <2> QED
    BY <1>l, <1>q, <2>1, Zenon DEF Held, Holding
<1>6. ASSUME NEW w \in Workers, WorkerSend(w)
      PROVE  InOnePlace' /\ NoItemLostOrDuplicated'
  <2>1. /\ worker[w] = "send" /\ worker' = [worker EXCEPT ![w] = "select"]
        /\ UNCHANGED <<workChan, job, next, cursor, waitMap, result>>
        /\ doneChan' = Append(doneChan, [block |-> job[w], err |-> jobErr[w]])
    BY <1>6, Zenon DEF WorkerSend, producerVars, mainVars
  <2>2. [block |-> job[w], err |-> jobErr[w]] \in Done
    BY <2>1, <1>t, Zenon DEF Done, TypeOK, Holding
  <2>3. /\ Len(doneChan') = Len(doneChan) + 1
        /\ \A i \in 1..Len(doneChan) : doneChan'[i].block = doneChan[i].block
        /\ doneChan'[Len(doneChan) + 1].block = job[w]
    BY <1>l, <2>1, <2>2, Send
  <2>4. \A i \in 1..Len(doneChan') : i \in 1..Len(doneChan) \/ i = Len(doneChan) + 1
    BY <1>l, <2>3
  <2>5. w \in Held /\ Held' = Held \ {w}
    BY <1>l, <2>1, Zenon DEF Held, Holding
  <2>6. Cardinality(Held') = Cardinality(Held) - 1
    BY <1>f, <2>5, FS_RemoveElement, Zenon
  <2>7. NoItemLostOrDuplicated'
    <3>1. Len(doneChan') = Len(doneChan) + 1 /\ UNCHANGED <<workChan, next, cursor, waitMap, result>>
      BY <2>1, <2>3, Zenon
    <3>2. Len(workChan) \in Nat /\ Len(doneChan) \in Nat /\ next \in Nat /\ cursor \in Nat
      BY <1>l, Zenon
    <3> QED
      BY <1>f, <1>t, <2>6, <3>1, <3>2, SMTT(20) DEF NoItemLostOrDuplicated
  <2>8. /\ job[w] \notin waitMap /\ cursor <= job[w]
        /\ \A i \in 1..Len(doneChan) : job[w] # doneChan[i].block
    BY <2>1, Zenon DEF InOnePlace
  <2>9. \A i, j \in 1..Len(doneChan') : i < j => doneChan'[i].block # doneChan'[j].block
    <3> SUFFICES ASSUME NEW i \in 1..Len(doneChan'), NEW j \in 1..Len(doneChan'), i < j
                 PROVE  doneChan'[i].block # doneChan'[j].block
      BY Zenon
    <3>1. i \in 1..Len(doneChan)
      BY <1>l, <2>3
    <3> QED
      BY <3>1, <2>3, <2>4, <2>8, Zenon DEF InOnePlace
  <2>10. \A i \in 1..Len(doneChan') : doneChan'[i].block \notin waitMap /\ cursor <= doneChan'[i].block
    BY <2>3, <2>4, <2>8, Zenon DEF InOnePlace
  <2>11. ASSUME NEW v \in Workers, worker'[v] \in {"addBlock", "send"}
         PROVE  \A i \in 1..Len(doneChan') : job[v] # doneChan'[i].block
    <3>1. v # w /\ worker[v] \in {"addBlock", "send"}
      BY <1>l, <2>1, <2>11, Zenon
    <3>2. job[v] # job[w]
      BY <2>1, <3>1, Zenon DEF IInv, ItemsAgree, HeldItems, Holding
    <3> QED
      BY <2>3, <2>4, <3>1, <3>2, Zenon DEF InOnePlace
  <2>12. InOnePlace'
    BY <1>l, <2>1, <2>9, <2>10, <2>11, Zenon DEF InOnePlace
  <2> QED
    BY <2>7, <2>12, Zenon
<1>7. ASSUME NEW w \in Workers, WorkerStop(w)
      PROVE  InOnePlace' /\ NoItemLostOrDuplicated'
  <2>1. /\ worker[w] = "select" /\ worker' = [worker EXCEPT ![w] = "exited"]
        /\ UNCHANGED <<workChan, doneChan, job, next, cursor, waitMap, result>>
    BY <1>7, Zenon DEF WorkerStop, producerVars, mainVars
  <2> QED
    BY <1>l, <1>q, <2>1, Zenon DEF Held, Holding
<1>8. CASE ProducerSend
  <2>1. /\ next <= Last /\ next' = next + 1 /\ workChan' = Append(workChan, next)
        /\ UNCHANGED <<doneChan, worker, job, cursor, waitMap, result>>
    BY <1>8, Zenon DEF ProducerSend, workerVars, mainVars
  <2>2. next \in Blocks
    BY <1>t, <2>1 DEF TypeOK, Blocks
  <2>3. Len(workChan') = Len(workChan) + 1
    BY <1>l, <2>1, <2>2, Send, Zenon
  <2>4. Held' = Held
    BY <2>1, Zenon DEF Held, Holding
  <2>5. NoItemLostOrDuplicated'
    <3>1. /\ Len(workChan') = Len(workChan) + 1 /\ next' = next + 1
          /\ UNCHANGED <<doneChan, cursor, waitMap, result>>
      BY <2>1, <2>3, Zenon
    <3>2. Len(workChan) \in Nat /\ Len(doneChan) \in Nat /\ next \in Nat /\ cursor \in Nat
      BY <1>l, Zenon
    <3>3. Len(doneChan') = Len(doneChan) /\ Cardinality(Held') = Cardinality(Held)
      BY <2>4, <3>1, Zenon
    <3> QED
      BY <1>f, <1>t, <3>1, <3>2, <3>3, SMTT(20) DEF NoItemLostOrDuplicated
  <2>6. InOnePlace'
    <3>1. next' <= Last + 1
      BY <1>l, <1>t, <2>1
    <3> QED
      BY <2>1, <3>1, Zenon DEF InOnePlace
  <2> QED
    BY <2>5, <2>6, Zenon
<1>9. CASE ProducerStop \/ ProducerExit
  BY <1>9, <1>q, Zenon DEF ProducerStop, ProducerExit, workerVars, mainVars, Held, Holding
<1>10. CASE MainCount
  <2>1. /\ cursor \in waitMap /\ waitMap' = waitMap \ {cursor} /\ cursor' = cursor + 1
        /\ UNCHANGED <<workChan, doneChan, worker, job, next, result>>
    BY <1>10, Zenon DEF MainCount, workerVars, producerVars
  <2>2. Cardinality(waitMap') = Cardinality(waitMap) - 1
    BY <1>f, <2>1, FS_RemoveElement, Zenon
  <2>3. Held' = Held
    BY <2>1, Zenon DEF Held, Holding
  <2>4. NoItemLostOrDuplicated'
    BY <1>f, <1>l, <1>t, <2>1, <2>2, <2>3, SMTT(20) DEF NoItemLostOrDuplicated
  <2>5. \A b \in Blocks : cursor <= b /\ b # cursor => cursor' <= b
    BY <1>l, <1>t, <2>1 DEF Blocks
  <2>6. \A i \in 1..Len(doneChan) : doneChan[i].block \in Blocks
    <3>1. \A i \in 1..Len(doneChan) : doneChan[i] \in Done
      BY <1>l
    <3> QED
      BY <3>1, Zenon DEF Done
  <2>7. \A v \in Workers : worker[v] \in {"addBlock", "send"} => job[v] \in Blocks
    BY <1>t, Zenon DEF TypeOK, Holding
  <2>8. First <= cursor'
    BY <1>l, <1>t, <2>1 DEF InOnePlace
  <2>9. InOnePlace'
    BY <1>l, <2>1, <2>5, <2>6, <2>7, <2>8, Zenon DEF InOnePlace
  <2> QED
    BY <2>4, <2>9, Zenon
<1>11. CASE MainReceive
  <2>1. /\ Head(doneChan) = doneChan[1] /\ 1 \in 1..Len(doneChan) /\ Len(doneChan') = Len(doneChan) - 1
        /\ \A i \in 1..Len(doneChan') : i + 1 \in 1..Len(doneChan) /\ 1 < i + 1
                                       /\ doneChan'[i] = doneChan[i + 1]
    BY <1>11, <1>l, Receive DEF MainReceive
  <2>2. /\ UNCHANGED <<workChan, worker, job, next, cursor>>
        /\ main = "loop"
        /\ IF doneChan[1].err
             THEN result' = "error" /\ waitMap' = waitMap
             ELSE waitMap' = waitMap \cup {doneChan[1].block} /\ result' = result
    BY <1>11, <2>1, Zenon DEF MainReceive, workerVars, producerVars
  <2>3. result = "none"
    BY <2>2, Zenon DEF IInv, ItemsAgree, ResultAgrees
  <2>4. Held' = Held
    BY <2>2, Zenon DEF Held, Holding
  <2>5. doneChan[1].block \notin waitMap /\ cursor <= doneChan[1].block
    BY <2>1, Zenon DEF InOnePlace
  <2>6. ~doneChan[1].err => Cardinality(waitMap') = Cardinality(waitMap) + 1
    BY <1>f, <2>2, <2>5, FS_AddElement, Zenon
  <2>7. NoItemLostOrDuplicated'
    <3>1. /\ Len(doneChan') = Len(doneChan) - 1 /\ UNCHANGED <<workChan, next, cursor>>
          /\ \/ result' = "error" /\ Cardinality(waitMap') = Cardinality(waitMap)
             \/ result' = "none" /\ Cardinality(waitMap') = Cardinality(waitMap) + 1
      BY <2>1, <2>2, <2>3, <2>6, Zenon
    <3>2. Len(workChan) \in Nat /\ Len(doneChan) \in Nat /\ next \in Nat /\ cursor \in Nat
      BY <1>l, Zenon
    <3>3. Len(workChan') = Len(workChan) /\ Cardinality(Held') = Cardinality(Held)
      BY <2>4, <3>1, Zenon
    <3>4. CASE result' = "error" /\ Cardinality(waitMap') = Cardinality(waitMap)
      BY <1>f, <1>t, <2>3, <3>1, <3>2, <3>3, <3>4, SMTT(20) DEF NoItemLostOrDuplicated
    <3>5. CASE result' = "none" /\ Cardinality(waitMap') = Cardinality(waitMap) + 1
      BY <1>f, <1>t, <2>3, <3>1, <3>2, <3>3, <3>5, SMTT(20) DEF NoItemLostOrDuplicated
    <3> QED
      BY <3>1, <3>4, <3>5, Zenon
  <2>8. /\ \A i \in 1..Len(doneChan') : /\ doneChan'[i].block # doneChan[1].block
                                       /\ doneChan'[i].block \notin waitMap
                                       /\ cursor <= doneChan'[i].block
    BY <2>1 DEF InOnePlace
  <2>9. \A i, j \in 1..Len(doneChan') : i < j => doneChan'[i].block # doneChan'[j].block
    <3> SUFFICES ASSUME NEW i \in 1..Len(doneChan'), NEW j \in 1..Len(doneChan'), i < j
                 PROVE  doneChan'[i].block # doneChan'[j].block
      BY Zenon
    <3>1. i + 1 \in 1..Len(doneChan) /\ j + 1 \in 1..Len(doneChan) /\ i + 1 < j + 1
      BY <1>l, <2>1
    <3> QED
      BY <3>1, <2>1 DEF InOnePlace
  <2>10. InOnePlace'
    <3>1. \A b \in waitMap' : cursor <= b
      BY <2>2, <2>5, Zenon DEF InOnePlace
    <3>2. \A i \in 1..Len(doneChan') : doneChan'[i].block \notin waitMap' /\ cursor <= doneChan'[i].block
      BY <2>2, <2>8, Zenon
    <3>3. ASSUME NEW v \in Workers, worker[v] \in {"addBlock", "send"}
          PROVE  /\ job[v] \notin waitMap' /\ cursor <= job[v]
                 /\ \A i \in 1..Len(doneChan') : job[v] # doneChan'[i].block
      <4>1. /\ job[v] \notin waitMap /\ cursor <= job[v]
            /\ \A i \in 1..Len(doneChan) : job[v] # doneChan[i].block
        BY <3>3, Zenon DEF InOnePlace
      <4> QED
        BY <2>1, <2>2, <4>1, Zenon
    <3> QED
      BY <2>2, <2>9, <3>1, <3>2, <3>3, Zenon DEF InOnePlace
  <2> QED
    BY <2>7, <2>10, Zenon
<1>12. CASE MainFinish
  <2>1. /\ UNCHANGED <<workChan, doneChan, worker, job, next, cursor, waitMap>>
        /\ main = "loop" /\ result' = "nil"
    BY <1>12, Zenon DEF MainFinish, workerVars, producerVars
  <2>2. result = "none"
    BY <2>1, Zenon DEF IInv, ItemsAgree, ResultAgrees
  <2> QED
    BY <2>1, <2>2, Zenon DEF InOnePlace, NoItemLostOrDuplicated, Held, Holding
<1>13. CASE MainSendStop \/ MainReturn
  BY <1>13, <1>q, Zenon DEF MainSendStop, MainReturn, workerVars, producerVars, Held, Holding
<1> QED
  BY <1>1, <1>2, <1>3, <1>4, <1>5, <1>6, <1>7, <1>8, <1>9, <1>10, <1>11, <1>12, <1>13, Zenon
     DEF Next, Worker, Producer, Main

\* Every item the producer has sent is on workChan, with a worker, on doneChan,
\* in waitMap, counted, or the error main received, and in one of them only.
THEOREM ItemsAddUp == Spec => []NoItemLostOrDuplicated
<1>1. Init => InOnePlace /\ NoItemLostOrDuplicated
  BY InitCount, Zenon
<1>2. IInv /\ InOnePlace /\ NoItemLostOrDuplicated /\ [Next]_vars
        => InOnePlace' /\ NoItemLostOrDuplicated'
  BY NextCount, Zenon
<1> QED
  BY <1>1, <1>2, IInvCorrect, PTL DEF Spec

\* If the range exceeds the capacity of doneChan by at most one item, a worker
\* that reports after main has left its loop finds room on doneChan, so it gets
\* back to the select statement in which it receives its stop token.
THEOREM StopTokensReachWorkers ==
  ASSUME Last - First <= ChanCap
  PROVE  Spec => []StopReachesWorkers
<1>1. IInv /\ InOnePlace /\ NoItemLostOrDuplicated => StopReachesWorkers
  <2> SUFFICES ASSUME IInv, InOnePlace, NoItemLostOrDuplicated,
                      NEW w \in Workers, main # "loop", worker[w] = "send",
                      ~(Len(doneChan) < ChanCap)
               PROVE  FALSE
    BY Zenon DEF StopReachesWorkers
  <2>1. TypeOK /\ First \in Nat /\ Last \in Int
    BY PoolAssumption, Zenon DEF IInv
  <2>2. /\ Cardinality(Held) \in Nat /\ Cardinality(waitMap) \in Nat /\ IsFiniteSet(Held)
    BY <2>1, CountedSetsFinite, Zenon
  <2>3. w \in Held
    BY Zenon DEF Held, Holding
  <2>4. Cardinality(Held) >= 1
    BY <2>2, <2>3, FS_EmptySet
  <2>5. /\ Len(workChan) \in Nat /\ Len(doneChan) \in Nat /\ next \in Nat /\ cursor \in Nat
        /\ result \in {"none", "nil", "error"}
    BY <2>1 DEF TypeOK
  <2>6. result \in {"nil", "error"} /\ (result = "nil" => cursor > Last)
    BY <2>5, Zenon DEF IInv, ItemsAgree, ResultAgrees
  <2>7. /\ next <= Last + 1 \/ next = First
        /\ First <= cursor
    BY Zenon DEF InOnePlace
  <2>8. next - First >= 1 + ChanCap + (cursor - First) + (IF result = "error" THEN 1 ELSE 0)
    BY <2>1, <2>2, <2>4, <2>5, PoolSizes DEF NoItemLostOrDuplicated
  <2> QED
    BY <2>1, <2>5, <2>6, <2>7, <2>8, PoolSizes
<1>2. Init => InOnePlace /\ NoItemLostOrDuplicated
  BY InitCount, Zenon
<1>3. IInv /\ InOnePlace /\ NoItemLostOrDuplicated /\ [Next]_vars
        => InOnePlace' /\ NoItemLostOrDuplicated'
  BY NextCount, Zenon
<1> QED
  BY <1>1, <1>2, <1>3, IInvCorrect, PTL DEF Spec

-----------------------------------------------------------------------------
(* The totals. *)

\* the items whose worker has also passed atomic.AddInt64(&totalNumBlock, 1)
Posted == {b \in finished \cup failed :
             \A w \in Workers : worker[w] = "addBlock" => job[w] # b}

CountedOf(S) == {k \in counted : k[1] \in S}

\* the local counters are the counted tasks of running items, the totals those
\* of executed items
TotalsAgree ==
  /\ IsFiniteSet(counted)
  /\ Mode # "Execute" => counted = {}
  /\ \A k \in counted : ran[k] # 0
  /\ \A k \in counted : \/ k[1] \in finished \cup failed
                        \/ \E w \in Workers : worker[w] = "execute" /\ job[w] = k[1]
  /\ \A w \in Workers : worker[w] = "execute" => numTx[w] = Cardinality(CountedOf({job[w]}))
  /\ Mode = "ExecuteWithTx" =>
       /\ failed = {} /\ totalNumTx = Cardinality(finished)
       /\ \A w \in Workers : worker[w] = "execute" => ~jobErr[w]
  /\ Mode # "ExecuteWithTx" => totalNumTx = Cardinality(CountedOf(finished \cup failed))
  /\ Mode = "Execute" => totalNumBlock = Cardinality(Posted)

\* main's loop variable stops one past the range
CursorInRange == cursor <= Last + 1 \/ cursor = First

\* Only MainCount moves the loop variable, and only inside the range.
LEMMA NextCursor == TypeOK /\ CursorInRange /\ [Next]_vars => CursorInRange'
<1> SUFFICES ASSUME TypeOK, CursorInRange, [Next]_vars PROVE CursorInRange'
  BY Zenon
<1>1. First \in Nat /\ Last \in Int /\ cursor \in Nat
  BY PoolAssumption, Zenon DEF TypeOK
<1>2. cursor' = cursor \/ (cursor <= Last /\ cursor' = cursor + 1)
  <2>1. CASE Main
    BY <2>1, Zenon DEF Main, MainCount, MainReceive, MainFinish, MainSendStop, MainReturn
  <2>2. CASE Producer
    BY <2>2, Zenon DEF Producer, ProducerSend, ProducerStop, ProducerExit, mainVars
  <2>3. CASE \E w \in Workers : Worker(w)
    <3> PICK w \in Workers : Worker(w)
      BY <2>3, Zenon
    <3> QED
      BY Zenon DEF Worker, WorkerReceive, SkipTx, RunTx, RunTask, AddNumTx, AddNumBlock,
             WorkerSend, WorkerStop, mainVars
  <2>4. CASE UNCHANGED vars
    BY <2>4, Zenon DEF vars, mainVars
  <2> QED
    BY <2>1, <2>2, <2>3, <2>4, Zenon DEF Next
<1> QED
  BY <1>1, <1>2 DEF CursorInRange

\* The executed items are finitely many.
LEMMA ItemsFinite ==
  ASSUME TypeOK
  PROVE  /\ IsFiniteSet(finished \cup failed) /\ IsFiniteSet(finished) /\ IsFiniteSet(Posted)
<1>1. First \in Int /\ Last \in Int
  BY PoolAssumption
<1>2. IsFiniteSet(Blocks)
  BY <1>1, FS_Interval, Zenon DEF Blocks
<1>3. finished \cup failed \in SUBSET Blocks /\ finished \in SUBSET Blocks /\ Posted \in SUBSET Blocks
  BY Zenon DEF TypeOK, Posted
<1> QED
  BY <1>2, <1>3, FS_Subset, Zenon

\* The counters start at zero, and nothing has been counted.
LEMMA InitTotals == Init => TotalsAgree
<1> SUFFICES ASSUME Init PROVE TotalsAgree
  BY Zenon
<1>1. IsFiniteSet({}) /\ Cardinality({}) = 0
  BY FS_EmptySet, Zenon
<1>2. Posted = {} /\ CountedOf(finished \cup failed) = {}
  BY Zenon DEF Init, Posted, CountedOf
<1>3. \A w \in Workers : worker[w] # "execute"
  BY Zenon DEF Init
<1> QED
  BY <1>1, <1>2, <1>3, Zenon DEF Init, TotalsAgree

\* A step that changes neither counters nor histories, and moves no goroutine
\* into or out of the states the counters depend on.
LEMMA QuietTotals ==
  ASSUME TotalsAgree, UNCHANGED <<counted, ran, finished, failed, totals>>,
         DOMAIN worker' = Workers, DOMAIN worker = Workers,
         \A w \in Workers : /\ worker'[w] = "execute" <=> worker[w] = "execute"
                            /\ worker'[w] = "addBlock" <=> worker[w] = "addBlock"
                            /\ worker[w] \in {"execute", "addBlock"} =>
                                 /\ job'[w] = job[w] /\ numTx'[w] = numTx[w]
                                 /\ jobErr'[w] = jobErr[w]
  PROVE  TotalsAgree'
<1>1. Posted' = Posted
  BY DEF Posted
<1>3. CountedOf(finished \cup failed)' = CountedOf(finished \cup failed)
  BY Zenon DEF CountedOf
<1>4. \A w \in Workers : worker'[w] = "execute" =>
        numTx'[w] = Cardinality({k \in counted' : k[1] \in {job'[w]}})
  <2> SUFFICES ASSUME NEW w \in Workers, worker'[w] = "execute"
               PROVE  numTx'[w] = Cardinality({k \in counted' : k[1] \in {job'[w]}})
    BY Zenon
  <2>1. worker[w] = "execute" /\ job'[w] = job[w] /\ numTx'[w] = numTx[w] /\ counted' = counted
    BY Zenon
  <2>2. {k \in counted' : k[1] \in {job'[w]}} = CountedOf({job[w]})
    BY <2>1, Zenon DEF CountedOf
  <2>3. numTx[w] = Cardinality(CountedOf({job[w]}))
    BY <2>1, Zenon DEF TotalsAgree
  <2> QED
    BY <2>1, <2>2, <2>3, Zenon
<1>5. \A k \in counted' : \/ k[1] \in (finished \cup failed)'
                         \/ \E w \in Workers : worker'[w] = "execute" /\ job'[w] = k[1]
  <2> SUFFICES ASSUME NEW k \in counted', k[1] \notin (finished \cup failed)'
               PROVE  \E w \in Workers : worker'[w] = "execute" /\ job'[w] = k[1]
    BY Zenon
  <2>1. k \in counted /\ k[1] \notin finished \cup failed
    BY Zenon
  <2>2. PICK w \in Workers : worker[w] = "execute" /\ job[w] = k[1]
    BY <2>1, Zenon DEF TotalsAgree
  <2>3. worker'[w] = "execute" /\ job'[w] = job[w]
    BY <2>2, Zenon
  <2> QED
    BY <2>2, <2>3, Zenon
<1> QED
  BY <1>1, <1>3, <1>4, <1>5, Zenon DEF TotalsAgree, CountedOf, totals

\* Every step keeps the counters in agreement with what has been executed.
LEMMA NextTotals == IInv /\ TotalsAgree /\ [Next]_vars => TotalsAgree'
<1> SUFFICES ASSUME IInv, TotalsAgree, [Next]_vars PROVE TotalsAgree'
  BY Zenon
<1>t. /\ TypeOK /\ DOMAIN worker = Workers /\ DOMAIN job = Workers /\ DOMAIN numTx = Workers
      /\ DOMAIN jobErr = Workers
  BY Zenon DEF IInv, TypeOK
<1>f. /\ IsFiniteSet(finished \cup failed) /\ IsFiniteSet(finished) /\ IsFiniteSet(Posted)
      /\ IsFiniteSet(counted)
  BY <1>t, ItemsFinite, Zenon DEF TotalsAgree
<1>1. CASE UNCHANGED vars
  BY <1>1, <1>t, QuietTotals, Zenon DEF vars, workerVars, history, totals
<1>2. CASE Main \/ Producer
  <2>1. UNCHANGED <<counted, ran, finished, failed, totals, workerVars>>
    BY <1>2, Zenon DEF Main, MainCount, MainReceive, MainFinish, MainSendStop, MainReturn, history,
         Producer, ProducerSend, ProducerStop, ProducerExit
  <2> QED
    BY <2>1, <1>t, QuietTotals, Zenon DEF workerVars
<1>3. ASSUME NEW w \in Workers, WorkerReceive(w) PROVE TotalsAgree'
  <2>1. /\ worker[w] = "select" /\ workChan # <<>>
        /\ job' = [job EXCEPT ![w] = Head(workChan)] /\ numTx' = [numTx EXCEPT ![w] = 0]
        /\ jobErr' = [jobErr EXCEPT ![w] = FALSE] /\ worker' = [worker EXCEPT ![w] = "execute"]
        /\ UNCHANGED <<counted, ran, finished, failed, totalNumBlock, totalNumTx>>
    BY <1>3, Zenon DEF WorkerReceive, history, totals
  <2>2. Head(workChan) = workChan[1] /\ 1 \in 1..Len(workChan) /\ Head(workChan) \in Blocks
    BY <1>t, <2>1 DEF TypeOK
  <2>3. Untouched(Head(workChan))
    BY <2>2, Zenon DEF IInv, ItemsAgree, WaitingItems
  <2>4. \A k \in counted : k[1] # Head(workChan)
    <3> SUFFICES ASSUME NEW k \in counted, k[1] = Head(workChan) PROVE FALSE
      BY Zenon
    <3>1. k \in Tasks
      BY <1>t, Zenon DEF TypeOK
    <3>2. k[2] \in DOMAIN BlockSubstates[k[1]] /\ k = <<k[1], k[2]>>
      BY <3>1, TaskParts, Zenon
    <3>3. ran[<<k[1], k[2]>>] = 0
      BY <2>3, <3>2, Zenon DEF Untouched
    <3> QED
      BY <3>2, <3>3, Zenon DEF TotalsAgree
  <2>5. Posted' = Posted
    BY <1>t, <2>1, Zenon DEF Posted
  <2>6. CountedOf(finished \cup failed)' = CountedOf(finished \cup failed)
    BY <2>1, Zenon DEF CountedOf
  <2>7. ASSUME NEW v \in Workers, worker'[v] = "execute"
        PROVE  numTx'[v] = Cardinality(CountedOf({job[v]})')
    <3>1. CASE v = w
      <4>1. CountedOf({job[v]})' = {}
        BY <1>t, <2>1, <2>4, <3>1, Zenon DEF CountedOf
      <4> QED
        BY <4>1, <1>t, <2>1, <3>1, FS_EmptySet, Zenon
    <3>2. CASE v # w
      <4>1. worker[v] = "execute" /\ job'[v] = job[v] /\ numTx'[v] = numTx[v]
        BY <1>t, <2>1, <2>7, <3>2, Zenon
      <4>2. CountedOf({job[v]})' = CountedOf({job[v]})
        BY <2>1, <4>1, Zenon DEF CountedOf
      <4> QED
        BY <4>1, <4>2, Zenon DEF TotalsAgree
    <3> QED
      BY <3>1, <3>2, Zenon
  <2>8. \A k \in counted' : \/ k[1] \in (finished \cup failed)'
                           \/ \E v \in Workers : worker'[v] = "execute" /\ job'[v] = k[1]
    BY <1>t, <2>1, Zenon DEF TotalsAgree
  <2>9. Mode = "ExecuteWithTx" => \A v \in Workers : worker'[v] = "execute" => ~jobErr'[v]
    BY <1>t, <2>1, Zenon DEF TotalsAgree
  <2> QED
    BY <2>1, <2>5, <2>6, <2>7, <2>8, <2>9, Zenon DEF TotalsAgree
<1>4. ASSUME NEW w \in Workers, SkipTx(w) PROVE TotalsAgree'
  BY <1>4, <1>t, QuietTotals, Zenon DEF SkipTx, history, totals
<1>5. ASSUME NEW w \in Workers, RunTx(w) PROVE TotalsAgree'
  <2>0. PICK t \in todo[w], o \in TaskOutcomes : RunTask(w, t, o)
    BY <1>5, Zenon DEF RunTx
  <2> DEFINE k == <<job[w], t>>
             one == Mode = "Execute" /\ o = "nil"
  <2>1. /\ worker[w] = "execute" /\ ran' = [ran EXCEPT ![k] = @ + 1]
        /\ jobErr' = [jobErr EXCEPT ![w] = o = "error" /\ Mode # "ExecuteWithTx"]
        /\ numTx' = [numTx EXCEPT ![w] = IF one THEN @ + 1 ELSE @]
        /\ counted' = IF one THEN counted \cup {k} ELSE counted
        /\ UNCHANGED <<worker, job, finished, failed, totalNumBlock, totalNumTx>>
    BY <2>0, Zenon DEF RunTask, totals
  <2>2. /\ job[w] \in Blocks /\ t \in DOMAIN BlockSubstates[job[w]] /\ job[w] \notin finished
        /\ job[w] \notin failed /\ ran[k] = 0
    BY <1>t, <2>1, Zenon DEF TypeOK, Holding, IInv, ItemsAgree, HeldItems
  <2>3. k \in Tasks /\ k[1] = job[w] /\ k \notin counted
    BY <2>2, TaskPair, Zenon DEF TotalsAgree
  <2>r. ran \in [Tasks -> Nat] /\ counted \subseteq Tasks /\ numTx \in [Workers -> Nat]
    BY <1>t, Zenon DEF TypeOK
  <2> HIDE DEF k, one
  <2>4. Posted' = Posted
    BY <2>1, Zenon DEF Posted
  <2>5. CountedOf(finished \cup failed)' = CountedOf(finished \cup failed)
    BY <2>1, <2>2, <2>3, Zenon DEF CountedOf
  <2>6. IsFiniteSet(counted')
    BY <1>f, <2>1, FS_AddElement, Zenon
  <2>7. Mode # "Execute" => counted' = {}
    BY <2>1, Zenon DEF TotalsAgree, one
  <2>8. \A c \in counted' : ran'[c] # 0
    <3>1. \A c \in counted : c \in Tasks /\ ran[c] # 0
      BY <2>r, Zenon DEF TotalsAgree
    <3>2. ran[k] \in Nat
      BY <2>3, <2>r, Zenon
    <3>3. ran[k] + 1 # 0
      BY <3>2
    <3>4. \A c \in Tasks : ran'[c] = IF c = k THEN ran[k] + 1 ELSE ran[c]
      BY <2>1, <2>r, Zenon
    <3>5. \A c \in counted' : c \in counted \/ c = k
      BY <2>1, Zenon
    <3> QED
      BY <2>3, <3>1, <3>3, <3>4, <3>5, Zenon
  <2>9. \A c \in counted' : \/ c[1] \in (finished \cup failed)'
                           \/ \E v \in Workers : worker'[v] = "execute" /\ job'[v] = c[1]
    BY <2>1, <2>3, Zenon DEF TotalsAgree
  <2>10. ASSUME NEW v \in Workers, worker'[v] = "execute"
         PROVE  numTx'[v] = Cardinality(CountedOf({job[v]})')
    <3>0. worker[v] = "execute" /\ numTx[v] = Cardinality(CountedOf({job[v]}))
      BY <2>1, <2>10, Zenon DEF TotalsAgree
    <3>1. CASE v = w /\ one
      <4>1. CountedOf({job[v]})' = CountedOf({job[v]}) \cup {k}
        BY <2>1, <2>3, <3>1, Zenon DEF CountedOf
      <4>2. IsFiniteSet(CountedOf({job[v]})) /\ k \notin CountedOf({job[v]})
        BY <1>f, <2>3, FS_Subset, Zenon DEF CountedOf
      <4>3. Cardinality(CountedOf({job[v]})') = Cardinality(CountedOf({job[v]})) + 1
        BY <4>1, <4>2, FS_AddElement, Zenon
      <4>4. numTx'[v] = numTx[v] + 1
        BY <2>1, <2>r, <3>1, Zenon
      <4> QED
        BY <3>0, <4>3, <4>4, Zenon
    <3>2. CASE ~(v = w /\ one)
      <4>1. numTx'[v] = numTx[v]
        BY <2>1, <2>r, <3>2, Zenon
      <4>2. v # w => job[v] # job[w]
        BY <2>1, <3>0, Zenon DEF IInv, ItemsAgree, HeldItems, Holding
      <4>3. CountedOf({job[v]})' = CountedOf({job[v]})
        BY <2>1, <2>3, <3>2, <4>2, Zenon DEF CountedOf
      <4> QED
        BY <3>0, <4>1, <4>3, Zenon
    <3> QED
      BY <3>1, <3>2, Zenon
  <2>11. Mode = "ExecuteWithTx" => \A v \in Workers : worker'[v] = "execute" => ~jobErr'[v]
    BY <1>t, <2>1, Zenon DEF TotalsAgree
  <2> QED
    BY <2>1, <2>4, <2>5, <2>6, <2>7, <2>8, <2>9, <2>10, <2>11, Zenon DEF TotalsAgree
<1>6. ASSUME NEW w \in Workers, AddNumTx(w) PROVE TotalsAgree'
  <2> DEFINE done == finished \cup failed
             x == IF Mode = "Execute" THEN "addBlock" ELSE "send"
  <2>1. /\ worker[w] = "execute" /\ worker' = [worker EXCEPT ![w] = x]
        /\ totalNumTx' = totalNumTx + (IF Mode = "ExecuteWithTx" THEN 1 ELSE numTx[w])
        /\ IF jobErr[w] THEN failed' = failed \cup {job[w]} /\ finished' = finished
                        ELSE finished' = finished \cup {job[w]} /\ failed' = failed
        /\ UNCHANGED <<job, numTx, jobErr, totalNumBlock, ran, counted>>
    BY <1>6, Zenon DEF AddNumTx
  <2>2. /\ job[w] \notin finished /\ job[w] \notin failed
        /\ \A v \in Workers : v # w /\ worker[v] \in {"execute", "addBlock"} => job[v] # job[w]
    BY <2>1, Zenon DEF IInv, ItemsAgree, HeldItems, Holding
  <2>3. done' = done \cup {job[w]}
    BY <2>1, Zenon
  <2>4. x \notin {"execute"} /\ (x = "addBlock" <=> Mode = "Execute")
    BY Zenon
  <2> HIDE DEF x
  <2>5. Mode = "Execute" => Posted' = Posted
    BY <1>t, <2>1, <2>2, <2>3, <2>4, Zenon DEF Posted
  <2>6. /\ numTx[w] = Cardinality(CountedOf({job[w]})) /\ numTx[w] \in Nat
        /\ CountedOf({job[w]}) \cap CountedOf(done) = {}
        /\ IsFiniteSet(CountedOf({job[w]})) /\ IsFiniteSet(CountedOf(done))
    <3>1. CountedOf({job[w]}) \in SUBSET counted /\ CountedOf(done) \in SUBSET counted
      BY Zenon DEF CountedOf
    <3>2. IsFiniteSet(CountedOf({job[w]})) /\ IsFiniteSet(CountedOf(done))
      BY <1>f, <3>1, FS_Subset, Zenon
    <3>3. CountedOf({job[w]}) \cap CountedOf(done) = {}
      BY <2>2, Zenon DEF CountedOf
    <3> QED
      BY <1>t, <2>1, <3>2, <3>3, Zenon DEF TotalsAgree, TypeOK
  <2>7. CountedOf(done)' = CountedOf(done) \cup CountedOf({job[w]})
    BY <2>1, <2>3, Zenon DEF CountedOf
  <2>8. Cardinality(CountedOf(done)') = Cardinality(CountedOf(done)) + numTx[w]
    <3> DEFINE A == CountedOf(done)
               B == CountedOf({job[w]})
    <3>1. IsFiniteSet(A) /\ IsFiniteSet(B) /\ A \cap B = {} /\ Cardinality(B) = numTx[w]
      BY <2>6, Zenon
    <3> HIDE DEF A, B
    <3>2. Cardinality(A \cup B) = Cardinality(A) + Cardinality(B) - Cardinality({})
      BY <3>1, FS_Union
    <3>3. Cardinality(A \cup B) = Cardinality(A) + numTx[w]
      BY <3>1, <3>2, FS_EmptySet, FS_CardinalityType
    <3> QED
      BY <2>7, <3>3, Zenon DEF A, B
  <2>9. \A v \in Workers : worker'[v] = "execute" => worker[v] = "execute" /\ v # w
    BY <1>t, <2>1, <2>4, Zenon
  <2>10. \A v \in Workers : worker'[v] = "execute" => numTx'[v] = Cardinality(CountedOf({job[v]})')
    <3> SUFFICES ASSUME NEW v \in Workers, worker'[v] = "execute"
                 PROVE  numTx'[v] = Cardinality(CountedOf({job[v]})')
      BY Zenon
    <3>1. CountedOf({job[v]})' = CountedOf({job[v]})
      BY <2>1, Zenon DEF CountedOf
    <3> QED
      BY <2>1, <2>9, <3>1, Zenon DEF TotalsAgree
  <2>11. \A k \in counted' : \/ k[1] \in done'
                            \/ \E v \in Workers : worker'[v] = "execute" /\ job'[v] = k[1]
    <3> SUFFICES ASSUME NEW k \in counted, k[1] \notin done'
                 PROVE  \E v \in Workers : worker'[v] = "execute" /\ job'[v] = k[1]
      BY <2>1, Zenon
    <3>1. k[1] \notin done /\ k[1] # job[w]
      BY <2>3, Zenon
    <3>2. PICK v \in Workers : worker[v] = "execute" /\ job[v] = k[1]
      BY <3>1, Zenon DEF TotalsAgree
    <3> QED
      BY <1>t, <2>1, <3>1, <3>2, Zenon
  <2>12. Mode = "ExecuteWithTx" =>
           /\ failed' = {} /\ totalNumTx' = Cardinality(finished')
           /\ \A v \in Workers : worker'[v] = "execute" => ~jobErr'[v]
    <3> SUFFICES ASSUME Mode = "ExecuteWithTx"
                 PROVE  /\ failed' = {} /\ totalNumTx' = Cardinality(finished')
                        /\ \A v \in Workers : worker'[v] = "execute" => ~jobErr'[v]
      BY Zenon
    <3>1. ~jobErr[w] /\ failed = {} /\ totalNumTx = Cardinality(finished)
      BY <2>1, Zenon DEF TotalsAgree
    <3>2. finished' = finished \cup {job[w]} /\ failed' = failed
      BY <2>1, <3>1, Zenon
    <3>3. Cardinality(finished') = Cardinality(finished) + 1
      BY <1>f, <2>2, <3>2, FS_AddElement, Zenon
    <3> QED
      BY <2>1, <2>9, <3>1, <3>2, <3>3, Zenon DEF TotalsAgree
  <2>13. Mode # "ExecuteWithTx" => totalNumTx' = Cardinality(CountedOf(done)')
    BY <2>1, <2>8, Zenon DEF TotalsAgree
  <2>14. Mode = "Execute" => totalNumBlock' = Cardinality(Posted')
    BY <2>1, <2>5, Zenon DEF TotalsAgree
  <2> QED
    BY <2>1, <2>10, <2>11, <2>12, <2>13, <2>14, Zenon DEF TotalsAgree
<1>7. ASSUME NEW w \in Workers, AddNumBlock(w) PROVE TotalsAgree'
  <2>1. /\ worker[w] = "addBlock" /\ worker' = [worker EXCEPT ![w] = "send"]
        /\ totalNumBlock' = totalNumBlock + 1
        /\ UNCHANGED <<job, numTx, jobErr, totalNumTx, ran, counted, finished, failed>>
    BY <1>7, Zenon DEF AddNumBlock, history
  <2>2. /\ job[w] \in finished \cup failed
        /\ \A v \in Workers : v # w /\ worker[v] = "addBlock" => job[v] # job[w]
    BY <2>1, Zenon DEF IInv, ItemsAgree, HeldItems, Holding
  <2>3. Posted' = Posted \cup {job[w]} /\ job[w] \notin Posted
    BY <1>t, <2>1, <2>2, Zenon DEF Posted
  <2>4. Mode = "Execute" => totalNumBlock' = Cardinality(Posted')
    <3>1. Cardinality(Posted \cup {job[w]}) = Cardinality(Posted) + 1
      BY <1>f, <2>3, FS_AddElement, Zenon
    <3> QED
      BY <2>1, <2>3, <3>1, Zenon DEF TotalsAgree
  <2>5. \A v \in Workers : worker'[v] = "execute" <=> worker[v] = "execute"
    BY <1>t, <2>1, Zenon
  <2>6. CountedOf(finished \cup failed)' = CountedOf(finished \cup failed)
    BY <2>1, Zenon DEF CountedOf
  <2>7. \A v \in Workers : worker'[v] = "execute" => numTx'[v] = Cardinality(CountedOf({job[v]})')
    <3> SUFFICES ASSUME NEW v \in Workers, worker'[v] = "execute"
                 PROVE  numTx'[v] = Cardinality(CountedOf({job[v]})')
      BY Zenon
    <3>1. CountedOf({job[v]})' = CountedOf({job[v]})
      BY <2>1, Zenon DEF CountedOf
    <3> QED
      BY <2>1, <2>5, <3>1, Zenon DEF TotalsAgree
  <2> QED
    BY <2>1, <2>4, <2>5, <2>6, <2>7, Zenon DEF TotalsAgree
<1>8. ASSUME NEW w \in Workers, WorkerSend(w) \/ WorkerStop(w) PROVE TotalsAgree'
  <2>1. /\ UNCHANGED <<counted, ran, finished, failed, totals, job, numTx, jobErr>>
        /\ worker[w] \in {"send", "select"}
        /\ \E x \in {"select", "exited"} : worker' = [worker EXCEPT ![w] = x]
    BY <1>8, Zenon DEF WorkerSend, WorkerStop, history
  <2> QED
    BY <2>1, <1>t, QuietTotals, Zenon
<1> QED
  BY <1>1, <1>2, <1>3, <1>4, <1>5, <1>6, <1>7, <1>8, Zenon DEF Next, Worker

\* The counters printed by the deferred report are complete when the entry
\* point returns, whichever of the three it is, and totalNumBlock is never
\* behind the blocks that main has counted in order.
THEOREM TotalsAreComplete == Spec => []TotalsComplete
<1>1. Init => TotalsAgree /\ InOnePlace /\ NoItemLostOrDuplicated /\ CursorInRange
  BY InitTotals, InitCount, Zenon DEF Init, CursorInRange
<1>2. IInv /\ TotalsAgree /\ [Next]_vars => TotalsAgree'
  BY NextTotals, Zenon
<1>3. IInv /\ InOnePlace /\ NoItemLostOrDuplicated /\ [Next]_vars
        => InOnePlace' /\ NoItemLostOrDuplicated'
  BY NextCount, Zenon
<1>4. IInv /\ CursorInRange /\ [Next]_vars => CursorInRange'
  BY NextCursor, Zenon DEF IInv
<1>5. IInv /\ InOnePlace /\ TotalsAgree /\ CursorInRange => TotalsComplete
  <2> SUFFICES ASSUME IInv, InOnePlace, TotalsAgree, CursorInRange PROVE TotalsComplete
    BY Zenon
  <2>t. TypeOK /\ First \in Nat /\ Last \in Int /\ cursor \in Nat /\ totalNumBlock \in Nat
    BY PoolAssumption, Zenon DEF IInv, TypeOK
  <2>1. ASSUME Mode = "Execute" PROVE cursor - First <= totalNumBlock
    <3>1. cursor <= Last + 1 \/ cursor = First
      BY Zenon DEF CursorInRange
    <3>2. First..(cursor - 1) \in SUBSET Posted
      BY <2>t, <3>1 DEF IInv, ItemsAgree, ReportedItems, InOnePlace, Posted, Blocks
    <3>3. IsFiniteSet(Posted) /\ totalNumBlock = Cardinality(Posted)
      BY <2>t, <2>1, ItemsFinite, Zenon DEF TotalsAgree
    <3>4. Cardinality(First..(cursor - 1)) <= totalNumBlock
      BY <3>2, <3>3, FS_Subset, Zenon
    <3>5. Cardinality(First..(cursor - 1)) = IF First > cursor - 1 THEN 0 ELSE cursor - 1 - First + 1
      BY <2>t, FS_Interval
    <3> QED
      BY <2>t, <3>4, <3>5
  <2>2. ASSUME main = "returned"
        PROVE  CASE Mode = "Execute" -> /\ totalNumBlock = Cardinality(finished \cup failed)
                                        /\ totalNumTx = Cardinality(counted)
                 [] Mode = "ExecuteWithTx" -> totalNumTx = Cardinality(finished)
                 [] Mode = "ExecuteTest" -> totalNumTx = 0
    <3>1. \A w \in Workers : worker[w] = "exited"
      BY <2>2, Zenon DEF IInv, ItemsAgree, ResultAgrees
    <3>2. Posted = finished \cup failed
      BY <3>1, Zenon DEF Posted
    <3>3. CountedOf(finished \cup failed) = counted
      BY <3>1, Zenon DEF CountedOf, TotalsAgree
    <3>4. Mode # "Execute" => Cardinality(counted) = 0
      BY FS_EmptySet, Zenon DEF TotalsAgree
    <3> QED
      BY <3>2, <3>3, <3>4, PoolAssumption, Zenon DEF TotalsAgree, Modes
  <2> QED
    BY <2>1, <2>2, Zenon DEF TotalsComplete
<1> QED
  BY <1>1, <1>2, <1>3, <1>4, <1>5, IInvCorrect, PTL DEF Spec
=============================================================================
