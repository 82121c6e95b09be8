------------------------------- MODULE CloneDB -------------------------------
(***************************************************************************)
(* Writing substates into a DB from several workers, with crashes:          *)
(* SubstateDB.PutSubstate as the task of substate-cli db clone runs it      *)
(* (cmd/substate-cli/db/clone.go).  The recorder in                         *)
(* core/state_processor.go makes the same writes from a single goroutine.   *)
(*                                                                          *)
(* The task pool gives every substate of the range to one worker exactly    *)
(* once, in any order (SubstateTaskPool).  LevelDB appends the writes of    *)
(* all workers to one log and does not sync it, so a crash keeps a prefix.  *)
(* After a crash the command is run again from the start.                   *)
(***************************************************************************)
EXTENDS SubstateStore

CONSTANTS
  Source,      \* the source DB
  First, Last, \* the range of blocks
  Workers,
  MaxCrashes

Keys == {key \in StoredKeys(Source) : First <= key[1] /\ key[1] <= Last}

ASSUME CloneAssumption ==
  /\ MaxCrashes \in Nat
  /\ StoredKeys(Source) \subseteq Nat \X Nat
  /\ \A key \in Keys : Readable(Source, key)

\* what the task pool reads from the source and hands to cloneTask
Original == [key \in Keys |-> GetBlockSubstates(Source, key[1])[key[2]]]

VARIABLES
  wal,      \* the destination DB
  todo,     \* the substates no worker has taken yet
  job,      \* what each worker is writing
  status,   \* of the command
  crashes

vars == <<wal, todo, job, status, crashes>>

NoKey == <<>>
NoCodes == <<{}, {}, {}>>
Idle == [key |-> NoKey, codes |-> NoCodes]

Init ==
  /\ wal = <<>>
  /\ todo = Keys
  /\ job = [w \in Workers |-> Idle]
  /\ status = "running"
  /\ crashes = 0

\* the worker calls cloneTask with the next substate of its block
Take(w) ==
  /\ status = "running" /\ job[w].key = NoKey
  /\ \E key \in todo :
       /\ todo' = todo \ {key}
       /\ job' = [job EXCEPT ![w] =
                    [key |-> key, codes |-> CodesOf(Original[key])]]
  /\ UNCHANGED <<wal, status, crashes>>

\* one PutCode of PutSubstate: the allocs are maps, so the codes of a loop come in
\* any order
PutCode(w) ==
  /\ status = "running"
  /\ \E loop \in DOMAIN job[w].codes :
       /\ \A earlier \in 1 .. loop - 1 : job[w].codes[earlier] = {}
       /\ \E code \in job[w].codes[loop] :
            /\ wal' = Append(wal, CodeWrite(code))
            /\ job' = [job EXCEPT ![w].codes[loop] = @ \ {code}]
  /\ UNCHANGED <<todo, status, crashes>>

\* faulty variant: the substate is written before its codes
PutSubstateFirst(w) ==
  /\ status = "running" /\ job[w].key # NoKey
  /\ wal' = Append(wal, SubstateWrite(job[w].key, NewSubstateRLP(Original[job[w].key])))
  /\ job' = [job EXCEPT ![w].key = NoKey]
  /\ UNCHANGED <<todo, status, crashes>>

\* faulty variant: a substate that is already there is skipped, and the worker with it
PutSubstateOnce(w) ==
  /\ status = "running" /\ job[w].key # NoKey /\ job[w].codes = NoCodes
  /\ ~HasSubstate(wal, job[w].key)
  /\ wal' = Append(wal, SubstateWrite(job[w].key, NewSubstateRLP(Original[job[w].key])))
  /\ job' = [job EXCEPT ![w].key = NoKey]
  /\ UNCHANGED <<todo, status, crashes>>

\* the last write of PutSubstate
PutSubstate(w) ==
  /\ status = "running" /\ job[w].key # NoKey /\ job[w].codes = NoCodes
  /\ wal' = Append(wal, SubstateWrite(job[w].key, NewSubstateRLP(Original[job[w].key])))
  /\ job' = [job EXCEPT ![w].key = NoKey]
  /\ UNCHANGED <<todo, status, crashes>>

\* Execute returns once the pool has counted every block
Return ==
  /\ status = "running" /\ todo = {} /\ \A w \in Workers : job[w].key = NoKey
  /\ status' = "returned"
  /\ UNCHANGED <<wal, todo, job, crashes>>

\* the process or the machine stops; a prefix of the log survives
Crash ==
  /\ status = "running" /\ crashes < MaxCrashes
  /\ \E n \in 0 .. Len(wal) : wal' = SubSeq(wal, 1, n)
  /\ job' = [w \in Workers |-> Idle]
  /\ status' = "crashed"
  /\ crashes' = crashes + 1
  /\ UNCHANGED todo

\* faulty variant: the next run continues with what the crashed one had not taken
RerunResumes ==
  /\ status = "crashed"
  /\ status' = "running"
  /\ UNCHANGED <<wal, todo, job, crashes>>

\* the range is cloned again
Rerun ==
  /\ status = "crashed"
  /\ status' = "running"
  /\ todo' = Keys
  /\ UNCHANGED <<wal, job, crashes>>

\* the workers' steps and the operator's rerun happen; crashes need not
Progress ==
  \/ \E w \in Workers : Take(w) \/ PutCode(w) \/ PutSubstate(w)
  \/ Return \/ Rerun

Next == Progress \/ Crash

Spec == Init /\ [][Next]_vars
FairSpec == Spec /\ WF_vars(Progress)

-----------------------------------------------------------------------------

TypeOK ==
  /\ \A i \in DOMAIN wal :
       \/ wal[i].type = "1c" /\ wal[i] = CodeWrite(wal[i].code)
       \/ wal[i].type = "1s" /\ wal[i].key \in Keys
  /\ todo \subseteq Keys
  /\ \A w \in Workers :
       /\ job[w].key \in Keys \union {NoKey}
       /\ job[w].key = NoKey => job[w].codes = NoCodes
       /\ job[w].key # NoKey =>
            \A loop \in 1 .. 3 : job[w].codes[loop] \subseteq CodesOf(Original[job[w].key])[loop]
  /\ status \in {"running", "crashed", "returned"}
  /\ crashes \in 0 .. MaxCrashes

\* Whatever the workers interleave and wherever a crash cuts the log, GetSubstate
\* never panics on a substate that is in the DB: its codes precede it.
StoredReadable == \A key \in StoredKeys(wal) : Readable(wal, key)

\* When clone returns, every substate of the range reads from the destination as it
\* reads from the source, whatever format it had there and however often the command
\* was interrupted before.
CloneComplete ==
  status = "returned" =>
    \A key \in Keys : HasSubstate(wal, key) /\ GetSubstate(wal, key) = Original[key]

\* A clone that is rerun after each crash is eventually complete.
Completes == <>(status = "returned")

\* what GetSubstate does for a substate that is in the DB: return it, or panic
Panic == [panic |-> TRUE]
Read(key) == IF Readable(wal, key) THEN GetSubstate(wal, key) ELSE Panic

\* The several writes of PutSubstate look atomic: the destination is a map that gains
\* one finished substate at a time and loses some only by a crash.
Map == INSTANCE SubstateMap WITH map <- [key \in StoredKeys(wal) |-> Read(key)]
PutLooksAtomic == Map!Spec
=============================================================================
