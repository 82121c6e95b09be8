-------------------------- MODULE InOrderExecution --------------------------
(***************************************************************************)
(* What the caller of Execute (research/substate_task.go) is promised, with *)
(* no goroutine or channel in sight: the items of a range are executed in   *)
(* any order, each one at most once; progress is counted in the order of    *)
(* the range; a nil return means all of them finished, an error return that *)
(* one failed; and nothing is executed once the call has returned.          *)
(***************************************************************************)
EXTENDS Integers

CONSTANTS First, Last

VARIABLES
  finished,   \* items executed without error
  failed,     \* items whose execution failed
  cursor,     \* the first item that is not counted yet
  outcome     \* "running", or what the call returned

Blocks == First..Last
vars == <<finished, failed, cursor, outcome>>

Init ==
  /\ finished = {} /\ failed = {}
  /\ cursor = First /\ outcome = "running"

Fresh(b) == b \in Blocks /\ b \notin finished \cup failed

Finish(b) ==
  /\ outcome = "running" /\ Fresh(b)
  /\ finished' = finished \cup {b}
  /\ UNCHANGED <<failed, cursor, outcome>>

Fail(b) ==
  /\ outcome = "running" /\ Fresh(b)
  /\ failed' = failed \cup {b}
  /\ UNCHANGED <<finished, cursor, outcome>>

Count ==
  /\ outcome = "running" /\ cursor \in finished
  /\ cursor' = cursor + 1
  /\ UNCHANGED <<finished, failed, outcome>>

Return ==
  /\ outcome = "running"
  /\ \/ outcome' = "nil" /\ cursor > Last
     \/ outcome' = "error" /\ failed # {}
  /\ UNCHANGED <<finished, failed, cursor>>

Next == (\E b \in Blocks : Finish(b) \/ Fail(b)) \/ Count \/ Return

Spec == Init /\ [][Next]_vars
=============================================================================
