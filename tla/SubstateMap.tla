----------------------------- MODULE SubstateMap -----------------------------
(***************************************************************************)
(* What a writer of substates promises to a reader: a map from keys to      *)
(* substates in which a substate appears whole and with its recorded        *)
(* contents, from which only a crash removes entries, and which is complete *)
(* when the command returns.                                                *)
(***************************************************************************)
EXTENDS Functions

CONSTANT Original    \* the substates to write

VARIABLES map, status

Init == map = <<>> /\ status = "running"

Put ==
  /\ status = "running"
  /\ \E key \in DOMAIN Original :
       map' = [k \in DOMAIN map \union {key} |-> IF k = key THEN Original[k] ELSE map[k]]
  /\ UNCHANGED status

Crash ==
  /\ status = "running"
  /\ status' = "crashed"
  /\ \E kept \in SUBSET DOMAIN map : map' = Restrict(map, kept)

Rerun ==
  /\ status = "crashed"
  /\ status' = "running"
  /\ UNCHANGED map

Return ==
  /\ status = "running"
  /\ map = Original
  /\ status' = "returned"
  /\ UNCHANGED map

Next == Put \/ Crash \/ Rerun \/ Return

Spec == Init /\ [][Next]_<<map, status>>
=============================================================================
