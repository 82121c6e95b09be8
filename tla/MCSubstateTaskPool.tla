------------------------ MODULE MCSubstateTaskPool ------------------------
(* Instances of the worker pool for TLC. *)
EXTENDS SubstateTaskPool

\* blocks of Execute: a call and a creation, a transfer, a creation, none
MCBlockSubstates ==
  [b \in Blocks |->
     CASE b % 4 = 1 -> <<"call", "create">>
       [] b % 4 = 2 -> <<"transfer">>
       [] b % 4 = 3 -> <<"create">>
       [] OTHER -> <<>>]

\* a failing first block followed by blocks without transactions
MCFirstFails == [b \in Blocks |-> IF b = First THEN <<"call">> ELSE <<>>]
=============================================================================
