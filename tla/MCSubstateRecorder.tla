------------------------- MODULE MCSubstateRecorder -------------------------
(* Instances of the recorder for TLC: a sender s, a contract c and an address x. *)
EXTENDS SubstateRecorder

CONSTANTS s, c, x

Contract(balance) ==
  [nonce |-> 1, balance |-> balance, code |-> "code", storage |-> [k \in Keys |-> 1]]

\* x is absent, empty or a contract; a transaction may leave it with ether
MCTrie ==
  {[a \in Addrs |->
      CASE a = s -> [EmptyAccount EXCEPT !.balance = 3]
        [] a = c -> Contract(1)
        [] a = x -> other]
     : other \in {Absent, EmptyAccount, Contract(0)}}

MCChainHashes == [n \in {1} |-> 7]
MCBlockNums == [low : {1}, overflow : {FALSE}]
MCAllBlockNums == [low : {0, 1}, overflow : BOOLEAN]
=============================================================================
