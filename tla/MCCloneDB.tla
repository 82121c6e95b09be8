------------------------------ MODULE MCCloneDB ------------------------------
(* Source DBs for CloneDB and UpgradeDB: substates that share a code, a      *)
(* creation with its init code, values of several formats.                   *)
EXTENDS CloneDB

Message(to, data, list, cap) ==
  [To |-> to, Data |-> data, GasPrice |-> "price", AccessList |-> list,
   GasFeeCap |-> cap, GasTipCap |-> cap]

Substate(input, output, msg, baseFee) ==
  [InputAlloc |-> input, OutputAlloc |-> output, Message |-> msg,
   Env |-> [BaseFee |-> baseFee]]

\* a call to a contract and a creation that calls it
Called(list, cap, baseFee) ==
  Substate([user |-> Nil, token |-> "tokenCode"], [user |-> Nil, token |-> "tokenCode"],
           Message("token", "input", list, cap), baseFee)
Created(list, cap, baseFee) ==
  Substate([user |-> Nil, token |-> "tokenCode"],
           [user |-> Nil, token |-> "tokenCode", vault |-> "vaultCode"],
           Message(Nil, "initCode", list, cap), baseFee)

CodeWrites == <<CodeWrite("tokenCode"), CodeWrite("vaultCode"), CodeWrite("initCode")>>

\* what was recorded before Berlin (block 1, transaction 1), between Berlin and London
\* (block 1, transaction 0) and since
MCRecorded(key) ==
  CASE key = <<1, 1>> -> Created(Nil, "price", Nil)
    [] key = <<1, 0>> -> Called("list", "price", Nil)
    [] OTHER          -> Called("list", "cap", "fee")

\* every format that decodes without loss; block 3 is outside the range
MCSource == CodeWrites \o
  <<SubstateWrite(<<1, 1>>, OlderRLP("legacy", MCRecorded(<<1, 1>>))),
    SubstateWrite(<<2, 0>>, NewSubstateRLP(MCRecorded(<<2, 0>>))),
    SubstateWrite(<<3, 0>>, NewSubstateRLP(MCRecorded(<<3, 0>>)))>>

MCBerlinSource == CodeWrites \o
  <<SubstateWrite(<<1, 0>>, OlderRLP("berlin", MCRecorded(<<1, 0>>)))>>

\* A substate keeps what was recorded, through the format it was recorded in, the
\* decoding in GetSubstate and the encoding of the destination: code and init code
\* through their hashes, the fee caps of a transaction that had none, the access list.
RecordedKept == \A key \in StoredKeys(wal) : GetSubstate(wal, key) = MCRecorded(key)
=============================================================================
