----------------------------- MODULE MCUpgradeDB -----------------------------
(* An old DB with three codes and three substates that share them.           *)
EXTENDS UpgradeDB

Account == [user |-> Nil, token |-> "tokenCode"]
Message(to, data) ==
  [To |-> to, Data |-> data, GasPrice |-> "price", AccessList |-> Nil,
   GasFeeCap |-> "price", GasTipCap |-> "price"]

Called ==
  [InputAlloc |-> Account, OutputAlloc |-> Account, Message |-> Message("token", "input"),
   Env |-> [BaseFee |-> Nil]]
Created ==
  [InputAlloc |-> Account,
   OutputAlloc |-> [user |-> Nil, token |-> "tokenCode", vault |-> "vaultCode"],
   Message |-> Message(Nil, "initCode"), Env |-> [BaseFee |-> Nil]]

MCOldCodes == <<CodeWrite("initCode"), CodeWrite("tokenCode"), CodeWrite("vaultCode")>>

\* the keys of the old DB are strings: "10_0" comes before "2_0"
MCOldSubstates ==
  <<SubstateWrite(<<10, 0>>, OlderRLP("legacy", Called)),
    SubstateWrite(<<2, 0>>, OlderRLP("legacy", Created)),
    SubstateWrite(<<2, 1>>, OlderRLP("berlin", Called))>>
=============================================================================
