---------------------------- MODULE SubstateStore ----------------------------
(***************************************************************************)
(* The contents of a substate DB: research/substate_db.go with the          *)
(* encodings of research/substate_rlp.go.                                   *)
(*                                                                          *)
(* A DB is the sequence of the writes made to it, oldest first, which is    *)
(* what LevelDB keeps in its log.  A write is a code ("1c" + hash) or a     *)
(* substate ("1s" + block + tx); a key <<b, t>> stands for the big-endian   *)
(* pair, so the keys of a block are exactly those whose first part is b.    *)
(*                                                                          *)
(* Of a substate the model keeps what the encodings treat differently: the  *)
(* codes of the two allocs, the message's To, Data and fee fields, and the  *)
(* block's base fee.                                                        *)
(***************************************************************************)
EXTENDS Integers, Sequences, FiniteSetsExt, Functions

Nil == "nil"

\* crypto.Keccak256Hash, injective
CodeHash(code) == <<"keccak256", code>>
EmptyCodeHash == CodeHash(Nil)

CodeWrite(code) == [type |-> "1c", hash |-> CodeHash(code), code |-> code]
SubstateWrite(key, value) == [type |-> "1s", key |-> key, value |-> value]

-----------------------------------------------------------------------------
(* Encoding a substate.                                                     *)

\* the codes that PutSubstate stores before the substate, in its three loops;
\* PutCode skips the empty one
CodesOf(substate) ==
  LET initCode == IF substate.Message.To = Nil THEN {substate.Message.Data} ELSE {}
      nonEmpty(codes) == codes \ {Nil}
  IN <<nonEmpty(Range(substate.InputAlloc)), nonEmpty(Range(substate.OutputAlloc)),
       nonEmpty(initCode)>>

NewSubstateAllocRLP(alloc) == [addr \in DOMAIN alloc |-> CodeHash(alloc[addr])]

\* contract creation keeps the hash of the init code instead of the data
NewSubstateMessageRLP(msg) ==
  [To |-> msg.To,
   Data |-> IF msg.To = Nil THEN Nil ELSE msg.Data,
   InitCodeHash |-> IF msg.To = Nil THEN CodeHash(msg.Data) ELSE <<>>,
   GasPrice |-> msg.GasPrice, AccessList |-> msg.AccessList,
   GasFeeCap |-> msg.GasFeeCap, GasTipCap |-> msg.GasTipCap]

NewSubstateEnvRLP(env) == [BaseFee |-> env.BaseFee]

NewSubstateRLP(substate) ==
  [format |-> "london",
   InputAlloc |-> NewSubstateAllocRLP(substate.InputAlloc),
   OutputAlloc |-> NewSubstateAllocRLP(substate.OutputAlloc),
   Env |-> NewSubstateEnvRLP(substate.Env),
   Message |-> NewSubstateMessageRLP(substate.Message)]

\* the same substate as older recorders wrote it: without the base fee and the
\* fee caps, and before Berlin without the access list
OlderRLP(format, substate) ==
  LET msg == NewSubstateMessageRLP(substate.Message)
      kept == {"To", "Data", "InitCodeHash", "GasPrice"}
                \union IF format = "berlin" THEN {"AccessList"} ELSE {}
  IN [NewSubstateRLP(substate) EXCEPT !.format = format,
                                      !.Env = <<>>,
                                      !.Message = Restrict(msg, kept)]

-----------------------------------------------------------------------------
(* Decoding a stored value.                                                 *)

OldMessage(m, cap) ==
  [To |-> m.To, Data |-> m.Data, InitCodeHash |-> m.InitCodeHash,
   GasPrice |-> m.GasPrice, AccessList |-> Nil, GasFeeCap |-> cap, GasTipCap |-> cap]

\* faulty variant: the fee caps of an old message stay empty
SetOldMessageNoCaps(m) == OldMessage(m, Nil)

\* setBerlinRLP and setLegacyRLP fill in the fields a message does not have, in
\* the same way: both caps are the gas price, there is no access list
SetOldMessage(m) == OldMessage(m, m.GasPrice)

\* no base fee before London
SetOldEnv == [BaseFee |-> Nil]

SetOldRLP(value) ==
  [value EXCEPT !.Env = SetOldEnv, !.Message = SetOldMessage(@)]

\* the three attempts of GetSubstate: a format decodes only as itself
DecodeValue(value) == IF value.format = "london" THEN value ELSE SetOldRLP(value)

HasCode(db, hash) ==
  hash # EmptyCodeHash /\ \E i \in DOMAIN db : db[i].type = "1c" /\ db[i].hash = hash

GetCode(db, hash) ==
  IF hash = EmptyCodeHash THEN Nil
  ELSE (CHOOSE w \in Range(db) : w.type = "1c" /\ w.hash = hash).code

SetAlloc(db, allocRLP) == [addr \in DOMAIN allocRLP |-> GetCode(db, allocRLP[addr])]

SetMessage(db, m) ==
  [To |-> m.To,
   Data |-> IF m.To = Nil THEN GetCode(db, m.InitCodeHash) ELSE m.Data,
   GasPrice |-> m.GasPrice, AccessList |-> m.AccessList,
   GasFeeCap |-> m.GasFeeCap, GasTipCap |-> m.GasTipCap]

SetEnv(envRLP) == [BaseFee |-> envRLP.BaseFee]

SetRLP(db, rlp) ==
  [InputAlloc |-> SetAlloc(db, rlp.InputAlloc),
   OutputAlloc |-> SetAlloc(db, rlp.OutputAlloc),
   Env |-> SetEnv(rlp.Env),
   Message |-> SetMessage(db, rlp.Message)]

-----------------------------------------------------------------------------
(* Reading a DB.                                                            *)

WritesOf(db, key) == {i \in DOMAIN db : db[i].type = "1s" /\ db[i].key = key}

HasSubstate(db, key) == WritesOf(db, key) # {}

StoredKeys(db) == {db[i].key : i \in {j \in DOMAIN db : db[j].type = "1s"}}

StoredValue(db, key) == DecodeValue(db[Max(WritesOf(db, key))].value)

\* the hashes for which SetRLP calls GetCode
HashesOf(rlp) ==
  Range(rlp.InputAlloc) \union Range(rlp.OutputAlloc)
    \union IF rlp.Message.To = Nil THEN {rlp.Message.InitCodeHash} ELSE {}

\* GetSubstate returns: none of its calls of GetCode panics
Readable(db, key) ==
  \A hash \in HashesOf(StoredValue(db, key)) \ {EmptyCodeHash} : HasCode(db, hash)

GetSubstate(db, key) == SetRLP(db, StoredValue(db, key))

GetBlockSubstates(db, block) ==
  [tx \in {key[2] : key \in {k \in StoredKeys(db) : k[1] = block}} |->
     GetSubstate(db, <<block, tx>>)]
=============================================================================
