---------------------------- MODULE CloneDBProofs ----------------------------
(***************************************************************************)
(* db clone keeps every stored substate readable, is complete when it       *)
(* returns, and implements the map of SubstateMap, for every source DB,     *)
(* range, number of workers and number of crashes.                          *)
(***************************************************************************)
EXTENDS CloneDB, WellFoundedInduction, SequenceTheorems, TLAPS

-----------------------------------------------------------------------------
(* What the operators of the store return.                                  *)

\* A nonempty set of positions of a DB has a largest element.
LEMMA MaxOfPositions ==
  ASSUME NEW n \in Nat, NEW S, S \subseteq 1 .. n, S # {}
  PROVE  Max(S) \in S /\ \A i \in S : i <= Max(S)
<1> DEFINE R == OpToRel(<, Nat)
           T == {n - i : i \in S}
<1>1. PICK m \in T : \A y \in T : ~(<<y, m>> \in R)
  <2>1. T \subseteq Nat
    OBVIOUS
  <2>2. T # {}
    BY Zenon
  <2> HIDE DEF T, R
  <2> QED BY <2>1, <2>2, WFMin, NatLessThanWellFounded, Zenon DEF R
<1>2. PICK x \in S : m = n - x
  BY Zenon
<1>3. \A y \in S : x >= y
  <2> SUFFICES ASSUME NEW y \in S, ~(x >= y) PROVE FALSE
    BY Zenon
  <2>1. n - y \in T /\ n - y \in Nat /\ m \in Nat /\ n - y < m
    BY <1>2
  <2>2. <<n - y, m>> \in R
    BY <2>1, Zenon DEF OpToRel
  <2> QED BY <1>1, <2>1, <2>2, Zenon
<1> QED
  BY <1>3, Zenon DEF Max

\* every code of the DB is stored under its own hash
CodesWellFormed(db) ==
  \A i \in DOMAIN db : db[i].type = "1c" => db[i] = CodeWrite(db[i].code)

\* A code that was stored is the one that GetCode finds for its hash.
LEMMA GetCodeOfHash ==
  ASSUME NEW db, NEW code, CodesWellFormed(db),
         code = Nil \/ \E i \in DOMAIN db : db[i] = CodeWrite(code)
  PROVE  GetCode(db, CodeHash(code)) = code
<1>1. CASE code = Nil
  BY <1>1, Zenon DEF GetCode, EmptyCodeHash
<1>2. CASE code # Nil
  <2>1. CodeHash(code) # EmptyCodeHash
    BY <1>2, Zenon DEF CodeHash, EmptyCodeHash
  <2> DEFINE match(w) == w.type = "1c" /\ w.hash = CodeHash(code)
             found == CHOOSE w \in Range(db) : match(w)
  <2>2. \E w \in Range(db) : match(w)
    BY <1>2 DEF Range, CodeWrite
  <2>3. found \in Range(db) /\ match(found)
    BY <2>2, Zenon
  <2> HIDE DEF found
  <2>4. PICK i \in DOMAIN db : found = db[i]
    BY <2>3, Zenon DEF Range
  <2>5. CodeHash(found.code) = CodeHash(code)
    <3>1. db[i] = CodeWrite(db[i].code)
      BY <2>3, <2>4, Zenon DEF CodesWellFormed
    <3>2. db[i].hash = CodeHash(db[i].code)
      BY <3>1 DEF CodeWrite
    <3> QED BY <2>3, <2>4, <3>2, Zenon
  <2>6. found.code = code
    BY <2>5, Zenon DEF CodeHash
  <2> QED BY <2>1, <2>6, Zenon DEF GetCode, found
<1> QED BY <1>1, <1>2, Zenon

\* what GetSubstate returns, of any contents
IsSubstate(s) ==
  /\ s = [InputAlloc |-> s.InputAlloc, OutputAlloc |-> s.OutputAlloc, Env |-> s.Env,
          Message |-> s.Message]
  /\ s.InputAlloc = [addr \in DOMAIN s.InputAlloc |-> s.InputAlloc[addr]]
  /\ s.OutputAlloc = [addr \in DOMAIN s.OutputAlloc |-> s.OutputAlloc[addr]]
  /\ s.Env = [BaseFee |-> s.Env.BaseFee]
  /\ s.Message = [To |-> s.Message.To, Data |-> s.Message.Data, GasPrice |-> s.Message.GasPrice,
                   AccessList |-> s.Message.AccessList, GasFeeCap |-> s.Message.GasFeeCap,
                   GasTipCap |-> s.Message.GasTipCap]

\* What GetSubstate returns has the fields of a Substate and no others.
LEMMA GetSubstateIsSubstate ==
  ASSUME NEW db, NEW key
  PROVE  IsSubstate(GetSubstate(db, key))
BY Zenon DEF IsSubstate, GetSubstate, SetRLP, SetAlloc, SetEnv, SetMessage

\* the codes that PutSubstate stores for a substate
AllCodes(s) == CodesOf(s)[1] \union CodesOf(s)[2] \union CodesOf(s)[3]

\* PutSubstate stores every code that the encoding refers to by a hash.
LEMMA CodesOfEncoding ==
  ASSUME NEW s, NEW hash \in HashesOf(NewSubstateRLP(s)), hash # EmptyCodeHash
  PROVE  \E code \in AllCodes(s) : hash = CodeHash(code)
<1> DEFINE rlp == NewSubstateRLP(s)
<1>1. CASE hash \in Range(rlp.InputAlloc)
  <2>1. PICK addr \in DOMAIN s.InputAlloc : hash = CodeHash(s.InputAlloc[addr])
    BY <1>1, Zenon DEF Range, NewSubstateRLP, NewSubstateAllocRLP
  <2>2. s.InputAlloc[addr] # Nil
    BY <2>1, Zenon DEF EmptyCodeHash
  <2>3. s.InputAlloc[addr] \in CodesOf(s)[1]
    BY <2>2, Zenon DEF CodesOf, Range
  <2> QED BY <2>1, <2>3, Zenon DEF AllCodes
<1>2. CASE hash \in Range(rlp.OutputAlloc)
  <2>1. PICK addr \in DOMAIN s.OutputAlloc : hash = CodeHash(s.OutputAlloc[addr])
    BY <1>2, Zenon DEF Range, NewSubstateRLP, NewSubstateAllocRLP
  <2>2. s.OutputAlloc[addr] # Nil
    BY <2>1, Zenon DEF EmptyCodeHash
  <2>3. s.OutputAlloc[addr] \in CodesOf(s)[2]
    BY <2>2, Zenon DEF CodesOf, Range
  <2> QED BY <2>1, <2>3, Zenon DEF AllCodes
<1>3. CASE s.Message.To = Nil /\ hash = CodeHash(s.Message.Data)
  <2>1. s.Message.Data \in CodesOf(s)[3]
    BY <1>3, Zenon DEF CodesOf, EmptyCodeHash
  <2> QED BY <1>3, <2>1, Zenon DEF AllCodes
<1>4. rlp.Message.To = s.Message.To
      /\ (rlp.Message.To = Nil => rlp.Message.InitCodeHash = CodeHash(s.Message.Data))
  BY Zenon DEF NewSubstateRLP, NewSubstateMessageRLP
<1> HIDE DEF rlp
<1> QED BY <1>1, <1>2, <1>3, <1>4, Zenon DEF HashesOf, rlp

\* Encoding a substate and reading it back gives the substate.
LEMMA RoundTrip ==
  ASSUME NEW db, CodesWellFormed(db), NEW s, IsSubstate(s),
         \A code \in AllCodes(s) : \E i \in DOMAIN db : db[i] = CodeWrite(code)
  PROVE  SetRLP(db, NewSubstateRLP(s)) = s
<1> DEFINE rlp == NewSubstateRLP(s)
<1>1. ASSUME NEW code \in AllCodes(s) \union {Nil}
      PROVE  GetCode(db, CodeHash(code)) = code
  BY <1>1, GetCodeOfHash, Zenon
<1>2. SetAlloc(db, rlp.InputAlloc) = s.InputAlloc
  <2>1. \A addr \in DOMAIN s.InputAlloc : s.InputAlloc[addr] \in AllCodes(s) \union {Nil}
    BY Zenon DEF AllCodes, CodesOf, Range
  <2> QED BY <1>1, <2>1, Zenon DEF SetAlloc, NewSubstateRLP, NewSubstateAllocRLP, IsSubstate
<1>3. SetAlloc(db, rlp.OutputAlloc) = s.OutputAlloc
  <2>1. \A addr \in DOMAIN s.OutputAlloc : s.OutputAlloc[addr] \in AllCodes(s) \union {Nil}
    BY Zenon DEF AllCodes, CodesOf, Range
  <2> QED BY <1>1, <2>1, Zenon DEF SetAlloc, NewSubstateRLP, NewSubstateAllocRLP, IsSubstate
<1>4. SetMessage(db, rlp.Message) = s.Message
  <2>1. s.Message.To = Nil => s.Message.Data \in AllCodes(s) \union {Nil}
    BY Zenon DEF AllCodes, CodesOf
  <2> QED BY <1>1, <2>1, Zenon DEF SetMessage, NewSubstateRLP, NewSubstateMessageRLP, IsSubstate
<1>5. SetEnv(rlp.Env) = s.Env
  BY Zenon DEF SetEnv, NewSubstateRLP, NewSubstateEnvRLP, IsSubstate
<1> HIDE DEF rlp
<1> QED BY <1>2, <1>3, <1>4, <1>5, Zenon DEF SetRLP, IsSubstate, rlp

-----------------------------------------------------------------------------
(* The copy.                                                                *)

\* the codes of the range, and the writes a clone of it makes
Codes == UNION {AllCodes(Original[key]) : key \in Keys}
SubstateWriteOf(key) == SubstateWrite(key, NewSubstateRLP(Original[key]))
Writes == {CodeWrite(code) : code \in Codes} \union {SubstateWriteOf(key) : key \in Keys}

Jobs == [key : Keys \union {NoKey}, codes : [1 .. 3 -> SUBSET Codes]]

Types ==
  /\ wal \in Seq(Writes)
  /\ todo \subseteq Keys
  /\ job \in [Workers -> Jobs]
  /\ status \in {"running", "crashed", "returned"}
  /\ crashes \in 0 .. MaxCrashes

Stored(code) == \E i \in DOMAIN wal : wal[i] = CodeWrite(code)

\* in the log a substate comes after its codes
CodesFirst ==
  \A i \in DOMAIN wal : wal[i].type = "1s" =>
    \A code \in AllCodes(Original[wal[i].key]) : \E j \in 1 .. i - 1 : wal[j] = CodeWrite(code)

\* a code of the substate a worker is writing is in the log or still to be put
CodesUnderWay ==
  \A w \in Workers :
    IF job[w].key = NoKey THEN job[w].codes = NoCodes
    ELSE \A loop \in 1 .. 3 :
           /\ job[w].codes[loop] \subseteq CodesOf(Original[job[w].key])[loop]
           /\ \A code \in CodesOf(Original[job[w].key])[loop] :
                code \in job[w].codes[loop] \/ Stored(code)

\* in a run that was not cut off no substate of the range is forgotten
NoneForgotten ==
  /\ status # "crashed" =>
       \A key \in Keys : key \in todo \/ HasSubstate(wal, key) \/ \E w \in Workers : job[w].key = key
  /\ status = "returned" => todo = {} /\ \A w \in Workers : job[w].key = NoKey

IInv == Types /\ CodesFirst /\ CodesUnderWay /\ NoneForgotten

-----------------------------------------------------------------------------
(* The substates of the source and the writes.                              *)

\* The keys of the range are block and transaction numbers, and an idle worker has none of
\* them.
LEMMA KeysArePairs ==
  /\ NoKey \notin Keys
  /\ \A key \in Keys : key \in Nat \X Nat
<1>1. Keys \subseteq Nat \X Nat
  BY CloneAssumption, Zenon DEF Keys
<1>2. NoKey \notin Nat \X Nat
  BY DEF NoKey
<1> QED BY <1>1, <1>2, Zenon

\* What cloneTask is given is what GetSubstate reads from the source.
LEMMA OriginalRead ==
  ASSUME NEW key \in Keys
  PROVE  Original[key] = GetSubstate(Source, key)
<1>1. key \in StoredKeys(Source) /\ key = <<key[1], key[2]>>
  BY KeysArePairs DEF Keys
<1> DEFINE txs == {k[2] : k \in {l \in StoredKeys(Source) : l[1] = key[1]}}
<1>2. key[2] \in txs
  BY <1>1, Zenon
<1>3. GetBlockSubstates(Source, key[1])[key[2]] = GetSubstate(Source, <<key[1], key[2]>>)
  BY <1>2, Zenon DEF GetBlockSubstates
<1> QED BY <1>1, <1>3, Zenon DEF Original

\* The source holds substates.
LEMMA OriginalIsSubstate ==
  ASSUME NEW key \in Keys
  PROVE  IsSubstate(Original[key])
BY OriginalRead, GetSubstateIsSubstate, Zenon

\* The codes that PutSubstate stores come in three groups, one for each of its loops.
LEMMA CodesInThree ==
  ASSUME NEW key \in Keys
  PROVE  /\ CodesOf(Original[key]) \in [1 .. 3 -> SUBSET Codes]
         /\ AllCodes(Original[key]) \subseteq Codes
<1>1. AllCodes(Original[key]) \subseteq Codes
  BY Zenon DEF Codes
<1>2. CodesOf(Original[key]) \in [1 .. 3 -> SUBSET AllCodes(Original[key])]
  BY DEF AllCodes, CodesOf
<1> QED BY <1>1, <1>2, Zenon

\* A write is a code or a substate, as its type says.
LEMMA WriteKinds ==
  ASSUME NEW write \in Writes
  PROVE  \/ /\ write.type = "1c" /\ write.code \in Codes /\ write = CodeWrite(write.code)
         \/ /\ write.type = "1s" /\ write.key \in Keys /\ write = SubstateWriteOf(write.key)
            /\ write.value = NewSubstateRLP(Original[write.key])
BY DEF Writes, CodeWrite, SubstateWriteOf, SubstateWrite

\* A write says whether it is a code or a substate, and which.
LEMMA KindsDiffer ==
  /\ \A code : CodeWrite(code).type = "1c" /\ CodeWrite(code).code = code
  /\ \A key : SubstateWriteOf(key).type = "1s" /\ SubstateWriteOf(key).key = key
BY Zenon DEF CodeWrite, SubstateWriteOf, SubstateWrite

-----------------------------------------------------------------------------
(* How the log grows and shrinks.                                           *)

\* Appending a code, or a substate whose codes are stored, keeps codes first.
LEMMA CodesFirstAppend ==
  ASSUME wal \in Seq(Writes), CodesFirst, NEW write \in Writes, wal' = Append(wal, write),
         write.type = "1s" => \A code \in AllCodes(Original[write.key]) : Stored(code)
  PROVE  CodesFirst'
<1>1. /\ Len(wal) \in Nat /\ DOMAIN wal = 1 .. Len(wal)
      /\ DOMAIN wal' = 1 .. Len(wal) + 1
      /\ \A i \in 1 .. Len(wal) : wal'[i] = wal[i]
      /\ wal'[Len(wal) + 1] = write
  OBVIOUS
<1> SUFFICES ASSUME NEW i \in DOMAIN wal', wal'[i].type = "1s",
                    NEW code \in AllCodes(Original[wal'[i].key])
             PROVE  \E j \in 1 .. i - 1 : wal'[j] = CodeWrite(code)
  BY Zenon DEF CodesFirst
<1>2. CASE i \in DOMAIN wal
  <2>1. PICK j \in 1 .. i - 1 : wal[j] = CodeWrite(code)
    BY <1>1, <1>2, Zenon DEF CodesFirst
  <2>2. wal'[j] = wal[j]
    BY <1>1, <1>2
  <2> QED BY <2>1, <2>2, Zenon
<1>3. CASE i = Len(wal) + 1
  <2>1. PICK j \in DOMAIN wal : wal[j] = CodeWrite(code)
    BY <1>1, <1>3, Zenon DEF Stored
  <2> QED BY <1>1, <1>3, <2>1
<1>4. i \in DOMAIN wal \/ i = Len(wal) + 1
  BY <1>1
<1> QED BY <1>2, <1>3, <1>4, Zenon

\* What is stored stays stored when the log grows.
LEMMA StoredAppend ==
  ASSUME wal \in Seq(Writes), NEW write \in Writes, wal' = Append(wal, write)
  PROVE  /\ \A code : Stored(code) => Stored(code)'
         /\ \A key : HasSubstate(wal, key) => HasSubstate(wal', key)
         /\ write.type = "1c" => Stored(write.code)'
         /\ write.type = "1s" => HasSubstate(wal', write.key)
<1>1. /\ Len(wal) \in Nat /\ DOMAIN wal = 1 .. Len(wal)
      /\ DOMAIN wal' = 1 .. Len(wal) + 1
      /\ \A i \in 1 .. Len(wal) : wal'[i] = wal[i]
      /\ wal'[Len(wal) + 1] = write
  OBVIOUS
<1>2. DOMAIN wal \subseteq DOMAIN wal' /\ Len(wal) + 1 \in DOMAIN wal'
  BY <1>1
<1>3. \A code : Stored(code) => Stored(code)'
  BY <1>1, <1>2, Zenon DEF Stored
<1>4. \A key : HasSubstate(wal, key) => HasSubstate(wal', key)
  BY <1>1, <1>2, Zenon DEF HasSubstate, WritesOf
<1>5. write.type = "1c" => Stored(write.code)'
  BY <1>1, <1>2, WriteKinds, Zenon DEF Stored
<1>6. write.type = "1s" => HasSubstate(wal', write.key)
  BY <1>1, <1>2, Zenon DEF HasSubstate, WritesOf
<1> QED BY <1>3, <1>4, <1>5, <1>6, Zenon

\* A crash leaves a log in which codes are still first.
LEMMA CodesFirstPrefix ==
  ASSUME wal \in Seq(Writes), CodesFirst, NEW n \in 0 .. Len(wal), wal' = SubSeq(wal, 1, n)
  PROVE  wal' \in Seq(Writes) /\ CodesFirst'
<1>1. /\ wal' \in Seq(Writes) /\ DOMAIN wal' = 1 .. n /\ DOMAIN wal = 1 .. Len(wal)
      /\ \A i \in 1 .. n : wal'[i] = wal[i]
  OBVIOUS
<1> SUFFICES ASSUME NEW i \in DOMAIN wal', wal'[i].type = "1s",
                    NEW code \in AllCodes(Original[wal'[i].key])
             PROVE  \E j \in 1 .. i - 1 : wal'[j] = CodeWrite(code)
  BY <1>1, Zenon DEF CodesFirst
<1>2. wal'[i] = wal[i] /\ i \in DOMAIN wal
  BY <1>1
<1>3. PICK j \in 1 .. i - 1 : wal[j] = CodeWrite(code)
  BY <1>2, Zenon DEF CodesFirst
<1>4. wal'[j] = wal[j]
  BY <1>1, <1>2
<1> QED BY <1>3, <1>4, Zenon

-----------------------------------------------------------------------------
(* The inductive invariant.                                                 *)

\* The clone starts with an empty log, the whole range to do and idle workers.
LEMMA InitIInv == Init => IInv
<1> SUFFICES ASSUME Init PROVE IInv
  BY Zenon
<1>1. Idle \in Jobs /\ Idle.key = NoKey /\ Idle.codes = NoCodes
  BY DEF Idle, Jobs, NoCodes
<1>2. Types
  BY <1>1, CloneAssumption DEF Init, Types
<1>3. CodesFirst
  BY DEF Init, CodesFirst
<1>4. CodesUnderWay
  BY <1>1, Zenon DEF Init, CodesUnderWay
<1>5. NoneForgotten
  BY Zenon DEF Init, NoneForgotten
<1> QED BY <1>2, <1>3, <1>4, <1>5, Zenon DEF IInv

\* A worker that takes a transaction has all codes of its substate to put.
LEMMA TakeIInv ==
  ASSUME IInv, NEW w \in Workers, Take(w)
  PROVE  IInv'
<1>1. PICK key \in todo :
        /\ todo' = todo \ {key}
        /\ job' = [job EXCEPT ![w] = [key |-> key, codes |-> CodesOf(Original[key])]]
  BY Zenon DEF Take
<1>2. UNCHANGED <<wal, status, crashes>> /\ status = "running"
  BY Zenon DEF Take
<1>3. key \in Keys /\ key # NoKey
  BY KeysArePairs, Zenon DEF IInv, Types
<1>4. [key |-> key, codes |-> CodesOf(Original[key])] \in Jobs
  BY <1>3, CodesInThree, Zenon DEF Jobs
<1>5. /\ job' \in [Workers -> Jobs]
      /\ job'[w].key = key /\ job'[w].codes = CodesOf(Original[key])
      /\ \A v \in Workers \ {w} : job'[v] = job[v]
  BY <1>1, <1>4, Zenon DEF IInv, Types
<1>6. Types'
  BY <1>1, <1>2, <1>5, Zenon DEF IInv, Types
<1>7. CodesFirst'
  BY <1>2, Zenon DEF IInv, CodesFirst
<1>8. CodesUnderWay'
  BY <1>2, <1>3, <1>5 DEF IInv, CodesUnderWay, Stored
<1>9. NoneForgotten'
  <2>1. job[w].key = NoKey
    BY Zenon DEF Take
  <2> SUFFICES ASSUME NEW k \in Keys
               PROVE  k \in todo' \/ HasSubstate(wal', k) \/ \E v \in Workers : job'[v].key = k
    BY <1>2, Zenon DEF NoneForgotten
  <2>2. k \in todo \/ HasSubstate(wal, k) \/ \E v \in Workers : job[v].key = k
    BY <1>2, Zenon DEF IInv, NoneForgotten
  <2> QED BY <1>1, <1>2, <1>3, <1>5, <2>1, <2>2, KeysArePairs, Zenon
<1> QED BY <1>6, <1>7, <1>8, <1>9, Zenon DEF IInv

\* A code that a worker has put is in the log.
LEMMA PutCodeIInv ==
  ASSUME IInv, NEW w \in Workers, PutCode(w)
  PROVE  IInv'
<1>a. PICK loop \in DOMAIN job[w].codes : \E code \in job[w].codes[loop] :
        /\ wal' = Append(wal, CodeWrite(code))
        /\ job' = [job EXCEPT ![w].codes[loop] = @ \ {code}]
  BY Zenon DEF PutCode
<1>1. PICK code \in job[w].codes[loop] :
        /\ wal' = Append(wal, CodeWrite(code))
        /\ job' = [job EXCEPT ![w].codes[loop] = @ \ {code}]
  BY <1>a, Zenon
<1>2. UNCHANGED <<todo, status, crashes>> /\ status = "running"
  BY Zenon DEF PutCode
<1>3. /\ job[w] \in Jobs /\ wal \in Seq(Writes)
      /\ job[w].codes \in [1 .. 3 -> SUBSET Codes] /\ loop \in 1 .. 3 /\ code \in Codes
  BY Zenon DEF IInv, Types, Jobs
<1>4. CodeWrite(code) \in Writes /\ CodeWrite(code).type = "1c" /\ CodeWrite(code).code = code
  BY <1>3, KindsDiffer, Zenon DEF Writes
<1>5. /\ \A c : Stored(c) => Stored(c)'
      /\ \A key : HasSubstate(wal, key) => HasSubstate(wal', key)
      /\ Stored(code)'
  BY <1>1, <1>3, <1>4, StoredAppend, Zenon
<1>6. /\ job' \in [Workers -> Jobs]
      /\ job'[w].key = job[w].key
      /\ job'[w].codes = [job[w].codes EXCEPT ![loop] = @ \ {code}]
      /\ \A v \in Workers \ {w} : job'[v] = job[v]
  BY <1>1, <1>3, Zenon DEF IInv, Types, Jobs
<1>7. Types'
  BY <1>1, <1>2, <1>3, <1>4, <1>6 DEF IInv, Types
<1>8. CodesFirst'
  BY <1>1, <1>3, <1>4, CodesFirstAppend, Zenon DEF IInv
<1>9. CodesUnderWay'
  <2>0. NoCodes[loop] = {}
    BY <1>3 DEF NoCodes
  <2>1. job[w].key # NoKey
    BY <1>1, <2>0, Zenon DEF IInv, CodesUnderWay
  <2> SUFFICES ASSUME NEW v \in Workers
               PROVE  IF job'[v].key = NoKey THEN job'[v].codes = NoCodes
                      ELSE \A l \in 1 .. 3 :
                             /\ job'[v].codes[l] \subseteq CodesOf(Original[job'[v].key])[l]
                             /\ \A c \in CodesOf(Original[job'[v].key])[l] :
                                  c \in job'[v].codes[l] \/ Stored(c)'
    BY Zenon DEF CodesUnderWay
  <2>2. CASE v # w
    BY <1>5, <1>6, <2>2, Zenon DEF IInv, CodesUnderWay
  <2>3. CASE v = w
    <3> SUFFICES ASSUME NEW l \in 1 .. 3
                 PROVE  /\ job'[v].codes[l] \subseteq CodesOf(Original[job'[v].key])[l]
                        /\ \A c \in CodesOf(Original[job'[v].key])[l] :
                             c \in job'[v].codes[l] \/ Stored(c)'
      BY <1>6, <2>1, <2>3, Zenon
    <3>1. /\ job[w].codes[l] \subseteq CodesOf(Original[job[w].key])[l]
          /\ \A c \in CodesOf(Original[job[w].key])[l] : c \in job[w].codes[l] \/ Stored(c)
      BY <2>1, Zenon DEF IInv, CodesUnderWay
    <3>2. job'[w].codes[l] = IF l = loop THEN job[w].codes[l] \ {code} ELSE job[w].codes[l]
      BY <1>3, <1>6, Zenon
    <3> QED BY <1>5, <1>6, <2>3, <3>1, <3>2, Zenon
  <2> QED BY <2>2, <2>3, Zenon
<1>10. NoneForgotten'
  <2>1. \A v \in Workers : job'[v].key = job[v].key
    BY <1>6, Zenon
  <2> QED BY <1>2, <1>5, <2>1, Zenon DEF IInv, NoneForgotten
<1> QED BY <1>7, <1>8, <1>9, <1>10, Zenon DEF IInv

\* A worker puts a substate when all its codes are in the log.
LEMMA PutSubstateIInv ==
  ASSUME IInv, NEW w \in Workers, PutSubstate(w)
  PROVE  IInv'
<1> DEFINE key == job[w].key
<1>1. /\ key # NoKey /\ job[w].codes = NoCodes /\ status = "running"
      /\ wal' = Append(wal, SubstateWriteOf(key))
      /\ job' = [job EXCEPT ![w].key = NoKey]
      /\ UNCHANGED <<todo, status, crashes>>
  BY Zenon DEF PutSubstate, SubstateWriteOf
<1>2. job[w] \in Jobs /\ key \in Keys /\ wal \in Seq(Writes)
  BY <1>1, Zenon DEF IInv, Types, Jobs
<1>3. /\ SubstateWriteOf(key) \in Writes
      /\ SubstateWriteOf(key).type = "1s" /\ SubstateWriteOf(key).key = key
  BY <1>2, KindsDiffer, Zenon DEF Writes
<1>4. /\ job' \in [Workers -> Jobs]
      /\ job'[w].key = NoKey /\ job'[w].codes = NoCodes
      /\ \A v \in Workers \ {w} : job'[v] = job[v]
  BY <1>1, <1>2, Zenon DEF IInv, Types, Jobs
<1> HIDE DEF key
<1>5. /\ \A c : Stored(c) => Stored(c)'
      /\ \A k : HasSubstate(wal, k) => HasSubstate(wal', k)
      /\ HasSubstate(wal', key)
  BY <1>1, <1>2, <1>3, StoredAppend, Zenon
<1>6. Types'
  BY <1>1, <1>2, <1>3, <1>4 DEF IInv, Types
<1>7. CodesFirst'
  <2>1. ASSUME NEW code \in AllCodes(Original[key]) PROVE Stored(code)
    <3>1. PICK loop \in 1 .. 3 : code \in CodesOf(Original[key])[loop]
      BY <2>1 DEF AllCodes
    <3>2. code \in NoCodes[loop] \/ Stored(code)
      BY <1>1, <3>1, Zenon DEF IInv, CodesUnderWay, key
    <3> QED BY <3>2 DEF NoCodes
  <2> QED BY <1>1, <1>2, <1>3, <2>1, CodesFirstAppend, Zenon DEF IInv
<1>8. CodesUnderWay'
  BY <1>4, <1>5, Zenon DEF IInv, CodesUnderWay
<1>9. NoneForgotten'
  <2> SUFFICES ASSUME NEW k \in Keys
               PROVE  k \in todo' \/ HasSubstate(wal', k) \/ \E v \in Workers : job'[v].key = k
    BY <1>1, Zenon DEF NoneForgotten
  <2>1. k \in todo \/ HasSubstate(wal, k) \/ \E v \in Workers : job[v].key = k
    BY <1>1, Zenon DEF IInv, NoneForgotten
  <2> QED BY <1>1, <1>4, <1>5, <2>1, Zenon DEF key
<1> QED BY <1>6, <1>7, <1>8, <1>9, Zenon DEF IInv

\* Cutting the log cuts a substate before it cuts any of its codes.
LEMMA CrashIInv ==
  ASSUME IInv, Crash
  PROVE  IInv'
<1>1. PICK n \in 0 .. Len(wal) : wal' = SubSeq(wal, 1, n)
  BY Zenon DEF Crash
<1>2. /\ status' = "crashed" /\ UNCHANGED todo /\ job' = [w \in Workers |-> Idle]
      /\ crashes < MaxCrashes /\ crashes' = crashes + 1
  BY Zenon DEF Crash
<1>3. Idle \in Jobs /\ Idle.key = NoKey /\ Idle.codes = NoCodes
  BY DEF Idle, Jobs, NoCodes
<1>4. wal' \in Seq(Writes) /\ CodesFirst'
  BY <1>1, CodesFirstPrefix, Zenon DEF IInv, Types
<1>5. Types'
  BY <1>2, <1>3, <1>4, CloneAssumption DEF IInv, Types
<1>6. CodesUnderWay'
  BY <1>2, <1>3, Zenon DEF CodesUnderWay
<1>7. NoneForgotten'
  BY <1>2, Zenon DEF NoneForgotten
<1> QED BY <1>4, <1>5, <1>6, <1>7, Zenon DEF IInv

\* Every action keeps the invariant, restarting and returning included.
LEMMA NextIInv == IInv /\ [Next]_vars => IInv'
<1> SUFFICES ASSUME IInv, [Next]_vars PROVE IInv'
  BY Zenon
<1>1. CASE \E w \in Workers : Take(w) \/ PutCode(w) \/ PutSubstate(w)
  BY <1>1, TakeIInv, PutCodeIInv, PutSubstateIInv, Zenon
<1>2. CASE Return
  <2>1. NoneForgotten'
    BY <1>2, Zenon DEF Return, IInv, NoneForgotten
  <2> QED BY <1>2, <2>1, Zenon DEF Return, IInv, Types, CodesFirst, CodesUnderWay, Stored
<1>3. CASE Rerun
  <2>1. NoneForgotten'
    BY <1>3, Zenon DEF Rerun, NoneForgotten
  <2> QED BY <1>3, <2>1, Zenon DEF Rerun, IInv, Types, CodesFirst, CodesUnderWay, Stored
<1>4. CASE Crash
  BY <1>4, CrashIInv, Zenon
<1>5. CASE UNCHANGED vars
  <2>1. Types' /\ CodesFirst'
    BY <1>5, Zenon DEF vars, IInv, Types, CodesFirst
  <2>2. CodesUnderWay'
    BY <1>5, Zenon DEF vars, IInv, CodesUnderWay, Stored
  <2>3. NoneForgotten'
    BY <1>5, Zenon DEF vars, IInv, NoneForgotten
  <2> QED BY <2>1, <2>2, <2>3, Zenon DEF IInv
<1> QED BY <1>1, <1>2, <1>3, <1>4, <1>5, Zenon DEF Next, Progress

\* The invariant holds in every state of the clone.
LEMMA IInvHolds == Spec => []IInv
BY InitIInv, NextIInv, PTL DEF Spec

-----------------------------------------------------------------------------
(* What follows for a reader of the DB.                                     *)

\* A substate in the log is the original, with its codes in the same log.
LEMMA StoredIsOriginal ==
  ASSUME IInv, NEW key, HasSubstate(wal, key)
  PROVE  /\ key \in Keys
         /\ StoredValue(wal, key) = NewSubstateRLP(Original[key])
         /\ \A code \in AllCodes(Original[key]) : Stored(code)
<1> DEFINE last == Max(WritesOf(wal, key))
<1>1. wal \in Seq(Writes) /\ Len(wal) \in Nat /\ DOMAIN wal = 1 .. Len(wal)
  BY DEF IInv, Types
<1>2. WritesOf(wal, key) \subseteq 1 .. Len(wal) /\ WritesOf(wal, key) # {}
  BY <1>1, Zenon DEF WritesOf, HasSubstate
<1>3. last \in WritesOf(wal, key)
  BY <1>1, <1>2, MaxOfPositions, Zenon
<1> HIDE DEF last
<1>4. last \in DOMAIN wal /\ wal[last].type = "1s" /\ wal[last].key = key
  BY <1>3, Zenon DEF WritesOf
<1>5. wal[last] \in Writes
  BY <1>1, <1>4
<1>6. key \in Keys /\ wal[last].value = NewSubstateRLP(Original[key])
  BY <1>4, <1>5, WriteKinds, Zenon
<1>7. StoredValue(wal, key) = NewSubstateRLP(Original[key])
  BY <1>6 DEF StoredValue, DecodeValue, NewSubstateRLP, last
<1>8. \A code \in AllCodes(Original[key]) : Stored(code)
  BY <1>1, <1>4 DEF IInv, CodesFirst, Stored
<1> QED BY <1>6, <1>7, <1>8, Zenon

\* A substate of the log is one of the range and reads as it does in the source.
LEMMA StoredReads ==
  ASSUME IInv, NEW key, HasSubstate(wal, key)
  PROVE  key \in Keys /\ Readable(wal, key) /\ GetSubstate(wal, key) = Original[key]
<1>1. /\ key \in Keys
      /\ StoredValue(wal, key) = NewSubstateRLP(Original[key])
      /\ \A code \in AllCodes(Original[key]) : Stored(code)
  BY StoredIsOriginal, Zenon
<1>2. CodesWellFormed(wal)
  <2> SUFFICES ASSUME NEW i \in DOMAIN wal, wal[i].type = "1c"
               PROVE  wal[i] = CodeWrite(wal[i].code)
    BY Zenon DEF CodesWellFormed
  <2>1. wal[i] \in Writes
    BY DEF IInv, Types
  <2> QED BY <2>1, WriteKinds, Zenon
<1>3. Readable(wal, key)
  <2> SUFFICES ASSUME NEW hash \in HashesOf(NewSubstateRLP(Original[key])), hash # EmptyCodeHash
               PROVE  HasCode(wal, hash)
    BY <1>1, Zenon DEF Readable
  <2>1. PICK code \in AllCodes(Original[key]) : hash = CodeHash(code)
    BY CodesOfEncoding, Zenon
  <2>2. PICK i \in DOMAIN wal : wal[i] = CodeWrite(code)
    BY <1>1, Zenon DEF Stored
  <2>3. wal[i].type = "1c" /\ wal[i].hash = hash
    BY <2>1, <2>2 DEF CodeWrite
  <2> QED BY <2>3, Zenon DEF HasCode
<1>4. GetSubstate(wal, key) = Original[key]
  <2>1. IsSubstate(Original[key])
    BY <1>1, OriginalIsSubstate, Zenon
  <2>2. SetRLP(wal, NewSubstateRLP(Original[key])) = Original[key]
    BY <1>1, <1>2, <2>1, RoundTrip, Zenon DEF Stored
  <2> QED BY <1>1, <2>2, Zenon DEF GetSubstate
<1> QED BY <1>1, <1>3, <1>4, Zenon

\* The keys of the DB are those with a write.
LEMMA StoredKeysHave ==
  \A db, key : key \in StoredKeys(db) <=> HasSubstate(db, key)
BY Zenon DEF StoredKeys, HasSubstate, WritesOf

\* Types of the clone: PutSubstate's writes, and the codes a worker has still to put.
THEOREM TypeCorrect == Spec => []TypeOK
<1>1. IInv => TypeOK
  <2> SUFFICES ASSUME IInv PROVE TypeOK
    BY Zenon
  <2>1. \A i \in DOMAIN wal : wal[i] \in Writes
    BY DEF IInv, Types
  <2>2. \A i \in DOMAIN wal : \/ wal[i].type = "1c" /\ wal[i] = CodeWrite(wal[i].code)
                              \/ wal[i].type = "1s" /\ wal[i].key \in Keys
    BY <2>1, WriteKinds, Zenon
  <2>3. \A w \in Workers : job[w].key \in Keys \union {NoKey}
    BY Zenon DEF IInv, Types, Jobs
  <2> QED BY <2>2, <2>3, Zenon DEF TypeOK, IInv, Types, CodesUnderWay
<1> QED BY <1>1, IInvHolds, PTL

\* Whatever the workers interleave and wherever a crash cuts the log, GetSubstate never
\* panics on a substate that is in the destination DB.
THEOREM NeverUnreadable == Spec => []StoredReadable
<1>1. IInv => StoredReadable
  BY StoredReads, StoredKeysHave, Zenon DEF StoredReadable
<1> QED BY <1>1, IInvHolds, PTL

\* When clone returns, every substate of the range reads as it does in the source.
THEOREM CompleteOnReturn == Spec => []CloneComplete
<1>1. IInv => CloneComplete
  <2> SUFFICES ASSUME IInv, status = "returned", NEW key \in Keys
               PROVE  HasSubstate(wal, key) /\ GetSubstate(wal, key) = Original[key]
    BY Zenon DEF CloneComplete
  <2>1. HasSubstate(wal, key)
    BY KeysArePairs, Zenon DEF IInv, NoneForgotten
  <2> QED BY <2>1, StoredReads, Zenon
<1> QED BY <1>1, IInvHolds, PTL

-----------------------------------------------------------------------------
(* The refinement of SubstateMap.                                           *)

\* the map a reader sees
Seen == [key \in StoredKeys(wal) |-> Read(key)]

\* it holds originals only
SeenIsOriginal ==
  /\ StoredKeys(wal) \subseteq Keys
  /\ Seen = [key \in StoredKeys(wal) |-> Original[key]]

\* A reader of the destination sees the original substates of the stored keys.
LEMMA IInvSeen == IInv => SeenIsOriginal
<1> SUFFICES ASSUME IInv PROVE SeenIsOriginal
  BY Zenon
<1>1. \A key \in StoredKeys(wal) : key \in Keys /\ Read(key) = Original[key]
  BY StoredReads, StoredKeysHave, Zenon DEF Read
<1> QED BY <1>1, Zenon DEF Seen, SeenIsOriginal

\* The same after a step.
LEMMA IInvSeenNext == IInv' => SeenIsOriginal'
BY IInvSeen, PTL

\* The map is empty at first.
LEMMA InitMap == Init => Map!Init
<1> SUFFICES ASSUME Init PROVE Map!Init
  BY Zenon
<1>1. StoredKeys(wal) = {}
  BY DEF Init, StoredKeys
<1>2. Seen = <<>>
  BY <1>1 DEF Seen
<1> QED BY <1>2, Zenon DEF Init, Map!Init, Seen

\* A step that appends one write puts its substate, if it is one, and nothing else.
LEMMA SeenAfterAppend ==
  ASSUME IInv, IInv', NEW write \in Writes, wal' = Append(wal, write)
  PROVE  /\ write.type = "1c" => Seen' = Seen
         /\ write.type = "1s" =>
              /\ write.key \in DOMAIN Original
              /\ Seen' = [k \in DOMAIN Seen \union {write.key} |->
                            IF k = write.key THEN Original[k] ELSE Seen[k]]
<1>1. /\ Len(wal) \in Nat /\ DOMAIN wal = 1 .. Len(wal)
      /\ DOMAIN wal' = 1 .. Len(wal) + 1
      /\ \A i \in 1 .. Len(wal) : wal'[i] = wal[i]
      /\ wal'[Len(wal) + 1] = write
  BY DEF IInv, Types
<1>2. /\ Seen = [key \in StoredKeys(wal) |-> Original[key]]
      /\ DOMAIN Seen = StoredKeys(wal)
  BY IInvSeen, Zenon DEF SeenIsOriginal
<1>3. Seen' = [key \in StoredKeys(wal') |-> Original[key]]
  BY IInvSeenNext, Zenon DEF SeenIsOriginal
<1>4. CASE write.type = "1c"
  <2>1. StoredKeys(wal') = StoredKeys(wal)
    BY <1>1, <1>4 DEF StoredKeys
  <2>2. write.type # "1s"
    BY <1>4, Zenon
  <2> QED BY <1>2, <1>3, <2>1, <2>2, Zenon
<1>5. CASE write.type = "1s"
  <2>1. StoredKeys(wal') = StoredKeys(wal) \union {write.key}
    <3>1. Len(wal) + 1 \in DOMAIN wal' /\ DOMAIN wal \subseteq DOMAIN wal'
      BY <1>1
    <3>2. \A i \in DOMAIN wal' : i \in DOMAIN wal \/ i = Len(wal) + 1
      BY <1>1
    <3> QED BY <1>1, <1>5, <3>1, <3>2, Zenon DEF StoredKeys
  <2>2. write.key \in DOMAIN Original
    BY <1>5, WriteKinds, Zenon DEF Original
  <2>3. write.type # "1c"
    BY <1>5, Zenon
  <2> QED BY <1>2, <1>3, <2>1, <2>2, <2>3, Zenon
<1> QED BY <1>4, <1>5, WriteKinds, Zenon

\* A crash takes some substates off the map and leaves the others as they are.
LEMMA SeenAfterCrash ==
  ASSUME IInv, IInv', NEW n \in 0 .. Len(wal), wal' = SubSeq(wal, 1, n)
  PROVE  \E kept \in SUBSET DOMAIN Seen : Seen' = Restrict(Seen, kept)
<1>1. /\ DOMAIN wal' = 1 .. n /\ DOMAIN wal = 1 .. Len(wal)
      /\ \A i \in 1 .. n : wal'[i] = wal[i]
  BY DEF IInv, Types
<1>2. Seen = [key \in StoredKeys(wal) |-> Original[key]] /\ DOMAIN Seen = StoredKeys(wal)
  BY IInvSeen, Zenon DEF SeenIsOriginal
<1>4. Seen' = [key \in StoredKeys(wal') |-> Original[key]]
  BY IInvSeenNext, Zenon DEF SeenIsOriginal
<1>5. StoredKeys(wal') \subseteq StoredKeys(wal)
  BY <1>1 DEF StoredKeys
<1>6. Seen' = Restrict(Seen, StoredKeys(wal'))
  BY <1>2, <1>4, <1>5, Zenon DEF Restrict
<1> QED BY <1>2, <1>5, <1>6, Zenon

\* Every step of the clone is a step of the map, or leaves it as it is.
LEMMA NextMap == IInv /\ IInv' /\ [Next]_vars => [Map!Next]_<<Seen, status>>
<1> SUFFICES ASSUME IInv, IInv', [Next]_vars PROVE [Map!Next]_<<Seen, status>>
  BY Zenon
<1>0. wal' = wal => Seen' = Seen
  BY Zenon DEF Seen, Read, Readable
<1>1. ASSUME NEW w \in Workers, Take(w)
      PROVE  UNCHANGED <<Seen, status>>
  BY <1>0, <1>1, Zenon DEF Take
<1>2. ASSUME NEW w \in Workers, PutCode(w)
      PROVE  UNCHANGED <<Seen, status>>
  <2>1. PICK loop \in DOMAIN job[w].codes : \E code \in job[w].codes[loop] :
          wal' = Append(wal, CodeWrite(code))
    BY <1>2, Zenon DEF PutCode
  <2>2. PICK code \in job[w].codes[loop] : wal' = Append(wal, CodeWrite(code))
    BY <2>1, Zenon
  <2>3. code \in Codes
    BY DEF IInv, Types, Jobs
  <2>4. CodeWrite(code) \in Writes /\ CodeWrite(code).type = "1c"
    BY <2>3, KindsDiffer, Zenon DEF Writes
  <2>5. Seen' = Seen
    BY <2>2, <2>4, SeenAfterAppend, Zenon
  <2> QED BY <1>2, <2>5, Zenon DEF PutCode
<1>3. ASSUME NEW w \in Workers, PutSubstate(w)
      PROVE  Map!Put
  <2> DEFINE key == job[w].key
  <2>1. key \in Keys /\ wal' = Append(wal, SubstateWriteOf(key))
    BY <1>3, Zenon DEF PutSubstate, SubstateWriteOf, IInv, Types, Jobs
  <2> HIDE DEF key
  <2> DEFINE write == SubstateWriteOf(key)
  <2>2. write \in Writes /\ write.type = "1s" /\ write.key = key /\ wal' = Append(wal, write)
    BY <2>1, KindsDiffer, Zenon DEF Writes
  <2> HIDE DEF write
  <2>3. /\ write.key \in DOMAIN Original
        /\ Seen' = [k \in DOMAIN Seen \union {write.key} |->
                      IF k = write.key THEN Original[k] ELSE Seen[k]]
    BY <2>2, SeenAfterAppend, Zenon
  <2> QED BY <1>3, <2>3, Zenon DEF Map!Put, PutSubstate, Seen
<1>4. CASE Return
  <2>1. Seen = Original
    <3>1. \A key \in Keys : HasSubstate(wal, key)
      BY <1>4, KeysArePairs, Zenon DEF Return, IInv, NoneForgotten
    <3>2. StoredKeys(wal) = Keys
      BY <3>1, StoredKeysHave, IInvSeen, Zenon DEF SeenIsOriginal
    <3>3. Original = [key \in Keys |-> Original[key]]
      BY Zenon DEF Original
    <3> QED BY <3>2, <3>3, IInvSeen, Zenon DEF SeenIsOriginal
  <2>2. Seen' = Seen
    BY <1>0, <1>4, Zenon DEF Return
  <2> QED BY <1>4, <2>1, <2>2, Zenon DEF Return, Map!Next, Map!Return, Seen
<1>5. CASE Rerun
  <2>1. Seen' = Seen
    BY <1>0, <1>5, Zenon DEF Rerun
  <2> QED BY <1>5, <2>1, Zenon DEF Rerun, Map!Next, Map!Rerun, Seen
<1>6. CASE Crash
  <2>1. \E kept \in SUBSET DOMAIN Seen : Seen' = Restrict(Seen, kept)
    BY <1>6, SeenAfterCrash, Zenon DEF Crash
  <2> QED BY <1>6, <2>1, Zenon DEF Crash, Map!Next, Map!Crash, Map!Restrict, Restrict, Seen
<1>7. CASE UNCHANGED vars
  BY <1>0, <1>7, Zenon DEF vars
<1> QED BY <1>1, <1>2, <1>3, <1>4, <1>5, <1>6, <1>7, Zenon DEF Next, Progress, Map!Next

\* The several writes of PutSubstate look atomic to a reader, crashes included: the
\* clone implements SubstateMap.
THEOREM CloneImplementsMap == Spec => PutLooksAtomic
<1>1. IInv /\ IInv' /\ [Next]_vars => [Map!Next]_<<Seen, status>>
  BY NextMap, Zenon
<1>2. Spec => Map!Init
  BY InitMap, Zenon DEF Spec
<1>3. Spec => [][Map!Next]_<<Seen, status>>
  BY <1>1, IInvHolds, PTL DEF Spec
<1> QED BY <1>2, <1>3, PTL DEF PutLooksAtomic, Map!Spec, Seen
=============================================================================
