--------------------------- MODULE UpgradeDBProofs ---------------------------
(***************************************************************************)
(* db upgrade leaves a complete DB when it returns, for every pair of old   *)
(* DBs, every interleaving of the two copies and any number of crashes.     *)
(***************************************************************************)
EXTENDS UpgradeDB, WellFoundedInduction, SequenceTheorems, TLAPS

-----------------------------------------------------------------------------
(* What the operators of the store return.                                  *)

\* A nonempty set of positions of a DB has a largest element.
LEMMA MaxOfPositions ==
  ASSUME NEW n \in Nat, NEW S, S \subseteq 1 .. n, S # {}
  PROVE  Max(S) \in S /\ \A i \in S : i <= Max(S)
<1> DEFINE R == OpToRel(<, Nat)
           T == {n - i : i \in S}
<1>1. PICK m \in T : \A y \in T : ~(<<y, m>> \in R)
  <2>1. T \subseteq Nat
    OBVIOUS
  <2>2. T # {}
    BY Zenon
  <2> HIDE DEF T, R
  <2> QED BY <2>1, <2>2, WFMin, NatLessThanWellFounded, Zenon DEF R
<1>2. PICK x \in S : m = n - x
  BY Zenon
<1>3. \A y \in S : x >= y
  <2> SUFFICES ASSUME NEW y \in S, ~(x >= y) PROVE FALSE
    BY Zenon
  <2>1. n - y \in T /\ n - y \in Nat /\ m \in Nat /\ n - y < m
    BY <1>2
  <2>2. <<n - y, m>> \in R
    BY <2>1, Zenon DEF OpToRel
  <2> QED BY <1>1, <2>1, <2>2, Zenon
<1> QED
  BY <1>3, Zenon DEF Max

\* every code of the DB is stored under its own hash
CodesWellFormed(db) ==
  \A i \in DOMAIN db : db[i].type = "1c" => db[i] = CodeWrite(db[i].code)

\* A code that was stored is the one that GetCode finds for its hash.
LEMMA GetCodeOfHash ==
  ASSUME NEW db, NEW code, CodesWellFormed(db),
         code = Nil \/ \E i \in DOMAIN db : db[i] = CodeWrite(code)
  PROVE  GetCode(db, CodeHash(code)) = code
<1>1. CASE code = Nil
  BY <1>1, Zenon DEF GetCode, EmptyCodeHash
<1>2. CASE code # Nil
  <2>1. CodeHash(code) # EmptyCodeHash
    BY <1>2, Zenon DEF CodeHash, EmptyCodeHash
  <2> DEFINE match(w) == w.type = "1c" /\ w.hash = CodeHash(code)
             found == CHOOSE w \in Range(db) : match(w)
  <2>2. \E w \in Range(db) : match(w)
    BY <1>2 DEF Range, CodeWrite
  <2>3. found \in Range(db) /\ match(found)
    BY <2>2, Zenon
  <2> HIDE DEF found
  <2>4. PICK i \in DOMAIN db : found = db[i]
    BY <2>3, Zenon DEF Range
  <2>5. CodeHash(found.code) = CodeHash(code)
    <3>1. db[i] = CodeWrite(db[i].code)
      BY <2>3, <2>4, Zenon DEF CodesWellFormed
    <3>2. db[i].hash = CodeHash(db[i].code)
      BY <3>1 DEF CodeWrite
    <3> QED BY <2>3, <2>4, <3>2, Zenon
  <2>6. found.code = code
    BY <2>5, Zenon DEF CodeHash
  <2> QED BY <2>1, <2>6, Zenon DEF GetCode, found
<1> QED BY <1>1, <1>2, Zenon

\* Two DBs give the same code for a hash that both of them have.
LEMMA SameCode ==
  ASSUME NEW db1, NEW db2, CodesWellFormed(db1), CodesWellFormed(db2), NEW hash,
         hash = EmptyCodeHash \/ (HasCode(db1, hash) /\ HasCode(db2, hash))
  PROVE  GetCode(db1, hash) = GetCode(db2, hash)
<1>1. CASE hash = EmptyCodeHash
  BY <1>1, Zenon DEF GetCode
<1>2. CASE hash # EmptyCodeHash
  <2>1. PICK i \in DOMAIN db1 : db1[i].type = "1c" /\ db1[i].hash = hash
    BY <1>2, Zenon DEF HasCode
  <2>2. PICK j \in DOMAIN db2 : db2[j].type = "1c" /\ db2[j].hash = hash
    BY <1>2, Zenon DEF HasCode
  <2> DEFINE code == db1[i].code
  <2>3. db1[i] = CodeWrite(code) /\ db2[j] = CodeWrite(db2[j].code)
    BY <2>1, <2>2, Zenon DEF CodesWellFormed
  <2>4. hash = CodeHash(code) /\ hash = CodeHash(db2[j].code)
    BY <2>1, <2>2, <2>3 DEF CodeWrite
  <2>5. db2[j].code = code
    BY <2>4 DEF CodeHash
  <2>6. db2[j] = CodeWrite(code)
    BY <2>3, <2>5, Zenon
  <2> HIDE DEF code
  <2> QED BY <2>3, <2>4, <2>6, GetCodeOfHash, Zenon
<1> QED BY <1>1, <1>2, Zenon

\* A value reads the same from two DBs that have its codes.
LEMMA SameContents ==
  ASSUME NEW db1, NEW db2, CodesWellFormed(db1), CodesWellFormed(db2), NEW rlp,
         \A hash \in HashesOf(rlp) \ {EmptyCodeHash} : HasCode(db1, hash) /\ HasCode(db2, hash)
  PROVE  SetRLP(db1, rlp) = SetRLP(db2, rlp)
<1>1. ASSUME NEW hash \in HashesOf(rlp)
      PROVE  GetCode(db1, hash) = GetCode(db2, hash)
  <2>1. hash = EmptyCodeHash \/ (HasCode(db1, hash) /\ HasCode(db2, hash))
    BY Zenon
  <2> QED BY <2>1, SameCode, Zenon
<1>2. SetAlloc(db1, rlp.InputAlloc) = SetAlloc(db2, rlp.InputAlloc)
  BY <1>1, Zenon DEF SetAlloc, HashesOf, Range
<1>3. SetAlloc(db1, rlp.OutputAlloc) = SetAlloc(db2, rlp.OutputAlloc)
  BY <1>1, Zenon DEF SetAlloc, HashesOf, Range
<1>4. SetMessage(db1, rlp.Message) = SetMessage(db2, rlp.Message)
  BY <1>1, Zenon DEF SetMessage, HashesOf
<1> QED BY <1>2, <1>3, <1>4, Zenon DEF SetRLP

-----------------------------------------------------------------------------
(* The upgrade.                                                             *)

Writes == Range(OldCodes) \union Range(OldSubstates)

Types ==
  /\ wal \in Seq(Writes)
  /\ substates \in 0 .. Len(OldSubstates)
  /\ codes \in 0 .. Len(OldCodes)
  /\ status \in {"running", "crashed", "returned"}
  /\ crashes \in 0 .. MaxCrashes

\* what this run of the command has copied is in the log; the counters of a run that
\* was cut off mean nothing
CopiedIsThere ==
  status # "crashed" =>
    /\ \A i \in 1 .. substates : \E k \in DOMAIN wal : wal[k] = OldSubstates[i]
    /\ \A i \in 1 .. codes : \E k \in DOMAIN wal : wal[k] = OldCodes[i]

AllCopied ==
  status = "returned" => substates = Len(OldSubstates) /\ codes = Len(OldCodes)

IInv == Types /\ CopiedIsThere /\ AllCopied

-----------------------------------------------------------------------------

\* The old databases, read in the order of their iterators.
LEMMA OldSeqs ==
  /\ OldSubstates \in Seq(Range(OldSubstates)) /\ OldCodes \in Seq(Range(OldCodes))
  /\ Len(OldSubstates) \in Nat /\ DOMAIN OldSubstates = 1 .. Len(OldSubstates)
  /\ Len(OldCodes) \in Nat /\ DOMAIN OldCodes = 1 .. Len(OldCodes)
  /\ \A i \in DOMAIN OldSubstates : OldSubstates[i] \in Writes
  /\ \A i \in DOMAIN OldCodes : OldCodes[i] \in Writes
<1>1. OldSubstates \in Seq(Range(OldSubstates)) /\ OldCodes \in Seq(Range(OldCodes))
  BY UpgradeAssumption, Zenon
<1>2. /\ \A i \in DOMAIN OldSubstates : OldSubstates[i] \in Writes
      /\ \A i \in DOMAIN OldCodes : OldCodes[i] \in Writes
  BY Zenon DEF Writes, Range
<1> QED BY <1>1, <1>2

\* The value of a key does not change on its way.
LEMMA CopyIsOld ==
  ASSUME NEW i \in DOMAIN OldSubstates
  PROVE  SubstateWrite(OldSubstates[i].key, OldSubstates[i].value) = OldSubstates[i]
BY UpgradeAssumption DEF Range

\* A write is a code under its hash or an old substate.
LEMMA WriteKinds ==
  ASSUME NEW write \in Writes
  PROVE  \/ /\ write.type = "1c" /\ write \in Range(OldCodes) /\ write = CodeWrite(write.code)
         \/ /\ write.type = "1s" /\ write \in Range(OldSubstates)
<1>1. CASE write \in Range(OldCodes)
  BY <1>1, UpgradeAssumption DEF CodeWrite
<1>2. CASE write \in Range(OldSubstates)
  BY <1>2, UpgradeAssumption DEF SubstateWrite
<1> QED BY <1>1, <1>2, Zenon DEF Writes

\* What is in the log stays there when it grows.
LEMMA Appended ==
  ASSUME wal \in Seq(Writes), NEW write \in Writes, wal' = Append(wal, write)
  PROVE  /\ wal' \in Seq(Writes)
         /\ \A w : (\E k \in DOMAIN wal : wal[k] = w) => \E k \in DOMAIN wal' : wal'[k] = w
         /\ \E k \in DOMAIN wal' : wal'[k] = write
<1>1. /\ wal' \in Seq(Writes) /\ Len(wal) \in Nat /\ DOMAIN wal = 1 .. Len(wal)
      /\ DOMAIN wal' = 1 .. Len(wal) + 1
      /\ \A i \in 1 .. Len(wal) : wal'[i] = wal[i]
      /\ wal'[Len(wal) + 1] = write
  OBVIOUS
<1>2. DOMAIN wal \subseteq DOMAIN wal' /\ Len(wal) + 1 \in DOMAIN wal'
  BY <1>1
<1> QED BY <1>1, <1>2, Zenon

\* Nothing has been copied at first.
LEMMA InitIInv == Init => IInv
<1> SUFFICES ASSUME Init PROVE IInv
  BY Zenon
<1>1. Types
  BY OldSeqs, UpgradeAssumption DEF Init, Types
<1>2. CopiedIsThere
  BY DEF Init, CopiedIsThere
<1> QED BY <1>1, <1>2, Zenon DEF Init, IInv, AllCopied

\* Copying a substate adds it to the log.
LEMMA CopySubstateIInv == ASSUME IInv, CopySubstate PROVE IInv'
<1> DEFINE n == substates + 1
<1>1. /\ n \in DOMAIN OldSubstates /\ n \in Nat /\ substates \in Nat /\ status = "running"
      /\ wal \in Seq(Writes)
  BY OldSeqs DEF CopySubstate, IInv, Types
<1>2. wal' = Append(wal, OldSubstates[n]) /\ OldSubstates[n] \in Writes
  BY <1>1, CopyIsOld, OldSeqs, Zenon DEF CopySubstate
<1>3. substates' = n /\ UNCHANGED <<codes, status, crashes>>
  BY Zenon DEF CopySubstate
<1> HIDE DEF n
<1>4. /\ wal' \in Seq(Writes)
      /\ \A w : (\E k \in DOMAIN wal : wal[k] = w) => \E k \in DOMAIN wal' : wal'[k] = w
      /\ \E k \in DOMAIN wal' : wal'[k] = OldSubstates[n]
  BY <1>1, <1>2, Appended, Zenon
<1>5. Types'
  BY <1>1, <1>3, <1>4, OldSeqs DEF IInv, Types
<1>6. \A i \in 1 .. n : i \in 1 .. substates \/ i = n
  BY <1>1 DEF n
<1>7. CopiedIsThere'
  BY <1>1, <1>3, <1>4, <1>6, Zenon DEF IInv, CopiedIsThere
<1> QED BY <1>1, <1>3, <1>5, <1>7, Zenon DEF IInv, AllCopied

\* Copying a code adds it to the log.
LEMMA CopyCodeIInv == ASSUME IInv, CopyCode PROVE IInv'
<1> DEFINE n == codes + 1
<1>1. /\ n \in DOMAIN OldCodes /\ n \in Nat /\ codes \in Nat /\ status = "running"
      /\ wal \in Seq(Writes)
  BY OldSeqs DEF CopyCode, IInv, Types
<1>2. wal' = Append(wal, OldCodes[n]) /\ OldCodes[n] \in Writes
  BY <1>1, OldSeqs, Zenon DEF CopyCode
<1>3. codes' = n /\ UNCHANGED <<substates, status, crashes>>
  BY Zenon DEF CopyCode
<1> HIDE DEF n
<1>4. /\ wal' \in Seq(Writes)
      /\ \A w : (\E k \in DOMAIN wal : wal[k] = w) => \E k \in DOMAIN wal' : wal'[k] = w
      /\ \E k \in DOMAIN wal' : wal'[k] = OldCodes[n]
  BY <1>1, <1>2, Appended, Zenon
<1>5. Types'
  BY <1>1, <1>3, <1>4, OldSeqs DEF IInv, Types
<1>6. \A i \in 1 .. n : i \in 1 .. codes \/ i = n
  BY <1>1 DEF n
<1>7. CopiedIsThere'
  BY <1>1, <1>3, <1>4, <1>6, Zenon DEF IInv, CopiedIsThere
<1> QED BY <1>1, <1>3, <1>5, <1>7, Zenon DEF IInv, AllCopied

\* Every action keeps the invariant; a crash or a restart makes the counters meaningless
\* or zero.
LEMMA NextIInv == IInv /\ [Next]_vars => IInv'
<1> SUFFICES ASSUME IInv, [Next]_vars PROVE IInv'
  BY Zenon
<1>1. CASE CopySubstate
  BY <1>1, CopySubstateIInv, Zenon
<1>2. CASE CopyCode
  BY <1>2, CopyCodeIInv, Zenon
<1>3. CASE Return
  BY <1>3, Zenon DEF Return, IInv, Types, CopiedIsThere, AllCopied
<1>4. CASE Rerun
  <2>1. Types'
    BY <1>4, OldSeqs DEF Rerun, IInv, Types
  <2> QED BY <1>4, <2>1 DEF Rerun, IInv, CopiedIsThere, AllCopied
<1>5. CASE Crash
  <2>1. wal' \in Seq(Writes)
    BY <1>5 DEF Crash, IInv, Types
  <2>2. Types'
    BY <1>5, <2>1, UpgradeAssumption DEF Crash, IInv, Types
  <2> QED BY <1>5, <2>2, Zenon DEF Crash, IInv, CopiedIsThere, AllCopied
<1>6. CASE UNCHANGED vars
  BY <1>6, Zenon DEF vars, IInv, Types, CopiedIsThere, AllCopied
<1> QED BY <1>1, <1>2, <1>3, <1>4, <1>5, <1>6, Zenon DEF Next, Progress

\* The invariant holds in every state of the upgrade.
LEMMA IInvHolds == Spec => []IInv
BY InitIInv, NextIInv, PTL DEF Spec

-----------------------------------------------------------------------------

\* The old DBs together are made of their own writes, and hold all of them.
LEMMA OldIsWrites ==
  /\ Old \in Seq(Writes)
  /\ \A i \in DOMAIN OldSubstates : \E k \in DOMAIN Old : Old[k] = OldSubstates[i]
<1> DEFINE nc == Len(OldCodes)
           ns == Len(OldSubstates)
<1>1. OldCodes \in Seq(Writes) /\ OldSubstates \in Seq(Writes)
  <2>1. /\ \A i \in 1 .. nc : OldCodes[i] \in Writes
        /\ \A i \in 1 .. ns : OldSubstates[i] \in Writes
    BY OldSeqs, Zenon
  <2> QED BY <2>1, OldSeqs
<1>2. Old \in Seq(Writes)
  BY <1>1 DEF Old
<1>3. /\ nc \in Nat /\ ns \in Nat
      /\ DOMAIN Old = 1 .. nc + ns
      /\ \A k \in 1 .. nc + ns : Old[k] = IF k <= nc THEN OldCodes[k] ELSE OldSubstates[k - nc]
  BY <1>1 DEF Old
<1>4. ASSUME NEW i \in DOMAIN OldSubstates
      PROVE  nc + i \in DOMAIN Old /\ Old[nc + i] = OldSubstates[i]
  <2>1. i \in 1 .. ns /\ i \in Nat
    BY OldSeqs
  <2>2. nc + i \in 1 .. nc + ns /\ ~(nc + i <= nc) /\ (nc + i) - nc = i
    BY <1>3, <2>1
  <2> HIDE DEF nc, ns
  <2> QED BY <1>3, <2>2, Zenon
<1> QED BY <1>2, <1>4, Zenon

\* Any DB made of old writes keeps its codes under their hashes, and its keys are old ones.
LEMMA MadeOfOld ==
  ASSUME NEW db \in Seq(Writes)
  PROVE  /\ CodesWellFormed(db)
         /\ \A k \in DOMAIN db : db[k].type = "1s" =>
              \E i \in DOMAIN OldSubstates : db[k] = OldSubstates[i]
         /\ \A k \in DOMAIN db : db[k].type = "1c" =>
              \E i \in DOMAIN OldCodes : db[k] = OldCodes[i]
<1>1. \A k \in DOMAIN db : db[k] \in Writes
  OBVIOUS
<1>2. CodesWellFormed(db)
  BY <1>1, WriteKinds, Zenon DEF CodesWellFormed
<1> QED BY <1>1, <1>2, WriteKinds, Zenon DEF Range

\* In such a DB a key has one value only, the old one, however often it was written.
LEMMA ValueIsOld ==
  ASSUME NEW db \in Seq(Writes), NEW i \in DOMAIN OldSubstates,
         \E k \in DOMAIN db : db[k] = OldSubstates[i]
  PROVE  StoredValue(db, OldSubstates[i].key) = DecodeValue(OldSubstates[i].value)
<1> DEFINE key == OldSubstates[i].key
           last == Max(WritesOf(db, key))
<1>1. WritesOf(db, key) \subseteq 1 .. Len(db) /\ Len(db) \in Nat
  BY DEF WritesOf
<1>2. OldSubstates[i].type = "1s"
  BY CopyIsOld DEF SubstateWrite
<1>3. WritesOf(db, key) # {}
  BY <1>2, Zenon DEF WritesOf
<1>4. last \in WritesOf(db, key)
  BY <1>1, <1>3, MaxOfPositions, Zenon
<1> HIDE DEF last
<1>5. last \in DOMAIN db /\ db[last].type = "1s" /\ db[last].key = key
  BY <1>4, Zenon DEF WritesOf
<1>6. PICK j \in DOMAIN OldSubstates : db[last] = OldSubstates[j]
  BY <1>5, MadeOfOld, Zenon
<1>7. j = i
  BY <1>5, <1>6, UpgradeAssumption, Zenon
<1> QED BY <1>6, <1>7, Zenon DEF StoredValue, last

\* A DB of old writes that has all the substates has exactly the old keys.
LEMMA KeysAreOld ==
  ASSUME NEW db \in Seq(Writes),
         \A i \in DOMAIN OldSubstates : \E k \in DOMAIN db : db[k] = OldSubstates[i]
  PROVE  StoredKeys(db) = {OldSubstates[i].key : i \in DOMAIN OldSubstates}
<1>1. \A i \in DOMAIN OldSubstates : OldSubstates[i].type = "1s"
  BY CopyIsOld DEF SubstateWrite
<1>2. ASSUME NEW k \in DOMAIN db, db[k].type = "1s"
      PROVE  \E i \in DOMAIN OldSubstates : db[k].key = OldSubstates[i].key
  BY <1>2, MadeOfOld, Zenon
<1>3. ASSUME NEW i \in DOMAIN OldSubstates
      PROVE  \E k \in DOMAIN db : db[k].type = "1s" /\ db[k].key = OldSubstates[i].key
  BY <1>1, Zenon
<1> QED BY <1>2, <1>3 DEF StoredKeys

\* A DB of old writes that has all the codes has every code of the old DB.
LEMMA CodesAreThere ==
  ASSUME NEW db \in Seq(Writes), NEW hash, HasCode(Old, hash),
         \A i \in DOMAIN OldCodes : \E k \in DOMAIN db : db[k] = OldCodes[i]
  PROVE  HasCode(db, hash)
<1>1. PICK k \in DOMAIN Old : Old[k].type = "1c" /\ Old[k].hash = hash
  BY Zenon DEF HasCode
<1>2. PICK i \in DOMAIN OldCodes : Old[k] = OldCodes[i]
  BY <1>1, MadeOfOld, OldIsWrites, Zenon
<1> QED BY <1>1, <1>2, Zenon DEF HasCode

\* When both copies are complete, each old key has its old value, and its codes are there.
LEMMA IInvComplete == IInv => UpgradeComplete
<1> SUFFICES ASSUME IInv, status = "returned"
             PROVE  /\ StoredKeys(wal) = DOMAIN OldContents
                    /\ \A key \in StoredKeys(wal) :
                         Readable(wal, key) /\ GetSubstate(wal, key) = OldContents[key]
  BY Zenon DEF UpgradeComplete
<1>1. /\ wal \in Seq(Writes)
      /\ \A i \in DOMAIN OldSubstates : \E k \in DOMAIN wal : wal[k] = OldSubstates[i]
      /\ \A i \in DOMAIN OldCodes : \E k \in DOMAIN wal : wal[k] = OldCodes[i]
  BY OldSeqs, Zenon DEF IInv, Types, CopiedIsThere, AllCopied
<1>2. /\ StoredKeys(wal) = {OldSubstates[i].key : i \in DOMAIN OldSubstates}
      /\ StoredKeys(Old) = {OldSubstates[i].key : i \in DOMAIN OldSubstates}
  BY <1>1, KeysAreOld, OldIsWrites, Zenon
<1>3. StoredKeys(wal) = DOMAIN OldContents /\ StoredKeys(wal) = StoredKeys(Old)
  BY <1>2, Zenon DEF OldContents
<1>4. ASSUME NEW key \in StoredKeys(wal)
      PROVE  Readable(wal, key) /\ GetSubstate(wal, key) = OldContents[key]
  <2>1. PICK i \in DOMAIN OldSubstates : key = OldSubstates[i].key
    BY <1>2, <1>4, Zenon
  <2> DEFINE rlp == DecodeValue(OldSubstates[i].value)
  <2>2. StoredValue(wal, key) = rlp
    BY <1>1, <2>1, ValueIsOld, Zenon
  <2>3. StoredValue(Old, key) = rlp
    BY <2>1, ValueIsOld, OldIsWrites, Zenon
  <2>4. \A hash \in HashesOf(rlp) \ {EmptyCodeHash} : HasCode(Old, hash)
    BY <1>3, <1>4, <2>3, UpgradeAssumption, Zenon DEF Readable
  <2> HIDE DEF rlp
  <2>5. \A hash \in HashesOf(rlp) \ {EmptyCodeHash} : HasCode(wal, hash)
    BY <1>1, <2>4, CodesAreThere, Zenon
  <2>6. CodesWellFormed(wal) /\ CodesWellFormed(Old)
    BY <1>1, MadeOfOld, OldIsWrites, Zenon
  <2>7. SetRLP(wal, rlp) = SetRLP(Old, rlp)
    BY <2>4, <2>5, <2>6, SameContents, Zenon
  <2>8. OldContents[key] = SetRLP(Old, rlp)
    BY <1>3, <2>3, Zenon DEF OldContents, GetSubstate
  <2> QED BY <2>2, <2>5, <2>7, <2>8, Zenon DEF Readable, GetSubstate
<1> QED BY <1>3, <1>4, Zenon

\* The log holds old substates and codes only, and the counters stay in range.
LEMMA IInvTypeOK == IInv => TypeOK
<1> SUFFICES ASSUME IInv PROVE TypeOK
  BY Zenon
<1>1. ASSUME NEW k \in DOMAIN wal
      PROVE  \/ wal[k].type = "1c" /\ wal[k] = CodeWrite(wal[k].code)
             \/ wal[k].type = "1s" /\ wal[k].key \in StoredKeys(Old)
  <2>1. wal[k] \in Writes
    BY DEF IInv, Types
  <2>2. CASE wal[k] \in Range(OldCodes)
    BY <2>2, UpgradeAssumption DEF CodeWrite
  <2>3. CASE wal[k] \in Range(OldSubstates)
    <3>1. PICK i \in DOMAIN OldSubstates : wal[k] = OldSubstates[i]
      BY <2>3, Zenon DEF Range
    <3>2. OldSubstates[i].type = "1s"
      BY CopyIsOld DEF SubstateWrite
    <3>3. StoredKeys(Old) = {OldSubstates[j].key : j \in DOMAIN OldSubstates}
      BY KeysAreOld, OldIsWrites, Zenon
    <3> QED BY <3>1, <3>2, <3>3, Zenon
  <2> QED BY <2>1, <2>2, <2>3, Zenon DEF Writes
<1> QED BY <1>1, Zenon DEF TypeOK, IInv, Types

\* The new DB only ever holds codes under their hashes and substates under old keys, and
\* neither copy runs past its iterator.
THEOREM TypeCorrect == Spec => []TypeOK
BY IInvHolds, IInvTypeOK, PTL

\* When upgrade returns, the new DB holds exactly the old substates, each readable and
\* unchanged, however the copies of substates and codes interleaved and however many
\* earlier runs were cut off, with whatever part of their log lost.
THEOREM CompleteOnReturn == Spec => []UpgradeComplete
BY IInvHolds, IInvComplete, PTL
=============================================================================
