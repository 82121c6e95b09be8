------------------------------ MODULE UpgradeDB ------------------------------
(***************************************************************************)
(* substate-cli db upgrade (cmd/substate-cli/db/upgrade.go): two goroutines *)
(* copy the old substate DB and the old code DB, each in the order of its   *)
(* iterator, into one new DB.  Nothing orders a substate after its codes,   *)
(* so before the command returns, or after a crash, the new DB may hold     *)
(* substates that cannot be read; the properties are about the DB that is   *)
(* left when the command returns.                                           *)
(***************************************************************************)
EXTENDS SubstateStore

CONSTANTS
  OldSubstates,   \* the writes of the old substate DB, in iteration order
  OldCodes,       \* and of the old code DB
  MaxCrashes

Old == OldCodes \o OldSubstates

\* the old DBs hold substates and codes, each key once as an iterator gives them, codes
\* under their hashes, and no substate without its codes
ASSUME UpgradeAssumption ==
  /\ MaxCrashes \in Nat
  /\ OldSubstates \in Seq(Range(OldSubstates)) /\ OldCodes \in Seq(Range(OldCodes))
  /\ \A w \in Range(OldSubstates) : w = SubstateWrite(w.key, w.value)
  /\ \A w \in Range(OldCodes) : w = CodeWrite(w.code)
  /\ \A i, j \in DOMAIN OldSubstates : OldSubstates[i].key = OldSubstates[j].key => i = j
  /\ \A key \in StoredKeys(Old) : Readable(Old, key)

OldContents == [key \in StoredKeys(Old) |-> GetSubstate(Old, key)]

VARIABLES
  wal,        \* the new DB
  substates,  \* number of substates copied
  codes,      \* number of codes copied
  status,     \* of the command
  crashes

vars == <<wal, substates, codes, status, crashes>>

Init ==
  /\ wal = <<>>
  /\ substates = 0
  /\ codes = 0
  /\ status = "running"
  /\ crashes = 0

\* the first goroutine: the key "block_tx" becomes Stage1SubstateKey(block, tx), the
\* value keeps its format
CopySubstate ==
  /\ status = "running" /\ substates < Len(OldSubstates)
  /\ LET old == OldSubstates[substates + 1] IN
     wal' = Append(wal, SubstateWrite(old.key, old.value))
  /\ substates' = substates + 1
  /\ UNCHANGED <<codes, status, crashes>>

\* faulty variant: the hash of the value is the key of the previous code
CopyCodeStaleKey ==
  /\ status = "running" /\ codes < Len(OldCodes)
  /\ wal' = Append(wal, [OldCodes[codes + 1] EXCEPT !.hash = OldCodes[Max({codes, 1})].hash])
  /\ codes' = codes + 1
  /\ UNCHANGED <<substates, status, crashes>>

\* the second goroutine
CopyCode ==
  /\ status = "running" /\ codes < Len(OldCodes)
  /\ wal' = Append(wal, OldCodes[codes + 1])
  /\ codes' = codes + 1
  /\ UNCHANGED <<substates, status, crashes>>

\* faulty variant: wg is told of one goroutine only
ReturnEarly ==
  /\ status = "running" /\ substates = Len(OldSubstates)
  /\ status' = "returned"
  /\ UNCHANGED <<wal, substates, codes, crashes>>

\* wg.Wait
Return ==
  /\ status = "running" /\ substates = Len(OldSubstates) /\ codes = Len(OldCodes)
  /\ status' = "returned"
  /\ UNCHANGED <<wal, substates, codes, crashes>>

\* the process or the machine stops, or a goroutine panics; the log is not synced
Crash ==
  /\ status = "running" /\ crashes < MaxCrashes
  /\ \E n \in 0 .. Len(wal) : wal' = SubSeq(wal, 1, n)
  /\ status' = "crashed"
  /\ crashes' = crashes + 1
  /\ UNCHANGED <<substates, codes>>

\* faulty variant: the next run continues after the last entry that was put
RerunResumes ==
  /\ status = "crashed"
  /\ status' = "running"
  /\ UNCHANGED <<wal, substates, codes, crashes>>

\* the command starts again with new iterators
Rerun ==
  /\ status = "crashed"
  /\ status' = "running"
  /\ substates' = 0
  /\ codes' = 0
  /\ UNCHANGED <<wal, crashes>>

Progress == CopySubstate \/ CopyCode \/ Return \/ Rerun
Next == Progress \/ Crash

Spec == Init /\ [][Next]_vars

\* both goroutines run, and the operator runs a crashed command again
FairSpec == Spec /\ WF_vars(Progress)

-----------------------------------------------------------------------------

TypeOK ==
  /\ \A i \in DOMAIN wal :
       \/ wal[i].type = "1c" /\ wal[i] = CodeWrite(wal[i].code)
       \/ wal[i].type = "1s" /\ wal[i].key \in StoredKeys(Old)
  /\ substates \in 0 .. Len(OldSubstates)
  /\ codes \in 0 .. Len(OldCodes)
  /\ status \in {"running", "crashed", "returned"}
  /\ crashes \in 0 .. MaxCrashes

\* When upgrade returns, the new DB holds exactly the old substates, each readable and
\* unchanged, although the two copies interleave freely and earlier runs were cut off.
UpgradeComplete ==
  status = "returned" =>
    /\ StoredKeys(wal) = DOMAIN OldContents
    /\ \A key \in StoredKeys(wal) : Readable(wal, key) /\ GetSubstate(wal, key) = OldContents[key]

\* An upgrade that is rerun after each crash eventually leaves a DB in which every old
\* substate is readable for good.
EventuallyReadable ==
  <>[](\A key \in DOMAIN OldContents : HasSubstate(wal, key) /\ Readable(wal, key))
=============================================================================
