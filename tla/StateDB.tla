------------------------------- MODULE StateDB -------------------------------
(***************************************************************************)
(* The StateDB of core/state with the recorder that was added to it: the    *)
(* maps ResearchPreAlloc, ResearchPostAlloc and ResearchBlockHashes, and    *)
(* ResearchTouched in every state object.  A StateDB is a record and a      *)
(* method is an operator from a StateDB to a StateDB, so that a handler of  *)
(* the EVM that makes several calls is their composition.                   *)
(*                                                                          *)
(* An account is its nonce, balance, code and storage.  A state object      *)
(* keeps in committed what GetCommittedState returns (pendingStorage over   *)
(* originStorage over the storage trie) and in dirty its dirtyStorage.  The *)
(* number of an account's entries in journal.dirties is the number of its   *)
(* journal entries.  Logs, refunds and access lists are left out.           *)
(***************************************************************************)
EXTENDS Integers, Sequences

CONSTANTS
  Addrs,   \* addresses
  Keys     \* storage slots of an account

NoCode == "none"
Codes == {NoCode, "code"}
ZeroStorage == [k \in Keys |-> 0]

\* tagged values: an address that the trie or a map does not have, and a nil pointer
Absent == [tag |-> "absent"]
Nil == [tag |-> "nil"]

\* types.StateAccount{}
EmptyAccount == [nonce |-> 0, balance |-> 0, code |-> NoCode, storage |-> ZeroStorage]

Nowhere == [a \in Addrs |-> Absent]

\* New: the account trie of a root, no live objects
New(trie) ==
  [trie |-> trie, stateObjects |-> Nowhere, journal |-> <<>>,
   ResearchPreAlloc |-> Nowhere, ResearchPostAlloc |-> Nowhere,
   ResearchBlockHashes |-> <<>>]

newObject(account) ==
  [nonce |-> account.nonce, balance |-> account.balance, code |-> account.code,
   committed |-> account.storage, dirty |-> <<>>,
   suicided |-> FALSE, deleted |-> FALSE, ResearchTouched |-> {}]

empty(obj) == obj.nonce = 0 /\ obj.balance = 0 /\ obj.code = NoCode

Live(obj) == obj # Absent /\ ~obj.deleted

\* research.NewSubstateAccount, with the storage given
NewSubstateAccount(obj, storage) ==
  [nonce |-> obj.nonce, balance |-> obj.balance, code |-> obj.code, storage |-> storage]

-----------------------------------------------------------------------------
(* Finding and making state objects.                                        *)

\* the object is loaded from the trie (or a snapshot of it) unless it is live
getDeletedStateObject(s, a) ==
  IF s.stateObjects[a] # Absent \/ s.trie[a] = Absent THEN s
  ELSE [s EXCEPT !.stateObjects[a] = newObject(s.trie[a])]

\* the first access of a transaction records the account, or nil if there is none
record(s, a) ==
  IF s.ResearchPreAlloc[a] # Absent THEN s
  ELSE [s EXCEPT !.ResearchPreAlloc[a] =
          IF Live(s.stateObjects[a]) THEN NewSubstateAccount(s.stateObjects[a], <<>>)
          ELSE Nil]

getStateObject(s, a) == record(getDeletedStateObject(s, a), a)

\* what the getters return, once getStateObject has run
Account(s, a) ==
  LET obj == getDeletedStateObject(s, a).stateObjects[a]
  IN IF Live(obj) THEN obj ELSE newObject(EmptyAccount)

Exist(s, a) == Live(getDeletedStateObject(s, a).stateObjects[a])

log(s, entry) == [s EXCEPT !.journal = Append(@, entry)]

\* a fresh object takes the place of what getDeletedStateObject found
replaceObject(s, a) ==
  [log(s, IF s.stateObjects[a] = Absent THEN [change |-> "create", account |-> a]
          ELSE [change |-> "reset", account |-> a, prev |-> s.stateObjects[a]])
     EXCEPT !.stateObjects[a] = newObject(EmptyAccount)]

createObject(s, a) == replaceObject(getDeletedStateObject(s, a), a)

liveOrNew(s, a) == IF Live(s.stateObjects[a]) THEN s ELSE createObject(s, a)

\* faulty variant: an object that is about to change is found without being recorded
GetOrNewUnrecorded(s, a) == liveOrNew(getDeletedStateObject(s, a), a)

GetOrNewStateObject(s, a) == liveOrNew(getStateObject(s, a), a)

\* the balance of an account that is overwritten is carried over
CreateAccount(s, a) ==
  [createObject(s, a) EXCEPT !.stateObjects[a].balance = Account(s, a).balance]

-----------------------------------------------------------------------------
(* Setters.  Those in lower case are the methods of the state object.       *)

setBalance(s, a, amount) ==
  [log(s, [change |-> "balance", account |-> a, prev |-> s.stateObjects[a].balance])
     EXCEPT !.stateObjects[a].balance = amount]

\* adding nothing to an empty account touches it
addBalance(s, a, amount) ==
  IF amount # 0 THEN setBalance(s, a, s.stateObjects[a].balance + amount)
  ELSE IF empty(s.stateObjects[a]) THEN log(s, [change |-> "touch", account |-> a])
  ELSE s

subBalance(s, a, amount) ==
  IF amount = 0 THEN s ELSE setBalance(s, a, s.stateObjects[a].balance - amount)

setNonce(s, a, nonce) ==
  [log(s, [change |-> "nonce", account |-> a, prev |-> s.stateObjects[a].nonce])
     EXCEPT !.stateObjects[a].nonce = nonce]

setCode(s, a, code) ==
  [log(s, [change |-> "code", account |-> a, prev |-> s.stateObjects[a].code])
     EXCEPT !.stateObjects[a].code = code]

SetBalance(s, a, amount) == setBalance(GetOrNewStateObject(s, a), a, amount)
AddBalance(s, a, amount) == addBalance(GetOrNewStateObject(s, a), a, amount)
SubBalance(s, a, amount) == subBalance(GetOrNewStateObject(s, a), a, amount)
SetNonce(s, a, nonce) == setNonce(GetOrNewStateObject(s, a), a, nonce)
SetCode(s, a, code) == setCode(GetOrNewStateObject(s, a), a, code)

\* GetState's value: a dirty slot first
Slot(obj, k) == IF k \in DOMAIN obj.dirty THEN obj.dirty[k] ELSE obj.committed[k]

setState(s, a, k, v) ==
  [s EXCEPT !.stateObjects[a].dirty =
     [j \in DOMAIN @ \union {k} |-> IF j = k THEN v ELSE @[j]]]

\* GetState marks the slot in ResearchTouched
touchSlot(s, a, k) == [s EXCEPT !.stateObjects[a].ResearchTouched = @ \union {k}]

touchLive(s, a, k) == IF Live(s.stateObjects[a]) THEN touchSlot(s, a, k) ELSE s

\* faulty variant: only writes mark the slot
GetStateUnmarked(s, a, k) == getStateObject(s, a)

GetState(s, a, k) == touchLive(getStateObject(s, a), a, k)

\* a value that does not change is not journaled
writeSlot(s, a, k, v) ==
  LET prev == Slot(s.stateObjects[a], k)
  IN IF prev = v THEN s
     ELSE setState(log(s, [change |-> "storage", account |-> a, key |-> k, prev |-> prev]),
                   a, k, v)

SetState(s, a, k, v) == writeSlot(touchSlot(GetOrNewStateObject(s, a), a, k), a, k, v)

markSuicided(s, a) ==
  LET obj == s.stateObjects[a]
  IN IF ~Live(obj) THEN s
     ELSE [log(s, [change |-> "suicide", account |-> a,
                   prev |-> [suicided |-> obj.suicided, balance |-> obj.balance]])
             EXCEPT !.stateObjects[a].suicided = TRUE, !.stateObjects[a].balance = 0]

Suicide(s, a) == markSuicided(getStateObject(s, a), a)

-----------------------------------------------------------------------------
(* The journal.                                                             *)

\* journalEntry.revert; s is the StateDB after the getStateObject most of them begin with
undo(s, e) ==
  CASE e.change = "create" -> [s EXCEPT !.stateObjects[e.account] = Absent]
    [] e.change = "reset" -> [s EXCEPT !.stateObjects[e.account] = e.prev]
    [] e.change = "touch" -> s
    [] e.change = "balance" -> [s EXCEPT !.stateObjects[e.account].balance = e.prev]
    [] e.change = "nonce" -> [s EXCEPT !.stateObjects[e.account].nonce = e.prev]
    [] e.change = "code" -> [s EXCEPT !.stateObjects[e.account].code = e.prev]
    [] e.change = "storage" -> setState(s, e.account, e.key, e.prev)
    [] e.change = "suicide" ->
         [s EXCEPT !.stateObjects[e.account].suicided = e.prev.suicided,
                   !.stateObjects[e.account].balance = e.prev.balance]

\* one iteration of journal.revert: the last entry is undone and dropped
revertLast(s) ==
  LET e == s.journal[Len(s.journal)]
      t == [s EXCEPT !.journal = SubSeq(@, 1, Len(@) - 1)]
  IN undo(IF e.change \in {"create", "reset", "touch"} THEN t ELSE getStateObject(t, e.account), e)

\* the keys of journal.dirties; resetObjectChange has none
dirties(s) ==
  {a \in Addrs : \E i \in 1 .. Len(s.journal) :
      s.journal[i].account = a /\ s.journal[i].change # "reset"}

-----------------------------------------------------------------------------
(* Between transactions.                                                    *)

\* the committed values of the touched slots join what was recorded
RecordedInput(s, a) ==
  LET sa == s.ResearchPreAlloc[a]
      obj == s.stateObjects[a]
  IN IF sa \in {Absent, Nil} THEN Absent
     ELSE [sa EXCEPT !.storage =
             [k \in obj.ResearchTouched \union DOMAIN @ |->
                IF k \in obj.ResearchTouched THEN obj.committed[k] ELSE @[k]]]

TouchedSlots(obj) == [k \in obj.ResearchTouched |-> Slot(obj, k)]

removed(s, a, deleteEmptyObjects) ==
  s.stateObjects[a].suicided \/ (deleteEmptyObjects /\ empty(s.stateObjects[a]))

\* stateObject.finalise
finalise(obj) ==
  [obj EXCEPT !.committed = [k \in Keys |-> Slot(obj, k)], !.dirty = <<>>,
              !.ResearchTouched = {}]

\* faulty variant: an account that is only read is left out of the output
completeInputOnly(s) ==
  [s EXCEPT !.ResearchPreAlloc = [a \in Addrs |-> RecordedInput(s, a)]]

\* the first loop: the input is completed, and is the output of what stays as it is
completeInput(s) ==
  LET input == [a \in Addrs |-> RecordedInput(s, a)]
  IN [s EXCEPT !.ResearchPreAlloc = input,
               !.ResearchPostAlloc = [a \in Addrs |-> IF input[a] # Absent THEN input[a] ELSE @[a]]]

\* the second loop: what is dirty goes into the output, or out of it
finaliseDirty(s, dirty, deleteEmptyObjects) ==
  [s EXCEPT
     !.ResearchPostAlloc = [a \in Addrs |->
         IF a \notin dirty THEN @[a]
         ELSE IF removed(s, a, deleteEmptyObjects) THEN Absent
         ELSE NewSubstateAccount(s.stateObjects[a], TouchedSlots(s.stateObjects[a]))],
     !.stateObjects = [a \in Addrs |->
         IF a \notin dirty THEN @[a]
         ELSE IF removed(s, a, deleteEmptyObjects) THEN [@[a] EXCEPT !.deleted = TRUE]
         ELSE finalise(@[a])],
     !.journal = <<>>]

Finalise(s, deleteEmptyObjects) ==
  finaliseDirty(completeInput(s), {a \in dirties(s) : s.stateObjects[a] # Absent},
                deleteEmptyObjects)

\* faulty variant: the recorded accounts of the last transaction stay
PrepareKeepsAlloc(s) ==
  [s EXCEPT !.ResearchBlockHashes = <<>>,
            !.stateObjects = [a \in Addrs |-> IF @[a] = Absent THEN Absent
                                ELSE [@[a] EXCEPT !.ResearchTouched = {}]]]

Prepare(s) ==
  [s EXCEPT !.ResearchPreAlloc = Nowhere, !.ResearchPostAlloc = Nowhere,
            !.ResearchBlockHashes = <<>>,
            !.stateObjects = [a \in Addrs |-> IF @[a] = Absent THEN Absent
                                ELSE [@[a] EXCEPT !.ResearchTouched = {}]]]

\* an account of the StateDB as a reader sees it
View(s, a) ==
  LET obj == getDeletedStateObject(s, a).stateObjects[a]
  IN IF ~Live(obj) THEN Absent
     ELSE NewSubstateAccount(obj, [k \in Keys |-> Slot(obj, k)])

Accounts(s) == [a \in Addrs |-> View(s, a)]

\* Commit: the live objects are finalised and written to the trie, and stay live
writeTrie(s) == [s EXCEPT !.trie = Accounts(s)]

Commit(s, deleteEmptyObjects) == writeTrie(Finalise(s, deleteEmptyObjects))
=============================================================================
