---------------------------- MODULE StateDBProofs ----------------------------
(***************************************************************************)
(* What the methods of the StateDB do to the accounts, to the journal and   *)
(* to what is recorded, and what undoing a journal entry, Finalise and the  *)
(* end of a transaction make of it.  SubstateRecorderProofs composes these  *)
(* facts into the proofs about the recorder.                                *)
(*                                                                          *)
(* Two predicates carry the argument.  Good: what is recorded of an account *)
(* is the account as it was when the transaction began, and an account that *)
(* is not recorded is still as it was.  Whole: there is a trace H that      *)
(* gives, for every length of the journal, the object of every account at   *)
(* that length, and each entry undoes its step of H.  Fit adds the frames   *)
(* of the calls under way to Whole: a frame's snapshot is a length of the   *)
(* journal, and an account that the journal reset without an entry of       *)
(* journal.dirties is one that a frame is creating.                         *)
(***************************************************************************)
EXTENDS StateDB, TLAPS

\* state objects, or their absence
Fields == {"nonce", "balance", "code", "committed", "dirty", "suicided", "deleted",
           "ResearchTouched"}
Obj(o) == o = Absent \/ Fields \subseteq DOMAIN o

\* a StateDB as far as the proof looks into it: three maps on Addrs and a journal
Shape(s) ==
  /\ s = [trie |-> s.trie, stateObjects |-> s.stateObjects, journal |-> s.journal,
          ResearchPreAlloc |-> s.ResearchPreAlloc, ResearchPostAlloc |-> s.ResearchPostAlloc,
          ResearchBlockHashes |-> s.ResearchBlockHashes]
  /\ s.trie = [a \in Addrs |-> s.trie[a]]
  /\ s.stateObjects = [a \in Addrs |-> s.stateObjects[a]]
  /\ s.ResearchPreAlloc = [a \in Addrs |-> s.ResearchPreAlloc[a]]
  /\ \A a \in Addrs : Obj(s.stateObjects[a])
  /\ \E S : s.journal \in Seq(S)

\* journal entries
Changes == {"create", "reset", "touch", "balance", "nonce", "code", "storage", "suicide"}
Entry(e, a) ==
  e.account = a /\ e.change \in Changes /\ (e.change = "reset" => Obj(e.prev))

\* journal entries are about accounts that have been recorded
Journaled(s) ==
  \A i \in 1 .. Len(s.journal) :
     /\ s.journal[i].account \in Addrs
     /\ Entry(s.journal[i], s.journal[i].account)
     /\ s.ResearchPreAlloc[s.journal[i].account] # Absent

\* what is recorded is b, and what is not recorded is still as in b
Recorded(s, b) ==
  \A a \in Addrs :
     /\ s.ResearchPreAlloc[a] = Absent => View(s, a) = b[a]
     /\ s.ResearchPreAlloc[a] = Nil => b[a] = Absent
     /\ s.ResearchPreAlloc[a] \notin {Absent, Nil} =>
          b[a] # Absent /\ s.ResearchPreAlloc[a] = [b[a] EXCEPT !.storage = <<>>]
Good(s, b) == Shape(s) /\ Journaled(s) /\ Recorded(s, b)

\* a has been recorded in the input
Has(s, a) == s.ResearchPreAlloc[a] # Absent

\* only the object of a differs, and the journal has at most one more entry, about a
Local(s, t, a) ==
  /\ t = [trie |-> t.trie, stateObjects |-> t.stateObjects, journal |-> t.journal,
          ResearchPreAlloc |-> t.ResearchPreAlloc, ResearchPostAlloc |-> t.ResearchPostAlloc,
          ResearchBlockHashes |-> t.ResearchBlockHashes]
  /\ t.trie = s.trie
  /\ t.ResearchPreAlloc = s.ResearchPreAlloc
  /\ t.stateObjects = [x \in Addrs |-> t.stateObjects[x]]
  /\ \A x \in Addrs : x # a => t.stateObjects[x] = s.stateObjects[x]
  /\ Obj(t.stateObjects[a])
  /\ \/ t.journal = s.journal
     \/ \E e : Entry(e, a) /\ t.journal = Append(s.journal, e)

-----------------------------------------------------------------------------
(* Facts about values.                                                      *)

\* Accounts, objects, nil and absence are told apart by their fields.
LEMMA Distinct ==
  /\ Absent # Nil
  /\ \A obj, st : NewSubstateAccount(obj, st) \notin {Absent, Nil}
  /\ \A acc : newObject(acc) # Absent
  /\ \A acc : newObject(acc).deleted = FALSE
<1>1. Absent # Nil
  BY Zenon DEF Absent, Nil
<1>2. \A obj, st : "nonce" \in DOMAIN NewSubstateAccount(obj, st)
  BY Zenon DEF NewSubstateAccount
<1>3. "nonce" \notin DOMAIN Absent /\ "nonce" \notin DOMAIN Nil
  BY Zenon DEF Absent, Nil
<1>4. \A acc : "nonce" \in DOMAIN newObject(acc)
  BY Zenon DEF newObject
<1>5. \A acc : newObject(acc).deleted = FALSE
  BY Zenon DEF newObject
<1> QED BY <1>1, <1>2, <1>3, <1>4, <1>5, Zenon

\* Setting a field of an object gives an object; of an absent one it does nothing.
LEMMA ExceptObj ==
  ASSUME NEW o, Obj(o), NEW x \in Fields, NEW v
  PROVE Obj([o EXCEPT ![x] = v])
<1>1. CASE o = Absent
  <2>1. DOMAIN Absent = {"tag"} /\ x # "tag"
    BY Zenon DEF Absent, Fields
  <2>2. [Absent EXCEPT ![x] = v] = Absent
    BY <2>1, Zenon DEF Absent
  <2> QED BY <1>1, <2>2, Zenon DEF Obj
<1>2. CASE Fields \subseteq DOMAIN o
  BY <1>2, Zenon DEF Obj
<1> QED BY <1>1, <1>2, Zenon DEF Obj

\* newObject makes an object.
LEMMA NewObj ==
  ASSUME NEW acc
  PROVE Obj(newObject(acc))
BY Zenon DEF Obj, Fields, newObject

\* The recorded account is the view of the account without its slots.
LEMMA RecordOfView ==
  ASSUME NEW obj, NEW st
  PROVE [NewSubstateAccount(obj, st) EXCEPT !.storage = <<>>] = NewSubstateAccount(obj, <<>>)
BY DEF NewSubstateAccount

\* A view depends on the trie and the object of the account only.
LEMMA ViewDepends ==
  ASSUME NEW s, NEW t, NEW a \in Addrs, Shape(s), Shape(t),
         s.trie[a] = t.trie[a], s.stateObjects[a] = t.stateObjects[a]
  PROVE View(s, a) = View(t, a)
<1>1. getDeletedStateObject(s, a).stateObjects[a] = getDeletedStateObject(t, a).stateObjects[a]
  BY Zenon DEF getDeletedStateObject, Shape
<1> QED BY <1>1, Zenon DEF View

-----------------------------------------------------------------------------
(* Methods of the StateDB.                                                  *)

\* Loading an object changes no view.
LEMMA LoadGood ==
  ASSUME NEW s, NEW b, NEW a \in Addrs, Good(s, b)
  PROVE /\ Good(getDeletedStateObject(s, a), b)
        /\ getDeletedStateObject(s, a).ResearchPreAlloc = s.ResearchPreAlloc
        /\ getDeletedStateObject(s, a).journal = s.journal
        /\ View(s, a) = LET obj == getDeletedStateObject(s, a).stateObjects[a]
                        IN IF ~Live(obj) THEN Absent
                           ELSE NewSubstateAccount(obj, [k \in Keys |-> Slot(obj, k)])
<1> DEFINE t == getDeletedStateObject(s, a)
<1>1. Shape(t) /\ t.trie = s.trie /\ t.journal = s.journal
      /\ t.ResearchPreAlloc = s.ResearchPreAlloc
      /\ \A x \in Addrs : x # a => t.stateObjects[x] = s.stateObjects[x]
  BY NewObj, Zenon DEF getDeletedStateObject, Good, Shape
<1>2. getDeletedStateObject(t, a).stateObjects[a] = t.stateObjects[a]
  BY Distinct, Zenon DEF getDeletedStateObject, Good, Shape
<1>3. View(t, a) = View(s, a)
  BY <1>2, Zenon DEF View
<1>4. \A x \in Addrs : View(t, x) = View(s, x)
  BY <1>1, <1>3, ViewDepends, Zenon DEF Good
<1>5. Journaled(t) /\ Recorded(t, b)
  BY <1>1, <1>4, Zenon DEF Good, Journaled, Recorded
<1> QED BY <1>1, <1>5, Zenon DEF Good, View

\* The first access records the account as it was, every other changes nothing.
LEMMA GetGood ==
  ASSUME NEW s, NEW b, NEW a \in Addrs, Good(s, b)
  PROVE /\ Good(getStateObject(s, a), b) /\ Has(getStateObject(s, a), a)
        /\ \A x \in Addrs : Has(s, x) => Has(getStateObject(s, a), x)
        /\ getStateObject(s, a).journal = s.journal
<1> DEFINE t == getDeletedStateObject(s, a)
           u == record(t, a)
<1>1. Good(t, b) /\ t.ResearchPreAlloc = s.ResearchPreAlloc /\ t.journal = s.journal
  BY LoadGood, Zenon
<1>2. getStateObject(s, a) = u
  BY Zenon DEF getStateObject
<1>3. CASE t.ResearchPreAlloc[a] # Absent
  BY <1>1, <1>2, <1>3, Zenon DEF record, Has
<1>4. CASE t.ResearchPreAlloc[a] = Absent
  <2> DEFINE sa == IF Live(t.stateObjects[a]) THEN NewSubstateAccount(t.stateObjects[a], <<>>)
                   ELSE Nil
  <2>1. u = [t EXCEPT !.ResearchPreAlloc[a] = sa]
    BY <1>4, Zenon DEF record
  <2>2. Shape(u) /\ u.trie = t.trie /\ u.stateObjects = t.stateObjects /\ u.journal = t.journal
        /\ u.ResearchPreAlloc[a] = sa
        /\ \A x \in Addrs : x # a => u.ResearchPreAlloc[x] = t.ResearchPreAlloc[x]
    <3> HIDE DEF sa
    <3> QED BY <1>1, <2>1, Zenon DEF Good, Shape
  <2>3. sa # Absent
    BY Distinct, Zenon
  <2>4. b[a] = View(s, a)
    BY <1>1, <1>4, Zenon DEF Good, Recorded
  <2>5. /\ sa = Nil => b[a] = Absent
        /\ sa # Nil => b[a] # Absent /\ sa = [b[a] EXCEPT !.storage = <<>>]
    <3> DEFINE obj == t.stateObjects[a]
               st == [k \in Keys |-> Slot(obj, k)]
    <3>1. b[a] = IF ~Live(obj) THEN Absent ELSE NewSubstateAccount(obj, st)
      BY <2>4, LoadGood, Zenon
    <3>2. NewSubstateAccount(obj, st) # Absent /\ NewSubstateAccount(obj, <<>>) # Nil
      BY Distinct, Zenon
    <3>3. [NewSubstateAccount(obj, st) EXCEPT !.storage = <<>>] = NewSubstateAccount(obj, <<>>)
      BY RecordOfView, Zenon
    <3> HIDE DEF obj, st
    <3> QED BY <3>1, <3>2, <3>3, Zenon DEF obj
  <2>6. \A x \in Addrs : View(u, x) = View(t, x)
    BY <1>1, <2>2, ViewDepends, Zenon DEF Good
  <2>7. Recorded(u, b)
    <3> HIDE DEF sa, u, t
    <3> QED BY <1>1, <2>2, <2>3, <2>5, <2>6, Zenon DEF Good, Recorded
  <2>8. Journaled(u)
    <3> HIDE DEF sa, u, t
    <3> QED BY <1>1, <2>2, <2>3, Zenon DEF Good, Journaled
  <2> HIDE DEF sa, u, t
  <2> QED BY <1>1, <1>2, <2>2, <2>3, <2>7, <2>8, Zenon DEF Good, Has
<1> QED BY <1>3, <1>4, Zenon

\* A change of a recorded account, with its journal entry, keeps the record right.
LEMMA LocalGood ==
  ASSUME NEW s, NEW t, NEW b, NEW a \in Addrs, Good(s, b), Has(s, a), Local(s, t, a)
  PROVE Good(t, b) /\ Has(t, a) /\ \A x \in Addrs : Has(s, x) => Has(t, x)
<1>1. \E S : t.journal \in Seq(S)
  <2>1. CASE t.journal = s.journal
    BY <2>1, Zenon DEF Good, Shape
  <2>2. CASE \E e : Entry(e, a) /\ t.journal = Append(s.journal, e)
    <3>1. PICK e : t.journal = Append(s.journal, e)
      BY <2>2, Zenon
    <3>2. PICK S : s.journal \in Seq(S)
      BY Zenon DEF Good, Shape
    <3>3. s.journal \in Seq(S \union {e})
      BY <3>2
    <3>4. t.journal \in Seq(S \union {e})
      BY <3>1, <3>3
    <3> QED BY <3>4, Zenon
  <2> QED BY <2>1, <2>2, Zenon DEF Local
<1>2. Shape(t)
  BY <1>1, Zenon DEF Local, Good, Shape
<1>3. Journaled(t)
  <2>1. CASE t.journal = s.journal
    BY <2>1, Zenon DEF Good, Journaled, Local
  <2>2. CASE \E e : Entry(e, a) /\ t.journal = Append(s.journal, e)
    <3>1. PICK e : Entry(e, a) /\ t.journal = Append(s.journal, e)
      BY <2>2, Zenon
    <3>2. PICK S : s.journal \in Seq(S)
      BY Zenon DEF Good, Shape
    <3>3. /\ Len(t.journal) = Len(s.journal) + 1 /\ Len(s.journal) \in Nat
          /\ t.journal[Len(t.journal)] = e
          /\ \A i \in 1 .. Len(s.journal) : t.journal[i] = s.journal[i]
      BY <3>1, <3>2
    <3>4. \A i \in 1 .. Len(t.journal) : i = Len(t.journal) \/ i \in 1 .. Len(s.journal)
      BY <3>3
    <3> QED BY <3>1, <3>3, <3>4 DEF Good, Journaled, Local, Has, Entry
  <2> QED BY <2>1, <2>2, Zenon DEF Local
<1>4. \A x \in Addrs : x # a => View(t, x) = View(s, x)
  BY <1>2, ViewDepends DEF Local, Good
<1>5. Recorded(t, b)
  BY <1>4, Zenon DEF Good, Recorded, Local, Has
<1> QED BY <1>2, <1>3, <1>5, Zenon DEF Good, Local, Has

\* what a method on account a keeps and establishes
Keeps(s, t, b, a) ==
  Good(t, b) /\ Has(t, a) /\ \A x \in Addrs : Has(s, x) => Has(t, x)

\* Methods follow one another.
LEMMA KeepsAgain ==
  ASSUME NEW s, NEW t, NEW u, NEW b, NEW a \in Addrs, NEW c \in Addrs,
         Keeps(s, t, b, a), Keeps(t, u, b, c)
  PROVE Keeps(s, u, b, a) /\ Keeps(s, u, b, c)
BY Zenon DEF Keeps

\* the object of a is replaced
Put(s, a, o) == [s EXCEPT !.stateObjects[a] = o]

\* Replacing the object of a is local, with a journal entry about a or without.
LEMMA PutLocal ==
  ASSUME NEW s, NEW b, NEW a \in Addrs, Good(s, b), NEW o, Obj(o)
  PROVE Local(s, Put(s, a, o), a)
<1> DEFINE m == [s.stateObjects EXCEPT ![a] = o]
<1>1. /\ m = [x \in Addrs |-> m[x]] /\ m[a] = o
      /\ \A x \in Addrs : x # a => m[x] = s.stateObjects[x]
  BY Zenon DEF Good, Shape
<1>2. Put(s, a, o) = [s EXCEPT !.stateObjects = m]
  BY Zenon DEF Put
<1> HIDE DEF m
<1>3. Put(s, a, o) =
        [trie |-> s.trie, stateObjects |-> m, journal |-> s.journal,
         ResearchPreAlloc |-> s.ResearchPreAlloc, ResearchPostAlloc |-> s.ResearchPostAlloc,
         ResearchBlockHashes |-> s.ResearchBlockHashes]
  BY <1>2, Zenon DEF Good, Shape
<1> QED BY <1>1, <1>3 DEF Local

\* The same for a change with its journal entry.
LEMMA PutLogLocal ==
  ASSUME NEW s, NEW b, NEW a \in Addrs, Good(s, b), NEW o, Obj(o), NEW e, Entry(e, a)
  PROVE Local(s, Put(log(s, e), a, o), a)
<1> DEFINE m == [s.stateObjects EXCEPT ![a] = o]
           j == Append(s.journal, e)
<1>1. /\ m = [x \in Addrs |-> m[x]] /\ m[a] = o
      /\ \A x \in Addrs : x # a => m[x] = s.stateObjects[x]
  BY Zenon DEF Good, Shape
<1>2. log(s, e) = [s EXCEPT !.journal = j]
  BY Zenon DEF log
<1>3. j = s.journal \/ \E d : Entry(d, a) /\ j = Append(s.journal, d)
  BY Zenon
<1> HIDE DEF m, j
<1>4. log(s, e) =
        [trie |-> s.trie, stateObjects |-> s.stateObjects, journal |-> j,
         ResearchPreAlloc |-> s.ResearchPreAlloc, ResearchPostAlloc |-> s.ResearchPostAlloc,
         ResearchBlockHashes |-> s.ResearchBlockHashes]
  BY <1>2, Zenon DEF Good, Shape
<1>5. Put(log(s, e), a, o) = [log(s, e) EXCEPT !.stateObjects = m]
  BY <1>4 DEF Put, m
<1>6. Put(log(s, e), a, o) =
        [trie |-> s.trie, stateObjects |-> m, journal |-> j,
         ResearchPreAlloc |-> s.ResearchPreAlloc, ResearchPostAlloc |-> s.ResearchPostAlloc,
         ResearchBlockHashes |-> s.ResearchBlockHashes]
  BY <1>4, <1>5
<1> QED BY <1>1, <1>3, <1>6 DEF Local

\* createObject on an account that has been recorded.
LEMMA CreateObjectGood ==
  ASSUME NEW s, NEW b, NEW a \in Addrs, Good(s, b), Has(s, a)
  PROVE Keeps(s, createObject(s, a), b, a)
<1> DEFINE t == getDeletedStateObject(s, a)
           u == replaceObject(t, a)
<1>1. Good(t, b) /\ Has(t, a) /\ \A x \in Addrs : Has(s, x) => Has(t, x)
  BY LoadGood, Zenon DEF Has
<1>2. ASSUME NEW w, Good(w, b) PROVE Local(w, replaceObject(w, a), a)
  <2> DEFINE e == IF w.stateObjects[a] = Absent THEN [change |-> "create", account |-> a]
                  ELSE [change |-> "reset", account |-> a, prev |-> w.stateObjects[a]]
             n == newObject(EmptyAccount)
  <2>1. Entry(e, a) /\ Obj(n)
    BY <1>2, NewObj, Zenon DEF Entry, Changes, Good, Shape
  <2>2. replaceObject(w, a) = Put(log(w, e), a, n)
    BY Zenon DEF replaceObject, Put
  <2> HIDE DEF e, n
  <2> QED BY <1>2, <2>1, <2>2, PutLogLocal, Zenon
<1>3. createObject(s, a) = u
  BY Zenon DEF createObject
<1> HIDE DEF t
<1>4. Local(t, u, a)
  BY <1>1, <1>2, Zenon
<1> QED BY <1>1, <1>3, <1>4, LocalGood, Zenon DEF Keeps

\* GetOrNewStateObject records the account and makes it if need be.
LEMMA GetOrNewGood ==
  ASSUME NEW s, NEW b, NEW a \in Addrs, Good(s, b)
  PROVE Keeps(s, GetOrNewStateObject(s, a), b, a)
<1> DEFINE t == getStateObject(s, a)
<1>1. Good(t, b) /\ Has(t, a) /\ Keeps(s, t, b, a)
  BY GetGood, Zenon DEF Keeps
<1>2. GetOrNewStateObject(s, a) \in {t, createObject(t, a)}
  BY Zenon DEF GetOrNewStateObject, liveOrNew
<1> HIDE DEF t
<1>3. Keeps(t, createObject(t, a), b, a)
  BY <1>1, CreateObjectGood, Zenon
<1>4. Keeps(s, createObject(t, a), b, a)
  BY <1>1, <1>3, KeepsAgain, Zenon
<1> QED BY <1>1, <1>2, <1>4, Zenon

\* CreateAccount on an account that has been recorded.
LEMMA CreateAccountGood ==
  ASSUME NEW s, NEW b, NEW a \in Addrs, Good(s, b), Has(s, a)
  PROVE Keeps(s, CreateAccount(s, a), b, a)
<1> DEFINE t == createObject(s, a)
           v == Account(s, a).balance
           u == [t EXCEPT !.stateObjects[a].balance = v]
<1>1. Good(t, b) /\ Has(t, a) /\ Keeps(s, t, b, a)
  BY CreateObjectGood, Zenon DEF Keeps
<1>2. CreateAccount(s, a) = u
  BY Zenon DEF CreateAccount
<1> HIDE DEF t, v
<1>3. Local(t, u, a)
  <2>1. u = Put(t, a, [t.stateObjects[a] EXCEPT !.balance = v])
    BY Zenon DEF Put
  <2>2. Obj([t.stateObjects[a] EXCEPT !.balance = v])
    BY <1>1, ExceptObj, Zenon DEF Good, Shape, Fields
  <2> QED BY <1>1, <2>1, <2>2, PutLocal
<1>4. Keeps(t, u, b, a)
  BY <1>1, <1>3, LocalGood, Zenon DEF Keeps
<1> QED BY <1>1, <1>2, <1>4, KeepsAgain

\* The methods of a state object change that object.
LEMMA SettersLocal ==
  ASSUME NEW s, NEW b, NEW a \in Addrs, Good(s, b), NEW v, NEW k
  PROVE /\ Local(s, setBalance(s, a, v), a)
        /\ Local(s, addBalance(s, a, v), a)
        /\ Local(s, subBalance(s, a, v), a)
        /\ Local(s, setNonce(s, a, v), a)
        /\ Local(s, setCode(s, a, v), a)
        /\ Local(s, touchSlot(s, a, k), a)
        /\ Local(s, touchLive(s, a, k), a)
        /\ Local(s, writeSlot(s, a, k, v), a)
        /\ Local(s, markSuicided(s, a), a)
<1>0. Local(s, s, a)
  BY Zenon DEF Local, Good, Shape
<1> DEFINE obj == s.stateObjects[a]
           Ent(change, prev) == [change |-> change, account |-> a, prev |-> prev]
<1>a. \A e : log(s, e).stateObjects = s.stateObjects
  BY Zenon DEF log, Good, Shape
<1>b. \A prev : \A change \in Changes \ {"reset"} : Entry(Ent(change, prev), a)
  BY Zenon DEF Entry, Changes
<1>c. \A e, o : Entry(e, a) /\ Obj(o) => Local(s, Put(log(s, e), a, o), a)
  BY PutLogLocal, Zenon
<1>d. Obj(obj)
  BY Zenon DEF Good, Shape
<1>e. \A w : \A x \in Fields : Obj([obj EXCEPT ![x] = w])
  BY <1>d, ExceptObj, Zenon
<1> HIDE DEF Ent, obj
<1>1. \A w : Local(s, setBalance(s, a, w), a)
  <2> TAKE w
  <2> DEFINE o == [obj EXCEPT !.balance = w]
             e == Ent("balance", obj.balance)
  <2>1. setBalance(s, a, w) = Put(log(s, e), a, o)
    BY <1>a, Zenon DEF setBalance, Put, Ent, obj
  <2>2. Obj(o) /\ Entry(e, a)
    BY <1>b, <1>e, Zenon DEF Fields, Changes
  <2> HIDE DEF o, e
  <2> QED BY <2>1, <2>2, <1>c, Zenon
<1>2. Local(s, log(s, [change |-> "touch", account |-> a]), a)
  <2> DEFINE e == [change |-> "touch", account |-> a]
  <2>1. Entry(e, a)
    BY Zenon DEF Entry, Changes
  <2> HIDE DEF e
  <2> SUFFICES Local(s, log(s, e), a)
    BY Zenon DEF e
  <2>2. log(s, e) = Put(log(s, e), a, obj)
    BY <1>a, Zenon DEF Put, log, Good, Shape, obj
  <2> QED BY <2>1, <2>2, <1>c, <1>d, Zenon
<1>3. Local(s, addBalance(s, a, v), a)
  BY <1>0, <1>1, <1>2, Zenon DEF addBalance
<1>4. Local(s, subBalance(s, a, v), a)
  BY <1>0, <1>1, Zenon DEF subBalance
<1>5. Local(s, setNonce(s, a, v), a)
  <2> DEFINE o == [obj EXCEPT !.nonce = v]
             e == Ent("nonce", obj.nonce)
  <2>1. setNonce(s, a, v) = Put(log(s, e), a, o)
    BY <1>a, Zenon DEF setNonce, Put, Ent, obj
  <2>2. Obj(o) /\ Entry(e, a)
    BY <1>b, <1>e, Zenon DEF Fields, Changes
  <2> HIDE DEF o, e
  <2> QED BY <2>1, <2>2, <1>c, Zenon
<1>6. Local(s, setCode(s, a, v), a)
  <2> DEFINE o == [obj EXCEPT !.code = v]
             e == Ent("code", obj.code)
  <2>1. setCode(s, a, v) = Put(log(s, e), a, o)
    BY <1>a, Zenon DEF setCode, Put, Ent, obj
  <2>2. Obj(o) /\ Entry(e, a)
    BY <1>b, <1>e, Zenon DEF Fields, Changes
  <2> HIDE DEF o, e
  <2> QED BY <2>1, <2>2, <1>c, Zenon
<1>7. Local(s, touchSlot(s, a, k), a)
  <2> DEFINE o == [obj EXCEPT !.ResearchTouched = @ \union {k}]
  <2>1. touchSlot(s, a, k) = Put(s, a, o)
    BY Zenon DEF touchSlot, Put, obj
  <2>2. Obj(o)
    BY <1>e, Zenon DEF Fields
  <2> HIDE DEF o
  <2> QED BY <2>1, <2>2, PutLocal, Zenon
<1>8. Local(s, touchLive(s, a, k), a)
  BY <1>0, <1>7, Zenon DEF touchLive
<1>9. Local(s, writeSlot(s, a, k, v), a)
  <2> DEFINE e == [change |-> "storage", account |-> a, key |-> k, prev |-> Slot(obj, k)]
             d == [j \in DOMAIN obj.dirty \union {k} |-> IF j = k THEN v ELSE obj.dirty[j]]
             o == [obj EXCEPT !.dirty = d]
  <2>1. Entry(e, a)
    BY Zenon DEF Entry, Changes
  <2>2. writeSlot(s, a, k, v) \in {s, setState(log(s, e), a, k, v)}
    BY Zenon DEF writeSlot, obj
  <2> HIDE DEF e
  <2>3. setState(log(s, e), a, k, v) = Put(log(s, e), a, o)
    BY <1>a, Zenon DEF setState, Put, obj
  <2> HIDE DEF d
  <2>4. Obj(o)
    BY <1>e, Zenon DEF Fields
  <2> HIDE DEF o
  <2> QED BY <1>0, <2>1, <2>2, <2>3, <2>4, <1>c, Zenon
<1>10. Local(s, markSuicided(s, a), a)
  <2> DEFINE e == Ent("suicide", [suicided |-> obj.suicided, balance |-> obj.balance])
             x == [log(s, e) EXCEPT !.stateObjects[a].suicided = TRUE,
                                    !.stateObjects[a].balance = 0]
             h == [obj EXCEPT !.suicided = TRUE]
             o == [h EXCEPT !.balance = 0]
  <2>1. markSuicided(s, a) \in {s, x}
    BY Zenon DEF markSuicided, Ent, obj
  <2>2. Entry(e, a)
    BY <1>b, Zenon DEF Changes
  <2> HIDE DEF e
  <2>3. x = Put(log(s, e), a, o)
    BY <1>a, Zenon DEF Put, log, Good, Shape, obj
  <2>4. Obj(h)
    BY <1>e, Zenon DEF Fields
  <2> HIDE DEF h
  <2>5. Obj(o)
    BY <2>4, ExceptObj, Zenon DEF Fields
  <2> HIDE DEF x, o
  <2> QED BY <1>0, <2>1, <2>2, <2>3, <2>5, <1>c, Zenon
<1> QED BY <1>1, <1>3, <1>4, <1>5, <1>6, <1>7, <1>8, <1>9, <1>10, Zenon

\* A local change after methods that recorded the account.
LEMMA ThenLocal ==
  ASSUME NEW s, NEW t, NEW u, NEW b, NEW a \in Addrs, Keeps(s, t, b, a), Local(t, u, a)
  PROVE Keeps(s, u, b, a)
<1>1. Keeps(t, u, b, a)
  BY LocalGood, Zenon DEF Keeps
<1> QED BY <1>1, KeepsAgain, Zenon

\* The methods of the StateDB that the EVM calls.
LEMMA MethodsGood ==
  ASSUME NEW s, NEW b, NEW a \in Addrs, Good(s, b), NEW v, NEW k
  PROVE /\ Keeps(s, getStateObject(s, a), b, a)
        /\ Keeps(s, AddBalance(s, a, v), b, a)
        /\ Keeps(s, SubBalance(s, a, v), b, a)
        /\ Keeps(s, SetNonce(s, a, v), b, a)
        /\ Keeps(s, SetCode(s, a, v), b, a)
        /\ Keeps(s, GetState(s, a, k), b, a)
        /\ Keeps(s, SetState(s, a, k, v), b, a)
        /\ Keeps(s, Suicide(s, a), b, a)
<1> DEFINE t == getStateObject(s, a)
           u == GetOrNewStateObject(s, a)
           w == touchSlot(u, a, k)
<1>1. Keeps(s, t, b, a) /\ Good(t, b)
  BY GetGood, Zenon DEF Keeps
<1>2. Keeps(s, u, b, a) /\ Good(u, b)
  BY GetOrNewGood, Zenon DEF Keeps
<1>3. /\ AddBalance(s, a, v) = addBalance(u, a, v)
      /\ SubBalance(s, a, v) = subBalance(u, a, v)
      /\ SetNonce(s, a, v) = setNonce(u, a, v)
      /\ SetCode(s, a, v) = setCode(u, a, v)
      /\ SetState(s, a, k, v) = writeSlot(w, a, k, v)
      /\ GetState(s, a, k) = touchLive(t, a, k)
      /\ Suicide(s, a) = markSuicided(t, a)
  BY Zenon DEF AddBalance, SubBalance, SetNonce, SetCode, SetState, GetState, Suicide
<1> HIDE DEF t, u
<1>4. /\ Local(u, addBalance(u, a, v), a) /\ Local(u, subBalance(u, a, v), a)
      /\ Local(u, setNonce(u, a, v), a) /\ Local(u, setCode(u, a, v), a)
      /\ Local(u, w, a)
  BY <1>2, SettersLocal, Zenon
<1>5. Local(t, touchLive(t, a, k), a) /\ Local(t, markSuicided(t, a), a)
  BY <1>1, SettersLocal, Zenon
<1> HIDE DEF w
<1>6. Keeps(s, w, b, a) /\ Good(w, b)
  BY <1>2, <1>4, ThenLocal, Zenon DEF Keeps
<1>7. Local(w, writeSlot(w, a, k, v), a)
  BY <1>6, SettersLocal, Zenon
<1>8. /\ Keeps(s, addBalance(u, a, v), b, a) /\ Keeps(s, subBalance(u, a, v), b, a)
      /\ Keeps(s, setNonce(u, a, v), b, a) /\ Keeps(s, setCode(u, a, v), b, a)
  BY <1>2, <1>4, ThenLocal, Zenon
<1>9. Keeps(s, touchLive(t, a, k), b, a) /\ Keeps(s, markSuicided(t, a), b, a)
  BY <1>1, <1>5, ThenLocal, Zenon
<1>10. Keeps(s, writeSlot(w, a, k, v), b, a)
  BY <1>6, <1>7, ThenLocal, Zenon
<1> QED BY <1>1, <1>3, <1>8, <1>9, <1>10, Zenon DEF t

\* a call under way, as the recorder keeps it
Frame == [self : Addrs, creates : BOOLEAN, snapshot : Nat, static : BOOLEAN]

\* Snapshot identifies a place in the journal.
LEMMA JournalLen ==
  ASSUME NEW s, NEW b, Good(s, b)
  PROVE Len(s.journal) \in Nat
<1>1. PICK S : s.journal \in Seq(S)
  BY Zenon DEF Good, Shape
<1> QED BY <1>1

-----------------------------------------------------------------------------
(* The journal and the ends of a transaction.                               *)

\* Undoing a journal entry changes the account that it is about.
LEMMA UndoLocal ==
  ASSUME NEW s, NEW b, Good(s, b), NEW e, NEW a \in Addrs, Entry(e, a)
  PROVE Local(s, undo(s, e), a)
<1> DEFINE obj == s.stateObjects[a]
<1>1. e.account = a /\ e.change \in Changes
  BY Zenon DEF Entry
<1>2. Obj(obj)
  BY Zenon DEF Good, Shape
<1>3. \A o : Obj(o) => Local(s, Put(s, a, o), a)
  BY PutLocal, Zenon
<1>4. \A w : \A x \in Fields : Obj([obj EXCEPT ![x] = w])
  BY <1>2, ExceptObj, Zenon
<1> HIDE DEF obj
<1>5. CASE e.change = "create"
  <2>1. undo(s, e) = Put(s, a, Absent)
    BY <1>1, <1>5, Zenon DEF undo, Put
  <2> QED BY <1>3, <2>1, Zenon DEF Obj
<1>6. CASE e.change = "reset"
  <2>1. undo(s, e) = Put(s, a, e.prev)
    BY <1>1, <1>6, Zenon DEF undo, Put
  <2> QED BY <1>3, <1>6, <2>1, Zenon DEF Entry
<1>7. CASE e.change = "touch"
  <2>1. undo(s, e) = s
    BY <1>7, Zenon DEF undo
  <2> QED BY <2>1, Zenon DEF Local, Good, Shape
<1>8. CASE e.change = "balance"
  <2> DEFINE o == [obj EXCEPT !.balance = e.prev]
  <2>1. undo(s, e) = Put(s, a, o)
    BY <1>1, <1>8, Zenon DEF undo, Put, obj
  <2>2. Obj(o)
    BY <1>4, Zenon DEF Fields
  <2> HIDE DEF o
  <2> QED BY <1>3, <2>1, <2>2, Zenon
<1>9. CASE e.change = "nonce"
  <2> DEFINE o == [obj EXCEPT !.nonce = e.prev]
  <2>1. undo(s, e) = Put(s, a, o)
    BY <1>1, <1>9, Zenon DEF undo, Put, obj
  <2>2. Obj(o)
    BY <1>4, Zenon DEF Fields
  <2> HIDE DEF o
  <2> QED BY <1>3, <2>1, <2>2, Zenon
<1>10. CASE e.change = "code"
  <2> DEFINE o == [obj EXCEPT !.code = e.prev]
  <2>1. undo(s, e) = Put(s, a, o)
    BY <1>1, <1>10, Zenon DEF undo, Put, obj
  <2>2. Obj(o)
    BY <1>4, Zenon DEF Fields
  <2> HIDE DEF o
  <2> QED BY <1>3, <2>1, <2>2, Zenon
<1>11. CASE e.change = "storage"
  <2> DEFINE d == [j \in DOMAIN obj.dirty \union {e.key} |->
                     IF j = e.key THEN e.prev ELSE obj.dirty[j]]
             o == [obj EXCEPT !.dirty = d]
  <2>1. undo(s, e) = setState(s, a, e.key, e.prev)
    BY <1>1, <1>11, Zenon DEF undo
  <2>2. setState(s, a, e.key, e.prev) = Put(s, a, o)
    BY Zenon DEF setState, Put, obj
  <2> HIDE DEF d
  <2>3. Obj(o)
    BY <1>4, Zenon DEF Fields
  <2> HIDE DEF o
  <2> QED BY <1>3, <2>1, <2>2, <2>3, Zenon
<1>12. CASE e.change = "suicide"
  <2> DEFINE h == [obj EXCEPT !.suicided = e.prev.suicided]
             o == [h EXCEPT !.balance = e.prev.balance]
  <2>1. undo(s, e) = [s EXCEPT !.stateObjects[a].suicided = e.prev.suicided,
                               !.stateObjects[a].balance = e.prev.balance]
    BY <1>1, <1>12, Zenon DEF undo
  <2>2. undo(s, e) = Put(s, a, o)
    BY <2>1, Zenon DEF Put, obj, Good, Shape
  <2>3. Obj(h)
    BY <1>4, Zenon DEF Fields
  <2> HIDE DEF h
  <2>4. Obj(o)
    BY <2>3, ExceptObj, Zenon DEF Fields
  <2> HIDE DEF o
  <2> QED BY <1>3, <2>2, <2>4, Zenon
<1> QED BY <1>1, <1>5, <1>6, <1>7, <1>8, <1>9, <1>10, <1>11, <1>12, Zenon DEF Changes

\* One iteration of journal.revert.
LEMMA RevertGood ==
  ASSUME NEW s, NEW b, Good(s, b), Len(s.journal) > 0
  PROVE Good(revertLast(s), b)
<1> DEFINE e == s.journal[Len(s.journal)]
           j == SubSeq(s.journal, 1, Len(s.journal) - 1)
           t == [s EXCEPT !.journal = j]
           a == e.account
           u == IF e.change \in {"create", "reset", "touch"} THEN t ELSE getStateObject(t, a)
<1>1. PICK S : s.journal \in Seq(S)
  BY Zenon DEF Good, Shape
<1>2. Len(s.journal) \in Nat /\ Len(s.journal) \in 1 .. Len(s.journal)
  BY <1>1
<1>3. j \in Seq(S) /\ Len(j) = Len(s.journal) - 1 /\ \A i \in 1 .. Len(j) : j[i] = s.journal[i]
  BY <1>1, <1>2
<1>4. a \in Addrs /\ Entry(e, a) /\ Has(s, a)
  BY <1>2, Zenon DEF Good, Journaled, Has
<1>5. revertLast(s) = undo(u, e)
  BY Zenon DEF revertLast
<1> HIDE DEF e, j
<1>6. /\ t = [trie |-> s.trie, stateObjects |-> s.stateObjects, journal |-> j,
              ResearchPreAlloc |-> s.ResearchPreAlloc,
              ResearchPostAlloc |-> s.ResearchPostAlloc,
              ResearchBlockHashes |-> s.ResearchBlockHashes]
  BY DEF Good, Shape
<1> HIDE DEF t
<1>7. Shape(t)
  BY <1>3, <1>6, Zenon DEF Good, Shape
<1>8. Journaled(t)
  <2>1. \A i \in 1 .. Len(j) : i \in 1 .. Len(s.journal)
    BY <1>2, <1>3
  <2> QED BY <1>3, <1>6, <2>1, Zenon DEF Good, Journaled
<1>9. \A x \in Addrs : View(t, x) = View(s, x)
  BY <1>6, <1>7, ViewDepends, Zenon DEF Good
<1>10. Good(t, b) /\ Has(t, a)
  BY <1>4, <1>6, <1>7, <1>8, <1>9, Zenon DEF Good, Recorded, Has
<1>11. Good(u, b) /\ Has(u, a)
  BY <1>4, <1>10, GetGood, Zenon
<1> HIDE DEF u, a
<1>12. Local(u, undo(u, e), a)
  BY <1>4, <1>11, UndoLocal, Zenon
<1> QED BY <1>4, <1>5, <1>11, <1>12, LocalGood, Zenon

\* A transaction begins with nothing recorded and every account as it is.
LEMMA PrepareGood ==
  ASSUME NEW s, Shape(s), s.journal = <<>>
  PROVE Good(Prepare(s), Accounts(s))
<1> DEFINE clear(o) == IF o = Absent THEN Absent ELSE [o EXCEPT !.ResearchTouched = {}]
           m == [a \in Addrs |-> clear(s.stateObjects[a])]
           t == Prepare(s)
<1>1. t = [s EXCEPT !.ResearchPreAlloc = Nowhere, !.ResearchPostAlloc = Nowhere,
                    !.ResearchBlockHashes = <<>>, !.stateObjects = m]
  BY Zenon DEF Prepare
<1>2. \A a \in Addrs : m[a] = clear(s.stateObjects[a])
  BY Zenon
<1>3. m = [a \in Addrs |-> m[a]]
  BY Zenon
<1> HIDE DEF m, t
<1>4. /\ t = [trie |-> s.trie, stateObjects |-> m, journal |-> <<>>,
              ResearchPreAlloc |-> Nowhere, ResearchPostAlloc |-> Nowhere,
              ResearchBlockHashes |-> <<>>]
  BY <1>1, Zenon DEF Shape
<1>5. \A a \in Addrs : Obj(m[a]) /\ (m[a] = Absent <=> s.stateObjects[a] = Absent)
  <2> TAKE a \in Addrs
  <2>1. Obj(s.stateObjects[a])
    BY Zenon DEF Shape
  <2>2. Obj([s.stateObjects[a] EXCEPT !.ResearchTouched = {}])
    BY <2>1, ExceptObj, Zenon DEF Fields
  <2>3. s.stateObjects[a] # Absent => [s.stateObjects[a] EXCEPT !.ResearchTouched = {}] # Absent
    <3> SUFFICES ASSUME s.stateObjects[a] # Absent
                 PROVE [s.stateObjects[a] EXCEPT !.ResearchTouched = {}] # Absent
      BY Zenon
    <3>1. "nonce" \in DOMAIN s.stateObjects[a]
      BY <2>1, Zenon DEF Obj, Fields
    <3>2. "nonce" \in DOMAIN [s.stateObjects[a] EXCEPT !.ResearchTouched = {}]
      BY <3>1, Zenon
    <3>3. "nonce" \notin DOMAIN Absent
      BY Zenon DEF Absent
    <3> QED BY <3>2, <3>3, Zenon
  <2> QED BY <1>2, <2>2, <2>3, Zenon DEF Obj
<1>6. Shape(t)
  <2>1. <<>> \in Seq({})
    OBVIOUS
  <2>2. Nowhere = [a \in Addrs |-> Nowhere[a]]
    BY Zenon DEF Nowhere
  <2> QED BY <1>3, <1>4, <1>5, <2>1, <2>2, Zenon DEF Shape
<1>7. \A a \in Addrs : View(t, a) = View(s, a)
  <2> TAKE a \in Addrs
  <2>1. CASE s.stateObjects[a] = Absent
    <3>1. m[a] = Absent
      BY <1>2, <2>1, Zenon
    <3>2. s.trie[a] = t.trie[a] /\ s.stateObjects[a] = t.stateObjects[a]
      BY <1>4, <2>1, <3>1, Zenon
    <3> QED BY <1>6, <3>2, ViewDepends, Zenon
  <2>2. CASE s.stateObjects[a] # Absent
    <3> DEFINE o == s.stateObjects[a]
               p == [o EXCEPT !.ResearchTouched = {}]
    <3>1. Fields \subseteq DOMAIN o
      BY <2>2, Zenon DEF Shape, Obj
    <3>2. /\ p.nonce = o.nonce /\ p.balance = o.balance /\ p.code = o.code
          /\ p.committed = o.committed /\ p.dirty = o.dirty /\ p.deleted = o.deleted
      BY <3>1, Zenon DEF Fields
    <3>3. getDeletedStateObject(t, a).stateObjects[a] = p /\ p # Absent
      BY <1>2, <1>4, <1>5, <2>2, Zenon DEF getDeletedStateObject
    <3>4. getDeletedStateObject(s, a).stateObjects[a] = o
      BY <2>2, Zenon DEF getDeletedStateObject
    <3> HIDE DEF o, p
    <3>5. Live(p) <=> Live(o)
      BY <2>2, <3>2, <3>3, Zenon DEF Live, o
    <3>6. [k \in Keys |-> Slot(p, k)] = [k \in Keys |-> Slot(o, k)]
      BY <3>2, Zenon DEF Slot
    <3>7. NewSubstateAccount(p, [k \in Keys |-> Slot(p, k)])
            = NewSubstateAccount(o, [k \in Keys |-> Slot(o, k)])
      BY <3>2, <3>6, Zenon DEF NewSubstateAccount
    <3> QED BY <3>3, <3>4, <3>5, <3>7, Zenon DEF View
  <2> QED BY <2>1, <2>2, Zenon
<1>8. Journaled(t)
  BY <1>4 DEF Journaled
<1>9. Recorded(t, Accounts(s))
  BY <1>4, <1>7, Distinct, Zenon DEF Recorded, Accounts, Nowhere
<1> QED BY <1>6, <1>8, <1>9, Zenon DEF Good, t

\* Finalise leaves a StateDB with an empty journal.
LEMMA FinaliseShape ==
  ASSUME NEW s, Shape(s), NEW d
  PROVE Shape(Finalise(s, d)) /\ Finalise(s, d).journal = <<>>
<1> DEFINE D == {a \in dirties(s) : s.stateObjects[a] # Absent}
           c == completeInput(s)
           m == [a \in Addrs |->
                   IF a \notin D THEN c.stateObjects[a]
                   ELSE IF removed(c, a, d) THEN [c.stateObjects[a] EXCEPT !.deleted = TRUE]
                   ELSE finalise(c.stateObjects[a])]
           n == [a \in Addrs |->
                   IF a \notin D THEN c.ResearchPostAlloc[a]
                   ELSE IF removed(c, a, d) THEN Absent
                   ELSE NewSubstateAccount(c.stateObjects[a], TouchedSlots(c.stateObjects[a]))]
           input == [a \in Addrs |-> RecordedInput(s, a)]
           output == [a \in Addrs |->
                        IF input[a] # Absent THEN input[a] ELSE s.ResearchPostAlloc[a]]
<1>1. /\ c = [s EXCEPT !.ResearchPreAlloc = input, !.ResearchPostAlloc = output]
      /\ input = [a \in Addrs |-> input[a]]
  BY Zenon DEF completeInput
<1>2. Finalise(s, d) =
        [c EXCEPT !.ResearchPostAlloc = n, !.stateObjects = m, !.journal = <<>>]
  BY Zenon DEF Finalise, finaliseDirty
<1> HIDE DEF D, c, input, output
<1>3. c = [trie |-> s.trie, stateObjects |-> s.stateObjects, journal |-> s.journal,
           ResearchPreAlloc |-> input, ResearchPostAlloc |-> output,
           ResearchBlockHashes |-> s.ResearchBlockHashes]
  BY <1>1, Zenon DEF Shape
<1>4. m = [a \in Addrs |-> m[a]] /\ \A a \in Addrs : Obj(m[a])
  <2>1. m = [a \in Addrs |-> m[a]]
    BY Zenon
  <2>2. ASSUME NEW a \in Addrs PROVE Obj(m[a])
    <3> DEFINE o == c.stateObjects[a]
               x == [o EXCEPT !.committed = [k \in Keys |-> Slot(o, k)]]
               y == [x EXCEPT !.dirty = <<>>]
    <3>1. Obj(o)
      BY <1>3, <2>2, Zenon DEF Shape
    <3>2. finalise(o) = [y EXCEPT !.ResearchTouched = {}]
      BY Zenon DEF finalise
    <3>3. m[a] \in {o, [o EXCEPT !.deleted = TRUE], finalise(o)}
      BY <2>2, Zenon
    <3> HIDE DEF m, o
    <3>4. Obj([o EXCEPT !.deleted = TRUE]) /\ Obj(x)
      BY <3>1, ExceptObj, Zenon DEF Fields
    <3> HIDE DEF x
    <3>5. Obj(y)
      BY <3>4, ExceptObj, Zenon DEF Fields
    <3> HIDE DEF y
    <3>6. Obj(finalise(o))
      BY <3>2, <3>5, ExceptObj DEF Fields
    <3> QED BY <3>1, <3>3, <3>4, <3>6, Zenon
  <2> QED BY <2>1, <2>2, Zenon
<1> HIDE DEF m, n
<1>5. Finalise(s, d) =
        [trie |-> s.trie, stateObjects |-> m, journal |-> <<>>,
         ResearchPreAlloc |-> input, ResearchPostAlloc |-> n,
         ResearchBlockHashes |-> s.ResearchBlockHashes]
  BY <1>2, <1>3, Zenon
<1>6. <<>> \in Seq({})
  OBVIOUS
<1> QED BY <1>1, <1>4, <1>5, <1>6 DEF Shape

\* between transactions, of the StateDB of the block
Between(s) == Shape(s) /\ s.journal = <<>>

\* A new StateDB is one between transactions.
LEMMA NewBetween ==
  ASSUME NEW trie, trie = [a \in Addrs |-> trie[a]]
  PROVE Between(New(trie))
<1>1. Nowhere = [a \in Addrs |-> Nowhere[a]] /\ \A a \in Addrs : Nowhere[a] = Absent
  BY Zenon DEF Nowhere
<1>2. <<>> \in Seq({})
  OBVIOUS
<1> QED BY <1>1, <1>2, Zenon DEF Between, Shape, New, Obj

-----------------------------------------------------------------------------
(* What the objects of a transaction have in common.                        *)

\* the object of an account, loaded from the trie if it has not been
Found(s, a) == getDeletedStateObject(s, a).stateObjects[a]

\* an object as far as a transaction can tell; o may have more touched slots than h
Same(o, h) ==
  /\ Live(o) <=> Live(h)
  /\ Live(h) =>
       /\ o.nonce = h.nonce /\ o.balance = h.balance /\ o.code = h.code
       /\ o.committed = h.committed /\ o.suicided = h.suicided
       /\ \A k \in Keys : Slot(o, k) = Slot(h, k)
       /\ h.ResearchTouched \subseteq o.ResearchTouched /\ o.ResearchTouched \subseteq Keys

\* an account that had storage: nothing can be created in its place
Pinned(old) == old # Absent /\ \E k \in Keys : old.storage[k] # 0

\* what holds of every object of an account that was old when the transaction began
Fits(h, old) ==
  /\ old # Absent => Live(h)
  /\ Live(h) =>
       /\ \A k \in Keys : k \notin h.ResearchTouched => Slot(h, k) = h.committed[k]
       /\ \A k \in Keys : h.committed[k] = IF old = Absent THEN 0 ELSE old.storage[k]
       /\ Pinned(old) => h.code = old.code
                         /\ (old.code = NoCode => \A k \in Keys : Slot(h, k) = old.storage[k])

\* journalEntry.revert on the object of the entry's account
Undone(o, e) ==
  CASE e.change = "create" -> Absent
    [] e.change = "reset" -> e.prev
    [] e.change = "touch" -> o
    [] e.change = "balance" -> [o EXCEPT !.balance = e.prev]
    [] e.change = "nonce" -> [o EXCEPT !.nonce = e.prev]
    [] e.change = "code" -> [o EXCEPT !.code = e.prev]
    [] e.change = "storage" ->
         [o EXCEPT !.dirty = [j \in DOMAIN @ \union {e.key} |->
                                IF j = e.key THEN e.prev ELSE @[j]]]
    [] e.change = "suicide" -> [o EXCEPT !.suicided = e.prev.suicided, !.balance = e.prev.balance]

\* undoing e takes an object like h back to one like g; acc is the account in the trie
Undoes(e, h, g, acc) ==
  /\ \A o : Obj(o) /\ Same(o, h) => Same(Undone(o, e), g)
  /\ e.change = "create" => acc = Absent
  /\ e.change = "reset" => e.prev # Absent

\* The other fields of an object stay as they are when one is set.
LEMMA FieldsKept ==
  ASSUME NEW o, Fields \subseteq DOMAIN o, NEW x \in Fields, NEW v
  PROVE /\ [o EXCEPT ![x] = v][x] = v
        /\ \A y \in Fields : y # x => [o EXCEPT ![x] = v][y] = o[y]
        /\ [o EXCEPT ![x] = v] # Absent
<1>1. "nonce" \in DOMAIN [o EXCEPT ![x] = v]
  BY Zenon DEF Fields
<1>2. "nonce" \notin DOMAIN Absent
  BY Zenon DEF Absent
<1>3. \A y \in Fields : y # x => [o EXCEPT ![x] = v][y] = o[y]
  BY Zenon
<1> QED BY <1>1, <1>2, <1>3, Zenon

\* Being the same is transitive.
LEMMA SameTrans ==
  ASSUME NEW p, NEW o, NEW h, Same(p, o), Same(o, h)
  PROVE Same(p, h)
BY Zenon DEF Same

\* What fits an object fits a later version of it.
LEMMA SameFits ==
  ASSUME NEW o, NEW h, NEW old, Same(o, h), Fits(h, old)
  PROVE Fits(o, old)
<1>1. CASE Live(h)
  <2>1. \A k \in Keys : k \notin o.ResearchTouched => Slot(o, k) = o.committed[k]
    BY <1>1, Zenon DEF Same, Fits
  <2>2. \A k \in Keys : o.committed[k] = IF old = Absent THEN 0 ELSE old.storage[k]
    BY <1>1, Zenon DEF Same, Fits
  <2>3. Pinned(old) => o.code = old.code
          /\ (old.code = NoCode => \A k \in Keys : Slot(o, k) = old.storage[k])
    BY <1>1, Zenon DEF Same, Fits
  <2>4. Live(o)
    BY <1>1, Zenon DEF Same
  <2> QED BY <2>1, <2>2, <2>3, <2>4, Zenon DEF Fits
<1>2. CASE ~Live(h)
  BY <1>2, Zenon DEF Same, Fits
<1> QED BY <1>1, <1>2, Zenon

\* An object whose journaled fields are the same as those of another.
LEMMA SameFields ==
  ASSUME NEW o, NEW h, Live(o), Live(h),
         o.nonce = h.nonce, o.balance = h.balance, o.code = h.code,
         o.committed = h.committed, o.suicided = h.suicided,
         \A k \in Keys : Slot(o, k) = Slot(h, k),
         h.ResearchTouched \subseteq o.ResearchTouched, o.ResearchTouched \subseteq Keys
  PROVE Same(o, h)
BY Zenon DEF Same

\* Slots depend on two fields.
LEMMA SlotFields ==
  ASSUME NEW o, NEW h, o.dirty = h.dirty, o.committed = h.committed
  PROVE \A k : Slot(o, k) = Slot(h, k)
BY Zenon DEF Slot

\* a change of an object from o to p with its journal entry e
Change(e, o, p, old, acc) ==
  Obj(p) /\ Live(p) /\ Same(p, p) /\ Fits(p, old) /\ Undoes(e, p, o, acc)

\* an object that changes
Current(o, old) == Fields \subseteq DOMAIN o /\ Live(o) /\ Same(o, o) /\ Fits(o, old)

\* A live object is there.
LEMMA LiveFields ==
  ASSUME NEW o, Obj(o), Live(o)
  PROVE Fields \subseteq DOMAIN o
BY Zenon DEF Obj, Live

\* setBalance, setNonce or setCode with the journal entry; code is set for accounts that
\* had no storage only.
LEMMA FieldChange ==
  ASSUME NEW o, NEW old, NEW acc, NEW v, NEW e, Current(o, old),
         NEW x \in {"balance", "nonce", "code"}, e.change = x, e.prev = o[x],
         x = "code" => ~Pinned(old)
  PROVE Change(e, o, [o EXCEPT ![x] = v], old, acc)
<1> DEFINE p == [o EXCEPT ![x] = v]
<1>1. Fields \subseteq DOMAIN o /\ Live(o) /\ Same(o, o) /\ Fits(o, old) /\ x \in Fields
  BY Zenon DEF Current, Fields
<1>2. p[x] = v /\ p # Absent /\ \A y \in Fields : y # x => p[y] = o[y]
  BY <1>1, FieldsKept, Zenon
<1>3. Obj(p)
  BY <1>1, ExceptObj, Zenon DEF Obj
<1> HIDE DEF p
<1>4. /\ p.dirty = o.dirty /\ p.committed = o.committed /\ p.suicided = o.suicided
      /\ p.deleted = o.deleted /\ p.ResearchTouched = o.ResearchTouched
      /\ x # "code" => p.code = o.code
  BY <1>2, Zenon DEF Fields
<1>5. Live(p)
  BY <1>1, <1>2, <1>4, Zenon DEF Live
<1>6. \A k : Slot(p, k) = Slot(o, k)
  BY <1>4, SlotFields, Zenon
<1>7. p.ResearchTouched \subseteq Keys
  BY <1>1, <1>4, Zenon DEF Same
<1>8. Same(p, p)
  BY <1>5, <1>7, Zenon DEF Same
<1>9. Fits(p, old)
  BY <1>1, <1>4, <1>5, <1>6, Zenon DEF Fits
<1>10. ASSUME NEW q, Obj(q), Same(q, p) PROVE Same([q EXCEPT ![x] = o[x]], o)
  <2> DEFINE r == [q EXCEPT ![x] = o[x]]
  <2>1. Live(q) /\ Fields \subseteq DOMAIN q
    BY <1>5, <1>10, LiveFields, Zenon DEF Same
  <2>2. r[x] = o[x] /\ r # Absent /\ \A y \in Fields : y # x => r[y] = q[y]
    BY <1>1, <2>1, FieldsKept, Zenon
  <2> HIDE DEF r
  <2>3. /\ r.dirty = q.dirty /\ r.committed = q.committed /\ r.deleted = q.deleted
        /\ r.ResearchTouched = q.ResearchTouched
    BY <2>2, Zenon DEF Fields
  <2>4. Live(r)
    BY <2>1, <2>2, <2>3, Zenon DEF Live
  <2>5. \A k \in Keys : Slot(r, k) = Slot(o, k)
    <3>1. \A k : Slot(r, k) = Slot(q, k)
      BY <2>3, SlotFields, Zenon
    <3> QED BY <1>5, <1>6, <1>10, <3>1, Zenon DEF Same
  <2>6. \A y \in {"nonce", "balance", "code", "committed", "suicided"} : y # x => q[y] = o[y]
    BY <1>2, <1>5, <1>10, Zenon DEF Same, Fields
  <2>7. \A y \in {"nonce", "balance", "code", "committed", "suicided"} : r[y] = o[y]
    BY <2>2, <2>6, Zenon DEF Fields
  <2>8. o.ResearchTouched \subseteq r.ResearchTouched /\ r.ResearchTouched \subseteq Keys
    BY <1>4, <1>5, <1>10, <2>3, Zenon DEF Same
  <2> QED BY <1>1, <2>4, <2>5, <2>7, <2>8, SameFields, Zenon DEF r
<1>11. \A q : Undone(q, e) = [q EXCEPT ![x] = o[x]]
  <2>1. CASE x = "balance"
    BY <2>1, Zenon DEF Undone
  <2>2. CASE x = "nonce"
    BY <2>2, Zenon DEF Undone
  <2>3. CASE x = "code"
    BY <2>3, Zenon DEF Undone
  <2> QED BY <2>1, <2>2, <2>3, Zenon
<1>12. Undoes(e, p, o, acc)
  BY <1>10, <1>11, Zenon DEF Undoes
<1> QED BY <1>3, <1>5, <1>8, <1>9, <1>12, Zenon DEF Change, p

\* Touching an empty account.
LEMMA TouchChange ==
  ASSUME NEW o, NEW old, NEW acc, NEW e, Current(o, old), e.change = "touch"
  PROVE Change(e, o, o, old, acc)
<1>1. \A q : Undone(q, e) = q
  BY Zenon DEF Undone
<1> QED BY <1>1, Zenon DEF Change, Current, Undoes, Obj

\* a fresh object, with the balance that was there before
Fresh(v) == [newObject(EmptyAccount) EXCEPT !.balance = v]

\* A fresh object takes the place of an account that had no storage.
LEMMA FreshChange ==
  ASSUME NEW o, NEW old, NEW acc, NEW e, NEW v, Same(o, o), ~Pinned(old),
         \/ e.change = "create" /\ o = Absent /\ acc = Absent
         \/ e.change = "reset" /\ o # Absent /\ e.prev = o
  PROVE Change(e, o, Fresh(v), old, acc)
<1> DEFINE p == Fresh(v)
<1>1. p = [nonce |-> 0, balance |-> v, code |-> NoCode, committed |-> ZeroStorage,
           dirty |-> <<>>, suicided |-> FALSE, deleted |-> FALSE, ResearchTouched |-> {}]
  <2> DEFINE n == newObject(EmptyAccount)
  <2>1. n = [nonce |-> 0, balance |-> 0, code |-> NoCode, committed |-> ZeroStorage,
             dirty |-> <<>>, suicided |-> FALSE, deleted |-> FALSE, ResearchTouched |-> {}]
    BY Zenon DEF newObject, EmptyAccount
  <2> HIDE DEF n
  <2> SUFFICES p = [n EXCEPT !.balance = v]
    BY <2>1
  <2> QED BY Zenon DEF Fresh, n
<1> HIDE DEF p
<1>a. /\ p.code = NoCode /\ p.committed = ZeroStorage /\ p.dirty = <<>>
      /\ p.deleted = FALSE /\ p.ResearchTouched = {}
  BY <1>1, Zenon
<1>2. Obj(p) /\ p # Absent
  <2>1. "nonce" \in DOMAIN p /\ "nonce" \notin DOMAIN Absent
    BY <1>1, Zenon DEF Absent
  <2> QED BY <1>1, <2>1, Zenon DEF Obj, Fields
<1>3. Live(p)
  BY <1>a, <1>2, Zenon DEF Live
<1>4. \A k \in Keys : p.committed[k] = 0 /\ Slot(p, k) = 0
  <2>1. \A k : k \notin DOMAIN <<>>
    OBVIOUS
  <2> QED BY <1>a, <2>1, Zenon DEF Slot, ZeroStorage
<1>5. Same(p, p)
  BY <1>a, <1>3, Zenon DEF Same
<1>6. Fits(p, old)
  BY <1>a, <1>3, <1>4, Zenon DEF Fits, Pinned
<1>7. \A q : Undone(q, e) = o
  BY Zenon DEF Undone
<1> QED BY <1>2, <1>3, <1>5, <1>6, <1>7, Zenon DEF Change, Undoes, p

\* the dirty slots after one is set
Written(dirty, k, v) == [j \in DOMAIN dirty \union {k} |-> IF j = k THEN v ELSE dirty[j]]

\* p differs from o in slot k, which is v
Wrote(p, o, k, v) ==
  /\ Slot(p, k) = v /\ \A j : j # k => Slot(p, j) = Slot(o, j)
  /\ p.nonce = o.nonce /\ p.balance = o.balance /\ p.code = o.code
  /\ p.committed = o.committed /\ p.suicided = o.suicided
  /\ p.ResearchTouched = o.ResearchTouched
  /\ p # Absent /\ p.deleted = o.deleted

\* Setting a slot changes this slot.
LEMMA WrittenSlot ==
  ASSUME NEW o, Fields \subseteq DOMAIN o, NEW k, NEW v
  PROVE Wrote([o EXCEPT !.dirty = Written(o.dirty, k, v)], o, k, v)
<1> DEFINE p == [o EXCEPT !.dirty = Written(o.dirty, k, v)]
<1> DEFINE d == Written(o.dirty, k, v)
<1>1. DOMAIN d = DOMAIN o.dirty \union {k}
  BY Zenon DEF Written
<1>2. d[k] = v /\ \A j \in DOMAIN o.dirty : j # k => d[j] = o.dirty[j]
  BY Zenon DEF Written
<1> HIDE DEF d
<1>3. p.dirty = d /\ p # Absent /\ \A y \in Fields : y # "dirty" => p[y] = o[y]
  BY FieldsKept, Zenon DEF d, Fields
<1> HIDE DEF p
<1>4. /\ p.nonce = o.nonce /\ p.balance = o.balance /\ p.code = o.code
      /\ p.committed = o.committed /\ p.suicided = o.suicided
      /\ p.ResearchTouched = o.ResearchTouched /\ p.deleted = o.deleted
  BY <1>3, Zenon DEF Fields
<1>5. Slot(p, k) = v
  BY <1>1, <1>2, <1>3, Zenon DEF Slot
<1>6. ASSUME NEW j, j # k PROVE Slot(p, j) = Slot(o, j)
  <2>1. j \in DOMAIN p.dirty <=> j \in DOMAIN o.dirty
    BY <1>1, <1>3, <1>6, Zenon
  <2>2. j \in DOMAIN o.dirty => p.dirty[j] = o.dirty[j]
    BY <1>2, <1>3, <1>6, Zenon
  <2>3. p.committed[j] = o.committed[j]
    BY <1>4, Zenon
  <2> QED BY <2>1, <2>2, <2>3 DEF Slot
<1> QED BY <1>3, <1>4, <1>5, <1>6, Zenon DEF Wrote, p

\* SetState with its journal entry, on a slot that is touched.  Nobody writes to an account
\* that had storage and no code.
LEMMA SlotChange ==
  ASSUME NEW o, NEW old, NEW acc, NEW k \in Keys, NEW v, NEW e, Current(o, old),
         e.change = "storage", e.key = k, e.prev = Slot(o, k), k \in o.ResearchTouched,
         Pinned(old) => old.code # NoCode
  PROVE Change(e, o, [o EXCEPT !.dirty = Written(o.dirty, k, v)], old, acc)
<1> DEFINE p == [o EXCEPT !.dirty = Written(o.dirty, k, v)]
<1>1. Fields \subseteq DOMAIN o /\ Live(o) /\ Same(o, o) /\ Fits(o, old)
  BY Zenon DEF Current
<1>2. Obj(p)
  BY <1>1, ExceptObj, Zenon DEF Obj, Fields
<1>3. Wrote(p, o, k, v)
  BY <1>1, WrittenSlot, Zenon
<1> HIDE DEF p
<1>4. Live(p)
  BY <1>1, <1>3, Zenon DEF Live, Wrote
<1>5. p.ResearchTouched \subseteq Keys
  BY <1>1, <1>3, Zenon DEF Same, Wrote
<1>6. Same(p, p)
  BY <1>4, <1>5, Zenon DEF Same
<1>7. Fits(p, old)
  BY <1>1, <1>3, <1>4, Zenon DEF Fits, Wrote
<1>8. ASSUME NEW q, Obj(q), Same(q, p)
      PROVE Same([q EXCEPT !.dirty = Written(q.dirty, k, Slot(o, k))], o)
  <2> DEFINE r == [q EXCEPT !.dirty = Written(q.dirty, k, Slot(o, k))]
  <2>1. Live(q) /\ Fields \subseteq DOMAIN q
    BY <1>4, <1>8, LiveFields, Zenon DEF Same
  <2>2. Wrote(r, q, k, Slot(o, k))
    BY <2>1, WrittenSlot, Zenon
  <2> HIDE DEF r
  <2>3. Live(r)
    BY <2>1, <2>2, Zenon DEF Live, Wrote
  <2>4. \A j \in Keys : Slot(r, j) = Slot(o, j)
    BY <1>3, <1>4, <1>8, <2>2, Zenon DEF Same, Wrote
  <2>5. /\ r.nonce = o.nonce /\ r.balance = o.balance /\ r.code = o.code
        /\ r.committed = o.committed /\ r.suicided = o.suicided
        /\ o.ResearchTouched \subseteq r.ResearchTouched /\ r.ResearchTouched \subseteq Keys
    BY <1>3, <1>4, <1>8, <2>2, Zenon DEF Same, Wrote
  <2> QED BY <1>1, <2>3, <2>4, <2>5, SameFields, Zenon DEF r
<1>9. \A q : Undone(q, e) = [q EXCEPT !.dirty = Written(q.dirty, k, Slot(o, k))]
  BY Zenon DEF Undone, Written
<1>10. Undoes(e, p, o, acc)
  BY <1>8, <1>9, Zenon DEF Undoes
<1> QED BY <1>2, <1>4, <1>6, <1>7, <1>10, Zenon DEF Change, p

\* the two fields that Suicide sets
Killed(o, suicided, balance) == [[o EXCEPT !.suicided = suicided] EXCEPT !.balance = balance]
Kills(p, o, suicided, balance) ==
  /\ p.suicided = suicided /\ p.balance = balance /\ p.nonce = o.nonce /\ p.code = o.code
  /\ p.committed = o.committed /\ p.dirty = o.dirty
  /\ p.ResearchTouched = o.ResearchTouched
  /\ p # Absent /\ p.deleted = o.deleted /\ Obj(p)

\* Suicide sets two fields.
LEMMA KilledFields ==
  ASSUME NEW o, Fields \subseteq DOMAIN o, NEW u, NEW v
  PROVE Kills(Killed(o, u, v), o, u, v)
<1> DEFINE h == [o EXCEPT !.suicided = u]
           p == [h EXCEPT !.balance = v]
<1>1. h.suicided = u /\ \A y \in Fields : y # "suicided" => h[y] = o[y]
  BY FieldsKept, Zenon DEF Fields
<1>2. Fields \subseteq DOMAIN h
  BY Zenon
<1> HIDE DEF h
<1>3. p.balance = v /\ p # Absent /\ \A y \in Fields : y # "balance" => p[y] = h[y]
  BY <1>2, FieldsKept, Zenon DEF Fields
<1>4. Fields \subseteq DOMAIN p
  BY <1>2, Zenon
<1> HIDE DEF p
<1>5. /\ p.suicided = u /\ p.balance = v /\ p.nonce = o.nonce /\ p.code = o.code
      /\ p.committed = o.committed /\ p.dirty = o.dirty
      /\ p.ResearchTouched = o.ResearchTouched /\ p.deleted = o.deleted
  BY <1>1, <1>3, Zenon DEF Fields
<1> QED BY <1>3, <1>4, <1>5, Zenon DEF Killed, Kills, p, h, Obj

\* Suicide with its journal entry.
LEMMA SuicideChange ==
  ASSUME NEW o, NEW old, NEW acc, NEW e, NEW u, NEW v, Current(o, old), e.change = "suicide",
         e.prev = [suicided |-> o.suicided, balance |-> o.balance]
  PROVE Change(e, o, Killed(o, u, v), old, acc)
<1> DEFINE p == Killed(o, u, v)
<1>1. Fields \subseteq DOMAIN o /\ Live(o) /\ Same(o, o) /\ Fits(o, old)
  BY Zenon DEF Current
<1>a. Kills(p, o, u, v)
  BY <1>1, KilledFields, Zenon
<1> HIDE DEF p
<1>2. /\ p.nonce = o.nonce /\ p.code = o.code
      /\ p.committed = o.committed /\ p.dirty = o.dirty
      /\ p.ResearchTouched = o.ResearchTouched
      /\ p # Absent /\ p.deleted = o.deleted /\ Obj(p)
  BY <1>a, Zenon DEF Kills
<1>4. Live(p)
  BY <1>1, <1>2, Zenon DEF Live
<1>5. p.ResearchTouched \subseteq Keys
  BY <1>1, <1>2, Zenon DEF Same
<1>6. Same(p, p)
  BY <1>4, <1>5, Zenon DEF Same
<1>7. \A k : Slot(p, k) = Slot(o, k)
  BY <1>2, SlotFields, Zenon
<1>8. Fits(p, old)
  BY <1>1, <1>2, <1>4, <1>7, Zenon DEF Fits
<1>9. ASSUME NEW q, Obj(q), Same(q, p) PROVE Same(Killed(q, o.suicided, o.balance), o)
  <2> DEFINE r == Killed(q, o.suicided, o.balance)
  <2>1. Live(q) /\ Fields \subseteq DOMAIN q
    BY <1>4, <1>9, LiveFields, Zenon DEF Same
  <2>a. Kills(r, q, o.suicided, o.balance)
    BY <2>1, KilledFields, Zenon
  <2> HIDE DEF r
  <2>2. /\ r.suicided = o.suicided /\ r.balance = o.balance
        /\ r.nonce = q.nonce /\ r.code = q.code
        /\ r.committed = q.committed /\ r.dirty = q.dirty
        /\ r.ResearchTouched = q.ResearchTouched
        /\ r # Absent /\ r.deleted = q.deleted
    BY <2>a, Zenon DEF Kills
  <2>3. Live(r)
    BY <2>1, <2>2, Zenon DEF Live
  <2>4. \A k : Slot(r, k) = Slot(q, k)
    BY <2>2, SlotFields, Zenon
  <2>5. \A k \in Keys : Slot(r, k) = Slot(o, k)
    BY <1>4, <1>7, <1>9, <2>4, Zenon DEF Same
  <2>6. /\ r.nonce = o.nonce /\ r.code = o.code /\ r.committed = o.committed
        /\ o.ResearchTouched \subseteq r.ResearchTouched /\ r.ResearchTouched \subseteq Keys
    BY <1>2, <1>4, <1>9, <2>2, Zenon DEF Same
  <2> QED BY <1>1, <2>2, <2>3, <2>5, <2>6, SameFields, Zenon DEF r
<1>10. \A q : Undone(q, e) = Killed(q, o.suicided, o.balance)
  <2>1. e.prev.suicided = o.suicided /\ e.prev.balance = o.balance
    OBVIOUS
  <2> QED BY <2>1, Zenon DEF Undone, Killed
<1>11. Undoes(e, p, o, acc)
  BY <1>9, <1>10, Zenon DEF Undoes
<1> QED BY <1>2, <1>4, <1>6, <1>8, <1>11, Zenon DEF Change, p

\* GetState marks a slot, which is no change.
LEMMA TouchedSame ==
  ASSUME NEW o, Obj(o), Same(o, o), NEW k \in Keys
  PROVE /\ Same([o EXCEPT !.ResearchTouched = @ \union {k}], o)
        /\ Obj([o EXCEPT !.ResearchTouched = @ \union {k}])
        /\ Live(o) => k \in [o EXCEPT !.ResearchTouched = @ \union {k}].ResearchTouched
<1> DEFINE p == [o EXCEPT !.ResearchTouched = @ \union {k}]
<1>1. Obj(p)
  BY ExceptObj, Zenon DEF Fields
<1>2. CASE Fields \subseteq DOMAIN o
  <2>1. /\ p.ResearchTouched = o.ResearchTouched \union {k} /\ p # Absent
        /\ \A y \in Fields : y # "ResearchTouched" => p[y] = o[y]
    BY <1>2, FieldsKept, Zenon DEF Fields
  <2> HIDE DEF p
  <2>2. /\ p.nonce = o.nonce /\ p.balance = o.balance /\ p.code = o.code
        /\ p.committed = o.committed /\ p.suicided = o.suicided
        /\ p.dirty = o.dirty /\ p.deleted = o.deleted
    BY <2>1, Zenon DEF Fields
  <2>3. \A j : Slot(p, j) = Slot(o, j)
    BY <2>2, SlotFields, Zenon
  <2>4. o # Absent
    BY <1>2, Zenon DEF Fields, Absent
  <2>5. Live(p) <=> Live(o)
    BY <2>1, <2>2, <2>4, Zenon DEF Live
  <2>6. Same(p, o)
    BY <2>1, <2>2, <2>3, <2>5, Zenon DEF Same
  <2> QED BY <1>1, <2>1, <2>6, Zenon DEF p
<1>3. CASE o = Absent
  <2>1. p = Absent
    BY <1>3, Zenon DEF Absent
  <2> QED BY <1>1, <1>3, <2>1, Zenon DEF Same, Live
<1> QED BY <1>2, <1>3, Zenon DEF Obj

-----------------------------------------------------------------------------
(* What the journal can undo.                                               *)

\* the object of an account when the transaction began, not yet changed
Starts(h, old) ==
  /\ Live(h) <=> old # Absent
  /\ Live(h) => /\ ~h.suicided
                /\ old = NewSubstateAccount(h, [k \in Keys |-> Slot(h, k)])
                /\ \A k \in Keys : Slot(h, k) = h.committed[k]

\* H gives the objects for each length of the journal: undoing the last entry takes those
\* of one length to those of the length before, down to those of the beginning
Traced(s, b, H) ==
  /\ \A a \in Addrs : Same(Found(s, a), H[Len(s.journal)][a])
  /\ \A i \in 0 .. Len(s.journal) : \A a \in Addrs : Fits(H[i][a], b[a])
  /\ \A i \in 1 .. Len(s.journal) : \A a \in Addrs :
        IF s.journal[i].account = a
        THEN Live(H[i][a]) /\ Undoes(s.journal[i], H[i][a], H[i - 1][a], s.trie[a])
        ELSE H[i][a] = H[i - 1][a]
  /\ \A a \in Addrs : Starts(H[0][a], b[a])

\* a recorded account has been loaded
Loaded(s) == \A a \in Addrs : Has(s, a) => s.stateObjects[a] # Absent \/ s.trie[a] = Absent
Whole(s, b, H) ==
  Good(s, b) /\ Loaded(s) /\ s.ResearchPostAlloc = Nowhere /\ Traced(s, b, H)

\* from s to t the journal only grows, and no account goes away
Extends(s, H, t, G) ==
  /\ Len(s.journal) \in Nat /\ Len(t.journal) \in Nat /\ Len(s.journal) <= Len(t.journal)
  /\ \A i \in 1 .. Len(s.journal) : t.journal[i] = s.journal[i]
  /\ \A i \in 0 .. Len(s.journal) : G[i] = H[i]
  /\ \A a \in Addrs : Live(Found(s, a)) =>
        Live(Found(t, a)) /\ \A i \in Len(s.journal) .. Len(t.journal) : Live(G[i][a])

\* methods of the StateDB lead from s to t
Follows(s, t, b) ==
  \A H : Whole(s, b, H) => \E G : Whole(t, b, G) /\ Extends(s, H, t, G)

\* Methods follow one another.
LEMMA FollowsAgain ==
  ASSUME NEW s, NEW t, NEW u, NEW b, Follows(s, t, b), Follows(t, u, b)
  PROVE Follows(s, u, b)
<1> SUFFICES ASSUME NEW H, Whole(s, b, H)
             PROVE \E G : Whole(u, b, G) /\ Extends(s, H, u, G)
  BY Zenon DEF Follows
<1>1. PICK F : Whole(t, b, F) /\ Extends(s, H, t, F)
  BY Zenon DEF Follows
<1>2. PICK G : Whole(u, b, G) /\ Extends(t, F, u, G)
  BY <1>1, Zenon DEF Follows
<1> DEFINE l == Len(s.journal)
           m == Len(t.journal)
           n == Len(u.journal)
<1>3. l \in Nat /\ m \in Nat /\ n \in Nat /\ l <= m /\ m <= n
  BY <1>1, <1>2, Zenon DEF Extends
<1>4. /\ \A i \in 1 .. l : i \in 1 .. m
      /\ \A i \in 0 .. l : i \in 0 .. m
      /\ \A i \in l .. n : i \in l .. m \/ i \in m .. n
      /\ \A i \in l .. m : i \in 0 .. m
  BY <1>3
<1>5. \A i \in 1 .. l : u.journal[i] = s.journal[i]
  BY <1>1, <1>2, <1>4, Zenon DEF Extends
<1>6. \A i \in 0 .. l : G[i] = H[i]
  BY <1>1, <1>2, <1>4, Zenon DEF Extends
<1>7. ASSUME NEW a \in Addrs, Live(Found(s, a))
      PROVE Live(Found(u, a)) /\ \A i \in l .. n : Live(G[i][a])
  <2>1. Live(Found(t, a)) /\ \A i \in l .. m : Live(F[i][a])
    BY <1>1, <1>7, Zenon DEF Extends
  <2>2. Live(Found(u, a)) /\ \A i \in m .. n : Live(G[i][a])
    BY <1>2, <2>1, Zenon DEF Extends
  <2>3. \A i \in l .. m : G[i] = F[i]
    BY <1>2, <1>4, Zenon DEF Extends
  <2> QED BY <1>4, <2>1, <2>2, <2>3, Zenon
<1>8. l <= n
  BY <1>3
<1>9. Extends(s, H, u, G)
  BY <1>3, <1>5, <1>6, <1>7, <1>8, Zenon DEF Extends
<1> QED BY <1>2, <1>9, Zenon

\* What is found depends on the trie and the object of the account only.
LEMMA FoundIs ==
  ASSUME NEW s, Shape(s), NEW a \in Addrs
  PROVE /\ s.stateObjects[a] # Absent \/ s.trie[a] = Absent => Found(s, a) = s.stateObjects[a]
        /\ s.stateObjects[a] = Absent /\ s.trie[a] # Absent => Found(s, a) = newObject(s.trie[a])
        /\ Found(s, a) = Absent => s.trie[a] = Absent
        /\ Obj(Found(s, a))
<1>1. s.stateObjects[a] # Absent \/ s.trie[a] = Absent => Found(s, a) = s.stateObjects[a]
  BY Zenon DEF Found, getDeletedStateObject
<1>2. s.stateObjects[a] = Absent /\ s.trie[a] # Absent => Found(s, a) = newObject(s.trie[a])
  <2> DEFINE n == newObject(s.trie[a])
  <2> HIDE DEF n
  <2>1. [s EXCEPT !.stateObjects[a] = n].stateObjects[a] = n
    BY Zenon DEF Shape
  <2> QED BY <2>1, Zenon DEF Found, getDeletedStateObject, n
<1>3. Obj(s.stateObjects[a])
  BY Zenon DEF Shape
<1> QED BY <1>1, <1>2, <1>3, Distinct, NewObj, Zenon

\* s and t differ at most in the object of a and in what is recorded of it
Aside(s, t, a) ==
  /\ t.trie = s.trie /\ t.ResearchPostAlloc = s.ResearchPostAlloc
  /\ \A x \in Addrs : x # a => /\ t.stateObjects[x] = s.stateObjects[x]
                               /\ t.ResearchPreAlloc[x] = s.ResearchPreAlloc[x]

\* What is found depends on the object and on the trie.
LEMMA SameFound ==
  ASSUME NEW s, NEW t, Shape(s), Shape(t), NEW x \in Addrs,
         t.trie[x] = s.trie[x], t.stateObjects[x] = s.stateObjects[x]
  PROVE Found(t, x) = Found(s, x)
BY Zenon DEF Found, getDeletedStateObject, Shape

\* The objects of other accounts are found as before.
LEMMA AsideFound ==
  ASSUME NEW s, NEW t, Shape(s), Shape(t), NEW a \in Addrs, Aside(s, t, a), NEW x \in Addrs, x # a
  PROVE Found(t, x) = Found(s, x)
<1>1. t.trie[x] = s.trie[x] /\ t.stateObjects[x] = s.stateObjects[x]
  BY Zenon DEF Aside
<1> QED BY <1>1, SameFound, Zenon

\* Loading and recording an account is no change.
LEMMA GetIs ==
  ASSUME NEW s, NEW b, Good(s, b), NEW a \in Addrs
  PROVE LET t == getStateObject(s, a)
        IN /\ t.stateObjects[a] = Found(s, a) /\ t.journal = s.journal /\ Aside(s, t, a)
           /\ \A x \in Addrs : Found(t, x) = Found(s, x)
<1> DEFINE d == getDeletedStateObject(s, a)
           t == getStateObject(s, a)
<1>1. /\ d.stateObjects[a] = Found(s, a) /\ d.journal = s.journal /\ d.trie = s.trie
      /\ d.ResearchPostAlloc = s.ResearchPostAlloc /\ d.ResearchPreAlloc = s.ResearchPreAlloc
      /\ \A x \in Addrs : x # a => d.stateObjects[x] = s.stateObjects[x]
  BY Zenon DEF Found, getDeletedStateObject, Good, Shape
<1>2. Good(d, b) /\ Good(t, b)
  BY LoadGood, GetGood, Zenon
<1>3. t = record(d, a)
  BY Zenon DEF getStateObject
<1> HIDE DEF d, t
<1>4. /\ t.stateObjects = d.stateObjects /\ t.journal = d.journal /\ t.trie = d.trie
      /\ t.ResearchPostAlloc = d.ResearchPostAlloc
      /\ \A x \in Addrs : x # a => t.ResearchPreAlloc[x] = d.ResearchPreAlloc[x]
  <2> DEFINE n == IF Live(d.stateObjects[a]) THEN NewSubstateAccount(d.stateObjects[a], <<>>)
                  ELSE Nil
  <2>1. t \in {d, [d EXCEPT !.ResearchPreAlloc[a] = n]}
    BY <1>3, Zenon DEF record
  <2> HIDE DEF n
  <2>2. Shape(d)
    BY <1>2, Zenon DEF Good
  <2>3. CASE t = d
    BY <2>3, Zenon
  <2>4. CASE t = [d EXCEPT !.ResearchPreAlloc[a] = n]
    BY <2>2, <2>4, Zenon DEF Shape
  <2> QED BY <2>1, <2>3, <2>4, Zenon
<1>5. Aside(s, t, a)
  BY <1>1, <1>4, Zenon DEF Aside
<1>6. t.stateObjects[a] = Found(s, a) /\ t.trie[a] = s.trie[a]
  BY <1>1, <1>4, Zenon
<1>7. Found(t, a) = Found(s, a)
  <2>1. Found(s, a) # Absent \/ s.trie[a] = Absent
    BY FoundIs, Zenon DEF Good
  <2>2. t.stateObjects[a] # Absent \/ t.trie[a] = Absent
    BY <1>6, <2>1, Zenon
  <2> QED BY <1>2, <1>6, <2>2, FoundIs, Zenon DEF Good
<1>8. \A x \in Addrs : Found(t, x) = Found(s, x)
  BY <1>2, <1>5, <1>7, AsideFound, Zenon DEF Good
<1> QED BY <1>1, <1>4, <1>5, <1>6, <1>8, Zenon DEF t

\* The objects of s are the same as those of the trace.
LEMMA TracedSame ==
  ASSUME NEW s, NEW t, NEW b, NEW H, Traced(s, b, H), t.journal = s.journal, t.trie = s.trie,
         \A a \in Addrs : Same(Found(t, a), Found(s, a))
  PROVE Traced(t, b, H)
<1>1. \A a \in Addrs : Same(Found(t, a), H[Len(t.journal)][a])
  BY SameTrans, Zenon DEF Traced
<1>2. \A i \in 1 .. Len(t.journal) : \A a \in Addrs :
         IF t.journal[i].account = a
         THEN Live(H[i][a]) /\ Undoes(t.journal[i], H[i][a], H[i - 1][a], t.trie[a])
         ELSE H[i][a] = H[i - 1][a]
  <2>1. \A i \in 1 .. Len(s.journal) : \A a \in Addrs :
           IF s.journal[i].account = a
           THEN Live(H[i][a]) /\ Undoes(s.journal[i], H[i][a], H[i - 1][a], s.trie[a])
           ELSE H[i][a] = H[i - 1][a]
    BY Zenon DEF Traced
  <2> QED BY <2>1
<1>3. /\ \A i \in 0 .. Len(t.journal) : \A a \in Addrs : Fits(H[i][a], b[a])
      /\ \A a \in Addrs : Starts(H[0][a], b[a])
  BY Zenon DEF Traced
<1> QED BY <1>1, <1>2, <1>3, Zenon DEF Traced

\* Objects of the present.
LEMMA NowFits ==
  ASSUME NEW s, NEW b, NEW H, Whole(s, b, H), NEW a \in Addrs
  PROVE /\ Same(Found(s, a), Found(s, a)) /\ Fits(Found(s, a), b[a])
        /\ Obj(Found(s, a))
        /\ Live(Found(s, a)) => Current(Found(s, a), b[a])
        /\ Live(Found(s, a)) <=> Live(H[Len(s.journal)][a])
<1>1. Len(s.journal) \in 0 .. Len(s.journal)
  <2>1. Len(s.journal) \in Nat
    BY JournalLen, Zenon DEF Whole
  <2> QED BY <2>1
<1>2. Same(Found(s, a), H[Len(s.journal)][a]) /\ Fits(H[Len(s.journal)][a], b[a])
  BY <1>1, Zenon DEF Whole, Traced
<1>3. Fits(Found(s, a), b[a])
  BY <1>2, SameFits, Zenon
<1>4. Same(Found(s, a), Found(s, a)) /\ (Live(Found(s, a)) <=> Live(H[Len(s.journal)][a]))
  BY <1>2, Zenon DEF Same
<1>5. Obj(Found(s, a))
  BY FoundIs, Zenon DEF Whole, Good
<1> QED BY <1>3, <1>4, <1>5, LiveFields, Zenon DEF Current

\* Methods that leave the journal alone and all objects the same.
LEMMA SameFollows ==
  ASSUME NEW s, NEW t, NEW b, Good(s, b), Good(t, b), Loaded(s) => Loaded(t),
         t.journal = s.journal, t.trie = s.trie, t.ResearchPostAlloc = s.ResearchPostAlloc,
         \A H : Whole(s, b, H) => \A a \in Addrs : Same(Found(t, a), Found(s, a))
  PROVE Follows(s, t, b)
<1> SUFFICES ASSUME NEW H, Whole(s, b, H) PROVE Whole(t, b, H) /\ Extends(s, H, t, H)
  BY Zenon DEF Follows
<1>1. Whole(t, b, H)
  BY TracedSame, Zenon DEF Whole
<1>2. Len(s.journal) \in Nat
  BY JournalLen, Zenon
<1>3. \A i \in Len(s.journal) .. Len(t.journal) : i = Len(s.journal)
  BY <1>2
<1>4. Len(s.journal) <= Len(t.journal)
  BY <1>2
<1>5. ASSUME NEW a \in Addrs, Live(Found(s, a))
      PROVE Live(Found(t, a)) /\ \A i \in Len(s.journal) .. Len(t.journal) : Live(H[i][a])
  <2>1. Live(Found(t, a))
    BY <1>5, Zenon DEF Same
  <2>2. Live(H[Len(s.journal)][a])
    BY <1>5, NowFits, Zenon
  <2> QED BY <1>3, <2>1, <2>2, Zenon
<1>6. Extends(s, H, t, H)
  BY <1>2, <1>4, <1>5, Zenon DEF Extends
<1> QED BY <1>1, <1>6, Zenon

\* getStateObject.
LEMMA GetFollows ==
  ASSUME NEW s, NEW b, Good(s, b), NEW a \in Addrs
  PROVE Follows(s, getStateObject(s, a), b)
<1> DEFINE t == getStateObject(s, a)
<1>1. /\ t.stateObjects[a] = Found(s, a) /\ t.journal = s.journal /\ Aside(s, t, a)
      /\ \A x \in Addrs : Found(t, x) = Found(s, x)
  BY GetIs, Zenon
<1>2. Good(t, b)
  BY GetGood, Zenon
<1> HIDE DEF t
<1>3. Found(s, a) # Absent \/ s.trie[a] = Absent
  BY FoundIs, Zenon DEF Good
<1>4. Loaded(s) => Loaded(t)
  BY <1>1, <1>3, Zenon DEF Loaded, Aside, Has
<1>5. \A H : Whole(s, b, H) => \A x \in Addrs : Same(Found(t, x), Found(s, x))
  BY <1>1, NowFits, Zenon
<1> QED BY <1>1, <1>2, <1>4, <1>5, SameFollows, Zenon DEF Aside, t

\* What replacing an object gives.
LEMMA PutIs ==
  ASSUME NEW s, NEW b, Good(s, b), NEW a \in Addrs, NEW o
  PROVE LET t == Put(s, a, o)
        IN t.stateObjects[a] = o /\ t.journal = s.journal /\ Aside(s, t, a)
           /\ t.ResearchPreAlloc = s.ResearchPreAlloc
<1> DEFINE m == [s.stateObjects EXCEPT ![a] = o]
<1>1. m[a] = o /\ \A x \in Addrs : x # a => m[x] = s.stateObjects[x]
  BY Zenon DEF Good, Shape
<1>2. Put(s, a, o) = [s EXCEPT !.stateObjects = m]
  BY Zenon DEF Put
<1> HIDE DEF m
<1>3. /\ Put(s, a, o).stateObjects = m /\ Put(s, a, o).journal = s.journal
      /\ Put(s, a, o).trie = s.trie /\ Put(s, a, o).ResearchPostAlloc = s.ResearchPostAlloc
      /\ Put(s, a, o).ResearchPreAlloc = s.ResearchPreAlloc
  BY <1>2, Zenon DEF Good, Shape
<1> QED BY <1>1, <1>3, Zenon DEF Aside

\* The same with a journal entry.
LEMMA PutLogIs ==
  ASSUME NEW s, NEW b, Good(s, b), NEW a \in Addrs, NEW e, NEW o
  PROVE /\ Put(log(s, e), a, o).stateObjects[a] = o
        /\ Put(log(s, e), a, o).journal = Append(s.journal, e)
        /\ Aside(s, Put(log(s, e), a, o), a)
        /\ Put(log(s, e), a, o).ResearchPreAlloc = s.ResearchPreAlloc
<1> DEFINE m == [s.stateObjects EXCEPT ![a] = o]
           j == Append(s.journal, e)
           l == log(s, e)
           t == Put(l, a, o)
<1>1. m[a] = o /\ \A x \in Addrs : x # a => m[x] = s.stateObjects[x]
  BY Zenon DEF Good, Shape
<1>2. l = [s EXCEPT !.journal = j]
  BY Zenon DEF log
<1> HIDE DEF m, j, l
<1>3. l = [trie |-> s.trie, stateObjects |-> s.stateObjects, journal |-> j,
           ResearchPreAlloc |-> s.ResearchPreAlloc, ResearchPostAlloc |-> s.ResearchPostAlloc,
           ResearchBlockHashes |-> s.ResearchBlockHashes]
  BY <1>2, Zenon DEF Good, Shape
<1>4. t = [l EXCEPT !.stateObjects = m]
  BY <1>3 DEF Put, m
<1> HIDE DEF t
<1>5. /\ t.stateObjects = m /\ t.journal = j
      /\ t.trie = s.trie /\ t.ResearchPostAlloc = s.ResearchPostAlloc
      /\ t.ResearchPreAlloc = s.ResearchPreAlloc
  BY <1>3, <1>4
<1> QED BY <1>1, <1>5, Zenon DEF Aside, t, l, j

\* The journal with one more entry.
LEMMA JournalAppend ==
  ASSUME NEW s, NEW b, Good(s, b), NEW e, NEW t, t.journal = Append(s.journal, e)
  PROVE /\ Len(s.journal) \in Nat /\ Len(t.journal) = Len(s.journal) + 1
        /\ t.journal[Len(s.journal) + 1] = e
        /\ \A i \in 1 .. Len(s.journal) : t.journal[i] = s.journal[i]
<1>1. PICK S : s.journal \in Seq(S)
  BY Zenon DEF Good, Shape
<1> QED BY <1>1

\* A change with its journal entry makes the trace one longer.
LEMMA AppendFollows ==
  ASSUME NEW s, NEW b, Good(s, b), NEW a \in Addrs, Has(s, a), NEW e, Entry(e, a), NEW p,
         \A H : Whole(s, b, H) => Change(e, Found(s, a), p, b[a], s.trie[a])
  PROVE Follows(s, Put(log(s, e), a, p), b)
<1> DEFINE t == Put(log(s, e), a, p)
           n == Len(s.journal)
<1>1. /\ t.stateObjects[a] = p /\ t.journal = Append(s.journal, e) /\ Aside(s, t, a)
      /\ t.ResearchPreAlloc = s.ResearchPreAlloc
  BY PutLogIs
<1>a. Obj(p) => Local(s, t, a)
  BY PutLogLocal, Zenon
<1> HIDE DEF t
<1> SUFFICES ASSUME NEW H, Whole(s, b, H)
             PROVE \E G : Whole(t, b, G) /\ Extends(s, H, t, G)
  BY Zenon DEF Follows, t
<1> DEFINE q == [x \in Addrs |-> IF x = a THEN p ELSE H[n][x]]
           G == [i \in 0 .. n + 1 |-> IF i = n + 1 THEN q ELSE H[i]]
<1>2. /\ Obj(p) /\ Live(p) /\ Same(p, p) /\ Fits(p, b[a])
      /\ Undoes(e, p, Found(s, a), s.trie[a])
  BY Zenon DEF Change
<1>3. Good(t, b)
  BY <1>a, <1>2, LocalGood, Zenon
<1>4. /\ n \in Nat /\ Len(t.journal) = n + 1 /\ t.journal[n + 1] = e
      /\ \A i \in 1 .. n : t.journal[i] = s.journal[i]
  BY <1>1, JournalAppend
<1> HIDE DEF n
<1>b. /\ \A i \in 0 .. n + 1 : i = n + 1 \/ i \in 0 .. n
      /\ \A i \in 1 .. n + 1 : i = n + 1 \/ (i \in 1 .. n /\ i \in 0 .. n /\ i - 1 \in 0 .. n)
      /\ n + 1 - 1 = n /\ n \in 0 .. n /\ 0 \in 0 .. n /\ n <= n + 1
      /\ \A i \in n .. n + 1 : i = n + 1 \/ i = n
      /\ n + 1 \in 0 .. n + 1 /\ \A i \in 0 .. n : i \in 0 .. n + 1 /\ i # n + 1
  BY <1>4
<1>5. G[n + 1] = q /\ \A i \in 0 .. n : G[i] = H[i]
  BY <1>b, Zenon
<1>6. q[a] = p /\ \A x \in Addrs : x # a => q[x] = H[n][x]
  BY Zenon
<1> HIDE DEF q, G
<1>7. Found(t, a) = p
  BY <1>1, <1>2, <1>3, FoundIs, Zenon DEF Good, Live
<1>8. \A x \in Addrs : x # a => Found(t, x) = Found(s, x)
  BY <1>1, <1>3, AsideFound, Zenon DEF Good
<1>9. Same(Found(s, a), H[n][a])
  BY Zenon DEF Whole, Traced, n
<1>10. Undoes(e, p, H[n][a], t.trie[a])
  <2>1. \A o : Obj(o) /\ Same(o, p) => Same(Undone(o, e), H[n][a])
    BY <1>2, <1>9, SameTrans, Zenon DEF Undoes
  <2>2. t.trie[a] = s.trie[a]
    BY <1>1, Zenon DEF Aside
  <2> QED BY <1>2, <2>1, <2>2, Zenon DEF Undoes
<1>11. \A x \in Addrs : Same(Found(t, x), G[Len(t.journal)][x])
  <2>1. G[Len(t.journal)] = q
    BY <1>4, <1>5, Zenon
  <2>2. \A x \in Addrs : Same(Found(s, x), H[n][x])
    BY Zenon DEF Whole, Traced, n
  <2> QED BY <1>2, <1>6, <1>7, <1>8, <2>1, <2>2, Zenon
<1>12. \A i \in 0 .. Len(t.journal) : \A x \in Addrs : Fits(G[i][x], b[x])
  <2>1. \A i \in 0 .. n : \A x \in Addrs : Fits(H[i][x], b[x])
    BY Zenon DEF Whole, Traced, n
  <2>2. \A x \in Addrs : Fits(q[x], b[x])
    BY <1>b, <1>2, <1>6, <2>1, Zenon
  <2> QED BY <1>4, <1>b, <1>5, <2>1, <2>2, Zenon
<1>13. \A x \in Addrs : Starts(G[0][x], b[x])
  BY <1>b, <1>5, Zenon DEF Whole, Traced
<1>14. ASSUME NEW i \in 1 .. Len(t.journal), NEW x \in Addrs
       PROVE IF t.journal[i].account = x
             THEN Live(G[i][x]) /\ Undoes(t.journal[i], G[i][x], G[i - 1][x], t.trie[x])
             ELSE G[i][x] = G[i - 1][x]
  <2>1. CASE i = n + 1
    <3>1. t.journal[i] = e /\ e.account = a /\ G[i] = q /\ G[i - 1] = H[n]
      BY <1>4, <1>b, <1>5, <2>1 DEF Entry
    <3> QED BY <1>2, <1>6, <1>10, <3>1, Zenon
  <2>2. CASE i \in 1 .. n /\ i \in 0 .. n /\ i - 1 \in 0 .. n
    <3>1. t.journal[i] = s.journal[i] /\ G[i] = H[i] /\ G[i - 1] = H[i - 1] /\ t.trie = s.trie
      BY <1>1, <1>4, <1>b, <1>5, <2>2, Zenon DEF Aside
    <3>2. IF s.journal[i].account = x
          THEN Live(H[i][x]) /\ Undoes(s.journal[i], H[i][x], H[i - 1][x], s.trie[x])
          ELSE H[i][x] = H[i - 1][x]
      BY <2>2, Zenon DEF Whole, Traced, n
    <3> QED BY <3>1, <3>2, Zenon
  <2> QED BY <1>4, <1>b, <1>5, <2>1, <2>2, Zenon
<1>15. Traced(t, b, G)
  BY <1>11, <1>12, <1>13, <1>14, Zenon DEF Traced
<1>16. Loaded(t)
  BY <1>1, <1>2, Zenon DEF Whole, Loaded, Aside, Has, Live
<1>17. Whole(t, b, G)
  BY <1>1, <1>3, <1>15, <1>16, Zenon DEF Whole, Aside
<1>18. ASSUME NEW x \in Addrs, Live(Found(s, x))
       PROVE Live(Found(t, x)) /\ \A i \in n .. Len(t.journal) : Live(G[i][x])
  <2>1. Live(H[n][x])
    BY <1>18, NowFits, Zenon DEF n
  <2>2. Live(q[x])
    BY <1>2, <1>6, <2>1, Zenon
  <2>3. Live(Found(t, x))
    BY <1>2, <1>7, <1>8, <1>18, Zenon
  <2> QED BY <1>4, <1>b, <1>5, <2>1, <2>2, <2>3, Zenon
<1>19. Extends(s, H, t, G)
  <2>1. Len(t.journal) \in Nat
    BY <1>4
  <2> QED BY <1>4, <1>b, <1>5, <1>18, <2>1, Zenon DEF Extends, n
<1> QED BY <1>17, <1>19, Zenon

\* GetState's mark on a slot.
LEMMA TouchFollows ==
  ASSUME NEW s, NEW b, Good(s, b), NEW a \in Addrs, Has(s, a), NEW k \in Keys,
         Found(s, a) = s.stateObjects[a]
  PROVE Follows(s, touchSlot(s, a, k), b)
<1> DEFINE o == s.stateObjects[a]
           p == [o EXCEPT !.ResearchTouched = @ \union {k}]
           t == Put(s, a, p)
<1>1. touchSlot(s, a, k) = t
  BY Zenon DEF touchSlot, Put
<1>2. Obj(o)
  BY Zenon DEF Good, Shape
<1>3. Obj(p) /\ (p = Absent <=> o = Absent)
  <2>1. Obj(p)
    BY <1>2, ExceptObj, Zenon DEF Fields
  <2>2. Fields \subseteq DOMAIN o => p # Absent /\ o # Absent
    <3>1. ASSUME Fields \subseteq DOMAIN o PROVE p # Absent
      <4>1. "nonce" \in DOMAIN p
        BY <3>1, Zenon DEF Fields
      <4>2. "nonce" \notin DOMAIN Absent
        BY Zenon DEF Absent
      <4> QED BY <4>1, <4>2, Zenon
    <3> QED BY <3>1, Zenon DEF Fields, Absent
  <2>3. o = Absent => p = Absent
    BY Zenon DEF Absent
  <2> QED BY <1>2, <2>1, <2>2, <2>3, Zenon DEF Obj
<1>4. \A H : Whole(s, b, H) => Same(p, o)
  BY <1>2, NowFits, TouchedSame, Zenon
<1> HIDE DEF p
<1>5. /\ t.stateObjects[a] = p /\ t.journal = s.journal /\ Aside(s, t, a)
      /\ t.ResearchPreAlloc = s.ResearchPreAlloc
  BY PutIs, Zenon
<1>6. Local(s, t, a)
  BY <1>3, PutLocal, Zenon
<1> HIDE DEF t
<1>7. Good(t, b)
  BY <1>6, LocalGood, Zenon
<1>8. t.trie = s.trie
  BY <1>5, Zenon DEF Aside
<1>9. Found(t, a) = p
  <2>1. o # Absent \/ s.trie[a] = Absent
    BY FoundIs, Zenon DEF Good
  <2>2. t.stateObjects[a] # Absent \/ t.trie[a] = Absent
    BY <1>3, <1>5, <1>8, <2>1, Zenon
  <2> QED BY <1>5, <1>7, <2>2, FoundIs, Zenon DEF Good
<1>10. \A x \in Addrs : x # a => Found(t, x) = Found(s, x)
  BY <1>5, <1>7, AsideFound, Zenon DEF Good
<1>11. \A H : Whole(s, b, H) => \A x \in Addrs : Same(Found(t, x), Found(s, x))
  BY <1>4, <1>9, <1>10, NowFits, Zenon
<1>12. Loaded(s) => Loaded(t)
  BY <1>3, <1>5, <1>8, Zenon DEF Loaded, Aside, Has
<1> QED BY <1>1, <1>5, <1>7, <1>8, <1>11, <1>12, SameFollows, Zenon DEF Aside

-----------------------------------------------------------------------------
(* Accounts that were reset and that journal.dirties does not have.         *)

\* the first n entries of j have a reset of a and nothing else about it
BareAt(j, n, a) ==
  /\ \E i \in 1 .. n : j[i].account = a /\ j[i].change = "reset"
  /\ \A i \in 1 .. n : j[i].account = a => j[i].change = "reset"
Bare(s, a) == BareAt(s.journal, Len(s.journal), a)

\* An entry that is no reset ends it.
LEMMA BareAppend ==
  ASSUME NEW s, NEW b, Good(s, b), NEW e, NEW t, t.journal = Append(s.journal, e), NEW x,
         Bare(t, x)
  PROVE IF x = e.account THEN e.change = "reset" ELSE Bare(s, x)
<1> DEFINE n == Len(s.journal)
<1>1. /\ n \in Nat /\ Len(t.journal) = n + 1 /\ t.journal[n + 1] = e
      /\ \A i \in 1 .. n : t.journal[i] = s.journal[i]
  BY JournalAppend
<1> HIDE DEF n
<1>2. /\ \A i \in 1 .. n : i \in 1 .. n + 1
      /\ \A i \in 1 .. n + 1 : i \in 1 .. n \/ i = n + 1
      /\ n + 1 \in 1 .. n + 1
  BY <1>1
<1>3. /\ \E i \in 1 .. n + 1 : t.journal[i].account = x /\ t.journal[i].change = "reset"
      /\ \A i \in 1 .. n + 1 : t.journal[i].account = x => t.journal[i].change = "reset"
  BY <1>1, Zenon DEF Bare, BareAt
<1>4. CASE x = e.account
  BY <1>1, <1>2, <1>3, <1>4, Zenon
<1>5. CASE x # e.account
  <2>1. \E i \in 1 .. n : s.journal[i].account = x /\ s.journal[i].change = "reset"
    BY <1>1, <1>2, <1>3, <1>5, Zenon
  <2>2. \A i \in 1 .. n : s.journal[i].account = x => s.journal[i].change = "reset"
    BY <1>1, <1>2, <1>3, Zenon
  <2> QED BY <1>5, <2>1, <2>2, Zenon DEF Bare, BareAt, n
<1> QED BY <1>4, <1>5, Zenon

\* what a method on account a does
Does(s, t, b, a) ==
  /\ Follows(s, t, b) /\ Keeps(s, t, b, a)
  /\ \A x \in Addrs : x # a => Found(t, x) = Found(s, x)

\* Methods on an account follow one another.
LEMMA DoesAgain ==
  ASSUME NEW s, NEW t, NEW u, NEW b, NEW a \in Addrs, Does(s, t, b, a), Does(t, u, b, a)
  PROVE Does(s, u, b, a)
<1>1. Follows(s, u, b) /\ Keeps(s, u, b, a)
  BY FollowsAgain, KeepsAgain, Zenon DEF Does
<1> QED BY <1>1, Zenon DEF Does

\* A change of an object with its journal entry.
LEMMA ChangeDoes ==
  ASSUME NEW s, NEW b, Good(s, b), NEW a \in Addrs, Has(s, a), NEW e, Entry(e, a),
         NEW p, Obj(p), p # Absent,
         \A H : Whole(s, b, H) => Change(e, Found(s, a), p, b[a], s.trie[a])
  PROVE /\ Does(s, Put(log(s, e), a, p), b, a)
        /\ Found(Put(log(s, e), a, p), a) = p /\ Put(log(s, e), a, p).stateObjects[a] = p
        /\ \A x \in Addrs : Bare(Put(log(s, e), a, p), x) =>
              IF x = a THEN e.change = "reset" ELSE Bare(s, x)
<1> DEFINE t == Put(log(s, e), a, p)
<1>1. /\ t.stateObjects[a] = p /\ t.journal = Append(s.journal, e) /\ Aside(s, t, a)
      /\ t.ResearchPreAlloc = s.ResearchPreAlloc
  BY PutLogIs
<1>2. Follows(s, t, b)
  BY AppendFollows, Zenon
<1>3. Local(s, t, a)
  BY PutLogLocal, Zenon
<1> HIDE DEF t
<1>4. Keeps(s, t, b, a)
  BY <1>3, LocalGood, Zenon DEF Keeps
<1>5. Found(t, a) = p
  BY <1>1, <1>4, FoundIs, Zenon DEF Good, Keeps
<1>6. \A x \in Addrs : x # a => Found(t, x) = Found(s, x)
  BY <1>1, <1>4, AsideFound, Zenon DEF Good, Keeps
<1>7. \A x \in Addrs : Bare(t, x) => IF x = a THEN e.change = "reset" ELSE Bare(s, x)
  <2>1. e.account = a
    BY Zenon DEF Entry
  <2> QED BY <1>1, <2>1, BareAppend, Zenon
<1> QED BY <1>1, <1>2, <1>4, <1>5, <1>6, <1>7, Zenon DEF Does, t

\* A new object is a fresh one.
LEMMA FreshIs ==
  ASSUME NEW v
  PROVE /\ newObject(EmptyAccount) = Fresh(0)
        /\ Obj(Fresh(v)) /\ Fresh(v) # Absent /\ Live(Fresh(v))
        /\ Fresh(v).code = NoCode /\ Fresh(v).balance = v /\ Fresh(v).nonce = 0
        /\ empty(Fresh(0))
<1> DEFINE n == newObject(EmptyAccount)
<1>1. n = [nonce |-> 0, balance |-> 0, code |-> NoCode, committed |-> ZeroStorage,
           dirty |-> <<>>, suicided |-> FALSE, deleted |-> FALSE, ResearchTouched |-> {}]
  BY Zenon DEF newObject, EmptyAccount
<1>2. \A w : Fresh(w) = [n EXCEPT !.balance = w]
  BY Zenon DEF Fresh
<1> HIDE DEF n
<1>3. \A w : Fresh(w) =
        [nonce |-> 0, balance |-> w, code |-> NoCode, committed |-> ZeroStorage,
         dirty |-> <<>>, suicided |-> FALSE, deleted |-> FALSE, ResearchTouched |-> {}]
  BY <1>1, <1>2
<1>4. \A w : /\ Fresh(w).code = NoCode /\ Fresh(w).balance = w /\ Fresh(w).nonce = 0
             /\ Fresh(w).deleted = FALSE /\ DOMAIN Fresh(w) = Fields
  BY <1>3, Zenon DEF Fields
<1>5. \A w : Obj(Fresh(w)) /\ Fresh(w) # Absent
  <2>1. "nonce" \notin DOMAIN Absent /\ "nonce" \in Fields
    BY Zenon DEF Absent, Fields
  <2> QED BY <1>4, <2>1, Zenon DEF Obj
<1> QED BY <1>1, <1>3, <1>4, <1>5, Zenon DEF Live, empty, n

\* A fresh object takes the place of an account that is not there, or of one that had no
\* storage.
LEMMA ReplaceDoes ==
  ASSUME NEW s, NEW b, Good(s, b), NEW a \in Addrs, Has(s, a), NEW v,
         s.stateObjects[a] = Found(s, a), Pinned(b[a]) => ~Live(Found(s, a))
  PROVE LET e == IF s.stateObjects[a] = Absent THEN [change |-> "create", account |-> a]
                 ELSE [change |-> "reset", account |-> a, prev |-> s.stateObjects[a]]
            t == Put(log(s, e), a, Fresh(v))
        IN /\ Does(s, t, b, a) /\ Found(t, a) = Fresh(v) /\ t.stateObjects[a] = Fresh(v)
           /\ \A x \in Addrs : Bare(t, x) => x = a \/ Bare(s, x)
<1> DEFINE e == IF s.stateObjects[a] = Absent THEN [change |-> "create", account |-> a]
                ELSE [change |-> "reset", account |-> a, prev |-> s.stateObjects[a]]
           o == s.stateObjects[a]
           t == Put(log(s, e), a, Fresh(v))
<1>1. Entry(e, a)
  BY Zenon DEF Entry, Changes, Good, Shape
<1>2. \/ e.change = "create" /\ o = Absent
      \/ e.change = "reset" /\ o # Absent /\ e.prev = o
  BY Zenon
<1> HIDE DEF e
<1>3. o = Absent => s.trie[a] = Absent
  BY FoundIs, Zenon DEF Good
<1>4. ASSUME NEW H, Whole(s, b, H)
      PROVE Change(e, Found(s, a), Fresh(v), b[a], s.trie[a])
  <2>1. Same(Found(s, a), Found(s, a)) /\ Fits(Found(s, a), b[a])
    BY <1>4, NowFits, Zenon
  <2>2. ~Pinned(b[a])
    BY <2>1, Zenon DEF Fits, Pinned
  <2> QED BY <1>2, <1>3, <2>1, <2>2, FreshChange, Zenon
<1>5. Obj(Fresh(v)) /\ Fresh(v) # Absent
  BY FreshIs, Zenon
<1>6. /\ Does(s, t, b, a) /\ Found(t, a) = Fresh(v) /\ t.stateObjects[a] = Fresh(v)
      /\ \A x \in Addrs : Bare(t, x) => IF x = a THEN e.change = "reset" ELSE Bare(s, x)
  BY <1>1, <1>4, <1>5, ChangeDoes
<1> QED BY <1>6, Zenon DEF e

\* getStateObject.
LEMMA GetDoes ==
  ASSUME NEW s, NEW b, Good(s, b), NEW a \in Addrs
  PROVE /\ Does(s, getStateObject(s, a), b, a)
        /\ getStateObject(s, a).stateObjects[a] = Found(s, a)
        /\ Found(getStateObject(s, a), a) = Found(s, a)
        /\ \A x : Bare(getStateObject(s, a), x) <=> Bare(s, x)
<1>1. /\ getStateObject(s, a).stateObjects[a] = Found(s, a)
      /\ getStateObject(s, a).journal = s.journal
      /\ \A x \in Addrs : Found(getStateObject(s, a), x) = Found(s, x)
  BY GetIs
<1>2. Keeps(s, getStateObject(s, a), b, a) /\ Follows(s, getStateObject(s, a), b)
  BY GetGood, GetFollows, Zenon DEF Keeps
<1> QED BY <1>1, <1>2, Zenon DEF Does, Bare

\* createObject and CreateAccount, on an account that has been loaded.
LEMMA CreateDoes ==
  ASSUME NEW s, NEW b, Good(s, b), NEW a \in Addrs, Has(s, a),
         s.stateObjects[a] = Found(s, a), Pinned(b[a]) => ~Live(Found(s, a))
  PROVE /\ LET t == createObject(s, a)
           IN /\ Does(s, t, b, a) /\ Found(t, a) = Fresh(0) /\ t.stateObjects[a] = Fresh(0)
              /\ \A x \in Addrs : Bare(t, x) => x = a \/ Bare(s, x)
        /\ LET t == CreateAccount(s, a)
           IN /\ Does(s, t, b, a) /\ Found(t, a) = Fresh(Account(s, a).balance)
              /\ \A x \in Addrs : Bare(t, x) => x = a \/ Bare(s, x)
<1> DEFINE e == IF s.stateObjects[a] = Absent THEN [change |-> "create", account |-> a]
                ELSE [change |-> "reset", account |-> a, prev |-> s.stateObjects[a]]
           t(v) == Put(log(s, e), a, Fresh(v))
           w == Account(s, a).balance
<1>1. \A v : /\ Does(s, t(v), b, a) /\ Found(t(v), a) = Fresh(v) /\ t(v).stateObjects[a] = Fresh(v)
             /\ \A x \in Addrs : Bare(t(v), x) => x = a \/ Bare(s, x)
  BY ReplaceDoes, Zenon
<1>2. createObject(s, a) = t(0)
  <2>1. s.stateObjects[a] # Absent \/ s.trie[a] = Absent
    BY FoundIs, Zenon DEF Good
  <2>2. getDeletedStateObject(s, a) = s
    BY <2>1, Zenon DEF getDeletedStateObject
  <2>3. createObject(s, a) = Put(log(s, e), a, newObject(EmptyAccount))
    BY <2>2, Zenon DEF createObject, replaceObject, Put
  <2> QED BY <2>3, FreshIs, Zenon
<1>3. CreateAccount(s, a) = t(w)
  <2>1. CreateAccount(s, a) = [t(0) EXCEPT !.stateObjects[a].balance = w]
    BY <1>2, Zenon DEF CreateAccount
  <2>2. t(0).stateObjects[a] = newObject(EmptyAccount)
    BY <1>1, FreshIs, Zenon
  <2> HIDE DEF e, w
  <2>3. [t(0) EXCEPT !.stateObjects[a].balance = w]
          = [t(0) EXCEPT !.stateObjects[a] = [t(0).stateObjects[a] EXCEPT !.balance = w]]
    BY Zenon
  <2>4. [t(0).stateObjects[a] EXCEPT !.balance = w] = Fresh(w)
    BY <2>2, Zenon DEF Fresh
  <2>5. Put(t(0), a, Fresh(w)) = t(w)
    <3> DEFINE l == log(s, e)
    <3>1. l = [l EXCEPT !.stateObjects = l.stateObjects]
          /\ DOMAIN l = {"trie", "stateObjects", "journal", "ResearchPreAlloc",
                         "ResearchPostAlloc", "ResearchBlockHashes"}
      BY Zenon DEF log, Good, Shape
    <3> HIDE DEF l
    <3> QED BY <3>1 DEF Put, l
  <2> QED BY <2>1, <2>3, <2>4, <2>5, Zenon DEF Put
<1> HIDE DEF e, t, w
<1>4. /\ Does(s, t(0), b, a) /\ Found(t(0), a) = Fresh(0) /\ t(0).stateObjects[a] = Fresh(0)
      /\ \A x \in Addrs : Bare(t(0), x) => x = a \/ Bare(s, x)
  BY <1>1, Zenon
<1>5. /\ Does(s, t(w), b, a) /\ Found(t(w), a) = Fresh(w)
      /\ \A x \in Addrs : Bare(t(w), x) => x = a \/ Bare(s, x)
  BY <1>1, Zenon
<1> QED BY <1>2, <1>3, <1>4, <1>5, Zenon DEF w

\* GetOrNewStateObject: a live object is there afterwards.
LEMMA GetOrNewDoes ==
  ASSUME NEW s, NEW b, Good(s, b), NEW a \in Addrs
  PROVE LET u == GetOrNewStateObject(s, a)
        IN /\ Does(s, u, b, a) /\ Live(Found(u, a)) /\ u.stateObjects[a] = Found(u, a)
           /\ Live(Found(s, a)) => Found(u, a) = Found(s, a)
           /\ ~Live(Found(s, a)) => Found(u, a) = Fresh(0)
           /\ \A x \in Addrs : Bare(u, x) => Bare(s, x) \/ (x = a /\ ~Live(Found(s, a)))
<1> DEFINE t == getStateObject(s, a)
           u == GetOrNewStateObject(s, a)
<1>1. /\ Does(s, t, b, a) /\ t.stateObjects[a] = Found(s, a) /\ Found(t, a) = Found(s, a)
      /\ \A x : Bare(t, x) <=> Bare(s, x)
  BY GetDoes, Zenon
<1>2. Good(t, b) /\ Has(t, a)
  BY <1>1, Zenon DEF Does, Keeps
<1>3. u = IF Live(t.stateObjects[a]) THEN t ELSE createObject(t, a)
  BY Zenon DEF GetOrNewStateObject, liveOrNew
<1> HIDE DEF t, u
<1>4. CASE Live(Found(s, a))
  <2>1. u = t
    BY <1>1, <1>3, <1>4, Zenon
  <2> QED BY <1>1, <1>4, <2>1, Zenon DEF u
<1>5. CASE ~Live(Found(s, a))
  <2> DEFINE c == createObject(t, a)
  <2>1. /\ Does(t, c, b, a) /\ Found(c, a) = Fresh(0) /\ c.stateObjects[a] = Fresh(0)
        /\ \A x \in Addrs : Bare(c, x) => x = a \/ Bare(t, x)
    BY <1>1, <1>2, <1>5, CreateDoes
  <2>2. u = c
    BY <1>1, <1>3, <1>5, Zenon
  <2> HIDE DEF c
  <2>3. Does(s, c, b, a)
    BY <1>1, <2>1, DoesAgain, Zenon
  <2>4. Live(Fresh(0))
    BY FreshIs, Zenon
  <2> QED BY <1>1, <1>5, <2>1, <2>2, <2>3, <2>4, Zenon DEF u
<1> QED BY <1>4, <1>5, Zenon

\* a method on the live account a that leaves an entry other than a reset
Logs(s, t, b, a) ==
  Does(s, t, b, a) /\ Live(Found(t, a)) /\ \A x \in Addrs : Bare(t, x) => x # a /\ Bare(s, x)

\* A live object that has been loaded.
Ready(s, b, a) ==
  Good(s, b) /\ Has(s, a) /\ s.stateObjects[a] = Found(s, a) /\ Live(Found(s, a))

\* A change of such an object that is no replacement.
LEMMA ChangeLogs ==
  ASSUME NEW s, NEW b, NEW a \in Addrs, Ready(s, b, a), NEW e, Entry(e, a), e.change # "reset",
         NEW p, Obj(p), Live(p),
         Current(s.stateObjects[a], b[a])
           => Change(e, s.stateObjects[a], p, b[a], s.trie[a])
  PROVE Logs(s, Put(log(s, e), a, p), b, a)
<1>1. Good(s, b) /\ Has(s, a) /\ s.stateObjects[a] = Found(s, a) /\ Live(Found(s, a))
  BY Zenon DEF Ready
<1>2. \A H : Whole(s, b, H) => Change(e, Found(s, a), p, b[a], s.trie[a])
  BY <1>1, NowFits, Zenon
<1>3. p # Absent
  BY Zenon DEF Live
<1>4. /\ Does(s, Put(log(s, e), a, p), b, a) /\ Found(Put(log(s, e), a, p), a) = p
      /\ \A x \in Addrs : Bare(Put(log(s, e), a, p), x) =>
            IF x = a THEN e.change = "reset" ELSE Bare(s, x)
  BY <1>1, <1>2, <1>3, ChangeDoes
<1> QED BY <1>4, Zenon DEF Logs

\* the setter of a field
SetField(s, a, x, v) ==
  Put(log(s, [change |-> x, account |-> a, prev |-> s.stateObjects[a][x]]),
      a, [s.stateObjects[a] EXCEPT ![x] = v])

\* Setters of one field.
LEMMA SetFieldLogs ==
  ASSUME NEW s, NEW b, NEW a \in Addrs, Ready(s, b, a), NEW v,
         NEW x \in {"balance", "nonce", "code"}, x = "code" => ~Pinned(b[a])
  PROVE Logs(s, SetField(s, a, x, v), b, a)
<1> DEFINE o == s.stateObjects[a]
           p == [o EXCEPT ![x] = v]
           e == [change |-> x, account |-> a, prev |-> o[x]]
<1>1. Entry(e, a) /\ e.change # "reset" /\ e.change = x /\ e.prev = o[x]
  BY Zenon DEF Entry, Changes
<1>2. Obj(o) /\ Live(o) /\ x \in Fields
  BY Zenon DEF Ready, Good, Shape, Fields
<1>3. Fields \subseteq DOMAIN o
  BY <1>2, LiveFields, Zenon
<1>4. Obj(p)
  BY <1>2, ExceptObj, Zenon
<1>5. p # Absent /\ \A y \in Fields : y # x => p[y] = o[y]
  BY <1>2, <1>3, FieldsKept, Zenon
<1> HIDE DEF e
<1>6. Current(o, b[a]) => Change(e, o, p, b[a], s.trie[a])
  BY <1>1, FieldChange, Zenon
<1> HIDE DEF p
<1>7. Live(p)
  BY <1>2, <1>5, Zenon DEF Live, Fields
<1>8. Logs(s, Put(log(s, e), a, p), b, a)
  BY <1>1, <1>4, <1>6, <1>7, ChangeLogs, Zenon
<1> QED BY <1>8, Zenon DEF e, p, SetField

\* The methods of a state object that always leave an entry.
LEMMA SettersLog ==
  ASSUME NEW s, NEW b, NEW a \in Addrs, Ready(s, b, a), NEW v
  PROVE /\ Logs(s, setBalance(s, a, v), b, a)
        /\ Logs(s, setNonce(s, a, v), b, a)
        /\ ~Pinned(b[a]) => Logs(s, setCode(s, a, v), b, a)
        /\ Logs(s, log(s, [change |-> "touch", account |-> a]), b, a)
        /\ Logs(s, markSuicided(s, a), b, a)
<1> DEFINE obj == s.stateObjects[a]
<1>a. \A e : log(s, e).stateObjects = s.stateObjects
  BY Zenon DEF log, Ready, Good, Shape
<1>b. Obj(obj) /\ Live(obj)
  BY Zenon DEF Ready, Good, Shape
<1>c. Fields \subseteq DOMAIN obj
  BY <1>b, LiveFields, Zenon
<1>1. Logs(s, setBalance(s, a, v), b, a)
  <2>1. setBalance(s, a, v) = SetField(s, a, "balance", v)
    BY <1>a, Zenon DEF setBalance, Put, SetField
  <2> QED BY <2>1, SetFieldLogs, Zenon
<1>2. Logs(s, setNonce(s, a, v), b, a)
  <2>1. setNonce(s, a, v) = SetField(s, a, "nonce", v)
    BY <1>a, Zenon DEF setNonce, Put, SetField
  <2> QED BY <2>1, SetFieldLogs, Zenon
<1>3. ~Pinned(b[a]) => Logs(s, setCode(s, a, v), b, a)
  <2>1. setCode(s, a, v) = SetField(s, a, "code", v)
    BY <1>a, Zenon DEF setCode, Put, SetField
  <2> QED BY <2>1, SetFieldLogs, Zenon
<1>4. Logs(s, log(s, [change |-> "touch", account |-> a]), b, a)
  <2> DEFINE e == [change |-> "touch", account |-> a]
  <2>1. Entry(e, a) /\ e.change = "touch"
    BY Zenon DEF Entry, Changes
  <2> HIDE DEF e, obj
  <2>2. log(s, e) = Put(log(s, e), a, obj)
    BY <1>a, Zenon DEF Put, log, Ready, Good, Shape, obj
  <2>3. Current(obj, b[a]) => Change(e, obj, obj, b[a], s.trie[a])
    BY <2>1, TouchChange, Zenon
  <2>4. Logs(s, Put(log(s, e), a, obj), b, a)
    BY <1>b, <2>1, <2>3, ChangeLogs, Zenon DEF obj
  <2> QED BY <2>2, <2>4, Zenon DEF e
<1>5. Logs(s, markSuicided(s, a), b, a)
  <2> DEFINE e == [change |-> "suicide", account |-> a,
                   prev |-> [suicided |-> obj.suicided, balance |-> obj.balance]]
             p == Killed(obj, TRUE, 0)
  <2>1. /\ Entry(e, a) /\ e.change = "suicide"
        /\ e.prev = [suicided |-> obj.suicided, balance |-> obj.balance]
    BY Zenon DEF Entry, Changes
  <2>2. markSuicided(s, a) = [log(s, e) EXCEPT !.stateObjects[a].suicided = TRUE,
                                               !.stateObjects[a].balance = 0]
    BY <1>b, Zenon DEF markSuicided
  <2> HIDE DEF e, obj
  <2>3. markSuicided(s, a) = Put(log(s, e), a, p)
    BY <1>a, <2>2, Zenon DEF Put, log, Ready, Good, Shape, obj, Killed
  <2>a. Kills(p, obj, TRUE, 0)
    BY <1>c, KilledFields, Zenon
  <2>6. Current(obj, b[a]) => Change(e, obj, p, b[a], s.trie[a])
    BY <2>1, SuicideChange, Zenon
  <2> HIDE DEF p
  <2>4. Obj(p) /\ p # Absent /\ p.deleted = obj.deleted
    BY <2>a, Zenon DEF Kills
  <2>5. Live(p)
    BY <1>b, <2>4, Zenon DEF Live
  <2>7. Logs(s, Put(log(s, e), a, p), b, a)
    BY <2>1, <2>4, <2>5, <2>6, ChangeLogs, Zenon DEF obj
  <2> QED BY <2>3, <2>7, Zenon
<1> QED BY <1>1, <1>2, <1>3, <1>4, <1>5, Zenon

\* no account becomes bare
Covers(s, t) == \A x \in Addrs : Bare(t, x) => Bare(s, x)

\* Any entry after GetOrNewStateObject makes up for the reset it may have left.
LEMMA ThenLogs ==
  ASSUME NEW s, NEW t, NEW u, NEW b, NEW a \in Addrs, Does(s, t, b, a), Logs(t, u, b, a),
         \A x \in Addrs : x # a /\ Bare(t, x) => Bare(s, x)
  PROVE Logs(s, u, b, a) /\ Covers(s, u) /\ ~Bare(u, a)
<1>1. Does(s, u, b, a)
  BY DoesAgain, Zenon DEF Logs
<1> QED BY <1>1, Zenon DEF Logs, Covers

\* The setters of the StateDB.
LEMMA MethodsDo ==
  ASSUME NEW s, NEW b, Good(s, b), NEW a \in Addrs, NEW v
  PROVE /\ Logs(s, SetNonce(s, a, v), b, a) /\ Covers(s, SetNonce(s, a, v))
        /\ ~Pinned(b[a]) => Logs(s, SetCode(s, a, v), b, a) /\ Covers(s, SetCode(s, a, v))
        /\ Does(s, AddBalance(s, a, v), b, a) /\ Live(Found(AddBalance(s, a, v), a))
        /\ Covers(s, AddBalance(s, a, v))
        /\ v # 0 \/ ~Live(Found(s, a)) \/ empty(Found(s, a)) => ~Bare(AddBalance(s, a, v), a)
        /\ Does(s, SubBalance(s, a, v), b, a) /\ Live(Found(SubBalance(s, a, v), a))
        /\ \/ Covers(s, SubBalance(s, a, v))
           \/ /\ v = 0 /\ ~Live(Found(s, a)) /\ Found(SubBalance(s, a, v), a) = Fresh(0)
              /\ \A x \in Addrs : Bare(SubBalance(s, a, v), x) => x = a \/ Bare(s, x)
        /\ Does(s, Suicide(s, a), b, a) /\ Covers(s, Suicide(s, a))
<1> DEFINE g == getStateObject(s, a)
           u == GetOrNewStateObject(s, a)
<1>1. /\ Does(s, u, b, a) /\ Live(Found(u, a)) /\ u.stateObjects[a] = Found(u, a)
      /\ Live(Found(s, a)) => Found(u, a) = Found(s, a)
      /\ ~Live(Found(s, a)) => Found(u, a) = Fresh(0)
      /\ \A x \in Addrs : Bare(u, x) => Bare(s, x) \/ (x = a /\ ~Live(Found(s, a)))
  BY GetOrNewDoes
<1>2. /\ Does(s, g, b, a) /\ g.stateObjects[a] = Found(s, a) /\ Found(g, a) = Found(s, a)
      /\ \A x : Bare(g, x) <=> Bare(s, x)
  BY GetDoes, Zenon
<1>3. /\ SetNonce(s, a, v) = setNonce(u, a, v) /\ SetCode(s, a, v) = setCode(u, a, v)
      /\ AddBalance(s, a, v) = addBalance(u, a, v)
      /\ SubBalance(s, a, v) = subBalance(u, a, v)
      /\ Suicide(s, a) = markSuicided(g, a)
  BY Zenon DEF SetNonce, SetCode, AddBalance, SubBalance, Suicide
<1> HIDE DEF g, u
<1>4. Ready(u, b, a)
  BY <1>1, Zenon DEF Ready, Does, Keeps
<1>5. /\ \A w : Logs(u, setBalance(u, a, w), b, a)
      /\ Logs(u, setNonce(u, a, v), b, a)
      /\ ~Pinned(b[a]) => Logs(u, setCode(u, a, v), b, a)
      /\ Logs(u, log(u, [change |-> "touch", account |-> a]), b, a)
  BY <1>4, SettersLog, Zenon
<1>6. \A t : Logs(u, t, b, a) => Logs(s, t, b, a) /\ Covers(s, t) /\ ~Bare(t, a)
  BY <1>1, ThenLogs, Zenon
<1>7. Logs(s, SetNonce(s, a, v), b, a) /\ Covers(s, SetNonce(s, a, v))
  BY <1>3, <1>5, <1>6, Zenon
<1>8. ~Pinned(b[a]) => Logs(s, SetCode(s, a, v), b, a) /\ Covers(s, SetCode(s, a, v))
  BY <1>3, <1>5, <1>6, Zenon
<1>9. /\ Does(s, AddBalance(s, a, v), b, a) /\ Live(Found(AddBalance(s, a, v), a))
      /\ Covers(s, AddBalance(s, a, v))
      /\ v # 0 \/ ~Live(Found(s, a)) \/ empty(Found(s, a)) => ~Bare(AddBalance(s, a, v), a)
  <2>1. \/ /\ Logs(u, AddBalance(s, a, v), b, a)
        \/ AddBalance(s, a, v) = u /\ v = 0 /\ ~empty(Found(u, a))
    BY <1>1, <1>3, <1>5, Zenon DEF addBalance
  <2>2. CASE Logs(u, AddBalance(s, a, v), b, a)
    BY <1>6, <2>2, Zenon DEF Logs
  <2>3. CASE AddBalance(s, a, v) = u /\ v = 0 /\ ~empty(Found(u, a))
    <3>1. Live(Found(s, a))
      BY <1>1, <2>3, FreshIs, Zenon
    <3> QED BY <1>1, <2>3, <3>1, Zenon DEF Covers
  <2> QED BY <2>1, <2>2, <2>3, Zenon
<1>10. /\ Does(s, SubBalance(s, a, v), b, a) /\ Live(Found(SubBalance(s, a, v), a))
       /\ \/ Covers(s, SubBalance(s, a, v))
          \/ /\ v = 0 /\ ~Live(Found(s, a)) /\ Found(SubBalance(s, a, v), a) = Fresh(0)
             /\ \A x \in Addrs : Bare(SubBalance(s, a, v), x) => x = a \/ Bare(s, x)
  <2>1. \/ Logs(u, SubBalance(s, a, v), b, a)
        \/ SubBalance(s, a, v) = u /\ v = 0
    BY <1>3, <1>5, Zenon DEF subBalance
  <2>2. CASE Logs(u, SubBalance(s, a, v), b, a)
    BY <1>6, <2>2, Zenon DEF Logs
  <2>3. CASE SubBalance(s, a, v) = u /\ v = 0
    <3>1. CASE Live(Found(s, a))
      BY <1>1, <2>3, <3>1, Zenon DEF Covers
    <3>2. CASE ~Live(Found(s, a))
      BY <1>1, <2>3, <3>2, Zenon
    <3> QED BY <3>1, <3>2, Zenon
  <2> QED BY <2>1, <2>2, <2>3, Zenon
<1>11. Does(s, Suicide(s, a), b, a) /\ Covers(s, Suicide(s, a))
  <2>1. CASE ~Live(Found(s, a))
    <3>1. Suicide(s, a) = g
      BY <1>2, <1>3, <2>1, Zenon DEF markSuicided
    <3> QED BY <1>2, <3>1, Zenon DEF Covers
  <2>2. CASE Live(Found(s, a))
    <3>1. Ready(g, b, a)
      BY <1>2, <2>2, Zenon DEF Ready, Does, Keeps
    <3>2. Logs(g, Suicide(s, a), b, a)
      BY <1>3, <3>1, SettersLog, Zenon
    <3>3. Logs(s, Suicide(s, a), b, a) /\ Covers(s, Suicide(s, a))
      BY <1>2, <3>2, ThenLogs, Zenon
    <3> QED BY <3>3, Zenon DEF Logs
  <2> QED BY <2>1, <2>2, Zenon
<1> QED BY <1>7, <1>8, <1>9, <1>10, <1>11, Zenon

\* What is paid from an account that may not be there.
LEMMA SubBalanceDoes ==
  ASSUME NEW s, NEW b, Good(s, b), NEW a \in Addrs, NEW v
  PROVE /\ Does(s, SubBalance(s, a, v), b, a)
        /\ \/ Covers(s, SubBalance(s, a, v))
           \/ /\ v = 0 /\ ~Live(Found(s, a)) /\ Found(SubBalance(s, a, v), a) = Fresh(0)
              /\ \A x \in Addrs : Bare(SubBalance(s, a, v), x) => x = a \/ Bare(s, x)
<1> DEFINE t == SubBalance(s, a, v)
<1>1. Does(s, t, b, a)
  BY MethodsDo, Zenon
<1>2. \/ Covers(s, t)
      \/ /\ v = 0 /\ ~Live(Found(s, a)) /\ Found(t, a) = Fresh(0)
         /\ \A x \in Addrs : Bare(t, x) => x = a \/ Bare(s, x)
  BY MethodsDo, Zenon
<1> QED BY <1>1, <1>2, Zenon

\* GetState's mark on a slot is no change.
LEMMA TouchDoes ==
  ASSUME NEW s, NEW b, Good(s, b), NEW a \in Addrs, Has(s, a), NEW k \in Keys,
         s.stateObjects[a] = Found(s, a)
  PROVE /\ Does(s, touchSlot(s, a, k), b, a) /\ Covers(s, touchSlot(s, a, k))
        /\ Found(touchSlot(s, a, k), a) = touchSlot(s, a, k).stateObjects[a]
        /\ Live(Found(s, a)) => /\ Live(Found(touchSlot(s, a, k), a))
                                /\ k \in Found(touchSlot(s, a, k), a).ResearchTouched
<1> DEFINE o == s.stateObjects[a]
           p == [o EXCEPT !.ResearchTouched = @ \union {k}]
           t == touchSlot(s, a, k)
<1>1. t = Put(s, a, p)
  BY Zenon DEF touchSlot, Put
<1>2. Obj(o)
  BY Zenon DEF Good, Shape
<1>3. Local(s, t, a)
  BY SettersLocal, Zenon
<1>4. Keeps(s, t, b, a)
  BY <1>3, LocalGood, Zenon DEF Keeps
<1>5. Follows(s, t, b)
  BY TouchFollows, Zenon
<1>6. /\ t.stateObjects[a] = p /\ t.journal = s.journal /\ Aside(s, t, a)
  BY <1>1, PutIs
<1> HIDE DEF t
<1>7. \A x \in Addrs : x # a => Found(t, x) = Found(s, x)
  <2>1. Shape(s) /\ Shape(t)
    BY <1>4, Zenon DEF Good, Keeps
  <2> HIDE DEF o, p
  <2> QED BY <1>6, <2>1, AsideFound, Zenon
<1>8. Live(o) => p # Absent /\ p.deleted = o.deleted /\ k \in p.ResearchTouched
  <2> SUFFICES ASSUME Live(o) PROVE p # Absent /\ p.deleted = o.deleted /\ k \in p.ResearchTouched
    BY Zenon
  <2>1. Fields \subseteq DOMAIN o
    BY <1>2, LiveFields, Zenon
  <2> QED BY <2>1, FieldsKept, Zenon DEF Fields
<1>9. o = Absent => p = Absent
  BY Zenon DEF Absent
<1> HIDE DEF p
<1>10. Found(t, a) = t.stateObjects[a]
  <2>1. o # Absent \/ s.trie[a] = Absent
    BY FoundIs, Zenon DEF Good
  <2>2. o # Absent => p # Absent
    <3>1. ASSUME Fields \subseteq DOMAIN o PROVE p # Absent
      <4>1. "nonce" \in DOMAIN p
        BY <3>1, Zenon DEF Fields, p
      <4>2. "nonce" \notin DOMAIN Absent
        BY Zenon DEF Absent
      <4> QED BY <4>1, <4>2, Zenon
    <3> QED BY <1>2, <3>1, Zenon DEF Obj
  <2>3. t.stateObjects[a] # Absent \/ t.trie[a] = Absent
    BY <1>6, <2>1, <2>2, Zenon DEF Aside
  <2> QED BY <1>4, <2>3, FoundIs, Zenon DEF Good, Keeps
<1>11. Live(o) => Live(p)
  BY <1>8, Zenon DEF Live
<1>12. Does(s, t, b, a) /\ Covers(s, t)
  BY <1>4, <1>5, <1>6, <1>7, Zenon DEF Does, Covers, Bare
<1> QED BY <1>6, <1>8, <1>10, <1>11, <1>12, Zenon DEF t

\* GetState.
LEMMA GetStateDoes ==
  ASSUME NEW s, NEW b, Good(s, b), NEW a \in Addrs, NEW k \in Keys
  PROVE Does(s, GetState(s, a, k), b, a) /\ Covers(s, GetState(s, a, k))
<1> DEFINE g == getStateObject(s, a)
<1>1. /\ Does(s, g, b, a) /\ g.stateObjects[a] = Found(s, a) /\ Found(g, a) = Found(s, a)
      /\ \A x : Bare(g, x) <=> Bare(s, x)
  BY GetDoes, Zenon
<1>2. GetState(s, a, k) \in {g, touchSlot(g, a, k)}
  BY Zenon DEF GetState, touchLive
<1> HIDE DEF g
<1>3. Good(g, b) /\ Has(g, a)
  BY <1>1, Zenon DEF Does, Keeps
<1>4. Does(g, touchSlot(g, a, k), b, a) /\ Covers(g, touchSlot(g, a, k))
  BY <1>1, <1>3, TouchDoes, Zenon
<1>5. Does(s, touchSlot(g, a, k), b, a)
  BY <1>1, <1>4, DoesAgain, Zenon
<1> QED BY <1>1, <1>2, <1>4, <1>5, Zenon DEF Covers

\* SetState on a live account.
LEMMA SetStateDoes ==
  ASSUME NEW s, NEW b, Good(s, b), NEW a \in Addrs, NEW k \in Keys, NEW v,
         Live(Found(s, a)), Pinned(b[a]) => b[a].code # NoCode
  PROVE Does(s, SetState(s, a, k, v), b, a) /\ Covers(s, SetState(s, a, k, v))
<1> DEFINE u == GetOrNewStateObject(s, a)
           w == touchSlot(u, a, k)
           obj == w.stateObjects[a]
           e == [change |-> "storage", account |-> a, key |-> k, prev |-> Slot(obj, k)]
           p == [obj EXCEPT !.dirty = Written(obj.dirty, k, v)]
<1>1. /\ Does(s, u, b, a) /\ Live(Found(u, a)) /\ u.stateObjects[a] = Found(u, a)
      /\ \A x \in Addrs : Bare(u, x) => Bare(s, x)
  BY GetOrNewDoes
<1>2. SetState(s, a, k, v) = writeSlot(w, a, k, v)
  BY Zenon DEF SetState
<1> HIDE DEF u
<1>3. Good(u, b) /\ Has(u, a)
  BY <1>1, Zenon DEF Does, Keeps
<1>4. /\ Does(u, w, b, a) /\ Covers(u, w) /\ Found(w, a) = obj
      /\ Live(obj) /\ k \in obj.ResearchTouched
  BY <1>1, <1>3, TouchDoes, Zenon
<1> HIDE DEF w
<1>5. Does(s, w, b, a)
  BY <1>1, <1>4, DoesAgain, Zenon
<1>6. Ready(w, b, a)
  BY <1>4, Zenon DEF Ready, Does, Keeps
<1>7. log(w, e).stateObjects = w.stateObjects
  BY <1>6, Zenon DEF log, Ready, Good, Shape
<1>8. writeSlot(w, a, k, v) \in {w, Put(log(w, e), a, p)}
  BY <1>7, Zenon DEF writeSlot, setState, Put, Written
<1>9. /\ Entry(e, a) /\ e.change = "storage" /\ e.key = k /\ e.prev = Slot(obj, k)
      /\ e.change # "reset"
  BY Zenon DEF Entry, Changes
<1> HIDE DEF e
<1>10. Obj(obj)
  BY <1>6, Zenon DEF Ready, Good, Shape
<1>11. Fields \subseteq DOMAIN obj
  BY <1>4, <1>10, LiveFields, Zenon
<1>12. Obj(p)
  BY <1>10, ExceptObj, Zenon DEF Fields
<1>13. Wrote(p, obj, k, v)
  BY <1>11, WrittenSlot, Zenon
<1>14. Current(obj, b[a]) => Change(e, obj, p, b[a], w.trie[a])
  BY <1>4, <1>9, SlotChange, Zenon
<1> HIDE DEF p
<1>15. Live(p)
  BY <1>4, <1>13, Zenon DEF Live, Wrote
<1>16. Logs(w, Put(log(w, e), a, p), b, a)
  BY <1>6, <1>9, <1>12, <1>14, <1>15, ChangeLogs, Zenon
<1>17. Covers(s, w)
  BY <1>1, <1>4, Zenon DEF Covers
<1>18. Does(s, Put(log(w, e), a, p), b, a) /\ Covers(s, Put(log(w, e), a, p))
  <2>1. \A x \in Addrs : x # a /\ Bare(w, x) => Bare(s, x)
    BY <1>17, Zenon DEF Covers
  <2>2. Logs(s, Put(log(w, e), a, p), b, a) /\ Covers(s, Put(log(w, e), a, p))
    BY <1>5, <1>16, <2>1, ThenLogs, Zenon
  <2> QED BY <2>2, Zenon DEF Logs
<1> QED BY <1>2, <1>5, <1>8, <1>17, <1>18, Zenon

-----------------------------------------------------------------------------
(* Frames.                                                                  *)

\* one of the first n frames is creating x
Creator(f, n, x) == \E i \in 1 .. n : f[i].creates /\ f[i].self = x

\* frame n of f, when the journal goes up to length l: its account has been live since
\* before any frame above it took a snapshot, and what is bare at its snapshot is being
\* created below it
FrameFits(j, b, H, f, n, l) ==
  /\ Pinned(b[f[n].self]) => b[f[n].self].code # NoCode /\ ~f[n].creates
  /\ \A x \in Addrs : BareAt(j, f[n].snapshot, x) => Creator(f, n - 1, x)
  /\ \E q \in f[n].snapshot .. l :
        /\ \A m \in 1 .. Len(f) : n < m => q <= f[m].snapshot
        /\ \A i \in q .. l : Live(H[i][f[n].self])
FramesFit(j, b, H, f, l) == \A n \in 1 .. Len(f) : FrameFits(j, b, H, f, n, l)

\* what is bare is being created
BareCreated(j, f, l) == \A x \in Addrs : BareAt(j, l, x) => Creator(f, Len(f), x)

\* the running transaction, between operations
Fit(s, b, H, f) ==
  /\ Whole(s, b, H) /\ FramesFit(s.journal, b, H, f, Len(s.journal))
  /\ BareCreated(s.journal, f, Len(s.journal))

\* What a journal says up to some length does not depend on the rest.
LEMMA BareSame ==
  ASSUME NEW j, NEW k, NEW l, \A i \in 1 .. l : j[i] = k[i], NEW x
  PROVE BareAt(j, l, x) <=> BareAt(k, l, x)
BY Zenon DEF BareAt

\* Frames stay as they are while the journal grows, and so they do when frames with later
\* snapshots come on top.
LEMMA FramesExtend ==
  ASSUME NEW s, NEW t, NEW b, NEW H, NEW G, NEW f \in Seq(Frame), Whole(s, b, H),
         Extends(s, H, t, G), FramesFit(s.journal, b, H, f, Len(s.journal)),
         NEW g \in Seq(Frame), \A i \in 1 .. Len(f) : g[i] = f[i],
         \A i \in 1 .. Len(g) : i \in 1 .. Len(f) \/ Len(s.journal) <= g[i].snapshot
  PROVE \A n \in 1 .. Len(f) : FrameFits(t.journal, b, G, g, n, Len(t.journal))
<1> DEFINE l == Len(s.journal)
           m == Len(t.journal)
<1>1. /\ l \in Nat /\ m \in Nat /\ l <= m
      /\ \A i \in 1 .. l : t.journal[i] = s.journal[i]
      /\ \A i \in 0 .. l : G[i] = H[i]
      /\ \A a \in Addrs : Live(Found(s, a)) => \A i \in l .. m : Live(G[i][a])
  BY Zenon DEF Extends
<1> TAKE n \in 1 .. Len(f)
<1> DEFINE self == f[n].self
           h == f[n].snapshot
<1>2. f[n] \in Frame
  OBVIOUS
<1>a. self \in Addrs /\ h \in Nat
  BY <1>2, Zenon DEF Frame
<1>3. FrameFits(s.journal, b, H, f, n, l)
  BY Zenon DEF FramesFit
<1>4. PICK q \in h .. l : /\ \A i \in 1 .. Len(f) : n < i => q <= f[i].snapshot
                          /\ \A i \in q .. l : Live(H[i][self])
  BY <1>3, Zenon DEF FrameFits
<1>b. g[n].self = self /\ g[n].snapshot = h /\ g[n].creates = f[n].creates
  BY Zenon
<1>c. \A x : Creator(g, n - 1, x) <=> Creator(f, n - 1, x)
  <2>1. \A i \in 1 .. n - 1 : i \in 1 .. Len(f)
    OBVIOUS
  <2> QED BY <2>1, Zenon DEF Creator
<1> HIDE DEF l, m, h, self
<1>5. q \in h .. m /\ l \in q .. l /\ h <= l
  BY <1>1, <1>a, <1>4
<1>d. \A i \in 1 .. Len(g) : n < i => q <= g[i].snapshot
  <2> SUFFICES ASSUME NEW i \in 1 .. Len(g), n < i PROVE q <= g[i].snapshot
    BY Zenon
  <2>1. CASE i \in 1 .. Len(f)
    BY <1>4, <2>1, Zenon
  <2>2. CASE l <= g[i].snapshot
    <3>1. g[i] \in Frame
      OBVIOUS
    <3>2. g[i].snapshot \in Nat
      BY <3>1, Zenon DEF Frame
    <3> QED BY <1>1, <1>a, <1>4, <2>2, <3>2
  <2> QED BY <2>1, <2>2, Zenon DEF l
<1>6. Live(Found(s, self))
  BY <1>a, <1>4, <1>5, NowFits, Zenon DEF l
<1>7. \A i \in q .. m : Live(G[i][self])
  <2>1. \A i \in q .. m : i \in l .. m \/ (i \in q .. l /\ i \in 0 .. l)
    BY <1>1, <1>a, <1>4
  <2> QED BY <1>1, <1>a, <1>4, <1>6, <2>1, Zenon
<1>8. \A i \in 1 .. h : t.journal[i] = s.journal[i]
  <2>1. \A i \in 1 .. h : i \in 1 .. l
    BY <1>1, <1>a, <1>5
  <2> QED BY <1>1, <2>1, Zenon
<1>9. \A x \in Addrs : BareAt(t.journal, h, x) => Creator(g, n - 1, x)
  BY <1>3, <1>8, <1>c, BareSame, Zenon DEF FrameFits, h
<1> QED BY <1>3, <1>4, <1>5, <1>7, <1>9, <1>b, <1>d, Zenon DEF FrameFits, h, self, m

\* The creators of a longer stack.
LEMMA CreatorAppend ==
  ASSUME NEW f \in Seq(Frame), NEW fr, NEW g, g = Append(f, fr)
  PROVE /\ Len(f) \in Nat /\ Len(g) = Len(f) + 1 /\ g[Len(f) + 1] = fr
        /\ \A i \in 1 .. Len(f) : g[i] = f[i]
        /\ \A n \in 0 .. Len(f) : \A x : Creator(g, n, x) <=> Creator(f, n, x)
        /\ \A x : Creator(f, Len(f), x) => Creator(g, Len(g), x)
        /\ fr.creates => Creator(g, Len(g), fr.self)
<1>1. /\ Len(f) \in Nat /\ Len(g) = Len(f) + 1 /\ g[Len(f) + 1] = fr
      /\ \A i \in 1 .. Len(f) : g[i] = f[i]
  OBVIOUS
<1>2. \A n \in 0 .. Len(f) : \A i \in 1 .. n : i \in 1 .. Len(f)
  BY <1>1
<1>3. \A n \in 0 .. Len(f) : \A x : Creator(g, n, x) <=> Creator(f, n, x)
  BY <1>1, <1>2, Zenon DEF Creator
<1>4. Len(f) + 1 \in 1 .. Len(g) /\ \A i \in 1 .. Len(f) : i \in 1 .. Len(g)
  BY <1>1
<1>5. \A x : Creator(f, Len(f), x) => Creator(g, Len(g), x)
  BY <1>1, <1>4, Zenon DEF Creator
<1>6. fr.creates => Creator(g, Len(g), fr.self)
  BY <1>1, <1>4, Zenon DEF Creator
<1> QED BY <1>1, <1>3, <1>5, <1>6, Zenon

\* An operation in the running frame.
LEMMA FitFollows ==
  ASSUME NEW s, NEW t, NEW b, NEW H, NEW f \in Seq(Frame), Fit(s, b, H, f),
         Follows(s, t, b), Covers(s, t)
  PROVE \E G : Fit(t, b, G, f)
<1>1. PICK G : Whole(t, b, G) /\ Extends(s, H, t, G)
  BY Zenon DEF Follows, Fit
<1>2. FramesFit(t.journal, b, G, f, Len(t.journal))
  BY <1>1, FramesExtend, Zenon DEF Fit, FramesFit
<1>3. BareCreated(t.journal, f, Len(t.journal))
  BY Zenon DEF Fit, BareCreated, Covers, Bare
<1> QED BY <1>1, <1>2, <1>3, Zenon DEF Fit

\* A frame that is pushed: t is the StateDB of which the snapshot is taken, u the one in
\* which the frame starts.
LEMMA FitPush ==
  ASSUME NEW s, NEW t, NEW u, NEW b, NEW H, NEW f \in Seq(Frame), Fit(s, b, H, f),
         Follows(s, t, b), Covers(s, t), Follows(t, u, b),
         NEW fr \in Frame, fr.snapshot = Len(t.journal), Live(Found(u, fr.self)),
         Pinned(b[fr.self]) => b[fr.self].code # NoCode /\ ~fr.creates,
         \A x \in Addrs : Bare(u, x) => Bare(t, x) \/ (fr.creates /\ x = fr.self)
  PROVE \E G : Fit(u, b, G, Append(f, fr))
<1> DEFINE g == Append(f, fr)
           m == Len(t.journal)
           n == Len(u.journal)
<1>1. PICK F : Fit(t, b, F, f)
  BY FitFollows, Zenon
<1>2. PICK G : Whole(u, b, G) /\ Extends(t, F, u, G)
  BY <1>1, Zenon DEF Follows, Fit
<1>3. /\ Len(f) \in Nat /\ Len(g) = Len(f) + 1 /\ g[Len(f) + 1] = fr
      /\ \A i \in 1 .. Len(f) : g[i] = f[i]
      /\ \A i \in 0 .. Len(f) : \A x : Creator(g, i, x) <=> Creator(f, i, x)
      /\ \A x : Creator(f, Len(f), x) => Creator(g, Len(g), x)
      /\ fr.creates => Creator(g, Len(g), fr.self)
  BY CreatorAppend, Zenon
<1>4. g \in Seq(Frame)
  OBVIOUS
<1> HIDE DEF g
<1>5. m \in Nat /\ n \in Nat /\ m <= n /\ \A i \in 1 .. m : u.journal[i] = t.journal[i]
  BY <1>2, Zenon DEF Extends
<1>6. \A i \in 1 .. Len(g) : i \in 1 .. Len(f) \/ (i = Len(f) + 1 /\ m <= g[i].snapshot)
  <2>1. m <= g[Len(f) + 1].snapshot
    BY <1>3, <1>5
  <2> QED BY <1>3, <2>1
<1>7. \A i \in 1 .. Len(f) : FrameFits(u.journal, b, G, g, i, n)
  BY <1>1, <1>2, <1>3, <1>4, <1>6, FramesExtend, Zenon DEF Fit
<1>8. FrameFits(u.journal, b, G, g, Len(f) + 1, n)
  <2> DEFINE k == Len(f) + 1
  <2>1. g[k] = fr /\ k - 1 = Len(f) /\ Len(f) \in 0 .. Len(f)
    BY <1>3
  <2>2. \A x \in Addrs : BareAt(u.journal, m, x) => Creator(g, k - 1, x)
    BY <1>1, <1>3, <1>5, <2>1, BareSame, Zenon DEF Fit, BareCreated
  <2>3. n \in m .. n /\ \A i \in n .. n : i = n
    BY <1>5
  <2>4. Live(G[n][fr.self])
    BY <1>2, NowFits, Zenon DEF Frame
  <2>5. \A i \in 1 .. Len(g) : ~ (k < i)
    BY <1>3
  <2>6. g[k].snapshot = m /\ g[k].self = fr.self /\ g[k].creates = fr.creates
    BY <2>1, Zenon
  <2> HIDE DEF k, m, n
  <2>7. /\ n \in g[k].snapshot .. n
        /\ \A i \in 1 .. Len(g) : k < i => n <= g[i].snapshot
        /\ \A i \in n .. n : Live(G[i][g[k].self])
    BY <2>3, <2>4, <2>5, <2>6, Zenon
  <2> QED BY <2>2, <2>6, <2>7, Zenon DEF FrameFits, k
<1>9. FramesFit(u.journal, b, G, g, n)
  BY <1>6, <1>7, <1>8, Zenon DEF FramesFit
<1>10. BareCreated(u.journal, g, n)
  BY <1>1, <1>3, Zenon DEF Fit, BareCreated, Bare
<1> QED BY <1>2, <1>9, <1>10, Zenon DEF Fit, g

\* Nothing happens.
LEMMA FollowsSelf ==
  ASSUME NEW s, NEW b, Good(s, b)
  PROVE Follows(s, s, b) /\ Covers(s, s)
<1>1. \A H : Whole(s, b, H) => \A a \in Addrs : Same(Found(s, a), Found(s, a))
  BY NowFits, Zenon
<1>2. Follows(s, s, b)
  BY <1>1, SameFollows, Zenon
<1> QED BY <1>2, Zenon DEF Covers

\* What is live stays so.
LEMMA StaysLive ==
  ASSUME NEW s, NEW t, NEW b, NEW H, Whole(s, b, H), Follows(s, t, b), NEW a \in Addrs,
         Live(Found(s, a))
  PROVE Live(Found(t, a))
BY Zenon DEF Follows, Extends

\* What the getters return.
LEMMA AccountIs ==
  ASSUME NEW s, NEW a
  PROVE /\ Exist(s, a) <=> Live(Found(s, a))
        /\ Live(Found(s, a)) => Account(s, a) = Found(s, a)
        /\ ~Live(Found(s, a)) => Account(s, a).code = NoCode /\ Account(s, a).balance = 0
                                 /\ Account(s, a).nonce = 0
<1>1. newObject(EmptyAccount).code = NoCode /\ newObject(EmptyAccount).balance = 0
      /\ newObject(EmptyAccount).nonce = 0
  BY Zenon DEF newObject, EmptyAccount
<1>2. Account(s, a) = IF Live(Found(s, a)) THEN Found(s, a) ELSE newObject(EmptyAccount)
  BY Zenon DEF Account, Found
<1>3. Exist(s, a) <=> Live(Found(s, a))
  BY Zenon DEF Exist, Found
<1> QED BY <1>1, <1>2, <1>3, Zenon

\* Code is run on accounts that are there.
LEMMA CodeLive ==
  ASSUME NEW s, NEW b, NEW H, Whole(s, b, H), NEW a \in Addrs, Account(s, a).code # NoCode
  PROVE Live(Found(s, a)) /\ (Pinned(b[a]) => b[a].code # NoCode)
<1>1. Live(Found(s, a)) /\ Account(s, a) = Found(s, a)
  BY AccountIs, Zenon
<1>2. Fits(Found(s, a), b[a])
  BY NowFits, Zenon
<1> QED BY <1>1, <1>2, Zenon DEF Fits

\* What a sequence without its last element is.
LEMMA WithoutLast ==
  ASSUME NEW S, NEW f \in Seq(S), f # <<>>
  PROVE /\ Len(f) \in Nat /\ Len(f) \in 1 .. Len(f) /\ Len(SubSeq(f, 1, Len(f) - 1)) = Len(f) - 1
        /\ \A i \in 1 .. Len(f) - 1 : SubSeq(f, 1, Len(f) - 1)[i] = f[i]
<1>1. Len(f) \in Nat /\ Len(f) > 0
  OBVIOUS
<1> DEFINE l == Len(f) - 1
           j == SubSeq(f, 1, l)
<1>a. l \in Nat
  BY <1>1
<1> HIDE DEF l
<1>2. Len(j) = l
  BY <1>a
<1>4. \A i \in 1 .. l : j[i] = f[i]
  BY <1>a
<1>3. Len(f) \in 1 .. Len(f)
  BY <1>1
<1> QED BY <1>1, <1>2, <1>3, <1>4, Zenon DEF l

\* An address that a creation may take had no storage unless it is taken.
LEMMA ReachablePinned ==
  ASSUME NEW s, NEW b, NEW H, Whole(s, b, H), NEW a \in Addrs, Pinned(b[a]), b[a].code = NoCode,
         Account(s, a).nonce = 0 /\ Account(s, a).code = NoCode
           => \A k \in Keys : Slot(Account(s, a), k) = 0
  PROVE Account(s, a).nonce # 0
<1>1. Fits(Found(s, a), b[a])
  BY NowFits, Zenon
<1>2. Live(Found(s, a)) /\ Account(s, a) = Found(s, a)
  BY <1>1, AccountIs, Zenon DEF Fits, Pinned
<1>3. PICK k \in Keys : b[a].storage[k] # 0
  BY Zenon DEF Pinned
<1>4. Account(s, a).code = NoCode /\ Slot(Account(s, a), k) # 0
  BY <1>1, <1>2, <1>3, Zenon DEF Fits
<1> QED BY <1>4, Zenon

-----------------------------------------------------------------------------
(* RevertToSnapshot.                                                        *)

\* Undoing an entry, on the object it is about.
LEMMA UndoIs ==
  ASSUME NEW s, NEW b, Good(s, b), NEW e, NEW a \in Addrs, Entry(e, a)
  PROVE undo(s, e) = Put(s, a, Undone(s.stateObjects[a], e))
<1> DEFINE obj == s.stateObjects[a]
<1>1. e.account = a /\ e.change \in Changes
  BY Zenon DEF Entry
<1>2. CASE e.change \in {"create", "reset"}
  BY <1>1, <1>2, Zenon DEF undo, Put, Undone
<1>3. CASE e.change = "touch"
  <2>1. undo(s, e) = s /\ Undone(obj, e) = obj
    BY <1>3, Zenon DEF undo, Undone
  <2>2. Put(s, a, obj) = s
    BY Zenon DEF Put, Good, Shape
  <2> QED BY <2>1, <2>2, Zenon
<1>4. CASE e.change = "balance"
  BY <1>1, <1>4, Zenon DEF undo, Put, Undone
<1>5. CASE e.change = "nonce"
  BY <1>1, <1>5, Zenon DEF undo, Put, Undone
<1>6. CASE e.change = "code"
  BY <1>1, <1>6, Zenon DEF undo, Put, Undone
<1>7. CASE e.change = "storage"
  BY <1>1, <1>7, Zenon DEF undo, Put, Undone, setState
<1>8. CASE e.change = "suicide"
  <2> DEFINE h == [obj EXCEPT !.suicided = e.prev.suicided]
             o == [h EXCEPT !.balance = e.prev.balance]
  <2>1. undo(s, e) = [s EXCEPT !.stateObjects[a].suicided = e.prev.suicided,
                               !.stateObjects[a].balance = e.prev.balance]
    BY <1>1, <1>8, Zenon DEF undo
  <2>2. undo(s, e) = Put(s, a, o)
    BY <2>1, Zenon DEF Put, Good, Shape
  <2>3. Undone(obj, e) = o
    BY <1>8, Zenon DEF Undone
  <2> QED BY <2>2, <2>3, Zenon
<1> QED BY <1>1, <1>2, <1>3, <1>4, <1>5, <1>6, <1>7, <1>8, Zenon DEF Changes

\* Only a creation is undone by dropping the object.
LEMMA UndoneThere ==
  ASSUME NEW o, Obj(o), o # Absent, NEW e, e.change \in Changes \ {"create", "reset"}
  PROVE Undone(o, e) # Absent
<1>1. "nonce" \in DOMAIN o /\ "nonce" \notin DOMAIN Absent
  BY Zenon DEF Obj, Fields, Absent
<1>2. CASE e.change = "touch"
  BY <1>2, Zenon DEF Undone
<1>3. CASE e.change = "balance"
  BY <1>1, <1>3, Zenon DEF Undone
<1>4. CASE e.change = "nonce"
  BY <1>1, <1>4, Zenon DEF Undone
<1>5. CASE e.change = "code"
  BY <1>1, <1>5, Zenon DEF Undone
<1>6. CASE e.change = "storage"
  BY <1>1, <1>6, Zenon DEF Undone
<1>7. CASE e.change = "suicide"
  BY <1>1, <1>7, Zenon DEF Undone
<1> QED BY <1>2, <1>3, <1>4, <1>5, <1>6, <1>7, Zenon DEF Changes

\* One iteration of journal.revert goes back one step in the trace.
LEMMA RevertWhole ==
  ASSUME NEW s, NEW b, NEW H, Whole(s, b, H), Len(s.journal) > 0
  PROVE /\ Whole(revertLast(s), b, H)
        /\ Len(revertLast(s).journal) = Len(s.journal) - 1
        /\ \A i \in 1 .. Len(s.journal) - 1 : revertLast(s).journal[i] = s.journal[i]
<1> DEFINE l == Len(s.journal)
           e == s.journal[l]
           j == SubSeq(s.journal, 1, l - 1)
           t == [s EXCEPT !.journal = j]
           a == e.account
           u == IF e.change \in {"create", "reset", "touch"} THEN t ELSE getStateObject(t, a)
           w == revertLast(s)
<1>0. Good(s, b) /\ Loaded(s) /\ Traced(s, b, H) /\ s.ResearchPostAlloc = Nowhere
  BY Zenon DEF Whole
<1>1. PICK S : s.journal \in Seq(S)
  BY <1>0, Zenon DEF Good, Shape
<1>2. l \in Nat /\ l \in 1 .. l /\ s.journal # <<>>
  BY <1>1
<1>3. Len(j) = l - 1 /\ \A i \in 1 .. l - 1 : j[i] = s.journal[i]
  BY <1>1, <1>2, WithoutLast, Zenon
<1>a. j \in Seq(S)
  BY <1>1, <1>2
<1>4. a \in Addrs /\ Entry(e, a) /\ Has(s, a)
  BY <1>0, <1>2, Zenon DEF Good, Journaled, Has
<1>5. w = undo(u, e)
  BY Zenon DEF revertLast
<1>b. Good(w, b)
  BY <1>0, RevertGood, Zenon
<1> HIDE DEF e, j, a, w
<1>6. /\ t = [trie |-> s.trie, stateObjects |-> s.stateObjects, journal |-> j,
              ResearchPreAlloc |-> s.ResearchPreAlloc,
              ResearchPostAlloc |-> s.ResearchPostAlloc,
              ResearchBlockHashes |-> s.ResearchBlockHashes]
  BY <1>0 DEF Good, Shape
<1> HIDE DEF t
<1>7. Shape(t)
  BY <1>0, <1>a, <1>6, Zenon DEF Good, Shape
<1>8. Journaled(t)
  <2>1. \A i \in 1 .. l - 1 : i \in 1 .. l
    BY <1>2
  <2> QED BY <1>0, <1>3, <1>6, <2>1, Zenon DEF Good, Journaled
<1>9. \A x \in Addrs : View(t, x) = View(s, x)
  BY <1>0, <1>6, <1>7, ViewDepends, Zenon DEF Good
<1>10. Good(t, b) /\ Has(t, a)
  BY <1>0, <1>4, <1>6, <1>7, <1>8, <1>9, Zenon DEF Good, Recorded, Has
<1>11. /\ Loaded(t) /\ t.trie = s.trie /\ t.ResearchPostAlloc = Nowhere /\ t.journal = j
       /\ t.stateObjects = s.stateObjects
  BY <1>0, <1>6, Zenon DEF Loaded, Has
<1>12. \A x \in Addrs : Found(t, x) = Found(s, x)
  <2> TAKE x \in Addrs
  <2>1. t.stateObjects[x] = s.stateObjects[x] /\ t.trie[x] = s.trie[x]
    BY <1>11, Zenon
  <2> QED BY <1>0, <1>7, <2>1, SameFound, Zenon DEF Good
<1>13. /\ Good(u, b) /\ u.trie = s.trie /\ u.ResearchPostAlloc = Nowhere /\ u.journal = j
       /\ Loaded(u) /\ u.stateObjects[a] = Found(s, a)
       /\ \A x \in Addrs : Found(u, x) = Found(s, x)
  <2>1. CASE e.change \in {"create", "reset", "touch"}
    <3>1. u = t
      BY <2>1, Zenon
    <3>2. s.stateObjects[a] = Found(s, a)
      BY <1>0, <1>4, FoundIs, Zenon DEF Loaded, Good
    <3> QED BY <1>10, <1>11, <1>12, <3>1, <3>2, Zenon
  <2>2. CASE e.change \notin {"create", "reset", "touch"}
    <3> DEFINE g == getStateObject(t, a)
    <3>1. u = g
      BY <2>2, Zenon
    <3>2. /\ g.stateObjects[a] = Found(t, a) /\ g.journal = t.journal /\ Aside(t, g, a)
          /\ \A x \in Addrs : Found(g, x) = Found(t, x)
      BY <1>4, <1>10, GetIs, Zenon
    <3>3. Good(g, b)
      BY <1>4, <1>10, GetGood, Zenon
    <3> HIDE DEF g
    <3>4. Found(t, a) # Absent \/ t.trie[a] = Absent
      BY <1>4, <1>7, FoundIs, Zenon
    <3>5. Loaded(g)
      BY <1>11, <3>2, <3>4, Zenon DEF Loaded, Aside, Has
    <3>6. g.trie = t.trie /\ g.ResearchPostAlloc = t.ResearchPostAlloc
      BY <3>2, Zenon DEF Aside
    <3> QED BY <1>4, <1>11, <1>12, <3>1, <3>2, <3>3, <3>5, <3>6, Zenon
  <2> QED BY <2>1, <2>2, Zenon
<1> HIDE DEF u
<1> DEFINE o == Found(s, a)
           p == Undone(o, e)
<1>14. w = Put(u, a, p)
  BY <1>4, <1>5, <1>13, UndoIs, Zenon
<1>15. /\ w.stateObjects[a] = p /\ w.journal = j /\ Aside(u, w, a)
       /\ w.ResearchPreAlloc = u.ResearchPreAlloc
  <2> HIDE DEF p
  <2> QED BY <1>4, <1>13, <1>14, PutIs
<1>16. Undoes(e, H[l][a], H[l - 1][a], s.trie[a]) /\ Same(o, H[l][a])
  BY <1>0, <1>2, <1>4, Zenon DEF Traced, e, a
<1>17. Obj(o) /\ (o = Absent => s.trie[a] = Absent)
  BY <1>0, <1>4, FoundIs, Zenon DEF Good
<1>18. p # Absent \/ w.trie[a] = Absent
  <2>1. CASE e.change = "create"
    BY <1>13, <1>15, <1>16, <2>1, Zenon DEF Undoes, Aside
  <2>2. CASE e.change = "reset"
    BY <1>16, <2>2, Zenon DEF Undoes, Undone
  <2>3. CASE e.change \notin {"create", "reset"}
    <3>1. CASE o = Absent
      BY <1>13, <1>15, <1>17, <3>1, Zenon DEF Aside
    <3>2. CASE o # Absent
      BY <1>4, <1>17, <2>3, <3>2, UndoneThere, Zenon DEF Entry
    <3> QED BY <3>1, <3>2, Zenon
  <2> QED BY <2>1, <2>2, <2>3, Zenon
<1>19. Same(p, H[l - 1][a])
  BY <1>16, <1>17, Zenon DEF Undoes
<1> HIDE DEF o, p
<1>20. Found(w, a) = p
  BY <1>4, <1>b, <1>15, <1>18, FoundIs, Zenon DEF Good
<1>21. \A x \in Addrs : x # a => Found(w, x) = Found(s, x)
  BY <1>4, <1>b, <1>13, <1>15, AsideFound, Zenon DEF Good
<1>22. \A x \in Addrs : x # a => H[l][x] = H[l - 1][x]
  BY <1>0, <1>2, Zenon DEF Traced, e, a
<1>23. Len(w.journal) = l - 1 /\ \A i \in 1 .. l - 1 : w.journal[i] = s.journal[i]
  BY <1>3, <1>15, Zenon
<1>24. \A x \in Addrs : Same(Found(w, x), H[l - 1][x])
  BY <1>0, <1>19, <1>20, <1>21, <1>22, Zenon DEF Traced
<1>25. w.trie = s.trie /\ w.ResearchPostAlloc = Nowhere
  BY <1>13, <1>15, Zenon DEF Aside
<1>26. Traced(w, b, H)
  <2>1. (\A i \in 0 .. l - 1 : i \in 0 .. l) /\ (\A i \in 1 .. l - 1 : i \in 1 .. l)
    BY <1>2
  <2>2. \A i \in 0 .. l - 1 : \A x \in Addrs : Fits(H[i][x], b[x])
    BY <1>0, <2>1, Zenon DEF Traced
  <2>3. \A i \in 1 .. l - 1 : \A x \in Addrs :
           IF w.journal[i].account = x
           THEN Live(H[i][x]) /\ Undoes(w.journal[i], H[i][x], H[i - 1][x], w.trie[x])
           ELSE H[i][x] = H[i - 1][x]
    <3>1. \A i \in 1 .. l - 1 : \A x \in Addrs :
             IF s.journal[i].account = x
             THEN Live(H[i][x]) /\ Undoes(s.journal[i], H[i][x], H[i - 1][x], s.trie[x])
             ELSE H[i][x] = H[i - 1][x]
      BY <1>0, <2>1, Zenon DEF Traced
    <3> QED BY <1>23, <1>25, <3>1
  <2>4. \A x \in Addrs : Starts(H[0][x], b[x])
    BY <1>0, Zenon DEF Traced
  <2> HIDE DEF l
  <2> QED BY <1>23, <1>24, <2>2, <2>3, <2>4, Zenon DEF Traced
<1>27. Loaded(w)
  BY <1>13, <1>15, <1>18, Zenon DEF Loaded, Aside, Has
<1> QED BY <1>b, <1>23, <1>25, <1>26, <1>27, Zenon DEF Whole, w

-----------------------------------------------------------------------------
(* The beginning of a transaction.                                          *)

\* no object has been destroyed and all slots are committed
Settled(s) ==
  \A a \in Addrs : Live(Found(s, a)) =>
     ~Found(s, a).suicided /\ \A k \in Keys : Slot(Found(s, a), k) = Found(s, a).committed[k]

\* An object that has just been loaded.
LEMMA NewObjectIs ==
  ASSUME NEW acc
  PROVE LET o == newObject(acc)
        IN /\ ~o.suicided /\ ~o.deleted /\ o.dirty = <<>> /\ o.ResearchTouched = {}
           /\ o.nonce = acc.nonce /\ o.balance = acc.balance /\ o.code = acc.code
           /\ \A k \in Keys : Slot(o, k) = o.committed[k]
<1> DEFINE o == newObject(acc)
<1>1. /\ ~o.suicided /\ ~o.deleted /\ o.dirty = <<>> /\ o.ResearchTouched = {}
      /\ o.nonce = acc.nonce /\ o.balance = acc.balance /\ o.code = acc.code
  BY Zenon DEF newObject
<1> HIDE DEF o
<1>2. \A k : k \notin DOMAIN <<>>
  OBVIOUS
<1>3. \A k \in Keys : Slot(o, k) = o.committed[k]
  BY <1>1, <1>2, Zenon DEF Slot
<1> QED BY <1>1, <1>3, Zenon DEF o

\* A new StateDB is settled.
LEMMA NewSettled ==
  ASSUME NEW trie, trie = [a \in Addrs |-> trie[a]]
  PROVE Settled(New(trie))
<1> DEFINE s == New(trie)
<1>1. Shape(s)
  BY NewBetween, Zenon DEF Between
<1>2. s.stateObjects = Nowhere /\ s.trie = trie
  BY Zenon DEF New
<1> HIDE DEF s
<1>3. \A a \in Addrs : Found(s, a) = Absent \/ Found(s, a) = newObject(s.trie[a])
  <2> TAKE a \in Addrs
  <2>1. s.stateObjects[a] = Absent
    BY <1>2, Zenon DEF Nowhere
  <2>2. CASE s.trie[a] = Absent
    BY <1>1, <2>1, <2>2, FoundIs, Zenon
  <2>3. CASE s.trie[a] # Absent
    BY <1>1, <2>1, <2>3, FoundIs, Zenon
  <2> QED BY <2>2, <2>3, Zenon
<1> SUFFICES ASSUME NEW a \in Addrs, Live(Found(s, a))
             PROVE ~Found(s, a).suicided
                   /\ \A k \in Keys : Slot(Found(s, a), k) = Found(s, a).committed[k]
  BY Zenon DEF Settled, s
<1>4. Found(s, a) = newObject(s.trie[a])
  BY <1>3, Zenon DEF Live
<1> DEFINE o == newObject(s.trie[a])
<1>5. ~o.suicided /\ \A k \in Keys : Slot(o, k) = o.committed[k]
  BY NewObjectIs
<1> HIDE DEF o
<1> QED BY <1>4, <1>5, Zenon DEF o

\* What Prepare leaves.
LEMMA PrepareIs ==
  ASSUME NEW s, Shape(s)
  PROVE LET p == Prepare(s)
        IN /\ p.trie = s.trie /\ p.journal = s.journal
           /\ p.ResearchPreAlloc = Nowhere /\ p.ResearchPostAlloc = Nowhere
           /\ \A a \in Addrs : p.stateObjects[a] =
                 IF s.stateObjects[a] = Absent THEN Absent
                 ELSE [s.stateObjects[a] EXCEPT !.ResearchTouched = {}]
<1> DEFINE m == [a \in Addrs |-> IF s.stateObjects[a] = Absent THEN Absent
                                 ELSE [s.stateObjects[a] EXCEPT !.ResearchTouched = {}]]
           p == Prepare(s)
<1>1. p = [s EXCEPT !.ResearchPreAlloc = Nowhere, !.ResearchPostAlloc = Nowhere,
                    !.ResearchBlockHashes = <<>>, !.stateObjects = m]
  BY Zenon DEF Prepare
<1>2. \A a \in Addrs : m[a] = IF s.stateObjects[a] = Absent THEN Absent
                              ELSE [s.stateObjects[a] EXCEPT !.ResearchTouched = {}]
  BY Zenon
<1> HIDE DEF m, p
<1>3. p = [trie |-> s.trie, stateObjects |-> m, journal |-> s.journal,
           ResearchPreAlloc |-> Nowhere, ResearchPostAlloc |-> Nowhere,
           ResearchBlockHashes |-> <<>>]
  BY <1>1, Zenon DEF Shape
<1>4. /\ p.trie = s.trie /\ p.journal = s.journal /\ p.stateObjects = m
      /\ p.ResearchPreAlloc = Nowhere /\ p.ResearchPostAlloc = Nowhere
  BY <1>3, Zenon
<1> QED BY <1>2, <1>4, Zenon DEF p

\* o is h with no slot touched
Cleared(o, h) ==
  /\ Live(o) <=> Live(h)
  /\ Live(h) => /\ o.nonce = h.nonce /\ o.balance = h.balance /\ o.code = h.code
                /\ o.committed = h.committed /\ o.dirty = h.dirty /\ o.suicided = h.suicided
                /\ o.ResearchTouched = {}

\* The objects of a transaction that begins.
LEMMA PrepareFound ==
  ASSUME NEW s, Shape(s), s.journal = <<>>, NEW a \in Addrs
  PROVE Cleared(Found(Prepare(s), a), Found(s, a))
<1> DEFINE p == Prepare(s)
           o == s.stateObjects[a]
           q == [o EXCEPT !.ResearchTouched = {}]
<1>1. p.trie = s.trie /\ p.stateObjects[a] = IF o = Absent THEN Absent ELSE q
  BY PrepareIs, Zenon
<1>2. Shape(p)
  BY PrepareGood, Zenon DEF Good
<1> HIDE DEF p
<1>3. CASE o = Absent
  <2>1. p.trie[a] = s.trie[a] /\ p.stateObjects[a] = Absent
    BY <1>1, <1>3, Zenon
  <2>2. Found(p, a) = Found(s, a)
    <3>1. p.trie[a] = s.trie[a] /\ p.stateObjects[a] = s.stateObjects[a]
      BY <1>3, <2>1, Zenon
    <3> QED BY <1>2, <3>1, Zenon DEF Found, getDeletedStateObject, Shape
  <2>3. CASE s.trie[a] = Absent
    <3>1. Found(s, a) = Absent
      BY <1>3, <2>3, FoundIs, Zenon
    <3> QED BY <2>2, <3>1, Zenon DEF Cleared, Live, p
  <2>4. CASE s.trie[a] # Absent
    <3>1. Found(s, a) = newObject(s.trie[a])
      BY <1>3, <2>4, FoundIs, Zenon
    <3>2. newObject(s.trie[a]).ResearchTouched = {}
      BY NewObjectIs
    <3>3. Found(s, a).ResearchTouched = {}
      BY <3>1, <3>2, Zenon
    <3> QED BY <2>2, <3>3, Zenon DEF Cleared, p
  <2> QED BY <2>3, <2>4, Zenon
<1>4. CASE o # Absent
  <2>1. Fields \subseteq DOMAIN o
    BY <1>4, Zenon DEF Shape, Obj
  <2>2. q.ResearchTouched = {} /\ q # Absent /\ \A y \in Fields : y # "ResearchTouched" => q[y] = o[y]
    BY <2>1, FieldsKept, Zenon DEF Fields
  <2>3. p.stateObjects[a] = q
    BY <1>1, <1>4, Zenon
  <2> HIDE DEF q
  <2>4. Found(p, a) = q /\ Found(s, a) = o
    BY <1>2, <1>4, <2>2, <2>3, FoundIs, Zenon
  <2>5. /\ q.nonce = o.nonce /\ q.balance = o.balance /\ q.code = o.code
        /\ q.committed = o.committed /\ q.dirty = o.dirty /\ q.suicided = o.suicided
        /\ q.deleted = o.deleted
    BY <2>2, Zenon DEF Fields
  <2>6. Live(q) <=> Live(o)
    BY <1>4, <2>2, <2>5, Zenon DEF Live
  <2> HIDE DEF o
  <2> QED BY <2>2, <2>4, <2>5, <2>6, Zenon DEF Cleared, p
<1> QED BY <1>3, <1>4, Zenon

\* A transaction begins with an empty journal and the objects as they are.
LEMMA PrepareWhole ==
  ASSUME NEW s, Shape(s), s.journal = <<>>, Settled(s)
  PROVE /\ \E H : Whole(Prepare(s), Accounts(s), H)
        /\ \A a \in Addrs :
              /\ Account(Prepare(s), a).nonce = Account(s, a).nonce
              /\ Account(Prepare(s), a).balance = Account(s, a).balance
              /\ Account(Prepare(s), a).code = Account(s, a).code
              /\ \A k : Slot(Account(Prepare(s), a), k) = Slot(Account(s, a), k)
<1> DEFINE p == Prepare(s)
           b == Accounts(s)
           H == [i \in {0} |-> [a \in Addrs |-> Found(p, a)]]
<1>1. Good(p, b)
  BY PrepareGood, Zenon
<1>2. p.journal = <<>> /\ p.ResearchPreAlloc = Nowhere /\ p.ResearchPostAlloc = Nowhere
  BY PrepareIs, Zenon
<1>3. \A a \in Addrs : Cleared(Found(p, a), Found(s, a))
  BY PrepareFound, Zenon
<1>4. \A a \in Addrs : H[0][a] = Found(p, a)
  BY Zenon
<1> HIDE DEF p, b, H
<1>5. Len(p.journal) = 0 /\ \A i \in 0 .. 0 : i = 0
  BY <1>2
<1>6. \A a \in Addrs : ~Has(p, a) /\ View(p, a) = b[a]
  BY <1>1, <1>2, Zenon DEF Has, Nowhere, Good, Recorded
<1>7. ASSUME NEW a \in Addrs
      PROVE /\ Same(Found(p, a), Found(p, a)) /\ Starts(Found(p, a), b[a])
            /\ Fits(Found(p, a), b[a])
  <2> DEFINE o == Found(p, a)
             h == Found(s, a)
  <2>1. Cleared(o, h)
    BY <1>3, Zenon
  <2>2. b[a] = IF ~Live(o) THEN Absent ELSE NewSubstateAccount(o, [k \in Keys |-> Slot(o, k)])
    BY <1>6, Zenon DEF View, Found
  <2>3. Live(h) => ~h.suicided /\ \A k \in Keys : Slot(h, k) = h.committed[k]
    BY Zenon DEF Settled
  <2> HIDE DEF o, h
  <2>4. Live(o) => /\ ~o.suicided /\ o.ResearchTouched = {}
                   /\ \A k \in Keys : Slot(o, k) = o.committed[k]
    <3> SUFFICES ASSUME Live(o) PROVE /\ ~o.suicided /\ o.ResearchTouched = {}
                                      /\ \A k \in Keys : Slot(o, k) = o.committed[k]
      BY Zenon
    <3>1. /\ Live(h) /\ o.committed = h.committed /\ o.dirty = h.dirty /\ o.suicided = h.suicided
          /\ o.ResearchTouched = {}
      BY <2>1, Zenon DEF Cleared
    <3>2. \A k : Slot(o, k) = Slot(h, k)
      BY <3>1, SlotFields, Zenon
    <3> QED BY <2>3, <3>1, <3>2, Zenon
  <2>5. \A st : NewSubstateAccount(o, st) # Absent /\ NewSubstateAccount(o, st).code = o.code
                /\ NewSubstateAccount(o, st).storage = st
    <3>1. \A st : "nonce" \in DOMAIN NewSubstateAccount(o, st)
      BY Zenon DEF NewSubstateAccount
    <3>2. "nonce" \notin DOMAIN Absent
      BY Zenon DEF Absent
    <3> QED BY <3>1, <3>2, Zenon DEF NewSubstateAccount
  <2> DEFINE st == [k \in Keys |-> Slot(o, k)]
  <2>6. \A k \in Keys : st[k] = Slot(o, k)
    BY Zenon
  <2>7. Live(o) => b[a] # Absent /\ b[a].code = o.code /\ \A k \in Keys : b[a].storage[k] = Slot(o, k)
    <3> HIDE DEF st
    <3>1. Live(o) => b[a] = NewSubstateAccount(o, st)
      BY <2>2, Zenon DEF st
    <3> QED BY <2>5, <2>6, <3>1, Zenon
  <2>8. Same(o, o)
    BY <2>4, Zenon DEF Same
  <2>9. Starts(o, b[a])
    BY <2>2, <2>4, <2>7, Zenon DEF Starts
  <2>10. Fits(o, b[a])
    BY <2>2, <2>4, <2>7, Zenon DEF Fits
  <2> QED BY <2>8, <2>9, <2>10, Zenon DEF o
<1>8. Traced(p, b, H)
  <2>1. \A i \in 1 .. 0 : FALSE
    OBVIOUS
  <2> QED BY <1>4, <1>5, <1>7, <2>1, Zenon DEF Traced
<1>9. Whole(p, b, H)
  BY <1>1, <1>2, <1>6, <1>8, Zenon DEF Whole, Loaded
<1>10. ASSUME NEW a \in Addrs
       PROVE /\ Account(p, a).nonce = Account(s, a).nonce
             /\ Account(p, a).balance = Account(s, a).balance
             /\ Account(p, a).code = Account(s, a).code
             /\ \A k : Slot(Account(p, a), k) = Slot(Account(s, a), k)
  <2> DEFINE o == Found(p, a)
             h == Found(s, a)
  <2>1. Cleared(o, h)
    BY <1>3, Zenon
  <2>2. /\ Account(p, a) = IF Live(o) THEN o ELSE newObject(EmptyAccount)
        /\ Account(s, a) = IF Live(h) THEN h ELSE newObject(EmptyAccount)
    BY Zenon DEF Account, Found
  <2> HIDE DEF o, h
  <2>3. CASE Live(h)
    <3>1. Account(p, a) = o /\ Account(s, a) = h
      BY <2>1, <2>2, <2>3, Zenon DEF Cleared
    <3>2. \A k : Slot(o, k) = Slot(h, k)
      BY <2>1, <2>3, SlotFields, Zenon DEF Cleared
    <3> QED BY <2>1, <2>3, <3>1, <3>2, Zenon DEF Cleared
  <2>4. CASE ~Live(h)
    BY <2>1, <2>2, <2>4, Zenon DEF Cleared
  <2> QED BY <2>3, <2>4, Zenon
<1> QED BY <1>9, <1>10, Zenon DEF p, b

-----------------------------------------------------------------------------
(* The end of a transaction.                                                *)

\* a set of lengths has a least one; the lemmas that rest on it assume it, and LeastLength
\* of SubstateRecorderProofs proves it
WellOrdered == \A T \in SUBSET Nat : T # {} => \E m \in T : \A i \in T : m <= i

\* the journal has an entry about a
Changed(s, a) == \E i \in 1 .. Len(s.journal) : s.journal[i].account = a

\* An account without an entry is as it was in the beginning.
LEMMA UnchangedIs ==
  ASSUME WellOrdered, NEW s, NEW b, NEW H, Whole(s, b, H), NEW a \in Addrs, ~Changed(s, a)
  PROVE Same(Found(s, a), H[0][a]) /\ Starts(H[0][a], b[a])
<1> DEFINE l == Len(s.journal)
           T == {i \in 0 .. l : H[i][a] # H[0][a]}
<1>1. l \in Nat
  BY JournalLen, Zenon DEF Whole
<1>2. \A i \in 1 .. l : H[i][a] = H[i - 1][a]
  BY Zenon DEF Whole, Traced, Changed
<1>3. Same(Found(s, a), H[l][a]) /\ Starts(H[0][a], b[a])
  BY Zenon DEF Whole, Traced
<1> HIDE DEF l
<1>4. T = {}
  <2> SUFFICES ASSUME T # {} PROVE FALSE
    BY Zenon
  <2>1. T \subseteq Nat
    BY <1>1
  <2>2. PICK m \in T : \A i \in T : m <= i
    BY <2>1, Zenon DEF WellOrdered
  <2>3. m \in 0 .. l /\ H[m][a] # H[0][a]
    BY Zenon
  <2>4. m # 0
    BY <2>3, Zenon
  <2>5. m \in 1 .. l /\ m - 1 \in 0 .. l /\ ~(m <= m - 1)
    BY <1>1, <2>3, <2>4
  <2>6. H[m - 1][a] = H[0][a]
    BY <2>2, <2>5, Zenon
  <2> QED BY <1>2, <2>3, <2>5, <2>6, Zenon
<1>5. l \in 0 .. l
  BY <1>1
<1> QED BY <1>3, <1>4, <1>5, Zenon

\* An account with an entry is there.
LEMMA ChangedLive ==
  ASSUME WellOrdered, NEW s, NEW b, NEW H, Whole(s, b, H), NEW a \in Addrs, Changed(s, a)
  PROVE Live(Found(s, a))
<1> DEFINE l == Len(s.journal)
           Before(n) == \E i \in 1 .. n : s.journal[i].account = a
           T == {n \in 0 .. l : Before(n) /\ ~Live(H[n][a])}
<1>1. l \in Nat
  BY JournalLen, Zenon DEF Whole
<1>2. \A i \in 1 .. l : IF s.journal[i].account = a THEN Live(H[i][a]) ELSE H[i][a] = H[i - 1][a]
  BY Zenon DEF Whole, Traced
<1>3. Before(l)
  BY Zenon DEF Changed
<1>4. Live(Found(s, a)) <=> Live(H[l][a])
  BY NowFits, Zenon
<1> HIDE DEF l
<1>5. T = {}
  <2> SUFFICES ASSUME T # {} PROVE FALSE
    BY Zenon
  <2>1. T \subseteq Nat
    BY <1>1
  <2>2. PICK m \in T : \A i \in T : m <= i
    BY <2>1, Zenon DEF WellOrdered
  <2>3. m \in 0 .. l /\ Before(m) /\ ~Live(H[m][a])
    BY Zenon
  <2>4. PICK i \in 1 .. m : s.journal[i].account = a
    BY <2>3, Zenon
  <2>5. m \in 1 .. l /\ m - 1 \in 0 .. l /\ ~(m <= m - 1) /\ (i = m \/ i \in 1 .. m - 1)
    BY <1>1, <2>3, <2>4
  <2>6. s.journal[m].account # a /\ H[m][a] = H[m - 1][a]
    BY <1>2, <2>3, <2>5, Zenon
  <2>7. i # m
    BY <2>4, <2>6, Zenon
  <2>8. Before(m - 1)
    BY <2>4, <2>5, <2>7, Zenon
  <2>9. ~Live(H[m - 1][a])
    BY <2>3, <2>6, Zenon
  <2>10. m - 1 \in T
    BY <2>5, <2>8, <2>9, Zenon
  <2> QED BY <2>2, <2>5, <2>10, Zenon
<1>6. l \in 0 .. l
  BY <1>1
<1> QED BY <1>3, <1>4, <1>5, <1>6, Zenon

\* a is among what Finalise goes through in its second loop
Dirty(s, a) == a \in dirties(s) /\ s.stateObjects[a] # Absent

\* What Finalise leaves of an account.
LEMMA FinaliseIs ==
  ASSUME NEW s, Shape(s), NEW d
  PROVE /\ Finalise(s, d).trie = s.trie
        /\ \A a \in Addrs :
              /\ Finalise(s, d).ResearchPreAlloc[a] = RecordedInput(s, a)
              /\ Finalise(s, d).ResearchPostAlloc[a] =
                   IF ~Dirty(s, a) THEN IF RecordedInput(s, a) # Absent THEN RecordedInput(s, a)
                                        ELSE s.ResearchPostAlloc[a]
                   ELSE IF removed(s, a, d) THEN Absent
                   ELSE NewSubstateAccount(s.stateObjects[a], TouchedSlots(s.stateObjects[a]))
              /\ Finalise(s, d).stateObjects[a] =
                   IF ~Dirty(s, a) THEN s.stateObjects[a]
                   ELSE IF removed(s, a, d) THEN [s.stateObjects[a] EXCEPT !.deleted = TRUE]
                   ELSE finalise(s.stateObjects[a])
<1> DEFINE D == {a \in dirties(s) : s.stateObjects[a] # Absent}
           c == completeInput(s)
           m == [a \in Addrs |->
                   IF a \notin D THEN c.stateObjects[a]
                   ELSE IF removed(c, a, d) THEN [c.stateObjects[a] EXCEPT !.deleted = TRUE]
                   ELSE finalise(c.stateObjects[a])]
           n == [a \in Addrs |->
                   IF a \notin D THEN c.ResearchPostAlloc[a]
                   ELSE IF removed(c, a, d) THEN Absent
                   ELSE NewSubstateAccount(c.stateObjects[a], TouchedSlots(c.stateObjects[a]))]
           input == [a \in Addrs |-> RecordedInput(s, a)]
           output == [a \in Addrs |->
                        IF input[a] # Absent THEN input[a] ELSE s.ResearchPostAlloc[a]]
           F == Finalise(s, d)
<1>1. c = [s EXCEPT !.ResearchPreAlloc = input, !.ResearchPostAlloc = output]
  BY Zenon DEF completeInput
<1>2. F = [c EXCEPT !.ResearchPostAlloc = n, !.stateObjects = m, !.journal = <<>>]
  BY Zenon DEF Finalise, finaliseDirty
<1>3. \A a \in Addrs : input[a] = RecordedInput(s, a)
  BY Zenon
<1>a. \A a \in Addrs : output[a] = IF input[a] # Absent THEN input[a] ELSE s.ResearchPostAlloc[a]
  BY Zenon
<1>b. \A a \in Addrs : m[a] =
        IF a \notin D THEN c.stateObjects[a]
        ELSE IF removed(c, a, d) THEN [c.stateObjects[a] EXCEPT !.deleted = TRUE]
        ELSE finalise(c.stateObjects[a])
  BY Zenon
<1>c. \A a \in Addrs : n[a] =
        IF a \notin D THEN c.ResearchPostAlloc[a]
        ELSE IF removed(c, a, d) THEN Absent
        ELSE NewSubstateAccount(c.stateObjects[a], TouchedSlots(c.stateObjects[a]))
  BY Zenon
<1>d. \A a : a \in D <=> Dirty(s, a)
  BY Zenon DEF Dirty
<1> HIDE DEF D, c, input, output, m, n, F
<1>4. c = [trie |-> s.trie, stateObjects |-> s.stateObjects, journal |-> s.journal,
           ResearchPreAlloc |-> input, ResearchPostAlloc |-> output,
           ResearchBlockHashes |-> s.ResearchBlockHashes]
  BY <1>1, Zenon DEF Shape
<1>5. F = [trie |-> s.trie, stateObjects |-> m, journal |-> <<>>,
           ResearchPreAlloc |-> input, ResearchPostAlloc |-> n,
           ResearchBlockHashes |-> s.ResearchBlockHashes]
  BY <1>2, <1>4, Zenon
<1>6. c.stateObjects = s.stateObjects /\ c.ResearchPostAlloc = output
  BY <1>4, Zenon
<1>7. F.trie = s.trie /\ F.stateObjects = m /\ F.ResearchPreAlloc = input /\ F.ResearchPostAlloc = n
  BY <1>5, Zenon
<1>8. \A a : removed(c, a, d) <=> removed(s, a, d)
  BY <1>6, Zenon DEF removed
<1> SUFFICES ASSUME NEW a \in Addrs
             PROVE /\ input[a] = RecordedInput(s, a)
                   /\ n[a] =
                        IF ~Dirty(s, a) THEN IF RecordedInput(s, a) # Absent THEN RecordedInput(s, a)
                                             ELSE s.ResearchPostAlloc[a]
                        ELSE IF removed(s, a, d) THEN Absent
                        ELSE NewSubstateAccount(s.stateObjects[a], TouchedSlots(s.stateObjects[a]))
                   /\ m[a] =
                        IF ~Dirty(s, a) THEN s.stateObjects[a]
                        ELSE IF removed(s, a, d) THEN [s.stateObjects[a] EXCEPT !.deleted = TRUE]
                        ELSE finalise(s.stateObjects[a])
  BY <1>7, Zenon DEF F
<1>9. CASE ~Dirty(s, a)
  BY <1>3, <1>a, <1>b, <1>c, <1>d, <1>6, <1>9, Zenon
<1>10. CASE Dirty(s, a)
  BY <1>3, <1>b, <1>c, <1>d, <1>6, <1>8, <1>10, Zenon
<1> QED BY <1>9, <1>10, Zenon

\* an account with some of its slots
Sliced(account, slots) == [account EXCEPT !.storage = [k \in slots |-> account.storage[k]]]

\* what SubstateIsEffect says of an account
Effect(input, output, after, old) ==
  /\ input # Absent => input = Sliced(old, DOMAIN input.storage)
  /\ IF output = Absent
     THEN after = IF input = Absent THEN old ELSE Absent
     ELSE /\ after # Absent
          /\ output = Sliced(after, DOMAIN output.storage)
          /\ \A k \in Keys \ DOMAIN output.storage :
               after.storage[k] = IF old = Absent THEN 0 ELSE old.storage[k]

\* The fields of an account, and some of its slots.
LEMMA SlicedIs ==
  ASSUME NEW o, NEW S, NEW T
  PROVE /\ NewSubstateAccount(o, S).storage = S
        /\ Sliced(NewSubstateAccount(o, S), T) = NewSubstateAccount(o, [k \in T |-> S[k]])
<1>1. \A R : NewSubstateAccount(o, R).storage = R
  BY Zenon DEF NewSubstateAccount
<1>2. \A R : [NewSubstateAccount(o, S) EXCEPT !.storage = R] = NewSubstateAccount(o, R)
  BY DEF NewSubstateAccount
<1>3. Sliced(NewSubstateAccount(o, S), T) = NewSubstateAccount(o, [k \in T |-> S[k]])
  <2>1. NewSubstateAccount(o, S).storage = S
    BY <1>1, Zenon
  <2>2. Sliced(NewSubstateAccount(o, S), T)
          = [NewSubstateAccount(o, S) EXCEPT !.storage = [k \in T |-> S[k]]]
    BY <2>1, Zenon DEF Sliced
  <2> QED BY <1>2, <2>2, Zenon
<1> QED BY <1>1, <1>3, Zenon

\* The view of an account is that of the object found.
LEMMA ViewIs ==
  ASSUME NEW s, NEW a
  PROVE View(s, a) = IF Live(Found(s, a))
                     THEN NewSubstateAccount(Found(s, a), [k \in Keys |-> Slot(Found(s, a), k)])
                     ELSE Absent
BY Zenon DEF View, Found

\* The object of a recorded account is the one found.
LEMMA LoadedIs ==
  ASSUME NEW s, NEW b, NEW H, Whole(s, b, H), NEW a \in Addrs, Has(s, a)
  PROVE Found(s, a) = s.stateObjects[a]
BY FoundIs, Zenon DEF Whole, Good, Loaded

\* An account that has not changed: it is not recorded, or the output is the input.
LEMMA UnchangedEffect ==
  ASSUME WellOrdered, NEW s, NEW b, NEW H, Whole(s, b, H), NEW a \in Addrs, ~Changed(s, a), NEW d
  PROVE LET F == Finalise(s, d)
        IN /\ Effect(F.ResearchPreAlloc[a], F.ResearchPostAlloc[a], View(F, a), b[a])
           /\ Live(Found(F, a)) =>
                /\ ~Found(F, a).suicided
                /\ \A k \in Keys : Slot(Found(F, a), k) = Found(F, a).committed[k]
<1> DEFINE F == Finalise(s, d)
           o == Found(s, a)
           h == H[0][a]
<1>1. Same(o, h) /\ Starts(h, b[a])
  BY UnchangedIs, Zenon
<1>2. Shape(s) /\ Recorded(s, b) /\ s.ResearchPostAlloc = Nowhere
  BY Zenon DEF Whole, Good
<1>3. ~Dirty(s, a)
  BY Zenon DEF Dirty, dirties, Changed
<1>4. /\ F.trie = s.trie /\ F.stateObjects[a] = s.stateObjects[a]
      /\ F.ResearchPreAlloc[a] = RecordedInput(s, a)
      /\ F.ResearchPostAlloc[a] = IF RecordedInput(s, a) # Absent THEN RecordedInput(s, a)
                                  ELSE s.ResearchPostAlloc[a]
  BY <1>2, <1>3, FinaliseIs, Zenon
<1>5. Shape(F)
  BY <1>2, FinaliseShape, Zenon
<1> HIDE DEF F, h
<1>6. Found(F, a) = o
  BY <1>2, <1>4, <1>5, Zenon DEF Found, getDeletedStateObject, Shape
<1>7. s.ResearchPostAlloc[a] = Absent
  BY <1>2, Zenon DEF Nowhere
<1> HIDE DEF o
<1>8. Live(o) => ~o.suicided /\ \A k \in Keys : Slot(o, k) = o.committed[k]
  BY <1>1, Zenon DEF Same, Starts
<1>9. View(F, a) = b[a]
  <2>1. View(F, a) = IF Live(o) THEN NewSubstateAccount(o, [k \in Keys |-> Slot(o, k)]) ELSE Absent
    BY <1>6, ViewIs, Zenon
  <2>2. CASE Live(o)
    <3>1. /\ o.nonce = h.nonce /\ o.balance = h.balance /\ o.code = h.code
          /\ [k \in Keys |-> Slot(o, k)] = [k \in Keys |-> Slot(h, k)]
          /\ b[a] = NewSubstateAccount(h, [k \in Keys |-> Slot(h, k)])
      BY <1>1, <2>2, Zenon DEF Same, Starts
    <3> QED BY <2>1, <2>2, <3>1, Zenon DEF NewSubstateAccount
  <2>3. CASE ~Live(o)
    BY <1>1, <2>1, <2>3, Zenon DEF Same, Starts
  <2> QED BY <2>2, <2>3, Zenon
<1>10. CASE s.ResearchPreAlloc[a] \in {Absent, Nil}
  <2>1. RecordedInput(s, a) = Absent
    BY <1>10, Zenon DEF RecordedInput
  <2> QED BY <1>4, <1>6, <1>7, <1>8, <1>9, <2>1, Zenon DEF Effect, F
<1>11. CASE s.ResearchPreAlloc[a] \notin {Absent, Nil}
  <2> DEFINE T == o.ResearchTouched
             S == [k \in Keys |-> Slot(o, k)]
             I == RecordedInput(s, a)
  <2>1. b[a] # Absent /\ s.ResearchPreAlloc[a] = [b[a] EXCEPT !.storage = <<>>]
    BY <1>2, <1>11, Zenon DEF Recorded
  <2> DEFINE none == <<>>
  <2>a. b[a] # Absent /\ s.ResearchPreAlloc[a] = [b[a] EXCEPT !.storage = none]
    BY <2>1, Zenon
  <2>b. DOMAIN none = {}
    OBVIOUS
  <2> HIDE DEF none
  <2>2. Live(o) /\ o = s.stateObjects[a]
    BY <1>1, <1>11, <2>1, LoadedIs, Zenon DEF Same, Starts, Has, o
  <2>3. b[a] = NewSubstateAccount(o, S)
    BY <1>6, <1>9, <2>2, ViewIs, Zenon
  <2>4. s.ResearchPreAlloc[a] = NewSubstateAccount(o, none)
    <3> HIDE DEF S
    <3>1. [NewSubstateAccount(o, S) EXCEPT !.storage = none] = NewSubstateAccount(o, none)
      BY DEF NewSubstateAccount
    <3> QED BY <2>a, <2>3, <3>1, Zenon
  <2>5. T \subseteq Keys /\ \A k \in T : o.committed[k] = S[k]
    BY <1>1, <1>8, <2>2, Zenon DEF Same
  <2> DEFINE st == [k \in T |-> o.committed[k]]
  <2>6. I = NewSubstateAccount(o, st)
    <3> DEFINE sa == s.ResearchPreAlloc[a]
               full == [k \in T \union DOMAIN sa.storage |->
                          IF k \in T THEN o.committed[k] ELSE sa.storage[k]]
    <3>1. NewSubstateAccount(o, none).storage = none
      BY SlicedIs
    <3>2. DOMAIN sa.storage = {}
      BY <2>4, <2>b, <3>1, Zenon
    <3>3. T \union DOMAIN sa.storage = T
      BY <3>2, Zenon
    <3>4. full = st
      BY <3>3, Zenon
    <3>5. I = [sa EXCEPT !.storage = full]
      BY <1>11, <2>2, Zenon DEF RecordedInput
    <3> HIDE DEF full, st, sa, I
    <3>6. [NewSubstateAccount(o, none) EXCEPT !.storage = st] = NewSubstateAccount(o, st)
      BY DEF NewSubstateAccount
    <3> QED BY <2>4, <3>4, <3>5, <3>6, Zenon DEF sa
  <2>7. st = [k \in T |-> S[k]]
    BY <2>5, Zenon
  <2>8. I # Absent /\ I.storage = st /\ DOMAIN st = T
    BY <2>6, SlicedIs, Distinct
  <2> HIDE DEF I, S, st, T
  <2>9. I = Sliced(b[a], T)
    BY <2>3, <2>6, <2>7, SlicedIs
  <2>10. F.ResearchPreAlloc[a] = I /\ F.ResearchPostAlloc[a] = I
    BY <1>4, <2>8, Zenon DEF I
  <2>11. Effect(I, I, b[a], b[a])
    BY <2>1, <2>8, <2>9, Zenon DEF Effect
  <2> QED BY <1>6, <1>8, <1>9, <2>10, <2>11, Zenon DEF F
<1> QED BY <1>10, <1>11, Zenon

\* finalise commits the slots of an object.
LEMMA FinalisedIs ==
  ASSUME NEW o, Fields \subseteq DOMAIN o
  PROVE LET p == finalise(o)
        IN /\ p # Absent /\ p.deleted = o.deleted /\ p.suicided = o.suicided
           /\ p.nonce = o.nonce /\ p.balance = o.balance /\ p.code = o.code
           /\ \A k \in Keys : Slot(p, k) = Slot(o, k) /\ p.committed[k] = Slot(o, k)
<1> DEFINE st == [k \in Keys |-> Slot(o, k)]
           x == [o EXCEPT !.committed = st]
           none == <<>>
           y == [x EXCEPT !.dirty = none]
           p == [y EXCEPT !.ResearchTouched = {}]
<1>1. finalise(o) = p
  BY Zenon DEF finalise
<1>2. \A k : k \notin DOMAIN none
  OBVIOUS
<1>3. \A k \in Keys : st[k] = Slot(o, k)
  BY Zenon
<1> HIDE DEF st, none
<1>4. /\ Fields \subseteq DOMAIN x /\ x.committed = st
      /\ \A f \in Fields : f # "committed" => x[f] = o[f]
  BY Zenon DEF Fields
<1> HIDE DEF x
<1>5. /\ Fields \subseteq DOMAIN y /\ y.dirty = none
      /\ \A f \in Fields : f # "dirty" => y[f] = x[f]
  BY <1>4, Zenon DEF Fields
<1> HIDE DEF y
<1>6. p # Absent /\ \A f \in Fields : f # "ResearchTouched" => p[f] = y[f]
  BY <1>5, FieldsKept, Zenon DEF Fields
<1> HIDE DEF p
<1>7. /\ p.deleted = o.deleted /\ p.suicided = o.suicided
      /\ p.nonce = o.nonce /\ p.balance = o.balance /\ p.code = o.code
      /\ p.committed = st /\ p.dirty = none
  BY <1>4, <1>5, <1>6, Zenon DEF Fields
<1>8. \A k \in Keys : Slot(p, k) = Slot(o, k) /\ p.committed[k] = Slot(o, k)
  BY <1>2, <1>3, <1>7, Zenon DEF Slot
<1> QED BY <1>1, <1>6, <1>7, <1>8, Zenon

\* An account that has changed goes into the output, or out of it.
LEMMA ChangedEffect ==
  ASSUME WellOrdered, NEW s, NEW b, NEW H, Whole(s, b, H), NEW a \in Addrs, Changed(s, a),
         ~Bare(s, a), NEW d
  PROVE LET F == Finalise(s, d)
        IN /\ Effect(F.ResearchPreAlloc[a], F.ResearchPostAlloc[a], View(F, a), b[a])
           /\ Live(Found(F, a)) =>
                /\ ~Found(F, a).suicided
                /\ \A k \in Keys : Slot(Found(F, a), k) = Found(F, a).committed[k]
<1> DEFINE F == Finalise(s, d)
           o == s.stateObjects[a]
           I == RecordedInput(s, a)
           T == o.ResearchTouched
           S == [k \in Keys |-> Slot(o, k)]
           p == F.stateObjects[a]
<1>1. Shape(s) /\ Recorded(s, b) /\ Journaled(s)
  BY Zenon DEF Whole, Good
<1>2. Has(s, a)
  BY <1>1, Zenon DEF Journaled, Has, Changed
<1>3. Live(o) /\ o = Found(s, a)
  BY <1>2, LoadedIs, ChangedLive, Zenon
<1>4. Current(o, b[a])
  BY <1>3, NowFits, Zenon
<1>5. Fields \subseteq DOMAIN o /\ Same(o, o) /\ Fits(o, b[a]) /\ T \subseteq Keys
  BY <1>3, <1>4, Zenon DEF Current, Same
<1>6. Dirty(s, a)
  <2>1. \E i \in 1 .. Len(s.journal) : s.journal[i].account = a /\ s.journal[i].change # "reset"
    BY Zenon DEF Bare, BareAt, Changed
  <2> QED BY <1>3, <2>1, Zenon DEF Dirty, dirties, Live
<1>7. /\ F.ResearchPreAlloc[a] = I
      /\ F.ResearchPostAlloc[a] = IF removed(s, a, d) THEN Absent
                                  ELSE NewSubstateAccount(o, TouchedSlots(o))
      /\ p = IF removed(s, a, d) THEN [o EXCEPT !.deleted = TRUE] ELSE finalise(o)
  BY <1>1, <1>6, FinaliseIs, Zenon
<1>8. Shape(F)
  BY <1>1, FinaliseShape, Zenon
<1>9. I # Absent => I = Sliced(b[a], DOMAIN I.storage) /\ b[a] # Absent
  <2> SUFFICES ASSUME I # Absent PROVE I = Sliced(b[a], DOMAIN I.storage) /\ b[a] # Absent
    BY Zenon
  <2>1. s.ResearchPreAlloc[a] \notin {Absent, Nil}
    BY Zenon DEF RecordedInput
  <2> DEFINE none == <<>>
             st == [k \in T |-> o.committed[k]]
             sa == s.ResearchPreAlloc[a]
             h == H[0][a]
             R == [k \in Keys |-> Slot(h, k)]
             full == [k \in T \union DOMAIN sa.storage |->
                        IF k \in T THEN o.committed[k] ELSE sa.storage[k]]
  <2>2. b[a] # Absent /\ sa = [b[a] EXCEPT !.storage = none]
    BY <1>1, <2>1, Zenon DEF Recorded
  <2>3. b[a] = NewSubstateAccount(h, R)
    BY <2>2, Zenon DEF Whole, Traced, Starts
  <2>4. DOMAIN none = {}
    OBVIOUS
  <2>5. I = [sa EXCEPT !.storage = full]
    BY <2>1, Zenon DEF RecordedInput
  <2>6. \A k \in Keys : o.committed[k] = b[a].storage[k]
    BY <1>3, <1>5, <2>2, Zenon DEF Fits
  <2> HIDE DEF none, o, I, T, sa
  <2>7. sa = NewSubstateAccount(h, none) /\ b[a].storage = R
    <3> HIDE DEF R, h
    <3>1. [NewSubstateAccount(h, R) EXCEPT !.storage = none] = NewSubstateAccount(h, none)
      BY DEF NewSubstateAccount
    <3>2. NewSubstateAccount(h, R).storage = R
      BY SlicedIs
    <3> QED BY <2>2, <2>3, <3>1, <3>2, Zenon
  <2> HIDE DEF R, h
  <2>8. full = st
    <3>1. NewSubstateAccount(h, none).storage = none
      BY SlicedIs
    <3>2. DOMAIN sa.storage = {}
      BY <2>4, <2>7, <3>1, Zenon
    <3>3. T \union DOMAIN sa.storage = T
      BY <3>2, Zenon
    <3> QED BY <3>3, Zenon
  <2>9. st = [k \in T |-> R[k]] /\ DOMAIN st = T
    <3>1. \A k \in T : o.committed[k] = R[k]
      BY <1>5, <2>6, <2>7, Zenon
    <3> QED BY <3>1, Zenon
  <2> HIDE DEF st, full
  <2>10. I = NewSubstateAccount(h, st) /\ I.storage = st
    <3>1. [NewSubstateAccount(h, none) EXCEPT !.storage = st] = NewSubstateAccount(h, st)
      BY DEF NewSubstateAccount
    <3>2. NewSubstateAccount(h, st).storage = st
      BY SlicedIs
    <3> QED BY <2>5, <2>7, <2>8, <3>1, <3>2, Zenon
  <2>11. Sliced(b[a], T) = NewSubstateAccount(h, [k \in T |-> R[k]])
    BY <2>3, SlicedIs
  <2> QED BY <2>2, <2>9, <2>10, <2>11, Zenon
<1>10. F.trie[a] = s.trie[a]
  BY <1>1, FinaliseIs, Zenon
<1>11. CASE removed(s, a, d)
  <2>1. p = [o EXCEPT !.deleted = TRUE] /\ F.ResearchPostAlloc[a] = Absent
    BY <1>7, <1>11, Zenon
  <2> HIDE DEF F, o, p
  <2>2. p # Absent /\ p.deleted
    <3>1. "deleted" \in Fields
      BY Zenon DEF Fields
    <3>2. [o EXCEPT !["deleted"] = TRUE]["deleted"] = TRUE /\ [o EXCEPT !["deleted"] = TRUE] # Absent
      BY <1>5, <3>1, FieldsKept, Zenon
    <3> QED BY <2>1, <3>2, Zenon
  <2>3. Found(F, a) = p
    BY <1>8, <2>2, FoundIs, Zenon DEF p
  <2>4. ~Live(Found(F, a))
    BY <2>2, <2>3, Zenon DEF Live
  <2>5. View(F, a) = Absent
    BY <2>4, ViewIs, Zenon
  <2>6. I = Absent => b[a] = Absent
    <3>1. s.ResearchPreAlloc[a] # Absent
      BY <1>2, Zenon DEF Has
    <3>2. s.ResearchPreAlloc[a] \notin {Absent, Nil} => "nonce" \in DOMAIN I
      <4> SUFFICES ASSUME s.ResearchPreAlloc[a] \notin {Absent, Nil} PROVE "nonce" \in DOMAIN I
        BY Zenon
      <4>1. b[a] # Absent /\ s.ResearchPreAlloc[a] = [b[a] EXCEPT !.storage = <<>>]
        BY <1>1, Zenon DEF Recorded
      <4>2. "nonce" \in DOMAIN b[a]
        <5>1. b[a] = NewSubstateAccount(H[0][a], [k \in Keys |-> Slot(H[0][a], k)])
          BY <4>1, Zenon DEF Whole, Traced, Starts
        <5>2. \A obj, st : "nonce" \in DOMAIN NewSubstateAccount(obj, st)
          BY Zenon DEF NewSubstateAccount
        <5> QED BY <5>1, <5>2, Zenon
      <4>3. DOMAIN I = DOMAIN b[a]
        BY <4>1, Zenon DEF RecordedInput
      <4> QED BY <4>2, <4>3, Zenon
    <3>3. "nonce" \notin DOMAIN Absent
      BY Zenon DEF Absent
    <3>4. I = Absent => s.ResearchPreAlloc[a] = Nil
      BY <3>1, <3>2, <3>3, Zenon
    <3> QED BY <1>1, <3>4, Zenon DEF Recorded
  <2> HIDE DEF I
  <2> QED BY <1>7, <1>9, <2>1, <2>4, <2>5, <2>6, Zenon DEF Effect, F, p
<1>12. CASE ~removed(s, a, d)
  <2>1. ~o.suicided
    BY <1>12, Zenon DEF removed
  <2>2. p = finalise(o) /\ F.ResearchPostAlloc[a] = NewSubstateAccount(o, TouchedSlots(o))
    BY <1>7, <1>12, Zenon
  <2>3. /\ p # Absent /\ p.deleted = o.deleted /\ p.suicided = o.suicided
        /\ p.nonce = o.nonce /\ p.balance = o.balance /\ p.code = o.code
        /\ \A k \in Keys : Slot(p, k) = Slot(o, k) /\ p.committed[k] = Slot(o, k)
    <3> HIDE DEF p, o, F
    <3> QED BY <1>5, <2>2, FinalisedIs
  <2>4. TouchedSlots(o) = [k \in T |-> S[k]]
    BY <1>5, Zenon DEF TouchedSlots
  <2>5. \A k \in Keys : k \notin T => S[k] = IF b[a] = Absent THEN 0 ELSE b[a].storage[k]
    BY <1>3, <1>5, Zenon DEF Fits
  <2>6. [k \in Keys |-> Slot(p, k)] = S
    BY <2>3, Zenon
  <2> HIDE DEF F, p
  <2>7. Found(F, a) = p
    BY <1>8, <2>3, FoundIs, Zenon DEF p
  <2>8. Live(p)
    BY <1>3, <2>3, Zenon DEF Live
  <2> HIDE DEF o, S, T, I
  <2>9. View(F, a) = NewSubstateAccount(o, S)
    <3>1. View(F, a) = NewSubstateAccount(p, S)
      BY <2>6, <2>7, <2>8, ViewIs, Zenon
    <3> QED BY <2>3, <3>1, Zenon DEF NewSubstateAccount
  <2> DEFINE output == NewSubstateAccount(o, TouchedSlots(o))
             after == NewSubstateAccount(o, S)
  <2>10. output # Absent /\ after # Absent
    BY Distinct, Zenon
  <2>11. output.storage = TouchedSlots(o) /\ DOMAIN TouchedSlots(o) = T /\ after.storage = S
    <3>1. DOMAIN TouchedSlots(o) = T
      BY <2>4, Zenon
    <3> QED BY <3>1, SlicedIs
  <2>12. output = Sliced(after, T)
    BY <2>4, SlicedIs
  <2> HIDE DEF output, after
  <2>13. Effect(I, output, after, b[a])
    BY <1>9, <2>5, <2>10, <2>11, <2>12, Zenon DEF Effect
  <2>14. /\ F.ResearchPreAlloc[a] = I /\ F.ResearchPostAlloc[a] = output /\ View(F, a) = after
    BY <1>7, <2>2, <2>9, Zenon DEF output, after
  <2> QED BY <2>1, <2>3, <2>7, <2>13, <2>14, Zenon DEF F
<1> QED BY <1>11, <1>12, Zenon

\* The end of a transaction, when nothing is bare.
LEMMA FinaliseEffect ==
  ASSUME WellOrdered, NEW s, NEW b, NEW H, Whole(s, b, H), \A a \in Addrs : ~Bare(s, a), NEW d
  PROVE LET F == Finalise(s, d)
        IN /\ \A a \in Addrs :
                 Effect(F.ResearchPreAlloc[a], F.ResearchPostAlloc[a], View(F, a), b[a])
           /\ Settled(F)
<1> DEFINE F == Finalise(s, d)
<1>1. ASSUME NEW a \in Addrs
      PROVE /\ Effect(F.ResearchPreAlloc[a], F.ResearchPostAlloc[a], View(F, a), b[a])
            /\ Live(Found(F, a)) =>
                 /\ ~Found(F, a).suicided
                 /\ \A k \in Keys : Slot(Found(F, a), k) = Found(F, a).committed[k]
  <2>1. CASE Changed(s, a)
    BY <2>1, ChangedEffect
  <2>2. CASE ~Changed(s, a)
    BY <2>2, UnchangedEffect
  <2> QED BY <2>1, <2>2, Zenon
<1> HIDE DEF F
<1>2. Settled(F)
  BY <1>1, Zenon DEF Settled
<1> QED BY <1>1, <1>2, Zenon DEF F

-----------------------------------------------------------------------------
(* A revert that is under way.                                              *)

\* the running transaction, while the journal is undone down to length l
Undoing(s, b, H, f, l) ==
  /\ Whole(s, b, H) /\ l \in 0 .. Len(s.journal)
  /\ FramesFit(s.journal, b, H, f, l) /\ BareCreated(s.journal, f, l)

\* Between operations nothing is undone.
LEMMA FitUndoing ==
  ASSUME NEW s, NEW b, NEW H, NEW f
  PROVE Fit(s, b, H, f) <=> Undoing(s, b, H, f, Len(s.journal))
<1>1. Whole(s, b, H) => Len(s.journal) \in 0 .. Len(s.journal)
  <2>1. Whole(s, b, H) => Len(s.journal) \in Nat
    BY JournalLen, Zenon DEF Whole
  <2> QED BY <2>1
<1> QED BY <1>1, Zenon DEF Fit, Undoing

\* What is said of the frames does not depend on the journal beyond l.
LEMMA FramesSame ==
  ASSUME NEW j, NEW k, NEW b, NEW H, NEW f \in Seq(Frame), NEW l \in Nat,
         \A i \in 1 .. l : j[i] = k[i], FramesFit(j, b, H, f, l), BareCreated(j, f, l)
  PROVE FramesFit(k, b, H, f, l) /\ BareCreated(k, f, l)
<1>1. BareCreated(k, f, l)
  BY BareSame, Zenon DEF BareCreated
<1>2. ASSUME NEW n \in 1 .. Len(f) PROVE FrameFits(k, b, H, f, n, l)
  <2> DEFINE h == f[n].snapshot
  <2>1. FrameFits(j, b, H, f, n, l)
    BY Zenon DEF FramesFit
  <2>2. f[n] \in Frame
    OBVIOUS
  <2>3. h \in Nat
    BY <2>2, Zenon DEF Frame
  <2>4. \E q : q \in h .. l
    BY <2>1, Zenon DEF FrameFits
  <2> HIDE DEF h
  <2>5. \A i \in 1 .. h : i \in 1 .. l
    BY <2>3, <2>4
  <2>6. \A i \in 1 .. h : j[i] = k[i]
    BY <2>5, Zenon
  <2>7. \A x \in Addrs : BareAt(k, h, x) => BareAt(j, h, x)
    BY <2>6, BareSame, Zenon
  <2>8. \A x \in Addrs : BareAt(k, f[n].snapshot, x) => Creator(f, n - 1, x)
    BY <2>1, <2>7, Zenon DEF FrameFits, h
  <2> QED BY <2>1, <2>8, Zenon DEF FrameFits
<1> QED BY <1>1, <1>2, Zenon DEF FramesFit

\* One iteration of journal.revert.
LEMMA UndoingStep ==
  ASSUME NEW s, NEW b, NEW H, NEW f \in Seq(Frame), NEW l \in Nat, Undoing(s, b, H, f, l),
         l < Len(s.journal)
  PROVE Undoing(revertLast(s), b, H, f, l)
<1> DEFINE n == Len(s.journal)
           t == revertLast(s)
<1>1. n \in Nat
  BY JournalLen, Zenon DEF Undoing, Whole
<1>2. n > 0
  BY <1>1
<1>3. Whole(t, b, H) /\ Len(t.journal) = n - 1 /\ \A i \in 1 .. n - 1 : t.journal[i] = s.journal[i]
  BY <1>2, RevertWhole, Zenon DEF Undoing
<1> HIDE DEF n, t
<1>4. l \in 0 .. n - 1 /\ \A i \in 1 .. l : i \in 1 .. n - 1
  BY <1>1 DEF n
<1>5. \A i \in 1 .. l : s.journal[i] = t.journal[i]
  BY <1>3, <1>4, Zenon
<1>6. FramesFit(t.journal, b, H, f, l) /\ BareCreated(t.journal, f, l)
  BY <1>5, FramesSame, Zenon DEF Undoing
<1> QED BY <1>3, <1>4, <1>6, Zenon DEF Undoing, t
=============================================================================
