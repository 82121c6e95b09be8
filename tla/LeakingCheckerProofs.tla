------------------------- MODULE LeakingCheckerProofs -------------------------
(***************************************************************************)
(* What RecordRate and CheckAttack guarantee for every set of users, all    *)
(* flows in block order and all relations.  The inductive invariant has     *)
(* five parts: Base (types and resets), Search (which users are marked and  *)
(* which calls are pending), Totalled (the frames together hold the entry's *)
(* own flow and what the marked users add), Flagged (why the flag is set)   *)
(* and Reported (what has been checked so far).  The laws of sums, and the  *)
(* types of the flow of one user, which need well-founded induction, are    *)
(* proved last.                                                             *)
(***************************************************************************)
EXTENDS LeakingChecker, TLAPS

-----------------------------------------------------------------------------
(* The inductive invariant. *)

\* The keys of blocks and transactions, and the frames of the search.
FlowKeys == [block : Nat, tx : Nat]
Frames == [user : Users, deposit : Nat, withdraw : Nat, first : FlowKeys]

\* The token of the current user's list.
Token == TokenToCheck(user)

\* What every action relies on: the types, and which variables are reset together.
Base ==
  /\ flows \in FlowMaps /\ since \in [Users -> [Users -> Nat]]
  /\ todo \subseteq DOMAIN flows
  /\ user # NoUser => /\ user \in DOMAIN flows /\ user \notin todo /\ Checked(user)
                      /\ index \in 1 .. Len(List) \union {1}
  /\ user = NoUser => stack = <<>> /\ index = 1 /\ unsupported = FALSE
  /\ first \in FlowKeys
  /\ stack \in Seq(Frames)
  /\ stack # <<>> => user # NoUser /\ index \in 2 .. Len(List) /\ stack[1].user = user
  /\ stack = <<>> => used = {}
  /\ used \subseteq Users \ Common

\* The related users that the search goes on from.
SupportedUsers == {v \in Users : Supported(v)}

\* The users that a related user leads to have all been met.
Expanded(v) == \A w \in Users : Eligible(v, w, ThisFlow.block) => w \in used

\* A set of users that leads to no others.
ClosedSet(S, u, token, block) ==
  \A v \in S \union {u}, w \in Users : Follows(u, v, w, token, block) => w \in S

\* The search: pending calls are for different users that were marked; only users that can
\* be reached were marked; what a marked user leads to was marked too, unless its call is
\* pending or its token unsupported.
Search ==
  /\ \A i \in 2 .. Len(stack) : stack[i].user \in used \intersect SupportedUsers
  /\ \A i, j \in 2 .. Len(stack) : stack[i].user = stack[j].user => i = j
  /\ stack # <<>> => \A S \in SUBSET Users :
                       ClosedSet(S, user, Token, ThisFlow.block) => used \subseteq S
  /\ \A v \in used : \/ \E i \in DOMAIN stack : stack[i].user = v
                     \/ ~Supported(v)
                     \/ Expanded(v)

\* The totals: what the pending calls hold together is what the entry and the marked users
\* have.
Deposits(token, this) == [v \in Users |-> RelatedFlow(v, token, this).deposit]
Withdraws(token, this) == [v \in Users |-> RelatedFlow(v, token, this).withdraw]
StackDeposits == [i \in DOMAIN stack |-> stack[i].deposit]
StackWithdraws == [i \in DOMAIN stack |-> stack[i].withdraw]
Totalled ==
  stack # <<>> =>
    /\ Sum(StackDeposits, DOMAIN stack) = ThisFlow.deposit + Sum(Deposits(Token, ThisFlow), used)
    /\ Sum(StackWithdraws, DOMAIN stack) = ThisFlow.withdraw + Sum(Withdraws(Token, ThisFlow), used)

\* The entries that must be reported.
Leaks(u, i) ==
  LET sum == SummedFlow(u, i) IN
  /\ "withdraw" \in FlowList(u, TokenToCheck(u))[i].action
  /\ sum.withdraw > 0 /\ sum.withdraw >= 3 * sum.deposit
  /\ \A v \in sum.related : ~Unsupported(v, TokenToCheck(u))

\* Of the users done, and of the entries done of the current user, each that must be
\* reported is.
Done(u, i) == u = user => i < index \/ (i = index /\ stack = <<>>)
Reported ==
  command = "CheckAttack" =>
    \A u \in DOMAIN flows \ todo : \A i \in 2 .. Len(FlowList(u, TokenToCheck(u))) :
       Checked(u) /\ Done(u, i) /\ Leaks(u, i) => \E r \in records : r.user = u

\* existUnSupportToken is set only when an entry so far led to an unsupported token.
Flagged ==
  unsupported => \E j \in 2 .. index : \E v \in SummedFlow(user, j).related : Unsupported(v, Token)

-----------------------------------------------------------------------------
(* Types. *)

\* The lists of flows, whoever has them.
LEMMA ListTypes ==
  ASSUME flows \in FlowMaps, NEW u, NEW token
  PROVE  /\ FlowList(u, token) \in Seq(TokenFlows) /\ InOrder(FlowList(u, token))
         /\ Len(FlowList(u, token)) \in Nat
         /\ DOMAIN FlowList(u, token) = 1 .. Len(FlowList(u, token))
         /\ \A i \in 1 .. Len(FlowList(u, token)) : FlowList(u, token)[i] \in TokenFlows
<1> DEFINE l == FlowList(u, token)
<1>1. l \in Seq(TokenFlows) /\ InOrder(l)
  <2>1. CASE HasFlow(u, token)
    BY <2>1, CheckerAssumption, Zenon DEF HasFlow, FlowList
  <2>2. CASE ~HasFlow(u, token)
    <3>1. l = <<>> /\ <<>> \in Seq(TokenFlows) /\ DOMAIN <<>> = {}
      BY <2>2 DEF FlowList
    <3> QED BY <3>1, Zenon DEF InOrder
  <2> QED BY <2>1, <2>2, Zenon
<1> HIDE DEF l
<1>2. Len(l) \in Nat /\ DOMAIN l = 1 .. Len(l) /\ \A i \in 1 .. Len(l) : l[i] \in TokenFlows
  BY <1>1
<1> QED BY <1>1, <1>2, Zenon DEF l

\* The fields of an entry.
LEMMA EntryTypes ==
  ASSUME NEW flow \in TokenFlows
  PROVE  /\ KeyOf(flow) \in FlowKeys
         /\ flow.block \in Nat /\ flow.tx \in Nat
         /\ flow.deposit \in Nat /\ flow.withdraw \in Nat /\ flow.balance \in Nat
         /\ flow.action \subseteq {"deposit", "withdraw"}
BY Zenon DEF TokenFlows, KeyOf, FlowKeys

\* What merging the totals of a call does to a frame.
LEMMA MergeTypes ==
  ASSUME NEW frame \in Frames, NEW d \in Nat, NEW w \in Nat, NEW f \in FlowKeys
  PROVE  LET m == Merge(frame, d, w, f) IN
         /\ m \in Frames /\ m.user = frame.user
         /\ m.deposit = frame.deposit + d /\ m.withdraw = frame.withdraw + w
<1> DEFINE g == IF Earlier(f, frame.first) THEN f ELSE frame.first
<1>1. g \in FlowKeys
  BY Zenon DEF Frames
<1> HIDE DEF g
<1>2. Merge(frame, d, w, f)
        = [user |-> frame.user, deposit |-> frame.deposit + d, withdraw |-> frame.withdraw + w,
           first |-> g]
  BY Zenon DEF Merge, Frame, g
<1>3. frame.user \in Users /\ frame.deposit \in Nat /\ frame.withdraw \in Nat
  BY Zenon DEF Frames
<1> QED BY <1>1, <1>2, <1>3 DEF Frames

\* The current entry is one of the list.
LEMMA ThisTypes ==
  ASSUME Base, stack # <<>>
  PROVE  ThisFlow \in TokenFlows /\ index \in 2 .. Len(List) /\ Len(List) \in Nat /\ user \in Users
<1>1. flows \in FlowMaps /\ index \in 2 .. Len(List) /\ user \in DOMAIN flows
  BY Zenon DEF Base
<1>2. Len(List) \in Nat /\ \A i \in 1 .. Len(List) : List[i] \in TokenFlows
  BY <1>1, ListTypes, Zenon DEF List
<1>3. index \in 1 .. Len(List)
  BY <1>1, <1>2
<1> QED BY <1>1, <1>2, <1>3, CheckerAssumption, Zenon DEF ThisFlow

\* What depends on the inputs only does not change.
LEMMA SameInputs ==
  ASSUME UNCHANGED inputs
  PROVE  /\ UNCHANGED <<command, flows, since>>
         /\ \A u : TokenToCheck(u)' = TokenToCheck(u) /\ (Checked(u)' <=> Checked(u))
         /\ \A u, token : /\ FlowList(u, token)' = FlowList(u, token)
                          /\ Unsupported(u, token)' <=> Unsupported(u, token)
         /\ \A u, v, block : Eligible(u, v, block)' <=> Eligible(u, v, block)
<1>1. UNCHANGED <<command, flows, since>>
  BY Zenon DEF inputs
<1>2. \A u, token : HasFlow(u, token)' <=> HasFlow(u, token)
  BY <1>1, Zenon DEF HasFlow
<1>3. \A u : TokenToCheck(u)' = TokenToCheck(u) /\ (Checked(u)' <=> Checked(u))
  BY <1>1, <1>2, Zenon DEF TokenToCheck, Checked
<1>4. \A u, token : FlowList(u, token)' = FlowList(u, token)
  BY <1>1, <1>2, Zenon DEF FlowList
<1>5. \A u, token : Unsupported(u, token)' <=> Unsupported(u, token)
  BY <1>1, <1>2, Zenon DEF Unsupported
<1>6. \A u, v, block : Eligible(u, v, block)' <=> Eligible(u, v, block)
  BY <1>1, Zenon DEF Eligible
<1> QED BY <1>1, <1>3, <1>4, <1>5, <1>6, Zenon

\* Nor does what depends on the current entry as well, while it is the same.
LEMMA SameEntry ==
  ASSUME UNCHANGED inputs, UNCHANGED <<user, index>>
  PROVE  /\ UNCHANGED <<List, ThisFlow, Token>>
         /\ \A v : Supported(v)' <=> Supported(v)
         /\ SupportedUsers' = SupportedUsers
<1>1. UNCHANGED <<command, flows, since>>
  BY Zenon DEF inputs
<1>2. Token' = Token
  BY <1>1, Zenon DEF Token, TokenToCheck, HasFlow
<1>3. List' = List
  BY <1>1, Zenon DEF List, TokenToCheck, HasFlow, FlowList
<1>4. ThisFlow' = ThisFlow
  BY <1>3, Zenon DEF ThisFlow
<1>5. \A v : Supported(v)' <=> Supported(v)
  BY <1>1, Zenon DEF Supported, Unsupported, HasFlow, TokenToCheck
<1>6. SupportedUsers' = SupportedUsers
  BY <1>5, Zenon DEF SupportedUsers
<1> QED BY <1>2, <1>3, <1>4, <1>5, <1>6, Zenon

\* The flow that the call for a related user starts with, and what it adds to the totals,
\* have their types (RelatedTypes below).
Typed ==
  \A v \in Users : \A token, this :
    LET fr == RelatedFrame(v, token, this) IN
    /\ fr \in Frames /\ fr.user = v
    /\ RelatedFlow(v, token, this).deposit \in Nat
    /\ RelatedFlow(v, token, this).withdraw \in Nat
    /\ Unsupported(v, token) => /\ RelatedFlow(v, token, this).deposit = 0
                                /\ RelatedFlow(v, token, this).withdraw = 0
    /\ ~Unsupported(v, token) => /\ RelatedFlow(v, token, this).deposit = fr.deposit
                                 /\ RelatedFlow(v, token, this).withdraw = fr.withdraw

-----------------------------------------------------------------------------
(* What the steps do. *)

\* The stack.
LEMMA StackTypes ==
  ASSUME Base
  PROVE  /\ stack \in Seq(Frames) /\ Len(stack) \in Nat /\ DOMAIN stack = 1 .. Len(stack)
         /\ stack = <<>> <=> Len(stack) = 0
         /\ stack # <<>> => Len(stack) >= 1 /\ 1 \in 1 .. Len(stack) /\ Len(stack) \in 1 .. Len(stack)
         /\ \A i \in 1 .. Len(stack) :
              /\ stack[i] \in Frames /\ stack[i].user \in Users /\ stack[i].first \in FlowKeys
              /\ stack[i].deposit \in Nat /\ stack[i].withdraw \in Nat
<1>1. stack \in Seq(Frames)
  BY Zenon DEF Base
<1>2. /\ Len(stack) \in Nat /\ DOMAIN stack = 1 .. Len(stack)
      /\ stack = <<>> <=> Len(stack) = 0
      /\ \A i \in 1 .. Len(stack) : stack[i] \in Frames
  BY <1>1
<1>3. stack # <<>> => Len(stack) >= 1 /\ 1 \in 1 .. Len(stack) /\ Len(stack) \in 1 .. Len(stack)
  BY <1>2
<1>4. \A fr \in Frames : /\ fr.user \in Users /\ fr.first \in FlowKeys
                        /\ fr.deposit \in Nat /\ fr.withdraw \in Nat
  BY Zenon DEF Frames
<1> QED BY <1>1, <1>2, <1>3, <1>4, Zenon

\* The search looks at a related user that it has not met.
Meets(v) ==
  /\ stack # <<>> /\ Len(stack) \in Nat /\ Len(stack) >= 1
  /\ v \in Users /\ v \notin used /\ v \notin Common
  /\ Eligible(stack[Len(stack)].user, v, ThisFlow.block)

\* A candidate is such a user.
LEMMA MeetsStep ==
  ASSUME Base, stack # <<>>, NEW v, v \in Candidates
  PROVE  Meets(v)
<1>1. Len(stack) \in Nat /\ Len(stack) >= 1
  BY StackTypes, Zenon
<1> QED BY <1>1, Zenon DEF Candidates, Meets, Top, Eligible

\* A related user with supported tokens: a call is pending.
LEMMA VisitStep ==
  ASSUME Base, Typed, NEW v \in Users, Visit(v)
  PROVE  LET fr == RelatedFrame(v, Token, ThisFlow) IN
         /\ Meets(v) /\ Supported(v) /\ fr \in Frames /\ fr.user = v
         /\ used' = used \union {v}
         /\ stack' \in Seq(Frames) /\ Len(stack') = Len(stack) + 1 /\ stack' # <<>>
         /\ \A i \in 1 .. Len(stack) : stack'[i] = stack[i]
         /\ stack'[Len(stack) + 1] = fr
         /\ UNCHANGED inputs /\ UNCHANGED <<todo, user, index, first, unsupported, records>>
<1> DEFINE fr == RelatedFrame(v, Token, ThisFlow)
<1>1. /\ stack # <<>> /\ v \in Candidates /\ Supported(v)
      /\ used' = used \union {v} /\ stack' = Append(stack, fr)
      /\ UNCHANGED inputs /\ UNCHANGED <<todo, user, index, first, unsupported, records>>
  BY Zenon DEF Visit, Token, flowVars
<1>2. fr \in Frames /\ fr.user = v
  BY DEF Typed
<1> HIDE DEF fr
<1>3. /\ stack' \in Seq(Frames) /\ Len(stack') = Len(stack) + 1 /\ stack' # <<>>
      /\ \A i \in 1 .. Len(stack) : stack'[i] = stack[i]
      /\ stack'[Len(stack) + 1] = fr
  <2>1. stack \in Seq(Frames)
    BY StackTypes, Zenon
  <2> QED BY <1>1, <1>2, <2>1
<1> QED BY <1>1, <1>2, <1>3, MeetsStep, Zenon DEF fr

\* A related user with an unsupported token, within a call: nothing is added.
LEMMA UnsupportedStep ==
  ASSUME Base, NEW v \in Users, VisitUnsupported(v)
  PROVE  /\ Meets(v) /\ ~Supported(v) /\ Len(stack) > 1
         /\ used' = used \union {v}
         /\ stack' \in Seq(Frames) /\ Len(stack') = Len(stack) /\ stack' # <<>>
         /\ \A i \in 1 .. Len(stack) : /\ stack'[i].user = stack[i].user
                                       /\ stack'[i].deposit = stack[i].deposit
                                       /\ stack'[i].withdraw = stack[i].withdraw
         /\ UNCHANGED inputs /\ UNCHANGED <<todo, user, index, first, unsupported, records>>
<1> DEFINE top == Merge(stack[Len(stack)], 0, 0, Origin)
<1>1. /\ Len(stack) > 1 /\ v \in Candidates /\ ~Supported(v)
      /\ used' = used \union {v} /\ stack' = [stack EXCEPT ![Len(stack)] = top]
      /\ UNCHANGED inputs /\ UNCHANGED <<todo, user, index, first, unsupported, records>>
  BY Zenon DEF VisitUnsupported, flowVars
<1>2. /\ stack \in Seq(Frames) /\ Len(stack) \in Nat /\ stack[Len(stack)] \in Frames /\ stack # <<>>
      /\ stack[Len(stack)].deposit \in Nat /\ stack[Len(stack)].withdraw \in Nat
  <2>1. Len(stack) \in Nat /\ stack # <<>> 
    BY <1>1, StackTypes
  <2> QED BY <2>1, StackTypes, Zenon
<1>3. Origin \in FlowKeys /\ 0 \in Nat
  BY Zenon DEF Origin, FlowKeys
<1>4. /\ top \in Frames /\ top.user = stack[Len(stack)].user
      /\ top.deposit = stack[Len(stack)].deposit + 0 /\ top.withdraw = stack[Len(stack)].withdraw + 0
  BY <1>2, <1>3, MergeTypes, ZenonT(40)
<1> HIDE DEF top
<1>5. top.deposit = stack[Len(stack)].deposit /\ top.withdraw = stack[Len(stack)].withdraw
  BY <1>2, <1>4
<1>6. /\ stack' \in Seq(Frames) /\ Len(stack') = Len(stack) /\ stack' # <<>>
      /\ \A i \in 1 .. Len(stack) : stack'[i] = IF i = Len(stack) THEN top ELSE stack[i]
  BY <1>1, <1>2, <1>4
<1>7. \A i \in 1 .. Len(stack) : /\ stack'[i].user = stack[i].user
                                 /\ stack'[i].deposit = stack[i].deposit
                                 /\ stack'[i].withdraw = stack[i].withdraw
  BY <1>4, <1>5, <1>6, Zenon
<1> QED BY <1>1, <1>2, <1>6, <1>7, MeetsStep, Zenon

\* A call returns: its totals go to its caller.
LEMMA ReturnStep ==
  ASSUME Base, Return
  PROVE  LET n == Len(stack) - 1 IN
         /\ Len(stack) \in Nat /\ n \in Nat /\ n >= 1 /\ stack # <<>> /\ Candidates = {}
         /\ stack' \in Seq(Frames) /\ Len(stack') = n /\ stack' # <<>>
         /\ \A i \in 1 .. n : stack'[i].user = stack[i].user
         /\ \A i \in 1 .. n - 1 : stack'[i] = stack[i]
         /\ stack'[n].deposit = stack[n].deposit + stack[n + 1].deposit
         /\ stack'[n].withdraw = stack[n].withdraw + stack[n + 1].withdraw
         /\ UNCHANGED inputs /\ UNCHANGED <<todo, user, index, first, unsupported, used, records>>
<1> DEFINE n == Len(stack) - 1
           top == Merge(stack[n], Top.deposit, Top.withdraw, Top.first)
           rest == SubSeq(stack, 1, n)
<1>1. /\ Len(stack) > 1 /\ Candidates = {}
      /\ stack' = [rest EXCEPT ![n] = Merge(rest[n], Top.deposit, Top.withdraw, Top.first)]
      /\ UNCHANGED inputs /\ UNCHANGED <<todo, user, index, first, unsupported, used, records>>
  BY Zenon DEF Return, flowVars
<1>2. /\ stack \in Seq(Frames) /\ Len(stack) \in Nat /\ n \in 1 .. Len(stack) /\ stack # <<>>
      /\ n + 1 = Len(stack) /\ n \in Nat /\ n >= 1
  BY <1>1, StackTypes
<1>3. /\ rest \in Seq(Frames) /\ Len(rest) = n /\ \A i \in 1 .. n : rest[i] = stack[i]
  <2> HIDE DEF n
  <2> QED BY <1>2
<1> HIDE DEF rest
<1>4. Top = stack[n + 1] /\ rest[n] = stack[n]
  BY <1>2, <1>3 DEF Top
<1>a. stack[n] \in Frames /\ Top \in Frames
  BY <1>2 DEF Top
<1>5. Top.deposit \in Nat /\ Top.withdraw \in Nat /\ Top.first \in FlowKeys
  BY <1>a, Zenon DEF Frames
<1>6. /\ top \in Frames /\ top.user = stack[n].user
      /\ top.deposit = stack[n].deposit + Top.deposit
      /\ top.withdraw = stack[n].withdraw + Top.withdraw
  <2> HIDE DEF n
  <2>1. \A frame \in Frames, d \in Nat, w \in Nat, f \in FlowKeys :
          LET m == Merge(frame, d, w, f) IN
          /\ m \in Frames /\ m.user = frame.user
          /\ m.deposit = frame.deposit + d /\ m.withdraw = frame.withdraw + w
    BY MergeTypes, Zenon
  <2>2. \A d \in Nat, w \in Nat, f \in FlowKeys :
          LET m == Merge(stack[n], d, w, f) IN
          /\ m \in Frames /\ m.user = stack[n].user
          /\ m.deposit = stack[n].deposit + d /\ m.withdraw = stack[n].withdraw + w
    BY <1>a, <2>1, Zenon
  <2> QED BY <1>5, <2>2, ZenonT(40)
<1>7. stack' = [rest EXCEPT ![n] = top]
  BY <1>1, <1>4, Zenon
<1> HIDE DEF n, top
<1>8. /\ stack' \in Seq(Frames) /\ Len(stack') = n /\ stack' # <<>>
      /\ \A i \in 1 .. n : stack'[i] = IF i = n THEN top ELSE stack[i]
  BY <1>2, <1>3, <1>6, <1>7
<1>9. /\ stack'[n] = top /\ \A i \in 1 .. n - 1 : stack'[i] = stack[i]
  BY <1>2, <1>8
<1>10. \A i \in 1 .. n : stack'[i].user = stack[i].user
  BY <1>6, <1>8, Zenon
<1> QED BY <1>1, <1>2, <1>4, <1>6, <1>8, <1>9, <1>10, Zenon DEF n

\* The next entry of the list.
LEMMA NextFlowStep ==
  ASSUME Base, NextFlow
  PROVE  /\ user # NoUser /\ stack = <<>> /\ index \in Nat /\ Len(List) \in Nat
         /\ index + 1 \in 2 .. Len(List) /\ index' = index + 1
         /\ first' \in FlowKeys
         /\ ThisFlow' = List[index + 1] /\ List' = List /\ List[index + 1] \in TokenFlows
         /\ stack' = IF "withdraw" \in List[index + 1].action
                     THEN <<Frame(user, List[index + 1].deposit, List[index + 1].withdraw, first')>>
                     ELSE <<>>
         /\ UNCHANGED inputs /\ UNCHANGED <<todo, user, unsupported, used, records>>
<1> DEFINE flow == List[index + 1]
<1>1. /\ user # NoUser /\ stack = <<>> /\ index < Len(List) /\ index' = index + 1
      /\ first' = IF first.block = 0 \/ (Settled /\ "deposit" \in flow.action)
                  THEN KeyOf(flow) ELSE first
      /\ stack' = IF "withdraw" \in flow.action
                  THEN <<Frame(user, flow.deposit, flow.withdraw, first')>> ELSE <<>>
      /\ UNCHANGED inputs /\ UNCHANGED <<todo, user, unsupported, used, records>>
  BY Zenon DEF NextFlow
<1>2. Len(List) \in Nat /\ \A i \in 1 .. Len(List) : List[i] \in TokenFlows
  BY ListTypes, Zenon DEF List, Base
<1>3. index \in 1 .. Len(List) \union {1} /\ first \in FlowKeys
  BY <1>1, Zenon DEF Base
<1>4. index \in Nat /\ index + 1 \in 2 .. Len(List) /\ index + 1 \in 1 .. Len(List)
  BY <1>1, <1>2, <1>3
<1>5. flow \in TokenFlows
  BY <1>2, <1>4, Zenon
<1>6. first' \in FlowKeys
  BY <1>1, <1>3, <1>5, EntryTypes, Zenon
<1>7. List' = List
  BY <1>1, Zenon DEF List, TokenToCheck, HasFlow, FlowList, inputs
<1>8. ThisFlow' = flow
  BY <1>1, <1>7, Zenon DEF ThisFlow
<1> QED BY <1>1, <1>2, <1>4, <1>5, <1>6, <1>7, <1>8, Zenon

\* The end of an entry.
LEMMA EndsStep ==
  ASSUME Base, EndFlow \/ \E v \in Users : BreakOff(v)
  PROVE  /\ stack # <<>> /\ stack' = <<>> /\ used' = {} /\ first' \in FlowKeys
         /\ UNCHANGED inputs /\ UNCHANGED <<todo, user, index>>
<1>1. Len(stack) = 1 /\ (first' = Origin \/ first' = stack[1].first)
  BY Zenon DEF EndFlow, Searched, BreakOff
<1>2. stack # <<>> /\ stack[1].first \in FlowKeys /\ Origin \in FlowKeys
  <2>1. stack # <<>>
    BY <1>1, StackTypes
  <2>2. Origin \in FlowKeys
    BY Zenon DEF Origin, FlowKeys
  <2> QED BY <2>1, <2>2, StackTypes, Zenon
<1>3. /\ stack' = <<>> /\ used' = {}
      /\ UNCHANGED inputs /\ UNCHANGED <<todo, user, index>>
  BY Zenon DEF EndFlow, BreakOff
<1> QED BY <1>1, <1>2, <1>3, Zenon

\* The end of a user.
LEMMA LeaveStep ==
  ASSUME Base, FindAttack \/ EndUser
  PROVE  /\ user # NoUser /\ user' = NoUser /\ stack' = <<>> /\ used' = {}
         /\ index' = 1 /\ unsupported' = FALSE /\ first' \in FlowKeys
         /\ UNCHANGED inputs /\ UNCHANGED todo
<1>1. Searched => stack # <<>>
  BY DEF Searched
<1>2. user # NoUser
  BY <1>1, Zenon DEF FindAttack, EndUser, Base
<1>3. /\ user' = NoUser /\ stack' = <<>> /\ used' = {}
      /\ index' = 1 /\ unsupported' = FALSE /\ first' = Origin
      /\ UNCHANGED inputs /\ UNCHANGED todo
  BY Zenon DEF FindAttack, EndUser, LeaveUser
<1>4. Origin \in FlowKeys
  BY Zenon DEF Origin, FlowKeys
<1> QED BY <1>2, <1>3, <1>4, Zenon

-----------------------------------------------------------------------------
(* Types and the variables that are reset together. *)

\* While the entry stays the same, it is enough to look at the stack and at usedAddress.
LEMMA BaseSearch ==
  ASSUME Base, UNCHANGED inputs, UNCHANGED <<todo, user, index>>, stack # <<>>,
         first' \in FlowKeys, stack' \in Seq(Frames), used' \subseteq Users \ Common,
         stack' # <<>> => stack'[1].user = user,
         stack' = <<>> => used' = {}
  PROVE  Base'
<1>1. /\ UNCHANGED <<List, ThisFlow, Token>> /\ UNCHANGED <<command, flows, since>>
      /\ Checked(user)' <=> Checked(user)
  BY SameEntry, SameInputs, Zenon DEF Checked, HasFlow
<1>2. user # NoUser
  BY Zenon DEF Base
<1> QED BY <1>1, <1>2, Zenon DEF Base

\* Initially nothing has been looked at.
LEMMA BaseInit == ASSUME Init PROVE Base
<1>1. since \in [Users -> [Users -> Nat]] /\ flows \in FlowMaps
  BY CheckerAssumption, Zenon DEF Init
<1>2. first \in FlowKeys /\ stack \in Seq(Frames)
  BY DEF Init, Origin, FlowKeys
<1>3. /\ user = NoUser /\ todo = DOMAIN flows /\ index = 1 /\ unsupported = FALSE /\ stack = <<>>
      /\ used = {}
  BY Zenon DEF Init
<1> QED BY <1>1, <1>2, <1>3, Zenon DEF Base

\* Taking a user, or passing one over, leaves the local variables as they were reset.
LEMMA BaseStart == ASSUME Base, NEW u \in Users, SkipUser(u) \/ StartUser(u) PROVE Base'
<1>1. /\ user = NoUser /\ u \in todo /\ todo' = todo \ {u}
      /\ UNCHANGED inputs /\ UNCHANGED <<index, first, lastBalance, unsupported, stack, used, records>>
      /\ user' = user \/ (user' = u /\ Checked(u))
  BY Zenon DEF SkipUser, StartUser, flowVars
<1>2. UNCHANGED <<command, flows, since>> /\ (Checked(u)' <=> Checked(u))
  BY <1>1, SameInputs, Zenon
<1>3. user' # NoUser => user' = u /\ Checked(user)'
  <2> SUFFICES ASSUME user' # NoUser PROVE user' = u /\ Checked(user)'
    BY Zenon
  <2>1. user' = u /\ Checked(u)
    BY <1>1, Zenon
  <2> QED BY <2>1, <1>2, Zenon DEF Checked, HasFlow
<1>4. /\ u \in DOMAIN flows /\ stack = <<>> /\ index = 1 /\ unsupported = FALSE
      /\ flows \in FlowMaps /\ since \in [Users -> [Users -> Nat]] /\ todo \subseteq DOMAIN flows
      /\ first \in FlowKeys /\ stack \in Seq(Frames) /\ used \subseteq Users \ Common
      /\ stack = <<>> => used = {}
  BY <1>1, Zenon DEF Base
<1>5. user' # NoUser => user' \in DOMAIN flows' /\ user' \notin todo'
  BY <1>1, <1>2, <1>3, <1>4, Zenon
<1>6. todo' \subseteq DOMAIN flows'
  BY <1>1, <1>2, <1>4, Zenon
<1>7. index' = 1
  BY <1>1, <1>4, Zenon
<1>8. index' \in 1 .. Len(List') \union {1}
  <2> HIDE DEF List
  <2> QED BY <1>7, Zenon
<1> QED BY <1>1, <1>2, <1>3, <1>4, <1>5, <1>6, <1>7, <1>8, Zenon DEF Base

\* The next entry is one of the list; its frame has the entry's own totals.
LEMMA BaseNextFlow == ASSUME Base, NextFlow PROVE Base'
<1>1. /\ user # NoUser /\ stack = <<>> /\ index \in Nat /\ Len(List) \in Nat
      /\ index + 1 \in 2 .. Len(List) /\ index' = index + 1
      /\ first' \in FlowKeys
      /\ List' = List /\ List[index + 1] \in TokenFlows
      /\ stack' = IF "withdraw" \in List[index + 1].action
                  THEN <<Frame(user, List[index + 1].deposit, List[index + 1].withdraw, first')>>
                  ELSE <<>>
      /\ UNCHANGED inputs /\ UNCHANGED <<todo, user, unsupported, used, records>>
  BY NextFlowStep, Zenon
<1>2. UNCHANGED <<command, flows, since>> /\ (Checked(user)' <=> Checked(user))
  BY <1>1, SameInputs, Zenon DEF Checked, HasFlow
<1>3. user \in Users /\ used = {}
  BY <1>1, CheckerAssumption, Zenon DEF Base
<1>4. /\ stack' \in Seq(Frames)
      /\ stack' # <<>> => stack'[1].user = user
  <2> DEFINE fr == Frame(user, List[index + 1].deposit, List[index + 1].withdraw, first')
  <2>1. fr \in Frames /\ fr.user = user
    BY <1>1, <1>3, EntryTypes, Zenon DEF Frame, Frames
  <2> HIDE DEF fr
  <2>2. stack' = <<>> \/ stack' = <<fr>>
    BY <1>1, Zenon DEF fr
  <2>3. CASE stack' = <<>>
    BY <2>3
  <2>4. CASE stack' = <<fr>>
    <3>1. <<fr>> \in Seq(Frames) /\ <<fr>>[1] = fr
      BY <2>1
    <3> QED BY <2>1, <2>4, <3>1, Zenon
  <2> QED BY <2>2, <2>3, <2>4, Zenon
<1>5. index' \in 2 .. Len(List') /\ index' \in 1 .. Len(List') \union {1}
  BY <1>1
<1> QED BY <1>1, <1>2, <1>3, <1>4, <1>5, Zenon DEF Base

\* The frame of a related user goes on top; that of the user who is checked stays below.
LEMMA BaseVisit == ASSUME Base, Typed, NEW v \in Users, Visit(v) PROVE Base'
<1>1. /\ Meets(v) /\ used' = used \union {v}
      /\ stack' \in Seq(Frames) /\ stack' # <<>>
      /\ \A i \in 1 .. Len(stack) : stack'[i] = stack[i]
      /\ UNCHANGED inputs /\ UNCHANGED <<todo, user, index, first>>
  BY VisitStep, Zenon
<1>2. stack # <<>> /\ 1 \in 1 .. Len(stack) /\ stack[1].user = user /\ first \in FlowKeys
      /\ used \subseteq Users \ Common
  BY <1>1, StackTypes, Zenon DEF Meets, Base
<1>3. used' \subseteq Users \ Common
  BY <1>1, <1>2, Zenon DEF Meets
<1> QED BY <1>1, <1>2, <1>3, BaseSearch, Zenon

\* A related user with an unsupported token is marked only.
LEMMA BaseUnsupported == ASSUME Base, NEW v \in Users, VisitUnsupported(v) PROVE Base'
<1>1. /\ Meets(v) /\ used' = used \union {v}
      /\ stack' \in Seq(Frames) /\ stack' # <<>>
      /\ \A i \in 1 .. Len(stack) : stack'[i].user = stack[i].user
      /\ UNCHANGED inputs /\ UNCHANGED <<todo, user, index, first>>
  BY UnsupportedStep, Zenon
<1>2. stack # <<>> /\ 1 \in 1 .. Len(stack) /\ stack[1].user = user /\ first \in FlowKeys
      /\ used \subseteq Users \ Common
  BY <1>1, StackTypes, Zenon DEF Meets, Base
<1>3. used' \subseteq Users \ Common
  BY <1>1, <1>2, Zenon DEF Meets
<1> QED BY <1>1, <1>2, <1>3, BaseSearch, Zenon

\* A call that returns is not the outermost one.
LEMMA BaseReturn == ASSUME Base, Return PROVE Base'
<1> DEFINE n == Len(stack) - 1
<1>1. /\ n \in Nat /\ n >= 1 /\ stack # <<>>
      /\ stack' \in Seq(Frames) /\ stack' # <<>>
      /\ \A i \in 1 .. n : stack'[i].user = stack[i].user
      /\ UNCHANGED inputs /\ UNCHANGED <<todo, user, index, first, used>>
  BY ReturnStep, Zenon
<1> HIDE DEF n
<1>2. 1 \in 1 .. n
  BY <1>1
<1>3. stack[1].user = user /\ first \in FlowKeys /\ used \subseteq Users \ Common
  BY <1>1, Zenon DEF Base
<1> QED BY <1>1, <1>2, <1>3, BaseSearch, Zenon

\* An entry that ends leaves no pending call and no marked user.
LEMMA BaseEnds == ASSUME Base, EndFlow \/ \E v \in Users : BreakOff(v) PROVE Base'
<1>1. /\ stack # <<>> /\ stack' = <<>> /\ used' = {} /\ first' \in FlowKeys
      /\ UNCHANGED inputs /\ UNCHANGED <<todo, user, index>>
  BY EndsStep, Zenon
<1>2. <<>> \in Seq(Frames)
  OBVIOUS
<1> QED BY <1>1, <1>2, BaseSearch, Zenon

\* The local variables of a user's iteration are gone after it.
LEMMA BaseLeave == ASSUME Base, FindAttack \/ EndUser PROVE Base'
<1>1. /\ user # NoUser /\ user' = NoUser /\ stack' = <<>> /\ used' = {}
      /\ index' = 1 /\ unsupported' = FALSE /\ first' \in FlowKeys
      /\ UNCHANGED inputs /\ UNCHANGED todo
  BY LeaveStep, Zenon
<1>2. <<>> \in Seq(Frames)
  OBVIOUS
<1>3. UNCHANGED <<command, flows, since>>
  BY <1>1, SameInputs, Zenon
<1> QED BY <1>1, <1>2, <1>3, Zenon DEF Base

\* A step that changes nothing.
LEMMA BaseStutter == ASSUME Base, UNCHANGED vars PROVE Base'
<1>1. UNCHANGED inputs /\ UNCHANGED <<todo, user, index, first, lastBalance, unsupported, stack, used, records>>
  BY Zenon DEF vars, flowVars
<1>2. /\ UNCHANGED <<List, ThisFlow, Token>> /\ UNCHANGED <<command, flows, since>>
      /\ Checked(user)' <=> Checked(user)
  BY <1>1, SameEntry, SameInputs, Zenon DEF Checked, HasFlow
<1> QED BY <1>1, <1>2, Zenon DEF Base

\* Every step keeps Base.
LEMMA BaseNext == ASSUME Base, Typed, [Next]_vars PROVE Base'
<1>1. ASSUME NEW u \in Users,
             SkipUser(u) \/ StartUser(u) \/ Visit(u) \/ VisitUnsupported(u) \/ BreakOff(u)
      PROVE  Base'
  BY <1>1, BaseStart, BaseVisit, BaseUnsupported, BaseEnds, Zenon
<1>2. CASE NextFlow \/ Return \/ EndFlow \/ FindAttack \/ EndUser
  BY <1>2, BaseNextFlow, BaseReturn, BaseEnds, BaseLeave, Zenon
<1>3. CASE UNCHANGED vars
  BY <1>3, BaseStutter, Zenon
<1> QED BY <1>1, <1>2, <1>3, Zenon DEF Next

-----------------------------------------------------------------------------
(* The search. *)

\* A set that leads to no others, while the entry is the same.
LEMMA SameClosed ==
  ASSUME UNCHANGED inputs, UNCHANGED <<user, index>>, NEW S
  PROVE  ClosedSet(S, user, Token, ThisFlow.block)' <=> ClosedSet(S, user, Token, ThisFlow.block)
<1>1. UNCHANGED <<List, ThisFlow, Token>> /\ UNCHANGED <<command, flows, since>>
  BY SameEntry, SameInputs, Zenon
<1> QED BY <1>1, Zenon DEF ClosedSet, Follows, Eligible, Unsupported, HasFlow

\* A user that is met is in every closed set.
LEMMA MetInClosed ==
  ASSUME Base, Search, NEW v, Meets(v), NEW S \in SUBSET Users,
         ClosedSet(S, user, Token, ThisFlow.block)
  PROVE  v \in S
<1> DEFINE t == stack[Len(stack)].user
<1>1. v \in Users /\ Eligible(t, v, ThisFlow.block) /\ stack # <<>>
  BY Zenon DEF Meets
<1>2. used \subseteq S
  BY <1>1, Zenon DEF Search
<1>3. CASE Len(stack) = 1
  <2>1. t = user
    BY <1>1, <1>3, Zenon DEF Base
  <2> HIDE DEF t
  <2> QED BY <1>1, <2>1, Zenon DEF ClosedSet, Follows
<1>4. CASE Len(stack) # 1
  <2>1. Len(stack) \in 2 .. Len(stack)
    BY <1>4, <1>1, StackTypes
  <2>2. t \in used /\ Supported(t)
    BY <2>1, Zenon DEF Search, SupportedUsers
  <2> HIDE DEF t
  <2> QED BY <1>1, <1>2, <2>2, Zenon DEF ClosedSet, Follows, Supported, Token
<1> QED BY <1>3, <1>4, Zenon

\* Marking a user before the call for it keeps the pending calls apart.
LEMMA SearchVisit == ASSUME Base, Typed, Search, NEW v \in Users, Visit(v) PROVE Search'
<1> DEFINE fr == RelatedFrame(v, Token, ThisFlow)
           n == Len(stack)
<1>1. /\ Meets(v) /\ Supported(v) /\ fr.user = v
      /\ used' = used \union {v}
      /\ stack' \in Seq(Frames) /\ Len(stack') = n + 1 /\ stack' # <<>>
      /\ \A i \in 1 .. n : stack'[i] = stack[i]
      /\ stack'[n + 1] = fr
      /\ UNCHANGED inputs /\ UNCHANGED <<todo, user, index>>
  BY VisitStep, Zenon
<1>2. stack # <<>> /\ n \in Nat /\ v \notin used /\ DOMAIN stack = 1 .. n /\ DOMAIN stack' = 1 .. n + 1
  BY <1>1, StackTypes DEF Meets
<1>3. /\ UNCHANGED <<List, ThisFlow, Token, SupportedUsers>> /\ \A w : Supported(w)' <=> Supported(w)
      /\ \A x, w, block : Eligible(x, w, block)' <=> Eligible(x, w, block)
  BY <1>1, SameEntry, SameInputs, Zenon
<1>4. ASSUME NEW i \in 2 .. n + 1 PROVE \/ i \in 2 .. n /\ i \in 1 .. n
                                       \/ i = n + 1
  BY <1>2
<1> HIDE DEF fr, n
<1>5. ASSUME NEW i \in 2 .. n + 1
      PROVE  \/ i = n + 1 /\ stack'[i].user = v
             \/ /\ i \in 2 .. n /\ stack'[i].user = stack[i].user
                /\ stack[i].user \in used \intersect SupportedUsers
  <2>1. CASE i = n + 1
    BY <1>1, <2>1, Zenon
  <2>2. CASE i \in 2 .. n /\ i \in 1 .. n
    BY <1>1, <2>2, Zenon DEF Search, n
  <2> QED BY <1>4, <2>1, <2>2, Zenon
<1>6. \A i \in 2 .. Len(stack') : stack'[i].user \in used' \intersect SupportedUsers'
  <2> SUFFICES ASSUME NEW i \in 2 .. n + 1
               PROVE  stack'[i].user \in used' \intersect SupportedUsers
    BY <1>1, <1>3, Zenon
  <2>1. v \in SupportedUsers
    BY <1>1, Zenon DEF SupportedUsers
  <2> QED BY <1>1, <1>5, <2>1, Zenon
<1>7. \A i, j \in 2 .. Len(stack') : stack'[i].user = stack'[j].user => i = j
  <2> SUFFICES ASSUME NEW i \in 2 .. n + 1, NEW j \in 2 .. n + 1, stack'[i].user = stack'[j].user
               PROVE  i = j
    BY <1>1, Zenon
  <2>1. CASE i = n + 1 /\ j # n + 1
    <3>1. stack'[i].user = v /\ stack'[j].user \in used
      BY <1>1, <1>5, <2>1, Zenon
    <3> QED BY <1>2, <3>1, Zenon
  <2>2. CASE i # n + 1 /\ j = n + 1
    <3>1. stack'[j].user = v /\ stack'[i].user \in used
      BY <1>1, <1>5, <2>2, Zenon
    <3> QED BY <1>2, <3>1, Zenon
  <2>3. CASE i # n + 1 /\ j # n + 1
    <3>1. i \in 2 .. n /\ j \in 2 .. n /\ stack[i].user = stack[j].user
      BY <1>5, <2>3, Zenon
    <3> QED BY <3>1, Zenon DEF Search, n
  <2> QED BY <2>1, <2>2, <2>3, Zenon
<1>8. ASSUME NEW S \in SUBSET Users, ClosedSet(S, user, Token, ThisFlow.block)' PROVE used' \subseteq S
  <2>1. ClosedSet(S, user, Token, ThisFlow.block)
    BY <1>1, <1>8, SameClosed, Zenon
  <2>2. v \in S /\ used \subseteq S
    BY <1>1, <1>2, <2>1, MetInClosed, Zenon DEF Search
  <2> QED BY <1>1, <2>2, Zenon
<1>9. ASSUME NEW w \in used'
      PROVE  (\E i \in DOMAIN stack' : stack'[i].user = w) \/ ~Supported(w)' \/ Expanded(w)'
  <2>1. CASE w = v
    <3>1. n + 1 \in DOMAIN stack' /\ stack'[n + 1].user = w
      BY <1>1, <1>2, <2>1
    <3> QED BY <3>1, Zenon
  <2>2. CASE w # v
    <3>1. w \in used
      BY <1>1, <2>2, Zenon
    <3>2. CASE \E i \in DOMAIN stack : stack[i].user = w
      <4>1. PICK i \in 1 .. n : stack[i].user = w
        BY <1>2, <3>2, Zenon
      <4>2. i \in 1 .. n + 1
        BY <1>2
      <4> QED BY <1>1, <1>2, <4>1, <4>2, Zenon
    <3>3. CASE ~Supported(w)
      BY <1>3, <3>3, Zenon
    <3>4. CASE Expanded(w)
      BY <1>1, <1>3, <3>4, Zenon DEF Expanded
    <3> QED BY <3>1, <3>2, <3>3, <3>4, Zenon DEF Search
  <2> QED BY <2>1, <2>2, Zenon
<1> QED BY <1>6, <1>7, <1>8, <1>9, Zenon DEF Search

\* A marked user with an unsupported token leads nowhere.
LEMMA SearchUnsupported == ASSUME Base, Search, NEW v \in Users, VisitUnsupported(v) PROVE Search'
<1> DEFINE n == Len(stack)
<1>1. /\ Meets(v) /\ ~Supported(v)
      /\ used' = used \union {v}
      /\ stack' \in Seq(Frames) /\ Len(stack') = n /\ stack' # <<>>
      /\ \A i \in 1 .. n : stack'[i].user = stack[i].user
      /\ UNCHANGED inputs /\ UNCHANGED <<todo, user, index>>
  BY UnsupportedStep, Zenon
<1>2. stack # <<>> /\ n \in Nat /\ DOMAIN stack = 1 .. n /\ DOMAIN stack' = 1 .. n
  BY <1>1, StackTypes DEF Meets
<1>3. /\ UNCHANGED <<List, ThisFlow, Token, SupportedUsers>> /\ \A w : Supported(w)' <=> Supported(w)
      /\ \A x, w, block : Eligible(x, w, block)' <=> Eligible(x, w, block)
  BY <1>1, SameEntry, SameInputs, Zenon
<1>4. \A i \in 2 .. n : i \in 1 .. n
  BY <1>2
<1> HIDE DEF n
<1>5. \A i \in 2 .. n : stack'[i].user = stack[i].user
  BY <1>1, <1>4, Zenon
<1>6. \A i \in 2 .. Len(stack') : stack'[i].user \in used' \intersect SupportedUsers'
  <2> SUFFICES ASSUME NEW i \in 2 .. n
               PROVE  stack'[i].user \in used' \intersect SupportedUsers
    BY <1>1, <1>3, Zenon
  <2> QED BY <1>1, <1>5, Zenon DEF Search, n
<1>7. \A i, j \in 2 .. Len(stack') : stack'[i].user = stack'[j].user => i = j
  BY <1>1, <1>5, Zenon DEF Search, n
<1>8. ASSUME NEW S \in SUBSET Users, ClosedSet(S, user, Token, ThisFlow.block)' PROVE used' \subseteq S
  <2>1. ClosedSet(S, user, Token, ThisFlow.block)
    BY <1>1, <1>8, SameClosed, Zenon
  <2>2. v \in S /\ used \subseteq S
    BY <1>1, <1>2, <2>1, MetInClosed, Zenon DEF Search
  <2> QED BY <1>1, <2>2, Zenon
<1>9. ASSUME NEW w \in used'
      PROVE  (\E i \in DOMAIN stack' : stack'[i].user = w) \/ ~Supported(w)' \/ Expanded(w)'
  <2>1. CASE ~Supported(w)
    BY <1>3, <2>1, Zenon
  <2>2. CASE \E i \in DOMAIN stack : stack[i].user = w
    BY <1>1, <1>2, <2>2, Zenon
  <2>3. CASE Expanded(w)
    BY <1>1, <1>3, <2>3, Zenon DEF Expanded
  <2> QED BY <1>1, <2>1, <2>2, <2>3, Zenon DEF Search
<1> QED BY <1>6, <1>7, <1>8, <1>9, Zenon DEF Search

\* The call that returns has met all that its user leads to.
LEMMA SearchReturn == ASSUME Base, Search, Return PROVE Search'
<1> DEFINE n == Len(stack) - 1
<1>1. /\ Len(stack) \in Nat /\ n \in Nat /\ n >= 1 /\ stack # <<>> /\ Candidates = {}
      /\ stack' \in Seq(Frames) /\ Len(stack') = n /\ stack' # <<>>
      /\ \A i \in 1 .. n : stack'[i].user = stack[i].user
      /\ UNCHANGED inputs /\ UNCHANGED <<todo, user, index, used>>
  BY ReturnStep, Zenon
<1>2. /\ Len(stack) = n + 1 /\ DOMAIN stack = 1 .. n + 1 /\ DOMAIN stack' = 1 .. n
  BY <1>1, StackTypes
<1>3. /\ UNCHANGED <<List, ThisFlow, Token, SupportedUsers>> /\ \A w : Supported(w)' <=> Supported(w)
      /\ \A x, w, block : Eligible(x, w, block)' <=> Eligible(x, w, block)
  BY <1>1, SameEntry, SameInputs, Zenon
<1>4. /\ \A i \in 2 .. n : i \in 1 .. n /\ i \in 2 .. Len(stack)
      /\ \A i \in 1 .. n + 1 : i \in 1 .. n \/ i = n + 1
  BY <1>1, <1>2
<1> HIDE DEF n
<1>5. \A i \in 2 .. n : stack'[i].user = stack[i].user /\ i \in 2 .. Len(stack)
  BY <1>1, <1>4, Zenon
<1>6. \A i \in 2 .. Len(stack') : stack'[i].user \in used' \intersect SupportedUsers'
  <2> SUFFICES ASSUME NEW i \in 2 .. n
               PROVE  stack'[i].user \in used' \intersect SupportedUsers
    BY <1>1, <1>3, Zenon
  <2> QED BY <1>1, <1>5, Zenon DEF Search
<1>7. \A i, j \in 2 .. Len(stack') : stack'[i].user = stack'[j].user => i = j
  <2> SUFFICES ASSUME NEW i \in 2 .. n, NEW j \in 2 .. n, stack'[i].user = stack'[j].user
               PROVE  i = j
    BY <1>1, Zenon
  <2>1. i \in 2 .. Len(stack) /\ j \in 2 .. Len(stack) /\ stack[i].user = stack[j].user
    BY <1>5, Zenon
  <2> QED BY <2>1, Zenon DEF Search
<1>8. ASSUME NEW S \in SUBSET Users, ClosedSet(S, user, Token, ThisFlow.block)' PROVE used' \subseteq S
  <2>1. ClosedSet(S, user, Token, ThisFlow.block)
    BY <1>1, <1>8, SameClosed, Zenon
  <2> QED BY <1>1, <2>1, Zenon DEF Search
<1>9. ASSUME NEW w \in used'
      PROVE  (\E i \in DOMAIN stack' : stack'[i].user = w) \/ ~Supported(w)' \/ Expanded(w)'
  <2>1. CASE ~Supported(w)
    BY <1>3, <2>1, Zenon
  <2>2. CASE \E i \in DOMAIN stack : stack[i].user = w
    <3>1. PICK i \in 1 .. n + 1 : stack[i].user = w
      BY <1>2, <2>2, Zenon
    <3>2. CASE i \in 1 .. n
      BY <1>1, <1>2, <3>1, <3>2, Zenon
    <3>3. CASE i = n + 1
      <4>1. Top.user = w
        BY <1>2, <3>1, <3>3, Zenon DEF Top
      <4>2. Expanded(w)
        BY <1>1, <4>1, Zenon DEF Expanded, Candidates
      <4> QED BY <1>1, <1>3, <4>2, Zenon DEF Expanded
    <3> QED BY <1>4, <3>2, <3>3, Zenon
  <2>3. CASE Expanded(w)
    BY <1>1, <1>3, <2>3, Zenon DEF Expanded
  <2> QED BY <1>1, <2>1, <2>2, <2>3, Zenon DEF Search
<1> QED BY <1>6, <1>7, <1>8, <1>9, Zenon DEF Search

\* Every other step leaves an entry or comes to one.
LEMMA NoSearch ==
  ASSUME Base,
         \/ \E u \in Users : SkipUser(u) \/ StartUser(u) \/ BreakOff(u)
         \/ NextFlow \/ EndFlow \/ FindAttack \/ EndUser
  PROVE  used' = {} /\ (stack' = <<>> \/ \E x : stack' = <<x>>)
<1>1. CASE \E u \in Users : SkipUser(u) \/ StartUser(u)
  BY <1>1, Zenon DEF SkipUser, StartUser, Base
<1>2. CASE NextFlow
  BY <1>2, Zenon DEF NextFlow, Base
<1>3. CASE EndFlow \/ FindAttack \/ EndUser \/ \E u \in Users : BreakOff(u)
  BY <1>3, Zenon DEF EndFlow, FindAttack, EndUser, BreakOff, LeaveUser
<1> QED BY <1>1, <1>2, <1>3, Zenon

\* A step that changes nothing.
LEMMA SearchStutter == ASSUME Base, Search, UNCHANGED vars PROVE Search'
<1>1. UNCHANGED inputs /\ UNCHANGED <<todo, user, index, stack, used>>
  BY Zenon DEF vars, flowVars
<1>2. /\ UNCHANGED <<List, ThisFlow, Token, SupportedUsers>> /\ \A w : Supported(w)' <=> Supported(w)
      /\ \A x, w, block : Eligible(x, w, block)' <=> Eligible(x, w, block)
  BY <1>1, SameEntry, SameInputs, Zenon
<1>3. \A S : ClosedSet(S, user, Token, ThisFlow.block)' => ClosedSet(S, user, Token, ThisFlow.block)
  BY <1>1, SameClosed, Zenon
<1>4. \A i \in 2 .. Len(stack') : stack'[i].user \in used' \intersect SupportedUsers'
  BY <1>1, <1>2, Zenon DEF Search
<1>5. \A w : Expanded(w) => Expanded(w)'
  BY <1>1, <1>2, Zenon DEF Expanded
<1> QED BY <1>1, <1>2, <1>3, <1>4, <1>5, Zenon DEF Search

\* Every step keeps Search.
LEMMA SearchNext == ASSUME Base, Typed, Base', Search, [Next]_vars PROVE Search'
<1>1. ASSUME used' = {}, stack' = <<>> \/ \E x : stack' = <<x>> PROVE Search'
  <2>1. Len(stack') = 0 \/ Len(stack') = 1
    BY <1>1
  <2>2. 2 .. 0 = {} /\ 2 .. 1 = {}
    OBVIOUS
  <2> QED BY <1>1, <2>1, <2>2, Zenon DEF Search
<1>2. CASE \/ \E u \in Users : SkipUser(u) \/ StartUser(u) \/ BreakOff(u)
           \/ NextFlow \/ EndFlow \/ FindAttack \/ EndUser
  BY <1>1, <1>2, NoSearch, Zenon
<1>3. CASE Return \/ \E u \in Users : Visit(u) \/ VisitUnsupported(u)
  BY <1>3, SearchVisit, SearchUnsupported, SearchReturn, Zenon
<1>4. CASE UNCHANGED vars
  BY <1>4, SearchStutter, Zenon
<1> QED BY <1>2, <1>3, <1>4, Zenon DEF Next

\* Initially there is no search.
LEMMA SearchInit == ASSUME Init PROVE Search
<1>1. 2 .. Len(stack) = {} /\ used = {} /\ stack = <<>>
  BY DEF Init
<1> QED BY <1>1, Zenon DEF Search

-----------------------------------------------------------------------------
(* What the search reaches. *)

\* What the checks should find depends on the inputs only.
LEMMA SameSummed ==
  ASSUME UNCHANGED inputs
  PROVE  \A u, i : /\ SummedFlow(u, i)' = SummedFlow(u, i)
                   /\ Leaks(u, i)' <=> Leaks(u, i)
<1>1. UNCHANGED <<command, flows, since>>
  BY Zenon DEF inputs
<1>2. \A u, i : SummedFlow(u, i)' = SummedFlow(u, i)
  <2>1. \A u, t : (HasFlow(u, t)' <=> HasFlow(u, t)) /\ (Unsupported(u, t)' <=> Unsupported(u, t))
    BY <1>1, Zenon DEF HasFlow, Unsupported
  <2>2. \A u, t : FlowList(u, t)' = FlowList(u, t)
    BY <1>1, <2>1, Zenon DEF FlowList
  <2>3. \A u : TokenToCheck(u)' = TokenToCheck(u)
    BY <2>1, Zenon DEF TokenToCheck
  <2>4. \A u, t, block : RelatedUsers(u, t, block)' = RelatedUsers(u, t, block)
    <3>1. \A u, v, w, t, block : Follows(u, v, w, t, block)' <=> Follows(u, v, w, t, block)
      BY <1>1, <2>1, Zenon DEF Follows, Eligible
    <3>2. ASSUME NEW u, NEW t, NEW block, NEW x
          PROVE  x \in RelatedUsers(u, t, block)' <=> x \in RelatedUsers(u, t, block)
      BY <3>1, Zenon DEF RelatedUsers
    <3> QED BY <3>2
  <2>5. \A v, t, this : RelatedFlow(v, t, this)' = RelatedFlow(v, t, this)
    BY <2>1, <2>2, Zenon DEF RelatedFlow
  <2> SUFFICES ASSUME NEW u, NEW i PROVE SummedFlow(u, i)' = SummedFlow(u, i)
    BY Zenon
  <2>6. /\ TokenToCheck(u)' = TokenToCheck(u)
        /\ FlowList(u, TokenToCheck(u))' = FlowList(u, TokenToCheck(u))
    BY <2>2, <2>3, Zenon
  <2> QED BY <2>4, <2>5, <2>6, Zenon DEF SummedFlow
<1>3. \A u, i : Leaks(u, i)' <=> Leaks(u, i)
  <2> SUFFICES ASSUME NEW u, NEW i PROVE Leaks(u, i)' <=> Leaks(u, i)
    BY Zenon
  <2>1. SummedFlow(u, i)' = SummedFlow(u, i)
    BY <1>2, Zenon
  <2>2. FlowList(u, TokenToCheck(u))' = FlowList(u, TokenToCheck(u))
    BY <1>1, Zenon DEF FlowList, HasFlow, TokenToCheck
  <2>3. \A v : Unsupported(v, TokenToCheck(u))' <=> Unsupported(v, TokenToCheck(u))
    BY <1>1, Zenon DEF Unsupported, HasFlow, TokenToCheck
  <2> QED BY <2>1, <2>2, <2>3, Zenon DEF Leaks
<1> QED BY <1>2, <1>3, Zenon

\* The related users of an entry are those in every closed set.
LEMMA RelatedClosed ==
  ASSUME NEW u, NEW token, NEW block
  PROVE  RelatedUsers(u, token, block)
           = {x \in Users : \A S \in SUBSET Users : ClosedSet(S, u, token, block) => x \in S}
BY Zenon DEF RelatedUsers, ClosedSet

\* What SummedFlow is about for the current entry, and for any.
LEMMA SummedRelated ==
  ASSUME NEW u, NEW i
  PROVE  SummedFlow(u, i).related
           = RelatedUsers(u, TokenToCheck(u), FlowList(u, TokenToCheck(u))[i].block)
<1> DEFINE r == RelatedUsers(u, TokenToCheck(u), FlowList(u, TokenToCheck(u))[i].block)
<1>1. \E d, w : SummedFlow(u, i) = [related |-> r, deposit |-> d, withdraw |-> w]
  BY Zenon DEF SummedFlow
<1> HIDE DEF r
<1>2. SummedFlow(u, i).related = r
  BY <1>1
<1> QED BY <1>2, Zenon DEF r

\* When no candidate is left the marked users are the related users: usedAddress cuts off
\* no branch.
LEMMA SearchComplete ==
  ASSUME Base, Search, Searched
  PROVE  used = RelatedUsers(user, Token, ThisFlow.block)
<1>1. /\ stack # <<>> /\ Len(stack) = 1 /\ Candidates = {} /\ DOMAIN stack = 1 .. Len(stack)
      /\ stack[1].user = user
  <2>1. Len(stack) = 1 /\ Candidates = {}
    BY Zenon DEF Searched
  <2>2. stack # <<>> /\ DOMAIN stack = 1 .. Len(stack)
    BY <2>1, StackTypes
  <2> QED BY <2>1, <2>2, Zenon DEF Base
<1>2. used \subseteq Users
  BY Zenon DEF Base
<1>3. ClosedSet(used, user, Token, ThisFlow.block)
  <2> SUFFICES ASSUME NEW v \in used \union {user}, NEW w \in Users,
                      Follows(user, v, w, Token, ThisFlow.block)
               PROVE  w \in used
    BY Zenon DEF ClosedSet
  <2>1. Eligible(v, w, ThisFlow.block)
    BY Zenon DEF Follows
  <2>2. CASE v = user
    BY <1>1, <2>1, <2>2, Zenon DEF Candidates, Top
  <2>3. CASE v # user
    <3>1. v \in used /\ Supported(v)
      BY <2>3, Zenon DEF Follows, Supported, Token
    <3>2. ~\E i \in DOMAIN stack : stack[i].user = v
      <4>1. \A i \in DOMAIN stack : i = 1
        BY <1>1
      <4> QED BY <1>1, <2>3, <4>1, Zenon
    <3>3. Expanded(v)
      BY <3>1, <3>2, Zenon DEF Search
    <3> QED BY <2>1, <3>3, Zenon DEF Expanded
  <2> QED BY <2>2, <2>3, Zenon
<1>4. \A S \in SUBSET Users : ClosedSet(S, user, Token, ThisFlow.block) => used \subseteq S
  BY <1>1, Zenon DEF Search
<1> QED BY <1>2, <1>3, <1>4, RelatedClosed, Zenon

\* A relation never ends, so a later entry has no fewer related users.
LEMMA RelatedGrow ==
  ASSUME Base, NEW u \in Users, NEW token, NEW b \in Nat, NEW c \in Nat, b <= c
  PROVE  RelatedUsers(u, token, b) \subseteq RelatedUsers(u, token, c)
<1>1. ASSUME NEW v \in Users, NEW w \in Users, Follows(u, v, w, token, b)
      PROVE  Follows(u, v, w, token, c)
  <2>1. since[v][w] \in Nat
    BY Zenon DEF Base
  <2>2. since[v][w] <= b
    BY <1>1, Zenon DEF Follows, Eligible
  <2>3. since[v][w] <= c
    BY <2>1, <2>2
  <2> QED BY <1>1, <2>3, Zenon DEF Follows, Eligible
<1>2. \A S \in SUBSET Users : ClosedSet(S, u, token, c) => ClosedSet(S, u, token, b)
  BY <1>1, Zenon DEF ClosedSet
<1> QED BY <1>2, RelatedClosed, Zenon

\* The entry that the search is at.
LEMMA AtEntry ==
  ASSUME Base, stack # <<>>
  PROVE  /\ index \in 2 .. Len(FlowList(user, TokenToCheck(user)))
         /\ FlowList(user, TokenToCheck(user))[index] = ThisFlow /\ TokenToCheck(user) = Token
         /\ SummedFlow(user, index).related = RelatedUsers(user, Token, ThisFlow.block)
<1>1. /\ index \in 2 .. Len(FlowList(user, TokenToCheck(user)))
      /\ FlowList(user, TokenToCheck(user))[index] = ThisFlow /\ TokenToCheck(user) = Token
  BY Zenon DEF Base, List, ThisFlow, Token
<1>2. SummedFlow(user, index).related = RelatedUsers(user, Token, ThisFlow.block)
  BY <1>1, SummedRelated, Zenon
<1> QED BY <1>1, <1>2, Zenon

\* The outermost loop breaks off only where a related user has an unsupported token.
LEMMA BreakRelated ==
  ASSUME Base, Search, NEW v \in Users, BreakOff(v)
  PROVE  /\ stack # <<>> /\ v \in SummedFlow(user, index).related /\ Unsupported(v, Token)
         /\ UNCHANGED records
<1>1. Len(stack) = 1 /\ v \in Candidates /\ ~Supported(v) /\ UNCHANGED records
  BY Zenon DEF BreakOff
<1>2. stack # <<>>
  BY <1>1, StackTypes
<1>3. Meets(v)
  BY <1>1, <1>2, MeetsStep, Zenon
<1>4. v \in RelatedUsers(user, Token, ThisFlow.block)
  BY <1>3, MetInClosed, RelatedClosed, Zenon
<1> QED BY <1>1, <1>2, <1>4, AtEntry, Zenon DEF Supported, Token

\* The flag is set only by an entry that led to an unsupported token.
LEMMA FlaggedNext ==
  ASSUME Base, Search, Flagged, [Next]_vars
  PROVE  Flagged'
<1> SUFFICES ASSUME unsupported'
             PROVE  \E j \in 2 .. index' : \E v \in SummedFlow(user, j)'.related : Unsupported(v, Token)'
  BY Zenon DEF Flagged
<1>1. UNCHANGED inputs
  BY Zenon DEF Next, SkipUser, StartUser, Visit, VisitUnsupported, BreakOff, NextFlow, Return, EndFlow,
               FindAttack, EndUser, vars
<1>2. ASSUME user' = user, NEW j \in 2 .. index', NEW v \in SummedFlow(user, j).related, Unsupported(v, Token)
      PROVE  \E k \in 2 .. index' : \E x \in SummedFlow(user, k)'.related : Unsupported(x, Token)'
  <2>1. UNCHANGED <<command, flows, since>>
    BY <1>1, Zenon DEF inputs
  <2>2. SummedFlow(user, j)' = SummedFlow(user, j)
    <3>1. \A w, t : (HasFlow(w, t)' <=> HasFlow(w, t)) /\ (Unsupported(w, t)' <=> Unsupported(w, t))
      BY <2>1, Zenon DEF HasFlow, Unsupported
    <3>2. \A w, t : FlowList(w, t)' = FlowList(w, t)
      BY <2>1, <3>1, Zenon DEF FlowList
    <3>3. \A w : TokenToCheck(w)' = TokenToCheck(w)
      BY <3>1, Zenon DEF TokenToCheck
    <3>4. \A u, t, block : RelatedUsers(u, t, block)' = RelatedUsers(u, t, block)
      <4>1. \A u, x, w, t, block : Follows(u, x, w, t, block)' <=> Follows(u, x, w, t, block)
        BY <2>1, <3>1, Zenon DEF Follows, Eligible
      <4> QED BY <4>1, Zenon DEF RelatedUsers
    <3>5. \A w, t, this : RelatedFlow(w, t, this)' = RelatedFlow(w, t, this)
      BY <3>1, <3>2, Zenon DEF RelatedFlow
    <3> QED BY <1>2, <3>2, <3>3, <3>4, <3>5, Zenon DEF SummedFlow
  <2>3. Unsupported(v, Token)' <=> Unsupported(v, Token)
    BY <1>2, <2>1, Zenon DEF Unsupported, HasFlow, Token, TokenToCheck
  <2> QED BY <1>2, <2>2, <2>3, Zenon
<1>3. CASE UNCHANGED <<user, index, unsupported>>
  BY <1>2, <1>3, Zenon DEF Flagged
<1>4. CASE NextFlow
  <2>1. user' = user /\ unsupported' = unsupported /\ index \in Nat /\ index' = index + 1
    BY <1>4, NextFlowStep, Zenon
  <2>2. PICK j \in 2 .. index : \E v \in SummedFlow(user, j).related : Unsupported(v, Token)
    BY <2>1, Zenon DEF Flagged
  <2>3. j \in 2 .. index'
    BY <2>1
  <2> QED BY <1>2, <2>1, <2>2, <2>3, Zenon
<1>5. ASSUME NEW v \in Users, BreakOff(v)
      PROVE  \E k \in 2 .. index' : \E x \in SummedFlow(user, k)'.related : Unsupported(x, Token)'
  <2>1. stack # <<>> /\ v \in SummedFlow(user, index).related /\ Unsupported(v, Token)
    BY <1>5, BreakRelated, Zenon
  <2>2. user' = user /\ index' = index
    BY <1>5, Zenon DEF BreakOff
  <2>3. index \in 2 .. index'
    BY <2>1, <2>2, ThisTypes
  <2> QED BY <1>2, <2>1, <2>2, <2>3, Zenon
<1>6. CASE FindAttack \/ EndUser
  BY <1>6, LeaveStep, Zenon
<1>7. ASSUME NEW u \in Users, SkipUser(u) \/ StartUser(u) PROVE FALSE
  BY <1>7, Zenon DEF SkipUser, StartUser, Base, flowVars
<1>8. ASSUME Return \/ EndFlow \/ UNCHANGED vars \/ \E u \in Users : Visit(u) \/ VisitUnsupported(u)
      PROVE  UNCHANGED <<user, index, unsupported>>
  BY <1>8, Zenon DEF Return, EndFlow, Visit, VisitUnsupported, flowVars, vars
<1> QED BY <1>3, <1>4, <1>5, <1>6, <1>7, <1>8, Zenon DEF Next

-----------------------------------------------------------------------------
(* The totals. *)

\* The laws of finite sets and of Sum that the totals rest on (LawsHold below).
Laws ==
  /\ IsFiniteSet({}) /\ (\A n \in Nat : IsFiniteSet(1 .. n)) /\ \A S \in SUBSET Users : IsFiniteSet(S)
  /\ \A S, x : IsFiniteSet(S) /\ x \in S =>
       Cardinality(S) \in Nat /\ Cardinality(S \ {x}) = Cardinality(S) - 1
  /\ \A S : IsFiniteSet(S) => Cardinality(S) \in Nat
  /\ \A f : Sum(f, {}) = 0
  /\ \A f, S, x : IsFiniteSet(S) /\ x \notin S /\ (\A y \in S \union {x} : f[y] \in Nat) =>
       Sum(f, S \union {x}) = Sum(f, S) + f[x] /\ Sum(f, S) \in Nat
  /\ \A f, h, S : IsFiniteSet(S) /\ (\A x \in S : f[x] = h[x]) => Sum(f, S) = Sum(h, S)

\* The sum over the calls when one more is pending, and when one returns.
LEMMA SumPush ==
  ASSUME Laws, NEW n \in Nat, NEW f, NEW h, \A i \in 1 .. n : h[i] = f[i],
         \A i \in 1 .. n + 1 : h[i] \in Nat
  PROVE  Sum(h, 1 .. n + 1) = Sum(f, 1 .. n) + h[n + 1] /\ Sum(f, 1 .. n) \in Nat
<1>1. IsFiniteSet(1 .. n)
  BY  DEF Laws
<1>2. 1 .. n + 1 = (1 .. n) \union {n + 1} /\ n + 1 \notin 1 .. n
  OBVIOUS
<1>3. \A y \in (1 .. n) \union {n + 1} : h[y] \in Nat
  BY <1>2, Zenon
<1>4. Sum(h, (1 .. n) \union {n + 1}) = Sum(h, 1 .. n) + h[n + 1] /\ Sum(h, 1 .. n) \in Nat
  <2> DEFINE S == 1 .. n
             x == n + 1
  <2>1. IsFiniteSet(S) /\ x \notin S /\ \A y \in S \union {x} : h[y] \in Nat
    BY <1>1, <1>2, <1>3, Zenon
  <2> HIDE DEF S, x
  <2>2. Sum(h, S \union {x}) = Sum(h, S) + h[x] /\ Sum(h, S) \in Nat
    BY <2>1, Zenon DEF Laws
  <2> QED BY <2>2, Zenon DEF S, x
<1>5. Sum(h, 1 .. n) = Sum(f, 1 .. n)
  <2>1. \A S : IsFiniteSet(S) /\ (\A x \in S : h[x] = f[x]) => Sum(h, S) = Sum(f, S)
    BY ZenonT(40) DEF Laws
  <2> QED BY <1>1, <2>1, Zenon
<1> QED BY <1>2, <1>4, <1>5, Zenon

\* A returning call gives its amount to the one below it.
LEMMA SumPop ==
  ASSUME Laws, NEW n \in Nat, n >= 1, NEW f, NEW h, \A i \in 1 .. n - 1 : h[i] = f[i],
         h[n] = f[n] + f[n + 1], \A i \in 1 .. n + 1 : f[i] \in Nat
  PROVE  Sum(h, 1 .. n) = Sum(f, 1 .. n + 1)
<1> DEFINE m == n - 1
<1>1. m \in Nat /\ m + 1 = n /\ n \in 1 .. n + 1 /\ n + 1 \in 1 .. n + 1
  OBVIOUS
<1>2. (\A i \in 1 .. n : i \in 1 .. n + 1) /\ \A i \in 1 .. n : i \in 1 .. m \/ i = n
  OBVIOUS
<1>3. f[n] \in Nat /\ f[n + 1] \in Nat /\ h[n] \in Nat
  BY <1>1
<1>4. (\A i \in 1 .. m : i \in 1 .. n) /\ \A i \in 1 .. n : h[i] \in Nat
  BY <1>2, <1>3
<1> HIDE DEF m
<1>5. Sum(f, 1 .. n + 1) = Sum(f, 1 .. n) + f[n + 1] /\ Sum(f, 1 .. n) \in Nat
  BY SumPush, Zenon
<1>6. Sum(f, 1 .. m + 1) = Sum(f, 1 .. m) + f[m + 1] /\ Sum(f, 1 .. m) \in Nat
  BY <1>1, <1>2, SumPush, Zenon
<1>7. Sum(h, 1 .. m + 1) = Sum(f, 1 .. m) + h[m + 1]
  BY <1>1, <1>4, SumPush, Zenon DEF m
<1>8. Sum(f, 1 .. n) = Sum(f, 1 .. m) + f[n] /\ Sum(h, 1 .. n) = Sum(f, 1 .. m) + h[n]
  BY <1>1, <1>6, <1>7, Zenon
<1> QED BY <1>3, <1>5, <1>6, <1>8

\* The sum over a single call.
LEMMA SumOne == ASSUME Laws, NEW f, f[1] \in Nat PROVE Sum(f, {1}) = f[1]
<1>1. Sum(f, {} \union {1}) = Sum(f, {}) + f[1]
  BY ZenonT(40) DEF Laws
<1>2. {} \union {1} = {1}
  BY Zenon
<1>3. 0 + f[1] = f[1]
  OBVIOUS
<1> QED BY <1>1, <1>2, <1>3, Zenon DEF Laws

\* What related users add, for the current entry.
LEMMA AmountTypes ==
  ASSUME Base, Typed
  PROVE  \A v \in Users :
           /\ Deposits(Token, ThisFlow)[v] = RelatedFlow(v, Token, ThisFlow).deposit
           /\ Deposits(Token, ThisFlow)[v] \in Nat
           /\ Withdraws(Token, ThisFlow)[v] = RelatedFlow(v, Token, ThisFlow).withdraw
           /\ Withdraws(Token, ThisFlow)[v] \in Nat
<1> SUFFICES ASSUME NEW v \in Users
             PROVE  /\ Deposits(Token, ThisFlow)[v] = RelatedFlow(v, Token, ThisFlow).deposit
                    /\ Deposits(Token, ThisFlow)[v] \in Nat
                    /\ Withdraws(Token, ThisFlow)[v] = RelatedFlow(v, Token, ThisFlow).withdraw
                    /\ Withdraws(Token, ThisFlow)[v] \in Nat
  BY Zenon
<1>1. /\ RelatedFlow(v, Token, ThisFlow).deposit \in Nat
      /\ RelatedFlow(v, Token, ThisFlow).withdraw \in Nat
  BY Zenon DEF Typed
<1> QED BY <1>1, Zenon DEF Deposits, Withdraws

\* One more user is marked.
LEMMA AmountAdd ==
  ASSUME Laws, Base, NEW v \in Users, v \notin used, NEW f, \A u \in Users : f[u] \in Nat
  PROVE  Sum(f, used \union {v}) = Sum(f, used) + f[v] /\ Sum(f, used) \in Nat /\ f[v] \in Nat
<1>1. used \subseteq Users /\ IsFiniteSet(used)
  BY CheckerAssumption, Zenon DEF Laws, Base
<1>2. \A y \in used \union {v} : f[y] \in Nat
  BY <1>1, Zenon
<1>3. \A S, x : IsFiniteSet(S) /\ x \notin S /\ (\A y \in S \union {x} : f[y] \in Nat) =>
        Sum(f, S \union {x}) = Sum(f, S) + f[x] /\ Sum(f, S) \in Nat
  BY Zenon DEF Laws
<1>4. f[v] \in Nat
  BY Zenon
<1> QED BY <1>1, <1>2, <1>3, <1>4, Zenon

\* The amounts that are held, as functions of the position.
LEMMA HeldTypes ==
  ASSUME NEW s, s \in Seq(Frames)
  PROVE  /\ Len(s) \in Nat /\ DOMAIN s = 1 .. Len(s)
         /\ \A i \in 1 .. Len(s) : /\ [j \in DOMAIN s |-> s[j].deposit][i] = s[i].deposit
                                   /\ [j \in DOMAIN s |-> s[j].withdraw][i] = s[i].withdraw
                                   /\ s[i].deposit \in Nat /\ s[i].withdraw \in Nat
<1>1. Len(s) \in Nat /\ DOMAIN s = 1 .. Len(s) /\ \A i \in 1 .. Len(s) : s[i] \in Frames
  OBVIOUS
<1>2. \A fr \in Frames : fr.deposit \in Nat /\ fr.withdraw \in Nat
  BY Zenon DEF Frames
<1> QED BY <1>1, <1>2, Zenon

\* The same amounts while the entry is the same.
LEMMA SameAmounts ==
  ASSUME UNCHANGED inputs, UNCHANGED <<user, index>>
  PROVE  UNCHANGED <<ThisFlow, Deposits(Token, ThisFlow), Withdraws(Token, ThisFlow)>>
<1>1. UNCHANGED <<ThisFlow, Token>> /\ UNCHANGED <<command, flows, since>>
  BY SameEntry, SameInputs, Zenon
<1>2. Deposits(Token, ThisFlow)' = Deposits(Token, ThisFlow)
  BY <1>1, Zenon DEF Deposits, RelatedFlow, Unsupported, FlowList, HasFlow
<1>3. Withdraws(Token, ThisFlow)' = Withdraws(Token, ThisFlow)
  BY <1>1, Zenon DEF Withdraws, RelatedFlow, Unsupported, FlowList, HasFlow
<1> QED BY <1>1, <1>2, <1>3, Zenon

\* A new call brings what its user adds.
LEMMA TotalledVisit ==
  ASSUME Laws, Base, Typed, Totalled, NEW v \in Users, Visit(v)
  PROVE  Totalled'
<1> DEFINE fr == RelatedFrame(v, Token, ThisFlow)
           n == Len(stack)
           d == Deposits(Token, ThisFlow)
           w == Withdraws(Token, ThisFlow)
<1>1. /\ Meets(v) /\ Supported(v)
      /\ used' = used \union {v}
      /\ stack' \in Seq(Frames) /\ Len(stack') = n + 1 /\ stack' # <<>>
      /\ \A i \in 1 .. n : stack'[i] = stack[i]
      /\ stack'[n + 1] = fr
      /\ UNCHANGED inputs /\ UNCHANGED <<user, index>>
  BY VisitStep, Zenon
<1>2. stack # <<>> /\ v \notin used /\ stack \in Seq(Frames) /\ n \in Nat
  BY <1>1, Zenon DEF Meets, Base
<1>3. d[v] = fr.deposit /\ w[v] = fr.withdraw
  <2>1. ~Unsupported(v, Token)
    BY <1>1, Zenon DEF Supported, Token
  <2>2. /\ RelatedFlow(v, Token, ThisFlow).deposit = fr.deposit
        /\ RelatedFlow(v, Token, ThisFlow).withdraw = fr.withdraw
    BY <2>1 DEF Typed
  <2> QED BY <2>2, AmountTypes, Zenon
<1>4. \A u \in Users : d[u] \in Nat /\ w[u] \in Nat
  BY AmountTypes, Zenon
<1>5. /\ ThisFlow' = ThisFlow /\ Deposits(Token, ThisFlow)' = d /\ Withdraws(Token, ThisFlow)' = w
  BY <1>1, SameAmounts, Zenon
<1>6. /\ DOMAIN stack = 1 .. n /\ DOMAIN stack' = 1 .. n + 1 /\ n + 1 \in 1 .. n + 1
      /\ \A i \in 1 .. n : i \in 1 .. n + 1
  BY <1>1, <1>2
<1> HIDE DEF fr, n, d, w
<1>7. /\ \A i \in 1 .. n : StackDeposits'[i] = StackDeposits[i] /\ StackWithdraws'[i] = StackWithdraws[i]
      /\ \A i \in 1 .. n + 1 : StackDeposits'[i] \in Nat /\ StackWithdraws'[i] \in Nat
      /\ StackDeposits'[n + 1] = fr.deposit /\ StackWithdraws'[n + 1] = fr.withdraw
  <2>1. /\ \A i \in 1 .. n : StackDeposits[i] = stack[i].deposit /\ StackWithdraws[i] = stack[i].withdraw
        /\ \A i \in 1 .. n + 1 : /\ StackDeposits'[i] = stack'[i].deposit
                                 /\ StackWithdraws'[i] = stack'[i].withdraw
    BY <1>6, Zenon DEF StackDeposits, StackWithdraws
  <2>2. \A i \in 1 .. n + 1 : stack'[i].deposit \in Nat /\ stack'[i].withdraw \in Nat
    BY <1>1, HeldTypes, Zenon
  <2> QED BY <1>1, <1>6, <2>1, <2>2, Zenon
<1>8. /\ Sum(StackDeposits', 1 .. n + 1) = Sum(StackDeposits, 1 .. n) + fr.deposit
      /\ Sum(StackWithdraws', 1 .. n + 1) = Sum(StackWithdraws, 1 .. n) + fr.withdraw
  <2>1. Sum(StackDeposits', 1 .. n + 1) = Sum(StackDeposits, 1 .. n) + StackDeposits'[n + 1]
    BY <1>2, <1>7, SumPush, Zenon
  <2>2. Sum(StackWithdraws', 1 .. n + 1) = Sum(StackWithdraws, 1 .. n) + StackWithdraws'[n + 1]
    BY <1>2, <1>7, SumPush, Zenon
  <2> QED BY <1>7, <2>1, <2>2, Zenon
<1>9. /\ Sum(d, used \union {v}) = Sum(d, used) + d[v] /\ Sum(d, used) \in Nat /\ d[v] \in Nat
      /\ Sum(w, used \union {v}) = Sum(w, used) + w[v] /\ Sum(w, used) \in Nat /\ w[v] \in Nat
  BY <1>2, <1>4, AmountAdd, Zenon
<1>10. /\ Sum(StackDeposits, 1 .. n) = ThisFlow.deposit + Sum(d, used)
       /\ Sum(StackWithdraws, 1 .. n) = ThisFlow.withdraw + Sum(w, used)
  BY <1>2, <1>6, Zenon DEF Totalled, d, w
<1>11. ThisFlow.deposit \in Nat /\ ThisFlow.withdraw \in Nat
  BY <1>2, ThisTypes, EntryTypes, Zenon
<1>12. /\ Sum(StackDeposits', 1 .. n + 1) = ThisFlow.deposit + Sum(d, used \union {v})
       /\ Sum(StackWithdraws', 1 .. n + 1) = ThisFlow.withdraw + Sum(w, used \union {v})
  <2>1. /\ ThisFlow.deposit \in Nat /\ Sum(d, used) \in Nat /\ d[v] \in Nat
        /\ ThisFlow.withdraw \in Nat /\ Sum(w, used) \in Nat /\ w[v] \in Nat
    BY <1>9, <1>11, Zenon
  <2>2. (ThisFlow.deposit + Sum(d, used)) + d[v] = ThisFlow.deposit + (Sum(d, used) + d[v])
    BY <2>1
  <2>3. (ThisFlow.withdraw + Sum(w, used)) + w[v] = ThisFlow.withdraw + (Sum(w, used) + w[v])
    BY <2>1
  <2> QED BY <1>3, <1>8, <1>9, <1>10, <2>2, <2>3, Zenon
<1> QED BY <1>1, <1>5, <1>6, <1>12, Zenon DEF Totalled

\* A user with an unsupported token adds nothing.
LEMMA TotalledUnsupported ==
  ASSUME Laws, Base, Typed, Totalled, NEW v \in Users, VisitUnsupported(v)
  PROVE  Totalled'
<1> DEFINE n == Len(stack)
           d == Deposits(Token, ThisFlow)
           w == Withdraws(Token, ThisFlow)
<1>1. /\ Meets(v) /\ ~Supported(v)
      /\ used' = used \union {v}
      /\ stack' \in Seq(Frames) /\ Len(stack') = n /\ stack' # <<>>
      /\ \A i \in 1 .. n : /\ stack'[i].deposit = stack[i].deposit
                           /\ stack'[i].withdraw = stack[i].withdraw
      /\ UNCHANGED inputs /\ UNCHANGED <<user, index>>
  BY UnsupportedStep, Zenon
<1>2. stack # <<>> /\ v \notin used /\ stack \in Seq(Frames)
  BY <1>1, Zenon DEF Meets, Base
<1>3. d[v] = 0 /\ w[v] = 0
  <2>1. Unsupported(v, Token)
    BY <1>1, Zenon DEF Supported, Token
  <2>2. RelatedFlow(v, Token, ThisFlow).deposit = 0 /\ RelatedFlow(v, Token, ThisFlow).withdraw = 0
    BY <2>1 DEF Typed
  <2> QED BY <2>2, AmountTypes, Zenon
<1>4. \A u \in Users : d[u] \in Nat /\ w[u] \in Nat
  BY AmountTypes, Zenon
<1>5. /\ ThisFlow' = ThisFlow /\ Deposits(Token, ThisFlow)' = d /\ Withdraws(Token, ThisFlow)' = w
  BY <1>1, SameAmounts, Zenon
<1>6. DOMAIN stack = 1 .. n /\ DOMAIN stack' = 1 .. n
  BY <1>1, <1>2
<1> HIDE DEF n, d, w
<1>7. StackDeposits' = StackDeposits /\ StackWithdraws' = StackWithdraws
  BY <1>1, <1>6, Zenon DEF StackDeposits, StackWithdraws
<1>8. /\ Sum(d, used \union {v}) = Sum(d, used) + d[v] /\ Sum(d, used) \in Nat
      /\ Sum(w, used \union {v}) = Sum(w, used) + w[v] /\ Sum(w, used) \in Nat
  BY <1>2, <1>4, AmountAdd, Zenon
<1>9. Sum(d, used \union {v}) = Sum(d, used) /\ Sum(w, used \union {v}) = Sum(w, used)
  <2>1. \A a \in Nat : a + 0 = a
    OBVIOUS
  <2> QED BY <1>3, <1>8, <2>1, Zenon
<1>10. /\ Sum(StackDeposits, 1 .. n) = ThisFlow.deposit + Sum(d, used)
       /\ Sum(StackWithdraws, 1 .. n) = ThisFlow.withdraw + Sum(w, used)
  BY <1>2, <1>6, Zenon DEF Totalled, d, w
<1> QED BY <1>1, <1>5, <1>6, <1>7, <1>9, <1>10, Zenon DEF Totalled

\* A returning call moves its totals to its caller.
LEMMA TotalledReturn ==
  ASSUME Laws, Base, Totalled, Return
  PROVE  Totalled'
<1> DEFINE n == Len(stack) - 1
           d == Deposits(Token, ThisFlow)
           w == Withdraws(Token, ThisFlow)
<1>1. /\ Len(stack) \in Nat /\ n \in Nat /\ n >= 1 /\ stack # <<>>
      /\ stack' \in Seq(Frames) /\ Len(stack') = n /\ stack' # <<>>
      /\ \A i \in 1 .. n - 1 : stack'[i] = stack[i]
      /\ stack'[n].deposit = stack[n].deposit + stack[n + 1].deposit
      /\ stack'[n].withdraw = stack[n].withdraw + stack[n + 1].withdraw
      /\ UNCHANGED inputs /\ UNCHANGED <<user, index, used>>
  BY ReturnStep, Zenon
<1>2. Len(stack) = n + 1 /\ stack \in Seq(Frames)
  BY <1>1, StackTypes
<1>3. /\ ThisFlow' = ThisFlow /\ Deposits(Token, ThisFlow)' = d /\ Withdraws(Token, ThisFlow)' = w
  BY <1>1, SameAmounts, Zenon
<1> HIDE DEF n, d, w
<1>4. /\ DOMAIN stack = 1 .. n + 1 /\ DOMAIN stack' = 1 .. n
      /\ n \in 1 .. n /\ n \in 1 .. n + 1 /\ n + 1 \in 1 .. n + 1
      /\ \A i \in 1 .. n - 1 : i \in 1 .. n /\ i \in 1 .. n + 1
  BY <1>1, <1>2
<1>5. /\ \A i \in 1 .. n + 1 : StackDeposits[i] = stack[i].deposit /\ StackWithdraws[i] = stack[i].withdraw
      /\ \A i \in 1 .. n : StackDeposits'[i] = stack'[i].deposit /\ StackWithdraws'[i] = stack'[i].withdraw
  BY <1>4, Zenon DEF StackDeposits, StackWithdraws
<1>6. \A i \in 1 .. n + 1 : StackDeposits[i] \in Nat /\ StackWithdraws[i] \in Nat
  BY <1>2, <1>5, HeldTypes, ZenonT(40)
<1>7. /\ \A i \in 1 .. n - 1 : StackDeposits'[i] = StackDeposits[i] /\ StackWithdraws'[i] = StackWithdraws[i]
      /\ StackDeposits'[n] = StackDeposits[n] + StackDeposits[n + 1]
      /\ StackWithdraws'[n] = StackWithdraws[n] + StackWithdraws[n + 1]
  <2>1. ASSUME NEW i \in 1 .. n - 1
        PROVE  StackDeposits'[i] = StackDeposits[i] /\ StackWithdraws'[i] = StackWithdraws[i]
    <3>1. i \in 1 .. n /\ i \in 1 .. n + 1
      BY <1>4, Zenon
    <3>2. stack'[i] = stack[i]
      BY <1>1, Zenon
    <3>3. StackDeposits[i] = stack[i].deposit /\ StackWithdraws[i] = stack[i].withdraw
      BY <1>5, <3>1, Zenon
    <3>4. StackDeposits'[i] = stack'[i].deposit /\ StackWithdraws'[i] = stack'[i].withdraw
      BY <1>5, <3>1, Zenon
    <3> QED BY <3>2, <3>3, <3>4, Zenon
  <2>2. StackDeposits[n] = stack[n].deposit /\ StackWithdraws[n] = stack[n].withdraw
    BY <1>4, <1>5, Zenon
  <2>3. StackDeposits[n + 1] = stack[n + 1].deposit /\ StackWithdraws[n + 1] = stack[n + 1].withdraw
    BY <1>4, <1>5, Zenon
  <2>4. StackDeposits'[n] = stack'[n].deposit /\ StackWithdraws'[n] = stack'[n].withdraw
    BY <1>4, <1>5, Zenon
  <2>5. /\ stack'[n].deposit = stack[n].deposit + stack[n + 1].deposit
        /\ stack'[n].withdraw = stack[n].withdraw + stack[n + 1].withdraw
    BY <1>1, Zenon
  <2> QED BY <2>1, <2>2, <2>3, <2>4, <2>5, Zenon
<1>8. Sum(StackDeposits', 1 .. n) = Sum(StackDeposits, 1 .. n + 1)
  BY <1>1, <1>6, <1>7, SumPop, Zenon
<1>9. Sum(StackWithdraws', 1 .. n) = Sum(StackWithdraws, 1 .. n + 1)
  BY <1>1, <1>6, <1>7, SumPop, Zenon
<1>10. /\ Sum(StackDeposits, 1 .. n + 1) = ThisFlow.deposit + Sum(d, used)
       /\ Sum(StackWithdraws, 1 .. n + 1) = ThisFlow.withdraw + Sum(w, used)
  BY <1>1, <1>4, Zenon DEF Totalled, d, w
<1> QED BY <1>1, <1>3, <1>4, <1>8, <1>9, <1>10, Zenon DEF Totalled

\* The search begins with the entry's own totals.
LEMMA TotalledNextFlow ==
  ASSUME Laws, Base, NextFlow
  PROVE  Totalled'
<1> DEFINE flow == List[index + 1]
           fr == Frame(user, flow.deposit, flow.withdraw, first')
<1>1. /\ stack = <<>> /\ ThisFlow' = flow /\ flow \in TokenFlows
      /\ stack' = IF "withdraw" \in flow.action THEN <<fr>> ELSE <<>>
      /\ used' = used
  BY NextFlowStep, Zenon
<1>2. used' = {}
  BY <1>1, Zenon DEF Base
<1>3. fr.deposit = flow.deposit /\ fr.withdraw = flow.withdraw
  BY Zenon DEF Frame
<1>4. flow.deposit \in Nat /\ flow.withdraw \in Nat
  BY <1>1, EntryTypes, Zenon
<1> HIDE DEF flow, fr
<1> SUFFICES ASSUME stack' # <<>> PROVE Totalled'
  BY Zenon DEF Totalled
<1>5. stack' = <<fr>>
  BY <1>1, Zenon
<1>6. DOMAIN stack' = {1} /\ stack'[1] = fr
  BY <1>5
<1>7. StackDeposits'[1] = flow.deposit /\ StackWithdraws'[1] = flow.withdraw
  BY <1>3, <1>6, Zenon DEF StackDeposits, StackWithdraws
<1>8. Sum(StackDeposits', {1}) = flow.deposit /\ Sum(StackWithdraws', {1}) = flow.withdraw
  BY <1>4, <1>7, SumOne, Zenon
<1>9. flow.deposit + 0 = flow.deposit /\ flow.withdraw + 0 = flow.withdraw
  BY <1>4
<1> QED BY <1>1, <1>2, <1>6, <1>8, <1>9, Zenon DEF Laws, Totalled

\* Every step keeps Totalled.
LEMMA TotalledNext == ASSUME Laws, Base, Typed, Totalled, [Next]_vars PROVE Totalled'
<1>1. CASE Return \/ NextFlow \/ \E u \in Users : Visit(u) \/ VisitUnsupported(u)
  BY <1>1, TotalledVisit, TotalledUnsupported, TotalledReturn, TotalledNextFlow, Zenon
<1>2. CASE EndFlow \/ FindAttack \/ EndUser \/ \E u \in Users : BreakOff(u)
  BY <1>2, EndsStep, LeaveStep, Zenon DEF Totalled
<1>3. CASE \E u \in Users : SkipUser(u) \/ StartUser(u)
  BY <1>3, Zenon DEF SkipUser, StartUser, Base, Totalled
<1>4. CASE UNCHANGED vars
  <2>1. UNCHANGED inputs /\ UNCHANGED <<user, index, stack, used>>
    BY <1>4, Zenon DEF vars, flowVars
  <2>2. UNCHANGED <<ThisFlow, Deposits(Token, ThisFlow), Withdraws(Token, ThisFlow)>>
    BY <2>1, SameAmounts, Zenon
  <2>3. StackDeposits' = StackDeposits /\ StackWithdraws' = StackWithdraws
    BY <2>1, Zenon DEF StackDeposits, StackWithdraws
  <2> QED BY <2>1, <2>2, <2>3, Zenon DEF Totalled
<1> QED BY <1>1, <1>2, <1>3, <1>4, Zenon DEF Next

\* Initially there are no totals and no flag.
LEMMA TotalledInit == ASSUME Init PROVE Totalled /\ Flagged
BY Zenon DEF Init, Totalled, Flagged

\* What the search has added up when no candidate is left.
LEMMA SearchedSum ==
  ASSUME Laws, Base, Search, Totalled, Searched
  PROVE  /\ stack # <<>>
         /\ [related |-> used, deposit |-> stack[1].deposit, withdraw |-> stack[1].withdraw]
              = SummedFlow(user, index)
<1>1. Len(stack) = 1 /\ stack \in Seq(Frames)
  BY Zenon DEF Searched, Base
<1>2. stack # <<>> /\ DOMAIN stack = {1} /\ stack[1].deposit \in Nat /\ stack[1].withdraw \in Nat
  <2>1. stack # <<>> /\ DOMAIN stack = {1}
    BY <1>1
  <2> QED BY <2>1, StackTypes, Zenon
<1>3. StackDeposits[1] = stack[1].deposit /\ StackWithdraws[1] = stack[1].withdraw
  BY <1>2, Zenon DEF StackDeposits, StackWithdraws
<1>4. Sum(StackDeposits, {1}) = stack[1].deposit /\ Sum(StackWithdraws, {1}) = stack[1].withdraw
  BY <1>2, <1>3, SumOne, Zenon
<1>5. /\ stack[1].deposit = ThisFlow.deposit + Sum(Deposits(Token, ThisFlow), used)
      /\ stack[1].withdraw = ThisFlow.withdraw + Sum(Withdraws(Token, ThisFlow), used)
  BY <1>2, <1>4, Zenon DEF Totalled
<1>6. used = RelatedUsers(user, Token, ThisFlow.block)
  BY SearchComplete, Zenon
<1>7. SummedFlow(user, index)
        = [related |-> RelatedUsers(user, Token, ThisFlow.block),
           deposit |-> ThisFlow.deposit
                         + Sum(Deposits(Token, ThisFlow), RelatedUsers(user, Token, ThisFlow.block)),
           withdraw |-> ThisFlow.withdraw
                          + Sum(Withdraws(Token, ThisFlow), RelatedUsers(user, Token, ThisFlow.block))]
  BY Zenon DEF SummedFlow, Deposits, Withdraws, Token, ThisFlow, List
<1> QED BY <1>2, <1>5, <1>6, <1>7, Zenon

-----------------------------------------------------------------------------
(* What is reported. *)

\* What RecordRate and CheckAttack call a leak is beyond both limits of abnormalDetection.
LEMMA LeakAbnormal ==
  ASSUME NEW d \in Nat, NEW w \in Nat, w > 0, w >= 3 * d, NEW single
  PROVE  Abnormal(d, w, single)
<1>1. CASE d = 0
  BY <1>1 DEF Abnormal
<1>2. CASE d > 0
  <2>1. 10000 * w >= 10001 * d
    BY <1>2
  <2> QED BY <1>2, <2>1 DEF Abnormal
<1> QED BY <1>1, <1>2

\* An entry at which the flag was set before led to an unsupported token, and so does every
\* later one.
LEMMA FlaggedEntry ==
  ASSUME Base, Flagged, unsupported, stack # <<>>
  PROVE  \E v \in SummedFlow(user, index).related : Unsupported(v, TokenToCheck(user))
<1> DEFINE list == FlowList(user, TokenToCheck(user))
<1>1. PICK j \in 2 .. index : \E v \in SummedFlow(user, j).related : Unsupported(v, Token)
  BY Zenon DEF Flagged
<1>2. /\ index \in 2 .. Len(list) /\ InOrder(list) /\ Len(list) \in Nat /\ DOMAIN list = 1 .. Len(list)
      /\ \A i \in 1 .. Len(list) : list[i] \in TokenFlows
  BY AtEntry, ListTypes, Zenon DEF Base
<1> HIDE DEF list
<1>3. j \in 1 .. Len(list) /\ index \in 1 .. Len(list) /\ j <= index
  BY <1>2
<1>4. list[j].block <= list[index].block
  BY <1>2, <1>3, Zenon DEF InOrder
<1>5. list[j].block \in Nat /\ list[index].block \in Nat /\ user \in Users
  BY <1>2, <1>3, EntryTypes, ThisTypes, Zenon
<1>6. SummedFlow(user, j).related \subseteq SummedFlow(user, index).related
  <2>1. \A i : SummedFlow(user, i).related = RelatedUsers(user, TokenToCheck(user), list[i].block)
    BY SummedRelated, Zenon DEF list
  <2>2. RelatedUsers(user, TokenToCheck(user), list[j].block)
          \subseteq RelatedUsers(user, TokenToCheck(user), list[index].block)
    BY <1>4, <1>5, RelatedGrow, Zenon
  <2> QED BY <2>1, <2>2, Zenon
<1> QED BY <1>1, <1>6, Zenon DEF Token

\* An entry that CheckAttack passes over is no leak.
LEMMA PassedOver ==
  ASSUME Laws, Base, Search, Totalled, Flagged, Searched, ~IsAttack, command = "CheckAttack"
  PROVE  ~Leaks(user, index)
<1> SUFFICES ASSUME Leaks(user, index) PROVE FALSE
  BY Zenon
<1>1. /\ stack # <<>>
      /\ [related |-> used, deposit |-> stack[1].deposit, withdraw |-> stack[1].withdraw]
           = SummedFlow(user, index)
  BY SearchedSum, Zenon
<1>2. SummedFlow(user, index).deposit = stack[1].deposit /\ SummedFlow(user, index).withdraw = stack[1].withdraw
  BY <1>1
<1>3. stack[1].deposit \in Nat /\ stack[1].withdraw \in Nat
  BY <1>1, StackTypes, Zenon
<1>4. stack[1].withdraw > 0 /\ stack[1].withdraw >= 3 * stack[1].deposit
  BY <1>2, Zenon DEF Leaks
<1>5. Abnormal(stack[1].deposit, stack[1].withdraw, IsSingleTx)
  BY <1>3, <1>4, LeakAbnormal, Zenon
<1>6. unsupported
  BY <1>5, Zenon DEF IsAttack
<1> QED BY <1>1, <1>6, FlaggedEntry, Zenon DEF Leaks

\* It is enough that nothing is forgotten and that what becomes due is reported.
LEMMA ReportedKept ==
  ASSUME Reported, UNCHANGED inputs, records \subseteq records',
         \A u \in DOMAIN flows \ todo' : \A i \in 2 .. Len(FlowList(u, TokenToCheck(u))) :
           Checked(u) /\ Done(u, i)' /\ Leaks(u, i) /\ command = "CheckAttack" =>
             \/ u \notin todo /\ Done(u, i)
             \/ \E r \in records' : r.user = u
  PROVE  Reported'
<1>1. UNCHANGED <<command, flows, since>>
  BY SameInputs, Zenon
<1> SUFFICES ASSUME command = "CheckAttack", NEW u \in DOMAIN flows \ todo',
                    NEW i \in 2 .. Len(FlowList(u, TokenToCheck(u))'),
                    Checked(u)' /\ Done(u, i)' /\ Leaks(u, i)'
             PROVE  \E r \in records' : r.user = u
  BY <1>1, Zenon DEF Reported
<1>2. FlowList(u, TokenToCheck(u))' = FlowList(u, TokenToCheck(u))
  BY <1>1, Zenon DEF FlowList, HasFlow, TokenToCheck
<1>3. Checked(u) /\ Leaks(u, i) /\ Done(u, i)' /\ i \in 2 .. Len(FlowList(u, TokenToCheck(u)))
  BY <1>2, SameInputs, SameSummed, Zenon
<1>4. CASE \E r \in records' : r.user = u
  BY <1>4, Zenon
<1>5. CASE u \notin todo /\ Done(u, i)
  <2>1. \E r \in records : r.user = u
    BY <1>3, <1>5, Zenon DEF Reported
  <2> QED BY <2>1, Zenon
<1> QED BY <1>3, <1>4, <1>5, Zenon

\* What is done with the totals when the entry ends.
LEMMA ReportedEnds ==
  ASSUME Laws, Base, Search, Totalled, Flagged, Reported, EndFlow \/ \E v \in Users : BreakOff(v)
  PROVE  Reported'
<1>1. /\ stack # <<>> /\ stack' = <<>>
      /\ UNCHANGED inputs /\ UNCHANGED <<todo, user, index>>
  BY EndsStep, Zenon
<1>2. records \subseteq records'
  BY Zenon DEF EndFlow, BreakOff
<1>3. command = "CheckAttack" => ~Leaks(user, index)
  <2>1. CASE EndFlow
    BY <2>1, PassedOver, Zenon DEF EndFlow
  <2>2. ASSUME NEW v \in Users, BreakOff(v) PROVE ~Leaks(user, index)
    BY <2>2, BreakRelated, Zenon DEF Leaks, Token
  <2> QED BY <2>1, <2>2, Zenon
<1>4. ASSUME NEW u \in DOMAIN flows \ todo', NEW i \in 2 .. Len(FlowList(u, TokenToCheck(u))),
             Done(u, i)', Leaks(u, i), command = "CheckAttack"
      PROVE  u \notin todo /\ Done(u, i)
  BY <1>1, <1>3, <1>4, Zenon DEF Done
<1> QED BY <1>1, <1>2, <1>4, ReportedKept, Zenon

\* Nothing becomes due during the search of an entry.
LEMMA ReportedSearch ==
  ASSUME Base, Typed, Reported,
         Return \/ UNCHANGED vars \/ \E v \in Users : Visit(v) \/ VisitUnsupported(v)
  PROVE  Reported'
<1>1. /\ UNCHANGED inputs /\ UNCHANGED <<todo, user, index, records>>
      /\ stack' = <<>> => stack = <<>>
  <2>1. CASE Return
    BY <2>1, ReturnStep, Zenon
  <2>2. CASE UNCHANGED vars
    BY <2>2, Zenon DEF vars, flowVars
  <2>3. ASSUME NEW v \in Users, Visit(v) \/ VisitUnsupported(v)
        PROVE  /\ UNCHANGED inputs /\ UNCHANGED <<todo, user, index, records>>
               /\ stack' = <<>> => stack = <<>>
    BY <2>3, VisitStep, UnsupportedStep, Zenon
  <2> QED BY <2>1, <2>2, <2>3, Zenon
<1>2. ASSUME NEW u \in DOMAIN flows \ todo', NEW i \in 2 .. Len(FlowList(u, TokenToCheck(u))), Done(u, i)'
      PROVE  u \notin todo /\ Done(u, i)
  BY <1>1, <1>2, Zenon DEF Done
<1> QED BY <1>1, <1>2, ReportedKept, Zenon

\* An entry without a withdrawal is no leak.
LEMMA ReportedNextFlow ==
  ASSUME Base, Reported, NextFlow
  PROVE  Reported'
<1>1. /\ stack = <<>> /\ index \in Nat /\ index' = index + 1
      /\ stack' = IF "withdraw" \in List[index + 1].action
                  THEN <<Frame(user, List[index + 1].deposit, List[index + 1].withdraw, first')>>
                  ELSE <<>>
      /\ UNCHANGED inputs /\ UNCHANGED <<todo, user, records>>
  BY NextFlowStep, Zenon
<1>2. ASSUME NEW u \in DOMAIN flows \ todo', NEW i \in 2 .. Len(FlowList(u, TokenToCheck(u))),
             Done(u, i)', Leaks(u, i)
      PROVE  u \notin todo /\ Done(u, i)
  <2>1. CASE u # user
    BY <1>1, <2>1, Zenon DEF Done
  <2>2. CASE u = user
    <3>1. i < index + 1 \/ (i = index + 1 /\ stack' = <<>>)
      BY <1>1, <1>2, <2>2, Zenon DEF Done
    <3>2. ~(i = index + 1 /\ stack' = <<>>)
      <4> SUFFICES ASSUME i = index + 1, stack' = <<>> PROVE FALSE
        BY Zenon
      <4>1. "withdraw" \notin List[index + 1].action
        <5> DEFINE fr == Frame(user, List[index + 1].deposit, List[index + 1].withdraw, first')
        <5>1. <<fr>> # <<>>
          <6> HIDE DEF fr
          <6> QED BY Zenon
        <5> QED BY <1>1, <5>1, Zenon
      <4> QED BY <1>2, <2>2, <4>1, Zenon DEF Leaks, List
    <3>3. i < index \/ i = index
      BY <1>1, <3>1, <3>2
    <3> QED BY <1>1, <3>3, Zenon DEF Done
  <2> QED BY <2>1, <2>2, Zenon
<1> QED BY <1>1, <1>2, ReportedKept, Zenon

\* A user begins with nothing due, and ends with all entries done or with a report.
LEMMA ReportedUsers ==
  ASSUME Base, Reported,
         FindAttack \/ EndUser \/ \E u \in Users : SkipUser(u) \/ StartUser(u)
  PROVE  Reported'
<1>1. \A u \in DOMAIN flows : u # NoUser
  BY CheckerAssumption, Zenon DEF Base
<1>2. ASSUME NEW x \in Users, SkipUser(x) PROVE Reported'
  <2>1. /\ user = NoUser /\ x \in todo /\ ~Checked(x) /\ todo' = todo \ {x}
        /\ UNCHANGED inputs /\ UNCHANGED records
    BY <1>2, Zenon DEF SkipUser
  <2>2. ASSUME NEW u \in DOMAIN flows \ todo', NEW i, Checked(u) PROVE u \notin todo /\ Done(u, i)
    BY <1>1, <2>1, <2>2, Zenon DEF Done
  <2> QED BY <2>1, <2>2, ReportedKept, Zenon
<1>3. ASSUME NEW x \in Users, StartUser(x) PROVE Reported'
  <2>1. /\ user = NoUser /\ x \in todo /\ todo' = todo \ {x} /\ user' = x /\ index' = index
        /\ UNCHANGED inputs /\ UNCHANGED records /\ index = 1
    BY <1>3, Zenon DEF StartUser, flowVars, Base
  <2>2. ASSUME NEW u \in DOMAIN flows \ todo', NEW i \in 2 .. Len(FlowList(u, TokenToCheck(u))), Done(u, i)'
        PROVE  u \notin todo /\ Done(u, i)
    <3>1. u # x
      <4>1. ~(i < 1) /\ i # 1
        OBVIOUS
      <4> QED BY <2>1, <2>2, <4>1, Zenon DEF Done
    <3> QED BY <1>1, <2>1, <3>1, Zenon DEF Done
  <2> QED BY <2>1, <2>2, ReportedKept, Zenon
<1>4. CASE FindAttack
  <2>1. /\ records' = records \union {RateRecord} /\ UNCHANGED inputs /\ UNCHANGED todo
    BY <1>4, Zenon DEF FindAttack
  <2>2. RateRecord.user = user
    BY Zenon DEF RateRecord
  <2>3. ASSUME NEW u \in DOMAIN flows \ todo', NEW i
        PROVE  (u \notin todo /\ Done(u, i)) \/ \E r \in records' : r.user = u
    BY <2>1, <2>2, Zenon DEF Done
  <2> QED BY <2>1, <2>3, ReportedKept, Zenon
<1>5. CASE EndUser
  <2>1. /\ user # NoUser /\ stack = <<>> /\ index >= Len(List)
        /\ UNCHANGED inputs /\ UNCHANGED <<todo, records>>
    BY <1>5, Zenon DEF EndUser
  <2>2. Len(List) \in Nat /\ index \in 1 .. Len(List) \union {1}
    BY <2>1, ListTypes, Zenon DEF List, Base
  <2>3. ASSUME NEW u \in DOMAIN flows \ todo', NEW i \in 2 .. Len(FlowList(u, TokenToCheck(u)))
        PROVE  u \notin todo /\ Done(u, i)
    <3>1. CASE u # user
      BY <2>1, <3>1, Zenon DEF Done
    <3>2. CASE u = user
      <4>1. i \in 2 .. Len(List)
        BY <3>2, Zenon DEF List
      <4>2. i < index \/ i = index
        BY <2>1, <2>2, <4>1
      <4> QED BY <2>1, <4>2, Zenon DEF Done
    <3> QED BY <3>1, <3>2, Zenon
  <2> QED BY <2>1, <2>3, ReportedKept, Zenon
<1> QED BY <1>2, <1>3, <1>4, <1>5, Zenon

\* Every step keeps Reported.
LEMMA ReportedNext ==
  ASSUME Laws, Base, Typed, Search, Totalled, Flagged, Reported, [Next]_vars
  PROVE  Reported'
BY ReportedEnds, ReportedSearch, ReportedNextFlow, ReportedUsers, Zenon DEF Next

-----------------------------------------------------------------------------
(* What is left to do. *)

\* A tuple is less when an entry is and those before it are the same.
LEMMA Lex ==
  ASSUME NEW a, NEW b, DOMAIN a = 1 .. 6,
         \/ a[1] < b[1]
         \/ a[1] = b[1] /\ a[2] < b[2]
         \/ a[1] = b[1] /\ a[2] = b[2] /\ a[3] < b[3]
         \/ a[1] = b[1] /\ a[2] = b[2] /\ a[3] = b[3] /\ a[4] < b[4]
         \/ a[1] = b[1] /\ a[2] = b[2] /\ a[3] = b[3] /\ a[4] = b[4] /\ a[5] < b[5]
         \/ a[1] = b[1] /\ a[2] = b[2] /\ a[3] = b[3] /\ a[4] = b[4] /\ a[5] = b[5] /\ a[6] < b[6]
  PROVE  LexLess(a, b)
<1>2. CASE a[1] < b[1]
  <2>1. 1 \in DOMAIN a /\ a[1] < b[1] /\ \A j \in 1 .. 1 - 1 : a[j] = b[j]
    BY <1>2
  <2> QED BY <2>1, Zenon DEF LexLess
<1>3. CASE a[1] = b[1] /\ a[2] < b[2]
  <2>1. 2 \in DOMAIN a /\ a[2] < b[2] /\ \A j \in 1 .. 2 - 1 : a[j] = b[j]
    BY <1>3
  <2> QED BY <2>1, Zenon DEF LexLess
<1>4. CASE a[1] = b[1] /\ a[2] = b[2] /\ a[3] < b[3]
  <2>1. 3 \in DOMAIN a /\ a[3] < b[3] /\ \A j \in 1 .. 3 - 1 : a[j] = b[j]
    BY <1>4
  <2> QED BY <2>1, Zenon DEF LexLess
<1>5. CASE a[1] = b[1] /\ a[2] = b[2] /\ a[3] = b[3] /\ a[4] < b[4]
  <2>1. 4 \in DOMAIN a /\ a[4] < b[4] /\ \A j \in 1 .. 4 - 1 : a[j] = b[j]
    BY <1>5
  <2> QED BY <2>1, Zenon DEF LexLess
<1>6. CASE a[1] = b[1] /\ a[2] = b[2] /\ a[3] = b[3] /\ a[4] = b[4] /\ a[5] < b[5]
  <2>1. 5 \in DOMAIN a /\ a[5] < b[5] /\ \A j \in 1 .. 5 - 1 : a[j] = b[j]
    BY <1>6
  <2> QED BY <2>1, Zenon DEF LexLess
<1>7. CASE a[1] = b[1] /\ a[2] = b[2] /\ a[3] = b[3] /\ a[4] = b[4] /\ a[5] = b[5] /\ a[6] < b[6]
  <2>1. 6 \in DOMAIN a /\ a[6] < b[6] /\ \A j \in 1 .. 6 - 1 : a[j] = b[j]
    BY <1>7
  <2> QED BY <2>1, Zenon DEF LexLess
<1> QED BY <1>2, <1>3, <1>4, <1>5, <1>6, <1>7, Zenon

\* The entries of ToDo, one by one.
Left == IF user = NoUser THEN 0 ELSE 1
EntriesLeft == IF user = NoUser THEN 0 ELSE Len(List) + 1 - index
Searching == IF stack = <<>> THEN 0 ELSE 1

\* What makes ToDo less.
LEMMA LessToDo ==
  ASSUME \/ Cardinality(todo)' < Cardinality(todo)
         \/ /\ Cardinality(todo)' = Cardinality(todo)
            /\ \/ Left' < Left
               \/ /\ Left' = Left
                  /\ \/ EntriesLeft' < EntriesLeft
                     \/ /\ EntriesLeft' = EntriesLeft
                        /\ \/ Searching' < Searching
                           \/ /\ Searching' = Searching
                              /\ \/ Cardinality(Users \ used)' < Cardinality(Users \ used)
                                 \/ /\ Cardinality(Users \ used)' = Cardinality(Users \ used)
                                    /\ Len(stack)' < Len(stack)
  PROVE  LexLess(ToDo', ToDo)
<1>1. ToDo = <<Cardinality(todo), Left, EntriesLeft, Searching, Cardinality(Users \ used), Len(stack)>>
  BY Zenon DEF ToDo, Left, EntriesLeft, Searching
<1>2. ToDo' = <<Cardinality(todo'), Left', EntriesLeft', Searching', Cardinality(Users \ used'), Len(stack')>>
  BY Zenon DEF ToDo, Left, EntriesLeft, Searching
<1>3. /\ DOMAIN ToDo = 1 .. 6
      /\ ToDo[1] = Cardinality(todo) /\ ToDo[2] = Left /\ ToDo[3] = EntriesLeft
      /\ ToDo[4] = Searching /\ ToDo[5] = Cardinality(Users \ used) /\ ToDo[6] = Len(stack)
  BY <1>1
<1>4. /\ DOMAIN ToDo' = 1 .. 6
      /\ ToDo'[1] = Cardinality(todo') /\ ToDo'[2] = Left' /\ ToDo'[3] = EntriesLeft'
      /\ ToDo'[4] = Searching' /\ ToDo'[5] = Cardinality(Users \ used') /\ ToDo'[6] = Len(stack')
  BY <1>2
<1> DEFINE a == ToDo'
           b == ToDo
<1>5. \/ a[1] < b[1]
      \/ a[1] = b[1] /\ a[2] < b[2]
      \/ a[1] = b[1] /\ a[2] = b[2] /\ a[3] < b[3]
      \/ a[1] = b[1] /\ a[2] = b[2] /\ a[3] = b[3] /\ a[4] < b[4]
      \/ a[1] = b[1] /\ a[2] = b[2] /\ a[3] = b[3] /\ a[4] = b[4] /\ a[5] < b[5]
      \/ a[1] = b[1] /\ a[2] = b[2] /\ a[3] = b[3] /\ a[4] = b[4] /\ a[5] = b[5] /\ a[6] < b[6]
  BY <1>3, <1>4, Zenon
<1> QED BY <1>4, <1>5, Lex, Zenon

\* What is left is counted in natural numbers.
LEMMA CountedToDo ==
  ASSUME Laws, Base
  PROVE  NaturalToDo
<1>1. IsFiniteSet(todo) /\ IsFiniteSet(Users \ used)
  <2>1. todo \subseteq Users
    BY CheckerAssumption, Zenon DEF Base
  <2> QED BY <2>1, CheckerAssumption, Zenon DEF Laws
<1>2. Cardinality(todo) \in Nat /\ Cardinality(Users \ used) \in Nat
  BY <1>1, Zenon DEF Laws
<1>3. Left \in Nat /\ Searching \in Nat
  BY DEF Left, Searching
<1>4. EntriesLeft \in Nat
  <2>1. Len(List) \in Nat
    BY ListTypes, Zenon DEF List, Base
  <2>2. user # NoUser => index \in 1 .. Len(List) \union {1}
    BY Zenon DEF Base
  <2> QED BY <2>1, <2>2 DEF EntriesLeft
<1>5. Len(stack) \in Nat
  BY StackTypes, Zenon
<1>6. ToDo = <<Cardinality(todo), Left, EntriesLeft, Searching, Cardinality(Users \ used), Len(stack)>>
  BY Zenon DEF ToDo, Left, EntriesLeft, Searching
<1>7. /\ DOMAIN ToDo = 1 .. 6
      /\ ToDo[1] = Cardinality(todo) /\ ToDo[2] = Left /\ ToDo[3] = EntriesLeft
      /\ ToDo[4] = Searching /\ ToDo[5] = Cardinality(Users \ used) /\ ToDo[6] = Len(stack)
  BY <1>6
<1>8. \A i \in 1 .. 6 : i = 1 \/ i = 2 \/ i = 3 \/ i = 4 \/ i = 5 \/ i = 6
  OBVIOUS
<1> QED BY <1>2, <1>3, <1>4, <1>5, <1>7, <1>8, Zenon DEF NaturalToDo

\* One user less is left.
LEMMA ProgressStart ==
  ASSUME Laws, Base, NEW u \in Users, SkipUser(u) \/ StartUser(u)
  PROVE  LexLess(ToDo', ToDo)
<1>1. u \in todo /\ todo' = todo \ {u}
  BY Zenon DEF SkipUser, StartUser
<1>2. todo \subseteq Users
  BY CheckerAssumption, Zenon DEF Base
<1>3. IsFiniteSet(todo)
  BY <1>2, CheckerAssumption, Zenon DEF Laws
<1>4. Cardinality(todo') = Cardinality(todo) - 1 /\ Cardinality(todo) \in Nat
  BY <1>1, <1>3, Zenon DEF Laws
<1>5. Cardinality(todo') < Cardinality(todo)
  BY <1>4
<1> QED BY <1>5, LessToDo, Zenon

\* One more user is marked.
LEMMA ProgressMark ==
  ASSUME Laws, Base, Typed, NEW v \in Users, Visit(v) \/ VisitUnsupported(v)
  PROVE  LexLess(ToDo', ToDo)
<1>1. /\ Meets(v) /\ used' = used \union {v} /\ stack' # <<>>
      /\ UNCHANGED inputs /\ UNCHANGED <<todo, user, index>>
  BY VisitStep, UnsupportedStep, Zenon
<1>2. stack # <<>> /\ v \in Users \ used
  BY <1>1, Zenon DEF Meets
<1>3. IsFiniteSet(Users \ used)
  BY CheckerAssumption, Zenon DEF Laws
<1>4. Users \ used' = (Users \ used) \ {v}
  BY <1>1, Zenon
<1>5. Cardinality(Users \ used') = Cardinality(Users \ used) - 1 /\ Cardinality(Users \ used) \in Nat
  BY <1>2, <1>3, <1>4, Zenon DEF Laws
<1>6. Cardinality(Users \ used') < Cardinality(Users \ used)
  BY <1>5
<1>7. List' = List
  BY <1>1, SameEntry, Zenon
<1>8. Left' = Left /\ EntriesLeft' = EntriesLeft /\ Searching' = Searching
  BY <1>1, <1>2, <1>7, Zenon DEF Left, EntriesLeft, Searching
<1> QED BY <1>1, <1>6, <1>8, LessToDo, Zenon

\* One call less is pending.
LEMMA ProgressReturn ==
  ASSUME Base, Return
  PROVE  LexLess(ToDo', ToDo)
<1>1. /\ Len(stack) \in Nat /\ Len(stack') = Len(stack) - 1 /\ stack # <<>> /\ stack' # <<>>
      /\ UNCHANGED inputs /\ UNCHANGED <<todo, user, index, used>>
  BY ReturnStep, Zenon
<1>2. Len(stack') < Len(stack)
  BY <1>1
<1>3. List' = List
  BY <1>1, SameEntry, Zenon
<1>4. Left' = Left /\ EntriesLeft' = EntriesLeft /\ Searching' = Searching
  BY <1>1, <1>3, Zenon DEF Left, EntriesLeft, Searching
<1> QED BY <1>1, <1>2, <1>4, LessToDo, Zenon

\* One entry less is left.
LEMMA ProgressNextFlow ==
  ASSUME Base, NextFlow
  PROVE  LexLess(ToDo', ToDo)
<1>1. /\ user # NoUser /\ index \in Nat /\ Len(List) \in Nat /\ index' = index + 1 /\ List' = List
      /\ UNCHANGED <<todo, user>>
  BY NextFlowStep, Zenon
<1>2. Len(List) + 1 - (index + 1) < Len(List) + 1 - index
  BY <1>1
<1>3. Left' = Left /\ EntriesLeft' < EntriesLeft
  BY <1>1, <1>2, Zenon DEF Left, EntriesLeft
<1> QED BY <1>1, <1>3, LessToDo, Zenon

\* The search of the entry is over.
LEMMA ProgressEnds ==
  ASSUME Base, EndFlow \/ \E v \in Users : BreakOff(v)
  PROVE  LexLess(ToDo', ToDo)
<1>1. stack # <<>> /\ stack' = <<>> /\ UNCHANGED inputs /\ UNCHANGED <<todo, user, index>>
  BY EndsStep, Zenon
<1>2. List' = List
  BY <1>1, SameEntry, Zenon
<1>3. Searching' = 0 /\ Searching = 1 /\ 0 < 1
  BY <1>1 DEF Searching
<1>4. Left' = Left /\ EntriesLeft' = EntriesLeft
  BY <1>1, <1>2, Zenon DEF Left, EntriesLeft
<1>5. Searching' < Searching
  BY <1>3, Zenon
<1> QED BY <1>1, <1>4, <1>5, LessToDo, Zenon

\* The user is done.
LEMMA ProgressLeave ==
  ASSUME Base, FindAttack \/ EndUser
  PROVE  LexLess(ToDo', ToDo)
<1>1. user # NoUser /\ user' = NoUser /\ UNCHANGED todo
  BY LeaveStep, Zenon
<1>2. Left' = 0 /\ Left = 1 /\ 0 < 1
  BY <1>1 DEF Left
<1>3. Left' < Left
  BY <1>2, Zenon
<1> QED BY <1>1, <1>3, LessToDo, Zenon

-----------------------------------------------------------------------------
(* The flow of one user. *)

INSTANCE FiniteSetTheorems

\* A set of numbers has a least one.
LEMMA Least ==
  ASSUME NEW T, T \subseteq Nat, T # {}
  PROVE  \E m \in T : \A i \in T : m <= i
<1> DEFINE R == OpToRel(<, Nat)
<1>1. PICK m \in T : \A y \in T : ~(<<y, m>> \in R)
  <2> HIDE DEF R
  <2> QED BY WFMin, NatLessThanWellFounded, Zenon DEF R
<1>2. ASSUME NEW y \in T PROVE m <= y
  <2>1. y \in Nat /\ m \in Nat
    BY Zenon
  <2>2. y < m => <<y, m>> \in R
    BY <2>1, Zenon DEF OpToRel
  <2>3. ~(y < m)
    BY <1>1, <2>2, Zenon
  <2> QED BY <2>1, <2>3
<1> QED BY <1>2, Zenon

\* What the loop over a list accumulates, and what it starts with.
OwnFlows == [deposit : Nat, withdraw : Nat, balance : Nat, first : FlowKeys, over : BOOLEAN]
NoFlow == [deposit |-> 0, withdraw |-> 0, balance |-> 0, first |-> Origin, over |-> FALSE]

\* One entry more.
LEMMA AddFlowTypes ==
  ASSUME NEW this, NEW acc \in OwnFlows, NEW flow \in TokenFlows
  PROVE  AddFlow(this, acc, flow) \in OwnFlows
<1> DEFINE start == acc.first.block = 0 \/ (acc.balance < Dust /\ "deposit" \in flow.action)
           newFirst == IF start THEN KeyOf(flow) ELSE acc.first
<1>1. newFirst \in FlowKeys
  BY EntryTypes, Zenon DEF OwnFlows
<1> HIDE DEF start, newFirst
<1>2. [acc EXCEPT !.first = newFirst, !.over = TRUE] \in OwnFlows
  BY <1>1, Zenon DEF OwnFlows
<1>3. [deposit |-> flow.deposit, withdraw |-> flow.withdraw, balance |-> flow.balance,
       first |-> newFirst, over |-> FALSE] \in OwnFlows
  BY <1>1, EntryTypes, Zenon DEF OwnFlows
<1>4. AddFlow(this, acc, flow)
        = IF acc.over THEN acc
          ELSE IF Earlier(KeyOf(this), KeyOf(flow))
          THEN [acc EXCEPT !.first = newFirst, !.over = TRUE]
          ELSE [deposit |-> flow.deposit, withdraw |-> flow.withdraw, balance |-> flow.balance,
                first |-> newFirst, over |-> FALSE]
  BY Zenon DEF AddFlow, start, newFirst
<1> QED BY <1>2, <1>3, <1>4, Zenon

\* f gives the accumulated flow of the first entries, up to the n-th.
OwnEq(list, this, n, f) ==
  f = [i \in 0 .. n |-> IF i <= 1 THEN NoFlow ELSE AddFlow(this, f[i - 1], list[i])]

\* upTo is defined: there is a function as its equation says, since a shortest prefix of the
\* list without one would have a predecessor with one.
LEMMA OwnExists ==
  ASSUME NEW list \in Seq(TokenFlows), NEW this
  PROVE  \E f : OwnEq(list, this, Len(list), f)
<1> DEFINE Bad == {n \in 0 .. Len(list) : \A f : ~OwnEq(list, this, n, f)}
<1>0. Len(list) \in Nat
  OBVIOUS
<1>1. SUFFICES Bad = {}
  BY <1>0
<1>2. SUFFICES ASSUME Bad # {} PROVE FALSE
  BY Zenon
<1>3. PICK m \in Bad : \A i \in Bad : m <= i
  <2> HIDE DEF Bad
  <2>1. Bad \subseteq Nat
    BY DEF Bad
  <2> QED BY <1>2, <2>1, Least, Zenon
<1>4. m \in Nat /\ m <= Len(list) /\ \A f : ~OwnEq(list, this, m, f)
  OBVIOUS
<1>5. CASE m = 0
  <2> DEFINE g == [i \in 0 .. 0 |-> NoFlow]
  <2>1. OwnEq(list, this, 0, g)
    BY DEF OwnEq
  <2> QED BY <1>4, <1>5, <2>1, Zenon
<1>6. CASE m # 0
  <2>1. m - 1 \in 0 .. Len(list) /\ ~(m <= m - 1)
    BY <1>4, <1>6
  <2>a. m - 1 \notin Bad
    BY <1>3, <2>1, Zenon
  <2>2. PICK f : OwnEq(list, this, m - 1, f)
    BY <2>1, <2>a, Zenon
  <2> DEFINE last == IF m <= 1 THEN NoFlow ELSE AddFlow(this, f[m - 1], list[m])
             g == [i \in 0 .. m |-> IF i = m THEN last ELSE f[i]]
  <2>3. ASSUME NEW i \in 0 .. m
        PROVE  g[i] = IF i <= 1 THEN NoFlow ELSE AddFlow(this, g[i - 1], list[i])
    <3>1. CASE i = m
      <4>1. g[i] = last /\ (~(i <= 1) => g[i - 1] = f[i - 1])
        <5> HIDE DEF last
        <5> QED BY <1>4, <1>6, <3>1
      <4> QED BY <3>1, <4>1, Zenon
    <3>2. CASE i # m
      <4> HIDE DEF last
      <4>1. i \in 0 .. m - 1 /\ g[i] = f[i]
        BY <1>4, <3>2
      <4>2. f[i] = IF i <= 1 THEN NoFlow ELSE AddFlow(this, f[i - 1], list[i])
        BY <2>2, <4>1, Zenon DEF OwnEq
      <4>3. ~(i <= 1) => g[i - 1] = f[i - 1]
        BY <1>4, <3>2, <4>1
      <4> QED BY <4>1, <4>2, <4>3, Zenon
    <3> QED BY <3>1, <3>2, Zenon
  <2>4. OwnEq(list, this, m, g)
    <3> DEFINE h == [i \in 0 .. m |-> IF i <= 1 THEN NoFlow ELSE AddFlow(this, g[i - 1], list[i])]
    <3>1. \A i \in 0 .. m : g[i] = h[i]
      BY <2>3, Zenon
    <3>2. g = [i \in 0 .. m |-> g[i]] /\ h = [i \in 0 .. m |-> h[i]]
      OBVIOUS
    <3> HIDE DEF g, h
    <3>3. g = h
      BY <3>1, <3>2, Zenon
    <3> QED BY <3>3, Zenon DEF h, OwnEq
  <2> QED BY <1>4, <2>4, Zenon
<1> QED BY <1>5, <1>6, Zenon

\* What the loop of GetRelatedTokenFlow over a list returns.
LEMMA OwnFlowTypes ==
  ASSUME NEW list \in Seq(TokenFlows), NEW this
  PROVE  OwnFlow(list, this) \in OwnFlows
<1> DEFINE upTo == CHOOSE f : OwnEq(list, this, Len(list), f)
<1>1. OwnFlow(list, this) = upTo[Len(list)]
  BY Zenon DEF OwnFlow, OwnEq, NoFlow
<1>2. OwnEq(list, this, Len(list), upTo)
  <2>1. \E f : OwnEq(list, this, Len(list), f)
    BY OwnExists, Zenon
  <2> QED BY <2>1, Zenon
<1> HIDE DEF upTo
<1>3. Len(list) \in Nat /\ \A i \in 1 .. Len(list) : list[i] \in TokenFlows
  OBVIOUS
<1>4. \A i \in 0 .. Len(list) :
        upTo[i] = IF i <= 1 THEN NoFlow ELSE AddFlow(this, upTo[i - 1], list[i])
  BY <1>2, Zenon DEF OwnEq
<1> DEFINE Bad == {n \in 0 .. Len(list) : upTo[n] \notin OwnFlows}
<1>5. SUFFICES ASSUME Bad # {} PROVE FALSE
  BY <1>1, <1>3
<1>6. PICK m \in Bad : \A i \in Bad : m <= i
  <2>1. Bad \subseteq Nat
    BY <1>3
  <2> HIDE DEF Bad
  <2> QED BY <1>5, <2>1, Least, Zenon
<1>7. CASE m <= 1
  <2>1. NoFlow \in OwnFlows
    BY Zenon DEF NoFlow, OwnFlows, FlowKeys, Origin
  <2> QED BY <1>4, <1>7, <2>1, Zenon
<1>8. CASE ~(m <= 1)
  <2>1. m \in 1 .. Len(list) /\ m - 1 \in 0 .. Len(list) /\ ~(m <= m - 1)
    BY <1>3, <1>8
  <2>2. upTo[m - 1] \in OwnFlows /\ list[m] \in TokenFlows
    BY <1>3, <1>6, <2>1, Zenon
  <2>3. upTo[m] \in OwnFlows
    BY <1>4, <1>8, <2>2, AddFlowTypes, Zenon
  <2> QED BY <2>3, Zenon
<1> QED BY <1>7, <1>8, Zenon

\* Typed holds for all flows.
LEMMA RelatedTypes == ASSUME Base PROVE Typed
<1>0. flows \in FlowMaps
  BY Zenon DEF Base
<1> SUFFICES ASSUME NEW v \in Users, NEW token, NEW this
             PROVE
               LET fr == RelatedFrame(v, token, this) IN
               /\ fr \in Frames /\ fr.user = v
               /\ RelatedFlow(v, token, this).deposit \in Nat
               /\ RelatedFlow(v, token, this).withdraw \in Nat
               /\ Unsupported(v, token) => /\ RelatedFlow(v, token, this).deposit = 0
                                           /\ RelatedFlow(v, token, this).withdraw = 0
               /\ ~Unsupported(v, token) => /\ RelatedFlow(v, token, this).deposit = fr.deposit
                                            /\ RelatedFlow(v, token, this).withdraw = fr.withdraw
  BY Zenon DEF Typed
<1> DEFINE own == OwnFlow(FlowList(v, token), this)
<1>1. own \in OwnFlows
  BY <1>0, ListTypes, OwnFlowTypes, Zenon
<1>2. RelatedFrame(v, token, this)
        = [user |-> v, deposit |-> own.deposit, withdraw |-> own.withdraw, first |-> own.first]
  BY Zenon DEF RelatedFrame, Frame
<1>3. RelatedFlow(v, token, this)
        = IF Unsupported(v, token) THEN [deposit |-> 0, withdraw |-> 0] ELSE own
  BY Zenon DEF RelatedFlow
<1> HIDE DEF own
<1>4. RelatedFrame(v, token, this) \in Frames
  BY <1>1, <1>2 DEF OwnFlows, Frames
<1>5. CASE Unsupported(v, token)
  BY <1>1, <1>2, <1>3, <1>4, <1>5, SMTT(30) DEF OwnFlows
<1>6. CASE ~Unsupported(v, token)
  BY <1>1, <1>2, <1>3, <1>4, <1>6 DEF OwnFlows
<1> QED BY <1>5, <1>6, Zenon

-----------------------------------------------------------------------------
(* Sums.  MapThenSumSet takes the elements of a set in an order that is left open;
   the order makes no difference. *)

\* The element that the sum takes next.
Pick(T) == CHOOSE x \in T : TRUE
SumOf(f, g, T) == IF T = {} THEN 0 ELSE f[Pick(T)] + g[T \ {Pick(T)}]

\* g gives the sums of the subsets of S with at most n elements.
Sums(f, S, n, g) ==
  \A T \in SUBSET S : Cardinality(T) <= n => g[T] = SumOf(f, g, T)

\* The next element is one of the set, and the others are one less.
LEMMA OneLess ==
  ASSUME NEW T, IsFiniteSet(T), NEW x \in T
  PROVE  /\ IsFiniteSet(T \ {x}) /\ Cardinality(T) \in Nat
         /\ Cardinality(T \ {x}) = Cardinality(T) - 1 /\ Cardinality(T \ {x}) \in Nat
BY FS_RemoveElement, FS_CardinalityType, Zenon

\* It is an element of the set.
LEMMA NextIn == ASSUME NEW T, T # {} PROVE Pick(T) \in T
BY Zenon DEF Pick

\* A claim about all finite subsets that is wrong is wrong for a smallest one.
Minimal(T, Good) == T \notin Good /\ \A x \in T : \A R \in SUBSET (T \ {x}) : R \in Good

\* For a smallest such set the claim holds without the next element.
LEMMA MinimalRest ==
  ASSUME NEW T, NEW Good, Minimal(T, Good), T # {}
  PROVE  Pick(T) \in T /\ T \ {Pick(T)} \in Good
BY NextIn, Zenon DEF Minimal

\* There is a smallest one, since sizes are numbers.
LEMMA Smallest ==
  ASSUME NEW S, IsFiniteSet(S), NEW Good, NEW T0 \in SUBSET S, T0 \notin Good
  PROVE  \E T \in SUBSET S : Minimal(T, Good)
<1> DEFINE Sizes == {Cardinality(T) : T \in {R \in SUBSET S : R \notin Good}}
<1>1. \A T \in SUBSET S : IsFiniteSet(T) /\ Cardinality(T) \in Nat
  BY FS_Subset, FS_CardinalityType, Zenon
<1>2. Sizes \subseteq Nat /\ Sizes # {}
  BY <1>1, Zenon
<1>3. PICK m \in Sizes : \A i \in Sizes : m <= i
  <2> HIDE DEF Sizes
  <2> QED BY <1>2, Least, Zenon
<1>4. PICK T \in SUBSET S : T \notin Good /\ Cardinality(T) = m
  BY <1>3, Zenon
<1>5. ASSUME NEW x \in T, NEW R \in SUBSET (T \ {x}), R \notin Good PROVE FALSE
  <2>1. R \in SUBSET S /\ IsFiniteSet(T \ {x})
    BY <1>1, Zenon
  <2>2. Cardinality(R) \in Sizes
    BY <1>5, <2>1, Zenon
  <2>3. m <= Cardinality(R)
    BY <1>3, <2>2, Zenon
  <2>4. Cardinality(R) <= Cardinality(T \ {x})
    BY <2>1, FS_Subset, Zenon
  <2>5. /\ Cardinality(T \ {x}) = Cardinality(T) - 1 /\ Cardinality(T) \in Nat
        /\ Cardinality(R) \in Nat
    BY <1>1, <2>1, OneLess, Zenon
  <2> QED BY <1>4, <2>3, <2>4, <2>5
<1>6. Minimal(T, Good)
  BY <1>4, <1>5, Zenon DEF Minimal
<1> QED BY <1>6, Zenon

\* The equation of the recursive function that MapThenSumSet uses.
SumEq(f, S, g) == g = [T \in SUBSET S |-> SumOf(f, g, T)]

\* MapThenSumSet is the function with that equation, at S.
LEMMA SumIs == ASSUME NEW f, NEW S PROVE Sum(f, S) = (CHOOSE g : SumEq(f, S, g))[S]
BY Zenon DEF Sum, MapThenSumSet, MapThenFoldSet, SumEq, SumOf, Pick

\* There is a function that gives the sums of the subsets with at most n elements.
LEMMA SumsUpTo ==
  ASSUME NEW S, IsFiniteSet(S), NEW f
  PROVE  \A n \in Nat : \E g : Sums(f, S, n, g)
<1> DEFINE Bad == {n \in Nat : ~ \E g : Sums(f, S, n, g)}
<1> SUFFICES ASSUME Bad # {} PROVE FALSE
  BY Zenon
<1>1. \A T \in SUBSET S : IsFiniteSet(T) /\ Cardinality(T) \in Nat
  BY FS_Subset, FS_CardinalityType, Zenon
<1>2. PICK n \in Bad : \A i \in Bad : n <= i
  <2>1. Bad \subseteq Nat
    BY Zenon
  <2> HIDE DEF Bad
  <2> QED BY <2>1, Least, Zenon
<1>3. CASE n = 0
  <2> DEFINE g == [T \in SUBSET S |-> 0]
  <2>1. ASSUME NEW T \in SUBSET S, Cardinality(T) <= 0 PROVE g[T] = SumOf(f, g, T)
    <3>1. Cardinality(T) = 0
      BY <1>1, <2>1
    <3>2. T = {}
      BY <1>1, <3>1, FS_EmptySet, Zenon
    <3> QED BY <3>2, Zenon DEF SumOf
  <2> QED BY <1>2, <1>3, <2>1, Zenon DEF Sums
<1>4. CASE n # 0
  <2>1. n \in Nat /\ n - 1 \in Nat /\ ~(n <= n - 1)
    BY <1>2, <1>4
  <2>2. n - 1 \notin Bad
    BY <1>2, <2>1, Zenon
  <2>3. PICK g : Sums(f, S, n - 1, g)
    BY <2>1, <2>2, Zenon
  <2> DEFINE h == [T \in SUBSET S |-> IF Cardinality(T) = n THEN SumOf(f, g, T) ELSE g[T]]
  <2>4. ASSUME NEW T \in SUBSET S, Cardinality(T) <= n PROVE h[T] = SumOf(f, h, T)
    <3>1. CASE T = {}
      <4>1. Cardinality(T) = 0 /\ Cardinality(T) # n /\ Cardinality(T) <= n - 1
        BY <1>4, <2>1, <3>1, FS_EmptySet
      <4>2. g[T] = SumOf(f, g, T)
        BY <2>3, <4>1, Zenon DEF Sums
      <4> QED BY <3>1, <4>1, <4>2, Zenon DEF SumOf
    <3>2. CASE T # {}
      <4> DEFINE rest == T \ {Pick(T)}
      <4>1. /\ Pick(T) \in T /\ rest \in SUBSET S
            /\ Cardinality(rest) = Cardinality(T) - 1 /\ Cardinality(T) \in Nat
        BY <1>1, <3>2, NextIn, OneLess, Zenon
      <4> HIDE DEF rest
      <4>2. Cardinality(rest) # n
        BY <2>1, <2>4, <4>1
      <4>3. h[rest] = g[rest]
        BY <4>1, <4>2, Zenon
      <4>4. SumOf(f, h, T) = SumOf(f, g, T)
        BY <3>2, <4>3, Zenon DEF SumOf, rest
      <4>5. CASE Cardinality(T) = n
        BY <4>4, <4>5, Zenon
      <4>6. CASE Cardinality(T) # n
        <5>1. Cardinality(T) <= n - 1
          BY <2>1, <2>4, <4>1, <4>6
        <5>2. g[T] = SumOf(f, g, T)
          BY <2>3, <5>1, Zenon DEF Sums
        <5> QED BY <4>4, <4>6, <5>2, Zenon
      <4> QED BY <4>5, <4>6, Zenon
    <3> QED BY <3>1, <3>2, Zenon
  <2>5. Sums(f, S, n, h)
    <3> HIDE DEF h
    <3> QED BY <2>4, Zenon DEF Sums
  <2> QED BY <1>2, <2>5, Zenon
<1> QED BY <1>3, <1>4, Zenon

\* There is a function that gives the sums of all subsets of a finite set.
LEMMA SumExists ==
  ASSUME NEW S, IsFiniteSet(S), NEW f
  PROVE  SumEq(f, S, CHOOSE g : SumEq(f, S, g))
<1>1. Cardinality(S) \in Nat /\ \A T \in SUBSET S : Cardinality(T) <= Cardinality(S)
  BY FS_Subset, FS_CardinalityType, Zenon
<1>2. PICK g : Sums(f, S, Cardinality(S), g)
  BY <1>1, SumsUpTo, Zenon
<1> DEFINE h == [T \in SUBSET S |-> g[T]]
<1>3. \A T \in SUBSET S : SumOf(f, g, T) = SumOf(f, h, T) /\ g[T] = SumOf(f, g, T)
  <2>1. \A T \in SUBSET S : T \ {Pick(T)} \in SUBSET S
    BY Zenon
  <2>2. \A T \in SUBSET S : h[T \ {Pick(T)}] = g[T \ {Pick(T)}]
    BY <2>1, Zenon
  <2> HIDE DEF h
  <2> QED BY <1>1, <1>2, <2>2, Zenon DEF Sums, SumOf
<1>4. h = [T \in SUBSET S |-> SumOf(f, h, T)]
  BY <1>3, Zenon
<1>5. \E k : SumEq(f, S, k)
  <2> HIDE DEF h
  <2> QED BY <1>4, Zenon DEF SumEq
<1> QED BY <1>5, Zenon

\* Two such functions agree where they sum the same values.
LEMMA SumUnique ==
  ASSUME NEW S, IsFiniteSet(S), NEW R \in SUBSET S, NEW f, NEW h, NEW g, NEW k,
         SumEq(f, S, g), SumEq(h, R, k), \A x \in R : f[x] = h[x]
  PROVE  g[R] = k[R]
<1> DEFINE Good == {T \in SUBSET R : g[T] = k[T]}
<1> SUFFICES ASSUME R \notin Good PROVE FALSE
  BY Zenon
<1>1. IsFiniteSet(R)
  BY FS_Subset, Zenon
<1>2. PICK T \in SUBSET R : Minimal(T, Good)
  <2>1. R \in SUBSET R
    BY Zenon
  <2> HIDE DEF Good
  <2> QED BY <1>1, <2>1, Smallest, Zenon
<1>3. g[T] = SumOf(f, g, T) /\ k[T] = SumOf(h, k, T)
  BY Zenon DEF SumEq
<1>4. T # {}
  BY <1>2, <1>3, Zenon DEF SumOf, Minimal
<1>5. Pick(T) \in T /\ T \ {Pick(T)} \in Good
  BY <1>2, <1>4, NextIn, Zenon DEF Minimal
<1>6. SumOf(f, g, T) = SumOf(h, k, T)
  BY <1>4, <1>5, Zenon DEF SumOf
<1> QED BY <1>2, <1>3, <1>6, Zenon DEF Minimal

\* Sums of numbers are numbers.
LEMMA SumNat ==
  ASSUME NEW S, IsFiniteSet(S), NEW f, NEW g, SumEq(f, S, g), \A x \in S : f[x] \in Nat
  PROVE  \A T \in SUBSET S : g[T] \in Nat
<1> DEFINE Good == {T \in SUBSET S : g[T] \in Nat}
<1> SUFFICES ASSUME NEW T0 \in SUBSET S, T0 \notin Good PROVE FALSE
  BY Zenon
<1>1. PICK T \in SUBSET S : Minimal(T, Good)
  <2> HIDE DEF Good
  <2> QED BY Smallest, Zenon
<1>2. g[T] = SumOf(f, g, T)
  BY Zenon DEF SumEq
<1>3. CASE T = {}
  <2>1. g[T] = 0
    BY <1>2, <1>3, Zenon DEF SumOf
  <2>2. g[T] \in Nat
    BY <2>1
  <2> QED BY <1>1, <2>2, Zenon DEF Minimal
<1>4. CASE T # {}
  <2>a. Pick(T) \in T /\ T \ {Pick(T)} \in Good
    <3> HIDE DEF Good
    <3> QED BY <1>1, <1>4, MinimalRest, Zenon
  <2>1. g[T \ {Pick(T)}] \in Nat /\ f[Pick(T)] \in Nat
    BY <2>a, Zenon
  <2>2. g[T] = f[Pick(T)] + g[T \ {Pick(T)}]
    BY <1>2, <1>4, Zenon DEF SumOf
  <2>3. g[T] \in Nat
    BY <2>1, <2>2
  <2> QED BY <1>1, <2>3, Zenon DEF Minimal
<1> QED BY <1>3, <1>4, Zenon

\* Any element may be added last.
AnyLast(f, S, g) == \A T \in SUBSET S : \A x \in T : g[T] = f[x] + g[T \ {x}]

\* The sum is the same whichever element is taken last.
LEMMA SumAny ==
  ASSUME NEW S, IsFiniteSet(S), NEW f, NEW g, SumEq(f, S, g), \A x \in S : f[x] \in Nat
  PROVE  AnyLast(f, S, g)
<1> DEFINE Good == {T \in SUBSET S : \A x \in T : g[T] = f[x] + g[T \ {x}]}
<1> SUFFICES ASSUME NEW T0 \in SUBSET S, T0 \notin Good PROVE FALSE
  BY Zenon DEF AnyLast
<1>1. PICK T \in SUBSET S : Minimal(T, Good)
  <2> HIDE DEF Good
  <2> QED BY Smallest, Zenon
<1>2. PICK x \in T : g[T] # f[x] + g[T \ {x}]
  BY <1>1, Zenon DEF Minimal
<1> DEFINE c == Pick(T)
           rest == (T \ {c}) \ {x}
<1>3. c \in T /\ g[T] = f[c] + g[T \ {c}]
  <2>1. T # {} /\ g[T] = SumOf(f, g, T)
    BY <1>2, Zenon DEF SumEq
  <2> QED BY <2>1, NextIn, Zenon DEF SumOf
<1> HIDE DEF c
<1>4. c # x
  BY <1>2, <1>3, Zenon
<1>5. T \ {c} \in Good /\ T \ {x} \in Good /\ x \in T \ {c} /\ c \in T \ {x}
  BY <1>1, <1>2, <1>3, <1>4, Zenon DEF Minimal
<1>6. (T \ {x}) \ {c} = rest
  BY Zenon
<1>7. g[T \ {c}] = f[x] + g[rest] /\ g[T \ {x}] = f[c] + g[rest]
  BY <1>5, <1>6, Zenon
<1>8. f[x] \in Nat /\ f[c] \in Nat /\ g[rest] \in Nat
  BY <1>2, <1>3, SumNat, Zenon
<1> HIDE DEF rest
<1> QED BY <1>2, <1>3, <1>7, <1>8

\* The sum over the empty set.
LEMMA SumEmpty == ASSUME NEW f PROVE Sum(f, {}) = 0
<1>1. SumEq(f, {}, CHOOSE g : SumEq(f, {}, g))
  BY SumExists, FS_EmptySet, Zenon
<1> QED BY <1>1, SumIs, Zenon DEF SumEq, SumOf

\* One more element adds its value.
LEMMA SumAdd ==
  ASSUME NEW S, IsFiniteSet(S), NEW x, x \notin S, NEW f, \A y \in S \union {x} : f[y] \in Nat
  PROVE  /\ Sum(f, S \union {x}) = Sum(f, S) + f[x]
         /\ Sum(f, S) \in Nat /\ IsFiniteSet(S \union {x})
<1> DEFINE U == S \union {x}
           g == CHOOSE g : SumEq(f, U, g)
           k == CHOOSE k : SumEq(f, S, k)
<1>1. IsFiniteSet(U)
  BY FS_AddElement, Zenon
<1>2. SumEq(f, U, g) /\ SumEq(f, S, k)
  BY <1>1, SumExists, Zenon
<1>3. Sum(f, U) = g[U] /\ Sum(f, S) = k[S]
  BY SumIs, Zenon
<1>4. S \in SUBSET U /\ U \in SUBSET U /\ x \in U /\ U \ {x} = S
  BY Zenon
<1> HIDE DEF U, g, k
<1>5. g[S] = k[S]
  BY <1>1, <1>2, <1>4, SumUnique
<1>6. g[U] = f[x] + g[S] /\ g[S] \in Nat /\ f[x] \in Nat
  <2>1. \A y \in U : f[y] \in Nat
    BY Zenon DEF U
  <2>2. AnyLast(f, U, g)
    BY <1>1, <1>2, <2>1, SumAny, Zenon
  <2>3. \A T \in SUBSET U : g[T] \in Nat
    BY <1>1, <1>2, <2>1, SumNat, Zenon
  <2> QED BY <1>4, <2>1, <2>2, <2>3, Zenon DEF AnyLast
<1>7. g[U] = g[S] + f[x]
  BY <1>6
<1> QED BY <1>1, <1>3, <1>5, <1>6, <1>7, Zenon DEF U

\* A sum depends only on the values of the elements.
LEMMA SumSame ==
  ASSUME NEW S, IsFiniteSet(S), NEW f, NEW h, \A x \in S : f[x] = h[x]
  PROVE  Sum(f, S) = Sum(h, S)
<1> DEFINE g == CHOOSE g : SumEq(f, S, g)
           k == CHOOSE k : SumEq(h, S, k)
<1>1. SumEq(f, S, g) /\ SumEq(h, S, k)
  BY SumExists, Zenon
<1>2. Sum(f, S) = g[S] /\ Sum(h, S) = k[S]
  BY SumIs, Zenon
<1> HIDE DEF g, k
<1>3. S \in SUBSET S
  BY Zenon
<1> QED BY <1>1, <1>2, <1>3, SumUnique

\* The laws of finite sets and of Sum.
LEMMA LawsHold == Laws
<1>1. IsFiniteSet({}) /\ \A n \in Nat : IsFiniteSet(1 .. n)
  BY FS_EmptySet, FS_Interval
<1>2. \A S \in SUBSET Users : IsFiniteSet(S)
  BY FS_Subset, CheckerAssumption, Zenon
<1>3. \A S, x : IsFiniteSet(S) /\ x \in S =>
        Cardinality(S) \in Nat /\ Cardinality(S \ {x}) = Cardinality(S) - 1
  BY OneLess, Zenon
<1>4. \A f : Sum(f, {}) = 0
  BY SumEmpty, Zenon
<1>5. \A f, S, x : IsFiniteSet(S) /\ x \notin S /\ (\A y \in S \union {x} : f[y] \in Nat) =>
        Sum(f, S \union {x}) = Sum(f, S) + f[x] /\ Sum(f, S) \in Nat
  BY SumAdd, Zenon
<1>6. \A f, h, S : IsFiniteSet(S) /\ (\A x \in S : f[x] = h[x]) => Sum(f, S) = Sum(h, S)
  BY SumSame, Zenon
<1>7. \A S : IsFiniteSet(S) => Cardinality(S) \in Nat
  BY FS_CardinalityType, Zenon
<1> QED BY <1>1, <1>2, <1>3, <1>4, <1>5, <1>6, <1>7, Zenon DEF Laws

-----------------------------------------------------------------------------
(* The results. *)

\* Base and Search hold throughout.
LEMMA SearchInvariant == Spec => [](Base /\ Search)
<1>1. Init => Base /\ Search
  BY BaseInit, SearchInit, Zenon
<1>2. Base /\ Search /\ [Next]_vars => (Base /\ Search)'
  BY BaseNext, SearchNext, RelatedTypes, Zenon
<1> QED BY <1>1, <1>2, PTL DEF Spec

\* NoRepeatedCall: no related user is looked up by two pending calls of GetRelatedTokenFlow,
\* for any relations, so the recursion over a cycle of relations ends.
THEOREM NoCallRepeated == Spec => []NoRepeatedCall
<1>1. Search => NoRepeatedCall
  BY Zenon DEF Search, NoRepeatedCall
<1> QED BY <1>1, SearchInvariant, PTL

\* TypeOK: the types of the variables, for all flows and relations.
THEOREM TypeCorrect == Spec => []TypeOK
<1>1. ASSUME Base PROVE TypeOK
  <2>1. /\ since \in [Users -> [Users -> Nat]] /\ todo \subseteq DOMAIN flows
        /\ user # NoUser => user \notin todo /\ index \in 1 .. Len(List) \union {1}
        /\ stack # <<>> => stack[1].user = user
        /\ used \subseteq Users \ Common
    BY <1>1, Zenon DEF Base
  <2>2. user \in Users \union {NoUser}
    BY <1>1, CheckerAssumption, Zenon DEF Base
  <2>3. \A i \in DOMAIN stack : /\ stack[i].user \in Users
                                /\ {stack[i].deposit, stack[i].withdraw} \subseteq Nat
    BY <1>1, StackTypes, Zenon
  <2> QED BY <2>1, <2>2, <2>3, Zenon DEF TypeOK
<1> QED BY <1>1, SearchInvariant, PTL

\* Base, Search, Totalled and Flagged hold throughout.
LEMMA TotalsInvariant == Spec => [](Base /\ Search /\ Totalled /\ Flagged)
<1>1. Init => Totalled /\ Flagged
  BY TotalledInit, Zenon
<1>2. Base /\ Search /\ Totalled /\ Flagged /\ [Next]_vars => (Totalled /\ Flagged)'
  BY TotalledNext, FlaggedNext, RelatedTypes, LawsHold, Zenon
<1> QED BY <1>1, <1>2, SearchInvariant, PTL DEF Spec

\* RelatedFlowsSummed: in whatever order the maps are iterated, for every relation, the
\* totals of an entry are the user's own plus, once each, those of every user reachable
\* through relations that existed by that block.
THEOREM FlowsSummed == Spec => []RelatedFlowsSummed
<1>1. Base /\ Search /\ Totalled => RelatedFlowsSummed
  BY SearchedSum, LawsHold, Zenon DEF RelatedFlowsSummed
<1> QED BY <1>1, TotalsInvariant, PTL

\* NoLeakMissed: for all flows and relations, CheckAttack reports every user who, with the
\* related users, has withdrawn three times the deposits at some entry, unless one of them
\* has an unsupported token.
THEOREM LeaksReported == Spec => []NoLeakMissed
<1>1. Init => Reported
  BY Zenon DEF Init, Reported
<1>2. Base /\ Search /\ Totalled /\ Flagged /\ Reported /\ [Next]_vars => Reported'
  BY ReportedNext, RelatedTypes, LawsHold, Zenon
<1>3. ASSUME Base, Reported PROVE NoLeakMissed
  <2>1. \A u \in DOMAIN flows : u # NoUser
    BY <1>3, CheckerAssumption, Zenon DEF Base
  <2> SUFFICES ASSUME command = "CheckAttack", user = NoUser,
                      NEW u \in DOMAIN flows \ todo, Checked(u),
                      NEW i \in 2 .. Len(FlowList(u, TokenToCheck(u))), Leaks(u, i)
               PROVE  \E r \in records : r.user = u
    BY Zenon DEF NoLeakMissed, Leaks
  <2>2. Done(u, i)
    BY <2>1, Zenon DEF Done
  <2> QED BY <1>3, <2>2, Zenon DEF Reported
<1> QED BY <1>1, <1>2, <1>3, TotalsInvariant, PTL DEF Spec

\* MakesProgress: every step of a command brings it closer to its end, whatever the flows
\* and relations, so neither the recursion nor the command can go on forever.
THEOREM Progress == Spec => MakesProgress
<1>1. ASSUME Base, Next PROVE LexLess(ToDo', ToDo)
  BY <1>1, RelatedTypes, LawsHold, ProgressStart, ProgressMark, ProgressReturn, ProgressNextFlow, ProgressEnds, ProgressLeave,
     Zenon DEF Next
<1>2. Base /\ [Next]_vars => [LexLess(ToDo', ToDo)]_vars
  BY <1>1, Zenon
<1>3. Base => NaturalToDo
  BY CountedToDo, LawsHold, Zenon
<1> QED BY <1>2, <1>3, SearchInvariant, PTL DEF Spec, MakesProgress
=============================================================================
