--------------------------- MODULE LeakingChecker ---------------------------
(***************************************************************************)
(* The leak checker of hunter/defi/check.go: RecordRate and CheckAttack,    *)
(* with the recursive search GetRelatedTokenFlow that adds the flows of a   *)
(* user's related users.  Its input is the UserTokenFlowMap that            *)
(* GenerateUserFlow (UserFlow.tla) makes of the deposits and withdrawals.   *)
(*                                                                          *)
(* All loops over Go maps (users, related users) run in any order.  The     *)
(* recursion is the variable stack; usedAddress, which all its calls share, *)
(* is the variable used.  An entry of a relation that the search skips      *)
(* stays skipped for the rest of the search (usedAddress only grows), so a  *)
(* call's loop is over when it has no candidate left.                       *)
(***************************************************************************)
EXTENDS Integers, Sequences, FiniteSetsExt

CONSTANTS
  Users,
  Common,          \* CommonAddressMap
  Managers,        \* the users with the role "manager" in RoleMap
  RelatedTokens,   \* the keys of RelatedToken
  FlowMaps,        \* the possible UserTokenFlowMaps: user -> token -> list of entries
  Relations,       \* the possible UserRelatedMaps
  Never,           \* no relation: a block after all others
  Dust,            \* 10^18
  Commands         \* of "RecordRate", "CheckAttack"

NoUser == "none"

\* an entry holds the running totals; a list is in the order of the blocks
TokenFlows == [block : Nat, tx : Nat, action : SUBSET {"deposit", "withdraw"},
               deposit : Nat, withdraw : Nat, balance : Nat]
InOrder(list) == \A i, j \in DOMAIN list : i <= j => list[i].block <= list[j].block

ASSUME CheckerAssumption ==
  /\ IsFiniteSet(Users) /\ NoUser \notin Users
  /\ \A m \in FlowMaps : /\ DOMAIN m \subseteq Users
                         /\ \A u \in DOMAIN m : \A token \in DOMAIN m[u] :
                              m[u][token] \in Seq(TokenFlows) /\ InOrder(m[u][token])
  /\ Relations \subseteq [Users -> [Users -> Nat]]
  /\ Commands \subseteq {"RecordRate", "CheckAttack"}

VARIABLES
  command,
  flows,        \* UserTokenFlowMap
  since,        \* UserRelatedMap: since[u][v] is the block since which v is related to u
  todo,         \* the users not checked yet
  user,         \* the user being checked
  index,        \* of the current entry of the user's flow list
  first,        \* firstDeposit
  lastBalance,
  unsupported,  \* existUnSupportToken
  stack,        \* the user's own totals, then the pending calls of GetRelatedTokenFlow
  used,         \* usedAddress
  records       \* TokenRateMap, or the attacks found

flowVars == <<index, first, lastBalance, unsupported>>
inputs == <<command, flows, since>>
vars == <<inputs, todo, user, flowVars, stack, used, records>>

-----------------------------------------------------------------------------
(* The flow of a single user.                                               *)

Origin == [block |-> 0, tx |-> 0]
KeyOf(flow) == [block |-> flow.block, tx |-> flow.tx]
Earlier(k, l) == k.block < l.block \/ (k.block = l.block /\ k.tx < l.tx)

HasFlow(u, token) == u \in DOMAIN flows /\ token \in DOMAIN flows[u]
FlowList(u, token) == IF HasFlow(u, token) THEN flows[u][token] ELSE <<>>

\* the single token if there is one, else all tokens grouped; the lists are in order, so
\* that sort.Sort changes nothing
TokenToCheck(u) == IF HasFlow(u, "0x6") THEN "0x6" ELSE "0x5"
List == FlowList(user, TokenToCheck(user))
ThisFlow == List[index]

\* GetRelatedTokenFlow returns at once with existUnSupportToken
Unsupported(u, token) ==
  \/ HasFlow(u, "0x7")
  \/ token = "0x6" /\ u \in DOMAIN flows /\ ~HasFlow(u, "0x6")

\* the loop of GetRelatedTokenFlow over the entries up to thisTokenFlow; firstDeposit
\* is set before the loop looks at the block
AddFlow(this, acc, flow) ==
  LET start == acc.first.block = 0 \/ (acc.balance < Dust /\ "deposit" \in flow.action)
      newFirst == IF start THEN KeyOf(flow) ELSE acc.first
  IN IF acc.over THEN acc
     ELSE IF Earlier(KeyOf(this), KeyOf(flow))
     THEN [acc EXCEPT !.first = newFirst, !.over = TRUE]
     ELSE [deposit |-> flow.deposit, withdraw |-> flow.withdraw, balance |-> flow.balance,
           first |-> newFirst, over |-> FALSE]

OwnFlow(list, this) ==
  LET none == [deposit |-> 0, withdraw |-> 0, balance |-> 0, first |-> Origin, over |-> FALSE]
      upTo[n \in 0 .. Len(list)] ==
        IF n <= 1 THEN none ELSE AddFlow(this, upTo[n - 1], list[n])
  IN upTo[Len(list)]

Frame(u, deposit, withdraw, firstDeposit) ==
  [user |-> u, deposit |-> deposit, withdraw |-> withdraw, first |-> firstDeposit]

RelatedFrame(u, token, this) ==
  LET own == OwnFlow(FlowList(u, token), this) IN Frame(u, own.deposit, own.withdraw, own.first)

\* what a caller does with the totals and the firstDeposit of a related user
Merge(frame, deposit, withdraw, firstDeposit) ==
  Frame(frame.user, frame.deposit + deposit, frame.withdraw + withdraw,
        IF Earlier(firstDeposit, frame.first) THEN firstDeposit ELSE frame.first)

-----------------------------------------------------------------------------
(* The search.                                                              *)

Init ==
  /\ command \in Commands /\ flows \in FlowMaps /\ since \in Relations
  /\ todo = DOMAIN flows
  /\ user = NoUser
  /\ index = 1 /\ first = Origin /\ lastBalance = 0 /\ unsupported = FALSE
  /\ stack = <<>>
  /\ used = {}
  /\ records = {}

Checked(u) ==
  /\ u \notin Common /\ ~HasFlow(u, "0x7")
  /\ command = "RecordRate" => u \notin Managers \union RelatedTokens

SkipUser(u) ==
  /\ user = NoUser /\ u \in todo /\ ~Checked(u)
  /\ todo' = todo \ {u}
  /\ UNCHANGED <<inputs, user, flowVars, stack, used, records>>

StartUser(u) ==
  /\ user = NoUser /\ u \in todo /\ Checked(u)
  /\ todo' = todo \ {u}
  /\ user' = u
  /\ UNCHANGED <<inputs, flowVars, stack, used, records>>

Settled == IF command = "RecordRate" THEN lastBalance = 0 ELSE lastBalance < Dust

\* the next entry of the list; only one with a withdrawal is looked at further
NextFlow ==
  /\ user # NoUser /\ stack = <<>> /\ index < Len(List)
  /\ LET flow == List[index + 1] IN
     /\ first' = IF first.block = 0 \/ (Settled /\ "deposit" \in flow.action)
                 THEN KeyOf(flow) ELSE first
     /\ stack' = IF "withdraw" \in flow.action
                 THEN <<Frame(user, flow.deposit, flow.withdraw, first')>> ELSE <<>>
  /\ index' = index + 1
  /\ UNCHANGED <<inputs, todo, user, lastBalance, unsupported, used, records>>

Eligible(u, v, block) == v \notin Common /\ since[u][v] <= block

Top == stack[Len(stack)]
Candidates ==
  {v \in Users : Eligible(Top.user, v, ThisFlow.block) /\ v \notin used}

Supported(v) == ~Unsupported(v, TokenToCheck(user))

\* faulty variant: usedAddress is updated when the call returns
VisitUnmarked(v) ==
  /\ stack # <<>> /\ v \in Candidates /\ Supported(v)
  /\ stack' = Append(stack, RelatedFrame(v, TokenToCheck(user), ThisFlow))
  /\ UNCHANGED <<inputs, todo, user, flowVars, used, records>>

\* faulty variant: the flow of the user who is checked is looked up
VisitOwnFlow(v) ==
  /\ stack # <<>> /\ v \in Candidates /\ Supported(v)
  /\ used' = used \union {v}
  /\ stack' = Append(stack, [RelatedFrame(user, TokenToCheck(user), ThisFlow) EXCEPT !.user = v])
  /\ UNCHANGED <<inputs, todo, user, flowVars, records>>

\* a related user is marked and its flow looked up
Visit(v) ==
  /\ stack # <<>> /\ v \in Candidates /\ Supported(v)
  /\ used' = used \union {v}
  /\ stack' = Append(stack, RelatedFrame(v, TokenToCheck(user), ThisFlow))
  /\ UNCHANGED <<inputs, todo, user, flowVars, records>>

\* inside GetRelatedTokenFlow the result existUnSupportTokenFlag is not looked at
VisitUnsupported(v) ==
  /\ Len(stack) > 1 /\ v \in Candidates /\ ~Supported(v)
  /\ used' = used \union {v}
  /\ stack' = [stack EXCEPT ![Len(stack)] = Merge(@, 0, 0, Origin)]
  /\ UNCHANGED <<inputs, todo, user, flowVars, records>>

\* the outermost loop stops at a related user with an unsupported token; this entry
\* and all later ones of the user are not recorded
BreakOff(v) ==
  /\ Len(stack) = 1 /\ v \in Candidates /\ ~Supported(v)
  /\ unsupported' = TRUE
  /\ first' = Origin
  /\ lastBalance' = ThisFlow.balance
  /\ stack' = <<>>
  /\ used' = {}
  /\ UNCHANGED <<inputs, todo, user, index, records>>

\* a call of GetRelatedTokenFlow returns to its caller
Return ==
  /\ Len(stack) > 1 /\ Candidates = {}
  /\ stack' = [SubSeq(stack, 1, Len(stack) - 1) EXCEPT ![Len(stack) - 1] =
                 Merge(@, Top.deposit, Top.withdraw, Top.first)]
  /\ UNCHANGED <<inputs, todo, user, flowVars, used, records>>

-----------------------------------------------------------------------------
(* What is done with the totals.                                            *)

IsSingleTx == KeyOf(ThisFlow) = stack[1].first

RateRecord ==
  [user |-> user, token |-> TokenToCheck(user), index |-> index,
   deposit |-> stack[1].deposit, withdraw |-> stack[1].withdraw,
   single |-> IsSingleTx, used |-> used]

\* faulty variant: a user who never deposited is not looked at
AbnormalRate(deposit, withdraw, single) ==
  deposit > 0 /\ IF single THEN 10000 * withdraw >= 10001 * deposit ELSE withdraw >= 3 * deposit

\* abnormalDetection: 1.0001 within one transaction, otherwise 3, or nothing deposited
Abnormal(deposit, withdraw, single) ==
  \/ deposit > 0 /\ single /\ 10000 * withdraw >= 10001 * deposit
  \/ deposit > 0 /\ ~single /\ withdraw >= 3 * deposit
  \/ deposit = 0 /\ withdraw > 0

IsAttack ==
  /\ command = "CheckAttack" /\ ~unsupported
  /\ Abnormal(stack[1].deposit, stack[1].withdraw, IsSingleTx)

Searched == Len(stack) = 1 /\ Candidates = {}

\* the entry is recorded (RecordRate), or found harmless (CheckAttack)
EndFlow ==
  /\ Searched /\ ~IsAttack
  /\ records' = IF command = "RecordRate" /\ ~unsupported
                THEN records \union {RateRecord} ELSE records
  /\ first' = stack[1].first
  /\ lastBalance' = ThisFlow.balance
  /\ stack' = <<>>
  /\ used' = {}
  /\ UNCHANGED <<inputs, todo, user, index, unsupported>>

\* faulty variant: the next user goes on with this one's index
LeaveUserIndex ==
  /\ user' = NoUser
  /\ index' = index /\ first' = Origin /\ lastBalance' = 0 /\ unsupported' = FALSE
  /\ stack' = <<>>
  /\ used' = {}

\* the local variables of the user's iteration go out of scope
LeaveUser ==
  /\ user' = NoUser
  /\ index' = 1 /\ first' = Origin /\ lastBalance' = 0 /\ unsupported' = FALSE
  /\ stack' = <<>>
  /\ used' = {}

\* CheckAttack stops at the first attack
FindAttack ==
  /\ Searched /\ IsAttack
  /\ records' = records \union {RateRecord}
  /\ LeaveUser
  /\ UNCHANGED <<inputs, todo>>

EndUser ==
  /\ user # NoUser /\ stack = <<>> /\ index >= Len(List)
  /\ LeaveUser
  /\ UNCHANGED <<inputs, todo, records>>

Next ==
  \/ \E u \in Users :
       \/ SkipUser(u) \/ StartUser(u) \/ Visit(u) \/ VisitUnsupported(u) \/ BreakOff(u)
  \/ NextFlow \/ Return \/ EndFlow \/ FindAttack \/ EndUser

Spec == Init /\ [][Next]_vars

-----------------------------------------------------------------------------

TypeOK ==
  /\ since \in [Users -> [Users -> Nat]]
  /\ todo \subseteq DOMAIN flows
  /\ user \in Users \union {NoUser}
  /\ user # NoUser => user \notin todo /\ index \in 1 .. Len(List) \union {1}
  /\ \A i \in DOMAIN stack : stack[i].user \in Users /\ {stack[i].deposit, stack[i].withdraw} \subseteq Nat
  /\ stack # <<>> => stack[1].user = user
  /\ used \subseteq Users \ Common

\* The recursion ends although relations may be cyclic: no related user is looked up
\* by two pending calls of GetRelatedTokenFlow.
NoRepeatedCall ==
  \A i, j \in 2 .. Len(stack) : stack[i].user = stack[j].user => i = j

\* The users reachable for an entry of u's list: through relations that existed by its
\* block, not to common addresses, not beyond users with an unsupported token.
Follows(u, v, w, token, block) ==
  Eligible(v, w, block) /\ (v = u \/ ~Unsupported(v, token))
RelatedUsers(u, token, block) ==
  {x \in Users : \A S \in SUBSET Users :
     (\A v \in S \union {u}, w \in Users : Follows(u, v, w, token, block) => w \in S) => x \in S}

\* what a related user adds to the totals at an entry: nothing with an unsupported token
RelatedFlow(v, token, this) ==
  IF Unsupported(v, token) THEN [deposit |-> 0, withdraw |-> 0]
  ELSE OwnFlow(FlowList(v, token), this)
Sum(f, S) == MapThenSumSet(LAMBDA x : f[x], S)

\* what the search should add up for entry i of u's list
SummedFlow(u, i) ==
  LET token == TokenToCheck(u)
      this == FlowList(u, token)[i]
      related == RelatedUsers(u, token, this.block)
  IN [related |-> related,
      deposit |-> this.deposit + Sum([v \in Users |-> RelatedFlow(v, token, this).deposit], related),
      withdraw |-> this.withdraw + Sum([v \in Users |-> RelatedFlow(v, token, this).withdraw], related)]

\* Whatever order the maps are iterated in, the totals that are recorded for an entry
\* are the user's own plus, once each, those of every user reachable through relations
\* that existed by that block, as they were at that entry; the shared usedAddress
\* neither cuts off a branch nor lets one be added twice.  (usedAddress does not hold
\* the user who is checked, so on a cycle the user is one of those users.)
RelatedFlowsSummed ==
  Searched /\ ~unsupported =>
    [related |-> used, deposit |-> stack[1].deposit, withdraw |-> stack[1].withdraw]
      = SummedFlow(user, index)

\* CheckAttack reports every user who, with the related users, has withdrawn three
\* times the deposits at some entry (and something at all), unless one of them has an
\* unsupported token.
NoLeakMissed ==
  command = "CheckAttack" /\ user = NoUser =>
    \A u \in {v \in DOMAIN flows \ todo : Checked(v)} :
      \A i \in 2 .. Len(FlowList(u, TokenToCheck(u))) :
        LET sum == SummedFlow(u, i) IN
        /\ "withdraw" \in FlowList(u, TokenToCheck(u))[i].action
        /\ sum.withdraw > 0 /\ sum.withdraw >= 3 * sum.deposit
        /\ \A v \in sum.related : ~Unsupported(v, TokenToCheck(u))
        => \E r \in records : r.user = u

\* "remove the cases with unSupportToken": nothing is recorded for a user if the search
\* meets a related user with an unsupported token.
UnsupportedRemoved ==
  \A r \in records : \A v \in r.used : ~Unsupported(v, r.token)

\* Every step brings the command closer to its end, for every relation: what is left,
\* users, entries of the list, the search itself, users to visit and pending calls, are
\* natural numbers that decrease lexicographically.  So the recursion ends, and so does
\* the command.
ToDo ==
  <<Cardinality(todo), IF user = NoUser THEN 0 ELSE 1,
    IF user = NoUser THEN 0 ELSE Len(List) + 1 - index,
    IF stack = <<>> THEN 0 ELSE 1, Cardinality(Users \ used), Len(stack)>>
LexLess(a, b) ==
  \E i \in DOMAIN a : a[i] < b[i] /\ \A j \in 1 .. i - 1 : a[j] = b[j]
NaturalToDo == \A i \in DOMAIN ToDo : ToDo[i] \in Nat
MakesProgress == [][NaturalToDo' /\ LexLess(ToDo', ToDo)]_vars
=============================================================================
