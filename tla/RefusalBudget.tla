---------------------------- MODULE RefusalBudget ----------------------------
(***************************************************************************)
(* RoomRefusalBudget: how many business refusals a room answers.  A socket *)
(* has a budget of its own, one proposal a smaller one, and the room a     *)
(* bucket of tokens refilled with time.  The refill is lazy: it is done    *)
(* when the budget is asked, from the clock at the last time it was.       *)
(*                                                                         *)
(* A token is RefillTime units of credit, so the fractional refill is an   *)
(* addition; `since` is the clock's reading less the last refill's.        *)
(***************************************************************************)
EXTENDS Integers

CONSTANTS
  Sockets,              \* WebSocket objects of the room
  ProposalIds,
  MaxProposalRefusals,  \* MAX_PROPOSAL_REFUSALS
  MaxSocketRefusals,    \* MAX_SOCKET_REFUSALS
  RoomTokens,           \* ROOM_REFUSAL_TOKENS
  RefillTime,           \* TOKEN_REFILL_MS
  MaxSetback            \* how far the clock may be set back

ASSUME BudgetAssumption ==
  /\ MaxProposalRefusals \in Nat
  /\ MaxSocketRefusals \in Nat
  /\ RoomTokens \in Nat
  /\ RefillTime \in Nat \ {0}
  /\ MaxSetback \in Nat

VARIABLES
  credit,     \* #tokens, in units of RefillTime to a token
  since,      \* Date.now() - #lastRefill
  total,      \* per socket: SocketBudget.total
  proposals,  \* per socket: SocketBudget.proposals
  poured      \* auxiliary: a bucket that leaks as time really passes

bucketVars == <<credit, since, poured>>
budgetVars == <<bucketVars, total, proposals>>

Full == RoomTokens * RefillTime
AtMost(bound, n) == IF n < bound THEN n ELSE bound
AtLeast(bound, n) == IF n > bound THEN n ELSE bound

NewBudget == [p \in ProposalIds |-> 0]

BudgetInit ==
  /\ credit = Full
  /\ since = 0
  /\ total = [s \in Sockets |-> 0]
  /\ proposals = [s \in Sockets |-> NewBudget]
  /\ poured = 0

RefilledUncapped == credit + AtLeast(0, since)  \* mutant: a refill overfills

Refilled == AtMost(Full, credit + AtLeast(0, since))

Exhausted(s, p) ==
  total[s] >= MaxSocketRefusals \/ proposals[s][p] >= MaxProposalRefusals

\* allow() is true.
Allowed(s, p) ==
  /\ Refilled >= RefillTime
  /\ ~Exhausted(s, p)
  /\ credit' = Refilled - RefillTime
  /\ since' = 0
  /\ total' = [total EXCEPT ![s] = @ + 1]
  /\ proposals' = [proposals EXCEPT ![s][p] = @ + 1]
  /\ poured' = poured + RefillTime

\* allow() is false: the bucket has been refilled all the same.
Denied(s, p) ==
  /\ Refilled < RefillTime \/ Exhausted(s, p)
  /\ credit' = Refilled
  /\ since' = 0
  /\ UNCHANGED <<total, proposals, poured>>

\* A WebSocket object the WeakMap does not know: a client connects again.
NewSocket(s) ==
  /\ total' = [total EXCEPT ![s] = 0]
  /\ proposals' = [proposals EXCEPT ![s] = NewBudget]
  /\ UNCHANGED bucketVars

\* The object is evicted from memory: its next instance has a new budget.
Restart ==
  /\ credit' = Full
  /\ since' = 0
  /\ total' = [s \in Sockets |-> 0]
  /\ proposals' = [s \in Sockets |-> NewBudget]
  /\ poured' = 0

\* Time passes.  A reading past a full refill changes nothing any more.
Passes ==
  /\ since' = AtMost(Full, since + 1)
  /\ poured' = AtLeast(0, poured - 1)
  /\ UNCHANGED <<credit, total, proposals>>

SetBack ==
  /\ since - 1 >= -MaxSetback
  /\ since' = since - 1
  /\ UNCHANGED <<credit, total, proposals, poured>>

BudgetNext ==
  \/ \E s \in Sockets, p \in ProposalIds : Allowed(s, p) \/ Denied(s, p)
  \/ \E s \in Sockets : NewSocket(s)
  \/ Restart
  \/ Passes
  \/ SetBack

BudgetSpec == BudgetInit /\ [][BudgetNext]_budgetVars

-----------------------------------------------------------------------------
\* The state space: no refill overfills, no refusal takes a token that is
\* not there, whatever the clock does.
BudgetTypeOK ==
  /\ credit \in 0..Full
  /\ since \in -MaxSetback..Full
  /\ total \in [Sockets -> 0..MaxSocketRefusals]
  /\ proposals \in [Sockets -> [ProposalIds -> 0..MaxProposalRefusals]]
  /\ poured \in Nat

Bucket == INSTANCE LeakyBucket WITH Size <- Full, Portion <- RefillTime, level <- poured

(* "The room bucket bounds reconnect churn": whatever sockets come and go,  *)
(* and although each has a budget of its own, the refusals of the lazily    *)
(* refilled tokens fit a bucket that leaks one refusal a RefillTime.        *)
ChurnIsBounded == Bucket!Spec
=============================================================================
