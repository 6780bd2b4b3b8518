------------------------------- MODULE Ledger -------------------------------
(***************************************************************************)
(* What a collaboration room promises, without sockets, memory, crashes,   *)
(* archives or alarms: a ledger that starts unborn, accepts one proposal   *)
(* at a time under the next commit number, takes the commands of each      *)
(* session in the order of their sequence numbers, and loses nothing.  The *)
(* one thing it may forget is how far each session went: an idle day frees *)
(* the receipts, and a restored room counts every session from 1 again.    *)
(***************************************************************************)
EXTENDS Naturals

CONSTANTS Sessions, Commands, Texts, Initials, SessionOf

VARIABLES
  doc,      \* the operations accepted so far
  commit,   \* how many proposals were accepted (0: the room is unborn)
  receipts  \* per session: the sequence of the last command accepted

ledgerVars == <<doc, commit, receipts>>

Entry(id, sequence, at) == [id |-> id, sequence |-> sequence, at |-> at]
Edits == {Entry(t, 0, 0) : t \in Texts}

Init ==
  /\ receipts = [c \in Sessions |-> 0]
  /\ \/ doc = {} /\ commit = 0
     \/ \E id \in Initials : doc = {Entry(id, 0, 1)} /\ commit = 1

Found(id) ==
  /\ commit = 0
  /\ doc' = {Entry(id, 0, 1)}
  /\ commit' = 1
  /\ UNCHANGED receipts

AcceptCommand(a) ==
  LET c == SessionOf[a] IN
  /\ commit > 0
  /\ doc' = doc \cup {Entry(a, receipts[c] + 1, commit + 1)}
  /\ commit' = commit + 1
  /\ receipts' = [receipts EXCEPT ![c] = @ + 1]

\* Text edits are proposed in batches; a batch the ledger holds is not a commit.
AcceptEdits(edits) ==
  /\ commit > 0
  /\ ~(edits \subseteq doc)
  /\ doc' = doc \cup edits
  /\ commit' = commit + 1
  /\ UNCHANGED receipts

\* The stored format is upgraded: a commit that changes nothing else.
Upgrade ==
  /\ commit > 0
  /\ commit' = commit + 1
  /\ UNCHANGED <<doc, receipts>>

ForgetReceipts ==
  /\ receipts' = [c \in Sessions |-> 0]
  /\ UNCHANGED <<doc, commit>>

Next ==
  \/ \E id \in Initials : Found(id)
  \/ \E a \in Commands : AcceptCommand(a)
  \/ \E edits \in SUBSET Edits : AcceptEdits(edits)
  \/ Upgrade
  \/ ForgetReceipts
Spec == Init /\ [][Next]_ledgerVars
=============================================================================
