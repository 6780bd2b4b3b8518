----------------------------- MODULE MCSession -----------------------------
(***************************************************************************)
(* Small populations of sessions.  Each session dispatches its commands    *)
(* and types its texts once, in any order; the number of connections and   *)
(* of retries (MaxAttempts) bounds the rest.                               *)
(***************************************************************************)
EXTENDS Session

CONSTANTS s1, s2, s3, c1, c2, a1, a2, a3, a4, b1, t1, t2, u1, i1, i2

MCSessionOf == [a \in Commands |-> IF a = b1 THEN c2 ELSE c1]
MCOwnerOf == [t \in Texts |-> IF t = u1 THEN c2 ELSE c1]
MCInitialOf == [c \in Sessions |-> IF c = c2 /\ i2 \in Initials THEN i2 ELSE i1]

\* b1 deletes the element a2, t1 and u1 are about.
Deletion == [p \in Proposals |-> IF p \in {a2, t1, u1} THEN {b1} \cap Commands ELSE {}]
\* a1 breaks a rule of the document, whatever it holds.
Invalid == [p \in Proposals |-> IF p = a1 THEN Initials ELSE {}]
DeletionOrInvalid == [p \in Proposals |-> Deletion[p] \cup Invalid[p]]
Harmless == [p \in Proposals |-> {}]

\* Sessions connected and synchronized, each on a socket of its own, with a room that
\* was just initialized; the others are gone, with their sockets, commands and texts.
MCSocketOf == [c \in Sessions |-> IF c = c1 THEN s1 ELSE s2]
Joined(sessions, sockets, commands, texts) ==
  LET opened == [doc |-> {CommandOp(i1, 0, 1)}, commit |-> 1] IN
  /\ link = [s \in Sockets |-> IF \E c \in sessions : MCSocketOf[c] = s THEN "open"
                               ELSE IF s \in sockets THEN "unused" ELSE "closed"]
  /\ up = [s \in Sockets |-> <<>>]
  /\ down = [s \in Sockets |-> <<>>]
  /\ instance = "live" /\ purged = FALSE /\ legacy = FALSE /\ alarm = TRUE
  /\ memory = opened
  /\ refusals = [s \in Sockets |-> 0]
  /\ job = NoJob /\ retiring = "none"
  /\ storage = [doc |-> opened.doc, commit |-> 1, receipts |-> NoReceipts]
  /\ archive = EmptyRoom
  /\ published = {opened}
  /\ session = [c \in Sessions |->
       IF c \in sessions
       THEN [NewSession EXCEPT !.socket = MCSocketOf[c], !.connected = TRUE, !.doc = opened.doc,
                               !.initialized = TRUE, !.ready = TRUE]
       ELSE [NewSession EXCEPT !.end = "destroyed"]]
  /\ decision = [a \in Commands |-> IF a \in commands THEN "none" ELSE "closed"]
  /\ fate = [t \in Texts |-> IF t \in texts THEN "none" ELSE "abandoned"]
JoinedInit == Joined(Sessions, Sockets, Commands, Texts)
JoinedSpec == JoinedInit /\ [][CollabNext]_vars
JoinedFairSpec == JoinedSpec /\ CollabFairness

\* Three populations in one run: a text, and a command about its target, while somebody
\* else deletes it; several commands of one session, the first of them refused; commands
\* alone, all acceptable, that cross a lost connection.
SeveralInit ==
  \/ Joined({c1, c2}, {s1, s2, s3}, {b1, a2}, {t1})
  \/ Joined({c1}, {s1}, {a1, a2, a3}, {t1})
  \/ Joined({c1}, {s1, s2}, {a2, a3, a4}, {})
SeveralSpec == SeveralInit /\ [][CollabNext]_vars
=============================================================================
