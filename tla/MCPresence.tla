----------------------------- MODULE MCPresence -----------------------------
(***************************************************************************)
(* Two participants who have joined.  Either each is shown to the other,   *)
(* the replica of c1 has been replaced before, and two sockets are left to *)
(* reconnect with; or that replica may still be replaced, and one socket   *)
(* is left; or c2 has told nothing of itself yet, and none is.             *)
(***************************************************************************)
EXTENDS Presence

CONSTANTS c1, c2, s1, s2, s3, s4

MCSocketOf == [c \in Clients |-> IF c = c1 THEN s1 ELSE s2]
Joined(replica, told, spare) ==
  LET no == [c \in Clients |-> IF c \in told THEN 1 + replica[c] ELSE 0]
      first == [c \in Clients |->
                  {[by |-> c, as |-> replica[c], no |-> n] : n \in {no[c]} \ {0}}]
      attached == [c \in Clients |-> {OnSocket(MCSocketOf[c], p) : p \in first[c]}] IN
  /\ link = [s \in Sockets |-> IF s \in {s1, s2} THEN "open"
                               ELSE IF s \in spare THEN "unused" ELSE "closed"]
  /\ attachment = [s \in Sockets |->
                     UNION {attached[c] : c \in {c \in Clients : MCSocketOf[c] = s}}]
  /\ up = [s \in Sockets |-> <<>>]
  /\ down = [s \in Sockets |-> <<>>]
  /\ client = [c \in Clients |->
       [NewClient EXCEPT !.socket = MCSocketOf[c], !.connected = TRUE, !.replica = replica[c],
                         !.local = first[c], !.no = no[c],
                         !.shown = UNION {attached[d] : d \in Clients},
                         !.others = UNION {attached[d] : d \in Clients \ {c}}]]
JoinedInit ==
  LET replica(n) == [c \in Clients |-> IF c = c1 THEN n ELSE 0] IN
  \/ Joined(replica(1), Clients, {s3, s4})
  \/ Joined(replica(0), Clients, {s3})
  \/ Joined(replica(1), {c1}, {})
JoinedSpec == JoinedInit /\ [][PresenceNext]_vars
FairJoinedSpec == JoinedSpec /\ PresenceFairness
=============================================================================
