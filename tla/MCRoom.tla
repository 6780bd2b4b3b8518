------------------------------- MODULE MCRoom -------------------------------
(***************************************************************************)
(* The room against an environment that sends at most MaxFrames frames in  *)
(* all, with sequence numbers up to MaxSequence.  Nobody reads `down`, so  *)
(* down[s] is the log of everything the room ever told socket s.           *)
(***************************************************************************)
EXTENDS RoomLedger

CONSTANTS s1, s2, c1, c2, a1, a2, b1, t1, i1, MaxFrames, MaxSequence

VARIABLE sent
mcVars == <<roomVars, sent>>

MCSessionOf == [c \in Commands |-> IF c = b1 THEN c2 ELSE c1]

\* b1 deletes the element that a2 and the text t1 are about.
MCConflicts == [p \in Proposals |-> IF p \in {a2, t1} THEN {b1} \cap Commands ELSE {}]

SmallFrames ==
  [kind : {"syncRequest"}, have : {{}}]
    \cup [kind : {"syncResponse"}, update : {TextOps} \cup {{}}]
    \cup {[kind |-> "text", id |-> t, update |-> {TextOp(t)}] : t \in Texts}
    \cup [kind : {"initialize"}, id : Initials]
    \cup [kind : {"commands"}, id : Commands, sequence : 1..MaxSequence]
    \cup [kind : {"malformed"}]

MCInit == RoomInit /\ sent = 0
MCSend ==
  /\ sent < MaxFrames
  /\ sent' = sent + 1
  /\ \E s \in Sockets, frame \in SmallFrames : ClientSends(s, frame)
MCNext ==
  \/ MCSend
  \/ /\ RoomNext \/ \E s \in Sockets : Connect(s)
     /\ UNCHANGED sent
MCSpec == MCInit /\ [][MCNext]_mcVars
=============================================================================
