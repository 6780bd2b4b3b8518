------------------------------ MODULE Presence ------------------------------
(***************************************************************************)
(* Who is shown to whom: SessionPresence of each participant's session,    *)
(* the presences the room keeps with its sockets, and the lists it sends.  *)
(*                                                                         *)
(* The room holds nothing of this in memory: a presence is attached to the *)
(* socket it came on, and a list is put together from the sockets that are *)
(* there.  A socket whose client has left or lost it stays among them      *)
(* until the room is told, also when its client is back on another one.    *)
(*                                                                         *)
(* A presence is its author, the replica whose clientID it carries and its *)
(* number among the author's; names, pointers and selections are left out. *)
(***************************************************************************)
EXTENDS Naturals, FiniteSets, Sequences

CONSTANTS
  Clients,
  Sockets,
  MaxUpdates,   \* bound: presences a participant sets
  Replacing,    \* the participants whose sessions replace their replica, once
  MaxFrames     \* bound: frames on their way to a client

NoSocket == "none"

ASSUME PresenceAssumption ==
  /\ NoSocket \notin Sockets
  /\ Replacing \subseteq Clients
  /\ MaxUpdates \in Nat /\ MaxFrames \in Nat

VARIABLES
  link,        \* per socket: "unused", "accepted", "open", "left" or "closed"
  attachment,  \* per socket: the presence attached to it, if any, as a set
  up, down,    \* frames on their way to the room, and to the client
  client       \* per participant: the state of its session

vars == <<link, attachment, up, down, client>>

NewClient ==
  [socket |-> NoSocket, connected |-> FALSE,
   starting |-> FALSE,        \* the synchronization has not started since
   ended |-> FALSE,
   local |-> {}, no |-> 0,    \* SessionPresence.#local, if set
   timer |-> FALSE,
   replica |-> 0,             \* which clientID the document has
   mounting |-> FALSE,        \* the workspace waits for the new replica
   shown |-> {},              \* SessionPresence.#participants
   others |-> {}]             \* CollaborationAwareness.participants

Init ==
  /\ link = [s \in Sockets |-> "unused"]
  /\ attachment = [s \in Sockets |-> {}]
  /\ up = [s \in Sockets |-> <<>>]
  /\ down = [s \in Sockets |-> <<>>]
  /\ client = [c \in Clients |-> NewClient]

-----------------------------------------------------------------------------
\* The room

Attached == {s \in Sockets : link[s] \in {"accepted", "open", "left"}}
\* What is sent on a socket its client has left is lost.
Reached == Attached \ {s \in Sockets : link[s] = "left"}
Fits == \A t \in Reached : Len(down[t]) < MaxFrames

Ready == [kind |-> "ready", participants |-> {}]
\* roomPresence
RoomPresence(held, sockets) ==
  [kind |-> "presence", participants |-> UNION {held[s] : s \in sockets}]

\* The rest of fetch, after the alarm is set.
Greet(s) ==
  /\ link[s] = "accepted"
  /\ link' = [link EXCEPT ![s] = "open"]
  /\ down' = [down EXCEPT ![s] = @ \o <<Ready, RoomPresence(attachment, Attached)>>]
  /\ UNCHANGED <<attachment, up, client>>

\* Mutant: frames are handled without the chain, in any order.
StoreUnchained(s) ==
  /\ link[s] \in {"open", "left"} /\ Fits
  /\ \E i \in DOMAIN up[s] :
       /\ attachment' = [attachment EXCEPT ![s] = {up[s][i]}]
       /\ up' = [up EXCEPT ![s] = SubSeq(@, 1, i - 1) \o SubSeq(@, i + 1, Len(@))]
  /\ down' = [t \in Sockets |->
                IF t \in Reached THEN Append(down[t], RoomPresence(attachment', Attached))
                ELSE down[t]]
  /\ UNCHANGED <<link, client>>

\* A presence is attached to its socket and everybody is sent the new list.
StorePresence(s) ==
  /\ link[s] \in {"open", "left"} /\ up[s] # <<>> /\ Fits
  /\ attachment' = [attachment EXCEPT ![s] = {Head(up[s])}]
  /\ up' = [up EXCEPT ![s] = Tail(@)]
  /\ down' = [t \in Sockets |->
                IF t \in Reached THEN Append(down[t], RoomPresence(attachment', Attached))
                ELSE down[t]]
  /\ UNCHANGED <<link, client>>

\* Mutant: those who remain are sent the list of all.
CloseListsAll(s) ==
  /\ link[s] = "left" /\ Fits
  /\ link' = [link EXCEPT ![s] = "closed"]
  /\ attachment' = [attachment EXCEPT ![s] = {}]
  /\ up' = [up EXCEPT ![s] = <<>>]
  /\ down' = [t \in Sockets |->
                CASE t = s -> <<>>
                  [] t \in Reached -> Append(down[t], RoomPresence(attachment, Attached))
                  [] OTHER -> down[t]]
  /\ UNCHANGED client

\* webSocketClose: what is still queued of the socket is dropped.
Close(s) ==
  /\ link[s] = "left" /\ Fits
  /\ link' = [link EXCEPT ![s] = "closed"]
  /\ attachment' = [attachment EXCEPT ![s] = {}]
  /\ up' = [up EXCEPT ![s] = <<>>]
  /\ down' = [t \in Sockets |->
                CASE t = s -> <<>>
                  [] t \in Reached -> Append(down[t], RoomPresence(attachment, Attached \ {s}))
                  [] OTHER -> down[t]]
  /\ UNCHANGED client

\* The object is reset, and all sockets with it.
\* Bound: sockets are left for everybody to come back.
Present == {c \in Clients : ~client[c].ended}
Away == {c \in Present : client[c].socket = NoSocket}
Unused == {s \in Sockets : link[s] = "unused"}
Crash ==
  /\ Attached # {} /\ Cardinality(Unused) >= Cardinality(Present)
  /\ link' = [s \in Sockets |-> IF s \in Attached THEN "closed" ELSE link[s]]
  /\ attachment' = [s \in Sockets |-> {}]
  /\ up' = [s \in Sockets |-> <<>>]
  /\ down' = [s \in Sockets |-> <<>>]
  /\ UNCHANGED client

-----------------------------------------------------------------------------
\* The session

Become(c, x) == client' = [client EXCEPT ![c] = x]

\* The presence as it goes over the socket; `on` is auxiliary.
OnSocket(s, p) == [by |-> p.by, as |-> p.as, no |-> p.no, on |-> s]

\* SessionPresence.send: lost without a connection.
Send(c, x) ==
  /\ Become(c, [x EXCEPT !.timer = FALSE])
  /\ up' = IF x.connected /\ x.local # {} /\ link[x.socket] = "open"
           THEN [up EXCEPT ![x.socket] = Append(@, OnSocket(x.socket, CHOOSE p \in x.local : TRUE))]
           ELSE up
  /\ UNCHANGED <<link, attachment, down>>

\* No socket differs from another before it is used: any will do.
Open(c) ==
  /\ c \in Away /\ Unused # {}
  /\ LET s == CHOOSE s \in Unused : TRUE IN
       /\ link' = [link EXCEPT ![s] = "accepted"]
       /\ Become(c, [client[c] EXCEPT !.socket = s])
  /\ UNCHANGED <<attachment, up, down>>

\* Mutant: the synchronization forgets the presence.
StartSilently(c) ==
  /\ client[c].starting
  /\ Become(c, [client[c] EXCEPT !.starting = FALSE])
  /\ UNCHANGED <<link, attachment, up, down>>

\* synchronizer.start, at once or when the texts that come first are decided; it is
\* also how a session recovers from a conflict or a retry.
Start(c) ==
  /\ client[c].starting
  /\ Send(c, [client[c] EXCEPT !.starting = FALSE])
\* Bound: the room has been told everything before.
Restart(c) ==
  /\ client[c].connected /\ ~client[c].starting
  /\ \A s \in Sockets : up[s] = <<>> /\ down[s] = <<>>
  /\ Send(c, client[c])

\* Every replica has a document of its own, with a clientID of its own.
WithPresence(c) ==
  LET x == client[c] IN
  [x EXCEPT !.no = @ + 1, !.timer = TRUE, !.mounting = FALSE,
            !.local = {[by |-> c, as |-> x.replica, no |-> x.no + 1]}]
SetPresence(c) ==
  /\ ~client[c].ended /\ ~client[c].mounting
  /\ client[c].no < MaxUpdates + client[c].replica
  /\ Become(c, WithPresence(c))
  /\ UNCHANGED <<link, attachment, up, down>>
Timer(c) == client[c].timer /\ Send(c, client[c])

\* A refused text: another replica, and a synchronization with the presence of the
\* former one; the workspace is gone until the replica is initialized.
ReplaceReplica(c) ==
  /\ client[c].connected /\ c \in Replacing /\ client[c].replica = 0
  /\ Send(c, [client[c] EXCEPT !.replica = @ + 1, !.mounting = @ \/ client[c].local # {}])
Mount(c) ==
  /\ client[c].mounting /\ client[c].connected /\ ~client[c].starting
  /\ Become(c, WithPresence(c))
  /\ UNCHANGED <<link, attachment, up, down>>

\* The awareness shows everybody but the document's own clientID.
Own(c, p) == p.by = c /\ p.as = client[c].replica
Receive(c) ==
  LET s == client[c].socket IN
  /\ s # NoSocket
  /\ down[s] # <<>>
  /\ LET message == Head(down[s]) IN
     Become(c, IF message.kind = "ready"
               THEN [client[c] EXCEPT !.connected = TRUE, !.starting = TRUE]
               ELSE [client[c] EXCEPT !.shown = message.participants,
                                      !.others = {p \in message.participants : ~Own(c, p)}])
  /\ down' = [down EXCEPT ![s] = Tail(@)]
  /\ UNCHANGED <<link, attachment, up>>

Left(s) == [link EXCEPT ![s] = IF @ = "closed" THEN @ ELSE "left"]
Disconnected(x) ==
  [x EXCEPT !.socket = NoSocket, !.connected = FALSE, !.starting = FALSE,
            !.shown = {}, !.others = {}]

\* The connection ends; the session opens another.
Disconnect(c) ==
  /\ client[c].socket # NoSocket
  /\ link' = Left(client[c].socket)
  /\ Become(c, Disconnected(client[c]))
  /\ UNCHANGED <<attachment, up, down>>
\* A silent or broken connection, which the room has not noticed yet.
Lose(c) == Cardinality(Unused) > Cardinality(Away) /\ Disconnect(c)
\* Its close event, or the heartbeat that is not answered.
NoticeClose(c) == client[c].socket \in {s \in Sockets : link[s] = "closed"} /\ Disconnect(c)

\* The page is left, or the session rejected.
Destroy(c) ==
  /\ ~client[c].ended
  /\ link' = IF client[c].socket = NoSocket THEN link ELSE Left(client[c].socket)
  /\ Become(c, [Disconnected(client[c]) EXCEPT !.ended = TRUE, !.timer = FALSE])
  /\ UNCHANGED <<attachment, up, down>>

-----------------------------------------------------------------------------
RoomNext == \E s \in Sockets : Greet(s) \/ StorePresence(s) \/ Close(s)
SessionNext ==
  \E c \in Clients :
    \/ Open(c) \/ Start(c) \/ Restart(c) \/ SetPresence(c) \/ Timer(c)
    \/ ReplaceReplica(c) \/ Mount(c) \/ Receive(c) \/ Lose(c) \/ NoticeClose(c) \/ Destroy(c)
PresenceNext == RoomNext \/ Crash \/ SessionNext
PresenceSpec == Init /\ [][PresenceNext]_vars

\* The room handles what arrives and is told, in the end, of every connection that
\* is gone; a browser reads what it is sent and notices a connection that is closed.
PresenceFairness ==
  /\ \A s \in Sockets : WF_vars(Greet(s)) /\ WF_vars(StorePresence(s)) /\ WF_vars(Close(s))
  /\ \A c \in Clients : WF_vars(Receive(c)) /\ WF_vars(NoticeClose(c))
FairPresenceSpec == PresenceSpec /\ PresenceFairness

-----------------------------------------------------------------------------
Quiet ==
  /\ \A s \in Sockets : up[s] = <<>> /\ down[s] = <<>> /\ link[s] \notin {"accepted", "left"}
  /\ \A c \in Clients : ~client[c].ended =>
       /\ client[c].connected /\ link[client[c].socket] = "open"
       /\ ~client[c].starting /\ ~client[c].timer /\ ~client[c].mounting

\* When nothing is on its way, everybody is shown the present presence of everybody who
\* is there, once, and of nobody else, through whatever lost connections, resets of the
\* room and replaced replicas it came to that (session-synchronizer.ts:52 sends it again).
QuietShowsEveryone ==
  Quiet => \A c \in Present :
    /\ client[c].shown =
         UNION {{OnSocket(client[d].socket, p) : p \in client[d].local} : d \in Present}
    /\ \A p \in client[c].shown : p \in client[c].others <=> p.by # c

\* What is shown of a connection is never followed by what came on it before: whatever
\* else is received, and however the session was connected.
NeverOlder ==
  [][\A c \in Clients :
       client[c].socket = client'[c].socket =>
         \A p \in client[c].shown, q \in client'[c].shown : p.on = q.on => p.no <= q.no]_vars

\* Who has left, by closing the page or by losing a connection, is shown to nobody in the
\* end (collaboration-room.ts:314).
GoneIsForgotten ==
  \A c \in Clients :
    client[c].ended ~> \A d \in Clients : \A p \in client[d].shown : p.by # c

\* Everybody is drawn and listed under one clientID (the keys of the lists in
\* ParticipantAvatars.svelte:42 and CanvasAwareness.svelte:174): no list has it twice.
ShownOnce ==
  \A c \in Clients : \A p, q \in client[c].shown : p.by = q.by /\ p.as = q.as => p = q

\* "Everyone but this client." (collaboration-awareness.svelte.ts:11)
EveryoneButThisClient == \A c \in Clients : \A p \in client[c].others : p.by # c
=============================================================================
