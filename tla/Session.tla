------------------------------ MODULE Session ------------------------------
(***************************************************************************)
(* The collaborative sessions: the class CollaborativeSession of           *)
(* src/src/lib/infrastructure/collaboration with its synchronizer, text    *)
(* flow, conflict and replica recovery, over a reconnecting transport,     *)
(* composed with the room they share (module Room).                        *)
(*                                                                         *)
(* A session proposes structural commands, numbered and kept until the     *)
(* room decides them, and text edits, made at once in its own replica and  *)
(* proposed in batches one after the other.  When a connection is lost it  *)
(* opens another; frames sent on the former may still reach the room.      *)
(***************************************************************************)
EXTENDS Room

CONSTANTS
  OwnerOf,     \* the session whose user types a text edit
  InitialOf,   \* the id of the initialization a session proposes
  MaxAttempts  \* MAX_RETRY_ATTEMPTS

ASSUME SessionAssumption ==
  /\ OwnerOf \in [Texts -> Sessions]
  /\ InitialOf \in [Sessions -> Initials]
  /\ MaxAttempts \in Nat

VARIABLES
  session,   \* per session: the state of its CollaborativeSession
  decision,  \* per command: "none", "pending", "accepted", "refused", "closed"
  fate       \* per text edit: "none", "typed", "abandoned" (the user is told)

sessionVars == <<session, decision, fate>>
vars == <<roomVars, sessionVars>>
roomInside == <<memoryVars, durableVars, alarm, retiring, published>>

NewSession ==
  [socket |-> NoSocket, connected |-> FALSE,      \* the transport
   doc |-> {}, initialized |-> FALSE,             \* the replica
   ready |-> FALSE, initializing |-> FALSE,
   pending |-> <<>>, sequence |-> 0,              \* commands not yet decided
   attempts |-> 0, timer |-> FALSE,               \* the synchronizer's retry
   buffer |-> <<>>, texts |-> <<>>,               \* text typed, text proposed
   resuming |-> FALSE, recovering |-> FALSE,
   end |-> "none"]        \* or "rejected", "exhausted" (retries), "destroyed"
Alive(x) == x.end = "none"

-----------------------------------------------------------------------------
\* Frames and the state of one session x

TextsOf(batch) == {TextOp(t) : t \in batch}
SyncFrame(x) == [kind |-> "syncRequest", have |-> x.doc]
TextFrame(batch) == [kind |-> "text", id |-> batch.id, update |-> batch.update]
CommandFrame(entry) ==
  [kind |-> "commands", id |-> entry.id, sequence |-> entry.sequence]
Elements(s) == {s[i] : i \in DOMAIN s}

\* What a handler leaves: the new state and the frames it sends.
Result(x, frames) == [to |-> x, frames |-> frames]

\* The buffered edits become one identified proposal.
Flushed(x) ==
  IF x.buffer = <<>> THEN x
  ELSE [x EXCEPT !.buffer = <<>>,
                 !.texts = Append(@, [id |-> Head(x.buffer),
                                      update |-> TextsOf(Elements(x.buffer))])]

\* A proposal is sent at once only by a ready session with no other in flight.
SendFlushed(x) ==
  LET y == Flushed(x) IN
  Result(y, IF y # x /\ x.ready /\ ~x.resuming /\ Len(y.texts) = 1
            THEN <<TextFrame(y.texts[1])>> ELSE <<>>)

\* synchronizer.start
Start(x) == Result([x EXCEPT !.timer = FALSE], <<SyncFrame(x)>>)

\* Mutant: once the texts are decided, nothing is synchronized.
SendTextOnly(x) ==
  IF x.texts # <<>> THEN Result(x, <<TextFrame(x.texts[1])>>)
  ELSE Result([x EXCEPT !.resuming = FALSE], <<>>)

\* Pending texts first; the synchronization follows once there is none.
SendNextText(x) ==
  IF x.texts # <<>> THEN Result(x, <<TextFrame(x.texts[1])>>)
  ELSE Start([x EXCEPT !.resuming = FALSE])
ResumeText(x) == SendNextText(Flushed([x EXCEPT !.resuming = TRUE]))

Integrated(x, update) ==
  LET doc == x.doc \cup update IN
  [x EXCEPT !.doc = doc, !.initialized = @ \/ Ids(doc) \cap Initials # {}]

-----------------------------------------------------------------------------
\* The transport.  A frame is lost unless the socket is connected and open.

Become(c, result) ==
  LET x == result.to IN
  /\ session' = [session EXCEPT ![c] = x]
  /\ up' = IF x.connected /\ link[x.socket] = "open"
           THEN [up EXCEPT ![x.socket] = @ \o result.frames] ELSE up

Open(c) ==
  /\ Alive(session[c]) /\ session[c].socket = NoSocket
  /\ \E s \in Sockets :
       /\ Connect(s)
       /\ session' = [session EXCEPT ![c].socket = s]
  /\ UNCHANGED <<decision, fate>>

\* Mutant: the text flow is created anew for every connection.
DisconnectedForgetsTexts(x) ==
  [x EXCEPT !.socket = NoSocket, !.connected = FALSE, !.ready = FALSE, !.resuming = FALSE,
            !.buffer = <<>>, !.texts = <<>>]
Disconnected(x) ==
  [x EXCEPT !.socket = NoSocket, !.connected = FALSE, !.ready = FALSE, !.resuming = FALSE]

\* A silent or broken connection; the room may go on reading it for a while.
\* Bound: a socket is left for every session that has lost its own.
Spare == Cardinality({c \in Sessions : Alive(session[c]) /\ session[c].socket = NoSocket})
           < Cardinality({s \in Sockets : link[s] = "unused"})
Lose(c) ==
  /\ session[c].socket # NoSocket
  /\ Spare
  /\ session' = [session EXCEPT ![c] = Disconnected(@)]
  /\ UNCHANGED <<roomVars, decision, fate>>

\* The socket was closed by the room, and all it sent has been read.
NoticeClose(c) ==
  LET s == session[c].socket IN
  /\ s # NoSocket
  /\ link[s] \in {"closing", "closed"} /\ down[s] = <<>>
  /\ session' = [session EXCEPT ![c] = Disconnected(@)]
  /\ UNCHANGED <<roomVars, decision, fate>>

\* Rejection or destruction: texts are dropped, no pending promise is left.
Ended(x, end) ==
  [Disconnected(x) EXCEPT !.end = end, !.timer = FALSE, !.pending = <<>>,
                          !.buffer = <<>>, !.texts = <<>>]
Abandon(c) ==
  LET x == session[c]
      ops == TextsOf(Elements(x.buffer)) \cup UNION {b.update : b \in Elements(x.texts)} IN
  fate' = [t \in Texts |-> IF TextOp(t) \in ops THEN "abandoned" ELSE fate[t]]
End(c, end) ==
  /\ session' = [session EXCEPT ![c] = Ended(@, end)]
  /\ decision' = [a \in Commands |->
       IF SessionOf[a] = c /\ decision[a] = "pending" THEN "closed" ELSE decision[a]]
  /\ Abandon(c)

Destroy(c) ==
  /\ Alive(session[c])
  /\ End(c, "destroyed")
  /\ UNCHANGED roomVars

-----------------------------------------------------------------------------
\* The user

Dispatch(c, a) ==
  LET x == session[c]
      flushed == SendFlushed(x)
      entry == [id |-> a, sequence |-> x.sequence + 1] IN
  /\ SessionOf[a] = c /\ decision[a] = "none"
  /\ x.ready /\ Alive(x)
  /\ Become(c, Result([flushed.to EXCEPT !.sequence = @ + 1, !.pending = Append(@, entry)],
                      Append(flushed.frames, CommandFrame(entry))))
  /\ decision' = [decision EXCEPT ![a] = "pending"]
  /\ UNCHANGED <<link, down, roomInside, fate>>

\* Typing in a text of another target first flushes the buffer.
Type(c, t) ==
  LET x == session[c]
      moved == x.buffer # <<>> /\ Conflicts[Head(x.buffer)] # Conflicts[t]
      flushed == IF moved THEN SendFlushed(x) ELSE Result(x, <<>>) IN
  /\ OwnerOf[t] = c /\ fate[t] = "none"
  /\ x.initialized /\ Alive(x) /\ ~x.recovering
  /\ ~Refused(t, x.doc)
  /\ Become(c, Result([flushed.to EXCEPT !.doc = @ \cup {TextOp(t)}, !.buffer = Append(@, t)],
                      flushed.frames))
  /\ fate' = [fate EXCEPT ![t] = "typed"]
  /\ UNCHANGED <<link, down, roomInside, decision>>

\* The debounce or the deadline of the buffer.
FlushTimer(c) ==
  /\ session[c].buffer # <<>>
  /\ Become(c, SendFlushed(session[c]))
  /\ UNCHANGED <<link, down, roomInside, decision, fate>>

\* Mutant: the retry only synchronizes, whatever text is being resumed.
RetrySynchronizes(c) ==
  /\ session[c].timer
  /\ Become(c, Start(session[c]))
  /\ UNCHANGED <<link, down, roomInside, decision, fate>>

\* The retry delay is over.
RetryTimer(c) ==
  /\ session[c].timer
  /\ Become(c, ResumeText([session[c] EXCEPT !.timer = FALSE]))
  /\ UNCHANGED <<link, down, roomInside, decision, fate>>

-----------------------------------------------------------------------------
\* What the room sends.  One action per kind of message.

Receives(c, kind) ==
  LET s == session[c].socket IN
  /\ s # NoSocket /\ down[s] # <<>> /\ Head(down[s]).kind = kind
  /\ down' = [down EXCEPT ![s] = Tail(@)]
  /\ UNCHANGED <<link, roomInside>>
Received(c) == Head(down[session[c].socket])

\* The connection is established: text first, then the synchronization.
ReceiveReady(c) ==
  /\ Receives(c, "ready")
  /\ Become(c, ResumeText([session[c] EXCEPT !.connected = TRUE, !.ready = FALSE]))
  /\ UNCHANGED <<decision, fate>>

ReceiveSyncResponse(c) ==
  /\ Receives(c, "syncResponse")
  /\ Become(c, Result(Integrated(session[c], Received(c).update), <<>>))
  /\ UNCHANGED <<decision, fate>>

\* Every pending command is sent again.
Replay(x) == [i \in DOMAIN x.pending |-> CommandFrame(x.pending[i])]

\* The room's own request: answer it, initialize the room if it is new, then
\* finish resuming text or send every pending command again.
ReceiveSyncRequest(c) ==
  LET x == session[c]
      answer == <<[kind |-> "syncResponse", update |-> x.doc \ Received(c).have]>>
      initialize == <<[kind |-> "initialize", id |-> InitialOf[c]]>>
      resumed == Flushed([x EXCEPT !.ready = FALSE, !.initializing = FALSE]) IN
  /\ Receives(c, "syncRequest")
  /\ \/ /\ ~x.initialized
        /\ Become(c, Result([x EXCEPT !.initializing = TRUE, !.ready = FALSE],
                            answer \o initialize \o Replay(x)))
     \/ /\ x.initialized /\ x.resuming
        /\ Become(c, Result([x EXCEPT !.initializing = FALSE, !.ready = FALSE], answer))
     \/ /\ x.initialized /\ ~x.resuming /\ resumed.texts # <<>>
        /\ Become(c, Result([resumed EXCEPT !.resuming = TRUE],
                            Append(answer, TextFrame(resumed.texts[1]))))
     \/ /\ x.initialized /\ ~x.resuming /\ resumed.texts = <<>>
        /\ Become(c, Result([resumed EXCEPT !.ready = TRUE, !.recovering = FALSE],
                            answer \o Replay(x)))
  /\ UNCHANGED <<decision, fate>>

\* The entries of a map but the one with this id.
Without(entries, id) ==
  IF \E i \in DOMAIN entries : entries[i].id = id
  THEN LET k == CHOOSE i \in DOMAIN entries : entries[i].id = id IN
       SubSeq(entries, 1, k - 1) \o SubSeq(entries, k + 1, Len(entries))
  ELSE entries

\* A commit is integrated; one that names a proposal of ours acknowledges it.
Acknowledged(c, x, id) ==
  LET ofText == \E b \in Elements(x.texts) : b.id = id
      ofCommand == \E p \in Elements(x.pending) : p.id = id
      ofInitialization == x.initializing /\ id = InitialOf[c]
      y == [x EXCEPT !.texts = Without(@, id), !.pending = Without(@, id),
                     !.initializing = @ /\ ~ofInitialization,
                     !.attempts = IF ofText \/ ofCommand \/ ofInitialization THEN 0 ELSE @]
      next == IF ~ofText THEN Result(y, <<>>)
              ELSE IF x.resuming \/ y.texts # <<>> THEN SendNextText(y)
              ELSE Result(y, <<>>)
      z == next.to IN
  Result([z EXCEPT !.ready = @ \/ (z.initialized /\ ~z.resuming /\ z.attempts = 0)],
         next.frames)
ReceiveCommit(c) ==
  LET id == Received(c).id IN
  /\ Receives(c, "commit")
  /\ Become(c, Acknowledged(c, Integrated(session[c], Received(c).update), id))
  /\ decision' = [a \in Commands |->
                    IF a = id /\ decision[a] = "pending" THEN "accepted" ELSE decision[a]]
  /\ UNCHANGED fate

\* Mutant: the later commands keep their numbers.
KeepsNumbers(pending, accepted) == pending

\* The later commands keep their ids and take the numbers after the receipt.
Renumbered(pending, accepted) ==
  [i \in DOMAIN pending |-> [pending[i] EXCEPT !.sequence = accepted + i]]
ReceiveConflict(c) ==
  LET x == session[c]
      message == Received(c)
      known == \E p \in Elements(x.pending) : p.id = message.id
      rest == Without(x.pending, message.id) IN
  /\ Receives(c, "conflict")
  /\ IF known
     THEN /\ Become(c, Start([x EXCEPT !.pending = Renumbered(rest, message.accepted),
                                       !.sequence = message.accepted + Len(rest),
                                       !.ready = FALSE]))
          /\ decision' = [decision EXCEPT ![message.id] = "refused"]
     ELSE UNCHANGED <<up, session, decision>>
  /\ UNCHANGED fate

\* Mutant: the pending texts are dropped, the replica is kept.
RecoveredInPlace(x) ==
  [x EXCEPT !.ready = FALSE, !.buffer = <<>>, !.texts = <<>>,
            !.resuming = FALSE, !.recovering = TRUE]

\* A refused text cannot leave a merged replica: start again from an empty one.
Recovered(x) ==
  [x EXCEPT !.doc = {}, !.initialized = FALSE, !.ready = FALSE,
            !.buffer = <<>>, !.texts = <<>>, !.resuming = FALSE, !.recovering = TRUE]
ReceiveTextGone(c) ==
  LET x == session[c] IN
  /\ Receives(c, "textGone")
  /\ IF \E b \in Elements(x.texts) : b.id = Received(c).id
     THEN /\ Become(c, Start(Recovered(x)))
          /\ Abandon(c)
     ELSE UNCHANGED <<up, session, fate>>
  /\ UNCHANGED decision

ReceiveRetry(c) ==
  LET x == session[c] IN
  /\ Receives(c, "retry")
  /\ IF x.attempts < MaxAttempts
     THEN /\ session' = [session EXCEPT ![c] =
               [x EXCEPT !.attempts = @ + 1, !.ready = FALSE, !.timer = TRUE,
                         !.resuming = @ \/ x.texts # <<>> \/ x.buffer # <<>>]]
          /\ UNCHANGED <<decision, fate>>
     ELSE End(c, "exhausted")
  /\ UNCHANGED up

ReceiveReject(c) ==
  /\ Receives(c, "reject")
  /\ End(c, "rejected")
  /\ UNCHANGED up

Receive(c) ==
  \/ ReceiveReady(c) \/ ReceiveSyncResponse(c) \/ ReceiveSyncRequest(c)
  \/ ReceiveCommit(c) \/ ReceiveConflict(c) \/ ReceiveTextGone(c)
  \/ ReceiveRetry(c) \/ ReceiveReject(c)

-----------------------------------------------------------------------------
SessionNext ==
  \E c \in Sessions :
    \/ Open(c) \/ Lose(c) \/ NoticeClose(c) \/ Destroy(c)
    \/ FlushTimer(c) \/ RetryTimer(c) \/ Receive(c)
    \/ \E a \in Commands : Dispatch(c, a)
    \/ \E t \in Texts : Type(c, t)

\* The room loses a socket only once its client has given it up.
Abandoned(s) == \A c \in Sessions : session[c].socket # s
CollabNext ==
  \/ SessionNext
  \/ /\ \/ \E s \in Sockets : Handle(s) \/ Accept(s) \/ TurnAway(s)
        \/ \E s \in Sockets : Abandoned(s) /\ Close(s)
        \/ Publish \/ Wake \/ WakeFails \/ ReopenFails \/ Crash \/ Hibernate
        \/ AlarmFires \/ ArchiveFails \/ Retire
     /\ UNCHANGED sessionVars

CollabInit ==
  /\ RoomInit
  /\ session = [c \in Sessions |-> NewSession]
  /\ decision = [a \in Commands |-> "none"]
  /\ fate = [t \in Texts |-> "none"]
CollabSpec == CollabInit /\ [][CollabNext]_vars

-----------------------------------------------------------------------------
(***************************************************************************)
(* What the sessions and the room promise together                         *)
(***************************************************************************)

Unacknowledged(x) ==
  TextsOf(Elements(x.buffer)) \cup UNION {b.update : b \in Elements(x.texts)}

\* What dispatch answers is what happened: an accepted command is in the document, a
\* refused one is not.  It does not hold: once a refusal has renumbered the commands
\* behind it, an answer may be about another command that had their number.
DecisionsAreTrue ==
  \A a \in Commands :
    /\ decision[a] = "accepted" => a \in Ids(Durable.doc)
    /\ decision[a] = "refused" => a \notin Ids(Durable.doc)

\* The room is never waiting for a command the session will not send: the
\* first pending command is accepted already or is the next one.  Checked where a
\* session that was refused a command keeps its connection; a frame with a former
\* number, on a connection that was lost, may make the room go on counting.
Follows(c) ==
  session[c].pending # <<>> =>
    Head(session[c].pending).sequence <= Rehydrated.receipts[c] + 1
PendingFollowsReceipt == \A c \in Sessions : Follows(c)

\* The replica of a live session holds nothing but what the room holds for good
\* and the text edits it has yet to see acknowledged.
ReplicaIsBacked ==
  \A c \in Sessions :
    Alive(session[c]) => session[c].doc \subseteq Durable.doc \cup Unacknowledged(session[c])

\* A typed edit is in the room, on its way there, or reported as abandoned.
TextsAreTracked ==
  \A t \in Texts :
    fate[t] = "typed" =>
      TextOp(t) \in Durable.doc \cup Unacknowledged(session[OwnerOf[t]])

\* Until one of its commands is refused, the numbers of a session stay: each of its
\* commands is in the document at most once, and once if its dispatch was accepted.
Unrefused(c) == \A a \in Commands : SessionOf[a] = c => decision[a] # "refused"
ExecutedExactlyOnce ==
  \A a \in Commands : Unrefused(SessionOf[a]) =>
    /\ decision[a] = "accepted" => a \in Ids(Durable.doc)
    /\ \A op, other \in Durable.doc : op.id = a /\ other.id = a => op = other

\* A session whose connection holds, with nothing in flight in either direction,
\* no retry to come and the room at rest.
Quiet(c) ==
  LET x == session[c] IN
  /\ x.connected /\ ~x.timer /\ link[x.socket] = "open"
  /\ up[x.socket] = <<>> /\ down[x.socket] = <<>>
  /\ instance = "live" /\ job = NoJob

\* No session is left waiting for an answer nobody owes it: whatever mix of
\* commits, conflicts, retries and synchronizations it went through, it is ready
\* for its user again (#ready is what dispatch and the text queue wait for).
NeverStuck == \A c \in Sessions : Quiet(c) => session[c].ready

\* When a ready session and the room have nothing left to tell each other, they
\* show the same document and nothing is left undecided.
QuietMeansConverged ==
  \A c \in Sessions :
    Quiet(c) /\ session[c].ready =>
      /\ session[c].pending = <<>> /\ session[c].texts = <<>>
      /\ session[c].doc = memory.doc \cup Unacknowledged(session[c])

-----------------------------------------------------------------------------
\* Why: what the promises above need to survive every step.

Batches == [id : Texts, update : (SUBSET TextOps) \ {{}}]
Entries == [id : Commands, sequence : Nat \ {0}]
SessionState ==
  [socket : Sockets \cup {NoSocket}, connected : BOOLEAN, doc : SUBSET Op,
   initialized : BOOLEAN, ready : BOOLEAN, initializing : BOOLEAN,
   pending : Seq(Entries), sequence : Nat,
   attempts : Nat, timer : BOOLEAN, buffer : Seq(Texts),
   texts : Seq(Batches),
   resuming : BOOLEAN, recovering : BOOLEAN,
   end : {"none", "rejected", "exhausted", "destroyed"}]
SessionTypeOK ==
  /\ session \in [Sessions -> SessionState]
  /\ decision \in [Commands -> {"none", "pending", "accepted", "refused", "closed"}]
  /\ fate \in [Texts -> {"none", "typed", "abandoned"}]

\* A socket serves one session and carries nothing before it is accepted.
SocketsInv ==
  /\ \A s \in Sockets : link[s] \in {"unused", "connecting"} => down[s] = <<>>
  /\ \A c, d \in Sessions :
       session[c].socket # NoSocket =>
         /\ link[session[c].socket] # "unused"
         /\ session[d].socket = session[c].socket => d = c
  /\ \A c \in Sessions :
       /\ session[c].connected => session[c].socket # NoSocket
       /\ ~Alive(session[c]) => session[c].socket = NoSocket /\ session[c].pending = <<>>
       /\ ~Alive(session[c]) => session[c].buffer = <<>> /\ session[c].texts = <<>>
                                /\ ~session[c].timer

\* The messages that carry operations.
Told(message) == message.kind \in {"commit", "syncResponse"}

\* What is told is durable, and the room's own request comes after all it told:
\* whatever its client may then hold and the room may miss is text.
ToldInv ==
  /\ \A s \in Sockets : \A i \in DOMAIN down[s] :
       Told(down[s][i]) => down[s][i].update \subseteq Durable.doc
  /\ \A s \in Sockets : \A i \in DOMAIN down[s] : down[s][i].kind = "syncRequest" =>
       /\ \A j \in DOMAIN down[s] :
            j < i /\ Told(down[s][j]) => down[s][j].update \ down[s][i].have \subseteq TextOps
       /\ \A c \in Sessions : session[c].socket = s =>
            session[c].doc \ down[s][i].have \subseteq TextOps

\* A text edit that is typed by nobody yet, or still buffered, names no proposal; a
\* proposal is the same edits wherever its name appears, and a commit that names it
\* holds them.
OwnEdits(c) == {TextOp(t) : t \in {u \in Texts : OwnerOf[u] = c}}
Unnamed(t) ==
  /\ \A s \in Sockets : \A f \in Elements(up[s]) : ~(f.kind = "text" /\ f.id = t)
  /\ \A s \in Sockets : \A m \in Elements(down[s]) : ~(m.kind = "commit" /\ m.id = t)
  /\ job.id # t
  /\ \A c \in Sessions : \A b \in Elements(session[c].texts) : b.id # t
Named(b) ==
  /\ \A s \in Sockets : \A f \in Elements(up[s]) :
       f.kind = "text" /\ f.id = b.id => f.update = b.update
  /\ \A s \in Sockets : \A m \in Elements(down[s]) :
       m.kind = "commit" /\ m.id = b.id => b.update \subseteq Durable.doc
  /\ job.id = b.id => b.update \subseteq job.doc
TextsInv ==
  /\ \A c \in Sessions :
       /\ \A t \in Elements(session[c].buffer) : OwnerOf[t] = c /\ fate[t] # "none" /\ Unnamed(t)
       /\ \A b \in Elements(session[c].texts) :
            /\ OwnerOf[b.id] = c /\ b.update \subseteq OwnEdits(c) /\ Named(b)
            /\ \A e \in Elements(session[c].texts) : e.id = b.id => e = b
  /\ \A t \in Texts : fate[t] = "none" => Unnamed(t)

\* Every number a command of session c goes by: pending, on its way or executed.
Numbers(c) ==
  {<<p.id, p.sequence>> : p \in Elements(session[c].pending)}
    \cup {<<op.id, op.sequence>> : op \in {o \in Durable.doc : o.id \in Commands /\ SessionOf[o.id] = c}}
    \cup UNION {{<<f.id, f.sequence>> :
                    f \in {g \in Elements(up[s]) : g.kind = "commands" /\ SessionOf[g.id] = c}}
                  : s \in Sockets}
NumbersInv ==
  \A c \in Sessions :
    /\ \A p \in Elements(session[c].pending) : SessionOf[p.id] = c
    /\ \A n \in Numbers(c) : decision[n[1]] # "none"
    /\ Unrefused(c) =>
         /\ \A n \in Numbers(c) : n[2] <= session[c].sequence
         /\ \A n, m \in Numbers(c) : n[1] = m[1] <=> n[2] = m[2]

\* A commit that names a command, and an acceptance, mean that it was executed.
AcceptedInv ==
  /\ job.id \in Commands => job.id \in Ids(job.doc)
  /\ \A s \in Sockets : \A m \in Elements(down[s]) :
       m.kind = "commit" /\ m.id \in Commands /\ Unrefused(SessionOf[m.id]) =>
         m.id \in Ids(Durable.doc)
  /\ \A a \in Commands :
       decision[a] = "accepted" /\ Unrefused(SessionOf[a]) => a \in Ids(Durable.doc)

\* In a room that is never idle, what is numbered and not pending was executed.
PendingInv ==
  \A c \in Sessions : Unrefused(c) /\ Alive(session[c]) =>
    /\ \A i, j \in DOMAIN session[c].pending :
         i < j => session[c].pending[i].sequence < session[c].pending[j].sequence
    /\ \A n \in 1..session[c].sequence :
         \/ n <= storage.receipts[c]
         \/ \E p \in Elements(session[c].pending) : p.sequence = n

-----------------------------------------------------------------------------
\* Liveness.  Timers fire, browsers deliver what they received, a closed socket
\* is noticed on both sides, a reconnection is attempted.
CollabFairness ==
  /\ Fairness
  /\ \A s \in Sockets : WF_vars(Abandoned(s) /\ Close(s) /\ UNCHANGED sessionVars)
  /\ \A c \in Sessions :
       /\ WF_vars(Open(c)) /\ WF_vars(NoticeClose(c)) /\ WF_vars(Receive(c))
       /\ WF_vars(FlushTimer(c)) /\ WF_vars(RetryTimer(c))

\* The promise of a dispatch is always settled.
DispatchIsSettled ==
  \A a \in Commands : decision[a] = "pending" ~> decision[a] # "pending"

\* A typed edit reaches the room for good, or its user is told it did not.
TypedTextArrives ==
  \A t \in Texts :
    fate[t] = "typed" ~> fate[t] = "abandoned" \/ TextOp(t) \in Durable.doc
=============================================================================
