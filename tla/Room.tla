-------------------------------- MODULE Room --------------------------------
(***************************************************************************)
(* The collaboration room: the Cloudflare Durable Object CollaborationRoom *)
(* of src/src/workers/collaboration-worker.  One object serves one room.   *)
(* It keeps the accepted document in memory, a durable copy in its own     *)
(* transactional storage and, once the room has been idle for a day, a     *)
(* copy in an R2 bucket; then it frees its storage.                        *)
(*                                                                         *)
(* A document is the set of operations it contains (a Yjs document is a    *)
(* set of structs, an update is a subset of it, applying it is a union).   *)
(* An operation records the proposal that made it, the command sequence it *)
(* was accepted under and the commit that executed it, so a command        *)
(* executed twice is two operations; a text edit is made by the client,    *)
(* so its operation is the same wherever it is applied.                    *)
(*                                                                         *)
(* Messages are handled one at a time (the `processing` promise chain).    *)
(* A storage await closes the input gate of the object, so nothing but a   *)
(* crash falls between reading a receipt and publishing the commit; the    *)
(* R2 awaits of the idle alarm do let connections and closes in.           *)
(***************************************************************************)
EXTENDS Naturals, Sequences, FiniteSets

CONSTANTS
  Sockets,        \* connections a room may ever accept
  Sessions,       \* client sessions, each with a durable command receipt
  Commands,       \* proposal ids of command batches
  Texts,          \* proposal ids of text edits
  Initials,       \* proposal ids of initializations
  SessionOf,      \* the session a command belongs to
  Conflicts,      \* the proposals whose execution makes a proposal's target go
  MaxRoomSockets, \* the room is full beyond this many sockets
  MaxRefusals,    \* business refusals a socket may get before it is rejected
  Capacity,       \* operations the persistable size allows in a document
  Faults          \* what may befall the room: see FaultKinds

FaultKinds == {"crash", "hibernate", "storage", "archive", "restore", "idle"}
Proposals == Commands \cup Texts \cup Initials
NoId == "none"
NoSocket == "none"

ASSUME RoomAssumption ==
  /\ SessionOf \in [Commands -> Sessions]
  /\ Conflicts \in [Proposals -> SUBSET Proposals]
  /\ Texts \cap (Commands \cup Initials) = {}
  /\ Commands \cap Initials = {}
  /\ MaxRoomSockets \in Nat \ {0}
  /\ MaxRefusals \in Nat
  /\ Capacity \in Nat
  /\ Faults \subseteq FaultKinds
  /\ NoId \notin Proposals
  /\ NoSocket \notin Sockets

VARIABLES
  link,       \* per socket: "unused", "connecting", "open", "closing" or "closed"
  up,         \* per socket: frames on their way to, or queued in, the room
  down,       \* per socket: messages on their way to the client
  instance,   \* "live" when the object is in memory, "down" otherwise
  memory,     \* roomState: the accepted document and its commit number
  purged,     \* the storage is gone while this instance is still in memory
  refusals,   \* the refusal budget spent by each socket
  job,        \* a commit persisted and not yet published
  storage,    \* durable: document, commit number (0: none), command receipts
  legacy,     \* the durable copy is in an older format, upgraded on load
  archive,    \* the R2 object: document and commit number (0: none)
  alarm,      \* an alarm is scheduled
  retiring,   \* progress of the idle alarm's run in the processing chain
  published   \* auxiliary: every (commit, document) pair ever told to a client

memoryVars == <<instance, memory, purged, refusals, job>>
durableVars == <<storage, legacy, archive>>
roomVars == <<link, up, down, memoryVars, durableVars, alarm, retiring, published>>

-----------------------------------------------------------------------------
\* Documents

Op == [id : Proposals, sequence : Nat, at : Nat]
Ids(doc) == {op.id : op \in doc}
CommandOp(id, sequence, commit) == [id |-> id, sequence |-> sequence, at |-> commit]
TextOp(id) == [id |-> id, sequence |-> 0, at |-> 0]

EmptyRoom == [doc |-> {}, commit |-> 0]
NoJob == [kind |-> "none", socket |-> NoSocket, id |-> NoId, doc |-> {}, commit |-> 0]
NoReceipts == [c \in Sessions |-> 0]
EmptyStorage == [doc |-> {}, commit |-> 0, receipts |-> NoReceipts]

\* The target of a proposal is gone, or the rules refuse the command.
Refused(id, doc) == Conflicts[id] \cap Ids(doc) # {}
Fits(doc) == Cardinality(doc) <= Capacity

-----------------------------------------------------------------------------
\* Sending.  A closed socket swallows what is sent to it.

Attached == {s \in Sockets : link[s] \in {"open", "closing"}}
Idle == instance = "live" /\ job = NoJob /\ retiring \in {"none", "queued"}
InputGateOpen == instance = "live" /\ job = NoJob

CommitMessage(id, commit, update) ==
  [kind |-> "commit", id |-> id, commit |-> commit, update |-> update]

Deliver(s, messages) == down' = [down EXCEPT ![s] = @ \o messages]
Consume(s) == up' = [up EXCEPT ![s] = Tail(@)]

\* The head frame of an open socket, taken by the room when it is idle.
Takes(s, kind) ==
  /\ Idle
  /\ link[s] = "open"
  /\ up[s] # <<>>
  /\ Head(up[s]).kind = kind

\* Every handler that only answers its socket leaves the rest alone.
Answer(s, messages) ==
  /\ Consume(s)
  /\ Deliver(s, messages)
  /\ UNCHANGED <<link, instance, memory, purged, job, durableVars, alarm, retiring>>

Retry(s, code) ==
  /\ Answer(s, <<[kind |-> "retry", code |-> code]>>)
  /\ UNCHANGED <<refusals, published>>

\* A terminal failure is told to the socket, which is then closed (1008);
\* the frames it still has in the chain are dropped.
Reject(s, code) ==
  /\ up' = [up EXCEPT ![s] = <<>>]
  /\ Deliver(s, <<[kind |-> "reject", code |-> code]>>)
  /\ link' = [link EXCEPT ![s] = "closing"]
  /\ UNCHANGED <<memoryVars, durableVars, alarm, retiring, published>>

\* The current commit and the whole state, for a proposal already accepted.
ReplayCurrent(s, id) ==
  /\ Answer(s, <<CommitMessage(id, memory.commit, memory.doc)>>)
  /\ published' = published \cup {memory}
  /\ UNCHANGED refusals

-----------------------------------------------------------------------------
\* Commit: persist the candidate in one transaction, then publish it.

\* The receipts once session's command numbered sequence is accepted.
ReceiptsUnchanged(session, sequence) == storage.receipts      \* mutant: a second write
ReceiptsAfter(session, sequence) == [storage.receipts EXCEPT ![session] = sequence]

TextsKeepCommit(kind) == memory.commit + (IF kind = "text" THEN 0 ELSE 1)  \* mutant
NextCommit(kind) == memory.commit + 1

\* The transaction writes the document, its commit number and, for a command,
\* the receipt of its session; it is durable before anybody hears of it.
Persist(s, id, kind, doc, receipts) ==
  LET commit == NextCommit(kind) IN
  /\ storage' = [doc |-> doc, commit |-> commit, receipts |-> receipts]
  /\ job' = [kind |-> kind, socket |-> s, id |-> id, doc |-> doc, commit |-> commit]
  /\ Consume(s)
  /\ UNCHANGED <<link, down, instance, memory, purged, refusals, legacy, archive,
                 alarm, retiring, published>>

StorageFails(s) == "storage" \in Faults /\ Retry(s, "storage-unavailable")

\* Mutants: the author of a text is told of it under the commit before; or is
\* only acknowledged, for it made the text itself.
AcknowledgedTooLow(p) ==
  LET update == job.doc \ memory.doc IN
  IF p = job.socket /\ job.kind = "text" /\ job.id # NoId
  THEN <<CommitMessage(NoId, job.commit, update), CommitMessage(job.id, memory.commit, {})>>
  ELSE <<CommitMessage(NoId, job.commit, update)>>
PublishedToOthers(p) ==
  IF p = job.socket /\ job.kind = "text"
  THEN <<CommitMessage(job.id, job.commit, {})>>
  ELSE <<CommitMessage(NoId, job.commit, job.doc \ memory.doc)>>

\* What publishing job tells socket p: the update, with the proposal id for its
\* origin; a text proposal is acknowledged apart, after the broadcast.
PublishedTo(p) ==
  LET update == job.doc \ memory.doc
      own(kind) == p = job.socket /\ job.kind = kind /\ job.id # NoId IN
  IF own("text")
  THEN <<CommitMessage(NoId, job.commit, update), CommitMessage(job.id, job.commit, {})>>
  ELSE <<CommitMessage(IF own("proposal") THEN job.id ELSE NoId, job.commit, update)>>

Publish ==
  /\ instance = "live"
  /\ job # NoJob
  /\ memory' = [doc |-> job.doc, commit |-> job.commit]
  /\ down' = [p \in Sockets |->
                IF link[p] = "open" THEN down[p] \o PublishedTo(p) ELSE down[p]]
  /\ published' = published \cup {memory'}
  /\ job' = NoJob
  /\ UNCHANGED <<link, up, instance, purged, refusals, durableVars, alarm, retiring>>

-----------------------------------------------------------------------------
\* One action per kind of frame.

SyncRequest(s) ==
  /\ Takes(s, "syncRequest")
  /\ Answer(s, <<[kind |-> "syncResponse", update |-> memory.doc \ Head(up[s]).have],
                 [kind |-> "syncRequest", have |-> memory.doc]>>)
  /\ UNCHANGED <<refusals, published>>

\* Texts this client has and the room misses, without a proposal id.
SyncResponse(s) ==
  /\ Takes(s, "syncResponse")
  /\ LET update == Head(up[s]).update
         fresh == update \ memory.doc IN
     \/ /\ IF update = {} THEN TRUE ELSE memory.commit > 0 /\ fresh = {}
        /\ Answer(s, <<>>)
        /\ UNCHANGED <<refusals, published>>
     \/ /\ update # {}
        /\ \/ memory.commit = 0
           \/ \E op \in fresh : Refused(op.id, memory.doc)
           \/ fresh # {} /\ ~Fits(memory.doc \cup update)
        /\ Reject(s, "invalid-document")
     \/ /\ memory.commit > 0 /\ fresh # {} /\ Fits(memory.doc \cup update)
        /\ \A op \in fresh : ~Refused(op.id, memory.doc)
        /\ \/ Persist(s, NoId, "text", memory.doc \cup update, storage.receipts)
           \/ StorageFails(s)

\* A refusal is answered while the budget of the socket lasts.
Refuse(s, conflict) ==
  IF refusals[s] < MaxRefusals
  THEN /\ Answer(s, <<conflict>>)
       /\ refusals' = [refusals EXCEPT ![s] = @ + 1]
       /\ UNCHANGED published
  ELSE Reject(s, "repeated-command-refusal")

Text(s) ==
  /\ Takes(s, "text")
  /\ LET frame == Head(up[s])
         doc == memory.doc \cup frame.update IN
     \/ /\ Refused(frame.id, memory.doc)
        /\ Refuse(s, [kind |-> "textGone", id |-> frame.id])
     \/ /\ ~Refused(frame.id, memory.doc)
        /\ \/ memory.commit = 0
           \/ frame.update \ memory.doc # {} /\ ~Fits(doc)
        /\ Reject(s, "invalid-document")
     \/ /\ ~Refused(frame.id, memory.doc) /\ memory.commit > 0
        /\ frame.update \subseteq memory.doc
        /\ Answer(s, <<CommitMessage(frame.id, memory.commit, {})>>)
        /\ published' = published \cup {memory}
        /\ UNCHANGED refusals
     \/ /\ ~Refused(frame.id, memory.doc) /\ memory.commit > 0
        /\ frame.update \ memory.doc # {} /\ Fits(doc)
        /\ \/ Persist(s, frame.id, "text", doc, storage.receipts)
           \/ StorageFails(s)

\* Mutant: every participant of a new room initializes it.
InitializeAgain(s) ==
  /\ Takes(s, "initialize")
  /\ LET id == Head(up[s]).id IN
     Persist(s, id, "proposal",
             memory.doc \cup {CommandOp(id, 0, memory.commit + 1)}, storage.receipts)

\* The room may have been initialized by another participant in between.
Initialize(s) ==
  /\ Takes(s, "initialize")
  /\ LET id == Head(up[s]).id IN
     \/ memory.commit > 0 /\ ReplayCurrent(s, id)
     \/ /\ memory.commit = 0
        /\ \/ Persist(s, id, "proposal", memory.doc \cup {CommandOp(id, 0, 1)},
                      storage.receipts)
           \/ StorageFails(s)

\* Mutant: the next sequence is taken for the last accepted one.
AcceptedTooEarly(session, sequence) == sequence <= storage.receipts[session] + 1
AlreadyAccepted(session, sequence) == sequence <= storage.receipts[session]

CommandsOf(s) ==
  /\ Takes(s, "commands")
  /\ LET frame == Head(up[s])
         session == SessionOf[frame.id]
         accepted == storage.receipts[session]
         doc == memory.doc \cup {CommandOp(frame.id, frame.sequence, memory.commit + 1)} IN
     \/ StorageFails(s)
     \/ AlreadyAccepted(session, frame.sequence) /\ ReplayCurrent(s, frame.id)
     \/ frame.sequence > accepted + 1 /\ Retry(s, "command-gap")
     \/ /\ frame.sequence = accepted + 1
        /\ \/ memory.commit = 0 /\ Reject(s, "invalid-document")
           \/ /\ memory.commit > 0 /\ Refused(frame.id, memory.doc)
              /\ Refuse(s, [kind |-> "conflict", id |-> frame.id, accepted |-> accepted])
           \/ /\ memory.commit > 0 /\ ~Refused(frame.id, memory.doc) /\ ~Fits(doc)
              /\ Reject(s, "invalid-document")
           \/ /\ memory.commit > 0 /\ ~Refused(frame.id, memory.doc) /\ Fits(doc)
              /\ Persist(s, frame.id, "proposal", doc,
                         ReceiptsAfter(session, frame.sequence))

\* A frame that does not decode, a server-only message, an invalid document.
Malformed(s) == Takes(s, "malformed") /\ Reject(s, "invalid-message")

Handle(s) ==
  \/ SyncRequest(s) \/ SyncResponse(s) \/ Text(s)
  \/ Initialize(s) \/ CommandsOf(s) \/ Malformed(s)

-----------------------------------------------------------------------------
\* Life of the object: constructor, connections, crashes.

\* Mutant: an empty storage is a new room.
NeverRehydrated == storage

\* An empty storage is rehydrated from the archive; an older format is then
\* upgraded and persisted as one more commit.
Rehydrated ==
  IF storage.commit = 0 /\ archive.commit > 0
  THEN [storage EXCEPT !.doc = archive.doc, !.commit = archive.commit]
  ELSE storage
Restored ==
  IF legacy /\ Rehydrated.commit > 0
  THEN [Rehydrated EXCEPT !.commit = @ + 1]
  ELSE Rehydrated

Restore ==
  /\ storage' = Restored
  /\ legacy' = FALSE
  /\ memory' = [doc |-> Restored.doc, commit |-> Restored.commit]
  /\ purged' = FALSE
  /\ UNCHANGED archive

\* A request, a frame, a close or an alarm wakes the object.
Connecting == {s \in Sockets : link[s] = "connecting"}
Event == alarm \/ Attached # {} \/ Connecting # {}

\* The constructor.
Wake ==
  /\ instance = "down"
  /\ Event
  /\ instance' = "live"
  /\ Restore
  /\ refusals' = [s \in Sockets |-> 0]
  /\ UNCHANGED <<link, up, down, job, alarm, retiring, published>>

\* The constructor fails, possibly after it rehydrated the storage; the event
\* that woke the object fails with it and the object stays broken.
WakeFails ==
  /\ "restore" \in Faults
  /\ instance = "down"
  /\ Event
  /\ storage' = Rehydrated
  /\ link' = [s \in Sockets |-> IF s \in Connecting THEN "closed" ELSE link[s]]
  /\ UNCHANGED <<up, down, memoryVars, legacy, archive, alarm, retiring, published>>

Ready == [kind |-> "ready"]

NeverReopened == UNCHANGED <<durableVars, memory, purged>>  \* mutant: purged is ignored
Reopen == IF purged THEN Restore ELSE UNCHANGED <<durableVars, memory, purged>>

\* fetch: a full room turns the request away (429); another accepts the socket,
\* after a restoration when its storage was purged while this instance lived.
TurnAway(s) ==
  /\ InputGateOpen
  /\ link[s] = "connecting"
  /\ Cardinality(Attached) >= MaxRoomSockets
  /\ link' = [link EXCEPT ![s] = "closed"]
  /\ UNCHANGED <<up, down, memoryVars, durableVars, alarm, retiring, published>>

Accept(s) ==
  /\ InputGateOpen
  /\ link[s] = "connecting"
  /\ Cardinality(Attached) < MaxRoomSockets
  /\ Reopen
  /\ link' = [link EXCEPT ![s] = "open"]
  /\ Deliver(s, <<Ready>>)
  /\ alarm' = TRUE
  /\ UNCHANGED <<up, instance, refusals, job, retiring, published>>

\* webSocketClose: the peer went away or answered the close of a rejection.
Close(s) ==
  /\ InputGateOpen
  /\ s \in Attached
  /\ link' = [link EXCEPT ![s] = "closed"]
  /\ up' = [up EXCEPT ![s] = <<>>]
  /\ alarm' = TRUE
  /\ UNCHANGED <<down, memoryVars, durableVars, retiring, published>>

\* The object leaves memory; without hibernation its sockets break with it.
\* An alarm whose handler did not finish is retried.
Forget ==
  /\ instance = "live"
  /\ instance' = "down"
  /\ memory' = EmptyRoom
  /\ purged' = FALSE
  /\ job' = NoJob
  /\ refusals' = [s \in Sockets |-> 0]
  /\ retiring' = "none"
  /\ alarm' = (alarm \/ retiring # "none")
  /\ UNCHANGED <<down, legacy, archive, published>>
Break ==
  /\ link' = [s \in Sockets |-> IF link[s] = "unused" THEN "unused" ELSE "closed"]
  /\ up' = [s \in Sockets |-> <<>>]
Crash ==
  /\ "crash" \in Faults
  /\ Forget
  /\ Break
  /\ UNCHANGED storage
Hibernate ==
  /\ "hibernate" \in Faults
  /\ job = NoJob /\ retiring = "none" /\ Connecting = {}
  /\ \A s \in Sockets : up[s] = <<>>
  /\ Forget
  /\ UNCHANGED <<link, up, storage>>

\* fetch finds the storage purged and the restoration fails, as in WakeFails: the
\* runtime resets the object.
ReopenFails ==
  /\ "restore" \in Faults
  /\ InputGateOpen /\ purged /\ Connecting # {}
  /\ Forget
  /\ Break
  /\ storage' = Rehydrated

-----------------------------------------------------------------------------
\* The idle alarm: archive to R2, then free the storage.

\* alarm(): with a socket attached it only schedules itself again.
AlarmFires ==
  /\ "idle" \in Faults
  /\ InputGateOpen
  /\ alarm
  /\ retiring = "none"
  /\ Attached = {}
  /\ alarm' = FALSE
  /\ retiring' = "queued"
  /\ UNCHANGED <<link, up, down, memoryVars, durableVars, published>>

StartArchive ==
  /\ Idle
  /\ retiring = "queued"
  /\ memory.commit > 0
  /\ retiring' = "uploading"
  /\ UNCHANGED <<link, up, down, memoryVars, durableVars, alarm, published>>

\* The first put of archiveRoom; the TOML projection is the second.
ArchiveState ==
  /\ InputGateOpen
  /\ retiring = "uploading"
  /\ archive' = memory
  /\ retiring' = "stored"
  /\ UNCHANGED <<link, up, down, memoryVars, storage, legacy, alarm, published>>

\* Mutant: the failure is logged and the alarm considered served.
ArchiveGivenUp ==
  /\ "archive" \in Faults
  /\ InputGateOpen
  /\ retiring \in {"uploading", "stored"}
  /\ retiring' = "none"
  /\ UNCHANGED <<link, up, down, memoryVars, durableVars, alarm, published>>

\* Mutant: the links of the chain after a failed one are not run.
ArchiveBlocksChain ==
  /\ "archive" \in Faults
  /\ InputGateOpen
  /\ retiring \in {"uploading", "stored"}
  /\ retiring' = "failed"
  /\ alarm' = TRUE
  /\ UNCHANGED <<link, up, down, memoryVars, durableVars, published>>

\* Either put fails: the handler throws, its alarm is retried.
ArchiveFails ==
  /\ "archive" \in Faults
  /\ InputGateOpen
  /\ retiring \in {"uploading", "stored"}
  /\ retiring' = "none"
  /\ alarm' = TRUE
  /\ UNCHANGED <<link, up, down, memoryVars, durableVars, published>>

\* Both puts are done, or there was nothing to archive.
Archived ==
  \/ InputGateOpen /\ retiring = "stored"
  \/ Idle /\ retiring = "queued" /\ memory.commit = 0

KeepHot ==
  /\ Archived
  /\ Attached # {}
  /\ alarm' = TRUE
  /\ retiring' = "none"
  /\ UNCHANGED <<link, up, down, memoryVars, durableVars, published>>

\* deleteAll also drops the command receipts.
Purge ==
  /\ Archived
  /\ Attached = {}
  /\ storage' = EmptyStorage
  /\ memory' = EmptyRoom
  /\ purged' = TRUE
  /\ alarm' = FALSE
  /\ retiring' = "none"
  /\ UNCHANGED <<link, up, down, instance, refusals, job, legacy, archive, published>>

Retire == StartArchive \/ ArchiveState \/ KeepHot \/ Purge

-----------------------------------------------------------------------------
RoomNext ==
  \/ \E s \in Sockets : Handle(s) \/ Accept(s) \/ TurnAway(s) \/ Close(s)
  \/ Publish \/ Wake \/ WakeFails \/ ReopenFails \/ Crash \/ Hibernate
  \/ AlarmFires \/ ArchiveFails \/ Retire

\* A room starts unborn, or holding a document an older version stored.
RoomInit ==
  /\ link = [s \in Sockets |-> "unused"]
  /\ up = [s \in Sockets |-> <<>>]
  /\ down = [s \in Sockets |-> <<>>]
  /\ instance = "down"
  /\ memory = EmptyRoom
  /\ purged = FALSE
  /\ refusals = [s \in Sockets |-> 0]
  /\ job = NoJob
  /\ archive = EmptyRoom
  /\ retiring = "none"
  /\ published = {}
  /\ \/ storage = EmptyStorage /\ legacy = FALSE /\ alarm = FALSE
     \/ \E id \in Initials :
          /\ storage = [EmptyStorage EXCEPT !.doc = {CommandOp(id, 0, 1)}, !.commit = 1]
          /\ legacy = TRUE
          /\ alarm = TRUE

-----------------------------------------------------------------------------
(***************************************************************************)
(* What the room promises                                                  *)
(***************************************************************************)

\* The copy a new instance would open.
Durable == [doc |-> Rehydrated.doc, commit |-> Rehydrated.commit]

RoomState == [doc : SUBSET Op, commit : Nat]
StorageType == [doc : SUBSET Op, commit : Nat, receipts : [Sessions -> Nat]]
JobType == [kind : {"none", "proposal", "text"}, socket : Sockets \cup {NoSocket},
            id : Proposals \cup {NoId}, doc : SUBSET Op, commit : Nat]
Codes == {"storage-unavailable", "command-gap", "invalid-message", "invalid-document",
          "repeated-command-refusal"}
TextOps == {TextOp(t) : t \in Texts}
Frame ==
  [kind : {"syncRequest"}, have : SUBSET Op]
    \cup [kind : {"syncResponse"}, update : SUBSET TextOps]
    \cup [kind : {"text"}, id : Texts, update : (SUBSET TextOps) \ {{}}]
    \cup [kind : {"initialize"}, id : Initials]
    \cup [kind : {"commands"}, id : Commands, sequence : Nat \ {0}]
    \cup [kind : {"malformed"}]
Message ==
  [kind : {"ready"}]
    \cup [kind : {"syncRequest"}, have : SUBSET Op]
    \cup [kind : {"syncResponse"}, update : SUBSET Op]
    \cup [kind : {"commit"}, id : Proposals \cup {NoId}, commit : Nat, update : SUBSET Op]
    \cup [kind : {"conflict"}, id : Commands, accepted : Nat]
    \cup [kind : {"textGone"}, id : Texts]
    \cup [kind : {"retry", "reject"}, code : Codes]

\* A client asks for a socket.
Connect(s) ==
  /\ link[s] = "unused"
  /\ link' = [link EXCEPT ![s] = "connecting"]
  /\ UNCHANGED <<up, down, memoryVars, durableVars, alarm, retiring, published>>

\* A client sends a frame on a socket the room still reads.
Transmit(s, frame) ==
  up' = [up EXCEPT ![s] = IF link[s] = "open" THEN Append(@, frame) ELSE @]
ClientSends(s, frame) ==
  /\ link[s] = "open"
  /\ Transmit(s, frame)
  /\ UNCHANGED <<link, down, memoryVars, durableVars, alarm, retiring, published>>

\* The room against clients that may send anything that decodes.
Next ==
  \/ RoomNext
  \/ \E s \in Sockets : Connect(s) \/ \E frame \in Frame : ClientSends(s, frame)
Spec == RoomInit /\ [][Next]_roomVars

TypeOK ==
  /\ link \in [Sockets -> {"unused", "connecting", "open", "closing", "closed"}]
  /\ up \in [Sockets -> Seq(Frame)]
  /\ down \in [Sockets -> Seq(Message)]
  /\ instance \in {"live", "down"}
  /\ memory \in RoomState
  /\ purged \in BOOLEAN
  /\ refusals \in [Sockets -> Nat]
  /\ job \in JobType
  /\ storage \in StorageType
  /\ legacy \in BOOLEAN
  /\ archive \in RoomState
  /\ alarm \in BOOLEAN
  /\ retiring \in {"none", "queued", "uploading", "stored"}
  /\ published \in SUBSET RoomState

\* Between two messages the live room and its storage hold the same document
\* under the same commit; while a commit waits to be published it is the one
\* in storage; an instance that purged its storage is empty and alone.
MemoryIsDurable ==
  instance = "live" =>
    IF job # NoJob
    THEN storage.doc = job.doc /\ storage.commit = job.commit /\ memory.doc \subseteq job.doc
    ELSE /\ storage.doc = memory.doc /\ storage.commit = memory.commit
         /\ purged => memory = EmptyRoom /\ storage = EmptyStorage /\ Attached = {}

\* Nothing a client was told can be lost: through crashes, failed writes, the
\* archive, the purge and the restoration, the copy a new instance would open
\* contains every document any Commit message spoke for.
ToldIsDurable ==
  \A told \in published : told.doc \subseteq Durable.doc /\ told.commit <= Durable.commit

\* How the copies and the phases of the room fit together: what the promises
\* above need to survive every step.
Bookkeeping ==
  /\ instance = "down" => job = NoJob /\ retiring = "none" /\ memory = EmptyRoom /\ ~purged
  /\ job # NoJob => /\ retiring \in {"none", "queued"} /\ ~purged
                    /\ job.commit = memory.commit + 1
  /\ retiring \in {"uploading", "stored"} => job = NoJob /\ memory.commit > 0
  /\ retiring = "stored" => archive = memory
  /\ storage.commit = 0 => storage = EmptyStorage
  /\ archive.commit = 0 => archive = EmptyRoom
  /\ instance = "live" /\ ~purged /\ storage.commit = 0 => archive.commit = 0
  /\ storage.commit > 0 =>
       /\ archive.doc \subseteq storage.doc
       /\ archive.commit <= storage.commit
       /\ archive.commit = storage.commit => archive.doc = storage.doc

\* A commit number never stands for two documents, whatever instance, storage
\* or archive it was counted in.
CommitNamesDocument ==
  \A told \in published \cup {Durable}, other \in published :
    told.commit = other.commit => told.doc = other.doc

\* The receipt and the document are one transaction: a session's receipt is n
\* only if its commands 1..n are all in the stored document.
Backed(doc, receipts) ==
  \A c \in Sessions : \A n \in 1..receipts[c] :
    \E op \in doc : op.id \in Commands /\ SessionOf[op.id] = c /\ op.sequence = n
ReceiptsAreBacked == Backed(storage.doc, storage.receipts)

\* No sequence of a session is executed twice.
SequenceOnce ==
  \A op, other \in Durable.doc :
    /\ op.id \in Commands /\ other.id \in Commands
    /\ SessionOf[op.id] = SessionOf[other.id]
    /\ op.sequence = other.sequence
    => op = other

RoomInv ==
  /\ TypeOK
  /\ Bookkeeping
  /\ MemoryIsDurable
  /\ ToldIsDurable
  /\ CommitNamesDocument
  /\ ReceiptsAreBacked

\* Why: without an idle day nothing is ever archived, and a stored command's
\* sequence is at most the receipt of its session.
OnceInv ==
  /\ archive = EmptyRoom /\ retiring = "none"
  /\ \A op \in storage.doc :
       op.id \in Commands => op.sequence <= storage.receipts[SessionOf[op.id]]
  /\ SequenceOnce

\* However many participants find the room new, it is initialized once.
InitializedOnce ==
  \A op, other \in Durable.doc : op.id \in Initials /\ other.id \in Initials => op = other

\* The commit numbers a socket is told never go back.
CommitsInOrder ==
  \A s \in Sockets : \A i, j \in DOMAIN down[s] :
    i < j /\ down[s][i].kind = "commit" /\ down[s][j].kind = "commit"
      => down[s][i].commit <= down[s][j].commit

\* The operations the commits after message i bring to socket s.
BroadcastAfter(s, i) ==
  UNION {down[s][j].update : j \in {k \in DOMAIN down[s] : k > i /\ down[s][k].kind = "commit"}}

\* Why: no commit told so far is ahead of the durable one.
OrderInv ==
  /\ CommitsInOrder
  /\ \A s \in Sockets : \A i \in DOMAIN down[s] :
       down[s][i].kind = "commit" => down[s][i].commit <= Durable.commit

\* A socket that synchronized misses nothing from then on: what the room holds is
\* what it said it held in its own request of the handshake, and every commit told
\* since; no commit falls between the handshake and the broadcasts.
SyncedSocketsMissNothing ==
  \A s \in Sockets :
    link[s] = "open" /\ instance = "live" =>
      \A i \in DOMAIN down[s] : down[s][i].kind = "syncRequest" =>
        down[s][i].have \cup BroadcastAfter(s, i) = memory.doc

\* Why: a hibernating room comes back to the document it was told about, and a
\* socket hears nothing before it is accepted.
Served == IF instance = "live" THEN memory.doc ELSE Durable.doc
SyncedInv ==
  \A s \in Sockets :
    /\ link[s] \in {"unused", "connecting"} => down[s] = <<>>
    /\ link[s] = "open" =>
         \A i \in DOMAIN down[s] : down[s][i].kind = "syncRequest" =>
           down[s][i].have \cup BroadcastAfter(s, i) = Served

-----------------------------------------------------------------------------
\* Liveness.  The runtime delivers the events it holds (frames, connections,
\* alarms), a started handler goes on, and an archive that is tried again and
\* again is written at last.
Fairness ==
  /\ \A s \in Sockets : WF_roomVars(Handle(s)) /\ WF_roomVars(Accept(s) \/ TurnAway(s))
  /\ WF_roomVars(Publish)
  /\ WF_roomVars(Wake)
  /\ SF_roomVars(AlarmFires)
  /\ WF_roomVars(StartArchive)
  /\ SF_roomVars(ArchiveState)
  /\ SF_roomVars(KeepHot \/ Purge)

\* No frame waits for ever behind another socket's, a retirement or a restart.
FramesAreHandled == \A s \in Sockets : up[s] # <<>> ~> up[s] = <<>>

\* A room everybody has left for good ends up in the archive alone.
Vacant == Attached = {} /\ Connecting = {}
IdleRoomIsFreed == <>[]Vacant => <>[](storage = EmptyStorage)

\* A stored document's commit counter survives every incident: it never falls.
CommitCounterNeverFalls == [][Durable.commit' >= Durable.commit]_roomVars
=============================================================================
