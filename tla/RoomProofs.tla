----------------------------- MODULE RoomProofs -----------------------------
(***************************************************************************)
(* The room alone, and against the ledger.  RoomInv holds of every state:  *)
(* what the room told somebody is in storage, memory mirrors storage, the  *)
(* numbers of its commits never go back.  Under it every step of the room  *)
(* is a step of the ledger on the durable copy, or leaves it alone, and    *)
(* numbered commands are executed exactly once in a room that never spends *)
(* a day without participants: the purge of an idle room drops the command *)
(* receipts with the document.                                             *)
(***************************************************************************)
EXTENDS RoomLedger, TLAPS, SequenceTheorems

LEMMA MessageTypes ==
  ASSUME TypeOK
  PROVE  /\ Ready \in Message
         /\ \A code \in Codes : [kind |-> "retry", code |-> code] \in Message
         /\ \A code \in Codes : [kind |-> "reject", code |-> code] \in Message
         /\ \A id \in Proposals \cup {NoId}, commit \in Nat, update \in SUBSET Op :
              CommitMessage(id, commit, update) \in Message
         /\ \A id \in Commands, accepted \in Nat :
              [kind |-> "conflict", id |-> id, accepted |-> accepted] \in Message
         /\ \A id \in Texts : [kind |-> "textGone", id |-> id] \in Message
         /\ \A ops \in SUBSET Op : [kind |-> "syncRequest", have |-> ops] \in Message
         /\ \A ops \in SUBSET Op : [kind |-> "syncResponse", update |-> ops] \in Message
BY DEF Message, Ready, CommitMessage

LEMMA DeliverType ==
  ASSUME TypeOK, NEW s \in Sockets, NEW messages \in Seq(Message), Deliver(s, messages)
  PROVE  down' \in [Sockets -> Seq(Message)]
<1>1. down[s] \o messages \in Seq(Message)
  BY DEF TypeOK
<1> QED BY <1>1 DEF TypeOK, Deliver

LEMMA ConsumeType ==
  ASSUME TypeOK, NEW s \in Sockets, up[s] # <<>>, Consume(s)
  PROVE  up' \in [Sockets -> Seq(Frame)]
<1>1. Tail(up[s]) \in Seq(Frame)
  BY DEF TypeOK
<1> QED BY <1>1 DEF TypeOK, Consume

LEMMA HeadFrame ==
  ASSUME TypeOK, NEW s \in Sockets, NEW kind, Takes(s, kind)
  PROVE  /\ Head(up[s]) \in Frame
         /\ Head(up[s]).kind = kind
         /\ kind = "syncResponse" => Head(up[s]).update \in SUBSET TextOps
         /\ kind = "text" => Head(up[s]).id \in Texts /\ Head(up[s]).update \in SUBSET TextOps
         /\ kind = "initialize" => Head(up[s]).id \in Initials
         /\ kind = "commands" => Head(up[s]).id \in Commands /\ Head(up[s]).sequence \in Nat \ {0}
<1>1. Head(up[s]) \in Frame
  BY DEF TypeOK, Takes
<1> QED BY <1>1 DEF Takes, Frame

-----------------------------------------------------------------------------
(* Type correctness *)

LEMMA EmptyTypes ==
  /\ EmptyRoom \in RoomState
  /\ EmptyStorage \in StorageType
  /\ NoJob \in JobType
  /\ EmptyStorage.commit = 0 /\ EmptyStorage.doc = {} /\ EmptyRoom.commit = 0
BY DEF EmptyRoom, RoomState, EmptyStorage, StorageType, NoReceipts, NoJob, JobType

LEMMA OpTypes ==
  /\ \A id \in Proposals, sequence \in Nat, commit \in Nat : CommandOp(id, sequence, commit) \in Op
  /\ TextOps \subseteq Op
BY DEF CommandOp, TextOp, TextOps, Op, Proposals

LEMMA AnswerType ==
  ASSUME TypeOK, NEW s \in Sockets, up[s] # <<>>,
         NEW messages \in Seq(Message), Answer(s, messages),
         refusals' \in [Sockets -> Nat], published' \in SUBSET RoomState
  PROVE  TypeOK'
<1>1. down' \in [Sockets -> Seq(Message)]
  BY DeliverType DEF Answer
<1>2. up' \in [Sockets -> Seq(Frame)]
  BY ConsumeType DEF Answer
<1> QED BY <1>1, <1>2 DEF Answer, TypeOK, durableVars

LEMMA CodeTypes ==
  /\ "storage-unavailable" \in Codes /\ "command-gap" \in Codes
  /\ "invalid-message" \in Codes /\ "invalid-document" \in Codes
  /\ "repeated-command-refusal" \in Codes
BY DEF Codes

LEMMA RetryType ==
  ASSUME TypeOK, NEW s \in Sockets, up[s] # <<>>, NEW code \in Codes, Retry(s, code)
  PROVE  TypeOK'
<1>1. <<[kind |-> "retry", code |-> code]>> \in Seq(Message)
  BY MessageTypes
<1> QED BY <1>1, AnswerType DEF Retry, TypeOK

LEMMA RejectType ==
  ASSUME TypeOK, NEW s \in Sockets, NEW code \in Codes, Reject(s, code)
  PROVE  TypeOK'
<1>1. <<[kind |-> "reject", code |-> code]>> \in Seq(Message)
  BY MessageTypes
<1>2. down' \in [Sockets -> Seq(Message)]
  BY <1>1, DeliverType DEF Reject
<1>3. up' \in [Sockets -> Seq(Frame)]
  <2>1. <<>> \in Seq(Frame)
    OBVIOUS
  <2> QED BY <2>1 DEF Reject, TypeOK
<1>4. link' \in [Sockets -> {"unused", "connecting", "open", "closing", "closed"}]
  BY DEF Reject, TypeOK
<1> QED BY <1>2, <1>3, <1>4 DEF Reject, TypeOK, memoryVars, durableVars

LEMMA ReplayType ==
  ASSUME TypeOK, NEW s \in Sockets, up[s] # <<>>, NEW id \in Proposals, ReplayCurrent(s, id)
  PROVE  TypeOK'
<1>1. memory.commit \in Nat /\ memory.doc \in SUBSET Op
  BY DEF TypeOK, RoomState
<1>2. <<CommitMessage(id, memory.commit, memory.doc)>> \in Seq(Message)
  BY <1>1, MessageTypes
<1>3. published' \in SUBSET RoomState
  BY DEF ReplayCurrent, TypeOK
<1> QED BY <1>2, <1>3, AnswerType DEF ReplayCurrent, TypeOK

LEMMA PersistType ==
  ASSUME TypeOK, NEW s \in Sockets, up[s] # <<>>, NEW id \in Proposals \cup {NoId},
         NEW kind \in {"proposal", "text"}, NEW doc \in SUBSET Op,
         NEW receipts \in [Sessions -> Nat], Persist(s, id, kind, doc, receipts)
  PROVE  TypeOK'
<1>1. up' \in [Sockets -> Seq(Frame)]
  BY ConsumeType DEF Persist, NextCommit
<1>2. memory.commit + 1 \in Nat
  BY DEF TypeOK, RoomState
<1>3. storage' \in StorageType /\ job' \in JobType
  BY <1>2 DEF Persist, NextCommit, StorageType, JobType
<1> QED BY <1>1, <1>3 DEF Persist, NextCommit, TypeOK

LEMMA StorageFailsType ==
  ASSUME TypeOK, NEW s \in Sockets, up[s] # <<>>, StorageFails(s)
  PROVE  TypeOK'
BY CodeTypes, RetryType DEF StorageFails

LEMMA RefuseType ==
  ASSUME TypeOK, NEW s \in Sockets, up[s] # <<>>, NEW conflict \in Message, Refuse(s, conflict)
  PROVE  TypeOK'
<1>1. CASE refusals[s] < MaxRefusals
  <2>1. /\ Answer(s, <<conflict>>)
        /\ refusals' = [refusals EXCEPT ![s] = @ + 1]
        /\ published' = published
    BY <1>1 DEF Refuse
  <2>2. /\ refusals' \in [Sockets -> Nat] /\ published' \in SUBSET RoomState
        /\ <<conflict>> \in Seq(Message)
    BY <2>1 DEF TypeOK
  <2> QED BY <2>1, <2>2, AnswerType
<1>2. CASE ~(refusals[s] < MaxRefusals)
  BY <1>2, CodeTypes, RejectType DEF Refuse
<1> QED BY <1>1, <1>2

LEMMA SyncRequestType ==
  ASSUME TypeOK, NEW s \in Sockets, SyncRequest(s)
  PROVE  TypeOK'
<1> DEFINE update == memory.doc \ Head(up[s]).have
<1>1. memory.doc \in SUBSET Op /\ update \in SUBSET Op
  BY DEF TypeOK, RoomState
<1>2. <<[kind |-> "syncResponse", update |-> update],
        [kind |-> "syncRequest", have |-> memory.doc]>> \in Seq(Message)
  BY <1>1, MessageTypes
<1> QED BY <1>2, AnswerType DEF SyncRequest, Takes, TypeOK

LEMMA SyncResponseType ==
  ASSUME TypeOK, NEW s \in Sockets, SyncResponse(s)
  PROVE  TypeOK'
<1> DEFINE update == Head(up[s]).update
<1>1. up[s] # <<>> /\ update \in SUBSET TextOps
  BY HeadFrame DEF SyncResponse, Takes
<1>2. memory.doc \cup update \in SUBSET Op /\ storage.receipts \in [Sessions -> Nat]
  BY <1>1, OpTypes DEF TypeOK, RoomState, StorageType
<1>3. CASE Answer(s, <<>>) /\ UNCHANGED <<refusals, published>>
  <2>1. /\ <<>> \in Seq(Message)
        /\ refusals' \in [Sockets -> Nat] /\ published' \in SUBSET RoomState
    BY <1>3 DEF TypeOK
  <2> QED BY <1>1, <1>3, <2>1, AnswerType
<1>4. CASE Reject(s, "invalid-document")
  BY <1>4, CodeTypes, RejectType
<1>5. CASE Persist(s, NoId, "text", memory.doc \cup update, storage.receipts)
  BY <1>1, <1>2, <1>5, PersistType
<1>6. CASE StorageFails(s)
  BY <1>1, <1>6, StorageFailsType
<1> QED BY <1>3, <1>4, <1>5, <1>6 DEF SyncResponse

LEMMA TextType ==
  ASSUME TypeOK, NEW s \in Sockets, Text(s)
  PROVE  TypeOK'
<1> DEFINE frame == Head(up[s])
           doc == memory.doc \cup frame.update
<1>1. up[s] # <<>> /\ frame.id \in Texts /\ frame.update \in SUBSET TextOps
  BY HeadFrame DEF Text, Takes
<1>2. doc \in SUBSET Op /\ storage.receipts \in [Sessions -> Nat] /\ memory.commit \in Nat
  BY <1>1, OpTypes DEF TypeOK, RoomState, StorageType
<1>3. frame.id \in Proposals
  BY <1>1 DEF Proposals
<1>4. CASE Refuse(s, [kind |-> "textGone", id |-> frame.id])
  BY <1>1, <1>4, MessageTypes, RefuseType
<1>5. CASE Reject(s, "invalid-document")
  BY <1>5, CodeTypes, RejectType
<1>6. CASE /\ Answer(s, <<CommitMessage(frame.id, memory.commit, {})>>)
           /\ published' = published \cup {memory}
           /\ UNCHANGED refusals
  <2>1. <<CommitMessage(frame.id, memory.commit, {})>> \in Seq(Message)
    BY <1>2, <1>3, MessageTypes
  <2>2. published' \in SUBSET RoomState /\ refusals' \in [Sockets -> Nat]
    BY <1>6 DEF TypeOK
  <2> QED BY <1>1, <1>6, <2>1, <2>2, AnswerType
<1>7. CASE Persist(s, frame.id, "text", doc, storage.receipts)
  BY <1>1, <1>2, <1>3, <1>7, PersistType
<1>8. CASE StorageFails(s)
  BY <1>1, <1>8, StorageFailsType
<1> QED BY <1>4, <1>5, <1>6, <1>7, <1>8 DEF Text

LEMMA InitializeType ==
  ASSUME TypeOK, NEW s \in Sockets, Initialize(s)
  PROVE  TypeOK'
<1> DEFINE id == Head(up[s]).id
<1>1. up[s] # <<>> /\ id \in Initials /\ id \in Proposals
  BY HeadFrame DEF Initialize, Takes, Proposals
<1>2. memory.doc \cup {CommandOp(id, 0, 1)} \in SUBSET Op /\ storage.receipts \in [Sessions -> Nat]
  <2>1. CommandOp(id, 0, 1) \in Op
    BY <1>1, OpTypes
  <2>2. memory.doc \in SUBSET Op /\ storage.receipts \in [Sessions -> Nat]
    BY DEF TypeOK, RoomState, StorageType
  <2> QED BY <2>1, <2>2
<1>3. CASE ReplayCurrent(s, id)
  BY <1>1, <1>3, ReplayType
<1>4. CASE Persist(s, id, "proposal", memory.doc \cup {CommandOp(id, 0, 1)}, storage.receipts)
  BY <1>1, <1>2, <1>4, PersistType
<1>5. CASE StorageFails(s)
  BY <1>1, <1>5, StorageFailsType
<1> QED BY <1>3, <1>4, <1>5 DEF Initialize

LEMMA CommandsType ==
  ASSUME TypeOK, NEW s \in Sockets, CommandsOf(s)
  PROVE  TypeOK'
<1> DEFINE frame == Head(up[s])
           session == SessionOf[frame.id]
           accepted == storage.receipts[session]
           doc == memory.doc \cup {CommandOp(frame.id, frame.sequence, memory.commit + 1)}
<1>1. up[s] # <<>> /\ frame.id \in Commands /\ frame.sequence \in Nat \ {0} /\ frame.id \in Proposals
  BY HeadFrame DEF CommandsOf, AlreadyAccepted, ReceiptsAfter, Takes, Proposals
<1>2. session \in Sessions /\ storage.receipts \in [Sessions -> Nat] /\ accepted \in Nat
  BY <1>1, RoomAssumption DEF TypeOK, StorageType
<1>3. doc \in SUBSET Op
  <2>1. memory.commit + 1 \in Nat /\ memory.doc \in SUBSET Op
    BY DEF TypeOK, RoomState
  <2> QED BY <1>1, <2>1, OpTypes
<1>4. CASE StorageFails(s)
  BY <1>1, <1>4, StorageFailsType
<1>5. CASE ReplayCurrent(s, frame.id)
  BY <1>1, <1>5, ReplayType
<1>6. CASE Retry(s, "command-gap")
  BY <1>1, <1>6, CodeTypes, RetryType
<1>7. CASE Reject(s, "invalid-document")
  BY <1>7, CodeTypes, RejectType
<1>8. CASE Refuse(s, [kind |-> "conflict", id |-> frame.id, accepted |-> accepted])
  BY <1>1, <1>2, <1>8, MessageTypes, RefuseType
<1>9. CASE Persist(s, frame.id, "proposal", doc,
                   [storage.receipts EXCEPT ![session] = frame.sequence])
  <2>1. [storage.receipts EXCEPT ![session] = frame.sequence] \in [Sessions -> Nat]
    BY <1>1, <1>2
  <2> QED BY <1>1, <1>3, <1>9, <2>1, PersistType
<1> QED BY <1>4, <1>5, <1>6, <1>7, <1>8, <1>9 DEF CommandsOf, AlreadyAccepted, ReceiptsAfter

LEMMA PublishType ==
  ASSUME TypeOK, Publish
  PROVE  TypeOK'
<1>1. /\ job.doc \in SUBSET Op /\ job.commit \in Nat
      /\ job.id \in Proposals \cup {NoId} /\ job.kind \in {"none", "proposal", "text"}
  BY DEF TypeOK, JobType
<1>2. memory' \in RoomState
  BY <1>1 DEF Publish, RoomState
<1>3. ASSUME NEW p \in Sockets
      PROVE  PublishedTo(p) \in Seq(Message)
  <2> DEFINE update == job.doc \ memory.doc
  <2>1. update \in SUBSET Op /\ {} \in SUBSET Op
    BY <1>1
  <2>2. /\ CommitMessage(NoId, job.commit, update) \in Message
        /\ CommitMessage(job.id, job.commit, update) \in Message
        /\ CommitMessage(job.id, job.commit, {}) \in Message
    BY <1>1, <2>1, MessageTypes
  <2>3. /\ <<CommitMessage(NoId, job.commit, update),
             CommitMessage(job.id, job.commit, {})>> \in Seq(Message)
        /\ <<CommitMessage(job.id, job.commit, update)>> \in Seq(Message)
        /\ <<CommitMessage(NoId, job.commit, update)>> \in Seq(Message)
    BY <2>2
  <2> QED BY <2>3 DEF PublishedTo
<1>4. \A p \in Sockets : down[p] \in Seq(Message) /\ down[p] \o PublishedTo(p) \in Seq(Message)
  BY <1>3 DEF TypeOK
<1>5. down' \in [Sockets -> Seq(Message)]
  BY <1>4 DEF Publish
<1>6. job' \in JobType /\ published' \in SUBSET RoomState
  BY <1>2, EmptyTypes DEF Publish, TypeOK
<1> QED BY <1>2, <1>5, <1>6 DEF Publish, TypeOK, durableVars

LEMMA RestoreType ==
  ASSUME TypeOK
  PROVE  /\ Rehydrated \in StorageType
         /\ Restored \in StorageType
         /\ [doc |-> Restored.doc, commit |-> Restored.commit] \in RoomState
<1>1. storage \in StorageType /\ archive \in RoomState
  BY DEF TypeOK
<1>2. Rehydrated \in StorageType
  BY <1>1 DEF Rehydrated, StorageType, RoomState
<1>3. Restored \in StorageType
  BY <1>2 DEF Restored, StorageType
<1> QED BY <1>2, <1>3 DEF StorageType, RoomState

LEMMA WakeType == TypeOK /\ Wake => TypeOK'
<1> SUFFICES ASSUME TypeOK, Wake PROVE TypeOK'
  OBVIOUS
<1>1. storage' \in StorageType /\ memory' \in RoomState
  BY RestoreType DEF Wake, Restore
<1>2. refusals' \in [Sockets -> Nat]
  BY DEF Wake
<1> QED BY <1>1, <1>2 DEF Wake, Restore, TypeOK

LEMMA WakeFailsType == TypeOK /\ WakeFails => TypeOK'
<1> SUFFICES ASSUME TypeOK, WakeFails PROVE TypeOK'
  OBVIOUS
<1> QED BY RestoreType DEF WakeFails, TypeOK, memoryVars

LEMMA AcceptType ==
  ASSUME TypeOK, NEW s \in Sockets, Accept(s)
  PROVE  TypeOK'
<1>1. <<Ready>> \in Seq(Message)
  BY MessageTypes
<1>2. down' \in [Sockets -> Seq(Message)]
  BY <1>1, DeliverType DEF Accept, Reopen
<1>3. /\ storage' \in StorageType /\ legacy' \in BOOLEAN /\ archive' \in RoomState
      /\ memory' \in RoomState /\ purged' \in BOOLEAN
  BY RestoreType DEF Accept, Reopen, Restore, TypeOK, durableVars
<1> QED BY <1>2, <1>3 DEF Accept, Reopen, TypeOK

LEMMA CloseType ==
  ASSUME TypeOK, NEW s \in Sockets, Close(s)
  PROVE  TypeOK'
<1>1. <<>> \in Seq(Frame)
  OBVIOUS
<1> QED BY <1>1 DEF Close, TypeOK, memoryVars, durableVars

LEMMA ConnectType ==
  ASSUME TypeOK, NEW s \in Sockets, Connect(s) \/ TurnAway(s)
  PROVE  TypeOK'
BY DEF Connect, TurnAway, TypeOK, memoryVars, durableVars

LEMMA ForgetType ==
  ASSUME TypeOK, Forget, link' \in [Sockets -> {"unused", "connecting", "open", "closing", "closed"}],
         up' \in [Sockets -> Seq(Frame)], storage' \in StorageType
  PROVE  TypeOK'
BY EmptyTypes DEF Forget, TypeOK

LEMMA CrashType == TypeOK /\ (Crash \/ ReopenFails) => TypeOK'
<1> SUFFICES ASSUME TypeOK, Crash \/ ReopenFails PROVE TypeOK'
  OBVIOUS
<1>1. <<>> \in Seq(Frame)
  OBVIOUS
<1>2. up' \in [Sockets -> Seq(Frame)]
  BY <1>1 DEF Crash, ReopenFails, Break
<1>3. link' \in [Sockets -> {"unused", "connecting", "open", "closing", "closed"}]
  BY DEF Crash, ReopenFails, Break, TypeOK
<1>4. storage' \in StorageType
  BY RestoreType DEF Crash, ReopenFails, TypeOK
<1> QED BY <1>2, <1>3, <1>4, ForgetType DEF Crash, ReopenFails

LEMMA HibernateType == TypeOK /\ Hibernate => TypeOK'
BY ForgetType DEF Hibernate, TypeOK

LEMMA AlarmType == TypeOK /\ (AlarmFires \/ ArchiveFails \/ Retire) => TypeOK'
BY EmptyTypes DEF AlarmFires, ArchiveFails, Retire, StartArchive, ArchiveState, KeepHot,
                  Purge, TypeOK, memoryVars, durableVars

LEMMA ClientSendsType ==
  ASSUME TypeOK, NEW s \in Sockets, NEW frame \in Frame, ClientSends(s, frame)
  PROVE  TypeOK'
<1>1. Append(up[s], frame) \in Seq(Frame)
  BY DEF TypeOK
<1>2. up' \in [Sockets -> Seq(Frame)]
  BY <1>1 DEF ClientSends, Transmit, TypeOK
<1> QED BY <1>2 DEF ClientSends, TypeOK, memoryVars, durableVars

LEMMA StepType == TypeOK /\ [Next]_roomVars => TypeOK'
<1> SUFFICES ASSUME TypeOK, [Next]_roomVars PROVE TypeOK'
  OBVIOUS
<1>1. ASSUME NEW s \in Sockets, Handle(s) PROVE TypeOK'
  <2>1. CASE Malformed(s)
    BY <2>1, CodeTypes, RejectType DEF Malformed
  <2> QED BY <1>1, <2>1, SyncRequestType, SyncResponseType, TextType, InitializeType,
             CommandsType DEF Handle
<1>2. CASE UNCHANGED roomVars
  BY <1>2 DEF roomVars, memoryVars, durableVars, TypeOK
<1> QED
  BY <1>1, <1>2, AcceptType, ConnectType, CloseType, PublishType, WakeType, WakeFailsType, CrashType,
     HibernateType, AlarmType, ClientSendsType DEF Next, RoomNext

LEMMA InitType == RoomInit => TypeOK
<1> SUFFICES ASSUME RoomInit PROVE TypeOK
  OBVIOUS
<1>1. <<>> \in Seq(Frame) /\ <<>> \in Seq(Message)
  OBVIOUS
<1>2. storage \in StorageType
  <2>1. CASE storage = EmptyStorage
    BY <2>1, EmptyTypes
  <2>2. ASSUME NEW id \in Initials,
               storage = [EmptyStorage EXCEPT !.doc = {CommandOp(id, 0, 1)}, !.commit = 1]
        PROVE  storage \in StorageType
    <3>1. {CommandOp(id, 0, 1)} \in SUBSET Op
      BY OpTypes DEF Proposals
    <3> QED BY <2>2, <3>1, EmptyTypes DEF StorageType
  <2> QED BY <2>1, <2>2 DEF RoomInit
<1> QED BY <1>1, <1>2, EmptyTypes DEF RoomInit, TypeOK

\* Every variable keeps its type: documents stay sets of well-formed operations,
\* and every message sent is one the wire protocol has.
THEOREM TypeCorrect == Spec => []TypeOK
BY InitType, StepType, PTL DEF Spec

-----------------------------------------------------------------------------
(* Safety: RoomInv is inductive.  A step does one of six things to the      *)
(* copies of the document: nothing, tell the current one, persist the next  *)
(* one, publish it, restore it in a new instance, archive or purge it.      *)

SafetyInv ==
  /\ Bookkeeping
  /\ MemoryIsDurable
  /\ ToldIsDurable
  /\ CommitNamesDocument
  /\ ReceiptsAreBacked
CounterGrows == Durable.commit' >= Durable.commit
safetyVars == <<instance, memory, purged, job, storage, archive>>

LEMMA DurableFacts ==
  ASSUME TypeOK, Bookkeeping
  PROVE  /\ Durable.commit \in Nat
         /\ storage.commit > 0 => Durable = [doc |-> storage.doc, commit |-> storage.commit]
         /\ storage.commit = 0 => Durable = archive
         /\ storage.commit \in Nat /\ archive.commit \in Nat /\ memory.commit \in Nat
<1>1. storage \in StorageType /\ archive \in RoomState /\ memory \in RoomState
  BY DEF TypeOK
<1>2. storage.commit \in Nat /\ archive.commit \in Nat /\ memory.commit \in Nat
  BY <1>1 DEF StorageType, RoomState
<1>3. CASE storage.commit > 0
  BY <1>2, <1>3 DEF Durable, Rehydrated
<1>4. CASE storage.commit = 0 /\ archive.commit > 0
  <2>1. Rehydrated = [storage EXCEPT !.doc = archive.doc, !.commit = archive.commit]
    BY <1>4 DEF Rehydrated
  <2>2. Rehydrated.doc = archive.doc /\ Rehydrated.commit = archive.commit
    BY <1>1, <2>1 DEF StorageType
  <2>3. archive = [doc |-> archive.doc, commit |-> archive.commit]
    BY <1>1 DEF RoomState
  <2> QED BY <1>2, <1>4, <2>2, <2>3 DEF Durable
<1>5. CASE storage.commit = 0 /\ archive.commit = 0
  <2>1. storage = EmptyStorage /\ archive = EmptyRoom
    BY <1>5 DEF Bookkeeping
  <2>2. Rehydrated = EmptyStorage
    BY <1>5, <2>1 DEF Rehydrated
  <2> QED BY <1>2, <1>5, <2>1, <2>2 DEF Durable, EmptyStorage, EmptyRoom
<1> QED BY <1>2, <1>3, <1>4, <1>5

\* A live room that is not purged serves the durable document.
LEMMA MemoryFacts ==
  ASSUME TypeOK, SafetyInv, instance = "live", job = NoJob, ~purged
  PROVE  Durable = memory /\ memory.doc = storage.doc /\ memory.commit = storage.commit
<1>1. storage.doc = memory.doc /\ storage.commit = memory.commit
  BY DEF SafetyInv, MemoryIsDurable
<1>2. memory = [doc |-> memory.doc, commit |-> memory.commit]
  BY DEF TypeOK, RoomState
<1>3. CASE storage.commit > 0
  BY <1>1, <1>2, <1>3, DurableFacts DEF SafetyInv
<1>4. CASE storage.commit = 0
  <2>1. archive = EmptyRoom /\ storage = EmptyStorage
    BY <1>4 DEF SafetyInv, Bookkeeping
  <2>2. memory = EmptyRoom
    BY <1>1, <1>2, <2>1, EmptyTypes DEF EmptyRoom
  <2> QED BY <1>1, <1>4, <2>1, <2>2, DurableFacts DEF SafetyInv
<1> QED BY <1>1, <1>3, <1>4, DurableFacts DEF SafetyInv

LEMMA SameCopies ==
  ASSUME TypeOK, SafetyInv, UNCHANGED safetyVars, published' = published,
         purged => Attached' = {},
         retiring' = retiring \/ (retiring' \in {"none", "queued"} /\ instance = "live")
  PROVE  SafetyInv' /\ CounterGrows
<1>1. Durable' = Durable
  BY DEF safetyVars, Durable, Rehydrated
<1>2. Bookkeeping'
  BY DEF SafetyInv, Bookkeeping, safetyVars
<1>3. MemoryIsDurable'
  BY DEF SafetyInv, MemoryIsDurable, safetyVars
<1>4. ToldIsDurable' /\ CommitNamesDocument'
  BY <1>1 DEF SafetyInv, ToldIsDurable, CommitNamesDocument
<1>5. ReceiptsAreBacked'
  BY DEF SafetyInv, ReceiptsAreBacked, safetyVars
<1>6. CounterGrows
  BY <1>1, DurableFacts DEF CounterGrows, SafetyInv
<1> QED BY <1>2, <1>3, <1>4, <1>5, <1>6 DEF SafetyInv

LEMMA TellCurrent ==
  ASSUME TypeOK, SafetyInv, UNCHANGED safetyVars, published' = published \cup {memory},
         instance = "live", job = NoJob, ~purged, retiring' = retiring
  PROVE  SafetyInv' /\ CounterGrows
<1>1. Durable' = Durable /\ Durable = memory /\ Durable.commit \in Nat
  BY MemoryFacts, DurableFacts DEF SafetyInv, safetyVars, Durable, Rehydrated
<1>2. Bookkeeping' /\ MemoryIsDurable' /\ ReceiptsAreBacked'
  BY DEF SafetyInv, Bookkeeping, MemoryIsDurable, ReceiptsAreBacked, safetyVars
<1>3. ToldIsDurable'
  BY <1>1 DEF SafetyInv, ToldIsDurable
<1>4. CommitNamesDocument'
  BY <1>1 DEF SafetyInv, CommitNamesDocument
<1>5. CounterGrows
  BY <1>1 DEF CounterGrows
<1> QED BY <1>2, <1>3, <1>4, <1>5 DEF SafetyInv

LEMMA PersistStep ==
  ASSUME TypeOK, SafetyInv, Idle, ~purged,
         NEW s \in Sockets, NEW id \in Proposals \cup {NoId}, NEW kind \in {"proposal", "text"},
         NEW doc \in SUBSET Op, NEW receipts \in [Sessions -> Nat],
         Persist(s, id, kind, doc, receipts),
         memory.doc \subseteq doc,
         Backed(doc, receipts)
  PROVE  SafetyInv' /\ CounterGrows
<1>1. /\ instance = "live" /\ job = NoJob /\ retiring \in {"none", "queued"}
      /\ Durable = memory /\ memory.doc = storage.doc /\ memory.commit = storage.commit
  BY MemoryFacts DEF Idle
<1>2. memory.commit \in Nat /\ archive.commit \in Nat
  BY DurableFacts DEF SafetyInv
<1>3. /\ storage' = [doc |-> doc, commit |-> memory.commit + 1, receipts |-> receipts]
      /\ job' = [kind |-> kind, socket |-> s, id |-> id, doc |-> doc,
                 commit |-> memory.commit + 1]
      /\ UNCHANGED <<instance, memory, purged, archive, retiring, published>>
  BY DEF Persist, NextCommit
<1>4. storage'.commit = memory.commit + 1 /\ storage'.commit > 0 /\ storage'.doc = doc
  BY <1>2, <1>3
<1>5. job' # NoJob /\ job'.doc = doc /\ job'.commit = memory.commit + 1
  BY <1>3 DEF NoJob
<1>6. archive.doc \subseteq doc /\ archive.commit < memory.commit + 1
  <2>1. CASE storage.commit > 0
    BY <1>1, <1>2, <2>1 DEF SafetyInv, Bookkeeping
  <2>2. CASE storage.commit = 0
    BY <1>1, <1>2, <2>2, EmptyTypes DEF SafetyInv, Bookkeeping, EmptyRoom
  <2> QED BY <1>1, <1>2, <2>1, <2>2
<1>7. Durable' = [doc |-> doc, commit |-> memory.commit + 1]
  BY <1>2, <1>3, <1>4 DEF Durable, Rehydrated
<1>8. Bookkeeping'
  BY <1>1, <1>2, <1>3, <1>4, <1>5, <1>6 DEF SafetyInv, Bookkeeping
<1>9. MemoryIsDurable'
  BY <1>3, <1>4, <1>5 DEF MemoryIsDurable
<1>10. ToldIsDurable' /\ CommitNamesDocument'
  <2>1. \A told \in published : /\ told.doc \subseteq memory.doc /\ told.commit <= memory.commit
                                /\ told.commit \in Nat
    BY <1>1 DEF SafetyInv, ToldIsDurable, TypeOK, RoomState
  <2>2. ToldIsDurable'
    BY <1>2, <1>3, <1>7, <2>1 DEF ToldIsDurable
  <2>3. CommitNamesDocument'
    BY <1>2, <1>3, <1>7, <2>1 DEF SafetyInv, CommitNamesDocument
  <2> QED BY <2>2, <2>3
<1>11. ReceiptsAreBacked'
  BY <1>3 DEF ReceiptsAreBacked
<1>12. CounterGrows
  BY <1>1, <1>2, <1>7 DEF CounterGrows
<1> QED BY <1>8, <1>9, <1>10, <1>11, <1>12 DEF SafetyInv

LEMMA PublishStep ==
  ASSUME TypeOK, SafetyInv, Publish
  PROVE  SafetyInv' /\ CounterGrows
<1>1. /\ instance = "live" /\ job # NoJob /\ ~purged /\ retiring \in {"none", "queued"}
      /\ job.commit = memory.commit + 1 /\ storage.doc = job.doc /\ storage.commit = job.commit
  BY DEF SafetyInv, Bookkeeping, MemoryIsDurable, Publish
<1>2. /\ memory' = [doc |-> job.doc, commit |-> job.commit]
      /\ job' = NoJob /\ published' = published \cup {memory'}
      /\ UNCHANGED <<instance, purged, storage, archive, retiring, link>>
  BY DEF Publish, durableVars
<1>3. memory.commit \in Nat /\ storage.commit > 0
  BY <1>1, DurableFacts DEF SafetyInv
<1>4. Durable' = Durable /\ Durable = memory'
  BY <1>1, <1>2, <1>3, DurableFacts DEF SafetyInv, Durable, Rehydrated
<1>5. memory'.commit = storage.commit /\ memory'.doc = storage.doc
  BY <1>1, <1>2
<1>6. Bookkeeping'
  BY <1>1, <1>2, <1>3, <1>5 DEF SafetyInv, Bookkeeping
<1>7. MemoryIsDurable'
  BY <1>1, <1>2, <1>5 DEF MemoryIsDurable
<1>8. memory'.commit <= memory'.commit
  BY <1>1, <1>2, <1>3
<1>9. ToldIsDurable' /\ CommitNamesDocument'
  BY <1>2, <1>4, <1>8 DEF SafetyInv, ToldIsDurable, CommitNamesDocument
<1>10. ReceiptsAreBacked'
  BY <1>2 DEF SafetyInv, ReceiptsAreBacked
<1>11. CounterGrows
  BY <1>4, DurableFacts DEF CounterGrows, SafetyInv
<1> QED BY <1>6, <1>7, <1>9, <1>10, <1>11 DEF SafetyInv

\* What a restoration writes is what was durable, perhaps under one commit more.
LEMMA RestoredFacts ==
  ASSUME TypeOK, SafetyInv
  PROVE  /\ Rehydrated.doc = Durable.doc /\ Rehydrated.commit = Durable.commit
         /\ Restored.doc = Durable.doc
         /\ Restored.commit = Durable.commit \/ Restored.commit = Durable.commit + 1
         /\ Durable.commit = 0 => Restored = EmptyStorage /\ Rehydrated = EmptyStorage
         /\ Restored.receipts = storage.receipts /\ Rehydrated.receipts = storage.receipts
<1>1. Rehydrated.doc = Durable.doc /\ Rehydrated.commit = Durable.commit
  BY DEF Durable
<1>2. Rehydrated \in StorageType /\ storage \in StorageType
  BY RestoreType DEF TypeOK
<1>3. Restored.doc = Rehydrated.doc /\ Restored.receipts = Rehydrated.receipts
      /\ (Restored.commit = Rehydrated.commit \/ Restored.commit = Rehydrated.commit + 1)
  BY <1>2 DEF Restored, StorageType
<1>4. Rehydrated.receipts = storage.receipts
  BY <1>2 DEF Rehydrated, StorageType
<1>5. ASSUME Durable.commit = 0 PROVE Restored = EmptyStorage /\ Rehydrated = EmptyStorage
  <2>1. storage.commit = 0 /\ archive.commit = 0
    BY <1>5, DurableFacts DEF SafetyInv
  <2>2. Rehydrated = storage /\ storage = EmptyStorage
    BY <2>1 DEF Rehydrated, SafetyInv, Bookkeeping
  <2> QED BY <1>1, <1>5, <2>2, DurableFacts DEF Restored, SafetyInv
<1> QED BY <1>1, <1>3, <1>4, <1>5

LEMMA RestoreStep ==
  ASSUME TypeOK, SafetyInv, job = NoJob, retiring' = retiring,
         retiring \in {"none", "queued"}, job' = job, instance' = "live", published' = published,
         Restore
  PROVE  SafetyInv' /\ CounterGrows
<1>1. /\ storage' = Restored /\ archive' = archive /\ purged' = FALSE
      /\ memory' = [doc |-> Restored.doc, commit |-> Restored.commit]
  BY DEF Restore
<1>2. Durable.commit \in Nat /\ archive.commit \in Nat /\ storage.commit \in Nat
  BY DurableFacts DEF SafetyInv
<1>3. /\ storage'.doc = Durable.doc
      /\ storage'.commit = Durable.commit \/ storage'.commit = Durable.commit + 1
      /\ Durable.commit = 0 => storage' = EmptyStorage
      /\ storage'.receipts = storage.receipts
  BY <1>1, RestoredFacts
<1>4. storage'.commit \in Nat /\ storage'.commit >= Durable.commit
  BY <1>2, <1>3
<1>5. /\ archive.doc \subseteq Durable.doc /\ archive.commit <= Durable.commit
      /\ archive.commit = Durable.commit => archive.doc = Durable.doc
      /\ Durable.commit = 0 => archive.commit = 0
  BY <1>2, DurableFacts DEF SafetyInv, Bookkeeping
<1>6. Bookkeeping'
  BY <1>1, <1>2, <1>3, <1>4, <1>5, EmptyTypes DEF SafetyInv, Bookkeeping
<1>7. MemoryIsDurable'
  BY <1>1, <1>3 DEF MemoryIsDurable
<1>8. Durable'.doc = Durable.doc /\ Durable'.commit = storage'.commit
  <2>1. CASE storage'.commit > 0
    BY <1>3, <2>1 DEF Durable, Rehydrated
  <2>2. CASE storage'.commit = 0
    <3>1. Durable.commit = 0 /\ archive'.commit = 0 /\ storage' = EmptyStorage
      BY <1>1, <1>2, <1>3, <1>5, <2>2
    <3>2. Rehydrated' = EmptyStorage
      BY <3>1 DEF Rehydrated
    <3> QED BY <1>3, <3>1, <3>2, EmptyTypes DEF Durable
  <2> QED BY <1>4, <2>1, <2>2
<1>9. ToldIsDurable' /\ CommitNamesDocument'
  <2>1. \A told \in published : /\ told.doc \subseteq Durable.doc /\ told.commit <= Durable.commit
                                /\ told.commit \in Nat
    BY DEF SafetyInv, ToldIsDurable, TypeOK, RoomState
  <2>2. ToldIsDurable'
    BY <1>2, <1>4, <1>8, <2>1 DEF ToldIsDurable
  <2>3. \A told \in published : told.commit = Durable'.commit => told.doc = Durable'.doc
    BY <1>2, <1>3, <1>4, <1>8, <2>1 DEF SafetyInv, CommitNamesDocument
  <2> QED BY <2>2, <2>3 DEF SafetyInv, CommitNamesDocument
<1>10. ReceiptsAreBacked'
  <2>1. CASE storage.commit > 0
    BY <1>1, <1>3, <2>1, DurableFacts DEF SafetyInv, ReceiptsAreBacked, Backed
  <2>2. CASE storage.commit = 0
    <3>1. \A c \in Sessions : storage.receipts[c] = 0
      BY <2>2 DEF SafetyInv, Bookkeeping, EmptyStorage, NoReceipts
    <3> QED BY <1>3, <3>1 DEF ReceiptsAreBacked, Backed
  <2> QED BY <1>2, <2>1, <2>2
<1>11. CounterGrows
  BY <1>4, <1>8 DEF CounterGrows
<1> QED BY <1>6, <1>7, <1>9, <1>10, <1>11 DEF SafetyInv

LEMMA WakeFailsStep ==
  ASSUME TypeOK, SafetyInv, WakeFails \/ ReopenFails
  PROVE  SafetyInv' /\ CounterGrows
<1>1. /\ instance' = "down" /\ memory' = EmptyRoom /\ ~purged' /\ job' = NoJob
      /\ retiring' = "none" /\ storage' = Rehydrated
      /\ UNCHANGED <<archive, published>>
  BY DEF WakeFails, ReopenFails, Forget, memoryVars, SafetyInv, Bookkeeping
<1>2. Durable.commit \in Nat /\ archive.commit \in Nat /\ storage.commit \in Nat
  BY DurableFacts DEF SafetyInv
<1>3. /\ storage'.doc = Durable.doc /\ storage'.commit = Durable.commit
      /\ Durable.commit = 0 => storage' = EmptyStorage
      /\ storage'.receipts = storage.receipts
  BY <1>1, RestoredFacts
<1>4. /\ archive.doc \subseteq Durable.doc /\ archive.commit <= Durable.commit
      /\ archive.commit = Durable.commit => archive.doc = Durable.doc
  BY <1>2, DurableFacts DEF SafetyInv, Bookkeeping
<1>5. Bookkeeping' /\ MemoryIsDurable'
  BY <1>1, <1>2, <1>3, <1>4 DEF SafetyInv, Bookkeeping, MemoryIsDurable
<1>6. Durable'.doc = Durable.doc /\ Durable'.commit = Durable.commit
  <2>1. CASE storage'.commit > 0
    BY <1>3, <2>1 DEF Durable, Rehydrated
  <2>2. CASE storage'.commit = 0
    <3>1. archive'.commit = 0 /\ storage' = EmptyStorage /\ Durable.commit = 0
      BY <1>1, <1>2, <1>3, <1>4, <2>2
    <3>2. Rehydrated' = EmptyStorage
      BY <3>1 DEF Rehydrated
    <3> QED BY <1>3, <3>1, <3>2, EmptyTypes DEF Durable
  <2> QED BY <1>2, <1>3, <2>1, <2>2
<1>7. ToldIsDurable' /\ CommitNamesDocument'
  BY <1>1, <1>6 DEF SafetyInv, ToldIsDurable, CommitNamesDocument
<1>8. ReceiptsAreBacked'
  <2>1. CASE storage.commit > 0
    BY <1>3, <2>1, DurableFacts DEF SafetyInv, ReceiptsAreBacked, Backed
  <2>2. CASE storage.commit = 0
    <3>1. \A c \in Sessions : storage.receipts[c] = 0
      BY <2>2 DEF SafetyInv, Bookkeeping, EmptyStorage, NoReceipts
    <3> QED BY <1>3, <3>1 DEF ReceiptsAreBacked, Backed
  <2> QED BY <1>2, <2>1, <2>2
<1>9. CounterGrows
  BY <1>2, <1>6 DEF CounterGrows
<1> QED BY <1>5, <1>7, <1>8, <1>9 DEF SafetyInv

LEMMA ForgetStep ==
  ASSUME TypeOK, SafetyInv, Forget, UNCHANGED storage
  PROVE  SafetyInv' /\ CounterGrows
<1>1. /\ instance' = "down" /\ memory' = EmptyRoom /\ ~purged' /\ job' = NoJob
      /\ retiring' = "none"
      /\ UNCHANGED <<storage, archive, published>>
  BY DEF Forget
<1>2. Durable' = Durable
  BY <1>1 DEF Durable, Rehydrated
<1>3. Bookkeeping' /\ MemoryIsDurable'
  BY <1>1 DEF SafetyInv, Bookkeeping, MemoryIsDurable
<1>4. ToldIsDurable' /\ CommitNamesDocument' /\ ReceiptsAreBacked'
  BY <1>1, <1>2 DEF SafetyInv, ToldIsDurable, CommitNamesDocument, ReceiptsAreBacked
<1>5. CounterGrows
  BY <1>2, DurableFacts DEF CounterGrows, SafetyInv
<1> QED BY <1>3, <1>4, <1>5 DEF SafetyInv

LEMMA RetireStep ==
  ASSUME TypeOK, SafetyInv, StartArchive \/ ArchiveState
  PROVE  SafetyInv' /\ CounterGrows
<1>1. /\ instance = "live" /\ job = NoJob /\ memory.commit > 0
      /\ retiring' \in {"uploading", "stored"} /\ (retiring' = "stored" => archive' = memory)
      /\ archive' = archive \/ archive' = memory
      /\ UNCHANGED <<instance, memory, purged, job, storage, published, link>>
  BY DEF StartArchive, ArchiveState, Idle, InputGateOpen, SafetyInv, Bookkeeping,
         memoryVars, durableVars
<1>2. ~purged /\ storage.doc = memory.doc /\ storage.commit = memory.commit
  BY <1>1, EmptyTypes DEF SafetyInv, MemoryIsDurable
<1>3. storage.commit > 0 /\ storage.commit \in Nat
  BY <1>1, <1>2, DurableFacts DEF SafetyInv
<1>4. Durable' = Durable
  BY <1>1, <1>3 DEF Durable, Rehydrated
<1>5. Bookkeeping'
  BY <1>1, <1>2, <1>3 DEF SafetyInv, Bookkeeping
<1>6. MemoryIsDurable'
  BY <1>1, <1>2 DEF MemoryIsDurable
<1>7. ToldIsDurable' /\ CommitNamesDocument' /\ ReceiptsAreBacked'
  BY <1>1, <1>4 DEF SafetyInv, ToldIsDurable, CommitNamesDocument, ReceiptsAreBacked
<1>8. CounterGrows
  BY <1>4, DurableFacts DEF CounterGrows, SafetyInv
<1> QED BY <1>5, <1>6, <1>7, <1>8 DEF SafetyInv

\* The purge frees a storage whose content the archive already holds.
LEMMA PurgeDurable ==
  ASSUME TypeOK, SafetyInv, Purge
  PROVE  Durable' = Durable
<1>1. /\ instance = "live" /\ job = NoJob
      /\ storage' = EmptyStorage /\ archive' = archive
  BY DEF Purge, Archived, Idle, InputGateOpen
<1>2. archive = memory \/ memory.commit = 0
  BY DEF Purge, Archived, SafetyInv, Bookkeeping
<1>3. Durable = archive
  <2>1. CASE ~purged
    <3>1. Durable = memory /\ memory.commit = storage.commit
      BY <1>1, <2>1, MemoryFacts
    <3> QED BY <1>2, <3>1, DurableFacts DEF SafetyInv
  <2>2. CASE purged
    BY <1>1, <2>2, EmptyTypes, DurableFacts DEF SafetyInv, MemoryIsDurable
  <2> QED BY <2>1, <2>2
<1>4. /\ archive \in RoomState /\ archive.commit \in Nat
      /\ archive = [doc |-> archive.doc, commit |-> archive.commit]
  BY DEF TypeOK, RoomState
<1>5. Durable' = archive
  <2>1. CASE archive.commit > 0
    <3>1. Rehydrated' = [EmptyStorage EXCEPT !.doc = archive.doc, !.commit = archive.commit]
      BY <1>1, <2>1, EmptyTypes DEF Rehydrated
    <3>2. Rehydrated'.doc = archive.doc /\ Rehydrated'.commit = archive.commit
      BY <3>1 DEF EmptyStorage
    <3> QED BY <1>4, <3>2 DEF Durable
  <2>2. CASE archive.commit = 0
    <3>1. archive = EmptyRoom
      BY <2>2 DEF SafetyInv, Bookkeeping
    <3>2. Rehydrated' = EmptyStorage
      BY <1>1, <2>2 DEF Rehydrated
    <3> QED BY <3>1, <3>2 DEF Durable, EmptyStorage, EmptyRoom
  <2> QED BY <1>4, <2>1, <2>2
<1> QED BY <1>3, <1>5

LEMMA PurgeStep ==
  ASSUME TypeOK, SafetyInv, Purge
  PROVE  SafetyInv' /\ CounterGrows
<1>1. /\ instance = "live" /\ job = NoJob /\ Attached = {}
      /\ storage' = EmptyStorage /\ memory' = EmptyRoom /\ purged' /\ retiring' = "none"
      /\ UNCHANGED <<instance, job, archive, published, link>>
  BY DEF Purge, Archived, Idle, InputGateOpen
<1>2. Durable' = Durable
  BY PurgeDurable
<1>3. Bookkeeping'
  BY <1>1, EmptyTypes DEF SafetyInv, Bookkeeping
<1>4. Attached' = {}
  BY <1>1 DEF Attached
<1>5. MemoryIsDurable'
  BY <1>1, <1>4 DEF MemoryIsDurable, EmptyStorage, EmptyRoom
<1>6. ToldIsDurable' /\ CommitNamesDocument'
  BY <1>1, <1>2 DEF SafetyInv, ToldIsDurable, CommitNamesDocument
<1>7. ReceiptsAreBacked'
  BY <1>1 DEF ReceiptsAreBacked, Backed, EmptyStorage, NoReceipts
<1>8. CounterGrows
  BY <1>2, DurableFacts DEF CounterGrows, SafetyInv
<1> QED BY <1>3, <1>5, <1>6, <1>7, <1>8 DEF SafetyInv

LEMMA TakesFacts ==
  ASSUME TypeOK, SafetyInv, NEW s \in Sockets, NEW kind, Takes(s, kind)
  PROVE  /\ instance = "live" /\ job = NoJob /\ ~purged /\ up[s] # <<>>
         /\ memory.doc = storage.doc /\ memory.commit = storage.commit
<1>1. instance = "live" /\ job = NoJob /\ s \in Attached
  BY DEF Takes, Idle, Attached
<1>2. ~purged
  BY <1>1 DEF SafetyInv, MemoryIsDurable
<1> QED BY <1>1, <1>2, MemoryFacts DEF Takes

LEMMA AnswerStep ==
  ASSUME TypeOK, SafetyInv, ~purged, NEW s \in Sockets, NEW messages,
         Answer(s, messages), published' = published
  PROVE  SafetyInv' /\ CounterGrows
BY SameCopies DEF Answer, durableVars, safetyVars

LEMMA RejectStep ==
  ASSUME TypeOK, SafetyInv, ~purged, NEW s \in Sockets, NEW code, Reject(s, code)
  PROVE  SafetyInv' /\ CounterGrows
BY SameCopies DEF Reject, memoryVars, durableVars, safetyVars

LEMMA FailureStep ==
  ASSUME TypeOK, SafetyInv, ~purged, NEW s \in Sockets, NEW x,
         StorageFails(s) \/ Retry(s, x) \/ Refuse(s, x)
  PROVE  SafetyInv' /\ CounterGrows
<1>1. CASE StorageFails(s)
  BY <1>1, AnswerStep DEF StorageFails, Retry
<1>2. CASE Retry(s, x)
  BY <1>2, AnswerStep DEF Retry
<1>3. CASE Refuse(s, x) /\ refusals[s] < MaxRefusals
  BY <1>3, AnswerStep DEF Refuse
<1>4. CASE Refuse(s, x) /\ ~(refusals[s] < MaxRefusals)
  BY <1>4, RejectStep DEF Refuse
<1> QED BY <1>1, <1>2, <1>3, <1>4

LEMMA ReplayStep ==
  ASSUME TypeOK, SafetyInv, instance = "live", job = NoJob, ~purged,
         NEW s \in Sockets, NEW id, ReplayCurrent(s, id)
  PROVE  SafetyInv' /\ CounterGrows
BY TellCurrent DEF ReplayCurrent, Answer, durableVars, safetyVars

LEMMA UnchangedReceipts ==
  ASSUME SafetyInv, NEW doc, storage.doc \subseteq doc
  PROVE  Backed(doc, storage.receipts)
BY DEF SafetyInv, ReceiptsAreBacked, Backed

LEMMA SyncResponseStep ==
  ASSUME TypeOK, SafetyInv, NEW s \in Sockets, SyncResponse(s)
  PROVE  SafetyInv' /\ CounterGrows
<1> DEFINE update == Head(up[s]).update
<1>1. /\ instance = "live" /\ job = NoJob /\ ~purged /\ Idle
      /\ memory.doc = storage.doc /\ update \in SUBSET TextOps
  BY TakesFacts, HeadFrame DEF SyncResponse, Takes
<1>2. CASE Answer(s, <<>>) /\ UNCHANGED <<refusals, published>>
  BY <1>1, <1>2, AnswerStep
<1>3. CASE Reject(s, "invalid-document")
  BY <1>1, <1>3, RejectStep
<1>4. CASE Persist(s, NoId, "text", memory.doc \cup update, storage.receipts)
  <2>1. /\ memory.doc \cup update \in SUBSET Op /\ storage.receipts \in [Sessions -> Nat]
        /\ storage.doc \subseteq memory.doc \cup update
    BY <1>1, OpTypes DEF TypeOK, RoomState, StorageType
  <2>2. Backed(memory.doc \cup update, storage.receipts)
    BY <2>1, UnchangedReceipts
  <2>3. memory.doc \subseteq memory.doc \cup update /\ memory.doc \cup update \in SUBSET Op
    BY <2>1
  <2> QED BY <1>1, <1>4, <2>1, <2>2, <2>3, PersistStep
<1>5. CASE StorageFails(s)
  BY <1>1, <1>5, FailureStep
<1> QED BY <1>2, <1>3, <1>4, <1>5 DEF SyncResponse

LEMMA TextStep ==
  ASSUME TypeOK, SafetyInv, NEW s \in Sockets, Text(s)
  PROVE  SafetyInv' /\ CounterGrows
<1> DEFINE frame == Head(up[s])
           doc == memory.doc \cup frame.update
<1>1. /\ instance = "live" /\ job = NoJob /\ ~purged /\ Idle
      /\ memory.doc = storage.doc /\ frame.update \in SUBSET TextOps /\ frame.id \in Texts
  BY TakesFacts, HeadFrame DEF Text, Takes
<1>2. CASE Refuse(s, [kind |-> "textGone", id |-> frame.id])
  BY <1>1, <1>2, FailureStep
<1>3. CASE Reject(s, "invalid-document")
  BY <1>1, <1>3, RejectStep
<1>4. CASE /\ Answer(s, <<CommitMessage(frame.id, memory.commit, {})>>)
           /\ published' = published \cup {memory}
           /\ UNCHANGED refusals
  BY <1>1, <1>4, TellCurrent DEF Answer, durableVars, safetyVars
<1>5. CASE Persist(s, frame.id, "text", doc, storage.receipts)
  <2>1. /\ doc \in SUBSET Op /\ storage.receipts \in [Sessions -> Nat]
        /\ storage.doc \subseteq doc /\ frame.id \in Proposals
    BY <1>1, OpTypes DEF TypeOK, RoomState, StorageType, Proposals
  <2>2. Backed(doc, storage.receipts)
    BY <2>1, UnchangedReceipts
  <2>3. memory.doc \subseteq doc /\ doc \in SUBSET Op
    BY <2>1
  <2> QED BY <1>1, <1>5, <2>1, <2>2, <2>3, PersistStep
<1>6. CASE StorageFails(s)
  BY <1>1, <1>6, FailureStep
<1> QED BY <1>2, <1>3, <1>4, <1>5, <1>6 DEF Text

LEMMA InitializeStep ==
  ASSUME TypeOK, SafetyInv, NEW s \in Sockets, Initialize(s)
  PROVE  SafetyInv' /\ CounterGrows
<1> DEFINE id == Head(up[s]).id
           doc == memory.doc \cup {CommandOp(id, 0, 1)}
<1>1. /\ instance = "live" /\ job = NoJob /\ ~purged /\ Idle
      /\ memory.doc = storage.doc /\ id \in Initials /\ id \in Proposals
  BY TakesFacts, HeadFrame DEF Initialize, Takes, Proposals
<1>2. CASE ReplayCurrent(s, id)
  BY <1>1, <1>2, ReplayStep
<1>3. CASE Persist(s, id, "proposal", doc, storage.receipts)
  <2>1. /\ doc \in SUBSET Op /\ storage.receipts \in [Sessions -> Nat]
        /\ storage.doc \subseteq doc
    BY <1>1, OpTypes DEF TypeOK, RoomState, StorageType
  <2>2. Backed(doc, storage.receipts)
    BY <2>1, UnchangedReceipts
  <2>3. memory.doc \subseteq doc /\ doc \in SUBSET Op
    BY <2>1
  <2> QED BY <1>1, <1>3, <2>1, <2>2, <2>3, PersistStep
<1>4. CASE StorageFails(s)
  BY <1>1, <1>4, FailureStep
<1> QED BY <1>2, <1>3, <1>4 DEF Initialize

\* Only the next sequence of its session is executed, with its receipt.
LEMMA CommandsStep ==
  ASSUME TypeOK, SafetyInv, NEW s \in Sockets, CommandsOf(s)
  PROVE  SafetyInv' /\ CounterGrows
<1> DEFINE frame == Head(up[s])
           session == SessionOf[frame.id]
           accepted == storage.receipts[session]
           op == CommandOp(frame.id, frame.sequence, memory.commit + 1)
           doc == memory.doc \cup {op}
           receipts == [storage.receipts EXCEPT ![session] = frame.sequence]
<1>1. /\ instance = "live" /\ job = NoJob /\ ~purged /\ Idle /\ memory.doc = storage.doc
      /\ frame.id \in Commands /\ frame.sequence \in Nat \ {0} /\ frame.id \in Proposals
  BY TakesFacts, HeadFrame DEF CommandsOf, AlreadyAccepted, ReceiptsAfter, Takes, Proposals
<1>2. CASE StorageFails(s)
  BY <1>1, <1>2, FailureStep
<1>3. CASE ReplayCurrent(s, frame.id)
  BY <1>1, <1>3, ReplayStep
<1>4. CASE Retry(s, "command-gap")
  BY <1>1, <1>4, FailureStep
<1>5. CASE Reject(s, "invalid-document")
  BY <1>1, <1>5, RejectStep
<1>6. CASE Refuse(s, [kind |-> "conflict", id |-> frame.id, accepted |-> accepted])
  BY <1>1, <1>6, FailureStep
<1>7. CASE frame.sequence = accepted + 1 /\ Persist(s, frame.id, "proposal", doc, receipts)
  <2>1. /\ session \in Sessions /\ storage.receipts \in [Sessions -> Nat] /\ accepted \in Nat
        /\ memory.commit + 1 \in Nat /\ memory.doc \in SUBSET Op
    BY <1>1, RoomAssumption DEF TypeOK, StorageType, RoomState
  <2>2. op \in Op /\ op.id = frame.id /\ op.sequence = frame.sequence
    BY <1>1, <2>1, OpTypes DEF CommandOp
  <2>3. doc \in SUBSET Op /\ receipts \in [Sessions -> Nat]
    BY <1>1, <2>1, <2>2
  <2>4. ASSUME NEW c \in Sessions, NEW n \in 1..receipts[c]
        PROVE  \E o \in doc : o.id \in Commands /\ SessionOf[o.id] = c /\ o.sequence = n
    <3>1. CASE c = session /\ n = frame.sequence
      BY <1>1, <2>2, <3>1
    <3>2. CASE ~(c = session /\ n = frame.sequence)
      <4>1. n \in 1..storage.receipts[c]
        BY SMTT(20), <1>1, <1>7, <2>1, <2>3, <3>2
      <4> QED BY <1>1, <4>1 DEF SafetyInv, ReceiptsAreBacked, Backed
    <3> QED BY <3>1, <3>2
  <2>5. Backed(doc, receipts)
    BY <2>4 DEF Backed
  <2>6. memory.doc \subseteq doc
    OBVIOUS
  <2> HIDE DEF doc, receipts
  <2> QED BY <1>1, <1>7, <2>3, <2>5, <2>6, PersistStep
<1> QED BY <1>2, <1>3, <1>4, <1>5, <1>6, <1>7 DEF CommandsOf, AlreadyAccepted, ReceiptsAfter

LEMMA HandleStep ==
  ASSUME TypeOK, SafetyInv, NEW s \in Sockets, Handle(s)
  PROVE  SafetyInv' /\ CounterGrows
<1>1. CASE SyncRequest(s)
  <2>1. ~purged
    BY <1>1, TakesFacts DEF SyncRequest
  <2> QED BY <1>1, <2>1, AnswerStep DEF SyncRequest
<1>2. CASE Malformed(s)
  <2>1. ~purged
    BY <1>2, TakesFacts DEF Malformed
  <2> QED BY <1>2, <2>1, RejectStep DEF Malformed
<1> QED BY <1>1, <1>2, SyncResponseStep, TextStep, InitializeStep, CommandsStep DEF Handle

\* Connections come and go, and the alarm waits, without touching the copies.
LEMMA AcceptStep ==
  ASSUME TypeOK, SafetyInv, NEW s \in Sockets, Accept(s)
  PROVE  SafetyInv' /\ CounterGrows
<1>1. /\ instance = "live" /\ job = NoJob
      /\ UNCHANGED <<instance, job, retiring, published>>
  BY DEF Accept, Reopen, InputGateOpen
<1>2. CASE purged
  <2>1. retiring \in {"none", "queued"}
    BY <1>1, <1>2, EmptyTypes DEF SafetyInv, Bookkeeping, MemoryIsDurable, TypeOK
  <2>2. Restore
    BY <1>2 DEF Accept, Reopen
  <2> QED BY <1>1, <2>1, <2>2, RestoreStep
<1>3. CASE ~purged
  BY <1>1, <1>3, SameCopies DEF Accept, Reopen, durableVars, safetyVars
<1> QED BY <1>2, <1>3

LEMMA ConnectStep ==
  ASSUME TypeOK, SafetyInv, NEW s \in Sockets, Connect(s) \/ TurnAway(s)
  PROVE  SafetyInv' /\ CounterGrows
<1>1. /\ UNCHANGED safetyVars /\ published' = published /\ retiring' = retiring
      /\ Attached' = Attached
  BY DEF Connect, TurnAway, memoryVars, durableVars, safetyVars, Attached, TypeOK
<1>2. purged => Attached = {}
  BY DEF SafetyInv, MemoryIsDurable, Bookkeeping, TypeOK
<1> QED BY <1>1, <1>2, SameCopies

LEMMA CloseStep ==
  ASSUME TypeOK, SafetyInv, NEW s \in Sockets, Close(s)
  PROVE  SafetyInv' /\ CounterGrows
<1>1. ~purged
  BY DEF Close, InputGateOpen, SafetyInv, MemoryIsDurable
<1> QED BY <1>1, SameCopies DEF Close, memoryVars, durableVars, safetyVars

LEMMA AlarmStep ==
  ASSUME TypeOK, SafetyInv, AlarmFires \/ ArchiveFails \/ KeepHot
  PROVE  SafetyInv' /\ CounterGrows
<1>1. /\ UNCHANGED safetyVars /\ published' = published
      /\ retiring' \in {"none", "queued"} /\ instance = "live" /\ link' = link
  BY DEF AlarmFires, ArchiveFails, KeepHot, Archived, InputGateOpen, Idle,
         memoryVars, durableVars, safetyVars
<1>2. purged => Attached' = {}
  BY <1>1 DEF Attached, SafetyInv, MemoryIsDurable, AlarmFires, ArchiveFails, KeepHot,
              Archived, InputGateOpen, Idle
<1> QED BY <1>1, <1>2, SameCopies

LEMMA WakeStep ==
  ASSUME TypeOK, SafetyInv, Wake
  PROVE  SafetyInv' /\ CounterGrows
<1>1. job = NoJob /\ retiring = "none"
  BY DEF Wake, SafetyInv, Bookkeeping
<1> QED BY <1>1, RestoreStep DEF Wake

LEMMA ClientStep ==
  ASSUME TypeOK, SafetyInv, NEW s \in Sockets, NEW frame, ClientSends(s, frame)
  PROVE  SafetyInv' /\ CounterGrows
<1>1. UNCHANGED safetyVars /\ published' = published /\ retiring' = retiring /\ link' = link
  BY DEF ClientSends, memoryVars, durableVars, safetyVars
<1>2. purged => Attached' = {}
  <2>1. s \in Attached
    BY DEF ClientSends, Attached
  <2>2. purged => instance = "live" /\ job = NoJob
    BY DEF SafetyInv, Bookkeeping, TypeOK
  <2> QED BY <1>1, <2>1, <2>2 DEF SafetyInv, MemoryIsDurable
<1> QED BY <1>1, <1>2, SameCopies

LEMMA SafetyStep ==
  ASSUME TypeOK, SafetyInv, Next
  PROVE  SafetyInv' /\ CounterGrows
<1>1. CASE Crash \/ Hibernate
  BY <1>1, ForgetStep DEF Crash, Hibernate
<1>2. CASE Retire
  BY <1>2, RetireStep, AlarmStep, PurgeStep DEF Retire
<1> QED BY <1>1, <1>2, HandleStep, AcceptStep, ConnectStep, CloseStep, PublishStep, WakeStep,
           WakeFailsStep, AlarmStep, ClientStep DEF Next, RoomNext

LEMMA InitSafety == RoomInit => SafetyInv
<1> SUFFICES ASSUME RoomInit PROVE SafetyInv
  OBVIOUS
<1>1. /\ instance = "down" /\ job = NoJob /\ memory = EmptyRoom /\ ~purged
      /\ retiring = "none" /\ archive = EmptyRoom /\ published = {}
  BY DEF RoomInit
<1>2. /\ storage.commit = 0 => storage = EmptyStorage
      /\ storage.receipts = NoReceipts
  <2>1. CASE storage = EmptyStorage
    BY <2>1 DEF EmptyStorage
  <2>2. ASSUME NEW id \in Initials,
               storage = [EmptyStorage EXCEPT !.doc = {CommandOp(id, 0, 1)}, !.commit = 1]
        PROVE  storage.commit = 1 /\ storage.receipts = NoReceipts
    BY <2>2 DEF EmptyStorage
  <2>3. CASE storage.commit = 1 /\ storage.receipts = NoReceipts
    BY <2>3
  <2>4. storage = EmptyStorage \/ \E id \in Initials :
          storage = [EmptyStorage EXCEPT !.doc = {CommandOp(id, 0, 1)}, !.commit = 1]
    BY DEF RoomInit
  <2> QED BY <2>1, <2>2, <2>3, <2>4
<1>3. storage.commit \in Nat /\ archive.commit = 0 /\ archive.doc = {}
  <2>1. storage \in StorageType
    BY InitType DEF TypeOK
  <2> QED BY <1>1, <2>1 DEF EmptyRoom, StorageType
<1>4. Bookkeeping
  BY <1>1, <1>2, <1>3 DEF Bookkeeping
<1>5. MemoryIsDurable /\ ToldIsDurable /\ CommitNamesDocument
  BY <1>1 DEF MemoryIsDurable, ToldIsDurable, CommitNamesDocument
<1>6. ReceiptsAreBacked
  BY <1>2 DEF ReceiptsAreBacked, Backed, NoReceipts
<1> QED BY <1>4, <1>5, <1>6 DEF SafetyInv

\* RoomInv is inductive, whatever the clients send and whatever befalls the room.
THEOREM InductiveInvariant == Spec => []RoomInv
<1>1. RoomInv <=> TypeOK /\ SafetyInv
  BY DEF RoomInv, SafetyInv
<1>2. RoomInit => RoomInv
  BY <1>1, InitType, InitSafety
<1>3. RoomInv /\ [Next]_roomVars => RoomInv'
  <2> SUFFICES ASSUME RoomInv, [Next]_roomVars PROVE RoomInv'
    OBVIOUS
  <2>1. TypeOK /\ SafetyInv /\ TypeOK'
    BY <1>1, StepType
  <2>2. CASE Next
    BY <2>1, <2>2, SafetyStep DEF RoomInv, SafetyInv
  <2>3. CASE UNCHANGED roomVars
    <3>1. Durable' = Durable /\ Attached' = Attached
      BY <2>3 DEF roomVars, memoryVars, durableVars, Durable, Rehydrated, Attached
    <3>2. UNCHANGED safetyVars /\ published' = published /\ retiring' = retiring
      BY <2>3 DEF roomVars, memoryVars, durableVars, safetyVars
    <3>3. purged => Attached = {}
      BY <2>1 DEF SafetyInv, MemoryIsDurable, Bookkeeping, TypeOK
    <3> QED BY <2>1, <3>1, <3>2, <3>3, SameCopies DEF RoomInv, SafetyInv
  <2> QED BY <2>2, <2>3
<1> QED BY <1>2, <1>3, PTL DEF Spec

\* No document a Commit message spoke for is lost: a commit is written before it
\* is published, archived before it is purged, and restored before it is used.
THEOREM Durability == Spec => []ToldIsDurable
BY InductiveInvariant, PTL DEF RoomInv

\* A commit number told to a client never stands for two documents, in whichever
\* instance, storage or archive it was counted.
THEOREM CommitsAreUnambiguous == Spec => []CommitNamesDocument
BY InductiveInvariant, PTL DEF RoomInv

\* A stored command receipt is never ahead of the stored document: both are
\* written by the one transaction of persistRoomState.
THEOREM ReceiptAtomicity == Spec => []ReceiptsAreBacked
BY InductiveInvariant, PTL DEF RoomInv

\* Between two messages the room in memory is the room in storage: commit()
\* changes roomState only after its transaction, restoration only from it.
THEOREM MemoryMirrorsStorage == Spec => []MemoryIsDurable
BY InductiveInvariant, PTL DEF RoomInv

\* The commit counter a new instance would open with never falls, through
\* crashes, failed restorations, the archive and the purge.
THEOREM CounterMonotonic == Spec => CommitCounterNeverFalls
<1>1. RoomInv /\ [Next]_roomVars => [Durable.commit' >= Durable.commit]_roomVars
  <2> SUFFICES ASSUME RoomInv, Next PROVE Durable.commit' >= Durable.commit
    BY DEF CommitCounterNeverFalls
  <2> QED BY SafetyStep DEF RoomInv, SafetyInv, CounterGrows
<1> QED BY <1>1, InductiveInvariant, PTL DEF Spec, CommitCounterNeverFalls

-----------------------------------------------------------------------------
(* What sockets are told.  While the room serves, a step appends to each    *)
(* log messages about the document it leaves in memory, and every operation *)
(* new to memory is in a commit to every open socket.                       *)

\* A step of a serving room tells socket p these messages.
Speaks(p, messages) ==
  /\ messages \in Seq(Message)
  /\ down'[p] = down[p] \o messages
  /\ memory.doc \subseteq memory'.doc
  /\ \A k \in DOMAIN messages : messages[k].kind = "commit" =>
       messages[k].commit = Durable'.commit /\ messages[k].update \subseteq memory'.doc
  /\ \A k \in DOMAIN messages : messages[k].kind = "syncRequest" =>
       messages[k].have = memory'.doc /\ Durable'.doc = memory'.doc
  /\ \A k \in DOMAIN messages : messages[k].kind = "syncResponse" =>
       messages[k].update \subseteq memory'.doc
  /\ link[p] = "open" => \A op \in memory'.doc \ memory.doc :
       \E k \in DOMAIN messages : messages[k].kind = "commit" /\ op \in messages[k].update
Spoken == \A p \in Sockets : \E messages : Speaks(p, messages)

LEMMA Silence ==
  ASSUME TypeOK, NEW p \in Sockets, down'[p] = down[p], memory' = memory
  PROVE  Speaks(p, <<>>)
<1>1. down[p] = down[p] \o <<>>
  BY DEF TypeOK
<1> QED BY <1>1 DEF Speaks

\* An answer about the document in memory, to socket s alone.
LEMMA AnswerSpeaks ==
  ASSUME TypeOK, NEW s \in Sockets, NEW messages \in Seq(Message),
         Deliver(s, messages), memory' = memory,
         \A k \in DOMAIN messages :
           /\ messages[k].kind = "commit" =>
                messages[k].commit = Durable'.commit /\ messages[k].update \subseteq memory.doc
           /\ messages[k].kind = "syncRequest" =>
                messages[k].have = memory.doc /\ Durable'.doc = memory.doc
           /\ messages[k].kind = "syncResponse" => messages[k].update \subseteq memory.doc
  PROVE  Spoken
<1> SUFFICES ASSUME NEW p \in Sockets PROVE \E told : Speaks(p, told)
  BY DEF Spoken
<1>1. CASE p = s
  <2>1. down'[s] = down[s] \o messages
    BY DEF Deliver, TypeOK
  <2>2. Speaks(s, messages)
    BY <2>1 DEF Speaks
  <2> QED BY <1>1, <2>2
<1>2. CASE p # s
  <2>1. down'[p] = down[p]
    BY <1>2 DEF Deliver, TypeOK
  <2> QED BY <2>1, Silence
<1> QED BY <1>1, <1>2

\* One message that is no news of the document.
LEMMA NoticeSpeaks ==
  ASSUME TypeOK, NEW s \in Sockets, NEW message \in Message,
         Deliver(s, <<message>>), memory' = memory,
         message.kind \notin {"commit", "syncRequest", "syncResponse"}
  PROVE  Spoken
<1>1. <<message>> \in Seq(Message) /\ \A k \in DOMAIN <<message>> : <<message>>[k] = message
  OBVIOUS
<1> QED BY <1>1, AnswerSpeaks

\* The current commit, with all or none of the document.
LEMMA CurrentSpeaks ==
  ASSUME TypeOK, SafetyInv, NEW s \in Sockets, NEW id \in Proposals, NEW kind,
         Takes(s, kind), NEW update \in SUBSET memory.doc,
         Answer(s, <<CommitMessage(id, memory.commit, update)>>)
  PROVE  Spoken
<1>1. Durable = memory /\ memory.doc \in SUBSET Op /\ memory.commit \in Nat
  BY TakesFacts, MemoryFacts DEF TypeOK, RoomState
<1>2. Durable' = Durable /\ memory' = memory
  BY DEF Answer, durableVars, Durable, Rehydrated
<1>3. CommitMessage(id, memory.commit, update) \in Message
  BY <1>1, MessageTypes
<1> DEFINE message == CommitMessage(id, memory.commit, update)
<1>4. /\ message.kind = "commit" /\ message.commit = Durable'.commit
      /\ message.update \subseteq memory.doc
  BY <1>1, <1>2 DEF CommitMessage
<1>5. Deliver(s, <<message>>)
  BY DEF Answer
<1> HIDE DEF message
<1>6. <<message>> \in Seq(Message) /\ \A k \in DOMAIN <<message>> : <<message>>[k] = message
  BY <1>3 DEF message
<1> QED BY <1>2, <1>4, <1>5, <1>6, AnswerSpeaks

LEMMA FailureSpeaks ==
  ASSUME TypeOK, NEW s \in Sockets,
         \/ \E code \in Codes : Retry(s, code) \/ Reject(s, code)
         \/ StorageFails(s)
         \/ \E message \in Message : message.kind \in {"conflict", "textGone"} /\ Refuse(s, message)
  PROVE  Spoken
<1>1. ASSUME NEW code \in Codes, Retry(s, code) \/ Reject(s, code) PROVE Spoken
  <2>1. \A kind \in {"retry", "reject"} : [kind |-> kind, code |-> code] \in Message
    BY MessageTypes
  <2>2. \E kind \in {"retry", "reject"} : Deliver(s, <<[kind |-> kind, code |-> code]>>)
    BY <1>1 DEF Retry, Reject, Answer
  <2>3. memory' = memory
    BY <1>1 DEF Retry, Reject, Answer, memoryVars
  <2> QED BY <2>1, <2>2, <2>3, NoticeSpeaks
<1>2. CASE StorageFails(s)
  BY <1>1, <1>2 DEF StorageFails, Codes
<1>3. ASSUME NEW message \in Message, message.kind \in {"conflict", "textGone"},
             Refuse(s, message)
      PROVE  Spoken
  <2>1. CASE Answer(s, <<message>>)
    BY <1>3, <2>1, NoticeSpeaks DEF Answer
  <2>2. CASE Reject(s, "repeated-command-refusal")
    BY <1>1, <2>2 DEF Codes
  <2> QED BY <1>3, <2>1, <2>2 DEF Refuse
<1> QED BY <1>1, <1>2, <1>3

LEMMA PersistSpeaks ==
  ASSUME TypeOK, NEW s, NEW id, NEW kind, NEW doc, NEW receipts,
         Persist(s, id, kind, doc, receipts)
  PROVE  Spoken
BY Silence DEF Persist, Spoken

LEMMA HandleSpeaks ==
  ASSUME TypeOK, SafetyInv, NEW s \in Sockets, Handle(s)
  PROVE  Spoken /\ memory' = memory
<1> DEFINE frame == Head(up[s])
<1>1. memory.doc \in SUBSET Op /\ storage.receipts \in [Sessions -> Nat]
  BY DEF TypeOK, RoomState, StorageType
<1>2. CASE SyncRequest(s)
  <2> DEFINE response == [kind |-> "syncResponse", update |-> memory.doc \ frame.have]
             request == [kind |-> "syncRequest", have |-> memory.doc]
  <2>1. response \in Message /\ request \in Message
    BY <1>1, MessageTypes
  <2>2. Deliver(s, <<response, request>>) /\ memory' = memory /\ Durable' = memory
    <3>1. Durable = memory
      BY <1>2, TakesFacts, MemoryFacts DEF SyncRequest
    <3>2. Durable' = Durable
      BY <1>2 DEF SyncRequest, Answer, durableVars, Durable, Rehydrated
    <3> QED BY <1>2, <3>1, <3>2 DEF SyncRequest, Answer
  <2>3. /\ response.kind = "syncResponse" /\ response.update \subseteq memory.doc
        /\ request.kind = "syncRequest" /\ request.have = memory.doc
    OBVIOUS
  <2> HIDE DEF response, request
  <2>4. /\ <<response, request>> \in Seq(Message)
        /\ \A k \in DOMAIN <<response, request>> :
             <<response, request>>[k] = response \/ <<response, request>>[k] = request
    BY <2>1
  <2> QED BY <2>2, <2>3, <2>4, AnswerSpeaks
<1>3. CASE SyncResponse(s)
  <2>1. CASE Answer(s, <<>>)
    <3>1. Deliver(s, <<>>) /\ memory' = memory /\ <<>> \in Seq(Message)
      BY <2>1 DEF Answer
    <3>2. \A k : k \notin DOMAIN <<>>
      OBVIOUS
    <3> QED BY <3>1, <3>2, AnswerSpeaks
  <2>2. CASE Reject(s, "invalid-document") \/ StorageFails(s)
    <3>1. memory' = memory
      BY <2>2 DEF StorageFails, Retry, Reject, Answer, memoryVars
    <3> QED BY <2>2, <3>1, FailureSpeaks DEF Codes
  <2>3. CASE Persist(s, NoId, "text", memory.doc \cup frame.update, storage.receipts)
    BY <2>3, PersistSpeaks DEF Persist
  <2> QED BY <1>3, <2>1, <2>2, <2>3 DEF SyncResponse
<1>4. CASE Text(s)
  <2>1. Takes(s, "text") /\ frame.id \in Texts /\ frame.id \in Proposals
    BY <1>4, HeadFrame DEF Text, Proposals
  <2>2. CASE Refuse(s, [kind |-> "textGone", id |-> frame.id])
    <3>1. [kind |-> "textGone", id |-> frame.id] \in Message
      BY <2>1, MessageTypes
    <3> QED BY <2>2, <3>1, FailureSpeaks DEF Refuse, Reject, Answer, memoryVars
  <2>3. CASE Reject(s, "invalid-document") \/ StorageFails(s)
    BY <2>3, FailureSpeaks DEF Codes, StorageFails, Retry, Reject, Answer, memoryVars
  <2>4. CASE Answer(s, <<CommitMessage(frame.id, memory.commit, {})>>)
    BY <2>1, <2>4, CurrentSpeaks DEF Answer
  <2>5. CASE Persist(s, frame.id, "text", memory.doc \cup frame.update, storage.receipts)
    BY <2>5, PersistSpeaks DEF Persist
  <2> QED BY <1>4, <2>2, <2>3, <2>4, <2>5 DEF Text
<1>5. CASE Initialize(s)
  <2>1. Takes(s, "initialize") /\ frame.id \in Proposals
    BY <1>5, HeadFrame DEF Initialize, Proposals
  <2>2. CASE ReplayCurrent(s, frame.id)
    BY <2>1, <2>2, CurrentSpeaks DEF ReplayCurrent, Answer
  <2>3. CASE StorageFails(s)
    BY <2>3, FailureSpeaks DEF StorageFails, Retry, Answer
  <2>4. CASE \E doc, receipts : Persist(s, frame.id, "proposal", doc, receipts)
    BY <2>4, PersistSpeaks DEF Persist
  <2> QED BY <1>5, <2>2, <2>3, <2>4 DEF Initialize
<1>6. CASE CommandsOf(s)
  <2> DEFINE accepted == storage.receipts[SessionOf[frame.id]]
  <2>1. /\ Takes(s, "commands") /\ frame.id \in Proposals /\ frame.id \in Commands
        /\ accepted \in Nat
    BY <1>1, <1>6, HeadFrame, RoomAssumption DEF CommandsOf, Proposals
  <2>2. CASE ReplayCurrent(s, frame.id)
    BY <2>1, <2>2, CurrentSpeaks DEF ReplayCurrent, Answer
  <2>3. CASE StorageFails(s) \/ Retry(s, "command-gap") \/ Reject(s, "invalid-document")
    BY <2>3, FailureSpeaks DEF Codes, StorageFails, Retry, Reject, Answer, memoryVars
  <2>4. CASE Refuse(s, [kind |-> "conflict", id |-> frame.id, accepted |-> accepted])
    <3>1. [kind |-> "conflict", id |-> frame.id, accepted |-> accepted] \in Message
      BY <2>1, MessageTypes
    <3> QED BY <2>4, <3>1, FailureSpeaks DEF Refuse, Reject, Answer, memoryVars
  <2>5. CASE \E doc, receipts : Persist(s, frame.id, "proposal", doc, receipts)
    BY <2>5, PersistSpeaks DEF Persist
  <2> QED BY <1>6, <2>2, <2>3, <2>4, <2>5 DEF CommandsOf
<1>7. CASE Malformed(s)
  BY <1>7, FailureSpeaks DEF Malformed, Codes, Reject, memoryVars
<1> QED BY <1>2, <1>3, <1>4, <1>5, <1>6, <1>7 DEF Handle

\* Publishing tells every open socket what is new, and nothing else.
LEMMA PublishSpeaks ==
  ASSUME TypeOK, SafetyInv, Publish
  PROVE  Spoken
<1> SUFFICES ASSUME NEW p \in Sockets PROVE \E told : Speaks(p, told)
  BY DEF Spoken
<1>1. /\ memory' = [doc |-> job.doc, commit |-> job.commit] /\ memory.doc \subseteq job.doc
      /\ Durable'.commit = job.commit
  <2>1. /\ job # NoJob /\ storage.commit = job.commit /\ memory.doc \subseteq job.doc
        /\ job.commit = memory.commit + 1 /\ storage' = storage /\ archive' = archive
    BY DEF Publish, SafetyInv, MemoryIsDurable, Bookkeeping, durableVars
  <2>2. storage'.commit > 0 /\ memory.commit \in Nat
    BY <2>1, DurableFacts DEF SafetyInv
  <2> QED BY <2>1, <2>2 DEF Publish, Durable, Rehydrated
<1>2. CASE link[p] # "open"
  <2>1. down'[p] = down[p] \o <<>>
    BY <1>2 DEF Publish, TypeOK
  <2>2. Speaks(p, <<>>)
    BY <1>1, <1>2, <2>1 DEF Speaks
  <2> QED BY <2>2
<1>3. CASE link[p] = "open"
  <2> DEFINE update == job.doc \ memory.doc
             told == PublishedTo(p)
  <2>1. /\ job.doc \in SUBSET Op /\ job.commit \in Nat /\ job.id \in Proposals \cup {NoId}
        /\ NoId \in Proposals \cup {NoId}
    BY DEF TypeOK, JobType
  <2>2. \A id \in Proposals \cup {NoId}, ops \in SUBSET Op :
          /\ CommitMessage(id, job.commit, ops) \in Message
          /\ CommitMessage(id, job.commit, ops).kind = "commit"
          /\ CommitMessage(id, job.commit, ops).commit = job.commit
          /\ CommitMessage(id, job.commit, ops).update = ops
    BY <2>1, MessageTypes DEF CommitMessage
  <2>3. \E first, last \in Message :
          /\ told = <<first>> \/ told = <<first, last>>
          /\ first.kind = "commit" /\ first.commit = job.commit /\ first.update = update
          /\ last.kind = "commit" /\ last.commit = job.commit /\ last.update = {}
    <3>1. \A id \in Proposals \cup {NoId} :
            told = <<CommitMessage(id, job.commit, update)>> =>
              \E first, last \in Message :
                /\ told = <<first>> \/ told = <<first, last>>
                /\ first.kind = "commit" /\ first.commit = job.commit /\ first.update = update
                /\ last.kind = "commit" /\ last.commit = job.commit /\ last.update = {}
      <4>1. update \in SUBSET Op /\ {} \in SUBSET Op
        BY <2>1
      <4> HIDE DEF told, update
      <4> QED BY ZenonT(40), <2>1, <2>2, <4>1
    <3>2. \/ told = <<CommitMessage(NoId, job.commit, update), CommitMessage(job.id, job.commit, {})>>
          \/ told = <<CommitMessage(NoId, job.commit, update)>>
          \/ told = <<CommitMessage(job.id, job.commit, update)>>
      BY DEF PublishedTo
    <3>3. update \in SUBSET Op /\ {} \in SUBSET Op
      BY <2>1
    <3> HIDE DEF told, update
    <3> QED BY <2>1, <2>2, <3>1, <3>2, <3>3
  <2>4. down'[p] = down[p] \o told
    BY <1>3 DEF Publish
  <2>5. memory'.doc = job.doc /\ memory'.doc \ memory.doc = update /\ update \subseteq memory'.doc
    BY <1>1
  <2> HIDE DEF told, update
  <2>6. PICK first, last \in Message :
          /\ told = <<first>> \/ told = <<first, last>>
          /\ first.kind = "commit" /\ first.commit = job.commit /\ first.update = update
          /\ last.kind = "commit" /\ last.commit = job.commit /\ last.update = {}
    BY <2>3
  <2>7. /\ told \in Seq(Message) /\ 1 \in DOMAIN told /\ told[1] = first
        /\ \A k \in DOMAIN told : told[k] = first \/ told[k] = last
    <3>1. CASE told = <<first>>
      BY <3>1
    <3>2. CASE told = <<first, last>>
      BY <3>2
    <3> QED BY <2>6, <3>1, <3>2
  <2>8. /\ \A k \in DOMAIN told : /\ told[k].kind = "commit" /\ told[k].commit = Durable'.commit
                                   /\ told[k].update \subseteq memory'.doc
        /\ \A op \in memory'.doc \ memory.doc : op \in told[1].update
    <3>1. first.update \subseteq memory'.doc /\ last.update \subseteq memory'.doc
      BY <2>5, <2>6
    <3>2. \A op \in memory'.doc \ memory.doc : op \in told[1].update
      BY <2>5, <2>6, <2>7
    <3>3. first.commit = Durable'.commit /\ last.commit = Durable'.commit
      BY <1>1, <2>6
    <3> QED BY <2>6, <2>7, <3>1, <3>2, <3>3
  <2>9. Speaks(p, told)
    BY <1>1, <2>4, <2>5, <2>7, <2>8 DEF Speaks
  <2> QED BY <2>9
<1> QED BY <1>2, <1>3

\* Every step of the room appends to each log; what it appends about commits is
\* under the durable commit number and from the durable document.
LEMMA StepSpeaks ==
  ASSUME TypeOK, SafetyInv, Next
  PROVE  \/ Spoken
         \/ \E s \in Sockets : Accept(s) /\ Deliver(s, <<Ready>>)
         \/ down' = down
<1>1. CASE Publish
  BY <1>1, PublishSpeaks
<1>2. CASE \E s \in Sockets : Handle(s)
  BY <1>2, HandleSpeaks
<1>3. CASE \E s \in Sockets : Accept(s)
  BY <1>3 DEF Accept
<1>4. CASE \E s \in Sockets : Connect(s) \/ TurnAway(s) \/ Close(s)
                              \/ \E frame \in Frame : ClientSends(s, frame)
  BY <1>4 DEF Connect, TurnAway, Close, ClientSends
<1>5. CASE \/ Wake \/ WakeFails \/ ReopenFails \/ Crash \/ Hibernate
           \/ AlarmFires \/ ArchiveFails \/ Retire
  BY <1>5 DEF Wake, WakeFails, ReopenFails, Crash, Hibernate, Forget, AlarmFires, ArchiveFails,
              Retire, StartArchive, ArchiveState, KeepHot, Purge
<1> QED BY <1>1, <1>2, <1>3, <1>4, <1>5 DEF Next, RoomNext

LEMMA AppendOrder ==
  ASSUME TypeOK, SafetyInv, OrderInv, CounterGrows, NEW p \in Sockets,
         Durable.commit \in Nat, Durable'.commit \in Nat,
         NEW messages \in Seq(Message), down'[p] = down[p] \o messages,
         \A k \in DOMAIN messages : messages[k].kind = "commit" =>
           messages[k].commit = Durable'.commit
  PROVE  /\ \A i \in DOMAIN down'[p] :
              down'[p][i].kind = "commit" => down'[p][i].commit <= Durable'.commit
         /\ \A i, j \in DOMAIN down'[p] :
              i < j /\ down'[p][i].kind = "commit" /\ down'[p][j].kind = "commit"
                => down'[p][i].commit <= down'[p][j].commit
<1> DEFINE old == down[p]
           log == down'[p]
<1>1. old \in Seq(Message) /\ log = old \o messages
  BY DEF TypeOK
<1>2. \A i \in DOMAIN log :
        \/ i \in DOMAIN old /\ log[i] = old[i]
        \/ i \notin DOMAIN old /\ i - Len(old) \in DOMAIN messages /\ log[i] = messages[i - Len(old)]
  BY <1>1
<1>3. \A i \in DOMAIN old : old[i].kind = "commit" =>
        old[i].commit \in Nat /\ old[i].commit <= Durable.commit
  <2>1. \A message \in Message : message.kind = "commit" => message.commit \in Nat
    BY DEF Message
  <2> QED BY <1>1, <2>1 DEF OrderInv
<1>4. \A i \in DOMAIN log :
        log[i].kind = "commit" => log[i].commit \in Nat /\ log[i].commit <= Durable'.commit
  BY <1>2, <1>3 DEF CounterGrows
<1>5. ASSUME NEW i \in DOMAIN log, NEW j \in DOMAIN log, i < j,
             log[i].kind = "commit", log[j].kind = "commit"
      PROVE  log[i].commit <= log[j].commit
  <2>1. CASE j \in DOMAIN old
    <3>1. i \in DOMAIN old /\ log[i] = old[i] /\ log[j] = old[j]
      BY <1>1, <1>2, <1>5, <2>1
    <3> QED BY <1>5, <2>1, <3>1 DEF OrderInv, CommitsInOrder
  <2>2. CASE j \notin DOMAIN old
    <3>1. log[j].commit = Durable'.commit
      BY <1>2, <1>5, <2>2
    <3> QED BY <1>4, <1>5, <3>1
  <2> QED BY <2>1, <2>2
<1> QED BY <1>4, <1>5

LEMMA OrderStep ==
  ASSUME TypeOK, SafetyInv, OrderInv, Next
  PROVE  OrderInv'
<1>1. TypeOK' /\ SafetyInv' /\ CounterGrows
  BY StepType, SafetyStep
<1>2. Durable.commit \in Nat /\ Durable'.commit \in Nat
  <2>1. Durable'.commit = Rehydrated'.commit
    BY DEF Durable
  <2>2. storage' \in StorageType /\ archive' \in RoomState
    BY <1>1 DEF TypeOK
  <2>3. Rehydrated'.commit \in Nat
    BY <2>2 DEF Rehydrated, StorageType, RoomState
  <2> QED BY <2>1, <2>3, DurableFacts DEF SafetyInv
<1>3. \A p \in Sockets : \E messages \in Seq(Message) :
        /\ down'[p] = down[p] \o messages
        /\ \A k \in DOMAIN messages : messages[k].kind = "commit" =>
             messages[k].commit = Durable'.commit
  <2>1. CASE Spoken
    BY <2>1 DEF Spoken, Speaks
  <2>2. CASE down' = down
    <3>1. \A p \in Sockets : down'[p] = down[p] \o <<>>
      BY <2>2 DEF TypeOK
    <3>2. <<>> \in Seq(Message) /\ \A k : k \notin DOMAIN <<>>
      OBVIOUS
    <3> QED BY <3>1, <3>2
  <2>3. ASSUME NEW s \in Sockets, Deliver(s, <<Ready>>), NEW p \in Sockets
        PROVE  \E messages \in Seq(Message) :
                 /\ down'[p] = down[p] \o messages
                 /\ \A k \in DOMAIN messages : messages[k].kind = "commit" =>
                      messages[k].commit = Durable'.commit
    <3>1. <<Ready>> \in Seq(Message) /\ \A k \in DOMAIN <<Ready>> : <<Ready>>[k].kind # "commit"
      BY MessageTypes DEF Ready
    <3>2. <<>> \in Seq(Message) /\ \A k : k \notin DOMAIN <<>>
      OBVIOUS
    <3>3. down'[p] = down[p] \o (IF p = s THEN <<Ready>> ELSE <<>>)
      BY <2>3 DEF Deliver, TypeOK
    <3> QED BY <3>1, <3>2, <3>3
  <2> QED BY <2>1, <2>2, <2>3, StepSpeaks
<1>4. ASSUME NEW p \in Sockets
      PROVE  /\ \A i \in DOMAIN down'[p] :
                  down'[p][i].kind = "commit" => down'[p][i].commit <= Durable'.commit
             /\ \A i, j \in DOMAIN down'[p] :
                  i < j /\ down'[p][i].kind = "commit" /\ down'[p][j].kind = "commit"
                    => down'[p][i].commit <= down'[p][j].commit
  BY <1>1, <1>2, <1>3, AppendOrder
<1> QED BY <1>4 DEF OrderInv, CommitsInOrder

\* No socket is ever told a commit number lower than one it was told before: the
\* serialized chain publishes before it takes the next frame, and a restored
\* instance counts on from the durable number.
THEOREM OrderedCommits == Spec => []CommitsInOrder
<1>1. RoomInit => OrderInv
  <2>1. \A i : i \notin DOMAIN <<>>
    OBVIOUS
  <2> QED BY <2>1 DEF RoomInit, OrderInv, CommitsInOrder
<1>2. RoomInv /\ OrderInv /\ [Next]_roomVars => OrderInv'
  <2> SUFFICES ASSUME RoomInv, OrderInv, [Next]_roomVars PROVE OrderInv'
    OBVIOUS
  <2>1. CASE Next
    BY <2>1, OrderStep DEF RoomInv, SafetyInv
  <2>2. CASE UNCHANGED roomVars
    BY <2>2 DEF roomVars, durableVars, OrderInv, CommitsInOrder, Durable, Rehydrated
  <2> QED BY <2>1, <2>2
<1>3. OrderInv => CommitsInOrder
  BY DEF OrderInv
<1> QED BY <1>1, <1>2, <1>3, InductiveInvariant, PTL DEF Spec

LEMMA SyncedSpoken ==
  ASSUME TypeOK, SyncedInv, Spoken, instance = "live", instance' = "live",
         \A p \in Sockets : link'[p] = link[p] \/ link'[p] = "closing",
         \A p \in Sockets : link[p] \in {"unused", "connecting"} => down'[p] = down[p]
  PROVE  SyncedInv'
<1> SUFFICES ASSUME NEW p \in Sockets
             PROVE  /\ link'[p] \in {"unused", "connecting"} => down'[p] = <<>>
                    /\ link'[p] = "open" =>
                         \A i \in DOMAIN down'[p] : down'[p][i].kind = "syncRequest" =>
                           down'[p][i].have \cup BroadcastAfter(p, i)' = Served'
  BY DEF SyncedInv
<1>1. link'[p] \in {"unused", "connecting"} => down'[p] = <<>>
  BY DEF SyncedInv
<1>2. ASSUME link'[p] = "open", NEW i \in DOMAIN down'[p], down'[p][i].kind = "syncRequest"
      PROVE  down'[p][i].have \cup BroadcastAfter(p, i)' = Served'
  <2> DEFINE old == down[p]
             log == down'[p]
             After(seq) == UNION {seq[j].update : j \in {k \in DOMAIN seq : k > i /\ seq[k].kind = "commit"}}
  <2>1. link[p] = "open" /\ Served = memory.doc /\ Served' = memory'.doc
    BY <1>2 DEF Served
  <2>2. PICK told : Speaks(p, told)
    BY DEF Spoken
  <2>3. old \in Seq(Message) /\ told \in Seq(Message) /\ log = old \o told
    BY <2>2 DEF TypeOK, Speaks
  <2>4. \A k \in DOMAIN log :
          \/ k \in DOMAIN old /\ log[k] = old[k]
          \/ k \notin DOMAIN old /\ k - Len(old) \in DOMAIN told /\ log[k] = told[k - Len(old)]
    BY <2>3
  <2>5. \A k \in DOMAIN told : k + Len(old) \in DOMAIN log /\ log[k + Len(old)] = told[k]
                               /\ k + Len(old) \notin DOMAIN old
    BY <2>3
  <2>6. \A k \in DOMAIN old : k \in DOMAIN log /\ log[k] = old[k]
    BY <2>3
  <2>7. BroadcastAfter(p, i)' = After(log) /\ BroadcastAfter(p, i) = After(old)
    BY DEF BroadcastAfter
  <2>8. After(log) \subseteq memory'.doc \cup After(old)
    <3> SUFFICES ASSUME NEW j \in DOMAIN log, j > i, log[j].kind = "commit"
                 PROVE  log[j].update \subseteq memory'.doc \cup After(old)
      OBVIOUS
    <3>1. CASE j \in DOMAIN old /\ log[j] = old[j]
      BY <3>1
    <3>2. CASE j - Len(old) \in DOMAIN told /\ log[j] = told[j - Len(old)]
      BY <2>2, <3>2 DEF Speaks
    <3> QED BY <2>4, <3>1, <3>2
  <2>9. CASE i \in DOMAIN old
    <3>1. log[i] = old[i] /\ old[i].have \cup After(old) = memory.doc
      BY <1>2, <2>1, <2>6, <2>7, <2>9 DEF SyncedInv
    <3>2. After(old) \subseteq After(log)
      BY <2>6
    <3>3. memory'.doc \ memory.doc \subseteq After(log)
      <4> SUFFICES ASSUME NEW op \in memory'.doc \ memory.doc PROVE op \in After(log)
        OBVIOUS
      <4>1. PICK k \in DOMAIN told : told[k].kind = "commit" /\ op \in told[k].update
        BY <2>1, <2>2 DEF Speaks
      <4>2. k \in 1..Len(told) /\ i \in 1..Len(old) /\ Len(old) \in Nat
        BY <2>3, <2>9
      <4>3. k + Len(old) > i
        BY <4>2
      <4>4. k + Len(old) \in DOMAIN log /\ log[k + Len(old)] = told[k]
        BY <2>5
      <4> QED BY <4>1, <4>3, <4>4
    <3>4. memory.doc \subseteq memory'.doc
      BY <2>2 DEF Speaks
    <3> HIDE DEF After
    <3> QED BY <2>1, <2>7, <2>8, <3>1, <3>2, <3>3, <3>4
  <2>10. CASE i \notin DOMAIN old
    <3>1. log[i].have = memory'.doc
      BY <1>2, <2>2, <2>4, <2>10 DEF Speaks
    <3>2. After(old) = {}
      <4>1. \A k \in DOMAIN old : ~(k > i)
        BY <2>3, <2>10
      <4> QED BY <4>1
    <3> HIDE DEF After
    <3> QED BY <2>1, <2>7, <2>8, <3>1, <3>2
  <2> QED BY <2>9, <2>10
<1> QED BY <1>1, <1>2

\* Steps that tell no open socket anything, and serve them what they served.
LEMMA SyncedSilent ==
  ASSUME TypeOK, SyncedInv, down' = down,
         \A p \in Sockets : link'[p] = "open" => link[p] = "open" /\ Served' = Served,
         \A p \in Sockets : link'[p] \in {"unused", "connecting"} =>
           link[p] \in {"unused", "connecting"}
  PROVE  SyncedInv'
<1>1. \A p, i : BroadcastAfter(p, i)' = BroadcastAfter(p, i)
  BY DEF BroadcastAfter
<1> QED BY <1>1 DEF SyncedInv

LEMMA SyncedAccept ==
  ASSUME TypeOK, SafetyInv, SyncedInv, NEW s \in Sockets, Accept(s)
  PROVE  SyncedInv'
<1>1. /\ link[s] = "connecting" /\ link' = [link EXCEPT ![s] = "open"]
      /\ down' = [down EXCEPT ![s] = @ \o <<Ready>>] /\ instance = "live" /\ instance' = "live"
  BY DEF Accept, InputGateOpen, Deliver
<1>2. down[s] = <<>> /\ down'[s] = <<Ready>> /\ link'[s] = "open"
  <2>1. down[s] = <<>> /\ link'[s] = "open"
    BY <1>1 DEF SyncedInv, TypeOK
  <2>2. down'[s] = down[s] \o <<Ready>>
    BY <1>1 DEF TypeOK
  <2>3. <<>> \o <<Ready>> = <<Ready>>
    OBVIOUS
  <2> QED BY <2>1, <2>2, <2>3
<1>3. \A p \in Sockets : p # s => link'[p] = link[p] /\ down'[p] = down[p]
  BY <1>1 DEF TypeOK
<1>4. ASSUME NEW p \in Sockets, p # s, link[p] = "open" PROVE Served' = Served
  <2>1. p \in Attached /\ job = NoJob
    BY <1>4 DEF Attached, Accept, InputGateOpen
  <2>2. ~purged
    BY <1>1, <2>1 DEF SafetyInv, MemoryIsDurable
  <2> QED BY <1>1, <2>2 DEF Accept, Reopen, Served
<1>5. ASSUME NEW p \in Sockets
      PROVE  /\ link'[p] \in {"unused", "connecting"} => down'[p] = <<>>
             /\ link'[p] = "open" =>
                  \A i \in DOMAIN down'[p] : down'[p][i].kind = "syncRequest" =>
                    down'[p][i].have \cup BroadcastAfter(p, i)' = Served'
  <2>1. CASE p = s
    <3>1. \A i \in DOMAIN <<Ready>> : <<Ready>>[i].kind # "syncRequest"
      BY DEF Ready
    <3> QED BY <1>2, <2>1, <3>1
  <2>2. CASE p # s
    <3>1. \A i : BroadcastAfter(p, i)' = BroadcastAfter(p, i)
      BY <1>3, <2>2 DEF BroadcastAfter
    <3> QED BY <1>3, <1>4, <2>2, <3>1 DEF SyncedInv
  <2> QED BY <2>1, <2>2
<1> QED BY <1>5 DEF SyncedInv

LEMMA SyncedStep ==
  ASSUME TypeOK, SafetyInv, SyncedInv, Next
  PROVE  SyncedInv'
<1>1. CASE Publish
  <2>1. /\ instance = "live" /\ instance' = "live" /\ link' = link
        /\ \A p \in Sockets : link[p] # "open" => down'[p] = down[p]
    BY <1>1 DEF Publish
  <2> QED BY <1>1, <2>1, PublishSpeaks, SyncedSpoken
<1>2. ASSUME NEW s \in Sockets, Handle(s) PROVE SyncedInv'
  <2>1. /\ instance = "live" /\ link[s] = "open" /\ instance' = "live"
        /\ \/ link' = link \/ link' = [link EXCEPT ![s] = "closing"]
        /\ \/ \E messages : Deliver(s, messages)
           \/ down' = down
    <3>1. CASE SyncRequest(s)
      BY <3>1 DEF SyncRequest, Takes, Idle, Answer
    <3>2. CASE SyncResponse(s)
      BY <3>2 DEF SyncResponse, Takes, Idle, Answer, Reject, Persist, StorageFails, Retry, memoryVars
    <3>3. CASE Text(s)
      BY <3>3 DEF Text, Takes, Idle, Answer, Reject, Refuse, Persist, StorageFails, Retry, memoryVars
    <3>4. CASE Initialize(s)
      BY <3>4 DEF Initialize, Takes, Idle, Answer, ReplayCurrent, Persist, StorageFails, Retry
    <3>5. CASE CommandsOf(s)
      BY <3>5 DEF CommandsOf, Takes, Idle, Answer, Reject, ReplayCurrent, Refuse, Persist,
                  StorageFails, Retry, memoryVars
    <3>6. CASE Malformed(s)
      BY <3>6 DEF Malformed, Takes, Idle, Reject, memoryVars
    <3> QED BY <1>2, <3>1, <3>2, <3>3, <3>4, <3>5, <3>6 DEF Handle
  <2>2. \A p \in Sockets : link'[p] = link[p] \/ link'[p] = "closing"
    BY <2>1 DEF TypeOK
  <2>3. \A p \in Sockets : p # s => down'[p] = down[p]
    BY <2>1 DEF Deliver, TypeOK
  <2>4. \A p \in Sockets : link[p] \in {"unused", "connecting"} => down'[p] = down[p]
    BY <2>1, <2>3
  <2> QED BY <1>2, <2>1, <2>2, <2>4, HandleSpeaks, SyncedSpoken
<1>3. CASE Wake
  <2>1. /\ down' = down /\ link' = link /\ instance = "down" /\ instance' = "live"
        /\ memory'.doc = Restored.doc
    BY <1>3 DEF Wake, Restore
  <2>2. Served' = Served
    BY <2>1, RestoredFacts DEF Served
  <2> QED BY <2>1, <2>2, SyncedSilent
<1>4. CASE WakeFails
  <2>1. /\ down' = down /\ instance = "down" /\ instance' = "down"
        /\ storage' = Rehydrated /\ archive' = archive
        /\ \A p \in Sockets : link'[p] = "closed" \/ link'[p] = link[p]
    BY <1>4 DEF WakeFails, memoryVars
  <2>2. Durable'.doc = Durable.doc
    BY <2>1 DEF Durable, Rehydrated
  <2> QED BY <2>1, <2>2, SyncedSilent DEF Served
<1>5. CASE Crash \/ ReopenFails
  <2>1. down' = down /\ \A p \in Sockets : link'[p] = "closed" \/ (link'[p] = "unused" /\ link[p] = "unused")
    BY <1>5 DEF Crash, ReopenFails, Forget, Break
  <2> QED BY <2>1, SyncedSilent
<1>6. CASE Hibernate
  <2>1. /\ down' = down /\ link' = link /\ instance = "live" /\ instance' = "down" /\ job = NoJob
        /\ storage' = storage /\ archive' = archive
    BY <1>6 DEF Hibernate, Forget
  <2>2. ASSUME NEW p \in Sockets, link[p] = "open" PROVE Served' = Served
    <3>1. ~purged
      BY <2>1, <2>2 DEF SafetyInv, MemoryIsDurable, Attached
    <3>2. Durable = memory /\ Durable' = Durable
      BY <2>1, <3>1, MemoryFacts DEF Durable, Rehydrated
    <3> QED BY <2>1, <3>2 DEF Served
  <2> QED BY <2>1, <2>2, SyncedSilent
<1>7. CASE Purge
  <2>1. down' = down /\ link' = link /\ \A p \in Sockets : link[p] # "open"
    BY <1>7 DEF Purge, Attached
  <2> QED BY <2>1, SyncedSilent
<1>8. CASE AlarmFires \/ ArchiveFails \/ StartArchive \/ ArchiveState \/ KeepHot
  <2>1. /\ down' = down /\ link' = link /\ instance = "live" /\ instance' = "live" /\ memory' = memory
    BY <1>8 DEF AlarmFires, ArchiveFails, StartArchive, ArchiveState, KeepHot, Archived,
                InputGateOpen, Idle, memoryVars
  <2> QED BY <2>1, SyncedSilent DEF Served
<1>9. ASSUME NEW s \in Sockets, Connect(s) \/ TurnAway(s) \/ Close(s)
                                \/ \E frame \in Frame : ClientSends(s, frame)
      PROVE  SyncedInv'
  <2>1. /\ down' = down /\ UNCHANGED <<memory, instance, storage, archive>>
        /\ \A p \in Sockets : \/ link'[p] = link[p] \/ link'[p] = "closed"
                              \/ link'[p] = "connecting" /\ link[p] = "unused"
    BY <1>9 DEF Connect, TurnAway, Close, ClientSends, memoryVars, durableVars, TypeOK
  <2>2. Served' = Served
    BY <2>1 DEF Served, Durable, Rehydrated
  <2> QED BY <2>1, <2>2, SyncedSilent
<1> QED BY <1>1, <1>2, <1>3, <1>4, <1>5, <1>6, <1>7, <1>8, <1>9, SyncedAccept DEF Next, RoomNext, Retire

\* A socket that synchronized is told, from the room's own request on, everything
\* the room holds: the request is answered between two commits, each commit is
\* broadcast to every open socket, and what hibernation forgets is not new.
THEOREM NothingMissed == Spec => []SyncedSocketsMissNothing
<1>1. RoomInit => SyncedInv
  <2>1. \A i : i \notin DOMAIN <<>>
    OBVIOUS
  <2> QED BY <2>1 DEF RoomInit, SyncedInv
<1>2. RoomInv /\ SyncedInv /\ [Next]_roomVars => SyncedInv'
  <2> SUFFICES ASSUME RoomInv, SyncedInv, [Next]_roomVars PROVE SyncedInv'
    OBVIOUS
  <2>1. TypeOK /\ SafetyInv
    BY DEF RoomInv, SafetyInv
  <2>2. CASE UNCHANGED roomVars
    <3>1. down' = down /\ link' = link /\ Served' = Served
      BY <2>2 DEF roomVars, memoryVars, durableVars, Served, Durable, Rehydrated
    <3> QED BY <2>1, <3>1, SyncedSilent
  <2> QED BY <2>1, <2>2, SyncedStep
<1>3. SyncedInv => SyncedSocketsMissNothing
  BY DEF SyncedInv, SyncedSocketsMissNothing, Served
<1> QED BY <1>1, <1>2, <1>3, InductiveInvariant, PTL DEF Spec

-----------------------------------------------------------------------------
(* The ledger *)

LEMMA LedgerOps ==
  /\ \A id, sequence, at : CommandOp(id, sequence, at) = Promised!Entry(id, sequence, at)
  /\ TextOps = Promised!Edits
BY DEF CommandOp, TextOp, TextOps, Promised!Entry, Promised!Edits

LEMMA SameDurable ==
  ASSUME storage' = storage, archive' = archive
  PROVE  UNCHANGED Promised!ledgerVars /\ Durable'.doc = Durable.doc
BY DEF Promised!ledgerVars, Durable, Rehydrated

\* A persisted candidate is the next state of the ledger.
LEMMA PersistDurable ==
  ASSUME TypeOK, SafetyInv, NEW s \in Sockets, NEW frame, Takes(s, frame),
         NEW id, NEW kind, NEW doc, NEW receipts, Persist(s, id, kind, doc, receipts)
  PROVE  /\ Durable.doc = memory.doc /\ Durable.commit = memory.commit
         /\ memory.commit \in Nat
         /\ Durable'.doc = doc /\ Durable'.commit = memory.commit + 1
         /\ storage'.receipts = receipts
<1>1. Durable = memory /\ memory.commit \in Nat
  BY TakesFacts, MemoryFacts, DurableFacts DEF SafetyInv
<1>2. storage' = [doc |-> doc, commit |-> memory.commit + 1, receipts |-> receipts]
  BY DEF Persist, NextCommit
<1>3. storage'.commit # 0 /\ Rehydrated' = storage'
  BY <1>1, <1>2 DEF Rehydrated
<1> QED BY <1>1, <1>2, <1>3 DEF Durable

LEMMA EditsLedger ==
  ASSUME TypeOK, SafetyInv, NEW s \in Sockets, NEW frame, Takes(s, frame),
         NEW id, NEW update \in SUBSET TextOps, update \ memory.doc # {}, memory.commit > 0,
         Persist(s, id, "text", memory.doc \cup update, storage.receipts)
  PROVE  Promised!AcceptEdits(update)
<1>1. /\ Durable.doc = memory.doc /\ Durable.commit = memory.commit
      /\ Durable'.doc = memory.doc \cup update /\ Durable'.commit = memory.commit + 1
      /\ storage'.receipts = storage.receipts
  BY PersistDurable
<1> QED BY <1>1 DEF Promised!AcceptEdits

LEMMA FoundLedger ==
  ASSUME TypeOK, SafetyInv, NEW s \in Sockets, Initialize(s),
         NEW id, Persist(s, id, "proposal", memory.doc \cup {CommandOp(id, 0, 1)},
                         storage.receipts),
         memory.commit = 0
  PROVE  Promised!Found(id)
<1>1. /\ Durable.doc = memory.doc /\ Durable.commit = memory.commit
      /\ Durable'.doc = memory.doc \cup {CommandOp(id, 0, 1)}
      /\ Durable'.commit = memory.commit + 1
      /\ storage'.receipts = storage.receipts
  BY PersistDurable DEF Initialize
<1>2. storage.commit = 0 /\ memory.doc = storage.doc
  BY TakesFacts DEF Initialize
<1>3. memory.doc = {}
  BY <1>2 DEF SafetyInv, Bookkeeping, EmptyStorage
<1> QED BY <1>1, <1>3, LedgerOps DEF Promised!Found

LEMMA CommandLedger ==
  ASSUME TypeOK, SafetyInv, NEW s \in Sockets, CommandsOf(s),
         NEW a \in Commands, NEW sequence,
         sequence = storage.receipts[SessionOf[a]] + 1, memory.commit > 0,
         Persist(s, a, "proposal", memory.doc \cup {CommandOp(a, sequence, memory.commit + 1)},
                 ReceiptsAfter(SessionOf[a], sequence))
  PROVE  Promised!AcceptCommand(a)
<1>1. /\ Durable.doc = memory.doc /\ Durable.commit = memory.commit
      /\ Durable'.doc = memory.doc \cup {CommandOp(a, sequence, memory.commit + 1)}
      /\ Durable'.commit = memory.commit + 1
      /\ storage'.receipts = ReceiptsAfter(SessionOf[a], sequence)
  BY SMTT(20), PersistDurable DEF CommandsOf
<1> QED BY <1>1, LedgerOps DEF Promised!AcceptCommand, ReceiptsAfter

\* Every handler accepts one proposal or leaves the durable copies alone.
LEMMA HandleLedger ==
  ASSUME TypeOK, SafetyInv, NEW s \in Sockets, Handle(s)
  PROVE  [Promised!Next]_(Promised!ledgerVars)
<1>1. CASE UNCHANGED <<storage, archive>>
  BY <1>1, SameDurable
<1>2. CASE SyncRequest(s) \/ Malformed(s)
  BY <1>1, <1>2 DEF SyncRequest, Malformed, Answer, Reject, durableVars
<1>3. CASE SyncResponse(s)
  <2>1. Takes(s, "syncResponse") /\ Head(up[s]).update \in SUBSET TextOps
    BY <1>3, HeadFrame DEF SyncResponse
  <2>2. \/ UNCHANGED <<storage, archive>>
        \/ /\ memory.commit > 0 /\ Head(up[s]).update \ memory.doc # {}
           /\ Persist(s, NoId, "text", memory.doc \cup Head(up[s]).update, storage.receipts)
    BY <1>3 DEF SyncResponse, Answer, Reject, StorageFails, Retry, durableVars
  <2> QED BY <1>1, <2>1, <2>2, EditsLedger, LedgerOps DEF Promised!Next
<1>4. CASE Text(s)
  <2>1. Takes(s, "text") /\ Head(up[s]).update \in SUBSET TextOps
    BY <1>4, HeadFrame DEF Text
  <2>2. \/ UNCHANGED <<storage, archive>>
        \/ /\ memory.commit > 0 /\ Head(up[s]).update \ memory.doc # {}
           /\ Persist(s, Head(up[s]).id, "text", memory.doc \cup Head(up[s]).update,
                      storage.receipts)
    BY <1>4 DEF Text, Answer, Reject, Refuse, StorageFails, Retry, durableVars
  <2> QED BY <1>1, <2>1, <2>2, EditsLedger, LedgerOps DEF Promised!Next
<1>5. CASE Initialize(s)
  <2>1. Head(up[s]).id \in Initials
    BY <1>5, HeadFrame DEF Initialize
  <2>2. \/ UNCHANGED <<storage, archive>>
        \/ /\ memory.commit = 0
           /\ Persist(s, Head(up[s]).id, "proposal",
                      memory.doc \cup {CommandOp(Head(up[s]).id, 0, 1)}, storage.receipts)
    BY <1>5 DEF Initialize, ReplayCurrent, Answer, StorageFails, Retry, durableVars
  <2> QED BY <1>1, <1>5, <2>1, <2>2, FoundLedger DEF Promised!Next
<1>6. CASE CommandsOf(s)
  <2> DEFINE a == Head(up[s]).id
             sequence == Head(up[s]).sequence
  <2>1. a \in Commands
    BY <1>6, HeadFrame DEF CommandsOf
  <2>2. \/ UNCHANGED <<storage, archive>>
        \/ /\ memory.commit > 0 /\ sequence = storage.receipts[SessionOf[a]] + 1
           /\ Persist(s, a, "proposal",
                      memory.doc \cup {CommandOp(a, sequence, memory.commit + 1)},
                      ReceiptsAfter(SessionOf[a], sequence))
    BY <1>6 DEF CommandsOf, ReplayCurrent, Answer, Reject, Refuse, StorageFails, Retry, durableVars
  <2> QED BY <1>1, <1>6, <2>1, <2>2, CommandLedger DEF Promised!Next
<1> QED BY <1>2, <1>3, <1>4, <1>5, <1>6 DEF Handle

\* A restoration reads the durable copy and at most upgrades its format.
LEMMA RestoreLedger ==
  ASSUME TypeOK, SafetyInv, archive' = archive,
         storage' = storage \/ storage' = Rehydrated \/ storage' = Restored
  PROVE  [Promised!Next]_(Promised!ledgerVars) /\ Durable'.doc = Durable.doc
<1>1. CASE storage' = storage
  BY <1>1, SameDurable
<1>2. ASSUME storage' = Rehydrated \/ storage' = Restored
      PROVE  [Promised!Next]_(Promised!ledgerVars) /\ Durable'.doc = Durable.doc
  <2>1. Durable.commit \in Nat /\ archive.commit \in Nat
    BY DurableFacts DEF SafetyInv
  <2>2. /\ storage'.doc = Durable.doc
        /\ storage'.commit = Durable.commit \/ storage'.commit = Durable.commit + 1
        /\ storage'.receipts = storage.receipts
        /\ Durable.commit = 0 => storage' = EmptyStorage
    BY <1>2, RestoredFacts
  <2>3. CASE Durable.commit > 0
    <3>1. storage'.commit > 0
      BY <2>1, <2>2, <2>3
    <3>2. Durable'.doc = storage'.doc /\ Durable'.commit = storage'.commit
      BY <3>1 DEF Durable, Rehydrated
    <3> QED BY <2>2, <2>3, <3>2 DEF Promised!Next, Promised!Upgrade, Promised!ledgerVars
  <2>4. CASE Durable.commit = 0
    <3>1. storage.commit = 0 /\ archive.commit = 0
      BY <2>4, DurableFacts DEF SafetyInv
    <3>2. storage' = storage
      BY <2>2, <2>4, <3>1 DEF SafetyInv, Bookkeeping
    <3> QED BY <3>2, SameDurable
  <2> QED BY <2>1, <2>3, <2>4
<1> QED BY <1>1, <1>2

\* The archive and the purge leave the durable copy where it was, but for the
\* receipts of an idle room.
LEMMA RetireLedger ==
  ASSUME TypeOK, SafetyInv, Retire
  PROVE  [Promised!Next]_(Promised!ledgerVars) /\ Durable'.doc = Durable.doc
<1>1. CASE StartArchive \/ KeepHot
  BY <1>1, SameDurable DEF StartArchive, KeepHot, durableVars
<1>2. CASE ArchiveState
  <2>1. /\ instance = "live" /\ job = NoJob /\ memory.commit > 0
        /\ archive' = memory /\ storage' = storage
    BY <1>2 DEF ArchiveState, InputGateOpen, SafetyInv, Bookkeeping
  <2>2. storage.commit = memory.commit /\ memory.commit \in Nat
    BY <2>1, DurableFacts DEF SafetyInv, MemoryIsDurable
  <2>3. Durable' = Durable
    BY <2>1, <2>2 DEF Durable, Rehydrated
  <2> QED BY <2>1, <2>3 DEF Promised!ledgerVars
<1>3. CASE Purge
  <2>1. storage' = EmptyStorage /\ archive' = archive
    BY <1>3 DEF Purge
  <2>2. Durable' = Durable
    BY <1>3, PurgeDurable
  <2>3. storage'.receipts = [c \in Sessions |-> 0]
    BY <2>1 DEF EmptyStorage, NoReceipts
  <2> QED BY <2>2, <2>3 DEF Promised!Next, Promised!ForgetReceipts
<1> QED BY <1>1, <1>2, <1>3 DEF Retire

\* Only a handler changes the durable document.
LEMMA LedgerStep ==
  ASSUME TypeOK, SafetyInv, [Next]_roomVars
  PROVE  /\ [Promised!Next]_(Promised!ledgerVars)
         /\ Durable'.doc = Durable.doc \/ \E s \in Sockets : Handle(s)
<1>1. CASE UNCHANGED <<storage, archive>>
  BY <1>1, SameDurable
<1>2. CASE Wake \/ WakeFails \/ ReopenFails \/ \E s \in Sockets : Accept(s)
  <2>1. /\ archive' = archive
        /\ storage' = storage \/ storage' = Rehydrated \/ storage' = Restored
    BY <1>2 DEF Wake, WakeFails, ReopenFails, Forget, Accept, Reopen, Restore, durableVars
  <2> QED BY <2>1, RestoreLedger
<1>3. CASE Publish \/ Crash \/ Hibernate \/ AlarmFires \/ ArchiveFails
  BY <1>1, <1>3 DEF Publish, Crash, Hibernate, Forget, AlarmFires, ArchiveFails, durableVars
<1>4. ASSUME NEW s \in Sockets, TurnAway(s) \/ Close(s) \/ Connect(s)
                                \/ \E frame \in Frame : ClientSends(s, frame)
      PROVE  UNCHANGED <<storage, archive>>
  BY <1>4 DEF TurnAway, Close, Connect, ClientSends, durableVars
<1>5. CASE UNCHANGED roomVars
  BY <1>1, <1>5 DEF roomVars, durableVars
<1> QED BY <1>1, <1>2, <1>3, <1>4, <1>5, HandleLedger, RetireLedger DEF Next, RoomNext

LEMMA LedgerInit == RoomInit => Promised!Init
<1> SUFFICES ASSUME RoomInit PROVE Promised!Init
  OBVIOUS
<1>1. archive = EmptyRoom
  BY DEF RoomInit
<1>2. CASE storage = EmptyStorage
  <2>1. Rehydrated = EmptyStorage
    BY <1>1, <1>2 DEF Rehydrated, EmptyStorage, EmptyRoom
  <2>2. Durable.doc = {} /\ Durable.commit = 0
    BY <2>1 DEF Durable, EmptyStorage
  <2> QED BY <1>2, <2>2 DEF Promised!Init, EmptyStorage, NoReceipts
<1>3. ASSUME NEW id \in Initials,
             storage = [EmptyStorage EXCEPT !.doc = {CommandOp(id, 0, 1)}, !.commit = 1]
      PROVE  Promised!Init
  <2>1. /\ storage.doc = {CommandOp(id, 0, 1)} /\ storage.commit = 1
        /\ storage.receipts = NoReceipts
    BY <1>3 DEF EmptyStorage
  <2>2. Durable.doc = {CommandOp(id, 0, 1)} /\ Durable.commit = 1
    BY <2>1 DEF Durable, Rehydrated
  <2> QED BY <2>1, <2>2, LedgerOps DEF Promised!Init, NoReceipts
<1> QED BY <1>2, <1>3 DEF RoomInit

\* The room implements the ledger (ImplementsLedger): initial states map to
\* initial states and, under the inductive invariant, steps map to steps.
THEOREM Refinement == Spec => ImplementsLedger
<1>1. RoomInv /\ [Next]_roomVars => [Promised!Next]_(Promised!ledgerVars)
  BY LedgerStep DEF RoomInv, SafetyInv
<1> QED BY <1>1, LedgerInit, InductiveInvariant, PTL DEF Spec, ImplementsLedger, Promised!Spec

\* Why a room is initialized once: a ledger founds the room only while it is empty,
\* and nothing accepted later is an initialization.
LEMMA FoundedStep ==
  ASSUME InitializedOnce, Durable.commit = 0 => Durable.doc = {}, Durable.commit \in Nat,
         [Promised!Next]_(Promised!ledgerVars)
  PROVE  InitializedOnce' /\ (Durable'.commit = 0 => Durable'.doc = {})
<1>1. ASSUME NEW id \in Initials, Promised!Found(id)
      PROVE  InitializedOnce' /\ (Durable'.commit = 0 => Durable'.doc = {})
  <2>1. Durable'.doc = {Promised!Entry(id, 0, 1)} /\ Durable'.commit = 1
    BY <1>1 DEF Promised!Found
  <2> QED BY <2>1 DEF InitializedOnce
<1>2. ASSUME NEW added, Durable'.doc = Durable.doc \cup added,
             \A op \in added : op.id \notin Initials, Durable'.commit # 0
      PROVE  InitializedOnce' /\ (Durable'.commit = 0 => Durable'.doc = {})
  BY <1>2 DEF InitializedOnce
<1>3. ASSUME NEW a \in Commands, Promised!AcceptCommand(a)
      PROVE  InitializedOnce' /\ (Durable'.commit = 0 => Durable'.doc = {})
  <2> DEFINE entry == Promised!Entry(a, storage.receipts[SessionOf[a]] + 1, Durable.commit + 1)
  <2>1. Durable'.doc = Durable.doc \cup {entry} /\ Durable'.commit # 0
    BY <1>3 DEF Promised!AcceptCommand
  <2>2. \A op \in {entry} : op.id \notin Initials
    BY RoomAssumption DEF Promised!Entry
  <2> HIDE DEF entry
  <2> QED BY <1>2, <2>1, <2>2
<1>4. ASSUME NEW edits \in SUBSET Promised!Edits, Promised!AcceptEdits(edits)
      PROVE  InitializedOnce' /\ (Durable'.commit = 0 => Durable'.doc = {})
  <2>1. Durable'.doc = Durable.doc \cup edits /\ Durable'.commit # 0
    BY <1>4 DEF Promised!AcceptEdits
  <2>2. \A op \in edits : op.id \notin Initials
    BY RoomAssumption DEF Promised!Edits, Promised!Entry
  <2> QED BY <1>2, <2>1, <2>2
<1>5. CASE Promised!Upgrade \/ Promised!ForgetReceipts \/ UNCHANGED Promised!ledgerVars
  <2>1. Durable'.doc = Durable.doc /\ (Durable'.commit = Durable.commit \/ Durable.commit > 0)
    BY <1>5 DEF Promised!Upgrade, Promised!ForgetReceipts, Promised!ledgerVars
  <2>2. Durable'.commit = 0 => Durable.commit = 0
    BY <1>5 DEF Promised!Upgrade, Promised!ForgetReceipts, Promised!ledgerVars
  <2> QED BY <2>1, <2>2 DEF InitializedOnce
<1> QED BY <1>1, <1>3, <1>4, <1>5 DEF Promised!Next

LEMMA FoundedInit ==
  ASSUME RoomInit
  PROVE  InitializedOnce /\ (Durable.commit = 0 => Durable.doc = {})
<1>1. Promised!Init
  BY LedgerInit
<1>2. CASE Durable.doc = {}
  BY <1>2 DEF InitializedOnce
<1>3. CASE \E id \in Initials : Durable.doc = {Promised!Entry(id, 0, 1)} /\ Durable.commit = 1
  BY <1>3 DEF InitializedOnce
<1> QED BY <1>1, <1>2, <1>3 DEF Promised!Init

\* However many participants find a room new and propose to initialize it, through
\* crashes, failed writes, archives and restorations, it is initialized once.
THEOREM InitializedAtMostOnce == Spec => []InitializedOnce
<1> DEFINE Founded == InitializedOnce /\ (Durable.commit = 0 => Durable.doc = {})
<1>1. RoomInit => Founded
  BY FoundedInit
<1>2. RoomInv /\ Founded /\ [Next]_roomVars => Founded'
  <2> SUFFICES ASSUME RoomInv, Founded, [Next]_roomVars PROVE Founded'
    OBVIOUS
  <2>1. TypeOK /\ SafetyInv
    BY DEF RoomInv, SafetyInv
  <2>2. Durable.commit \in Nat
    BY <2>1, DurableFacts DEF SafetyInv
  <2> QED BY <2>1, <2>2, LedgerStep, FoundedStep
<1>3. Founded => InitializedOnce
  OBVIOUS
<1> QED BY <1>1, <1>2, <1>3, InductiveInvariant, PTL DEF Spec

-----------------------------------------------------------------------------
(* Exactly once *)

LEMMA NeverArchived ==
  ASSUME TypeOK, archive = EmptyRoom
  PROVE  /\ Rehydrated = storage /\ Durable.doc = storage.doc
         /\ Restored.doc = storage.doc /\ Restored.receipts = storage.receipts
<1>1. archive.commit = 0
  BY DEF EmptyRoom
<1>2. Rehydrated = storage
  BY <1>1 DEF Rehydrated
<1> QED BY <1>2 DEF Durable, Restored, TypeOK, StorageType

\* Steps that keep the stored document and the receipts keep the invariant.
LEMMA SameStorage ==
  ASSUME TypeOK, TypeOK', OnceInv, archive' = archive, retiring' = retiring,
         storage'.doc = storage.doc, storage'.receipts = storage.receipts
  PROVE  OnceInv'
<1>1. archive' = EmptyRoom /\ Durable.doc = storage.doc
  BY NeverArchived DEF OnceInv
<1>2. Durable'.doc = storage'.doc
  <2>1. archive'.commit = 0
    BY <1>1 DEF EmptyRoom
  <2>2. Rehydrated' = storage'
    BY <2>1 DEF Rehydrated
  <2> QED BY <2>2 DEF Durable
<1> QED BY <1>1, <1>2 DEF OnceInv, SequenceOnce

\* Persisting operations that are not commands, under the same receipts.
LEMMA PersistOther ==
  ASSUME TypeOK, OnceInv, archive' = archive, retiring' = retiring,
         NEW added, storage'.doc = storage.doc \cup added,
         storage'.receipts = storage.receipts,
         \A op \in added : op.id \notin Commands
  PROVE  OnceInv'
<1>1. Durable.doc = storage.doc /\ archive' = EmptyRoom /\ archive'.commit = 0
  BY NeverArchived DEF OnceInv, EmptyRoom
<1>2. Durable'.doc = storage'.doc
  BY <1>1 DEF Durable, Rehydrated
<1> QED BY <1>1, <1>2 DEF OnceInv, SequenceOnce

LEMMA TextOpsAreNotCommands == \A op \in TextOps : op.id \notin Commands
BY RoomAssumption DEF TextOps, TextOp

LEMMA CommandOnce ==
  ASSUME RoomInv, OnceInv, NEW s \in Sockets, CommandsOf(s)
  PROVE  OnceInv'
<1> DEFINE frame == Head(up[s])
           session == SessionOf[frame.id]
           accepted == storage.receipts[session]
           op == CommandOp(frame.id, frame.sequence, memory.commit + 1)
           doc == memory.doc \cup {op}
           receipts == [storage.receipts EXCEPT ![session] = frame.sequence]
<1>1. TypeOK /\ SafetyInv /\ TypeOK'
  BY CommandsType DEF RoomInv, SafetyInv
<1>2. /\ memory.doc = storage.doc /\ frame.id \in Commands /\ frame.sequence \in Nat \ {0}
  BY <1>1, TakesFacts, HeadFrame DEF CommandsOf, AlreadyAccepted, ReceiptsAfter
<1>3. CASE UNCHANGED <<storage, archive, retiring>>
  BY <1>1, <1>3, SameStorage
<1>4. CASE frame.sequence = accepted + 1 /\ Persist(s, frame.id, "proposal", doc, receipts)
  <2>1. /\ storage'.doc = storage.doc \cup {op} /\ storage'.receipts = receipts
        /\ archive' = archive /\ retiring' = retiring
    BY <1>2, <1>4 DEF Persist, NextCommit
  <2>2. /\ session \in Sessions /\ storage.receipts \in [Sessions -> Nat] /\ accepted \in Nat
        /\ \A o \in storage.doc : o.sequence \in Nat /\ o.id \in Proposals
    BY <1>1, <1>2, RoomAssumption DEF TypeOK, StorageType, Op
  <2>3. op.id = frame.id /\ op.sequence = accepted + 1
    BY <1>4 DEF CommandOp
  <2>4. receipts[session] = accepted + 1
        /\ \A c \in Sessions : c # session => receipts[c] = storage.receipts[c]
    BY <1>4, <2>2
  <2>5. \A o \in storage.doc : o.id \in Commands =>
          o.sequence <= storage.receipts[SessionOf[o.id]] /\ SessionOf[o.id] \in Sessions
    BY RoomAssumption DEF OnceInv
  <2>6. \A o \in storage'.doc : o.id \in Commands => o.sequence <= storage'.receipts[SessionOf[o.id]]
    BY SMTT(20), <2>1, <2>2, <2>3, <2>4, <2>5
  <2>7. \A o \in storage.doc :
          o.id \in Commands /\ SessionOf[o.id] = session => o.sequence # op.sequence
    BY <2>2, <2>3, <2>5
  <2>8. archive' = EmptyRoom /\ Durable'.doc = storage'.doc /\ Durable.doc = storage.doc
    BY <1>1, <2>1, NeverArchived DEF OnceInv, Durable, Rehydrated, EmptyRoom
  <2>9. SequenceOnce'
    BY SMTT(20), <1>2, <2>1, <2>3, <2>7, <2>8 DEF OnceInv, SequenceOnce
  <2> QED BY <2>1, <2>6, <2>8, <2>9 DEF OnceInv
<1> QED
  BY <1>3, <1>4 DEF CommandsOf, AlreadyAccepted, ReceiptsAfter, StorageFails, Retry, ReplayCurrent, Refuse, Reject, Answer, durableVars

LEMMA OnceStep ==
  ASSUME "idle" \notin Faults, RoomInv, OnceInv, [Next]_roomVars
  PROVE  OnceInv'
<1>1. TypeOK /\ SafetyInv /\ TypeOK'
  BY StepType DEF RoomInv, SafetyInv
<1>2. CASE UNCHANGED <<storage, archive, retiring>>
  BY <1>1, <1>2, SameStorage
<1>3. ASSUME NEW s \in Sockets, Handle(s) PROVE OnceInv'
  <2>1. CASE SyncResponse(s) \/ Text(s) \/ Initialize(s)
    <3>1. ASSUME NEW id, NEW kind, NEW added,
                 Persist(s, id, kind, memory.doc \cup added, storage.receipts),
                 \A op \in added : op.id \notin Commands
          PROVE  OnceInv'
      <4>1. memory.doc = storage.doc
        BY <1>1, <2>1, TakesFacts DEF SyncResponse, Text, Initialize
      <4> QED BY <1>1, <3>1, <4>1, PersistOther DEF Persist, NextCommit
    <3>2. CASE SyncResponse(s)
      <4>1. Head(up[s]).update \subseteq TextOps
        BY <1>1, <3>2, HeadFrame DEF SyncResponse
      <4> QED
        BY <1>2, <3>1, <3>2, <4>1, TextOpsAreNotCommands
           DEF SyncResponse, StorageFails, Retry, Reject, Answer, durableVars
    <3>3. CASE Text(s)
      <4>1. Head(up[s]).update \subseteq TextOps
        BY <1>1, <3>3, HeadFrame DEF Text
      <4> QED
        BY <1>2, <3>1, <3>3, <4>1, TextOpsAreNotCommands
           DEF Text, StorageFails, Retry, Refuse, Reject, Answer, durableVars
    <3>4. CASE Initialize(s)
      <4>1. Head(up[s]).id \notin Commands
        BY <1>1, <3>4, HeadFrame, RoomAssumption DEF Initialize
      <4>2. \A op \in {CommandOp(Head(up[s]).id, 0, 1)} : op.id \notin Commands
        BY <4>1 DEF CommandOp
      <4> QED
        BY <1>2, <3>1, <3>4, <4>2
           DEF Initialize, StorageFails, Retry, ReplayCurrent, Answer, durableVars
    <3> QED BY <2>1, <3>2, <3>3, <3>4
  <2>2. CASE SyncRequest(s) \/ Malformed(s)
    BY <1>2, <2>2 DEF SyncRequest, Malformed, Answer, Reject, durableVars
  <2> QED BY <1>3, <2>1, <2>2, CommandOnce DEF Handle
<1>4. CASE Wake \/ WakeFails \/ ReopenFails \/ \E s \in Sockets : Accept(s)
  <2>1. archive' = archive /\ (retiring' = retiring \/ retiring' = "none")
    BY <1>4 DEF Wake, WakeFails, ReopenFails, Forget, Accept, Reopen, Restore, durableVars
  <2>2. storage' = storage \/ storage' = Rehydrated \/ storage' = Restored
    BY <1>4 DEF Wake, WakeFails, ReopenFails, Accept, Reopen, Restore, durableVars
  <2> QED BY <1>1, <2>1, <2>2, NeverArchived, SameStorage DEF OnceInv
<1>5. CASE Publish \/ Crash \/ Hibernate
  <2>1. UNCHANGED <<storage, archive>> /\ (retiring' = retiring \/ retiring' = "none")
    BY <1>5 DEF Publish, Crash, Hibernate, Forget, durableVars
  <2> QED BY <1>1, <2>1, SameStorage DEF OnceInv
<1>6. ASSUME NEW s \in Sockets, Close(s) \/ Connect(s) \/ TurnAway(s)
                                  \/ \E frame \in Frame : ClientSends(s, frame)
      PROVE  OnceInv'
  BY <1>2, <1>6 DEF Close, Connect, TurnAway, ClientSends, durableVars
<1>7. ~(AlarmFires \/ ArchiveFails \/ Retire)
  BY DEF AlarmFires, ArchiveFails, Retire, StartArchive, ArchiveState, KeepHot, Purge,
         Archived, OnceInv
<1> QED BY <1>2, <1>3, <1>4, <1>5, <1>6, <1>7 DEF Next, RoomNext, roomVars, durableVars

LEMMA OnceInit == RoomInit => OnceInv
<1> SUFFICES ASSUME RoomInit PROVE OnceInv
  OBVIOUS
<1>1. TypeOK /\ archive = EmptyRoom /\ retiring = "none"
  BY InitType DEF RoomInit
<1>2. \A op \in storage.doc : op.id \notin Commands
  <2>1. storage.doc = {} \/ \E id \in Initials : storage.doc = {CommandOp(id, 0, 1)}
    <3>1. storage = EmptyStorage \/ \E id \in Initials :
            storage = [EmptyStorage EXCEPT !.doc = {CommandOp(id, 0, 1)}, !.commit = 1]
      BY DEF RoomInit
    <3>2. \A id \in Initials :
            [EmptyStorage EXCEPT !.doc = {CommandOp(id, 0, 1)}, !.commit = 1].doc
              = {CommandOp(id, 0, 1)}
      BY DEF EmptyStorage
    <3>3. EmptyStorage.doc = {}
      BY EmptyTypes
    <3>4. CASE storage = EmptyStorage
      BY <3>3, <3>4
    <3>5. ASSUME NEW id \in Initials,
                 storage = [EmptyStorage EXCEPT !.doc = {CommandOp(id, 0, 1)}, !.commit = 1]
          PROVE  storage.doc = {CommandOp(id, 0, 1)}
      BY <3>2, <3>5
    <3> QED BY <3>1, <3>4, <3>5
  <2>2. \A id \in Initials : CommandOp(id, 0, 1).id \notin Commands
    BY RoomAssumption DEF CommandOp
  <2> QED BY <2>1, <2>2
<1> QED BY <1>1, <1>2, NeverArchived DEF OnceInv, SequenceOnce

\* In a room that is never idle for a day, no sequence number of a session is
\* executed twice, through retries, replays, crashes and failed writes.
THEOREM ExactlyOnce == ASSUME "idle" \notin Faults PROVE Spec => []SequenceOnce
<1>1. RoomInv /\ OnceInv /\ [Next]_roomVars => OnceInv'
  BY OnceStep
<1>2. OnceInv => SequenceOnce
  BY DEF OnceInv
<1> QED BY <1>1, <1>2, OnceInit, InductiveInvariant, PTL DEF Spec
=============================================================================
