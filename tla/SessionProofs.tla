--------------------------- MODULE SessionProofs ----------------------------
(***************************************************************************)
(* The sessions and their room together: whatever connections are lost and *)
(* whatever is sent again, the room keeps its promises, a replica holds    *)
(* nothing the room may lose, no typed text is forgotten, and the commands *)
(* of a session none of which was refused are executed exactly once.       *)
(***************************************************************************)
EXTENDS Session, RoomProofs

-----------------------------------------------------------------------------
(* Sequences, as sets of elements *)

LEMMA AppendElements ==
  ASSUME NEW S, NEW seq \in Seq(S), NEW e
  PROVE  Elements(Append(seq, e)) = Elements(seq) \cup {e}
<1> DEFINE longer == Append(seq, e)
<1>1. /\ DOMAIN longer = 1..(Len(seq) + 1) /\ DOMAIN seq = 1..Len(seq) /\ Len(seq) \in Nat
      /\ longer[Len(seq) + 1] = e /\ \A i \in 1..Len(seq) : longer[i] = seq[i]
  OBVIOUS
<1> HIDE DEF longer
<1>2. \A i \in 1..(Len(seq) + 1) : i \in 1..Len(seq) \/ i = Len(seq) + 1
  BY <1>1
<1>3. (Len(seq) + 1) \in 1..(Len(seq) + 1) /\ \A i \in 1..Len(seq) : i \in 1..(Len(seq) + 1)
  BY <1>1
<1>4. Elements(longer) = Elements(seq) \cup {e}
  BY <1>1, <1>2, <1>3 DEF Elements
<1> QED BY <1>4 DEF longer

LEMMA ConcatElements ==
  ASSUME NEW S, NEW seq \in Seq(S), NEW more \in Seq(S)
  PROVE  Elements(seq \o more) = Elements(seq) \cup Elements(more)
<1> DEFINE longer == seq \o more
<1>1. /\ DOMAIN longer = 1..(Len(seq) + Len(more)) /\ DOMAIN seq = 1..Len(seq)
      /\ DOMAIN more = 1..Len(more) /\ Len(seq) \in Nat /\ Len(more) \in Nat
      /\ \A i \in 1..Len(seq) : longer[i] = seq[i]
      /\ \A i \in 1..Len(more) : longer[i + Len(seq)] = more[i]
  OBVIOUS
<1> HIDE DEF longer
<1>2. ASSUME NEW i \in 1..(Len(seq) + Len(more))
      PROVE  \/ i \in 1..Len(seq) /\ longer[i] = seq[i]
             \/ i - Len(seq) \in 1..Len(more) /\ longer[i] = more[i - Len(seq)]
  <2>1. CASE i <= Len(seq)
    BY <1>1, <2>1
  <2>2. CASE i > Len(seq)
    <3>1. i - Len(seq) \in 1..Len(more) /\ (i - Len(seq)) + Len(seq) = i
      BY <1>1, <2>2
    <3> QED BY <1>1, <3>1
  <2> QED BY <1>1, <2>1, <2>2
<1>3. /\ \A i \in 1..Len(seq) : i \in 1..(Len(seq) + Len(more))
      /\ \A i \in 1..Len(more) : i + Len(seq) \in 1..(Len(seq) + Len(more))
  BY <1>1
<1>4. Elements(longer) \subseteq Elements(seq) \cup Elements(more)
  BY <1>1, <1>2 DEF Elements
<1>5. Elements(seq) \subseteq Elements(longer) /\ Elements(more) \subseteq Elements(longer)
  BY <1>1, <1>3 DEF Elements
<1> QED BY <1>4, <1>5 DEF longer

LEMMA TailElements ==
  ASSUME NEW S, NEW seq \in Seq(S), seq # <<>>
  PROVE  /\ Tail(seq) \in Seq(S) /\ Elements(Tail(seq)) \subseteq Elements(seq)
         /\ Head(seq) \in Elements(seq) /\ Head(seq) = seq[1] /\ 1 \in DOMAIN seq
         /\ \A i \in DOMAIN Tail(seq) : i + 1 \in DOMAIN seq /\ Tail(seq)[i] = seq[i + 1]
         /\ \A i \in DOMAIN seq : i = 1 \/ (i - 1 \in DOMAIN Tail(seq) /\ Tail(seq)[i - 1] = seq[i])
<1>1. /\ Tail(seq) \in Seq(S) /\ Head(seq) = seq[1] /\ 1 \in DOMAIN seq
      /\ \A i \in DOMAIN Tail(seq) : i + 1 \in DOMAIN seq /\ Tail(seq)[i] = seq[i + 1]
      /\ \A i \in DOMAIN seq : i = 1 \/ (i - 1 \in DOMAIN Tail(seq) /\ Tail(seq)[i - 1] = seq[i])
  OBVIOUS
<1> QED BY <1>1 DEF Elements

LEMMA TypedElements ==
  ASSUME NEW S, NEW seq \in Seq(S)
  PROVE  Elements(seq) \subseteq S
<1>1. \A i \in DOMAIN seq : seq[i] \in S
  OBVIOUS
<1> QED BY <1>1 DEF Elements

LEMMA EmptyElements == Elements(<<>>) = {} /\ \A x : Elements(<<x>>) = {x}
<1>1. (\A i : i \notin DOMAIN <<>>) /\ \A x : \A i \in DOMAIN <<x>> : i = 1 /\ <<x>>[i] = x
  OBVIOUS
<1>2. \A x : 1 \in DOMAIN <<x>> /\ <<x>>[1] = x
  OBVIOUS
<1> QED BY <1>1, <1>2 DEF Elements

\* Leaving out the entry with an id keeps the others, in their order.
LEMMA WithoutFacts ==
  ASSUME NEW S, NEW seq \in Seq(S), NEW id
  PROVE  /\ Without(seq, id) \in Seq(S)
         /\ Elements(Without(seq, id)) \subseteq Elements(seq)
         /\ \A e \in Elements(seq) : e.id # id => e \in Elements(Without(seq, id))
         /\ \A i, j \in DOMAIN Without(seq, id) : i < j =>
              \E k, l \in DOMAIN seq :
                k < l /\ seq[k] = Without(seq, id)[i] /\ seq[l] = Without(seq, id)[j]
<1> DEFINE rest == Without(seq, id)
<1>1. CASE ~\E i \in DOMAIN seq : seq[i].id = id
  <2>1. rest = seq
    BY <1>1 DEF Without
  <2> QED BY <2>1
<1>2. CASE \E i \in DOMAIN seq : seq[i].id = id
  <2>1. PICK n \in DOMAIN seq : /\ seq[n].id = id
                                /\ rest = SubSeq(seq, 1, n - 1) \o SubSeq(seq, n + 1, Len(seq))
    BY <1>2 DEF Without
  <2> HIDE DEF rest
  <2> DEFINE left == SubSeq(seq, 1, n - 1)
             right == SubSeq(seq, n + 1, Len(seq))
  <2>a. n \in 1..Len(seq) /\ Len(seq) \in Nat /\ n \in Nat
    OBVIOUS
  <2>b. /\ left \in Seq(S) /\ Len(left) = n - 1
        /\ \A i \in 1..(n - 1) : left[i] = seq[i]
    BY <2>a
  <2>c. /\ right \in Seq(S) /\ Len(right) = Len(seq) - n
        /\ \A i \in 1..(Len(seq) - n) : right[i] = seq[n + i]
    BY <2>a
  <2>e. rest = left \o right
    BY <2>1
  <2> HIDE DEF left, right
  <2>d. /\ rest \in Seq(S) /\ Len(rest) = Len(left) + Len(right)
        /\ \A i \in 1..Len(rest) :
             rest[i] = IF i <= Len(left) THEN left[i] ELSE right[i - Len(left)]
    <3>1. left \in Seq(S) /\ right \in Seq(S)
      BY <2>b, <2>c
    <3>2. (left \o right) \in Seq(S) /\ Len(left \o right) = Len(left) + Len(right)
      BY <3>1
    <3>3. \A i \in 1..(Len(left) + Len(right)) :
            (left \o right)[i] = IF i <= Len(left) THEN left[i] ELSE right[i - Len(left)]
      BY <3>1
    <3> QED BY <2>e, <3>2, <3>3
  <2>2. /\ rest \in Seq(S) /\ n \in 1..Len(seq) /\ Len(rest) = Len(seq) - 1
        /\ \A i \in 1..Len(rest) : rest[i] = IF i < n THEN seq[i] ELSE seq[i + 1]
    <3>0. Len(left) = n - 1 /\ Len(rest) = Len(seq) - 1 /\ Len(rest) \in Nat
      BY <2>a, <2>b, <2>c, <2>d
    <3>1. ASSUME NEW i \in 1..Len(rest), i < n PROVE rest[i] = seq[i]
      <4>1. i \in 1..(n - 1) /\ i <= Len(left)
        BY <2>a, <3>0, <3>1
      <4> QED BY <2>b, <2>d, <4>1
    <3>2. ASSUME NEW i \in 1..Len(rest), ~(i < n) PROVE rest[i] = seq[i + 1]
      <4> DEFINE k == i - Len(left)
      <4>1. k \in 1..(Len(seq) - n) /\ n + k = i + 1 /\ ~(i <= Len(left))
        BY <2>a, <3>0, <3>2
      <4>2. rest[i] = right[k]
        BY <2>d, <4>1
      <4> HIDE DEF k
      <4> QED BY <2>c, <4>1, <4>2
    <3> QED BY <2>a, <2>d, <3>0, <3>1, <3>2
  <2>3. /\ \A i \in DOMAIN rest : IF i < n THEN i \in DOMAIN seq ELSE i + 1 \in DOMAIN seq
        /\ \A i \in DOMAIN seq : \/ i = n
                                 \/ i < n /\ i \in DOMAIN rest /\ rest[i] = seq[i]
                                 \/ i > n /\ i - 1 \in DOMAIN rest /\ rest[i - 1] = seq[i]
    BY <2>2
  <2>4. Elements(rest) \subseteq Elements(seq)
    BY <2>2, <2>3 DEF Elements
  <2>5. \A e \in Elements(seq) : e.id # id => e \in Elements(rest)
    BY <2>1, <2>3 DEF Elements
  <2>6. ASSUME NEW i \in DOMAIN rest, NEW j \in DOMAIN rest, i < j
        PROVE  \E k, l \in DOMAIN seq : k < l /\ seq[k] = rest[i] /\ seq[l] = rest[j]
    <3> DEFINE k == IF i < n THEN i ELSE i + 1
               l == IF j < n THEN j ELSE j + 1
    <3>1. k < l /\ k \in DOMAIN seq /\ l \in DOMAIN seq
      BY <2>2, <2>3, <2>6
    <3>2. seq[k] = rest[i] /\ seq[l] = rest[j]
      BY <2>2, <2>6
    <3> QED BY <3>1, <3>2
  <2> QED BY <2>2, <2>4, <2>5, <2>6 DEF rest
<1> QED BY <1>1, <1>2

-----------------------------------------------------------------------------
(* What a step of the room does to the wires *)

\* The room only takes frames away.
LEMMA FramesTaken ==
  ASSUME TypeOK, RoomNext, NEW p \in Sockets
  PROVE  Elements(up'[p]) \subseteq Elements(up[p])
<1>1. CASE up'[p] = up[p]
  BY <1>1
<1>2. CASE up'[p] = <<>>
  BY <1>2, EmptyElements
<1>3. CASE up[p] # <<>> /\ up'[p] = Tail(up[p])
  <2>1. up[p] \in Seq(Frame)
    BY DEF TypeOK
  <2> QED BY <1>3, <2>1, TailElements
<1>4. ASSUME NEW s \in Sockets, Handle(s)
      PROVE  \/ up[s] # <<>> /\ up' = [up EXCEPT ![s] = Tail(@)]
             \/ up' = [up EXCEPT ![s] = <<>>]
  <2>1. CASE SyncRequest(s) \/ Malformed(s)
    BY <2>1 DEF SyncRequest, Malformed, Takes, Answer, Consume, Reject
  <2>2. CASE SyncResponse(s)
    BY <2>2 DEF SyncResponse, Takes, Answer, Consume, Reject, Persist, StorageFails, Retry
  <2>3. CASE Text(s)
    BY <2>3 DEF Text, Takes, Answer, Consume, Reject, Refuse, Persist, StorageFails, Retry
  <2>4. CASE Initialize(s)
    BY <2>4 DEF Initialize, Takes, Answer, Consume, ReplayCurrent, Persist, StorageFails, Retry
  <2>5. CASE CommandsOf(s)
    BY <2>5 DEF CommandsOf, Takes, Answer, Consume, Reject, ReplayCurrent, Refuse, Persist,
                StorageFails, Retry
  <2> QED BY <1>4, <2>1, <2>2, <2>3, <2>4, <2>5 DEF Handle
<1>5. CASE \E s \in Sockets : Handle(s)
  BY <1>1, <1>2, <1>3, <1>4, <1>5 DEF TypeOK
<1>6. CASE \/ \E s \in Sockets : Accept(s) \/ TurnAway(s)
           \/ Publish \/ Wake \/ WakeFails \/ Hibernate \/ AlarmFires \/ ArchiveFails \/ Retire
  BY <1>1, <1>6 DEF Accept, TurnAway, Publish, Wake, WakeFails, Hibernate, AlarmFires,
                    ArchiveFails, Retire, StartArchive, ArchiveState, KeepHot, Purge
<1>7. CASE Crash \/ ReopenFails \/ \E s \in Sockets : Close(s)
  <2>1. up'[p] = up[p] \/ up'[p] = <<>>
    BY <1>7 DEF Crash, ReopenFails, Break, Close, TypeOK
  <2> QED BY <1>1, <1>2, <2>1
<1> QED BY <1>5, <1>6, <1>7 DEF RoomNext

\* Only clients open sockets, and the room says nothing to one it did not accept.
LEMMA UnacceptedSilence ==
  ASSUME TypeOK, SafetyInv, RoomNext, NEW p \in Sockets
  PROVE  /\ link'[p] = "unused" <=> link[p] = "unused"
         /\ link'[p] \in {"unused", "connecting"} =>
              link[p] \in {"unused", "connecting"} /\ down'[p] = down[p]
<1>1. ASSUME NEW s \in Sockets, Handle(s)
      PROVE  /\ link[s] = "open" /\ (link' = link \/ link' = [link EXCEPT ![s] = "closing"])
             /\ down' = down \/ \E messages : down' = [down EXCEPT ![s] = @ \o messages]
  <2>1. CASE SyncRequest(s) \/ Malformed(s)
    BY <2>1 DEF SyncRequest, Malformed, Takes, Answer, Deliver, Reject
  <2>2. CASE SyncResponse(s)
    BY <2>2 DEF SyncResponse, Takes, Answer, Deliver, Reject, Persist, StorageFails, Retry
  <2>3. CASE Text(s)
    BY <2>3 DEF Text, Takes, Answer, Deliver, Reject, Refuse, Persist, StorageFails, Retry
  <2>4. CASE Initialize(s)
    BY <2>4 DEF Initialize, Takes, Answer, Deliver, ReplayCurrent, Persist, StorageFails, Retry
  <2>5. CASE CommandsOf(s)
    BY <2>5 DEF CommandsOf, Takes, Answer, Deliver, Reject, ReplayCurrent, Refuse, Persist,
                StorageFails, Retry
  <2> QED BY <1>1, <2>1, <2>2, <2>3, <2>4, <2>5 DEF Handle
<1>2. CASE \E s \in Sockets : Handle(s)
  BY <1>1, <1>2 DEF TypeOK
<1>3. CASE Publish
  BY <1>3 DEF Publish
<1>4. CASE \E s \in Sockets : Accept(s) \/ TurnAway(s) \/ Close(s)
  BY <1>4 DEF Accept, TurnAway, Close, Attached, Deliver, TypeOK
<1>5. CASE \/ Wake \/ WakeFails \/ ReopenFails \/ Crash \/ Hibernate
           \/ AlarmFires \/ ArchiveFails \/ Retire
  BY <1>5 DEF Wake, WakeFails, Connecting, ReopenFails, Crash, Break, Hibernate, Forget, AlarmFires,
              ArchiveFails, Retire, StartArchive, ArchiveState, KeepHot, Purge, TypeOK
<1> QED BY <1>2, <1>3, <1>4, <1>5 DEF RoomNext

\* Nothing durable is ever lost: the room implements the ledger.
LEMMA DurableGrows ==
  ASSUME TypeOK, SafetyInv, [Next]_roomVars
  PROVE  Durable.doc \subseteq Durable'.doc
<1>1. [Promised!Next]_(Promised!ledgerVars)
  BY LedgerStep
<1>2. ASSUME NEW id \in Initials, Promised!Found(id) PROVE Durable.doc = {}
  <2>1. Durable.commit = 0
    BY <1>2 DEF Promised!Found
  <2>2. storage.commit = 0 /\ Durable = archive /\ archive.commit = 0
    BY <2>1, DurableFacts DEF SafetyInv
  <2>3. archive = EmptyRoom
    BY <2>2 DEF SafetyInv, Bookkeeping
  <2> QED BY <2>2, <2>3 DEF EmptyRoom
<1> QED BY <1>1, <1>2 DEF Promised!Next, Promised!AcceptCommand, Promised!AcceptEdits,
          Promised!Upgrade, Promised!ForgetReceipts, Promised!ledgerVars

\* Where a commit that names a proposal comes from: the job being published, a
\* text proposal the room holds already, a command whose number is taken.
Origin(message) ==
  \/ message.kind # "commit"
  \/ message.id \in Initials \cup {NoId}
  \/ job # NoJob /\ job.id = message.id
  \/ \E s \in Sockets :
       /\ Takes(s, "text")
       /\ Head(up[s]).id = message.id /\ Head(up[s]).update \subseteq Durable.doc
  \/ \E s \in Sockets :
       /\ Takes(s, "commands") /\ Head(up[s]).id = message.id
       /\ Head(up[s]).sequence <= storage.receipts[SessionOf[message.id]]

LEMMA DeliveredElements ==
  ASSUME TypeOK, NEW s \in Sockets, NEW messages \in Seq(Message), Deliver(s, messages),
         NEW p \in Sockets, NEW m \in Elements(down'[p])
  PROVE  m \in Elements(down[p]) \/ m \in Elements(messages)
<1>1. CASE p = s
  <2>1. down'[p] = down[p] \o messages /\ down[p] \in Seq(Message)
    BY <1>1 DEF Deliver, TypeOK
  <2> QED BY <2>1, ConcatElements
<1>2. CASE p # s
  BY <1>2 DEF Deliver, TypeOK
<1> QED BY <1>1, <1>2

LEMMA ToldOneOrigin ==
  ASSUME TypeOK, NEW s \in Sockets, NEW message \in Message, Deliver(s, <<message>>),
         NEW p \in Sockets, NEW m \in Elements(down'[p])
  PROVE  m \in Elements(down[p]) \/ m = message
<1> DEFINE one == <<message>>
<1>1. one \in Seq(Message) /\ Deliver(s, one)
  OBVIOUS
<1>2. Elements(one) = {message}
  BY EmptyElements
<1> HIDE DEF one
<1>3. m \in Elements(down[p]) \/ m \in Elements(one)
  BY <1>1, DeliveredElements
<1> QED BY <1>2, <1>3

\* Failures and refusals name no commit.
LEMMA FailureOrigin ==
  ASSUME TypeOK, NEW s \in Sockets,
         \/ \E code \in Codes : Retry(s, code) \/ Reject(s, code)
         \/ StorageFails(s)
         \/ \E message \in Message : message.kind \in {"conflict", "textGone"} /\ Refuse(s, message),
         NEW p \in Sockets, NEW m \in Elements(down'[p])
  PROVE  m \in Elements(down[p]) \/ Origin(m)
<1>1. ASSUME NEW code \in Codes, Retry(s, code) \/ Reject(s, code)
      PROVE  m \in Elements(down[p]) \/ Origin(m)
  <2>1. PICK kind \in {"retry", "reject"} : Deliver(s, <<[kind |-> kind, code |-> code]>>)
    BY <1>1 DEF Retry, Reject, Answer
  <2>2. [kind |-> kind, code |-> code] \in Message
    BY MessageTypes
  <2>3. m \in Elements(down[p]) \/ m = [kind |-> kind, code |-> code]
    BY <2>1, <2>2, ToldOneOrigin
  <2> QED BY <2>3 DEF Origin
<1>2. CASE StorageFails(s)
  BY <1>1, <1>2 DEF StorageFails, Codes
<1>3. ASSUME NEW message \in Message, message.kind \in {"conflict", "textGone"},
             Refuse(s, message)
      PROVE  m \in Elements(down[p]) \/ Origin(m)
  <2>1. CASE Answer(s, <<message>>)
    <3>1. m \in Elements(down[p]) \/ m = message
      BY <1>3, <2>1, ToldOneOrigin DEF Answer
    <3> QED BY <1>3, <3>1 DEF Origin
  <2>2. CASE Reject(s, "repeated-command-refusal")
    BY <1>1, <2>2 DEF Codes
  <2> QED BY <1>3, <2>1, <2>2 DEF Refuse
<1> QED BY <1>1, <1>2, <1>3

LEMMA HandleOrigin ==
  ASSUME TypeOK, SafetyInv, NEW s \in Sockets, Handle(s),
         NEW p \in Sockets, NEW m \in Elements(down'[p])
  PROVE  m \in Elements(down[p]) \/ Origin(m)
<1> DEFINE frame == Head(up[s])
<1>1. memory.doc \in SUBSET Op /\ memory.commit \in Nat /\ storage.receipts \in [Sessions -> Nat]
  BY DEF TypeOK, RoomState, StorageType
<1>2. CASE down' = down
  BY <1>2
<1>3. ASSUME NEW id \in Proposals, NEW update \in SUBSET Op,
             Answer(s, <<CommitMessage(id, memory.commit, update)>>),
             \A message : message.kind = "commit" /\ message.id = id => Origin(message)
      PROVE  m \in Elements(down[p]) \/ Origin(m)
  <2> DEFINE message == CommitMessage(id, memory.commit, update)
  <2>1. message \in Message /\ message.kind = "commit" /\ message.id = id
    BY <1>1, MessageTypes DEF CommitMessage
  <2>2. Deliver(s, <<message>>)
    BY <1>3 DEF Answer
  <2> HIDE DEF message
  <2>3. m \in Elements(down[p]) \/ m = message
    BY <2>1, <2>2, ToldOneOrigin
  <2> QED BY <1>3, <2>1, <2>3
<1>4. CASE SyncRequest(s)
  <2> DEFINE response == [kind |-> "syncResponse", update |-> memory.doc \ frame.have]
             request == [kind |-> "syncRequest", have |-> memory.doc]
  <2>1. response \in Message /\ request \in Message
    BY <1>1, MessageTypes
  <2>2. response.kind # "commit" /\ request.kind # "commit"
    OBVIOUS
  <2>3. Deliver(s, <<response, request>>)
    BY <1>4 DEF SyncRequest, Answer
  <2> HIDE DEF response, request
  <2>4. /\ <<response, request>> \in Seq(Message)
        /\ \A i \in DOMAIN <<response, request>> :
             <<response, request>>[i] = response \/ <<response, request>>[i] = request
    BY <2>1
  <2>5. \A n \in Elements(<<response, request>>) : n = response \/ n = request
    BY <2>4 DEF Elements
  <2>6. m \in Elements(down[p]) \/ m = response \/ m = request
    BY <2>3, <2>4, <2>5, DeliveredElements
  <2> QED BY <2>2, <2>6 DEF Origin
<1>5. CASE SyncResponse(s)
  <2>1. CASE Answer(s, <<>>)
    <3>1. Deliver(s, <<>>) /\ <<>> \in Seq(Message)
      BY <2>1 DEF Answer
    <3> QED BY <3>1, DeliveredElements, EmptyElements
  <2>2. CASE Reject(s, "invalid-document") \/ StorageFails(s)
    BY <2>2, FailureOrigin DEF Codes
  <2>3. CASE Persist(s, NoId, "text", memory.doc \cup frame.update, storage.receipts)
    BY <1>2, <2>3 DEF Persist
  <2> QED BY <1>5, <2>1, <2>2, <2>3 DEF SyncResponse
<1>6. CASE Text(s)
  <2>1. /\ Takes(s, "text") /\ frame.id \in Texts /\ frame.id \in Proposals
        /\ Durable.doc = memory.doc
    BY <1>6, HeadFrame, TakesFacts, MemoryFacts DEF Text, Proposals
  <2>2. CASE Refuse(s, [kind |-> "textGone", id |-> frame.id])
    <3>1. [kind |-> "textGone", id |-> frame.id] \in Message
      BY <2>1, MessageTypes
    <3> QED BY <2>2, <3>1, FailureOrigin
  <2>3. CASE Reject(s, "invalid-document") \/ StorageFails(s)
    BY <2>3, FailureOrigin DEF Codes
  <2>4. CASE /\ frame.update \subseteq memory.doc
             /\ Answer(s, <<CommitMessage(frame.id, memory.commit, {})>>)
    <3>1. \A message : message.kind = "commit" /\ message.id = frame.id => Origin(message)
      BY <2>1, <2>4 DEF Origin
    <3> QED BY <1>3, <2>1, <2>4, <3>1
  <2>5. CASE Persist(s, frame.id, "text", memory.doc \cup frame.update, storage.receipts)
    BY <1>2, <2>5 DEF Persist
  <2> QED BY <1>6, <2>2, <2>3, <2>4, <2>5 DEF Text
<1>7. CASE Initialize(s)
  <2>1. frame.id \in Initials /\ frame.id \in Proposals
    BY <1>7, HeadFrame DEF Initialize, Proposals
  <2>2. CASE ReplayCurrent(s, frame.id)
    <3>1. \A message : message.kind = "commit" /\ message.id = frame.id => Origin(message)
      BY <2>1 DEF Origin
    <3> QED BY <1>1, <1>3, <2>1, <2>2, <3>1 DEF ReplayCurrent
  <2>3. CASE StorageFails(s)
    BY <2>3, FailureOrigin
  <2>4. CASE \E doc, receipts : Persist(s, frame.id, "proposal", doc, receipts)
    BY <1>2, <2>4 DEF Persist
  <2> QED BY <1>7, <2>2, <2>3, <2>4 DEF Initialize
<1>8. CASE CommandsOf(s)
  <2> DEFINE accepted == storage.receipts[SessionOf[frame.id]]
  <2>1. /\ Takes(s, "commands") /\ frame.id \in Proposals /\ frame.id \in Commands
        /\ accepted \in Nat
    BY <1>1, <1>8, HeadFrame, RoomAssumption DEF CommandsOf, Proposals
  <2>2. CASE frame.sequence <= accepted /\ ReplayCurrent(s, frame.id)
    <3>1. \A message : message.kind = "commit" /\ message.id = frame.id => Origin(message)
      BY <2>1, <2>2 DEF Origin
    <3> QED BY <1>1, <1>3, <2>1, <2>2, <3>1 DEF ReplayCurrent
  <2>3. CASE StorageFails(s) \/ Retry(s, "command-gap") \/ Reject(s, "invalid-document")
    BY <2>3, FailureOrigin DEF Codes
  <2>4. CASE Refuse(s, [kind |-> "conflict", id |-> frame.id, accepted |-> accepted])
    <3>1. [kind |-> "conflict", id |-> frame.id, accepted |-> accepted] \in Message
      BY <2>1, MessageTypes
    <3> QED BY <2>4, <3>1, FailureOrigin
  <2>5. CASE \E doc, receipts : Persist(s, frame.id, "proposal", doc, receipts)
    BY <1>2, <2>5 DEF Persist
  <2> QED BY <1>8, <2>2, <2>3, <2>4, <2>5 DEF CommandsOf, AlreadyAccepted
<1>9. CASE Malformed(s)
  BY <1>9, FailureOrigin DEF Malformed, Codes
<1> QED BY <1>4, <1>5, <1>6, <1>7, <1>8, <1>9 DEF Handle

LEMMA PublishOrigin ==
  ASSUME TypeOK, Publish, NEW p \in Sockets, NEW m \in Elements(down'[p])
  PROVE  m \in Elements(down[p]) \/ Origin(m)
<1>1. CASE link[p] # "open"
  BY <1>1 DEF Publish
<1>2. CASE link[p] = "open"
  <2> DEFINE told == PublishedTo(p)
  <2>1. down'[p] = down[p] \o told /\ down[p] \in Seq(Message) /\ job # NoJob
    BY <1>2 DEF Publish, TypeOK
  <2>2. /\ job.doc \in SUBSET Op /\ job.commit \in Nat /\ job.id \in Proposals \cup {NoId}
        /\ NoId \in Proposals \cup {NoId}
    BY DEF TypeOK, JobType
  <2>3. PICK first, last \in Message :
          /\ told = <<first>> \/ told = <<first, last>>
          /\ first.id \in {NoId, job.id} /\ last.id = job.id
    <3> DEFINE update == job.doc \ memory.doc
               a == CommitMessage(NoId, job.commit, update)
               b == CommitMessage(job.id, job.commit, update)
               d == CommitMessage(job.id, job.commit, {})
    <3>1. a \in Message /\ b \in Message /\ d \in Message
      BY <2>2, MessageTypes
    <3>2. a.id = NoId /\ b.id = job.id /\ d.id = job.id
      BY DEF CommitMessage
    <3>3. told = <<a, d>> \/ told = <<a>> \/ told = <<b>>
      BY DEF PublishedTo
    <3> HIDE DEF a, b, d, told
    <3> QED BY <3>1, <3>2, <3>3
  <2> HIDE DEF told
  <2>4. told \in Seq(Message) /\ \A i \in DOMAIN told : told[i] = first \/ told[i] = last
    <3>1. CASE told = <<first>>
      BY <3>1
    <3>2. CASE told = <<first, last>>
      BY <3>2
    <3> QED BY <2>3, <3>1, <3>2
  <2>5. m \in Elements(down[p]) \/ m \in Elements(told)
    BY <2>1, <2>4, ConcatElements
  <2>6. m \in Elements(told) => m = first \/ m = last
    BY <2>4 DEF Elements
  <2> QED BY <2>1, <2>3, <2>5, <2>6 DEF Origin
<1> QED BY <1>1, <1>2

LEMMA CommitOrigins ==
  ASSUME TypeOK, SafetyInv, RoomNext, NEW p \in Sockets, NEW m \in Elements(down'[p])
  PROVE  m \in Elements(down[p]) \/ Origin(m)
<1>1. CASE Publish
  BY <1>1, PublishOrigin
<1>2. CASE \E s \in Sockets : Handle(s)
  BY <1>2, HandleOrigin
<1>3. ASSUME NEW s \in Sockets, Accept(s) PROVE m \in Elements(down[p]) \/ Origin(m)
  <2>1. Ready \in Message /\ Ready.kind # "commit"
    BY MessageTypes DEF Ready
  <2>2. m \in Elements(down[p]) \/ m = Ready
    BY <1>3, <2>1, ToldOneOrigin DEF Accept
  <2> QED BY <2>1, <2>2 DEF Origin
<1>4. CASE \E s \in Sockets : TurnAway(s) \/ Close(s)
  BY <1>4 DEF TurnAway, Close
<1>5. CASE \/ Wake \/ WakeFails \/ ReopenFails \/ Crash \/ Hibernate
           \/ AlarmFires \/ ArchiveFails \/ Retire
  BY <1>5 DEF Wake, WakeFails, ReopenFails, Crash, Hibernate, Forget, AlarmFires, ArchiveFails,
              Retire, StartArchive, ArchiveState, KeepHot, Purge
<1> QED BY <1>1, <1>2, <1>3, <1>4, <1>5 DEF RoomNext

\* A job that names a proposal took it from the head of a socket, and holds it.
LEMMA JobOrigin ==
  ASSUME TypeOK, SafetyInv, RoomNext
  PROVE  \/ job' = job \/ job' = NoJob
         \/ job'.id \in Initials \cup {NoId}
         \/ \E s \in Sockets : /\ Takes(s, "text") /\ job'.id = Head(up[s]).id
                               /\ Head(up[s]).update \subseteq job'.doc
         \/ \E s \in Sockets : /\ Takes(s, "commands") /\ job'.id = Head(up[s]).id
                               /\ Head(up[s]).id \in Ids(job'.doc)
<1>1. CASE job' = job \/ job' = NoJob
  BY <1>1
<1>2. ASSUME NEW s \in Sockets, SyncResponse(s)
      PROVE  job' = job \/ job'.id = NoId
  BY <1>2 DEF SyncResponse, Answer, Reject, Persist, StorageFails, Retry, memoryVars
<1>3. ASSUME NEW s \in Sockets, Text(s)
      PROVE  job' = job \/ /\ Takes(s, "text") /\ job'.id = Head(up[s]).id
                           /\ Head(up[s]).update \subseteq job'.doc
  BY <1>3 DEF Text, Answer, Reject, Refuse, Persist, StorageFails, Retry, memoryVars
<1>4. ASSUME NEW s \in Sockets, Initialize(s) PROVE job' = job \/ job'.id \in Initials
  <2>1. Head(up[s]).id \in Initials
    BY <1>4, HeadFrame DEF Initialize
  <2> QED BY <1>4, <2>1 DEF Initialize, Answer, ReplayCurrent, Persist, StorageFails, Retry
<1>5. ASSUME NEW s \in Sockets, CommandsOf(s)
      PROVE  job' = job \/ /\ Takes(s, "commands") /\ job'.id = Head(up[s]).id
                           /\ Head(up[s]).id \in Ids(job'.doc)
  <2> DEFINE op == CommandOp(Head(up[s]).id, Head(up[s]).sequence, memory.commit + 1)
  <2>1. op.id = Head(up[s]).id
    BY DEF CommandOp
  <2>2. \/ job' = job
        \/ job'.id = Head(up[s]).id /\ job'.doc = memory.doc \cup {op}
    BY SMTT(40), <1>5 DEF CommandsOf, Answer, Reject, ReplayCurrent, Refuse, Persist,
                          StorageFails, Retry, memoryVars
  <2>3. Takes(s, "commands")
    BY <1>5 DEF CommandsOf
  <2> HIDE DEF op
  <2> QED BY <2>1, <2>2, <2>3 DEF Ids
<1>6. ASSUME NEW s \in Sockets, SyncRequest(s) \/ Malformed(s) \/ Accept(s) \/ TurnAway(s) \/ Close(s)
      PROVE  job' = job
  BY <1>6 DEF SyncRequest, Malformed, Answer, Reject, Accept, TurnAway, Close, memoryVars
<1>7. CASE \/ Publish \/ Wake \/ WakeFails \/ ReopenFails \/ Crash \/ Hibernate
           \/ AlarmFires \/ ArchiveFails \/ Retire
  BY <1>1, <1>7 DEF Publish, Wake, WakeFails, ReopenFails, Crash, Hibernate, Forget, AlarmFires,
       ArchiveFails, Retire, StartArchive, ArchiveState, KeepHot, Purge, memoryVars
<1> QED BY <1>1, <1>2, <1>3, <1>4, <1>5, <1>6, <1>7 DEF RoomNext, Handle

\* A command reaches the document from the head of a socket, under its number.
LEMMA OpOrigin ==
  ASSUME TypeOK, SafetyInv, RoomNext,
         NEW op \in Durable'.doc, op \notin Durable.doc, op.id \in Commands
  PROVE  \E s \in Sockets : /\ Takes(s, "commands") /\ op.id = Head(up[s]).id
                            /\ op.sequence = Head(up[s]).sequence
<1>1. PICK s \in Sockets : Handle(s)
  BY LedgerStep DEF Next
<1> DEFINE frame == Head(up[s])
<1>2. ASSUME storage' = storage, archive' = archive PROVE FALSE
  BY <1>2, SameDurable
<1>3. ASSUME NEW kind, NEW id, NEW sort, NEW added, NEW receipts, Takes(s, kind),
             Persist(s, id, sort, memory.doc \cup added, receipts)
      PROVE  op \in added
  BY <1>3, PersistDurable
<1>4. ~(SyncRequest(s) \/ Malformed(s))
  BY <1>2 DEF SyncRequest, Malformed, Answer, Reject, durableVars
<1>5. ~SyncResponse(s)
  <2> SUFFICES ASSUME SyncResponse(s) PROVE FALSE
    OBVIOUS
  <2>1. frame.update \subseteq TextOps /\ Takes(s, "syncResponse")
    BY HeadFrame DEF SyncResponse
  <2>2. Persist(s, NoId, "text", memory.doc \cup frame.update, storage.receipts)
    BY <1>2 DEF SyncResponse, Answer, Reject, StorageFails, Retry, durableVars
  <2> QED BY <1>3, <2>1, <2>2, TextOpsAreNotCommands
<1>6. ~Text(s)
  <2> SUFFICES ASSUME Text(s) PROVE FALSE
    OBVIOUS
  <2>1. frame.update \subseteq TextOps /\ Takes(s, "text")
    BY HeadFrame DEF Text
  <2>2. Persist(s, frame.id, "text", memory.doc \cup frame.update, storage.receipts)
    BY <1>2 DEF Text, Answer, Reject, Refuse, StorageFails, Retry, durableVars
  <2> QED BY <1>3, <2>1, <2>2, TextOpsAreNotCommands
<1>7. ~Initialize(s)
  <2> SUFFICES ASSUME Initialize(s) PROVE FALSE
    OBVIOUS
  <2>1. frame.id \notin Commands /\ Takes(s, "initialize")
    BY HeadFrame, RoomAssumption DEF Initialize
  <2>2. Persist(s, frame.id, "proposal", memory.doc \cup {CommandOp(frame.id, 0, 1)}, storage.receipts)
    BY <1>2 DEF Initialize, ReplayCurrent, Answer, StorageFails, Retry, durableVars
  <2>3. op = CommandOp(frame.id, 0, 1)
    BY <1>3, <2>1, <2>2
  <2> QED BY <2>1, <2>3 DEF CommandOp
<1>8. CASE CommandsOf(s)
  <2> DEFINE new == CommandOp(frame.id, frame.sequence, memory.commit + 1)
  <2>1. Takes(s, "commands") /\ new.id = frame.id /\ new.sequence = frame.sequence
    BY <1>8 DEF CommandsOf, CommandOp
  <2>2. \E receipts : Persist(s, frame.id, "proposal", memory.doc \cup {new}, receipts)
    BY <1>2, <1>8 DEF CommandsOf, ReplayCurrent, Answer, Reject, Refuse, StorageFails, Retry, durableVars
  <2> HIDE DEF new
  <2>3. op = new
    BY <1>3, <2>1, <2>2
  <2> QED BY <2>1, <2>3
<1> QED BY <1>1, <1>4, <1>5, <1>6, <1>7, <1>8 DEF Handle

-----------------------------------------------------------------------------
(* What the parts of a session do to its state, and what they send *)

\* Frames that name a proposal name one the session holds.
Sends(x, frames) ==
  /\ frames \in Seq(Frame)
  /\ \A f \in Elements(frames) :
       /\ f.kind = "text" => \E b \in Elements(x.texts) : f.id = b.id /\ f.update = b.update
       /\ f.kind = "commands" =>
            \E p \in Elements(x.pending) : f.id = p.id /\ f.sequence = p.sequence

\* The texts of x stay, or its buffer becomes one more proposal.
Batch(x) == [id |-> Head(x.buffer), update |-> TextsOf(Elements(x.buffer))]
Flows(x, y) ==
  \/ y.buffer = x.buffer /\ y.texts = x.texts
  \/ x.buffer # <<>> /\ y.buffer = <<>> /\ y.texts = Append(x.texts, Batch(x))
Identity(x) == <<x.socket, x.connected, x.doc, x.initialized, x.end>>
Numbering(x) == <<x.pending, x.sequence>>

LEMMA BatchType ==
  ASSUME NEW x \in SessionState, x.buffer # <<>>
  PROVE  Batch(x) \in Batches
<1>1. x.buffer \in Seq(Texts) /\ x.buffer # <<>>
  BY DEF SessionState
<1>2. Head(x.buffer) \in Texts /\ Head(x.buffer) \in Elements(x.buffer)
  BY <1>1, TailElements
<1>3. \A t \in Elements(x.buffer) : t \in Texts
  BY <1>1 DEF Elements
<1>4. TextsOf(Elements(x.buffer)) \subseteq TextOps
  BY <1>3 DEF TextsOf, TextOps
<1>5. TextOp(Head(x.buffer)) \in TextsOf(Elements(x.buffer))
  BY <1>2 DEF TextsOf
<1>6. TextsOf(Elements(x.buffer)) \in (SUBSET TextOps) \ {{}}
  BY <1>4, <1>5
<1> DEFINE update == TextsOf(Elements(x.buffer))
<1> HIDE DEF update
<1>7. [id |-> Head(x.buffer), update |-> update] \in Batches
  <2>1. update \in (SUBSET TextOps) \ {{}}
    BY <1>6 DEF update
  <2> QED BY <1>2, <2>1 DEF Batches
<1> QED BY <1>7 DEF Batch, update

LEMMA FlushedFacts ==
  ASSUME NEW x \in SessionState
  PROVE  /\ Flushed(x) \in SessionState /\ Flows(x, Flushed(x))
         /\ Flushed(x).buffer = <<>>
         /\ Identity(Flushed(x)) = Identity(x) /\ Numbering(Flushed(x)) = Numbering(x)
         /\ Flushed(x).attempts = x.attempts /\ Flushed(x).timer = x.timer
         /\ Flushed(x).initializing = x.initializing
<1>1. CASE x.buffer = <<>>
  BY <1>1 DEF Flushed, Flows
<1>2. CASE x.buffer # <<>>
  <2> DEFINE texts == Append(x.texts, Batch(x))
             y == [x EXCEPT !.buffer = <<>>, !.texts = texts]
  <2>1. Flushed(x) = y
    BY <1>2 DEF Flushed, Batch
  <2>2. texts \in Seq(Batches) /\ <<>> \in Seq(Texts)
    <3>1. Batch(x) \in Batches
      BY <1>2, BatchType
    <3>2. x.texts \in Seq(Batches)
      BY DEF SessionState
    <3>3. texts \in Seq(Batches)
      BY <3>1, <3>2
    <3> QED BY <3>3
  <2> HIDE DEF texts
  <2>3. y \in SessionState /\ y.buffer = <<>> /\ y.texts = texts
    BY <2>2 DEF SessionState
  <2>4. /\ Identity(y) = Identity(x) /\ Numbering(y) = Numbering(x) /\ y.attempts = x.attempts
        /\ y.timer = x.timer /\ y.initializing = x.initializing
    BY DEF SessionState, Identity, Numbering
  <2> QED BY <1>2, <2>1, <2>3, <2>4 DEF Flows, texts
<1> QED BY <1>1, <1>2

LEMMA NothingSent == \A x : Sends(x, <<>>)
BY EmptyElements DEF Sends

LEMMA OneSent ==
  ASSUME NEW x, NEW frame \in Frame,
         frame.kind = "text" => \E b \in Elements(x.texts) : frame.id = b.id /\ frame.update = b.update,
         frame.kind = "commands" =>
           \E p \in Elements(x.pending) : frame.id = p.id /\ frame.sequence = p.sequence
  PROVE  Sends(x, <<frame>>)
<1>1. <<frame>> \in Seq(Frame)
  OBVIOUS
<1> QED BY <1>1, EmptyElements DEF Sends

LEMMA MoreSent ==
  ASSUME NEW x, NEW frames, NEW more, Sends(x, frames), Sends(x, more)
  PROVE  Sends(x, frames \o more)
<1>1. frames \in Seq(Frame) /\ more \in Seq(Frame) /\ frames \o more \in Seq(Frame)
  BY DEF Sends
<1>2. Elements(frames \o more) = Elements(frames) \cup Elements(more)
  BY <1>1, ConcatElements
<1> QED BY <1>1, <1>2 DEF Sends

\* Only the texts and the pending commands matter to what may be sent.
LEMMA SentAlike ==
  ASSUME NEW x, NEW y, NEW frames, Sends(x, frames), y.texts = x.texts, y.pending = x.pending
  PROVE  Sends(y, frames)
BY DEF Sends

LEMMA TextSent ==
  ASSUME NEW x \in SessionState, x.texts # <<>>
  PROVE  Sends(x, <<TextFrame(x.texts[1])>>)
<1>1. x.texts[1] \in Elements(x.texts) /\ x.texts[1] \in Batches
  <2>1. x.texts \in Seq(Batches)
    BY DEF SessionState
  <2> QED BY <2>1, TypedElements, TailElements
<1>2. /\ TextFrame(x.texts[1]) \in Frame /\ TextFrame(x.texts[1]).kind = "text"
      /\ TextFrame(x.texts[1]).id = x.texts[1].id
      /\ TextFrame(x.texts[1]).update = x.texts[1].update
  <2>1. ASSUME NEW b \in Batches PROVE TextFrame(b) \in Frame
    <3>1. b.id \in Texts /\ b.update \in (SUBSET TextOps) \ {{}}
      BY DEF Batches
    <3>2. [kind |-> "text", id |-> b.id, update |-> b.update]
            \in [kind : {"text"}, id : Texts, update : (SUBSET TextOps) \ {{}}]
      BY <3>1
    <3> QED BY <3>2 DEF TextFrame, Frame
  <2> QED BY <1>1, <2>1 DEF TextFrame
<1> QED BY <1>1, <1>2, OneSent

LEMMA CommandSent ==
  ASSUME NEW x \in SessionState, NEW p \in Elements(x.pending)
  PROVE  Sends(x, <<CommandFrame(p)>>) /\ CommandFrame(p) \in Frame
<1>1. p \in Entries
  <2>1. x.pending \in Seq(Entries)
    BY DEF SessionState
  <2> QED BY <2>1, TypedElements
<1>2. /\ CommandFrame(p) \in Frame /\ CommandFrame(p).kind = "commands"
      /\ CommandFrame(p).id = p.id /\ CommandFrame(p).sequence = p.sequence
  BY <1>1 DEF CommandFrame, Frame, Entries
<1> QED BY <1>1, <1>2, OneSent

LEMMA ReplaySent ==
  ASSUME NEW x \in SessionState, NEW y, y.pending = x.pending
  PROVE  Sends(y, Replay(x))
<1>1. x.pending \in Seq(Entries) /\ DOMAIN Replay(x) = 1..Len(x.pending)
  BY DEF SessionState, Replay
<1>2. \A i \in 1..Len(x.pending) : x.pending[i] \in Elements(x.pending) /\ Replay(x)[i] = CommandFrame(x.pending[i])
  BY <1>1 DEF Replay, Elements
<1>3. Replay(x) \in Seq(Frame)
  <2>1. Replay(x) = [i \in 1..Len(x.pending) |-> CommandFrame(x.pending[i])]
    BY <1>1 DEF Replay
  <2>2. \A i \in 1..Len(x.pending) : CommandFrame(x.pending[i]) \in Frame
    BY <1>2, CommandSent
  <2>3. Len(x.pending) \in Nat
    BY <1>1
  <2> QED BY <2>1, <2>2, <2>3
<1>4. ASSUME NEW f \in Elements(Replay(x))
      PROVE  \E p \in Elements(x.pending) : f = CommandFrame(p)
  BY <1>1, <1>2, <1>4 DEF Elements
<1> QED BY <1>3, <1>4 DEF Sends, CommandFrame

LEMMA SyncSent ==
  ASSUME NEW x \in SessionState, NEW y
  PROVE  SyncFrame(x) \in Frame /\ Sends(y, <<SyncFrame(x)>>)
<1>1. SyncFrame(x) \in Frame /\ SyncFrame(x).kind = "syncRequest"
  BY DEF SessionState, SyncFrame, Frame
<1> QED BY <1>1, OneSent

LEMMA StartFacts ==
  ASSUME NEW x \in SessionState
  PROVE  /\ Start(x).to \in SessionState /\ Sends(Start(x).to, Start(x).frames)
         /\ Identity(Start(x).to) = Identity(x) /\ Numbering(Start(x).to) = Numbering(x)
         /\ Start(x).to.texts = x.texts /\ Start(x).to.buffer = x.buffer
<1> DEFINE y == [x EXCEPT !.timer = FALSE]
<1>1. Start(x).to = y /\ Start(x).frames = <<SyncFrame(x)>>
  BY DEF Start, Result
<1>2. /\ y \in SessionState /\ y.texts = x.texts /\ y.buffer = x.buffer
      /\ Identity(y) = Identity(x) /\ Numbering(y) = Numbering(x)
  BY DEF SessionState, Identity, Numbering
<1> QED BY <1>1, <1>2, SyncSent

LEMMA SendNextTextFacts ==
  ASSUME NEW x \in SessionState
  PROVE  LET r == SendNextText(x) IN
         /\ r.to \in SessionState /\ Sends(r.to, r.frames)
         /\ Identity(r.to) = Identity(x) /\ Numbering(r.to) = Numbering(x)
         /\ r.to.texts = x.texts /\ r.to.buffer = x.buffer
<1>1. CASE x.texts # <<>>
  BY <1>1, TextSent DEF SendNextText, Result
<1>2. CASE x.texts = <<>>
  <2> DEFINE y == [x EXCEPT !.resuming = FALSE]
  <2>1. /\ y \in SessionState /\ y.texts = x.texts /\ y.buffer = x.buffer
        /\ Identity(y) = Identity(x) /\ Numbering(y) = Numbering(x)
    BY DEF SessionState, Identity, Numbering
  <2>2. SendNextText(x) = Start(y)
    BY <1>2 DEF SendNextText
  <2> HIDE DEF y
  <2> QED BY <2>1, <2>2, StartFacts
<1> QED BY <1>1, <1>2

LEMMA ResumeTextFacts ==
  ASSUME NEW x \in SessionState
  PROVE  LET r == ResumeText(x) IN
         /\ r.to \in SessionState /\ Sends(r.to, r.frames)
         /\ Identity(r.to) = Identity(x) /\ Numbering(r.to) = Numbering(x)
         /\ Flows(x, r.to)
<1> DEFINE y == [x EXCEPT !.resuming = TRUE]
           z == Flushed(y)
<1>1. /\ y \in SessionState /\ y.texts = x.texts /\ y.buffer = x.buffer
      /\ Identity(y) = Identity(x) /\ Numbering(y) = Numbering(x)
  BY DEF SessionState, Identity, Numbering
<1>2. ResumeText(x) = SendNextText(z)
  BY DEF ResumeText
<1> HIDE DEF y
<1>3. /\ z \in SessionState /\ Flows(y, z) /\ Identity(z) = Identity(y) /\ Numbering(z) = Numbering(y)
  BY <1>1, FlushedFacts
<1> HIDE DEF z
<1>4. Flows(x, z)
  BY <1>1, <1>3 DEF Flows, Batch
<1> QED BY <1>1, <1>2, <1>3, <1>4, SendNextTextFacts DEF Flows

LEMMA SendFlushedFacts ==
  ASSUME NEW x \in SessionState
  PROVE  LET r == SendFlushed(x) IN
         /\ r.to \in SessionState /\ Sends(r.to, r.frames)
         /\ Identity(r.to) = Identity(x) /\ Numbering(r.to) = Numbering(x)
         /\ Flows(x, r.to) /\ r.to.buffer = <<>>
<1>1. SendFlushed(x).to = Flushed(x)
  BY DEF SendFlushed, Result
<1>2. \/ SendFlushed(x).frames = <<>>
      \/ Flushed(x).texts # <<>> /\ SendFlushed(x).frames = <<TextFrame(Flushed(x).texts[1])>>
  BY DEF SendFlushed, Result
<1> QED BY <1>1, <1>2, FlushedFacts, NothingSent, TextSent

-----------------------------------------------------------------------------
(* What a step of session c does: it sends frames it holds, may take one    *)
(* message, may change its connection, and leaves the state y; its user may *)
(* type the texts new.                                                      *)

Hears(c) ==
  /\ session[c].socket \in Sockets /\ down[session[c].socket] # <<>>
  /\ down' = [down EXCEPT ![session[c].socket] = Tail(@)]
Learnt(c) == IF Hears(c) /\ Told(Received(c)) THEN Received(c).update ELSE {}

Wired(c, y, frames) ==
  /\ y \in SessionState /\ session' = [session EXCEPT ![c] = y]
  /\ Sends(y, frames)
  /\ \/ up' = up
     \/ /\ session[c].socket \in Sockets /\ link[session[c].socket] = "open"
        /\ up' = [up EXCEPT ![session[c].socket] = @ \o frames]
  /\ down' = down \/ Hears(c)
  /\ UNCHANGED roomInside

Joined(c, y) ==
  /\ \/ link' = link /\ y.socket \in {session[c].socket, NoSocket}
     \/ \E s \in Sockets : /\ link[s] = "unused" /\ link' = [link EXCEPT ![s] = "connecting"]
                           /\ y.socket = s /\ down' = down
  /\ y.connected => y.socket # NoSocket
  /\ Alive(y) => Alive(session[c])
  /\ ~Alive(y) => /\ y.socket = NoSocket /\ y.pending = <<>> /\ ~y.timer
                  /\ y.buffer = <<>> /\ y.texts = <<>>

Kept(c, y, new) ==
  /\ \A t \in Elements(session[c].buffer) \cup new : TextOp(t) \in Unacknowledged(y)
  /\ \A b \in Elements(session[c].texts) :
       b \in Elements(y.texts) \/ /\ Hears(c) /\ Received(c).kind = "commit"
                                  /\ Received(c).id = b.id
Dropped(c, y, new) ==
  /\ new = {} /\ y.texts = <<>> /\ y.buffer = <<>> /\ (y.doc = {} \/ ~Alive(y))
  /\ \A t \in Texts : fate'[t] = "typed" => TextOp(t) \notin Unacknowledged(session[c])
Wrote(c, y, new) ==
  LET x == session[c] IN
  /\ new \subseteq Texts
  /\ \A t \in new : OwnerOf[t] = c /\ fate[t] = "none" /\ fate'[t] = "typed"
  /\ y.doc \subseteq x.doc \cup TextsOf(new) \cup Learnt(c)
  /\ Elements(y.buffer) \subseteq Elements(x.buffer) \cup new
  /\ \A b \in Elements(y.texts) \ Elements(x.texts) :
       x.buffer # <<>> /\ b = Batch(x) /\ Elements(y.buffer) \subseteq new
  /\ fate' \in [Texts -> {"none", "typed", "abandoned"}]
  /\ \A t \in Texts : fate'[t] = fate[t] \/ t \in new \/ fate'[t] = "abandoned"
  /\ Kept(c, y, new) \/ Dropped(c, y, new)

Moved(c, y, frames, new) == Wired(c, y, frames) /\ Joined(c, y) /\ Wrote(c, y, new)
Moves(c) == \E y, frames, new : Moved(c, y, frames, new)

LEMMA BecomeWired ==
  ASSUME SessionTypeOK, NEW c \in Sessions, NEW y \in SessionState, NEW frames,
         Become(c, Result(y, frames)), Sends(y, frames),
         y.socket = session[c].socket, y.connected => session[c].socket # NoSocket,
         down' = down \/ Hears(c), UNCHANGED roomInside
  PROVE  Wired(c, y, frames)
<1>1. session[c].socket \in Sockets \cup {NoSocket}
  BY DEF SessionTypeOK, SessionState
<1>2. /\ session' = [session EXCEPT ![c] = y]
      /\ up' = IF y.connected /\ link[y.socket] = "open"
               THEN [up EXCEPT ![y.socket] = @ \o frames] ELSE up
  BY DEF Become, Result
<1> QED BY <1>1, <1>2 DEF Wired

LEMMA ReceivesFacts ==
  ASSUME SessionTypeOK, SocketsInv, NEW c \in Sessions, NEW kind, Receives(c, kind)
  PROVE  /\ Hears(c) /\ UNCHANGED roomInside /\ link' = link /\ Received(c).kind = kind
         /\ session[c].socket \in Sockets /\ session[c].socket # NoSocket /\ Alive(session[c])
<1>1. session[c].socket \in Sockets \cup {NoSocket} /\ session[c].socket # NoSocket
  BY DEF SessionTypeOK, SessionState, Receives
<1>2. Alive(session[c])
  BY <1>1 DEF SocketsInv
<1> QED BY <1>1, <1>2 DEF Receives, Hears, Received

\* Texts that stay or are flushed lose and invent nothing.
LEMMA FlowsWrote ==
  ASSUME SessionTypeOK, NEW c \in Sessions, NEW y \in SessionState, Flows(session[c], y),
         y.doc \subseteq session[c].doc \cup Learnt(c), fate' = fate
  PROVE  Wrote(c, y, {})
<1> DEFINE x == session[c]
<1>1. x \in SessionState /\ fate \in [Texts -> {"none", "typed", "abandoned"}]
  BY DEF SessionTypeOK
<1>2. CASE y.buffer = x.buffer /\ y.texts = x.texts
  <2>1. Kept(c, y, {})
    BY <1>2 DEF Kept, Unacknowledged, TextsOf
  <2> QED BY <1>1, <1>2, <2>1 DEF Wrote
<1>3. CASE x.buffer # <<>> /\ y.buffer = <<>> /\ y.texts = Append(x.texts, Batch(x))
  <2>1. Elements(y.texts) = Elements(x.texts) \cup {Batch(x)} /\ Elements(y.buffer) = {}
    <3>1. x.texts \in Seq(Batches)
      BY <1>1 DEF SessionState
    <3> QED BY <1>3, <3>1, AppendElements, EmptyElements
  <2>2. Batch(x).update = TextsOf(Elements(x.buffer))
    BY DEF Batch
  <2>3. Kept(c, y, {})
    BY <2>1, <2>2 DEF Kept, Unacknowledged, TextsOf
  <2> QED BY <1>1, <1>3, <2>1, <2>3 DEF Wrote
<1> QED BY <1>2, <1>3 DEF Flows

\* A step that keeps the socket and sends what it holds.
LEMMA BecomeMoves ==
  ASSUME SessionTypeOK, SocketsInv, NEW c \in Sessions, NEW y \in SessionState, NEW frames,
         Become(c, Result(y, frames)), Sends(y, frames), Flows(session[c], y),
         y.socket = session[c].socket, y.connected => session[c].socket # NoSocket,
         y.end = session[c].end, Alive(session[c]),
         y.doc \subseteq session[c].doc \cup Learnt(c), fate' = fate,
         down' = down \/ Hears(c), link' = link, UNCHANGED roomInside
  PROVE  Moves(c)
<1>1. Wired(c, y, frames) /\ Wrote(c, y, {})
  BY BecomeWired, FlowsWrote
<1>2. Joined(c, y)
  BY DEF Joined, Alive
<1> QED BY <1>1, <1>2 DEF Moves, Moved

LEMMA IdentityFacts ==
  ASSUME NEW x, NEW y, Identity(y) = Identity(x)
  PROVE  /\ y.socket = x.socket /\ y.connected = x.connected /\ y.doc = x.doc
         /\ y.initialized = x.initialized /\ y.end = x.end
BY DEF Identity

LEMMA ConnectedFacts ==
  ASSUME SocketsInv, NEW c \in Sessions
  PROVE  session[c].connected => session[c].socket # NoSocket
BY DEF SocketsInv

LEMMA FlushTimerMoves ==
  ASSUME SessionTypeOK, SocketsInv, NEW c \in Sessions, FlushTimer(c)
  PROVE  Moves(c)
<1> DEFINE x == session[c]
           y == SendFlushed(x).to
           frames == SendFlushed(x).frames
<1>1. x \in SessionState /\ Alive(x)
  BY DEF SessionTypeOK, SocketsInv, FlushTimer
<1>2. /\ y \in SessionState /\ Sends(y, frames) /\ Identity(y) = Identity(x) /\ Flows(x, y)
  BY <1>1, SendFlushedFacts
<1>3. Become(c, Result(y, frames)) /\ down' = down /\ link' = link /\ UNCHANGED roomInside /\ fate' = fate
  BY DEF FlushTimer, SendFlushed, Result
<1> HIDE DEF y, frames
<1> QED BY <1>1, <1>2, <1>3, IdentityFacts, ConnectedFacts, BecomeMoves

LEMMA RetryTimerMoves ==
  ASSUME SessionTypeOK, SocketsInv, NEW c \in Sessions, RetryTimer(c)
  PROVE  Moves(c)
<1> DEFINE x == session[c]
           w == [x EXCEPT !.timer = FALSE]
           y == ResumeText(w).to
           frames == ResumeText(w).frames
<1>1. x \in SessionState /\ Alive(x)
  BY DEF SessionTypeOK, SocketsInv, RetryTimer
<1>2. /\ w \in SessionState /\ Identity(w) = Identity(x) /\ w.texts = x.texts /\ w.buffer = x.buffer
  BY <1>1 DEF SessionState, Identity
<1>3. Become(c, ResumeText(w)) /\ down' = down /\ link' = link /\ UNCHANGED roomInside /\ fate' = fate
  BY DEF RetryTimer
<1> HIDE DEF w
<1>4. /\ y \in SessionState /\ Sends(y, frames) /\ Identity(y) = Identity(w) /\ Flows(w, y)
  BY <1>2, ResumeTextFacts
<1>5. Become(c, Result(y, frames))
  BY <1>3 DEF Become, Result
<1> HIDE DEF y, frames
<1>6. Flows(x, y)
  BY <1>2, <1>4 DEF Flows, Batch
<1> QED BY <1>1, <1>2, <1>3, <1>4, <1>5, <1>6, IdentityFacts, ConnectedFacts, BecomeMoves

LEMMA ReceiveReadyMoves ==
  ASSUME SessionTypeOK, SocketsInv, NEW c \in Sessions, ReceiveReady(c)
  PROVE  Moves(c)
<1> DEFINE x == session[c]
           w == [x EXCEPT !.connected = TRUE, !.ready = FALSE]
           y == ResumeText(w).to
           frames == ResumeText(w).frames
<1>1. x \in SessionState /\ Alive(x) /\ Hears(c) /\ x.socket # NoSocket
  BY ReceivesFacts DEF SessionTypeOK, ReceiveReady
<1>2. /\ w \in SessionState /\ w.socket = x.socket /\ w.doc = x.doc /\ w.end = x.end
      /\ w.texts = x.texts /\ w.buffer = x.buffer
  BY <1>1 DEF SessionState
<1>3. Become(c, ResumeText(w)) /\ link' = link /\ UNCHANGED roomInside /\ fate' = fate
  BY ReceivesFacts DEF ReceiveReady
<1> HIDE DEF w
<1>4. /\ y \in SessionState /\ Sends(y, frames) /\ Identity(y) = Identity(w) /\ Flows(w, y)
  BY <1>2, ResumeTextFacts
<1>5. Become(c, Result(y, frames))
  BY <1>3 DEF Become, Result
<1> HIDE DEF y, frames
<1>6. Flows(x, y)
  BY <1>2, <1>4 DEF Flows, Batch
<1> QED BY <1>1, <1>2, <1>3, <1>4, <1>5, <1>6, IdentityFacts, BecomeMoves

\* What a message that carries operations brings.
LEMMA LearntFacts ==
  ASSUME TypeOK, SessionTypeOK, SocketsInv, NEW c \in Sessions, NEW kind \in {"commit", "syncResponse"},
         Receives(c, kind)
  PROVE  Received(c).update \in SUBSET Op /\ Learnt(c) = Received(c).update
<1>1. Hears(c) /\ Received(c).kind = kind /\ down[session[c].socket] # <<>>
  BY ReceivesFacts DEF Hears
<1>2. Received(c) \in Message
  <2>1. down[session[c].socket] \in Seq(Message)
    BY <1>1 DEF Hears, TypeOK
  <2> QED BY <1>1, <2>1 DEF Received
<1> QED BY <1>1, <1>2 DEF Learnt, Told, Message

LEMMA IntegratedFacts ==
  ASSUME NEW x \in SessionState, NEW update \in SUBSET Op
  PROVE  LET y == Integrated(x, update) IN
         /\ y \in SessionState /\ y.doc = x.doc \cup update
         /\ y.socket = x.socket /\ y.connected = x.connected /\ y.end = x.end /\ y.attempts = x.attempts
         /\ y.texts = x.texts /\ y.buffer = x.buffer /\ Numbering(y) = Numbering(x)
         /\ y.resuming = x.resuming /\ y.initializing = x.initializing
BY DEF SessionState, Integrated, Numbering

LEMMA ReceiveSyncResponseMoves ==
  ASSUME TypeOK, SessionTypeOK, SocketsInv, NEW c \in Sessions, ReceiveSyncResponse(c)
  PROVE  Moves(c)
<1> DEFINE x == session[c]
           y == Integrated(x, Received(c).update)
<1>1. /\ x \in SessionState /\ Alive(x) /\ Hears(c) /\ x.socket # NoSocket
      /\ link' = link /\ UNCHANGED roomInside
  BY ReceivesFacts DEF SessionTypeOK, ReceiveSyncResponse
<1>2. Received(c).update \in SUBSET Op /\ Learnt(c) = Received(c).update
  BY LearntFacts DEF ReceiveSyncResponse
<1>3. /\ y \in SessionState /\ y.socket = x.socket /\ y.connected = x.connected /\ y.end = x.end
      /\ y.doc = x.doc \cup Learnt(c) /\ Flows(x, y)
  BY <1>1, <1>2, IntegratedFacts DEF Flows
<1>4. Become(c, Result(y, <<>>)) /\ fate' = fate
  BY DEF ReceiveSyncResponse
<1> HIDE DEF y
<1> QED BY <1>1, <1>3, <1>4, NothingSent, ConnectedFacts, BecomeMoves

\* What a session holds more than the room says it holds is text.
LEMMA AnswerSent ==
  ASSUME TypeOK, SessionTypeOK, SocketsInv, ToldInv, NEW c \in Sessions,
         Receives(c, "syncRequest"), NEW y
  PROVE  Sends(y, <<[kind |-> "syncResponse", update |-> session[c].doc \ Received(c).have]>>)
<1> DEFINE s == session[c].socket
           update == session[c].doc \ Received(c).have
<1>1. s \in Sockets /\ down[s] # <<>> /\ Received(c).kind = "syncRequest"
  BY ReceivesFacts DEF Hears
<1>2. 1 \in DOMAIN down[s] /\ Received(c) = down[s][1]
  <2>1. down[s] \in Seq(Message)
    BY <1>1 DEF TypeOK
  <2> QED BY <1>1, <2>1, TailElements DEF Received
<1>3. update \subseteq TextOps
  BY <1>1, <1>2 DEF ToldInv
<1> HIDE DEF update
<1>4. [kind |-> "syncResponse", update |-> update] \in Frame
  BY <1>3 DEF Frame
<1>5. Sends(y, <<[kind |-> "syncResponse", update |-> update]>>)
  BY <1>4, OneSent
<1> QED BY <1>5 DEF update

LEMMA ReceiveSyncRequestMoves ==
  ASSUME TypeOK, SessionTypeOK, SocketsInv, ToldInv, NEW c \in Sessions, ReceiveSyncRequest(c)
  PROVE  Moves(c)
<1> DEFINE x == session[c]
           answer == <<[kind |-> "syncResponse", update |-> x.doc \ Received(c).have]>>
           initialize == <<[kind |-> "initialize", id |-> InitialOf[c]]>>
           w == [x EXCEPT !.ready = FALSE, !.initializing = FALSE]
           resumed == Flushed(w)
<1>1. /\ x \in SessionState /\ Alive(x) /\ Hears(c) /\ x.socket # NoSocket
      /\ link' = link /\ UNCHANGED roomInside /\ fate' = fate
  BY ReceivesFacts DEF SessionTypeOK, ReceiveSyncRequest
<1>2. \A y : Sends(y, answer)
  BY AnswerSent DEF ReceiveSyncRequest
<1>3. \A y : Sends(y, initialize)
  <2>1. [kind |-> "initialize", id |-> InitialOf[c]] \in Frame
    BY SessionAssumption DEF Frame
  <2> QED BY <2>1, OneSent
<1>4. /\ w \in SessionState /\ Identity(w) = Identity(x) /\ Numbering(w) = Numbering(x)
      /\ w.texts = x.texts /\ w.buffer = x.buffer
  BY <1>1 DEF SessionState, Identity, Numbering
<1> HIDE DEF w
<1>5. /\ resumed \in SessionState /\ Identity(resumed) = Identity(x) /\ Flows(x, resumed)
      /\ Numbering(resumed) = Numbering(x)
  BY <1>4, FlushedFacts DEF Flows, Batch
<1> HIDE DEF answer, initialize, resumed
<1>6. ASSUME NEW y \in SessionState, NEW frames, Become(c, Result(y, frames)), Sends(y, frames),
             Identity(y) = Identity(x), Flows(x, y)
      PROVE  Moves(c)
  BY <1>1, <1>6, IdentityFacts, ConnectedFacts, BecomeMoves
<1>7. CASE Become(c, Result([x EXCEPT !.initializing = TRUE, !.ready = FALSE],
                            answer \o initialize \o Replay(x)))
  <2> DEFINE y == [x EXCEPT !.initializing = TRUE, !.ready = FALSE]
  <2>1. /\ y \in SessionState /\ Identity(y) = Identity(x) /\ Flows(x, y)
        /\ y.texts = x.texts /\ y.pending = x.pending
    BY <1>1 DEF SessionState, Identity, Flows
  <2> HIDE DEF y
  <2>2. Sends(y, answer \o initialize \o Replay(x))
    <3>1. Sends(y, Replay(x))
      BY <1>1, <2>1, ReplaySent
    <3> QED BY <1>2, <1>3, <3>1, MoreSent
  <2>3. Become(c, Result(y, answer \o initialize \o Replay(x)))
    BY <1>7 DEF y
  <2> QED BY <1>6, <2>1, <2>2, <2>3
<1>8. CASE Become(c, Result([x EXCEPT !.initializing = FALSE, !.ready = FALSE], answer))
  <2> DEFINE y == [x EXCEPT !.initializing = FALSE, !.ready = FALSE]
  <2>1. y \in SessionState /\ Identity(y) = Identity(x) /\ Flows(x, y)
    BY <1>1 DEF SessionState, Identity, Flows
  <2>2. Become(c, Result(y, answer))
    BY <1>8
  <2> HIDE DEF y
  <2> QED BY <1>2, <1>6, <2>1, <2>2
<1>9. CASE /\ resumed.texts # <<>>
           /\ Become(c, Result([resumed EXCEPT !.resuming = TRUE],
                               Append(answer, TextFrame(resumed.texts[1]))))
  <2> DEFINE y == [resumed EXCEPT !.resuming = TRUE]
  <2>1. /\ y \in SessionState /\ Identity(y) = Identity(x) /\ Flows(x, y)
        /\ y.texts = resumed.texts /\ y.pending = resumed.pending
    BY <1>5 DEF SessionState, Identity, Flows
  <2>2. Become(c, Result(y, Append(answer, TextFrame(resumed.texts[1]))))
    BY <1>9
  <2> HIDE DEF y
  <2>3. Sends(y, <<TextFrame(resumed.texts[1])>>)
    BY <1>5, <1>9, <2>1, TextSent, SentAlike
  <2>4. Append(answer, TextFrame(resumed.texts[1])) = answer \o <<TextFrame(resumed.texts[1])>>
    BY <1>2, <2>3 DEF Sends
  <2> QED BY <1>2, <1>6, <2>1, <2>2, <2>3, <2>4, MoreSent
<1>10. CASE Become(c, Result([resumed EXCEPT !.ready = TRUE, !.recovering = FALSE],
                             answer \o Replay(x)))
  <2> DEFINE y == [resumed EXCEPT !.ready = TRUE, !.recovering = FALSE]
  <2>1. /\ y \in SessionState /\ Identity(y) = Identity(x) /\ Flows(x, y)
        /\ y.texts = resumed.texts /\ y.pending = resumed.pending
    BY <1>5 DEF SessionState, Identity, Flows
  <2>2. Become(c, Result(y, answer \o Replay(x)))
    BY <1>10
  <2> HIDE DEF y
  <2>3. Sends(y, Replay(x))
    <3>1. y.pending = x.pending
      BY <1>5, <2>1 DEF Numbering
    <3> QED BY <1>1, <3>1, ReplaySent
  <2> QED BY <1>2, <1>6, <2>1, <2>2, <2>3, MoreSent
<1> QED BY <1>7, <1>8, <1>9, <1>10 DEF ReceiveSyncRequest, answer, initialize, resumed, w

\* A step that sends nothing and leaves the texts alone.
LEMMA StillMoves ==
  ASSUME SessionTypeOK, NEW c \in Sessions, NEW y \in SessionState, Joined(c, y),
         session' = [session EXCEPT ![c] = y], up' = up, down' = down \/ Hears(c),
         UNCHANGED roomInside, fate' = fate,
         y.doc = session[c].doc, y.texts = session[c].texts, y.buffer = session[c].buffer
  PROVE  Moves(c)
<1>1. Flows(session[c], y)
  BY DEF Flows
<1>2. Wired(c, y, <<>>)
  BY NothingSent DEF Wired
<1> QED BY <1>1, <1>2, FlowsWrote DEF Moves, Moved

LEMMA DisconnectedFacts ==
  ASSUME NEW x \in SessionState
  PROVE  LET y == Disconnected(x) IN
         /\ y \in SessionState /\ y.socket = NoSocket /\ ~y.connected /\ y.end = x.end
         /\ y.doc = x.doc /\ y.texts = x.texts /\ y.buffer = x.buffer /\ Numbering(y) = Numbering(x)
BY DEF SessionState, Disconnected, Numbering

LEMMA DisconnectMoves ==
  ASSUME SessionTypeOK, SocketsInv, NEW c \in Sessions, Lose(c) \/ NoticeClose(c)
  PROVE  Moves(c)
<1> DEFINE x == session[c]
           y == Disconnected(x)
<1>1. /\ x \in SessionState /\ Alive(x)
      /\ session' = [session EXCEPT ![c] = y] /\ UNCHANGED <<roomVars, fate>>
  BY DEF SessionTypeOK, SocketsInv, Lose, NoticeClose
<1>2. /\ y \in SessionState /\ y.socket = NoSocket /\ ~y.connected /\ y.end = x.end
      /\ y.doc = x.doc /\ y.texts = x.texts /\ y.buffer = x.buffer
  BY <1>1, DisconnectedFacts
<1> HIDE DEF y
<1>3. up' = up /\ down' = down /\ link' = link /\ UNCHANGED roomInside
  BY <1>1 DEF roomVars, roomInside
<1>4. Joined(c, y)
  BY <1>1, <1>2, <1>3 DEF Joined, Alive
<1> QED BY <1>1, <1>2, <1>3, <1>4, StillMoves

LEMMA OpenMoves ==
  ASSUME SessionTypeOK, SocketsInv, NEW c \in Sessions, Open(c)
  PROVE  Moves(c)
<1> DEFINE x == session[c]
<1>1. PICK s \in Sockets : Connect(s) /\ session' = [session EXCEPT ![c].socket = s]
  BY DEF Open
<1> DEFINE y == [x EXCEPT !.socket = s]
<1>2. x \in SessionState /\ Alive(x) /\ fate' = fate
  BY DEF SessionTypeOK, Open
<1>3. session' = [session EXCEPT ![c] = y]
  BY <1>1
<1>4. /\ y \in SessionState /\ y.socket = s /\ y.end = x.end
      /\ y.doc = x.doc /\ y.texts = x.texts /\ y.buffer = x.buffer
  BY <1>2 DEF SessionState
<1> HIDE DEF y
<1>5. /\ link[s] = "unused" /\ link' = [link EXCEPT ![s] = "connecting"]
      /\ up' = up /\ down' = down /\ UNCHANGED roomInside
  BY <1>1 DEF Connect, roomInside
<1>6. Joined(c, y)
  BY <1>2, <1>4, <1>5, RoomAssumption DEF Joined, Alive
<1> QED BY <1>2, <1>3, <1>4, <1>5, <1>6, StillMoves

\* An ended session keeps nothing, and its user is told which texts are lost.
LEMMA AbandonFacts ==
  ASSUME SessionTypeOK, NEW c \in Sessions, NEW y, Abandon(c),
         y.texts = <<>>, y.buffer = <<>>, y.doc = {} \/ ~Alive(y), y.doc \subseteq session[c].doc
  PROVE  Wrote(c, y, {})
<1>1. /\ fate \in [Texts -> {"none", "typed", "abandoned"}]
      /\ fate' = [t \in Texts |-> IF TextOp(t) \in Unacknowledged(session[c])
                                  THEN "abandoned" ELSE fate[t]]
  BY DEF SessionTypeOK, Abandon, Unacknowledged
<1>2. Dropped(c, y, {})
  BY <1>1 DEF Dropped
<1> QED BY <1>1, <1>2, EmptyElements DEF Wrote

LEMMA EndedFacts ==
  ASSUME NEW x \in SessionState, NEW end \in {"rejected", "exhausted", "destroyed"}
  PROVE  LET y == Ended(x, end) IN
         /\ y \in SessionState /\ y.socket = NoSocket /\ ~y.connected /\ y.end = end
         /\ y.doc = x.doc /\ y.texts = <<>> /\ y.buffer = <<>> /\ y.pending = <<>> /\ ~y.timer
<1> DEFINE w == Disconnected(x)
<1>1. w \in SessionState /\ w.socket = NoSocket /\ ~w.connected /\ w.doc = x.doc
  BY DisconnectedFacts
<1>2. Ended(x, end) = [w EXCEPT !.end = end, !.timer = FALSE, !.pending = <<>>,
                               !.buffer = <<>>, !.texts = <<>>]
  BY DEF Ended
<1> HIDE DEF w
<1>3. <<>> \in Seq(Entries) /\ <<>> \in Seq(Texts) /\ <<>> \in Seq(Batches)
  OBVIOUS
<1> QED BY ZenonT(40), <1>1, <1>2, <1>3 DEF SessionState

LEMMA EndMoves ==
  ASSUME SessionTypeOK, NEW c \in Sessions, NEW end \in {"rejected", "exhausted", "destroyed"},
         End(c, end), up' = up, down' = down \/ Hears(c), link' = link, UNCHANGED roomInside
  PROVE  Moves(c)
<1> DEFINE x == session[c]
           y == Ended(x, end)
<1>1. x \in SessionState /\ session' = [session EXCEPT ![c] = y] /\ Abandon(c)
  BY DEF SessionTypeOK, End
<1>2. /\ y \in SessionState /\ y.socket = NoSocket /\ ~y.connected /\ ~Alive(y) /\ y.doc = x.doc
      /\ y.texts = <<>> /\ y.buffer = <<>> /\ y.pending = <<>> /\ ~y.timer
  BY <1>1, EndedFacts DEF Alive
<1> HIDE DEF y
<1>3. Wrote(c, y, {})
  BY <1>1, <1>2, AbandonFacts
<1>4. Wired(c, y, <<>>)
  BY <1>1, <1>2, NothingSent DEF Wired
<1>5. Joined(c, y)
  BY <1>2 DEF Joined
<1> QED BY <1>3, <1>4, <1>5 DEF Moves, Moved

LEMMA ReceiveRetryMoves ==
  ASSUME SessionTypeOK, SocketsInv, NEW c \in Sessions, ReceiveRetry(c)
  PROVE  Moves(c)
<1> DEFINE x == session[c]
           y == [x EXCEPT !.attempts = @ + 1, !.ready = FALSE, !.timer = TRUE,
                          !.resuming = @ \/ x.texts # <<>> \/ x.buffer # <<>>]
<1>1. /\ x \in SessionState /\ Alive(x) /\ Hears(c) /\ link' = link /\ UNCHANGED roomInside
      /\ up' = up
  BY ReceivesFacts DEF SessionTypeOK, ReceiveRetry
<1>2. CASE End(c, "exhausted")
  BY <1>1, <1>2, EndMoves
<1>3. CASE session' = [session EXCEPT ![c] = y] /\ fate' = fate
  <2>1. /\ y \in SessionState /\ y.socket = x.socket /\ y.connected = x.connected /\ y.end = x.end
        /\ y.doc = x.doc /\ y.texts = x.texts /\ y.buffer = x.buffer
    <3>1. x.attempts + 1 \in Nat /\ x.resuming \in BOOLEAN
      BY <1>1 DEF SessionState
    <3>2. (x.resuming \/ x.texts # <<>> \/ x.buffer # <<>>) \in BOOLEAN
      BY <3>1
    <3> DEFINE resuming == x.resuming \/ x.texts # <<>> \/ x.buffer # <<>>
    <3> HIDE DEF resuming
    <3>3. y = [x EXCEPT !.attempts = x.attempts + 1, !.ready = FALSE, !.timer = TRUE,
                        !.resuming = resuming]
      BY DEF resuming
    <3>4. resuming \in BOOLEAN
      BY <3>2 DEF resuming
    <3> HIDE DEF y
    <3> QED BY <1>1, <3>1, <3>3, <3>4 DEF SessionState
  <2>2. session' = [session EXCEPT ![c] = y] /\ fate' = fate
    BY <1>3
  <2> HIDE DEF y
  <2>3. Joined(c, y)
    BY <1>1, <2>1, ConnectedFacts DEF Joined, Alive
  <2> QED BY <1>1, <2>1, <2>2, <2>3, StillMoves
<1> QED BY <1>2, <1>3 DEF ReceiveRetry

LEMMA EndingMoves ==
  ASSUME SessionTypeOK, SocketsInv, NEW c \in Sessions, Destroy(c) \/ ReceiveReject(c)
  PROVE  Moves(c)
<1>1. CASE Destroy(c)
  <2>1. up' = up /\ down' = down /\ link' = link /\ UNCHANGED roomInside
    BY <1>1 DEF Destroy, roomVars, roomInside
  <2> QED BY <1>1, <2>1, EndMoves DEF Destroy
<1>2. CASE ReceiveReject(c)
  BY <1>2, ReceivesFacts, EndMoves DEF ReceiveReject
<1> QED BY <1>1, <1>2

LEMMA RenumberedType ==
  ASSUME NEW pending \in Seq(Entries), NEW accepted \in Nat
  PROVE  /\ Renumbered(pending, accepted) \in Seq(Entries)
         /\ accepted + Len(pending) \in Nat
         /\ DOMAIN Renumbered(pending, accepted) = DOMAIN pending
         /\ \A i \in DOMAIN pending : Renumbered(pending, accepted)[i].id = pending[i].id
<1> DEFINE new == [i \in 1..Len(pending) |-> [pending[i] EXCEPT !.sequence = accepted + i]]
<1>1. DOMAIN pending = 1..Len(pending) /\ Len(pending) \in Nat
  OBVIOUS
<1>2. Renumbered(pending, accepted) = new
  BY <1>1 DEF Renumbered
<1>3. \A i \in 1..Len(pending) : /\ [pending[i] EXCEPT !.sequence = accepted + i] \in Entries
                                 /\ [pending[i] EXCEPT !.sequence = accepted + i].id = pending[i].id
  <2> SUFFICES ASSUME NEW i \in 1..Len(pending)
               PROVE  /\ [pending[i] EXCEPT !.sequence = accepted + i] \in Entries
                      /\ [pending[i] EXCEPT !.sequence = accepted + i].id = pending[i].id
    OBVIOUS
  <2>1. pending[i] \in Entries
    BY <1>1
  <2>2. accepted + i \in Nat \ {0}
    BY <1>1
  <2> DEFINE entry == pending[i]
             sequence == accepted + i
  <2> HIDE DEF entry, sequence
  <2>3. [entry EXCEPT !.sequence = sequence] \in Entries /\ [entry EXCEPT !.sequence = sequence].id = entry.id
    BY <2>1, <2>2 DEF Entries, entry, sequence
  <2> QED BY <2>3 DEF entry, sequence
<1>4. new \in Seq(Entries)
  BY <1>1, <1>3
<1>5. DOMAIN new = DOMAIN pending /\ \A i \in DOMAIN pending : new[i].id = pending[i].id
  BY <1>1, <1>3
<1> QED BY <1>1, <1>2, <1>4, <1>5

LEMMA AcknowledgedFacts ==
  ASSUME NEW c \in Sessions, NEW x \in SessionState, NEW id
  PROVE  LET r == Acknowledged(c, x, id) IN
         /\ r.to \in SessionState /\ Sends(r.to, r.frames) /\ Identity(r.to) = Identity(x)
         /\ r.to.texts = Without(x.texts, id) /\ r.to.buffer = x.buffer
         /\ r.to.pending = Without(x.pending, id) /\ r.to.sequence = x.sequence
<1> DEFINE ofText == \E b \in Elements(x.texts) : b.id = id
           ofCommand == \E p \in Elements(x.pending) : p.id = id
           ofInitialization == x.initializing /\ id = InitialOf[c]
           texts == Without(x.texts, id)
           pending == Without(x.pending, id)
           initializing == x.initializing /\ ~ofInitialization
           attempts == IF ofText \/ ofCommand \/ ofInitialization THEN 0 ELSE x.attempts
           y == [x EXCEPT !.texts = texts, !.pending = pending,
                          !.initializing = initializing, !.attempts = attempts]
           next == IF ~ofText THEN Result(y, <<>>)
                   ELSE IF x.resuming \/ y.texts # <<>> THEN SendNextText(y)
                   ELSE Result(y, <<>>)
           z == next.to
           ready == z.ready \/ (z.initialized /\ ~z.resuming /\ z.attempts = 0)
           w == [z EXCEPT !.ready = ready]
<1>1. Acknowledged(c, x, id) = Result(w, next.frames)
  BY DEF Acknowledged
<1>2. /\ x.texts \in Seq(Batches) /\ x.pending \in Seq(Entries) /\ x.initializing \in BOOLEAN
      /\ x.attempts \in Nat
  BY DEF SessionState
<1>3. texts \in Seq(Batches) /\ pending \in Seq(Entries)
  BY <1>2, WithoutFacts
<1>4. initializing \in BOOLEAN /\ attempts \in Nat
  BY <1>2
<1>5. next = Result(y, <<>>) \/ next = SendNextText(y)
  OBVIOUS
<1> HIDE DEF texts, pending, initializing, attempts
<1>6. /\ y \in SessionState /\ Identity(y) = Identity(x) /\ y.texts = texts /\ y.buffer = x.buffer
      /\ y.pending = pending /\ y.sequence = x.sequence
  BY <1>3, <1>4 DEF SessionState, Identity
<1> HIDE DEF y, next, ofText
<1>7. /\ z \in SessionState /\ Sends(z, next.frames) /\ Identity(z) = Identity(y)
      /\ z.texts = y.texts /\ z.buffer = y.buffer /\ Numbering(z) = Numbering(y)
  <2>1. CASE next = Result(y, <<>>)
    BY <1>6, <2>1, NothingSent DEF Result
  <2>2. CASE next = SendNextText(y)
    BY <1>6, <2>2, SendNextTextFacts
  <2> QED BY <1>5, <2>1, <2>2
<1> HIDE DEF z
<1>8. ready \in BOOLEAN
  BY <1>7 DEF SessionState
<1> HIDE DEF ready
<1>9. /\ w \in SessionState /\ Identity(w) = Identity(z) /\ Numbering(w) = Numbering(z)
      /\ w.texts = z.texts /\ w.buffer = z.buffer
  BY <1>7, <1>8 DEF SessionState, Identity, Numbering
<1> HIDE DEF w
<1>10. Sends(w, next.frames)
  BY <1>7, <1>9, SentAlike DEF Numbering
<1> QED BY <1>1, <1>6, <1>7, <1>9, <1>10 DEF Result, texts, pending, Numbering

LEMMA ReceiveCommitMoves ==
  ASSUME TypeOK, SessionTypeOK, SocketsInv, NEW c \in Sessions, ReceiveCommit(c)
  PROVE  Moves(c)
<1> DEFINE x == session[c]
           id == Received(c).id
           w == Integrated(x, Received(c).update)
           y == Acknowledged(c, w, id).to
           frames == Acknowledged(c, w, id).frames
<1>1. /\ x \in SessionState /\ Alive(x) /\ Hears(c) /\ Received(c).kind = "commit"
      /\ link' = link /\ UNCHANGED roomInside
  BY ReceivesFacts DEF SessionTypeOK, ReceiveCommit
<1>2. Received(c).update \in SUBSET Op /\ Learnt(c) = Received(c).update
  BY LearntFacts DEF ReceiveCommit
<1>3. /\ w \in SessionState /\ w.socket = x.socket /\ w.connected = x.connected /\ w.end = x.end
      /\ w.doc = x.doc \cup Learnt(c) /\ w.texts = x.texts /\ w.buffer = x.buffer
  BY <1>1, <1>2, IntegratedFacts
<1>4. Become(c, Acknowledged(c, w, id)) /\ fate' = fate
  BY DEF ReceiveCommit
<1> HIDE DEF w, id
<1>5. /\ y \in SessionState /\ Sends(y, frames) /\ Identity(y) = Identity(w)
      /\ y.texts = Without(x.texts, id) /\ y.buffer = x.buffer
  BY <1>3, AcknowledgedFacts
<1>6. Become(c, Result(y, frames))
  BY <1>4 DEF Become, Result
<1> HIDE DEF y, frames
<1>7. /\ y.socket = x.socket /\ y.connected = x.connected /\ y.end = x.end
      /\ y.doc = x.doc \cup Learnt(c)
  BY <1>3, <1>5, IdentityFacts
<1>8. Wired(c, y, frames) /\ Joined(c, y)
  <2>1. Wired(c, y, frames)
    BY <1>1, <1>5, <1>6, <1>7, ConnectedFacts, BecomeWired
  <2> QED BY <1>1, <1>7, <2>1, ConnectedFacts DEF Joined, Alive
<1>9. /\ Elements(y.texts) \subseteq Elements(x.texts)
      /\ \A b \in Elements(x.texts) : b.id # id => b \in Elements(y.texts)
  <2>1. x.texts \in Seq(Batches)
    BY <1>1 DEF SessionState
  <2> QED BY <1>5, <2>1, WithoutFacts
<1>10. Kept(c, y, {})
  BY <1>1, <1>5, <1>9 DEF Kept, Unacknowledged, TextsOf, id
<1>11. Wrote(c, y, {})
  <2>1. fate' \in [Texts -> {"none", "typed", "abandoned"}]
    BY <1>4 DEF SessionTypeOK
  <2> QED BY <1>4, <1>5, <1>7, <1>9, <1>10, <2>1 DEF Wrote
<1> QED BY <1>8, <1>11 DEF Moves, Moved

LEMMA ReceiveConflictMoves ==
  ASSUME TypeOK, SessionTypeOK, SocketsInv, NEW c \in Sessions, ReceiveConflict(c)
  PROVE  Moves(c)
<1> DEFINE x == session[c]
           message == Received(c)
           rest == Without(x.pending, message.id)
           pending == Renumbered(rest, message.accepted)
           sequence == message.accepted + Len(rest)
           w == [x EXCEPT !.pending = pending, !.sequence = sequence, !.ready = FALSE]
           y == Start(w).to
           frames == Start(w).frames
<1>1. /\ x \in SessionState /\ Alive(x) /\ Hears(c) /\ message.kind = "conflict"
      /\ link' = link /\ UNCHANGED roomInside /\ fate' = fate
  BY ReceivesFacts DEF SessionTypeOK, ReceiveConflict
<1>2. CASE up' = up /\ session' = session
  <2>1. session' = [session EXCEPT ![c] = x]
    BY <1>2 DEF SessionTypeOK
  <2>2. Joined(c, x)
    BY <1>1, ConnectedFacts DEF Joined, Alive
  <2> QED BY <1>1, <1>2, <2>1, <2>2, StillMoves
<1>3. CASE Become(c, Start(w))
  <2>1. message.accepted \in Nat
    <3>1. down[session[c].socket] \in Seq(Message) /\ down[session[c].socket] # <<>>
      BY <1>1 DEF Hears, TypeOK
    <3>2. message \in Message
      BY <3>1, TailElements DEF Received
    <3> QED BY <1>1, <3>2 DEF Message
  <2>2. rest \in Seq(Entries) /\ Len(rest) \in Nat
    <3>1. x.pending \in Seq(Entries)
      BY <1>1 DEF SessionState
    <3> QED BY <3>1, WithoutFacts
  <2>3. Become(c, Result(y, frames))
    BY <1>3 DEF Become, Result
  <2> HIDE DEF rest, message
  <2>4. pending \in Seq(Entries) /\ sequence \in Nat
    BY <2>1, <2>2, RenumberedType
  <2> HIDE DEF pending, sequence
  <2>5. w \in SessionState /\ Identity(w) = Identity(x) /\ w.texts = x.texts /\ w.buffer = x.buffer
    BY <1>1, <2>4 DEF SessionState, Identity
  <2> HIDE DEF w
  <2>6. /\ y \in SessionState /\ Sends(y, frames) /\ Identity(y) = Identity(x) /\ Flows(x, y)
    BY <2>5, StartFacts DEF Flows
  <2> HIDE DEF y, frames
  <2> QED BY <1>1, <2>3, <2>6, IdentityFacts, ConnectedFacts, BecomeMoves
<1> QED BY <1>2, <1>3 DEF ReceiveConflict

LEMMA ReceiveTextGoneMoves ==
  ASSUME SessionTypeOK, SocketsInv, NEW c \in Sessions, ReceiveTextGone(c)
  PROVE  Moves(c)
<1> DEFINE x == session[c]
           w == Recovered(x)
           y == Start(w).to
           frames == Start(w).frames
<1>1. /\ x \in SessionState /\ Alive(x) /\ Hears(c) /\ link' = link /\ UNCHANGED roomInside
  BY ReceivesFacts DEF SessionTypeOK, ReceiveTextGone
<1>2. CASE up' = up /\ session' = session /\ fate' = fate
  <2>1. session' = [session EXCEPT ![c] = x]
    BY <1>2 DEF SessionTypeOK
  <2>2. Joined(c, x)
    BY <1>1, ConnectedFacts DEF Joined, Alive
  <2> QED BY <1>1, <1>2, <2>1, <2>2, StillMoves
<1>3. CASE Become(c, Start(w)) /\ Abandon(c)
  <2>1. Become(c, Result(y, frames))
    BY <1>3 DEF Become, Result
  <2>2. /\ w \in SessionState /\ w.socket = x.socket /\ w.connected = x.connected /\ w.end = x.end
        /\ w.doc = {} /\ w.texts = <<>> /\ w.buffer = <<>>
    <3>1. <<>> \in Seq(Texts) /\ <<>> \in Seq(Batches) /\ {} \in SUBSET Op
      OBVIOUS
    <3> QED BY <1>1, <3>1 DEF SessionState, Recovered
  <2> HIDE DEF w
  <2>3. /\ y \in SessionState /\ Sends(y, frames) /\ Identity(y) = Identity(w)
        /\ y.texts = <<>> /\ y.buffer = <<>>
    BY <2>2, StartFacts
  <2> HIDE DEF y, frames
  <2>4. /\ y.socket = x.socket /\ y.connected = x.connected /\ y.end = x.end /\ y.doc = {}
    BY <2>2, <2>3, IdentityFacts
  <2>5. Wired(c, y, frames) /\ Joined(c, y)
    <3>1. Wired(c, y, frames)
      BY <1>1, <2>1, <2>3, <2>4, ConnectedFacts, BecomeWired
    <3> QED BY <1>1, <2>4, <3>1, ConnectedFacts DEF Joined, Alive
  <2>6. Wrote(c, y, {})
    BY <1>3, <2>3, <2>4, AbandonFacts
  <2> QED BY <2>5, <2>6 DEF Moves, Moved
<1> QED BY <1>2, <1>3 DEF ReceiveTextGone

LEMMA TypeMoves ==
  ASSUME SessionTypeOK, SocketsInv, NEW c \in Sessions, NEW t \in Texts, Type(c, t)
  PROVE  Moves(c)
<1> DEFINE x == session[c]
           moved == x.buffer # <<>> /\ Conflicts[Head(x.buffer)] # Conflicts[t]
           flushed == IF moved THEN SendFlushed(x) ELSE Result(x, <<>>)
           w == flushed.to
           frames == flushed.frames
           y == [w EXCEPT !.doc = @ \cup {TextOp(t)}, !.buffer = Append(@, t)]
<1>1. /\ x \in SessionState /\ Alive(x) /\ OwnerOf[t] = c /\ fate[t] = "none"
      /\ fate' = [fate EXCEPT ![t] = "typed"] /\ fate \in [Texts -> {"none", "typed", "abandoned"}]
      /\ link' = link /\ down' = down /\ UNCHANGED roomInside
  BY DEF SessionTypeOK, Type
<1>2. Become(c, Result(y, frames))
  BY DEF Type
<1>3. /\ w \in SessionState /\ Sends(w, frames) /\ Identity(w) = Identity(x) /\ Flows(x, w)
      /\ w.buffer = <<>> \/ w = x
  <2>1. CASE moved
    BY <1>1, <2>1, SendFlushedFacts
  <2>2. CASE ~moved
    <3>1. w = x /\ frames = <<>>
      BY <2>2 DEF Result
    <3> HIDE DEF w, frames
    <3> QED BY <1>1, <3>1, NothingSent DEF Flows
  <2> QED BY <2>1, <2>2
<1> HIDE DEF w, frames
<1>4. /\ y \in SessionState /\ y.socket = w.socket /\ y.connected = w.connected /\ y.end = w.end
      /\ y.doc = w.doc \cup {TextOp(t)} /\ y.buffer = Append(w.buffer, t)
      /\ y.texts = w.texts /\ y.pending = w.pending
  <2>1. w.buffer \in Seq(Texts) /\ w.doc \in SUBSET Op
    BY <1>3 DEF SessionState
  <2>2. TextOp(t) \in Op
    BY DEF TextOp, Op, Proposals
  <2>3. Append(w.buffer, t) \in Seq(Texts) /\ w.doc \cup {TextOp(t)} \in SUBSET Op
    BY <2>1, <2>2
  <2> QED BY <1>3, <2>3 DEF SessionState
<1> HIDE DEF y
<1>5. Sends(y, frames)
  BY <1>3, <1>4, SentAlike
<1>6. Wired(c, y, frames) /\ Joined(c, y)
  <2>1. y.socket = x.socket /\ y.connected = x.connected /\ y.end = x.end
    BY <1>3, <1>4, IdentityFacts
  <2>2. Wired(c, y, frames)
    BY <1>1, <1>2, <1>4, <1>5, <2>1, ConnectedFacts, BecomeWired
  <2> QED BY <1>1, <2>1, <2>2, ConnectedFacts DEF Joined, Alive
<1>7. /\ Elements(y.buffer) = Elements(w.buffer) \cup {t}
      /\ x.texts \in Seq(Batches) /\ Elements(<<>>) = {}
  <2>1. w.buffer \in Seq(Texts)
    BY <1>3 DEF SessionState
  <2> QED BY SMTT(20), <1>1, <1>4, <2>1, AppendElements, EmptyElements DEF SessionState
<1>8. CASE w.buffer = x.buffer /\ w.texts = x.texts
  <2>1. Kept(c, y, {t})
    BY <1>4, <1>7, <1>8 DEF Kept, Unacknowledged, TextsOf
  <2> QED BY ZenonT(40), <1>1, <1>3, <1>4, <1>6, <1>7, <1>8, <2>1, IdentityFacts
          DEF Moves, Moved, Wrote, TextsOf
<1>9. CASE x.buffer # <<>> /\ w.buffer = <<>> /\ w.texts = Append(x.texts, Batch(x))
  <2>1. Elements(y.texts) = Elements(x.texts) \cup {Batch(x)} /\ Elements(y.buffer) = {t}
    BY <1>4, <1>7, <1>9, AppendElements
  <2>2. Batch(x).update = TextsOf(Elements(x.buffer))
    BY DEF Batch
  <2>3. Kept(c, y, {t})
    BY <2>1, <2>2 DEF Kept, Unacknowledged, TextsOf
  <2>4. fate' \in [Texts -> {"none", "typed", "abandoned"}] /\ fate'[t] = "typed"
        /\ \A u \in Texts : fate'[u] = fate[u] \/ u \in {t}
    BY <1>1
  <2>5. y.doc = x.doc \cup {TextOp(t)}
    BY <1>3, <1>4, IdentityFacts
  <2>6. Wrote(c, y, {t})
    BY <1>1, <1>9, <2>1, <2>3, <2>4, <2>5 DEF Wrote, TextsOf
  <2> QED BY <1>6, <2>6 DEF Moves, Moved
<1> QED BY <1>3, <1>8, <1>9 DEF Flows

LEMMA DispatchMoves ==
  ASSUME SessionTypeOK, SocketsInv, NEW c \in Sessions, NEW a \in Commands, Dispatch(c, a)
  PROVE  Moves(c)
<1> DEFINE x == session[c]
           w == SendFlushed(x).to
           frames == SendFlushed(x).frames
           entry == [id |-> a, sequence |-> x.sequence + 1]
           y == [w EXCEPT !.sequence = @ + 1, !.pending = Append(@, entry)]
           more == Append(frames, CommandFrame(entry))
<1>1. /\ x \in SessionState /\ Alive(x) /\ fate' = fate /\ x.sequence \in Nat
      /\ link' = link /\ down' = down /\ UNCHANGED roomInside
  BY DEF SessionTypeOK, SessionState, Dispatch
<1>2. Become(c, Result(y, more))
  BY DEF Dispatch
<1>3. /\ w \in SessionState /\ Sends(w, frames) /\ Identity(w) = Identity(x) /\ Flows(x, w)
  BY <1>1, SendFlushedFacts
<1>4. entry \in Entries
  BY <1>1 DEF Entries
<1> HIDE DEF w, frames, entry
<1>5. w.pending \in Seq(Entries) /\ w.sequence \in Nat
  BY <1>3 DEF SessionState
<1>6. /\ Append(w.pending, entry) \in Seq(Entries) /\ w.sequence + 1 \in Nat
      /\ Elements(Append(w.pending, entry)) = Elements(w.pending) \cup {entry}
  BY <1>4, <1>5, AppendElements
<1>7. /\ y \in SessionState /\ Identity(y) = Identity(w) /\ y.texts = w.texts /\ y.buffer = w.buffer
      /\ y.pending = Append(w.pending, entry)
  BY <1>3, <1>6 DEF SessionState, Identity
<1> HIDE DEF y
<1>8. Sends(y, more)
  <2>1. Sends(y, frames)
    BY <1>3, <1>6, <1>7 DEF Sends
  <2>2. Sends(y, <<CommandFrame(entry)>>)
    BY <1>6, <1>7, CommandSent
  <2>3. more = frames \o <<CommandFrame(entry)>>
    BY <2>1, <2>2 DEF Sends
  <2> QED BY <2>1, <2>2, <2>3, MoreSent
<1> HIDE DEF more
<1>9. Flows(x, y)
  BY <1>3, <1>7 DEF Flows
<1> QED BY <1>1, <1>2, <1>3, <1>7, <1>8, <1>9, IdentityFacts, ConnectedFacts, BecomeMoves

\* Every step of a session moves in this way.
LEMMA SessionMoves ==
  ASSUME TypeOK, SessionTypeOK, SocketsInv, ToldInv, SessionNext
  PROVE  \E c \in Sessions : Moves(c)
BY FlushTimerMoves, RetryTimerMoves, ReceiveReadyMoves, ReceiveSyncResponseMoves,
   ReceiveSyncRequestMoves, DisconnectMoves, OpenMoves, ReceiveRetryMoves, EndingMoves,
   ReceiveCommitMoves, ReceiveConflictMoves, ReceiveTextGoneMoves, TypeMoves, DispatchMoves
   DEF SessionNext, Receive

\* What is told to the user of a dispatch.
LEMMA DecisionType ==
  ASSUME SessionTypeOK, SessionNext
  PROVE  decision' \in [Commands -> {"none", "pending", "accepted", "refused", "closed"}]
<1>1. decision \in [Commands -> {"none", "pending", "accepted", "refused", "closed"}]
  BY DEF SessionTypeOK
<1>2. ASSUME NEW c \in Sessions, NEW end, End(c, end)
      PROVE  decision' \in [Commands -> {"none", "pending", "accepted", "refused", "closed"}]
  BY <1>1, <1>2 DEF End
<1>3. ASSUME NEW c \in Sessions,
             \/ Open(c) \/ Lose(c) \/ NoticeClose(c) \/ FlushTimer(c) \/ RetryTimer(c)
             \/ ReceiveReady(c) \/ ReceiveSyncResponse(c) \/ ReceiveSyncRequest(c)
             \/ ReceiveTextGone(c) \/ \E t \in Texts : Type(c, t)
      PROVE  decision' = decision
  BY <1>3 DEF Open, Lose, NoticeClose, FlushTimer, RetryTimer, ReceiveReady, ReceiveSyncResponse,
              ReceiveSyncRequest, ReceiveTextGone, Type
<1>4. ASSUME NEW c \in Sessions,
             ReceiveCommit(c) \/ ReceiveConflict(c) \/ \E a \in Commands : Dispatch(c, a)
      PROVE  decision' \in [Commands -> {"none", "pending", "accepted", "refused", "closed"}]
  BY <1>1, <1>4 DEF ReceiveCommit, ReceiveConflict, Dispatch
<1> QED BY <1>1, <1>2, <1>3, <1>4 DEF SessionNext, Receive, ReceiveRetry, ReceiveReject, Destroy

-----------------------------------------------------------------------------
(* A session's step leaves the room and the connections in order *)

LEMMA MovedWires ==
  ASSUME TypeOK, SessionTypeOK, NEW c \in Sessions, NEW y, NEW frames, NEW new,
         Moved(c, y, frames, new), NEW p \in Sockets
  PROVE  /\ up'[p] \in Seq(Frame) /\ down'[p] \in Seq(Message)
         /\ Elements(up'[p]) \subseteq Elements(up[p]) \cup Elements(frames)
         /\ \/ down'[p] = down[p]
            \/ /\ Hears(c) /\ p = session[c].socket /\ down[p] # <<>>
               /\ \A i \in DOMAIN down'[p] : i + 1 \in DOMAIN down[p] /\ down'[p][i] = down[p][i + 1]
         /\ Hears(c) /\ p = session[c].socket =>
              \A i \in DOMAIN down'[p] : i + 1 \in DOMAIN down[p] /\ down'[p][i] = down[p][i + 1]
         /\ \A i \in DOMAIN down'[p] : i \in Nat /\ i > 0
         /\ Elements(down'[p]) \subseteq Elements(down[p])
<1>1. /\ up \in [Sockets -> Seq(Frame)] /\ up[p] \in Seq(Frame)
      /\ down \in [Sockets -> Seq(Message)] /\ down[p] \in Seq(Message)
  BY DEF TypeOK
<1>2. frames \in Seq(Frame)
  BY DEF Moved, Wired, Sends
<1>3. up'[p] \in Seq(Frame) /\ Elements(up'[p]) \subseteq Elements(up[p]) \cup Elements(frames)
  <2>1. up'[p] = up[p] \/ up'[p] = up[p] \o frames
    BY <1>1 DEF Moved, Wired
  <2>2. /\ up[p] \o frames \in Seq(Frame)
        /\ Elements(up[p] \o frames) = Elements(up[p]) \cup Elements(frames)
    BY <1>1, <1>2, ConcatElements
  <2> QED BY <1>1, <2>1, <2>2
<1>4. CASE down'[p] = down[p] /\ ~(Hears(c) /\ p = session[c].socket)
  <2>1. \A i \in DOMAIN down[p] : i \in Nat /\ i > 0
    BY <1>1
  <2>2. \A i \in DOMAIN down'[p] : i \in Nat /\ i > 0
    BY <1>4, <2>1
  <2>3. Elements(down'[p]) = Elements(down[p])
    BY <1>4
  <2> QED BY <1>1, <1>3, <1>4, <2>2, <2>3
<1>5. CASE Hears(c) /\ p = session[c].socket
  <2>1. down'[p] = Tail(down[p]) /\ down[p] # <<>>
    BY <1>1, <1>5 DEF Hears
  <2>2. /\ Tail(down[p]) \in Seq(Message) /\ Elements(Tail(down[p])) \subseteq Elements(down[p])
        /\ \A i \in DOMAIN Tail(down[p]) : i + 1 \in DOMAIN down[p] /\ Tail(down[p])[i] = down[p][i + 1]
    BY <1>1, <2>1, TailElements
  <2>3. \A i \in DOMAIN down'[p] : i \in Nat /\ i > 0
    BY <2>1, <2>2
  <2> QED BY <1>3, <1>5, <2>1, <2>2, <2>3
<1>6. down'[p] = down[p] \/ (Hears(c) /\ p = session[c].socket)
  BY <1>1 DEF Moved, Wired, Hears
<1> QED BY <1>4, <1>5, <1>6

LEMMA MovedRoom ==
  ASSUME TypeOK, SafetyInv, SessionTypeOK, NEW c \in Sessions, NEW y, NEW frames, NEW new,
         Moved(c, y, frames, new)
  PROVE  /\ TypeOK' /\ SafetyInv'
         /\ Durable' = Durable /\ storage' = storage /\ archive' = archive /\ job' = job
         /\ retiring' = retiring /\ memory' = memory
<1>1. /\ UNCHANGED <<instance, memory, purged, refusals, job, storage, legacy, archive, alarm,
                     retiring, published>>
  BY DEF Moved, Wired, roomInside, memoryVars, durableVars
<1>2. /\ link' \in [Sockets -> {"unused", "connecting", "open", "closing", "closed"}]
      /\ Attached' = Attached
  <2>1. \/ link' = link
        \/ \E s \in Sockets : link[s] = "unused" /\ link' = [link EXCEPT ![s] = "connecting"]
    BY DEF Moved, Joined
  <2> QED BY <2>1 DEF TypeOK, Attached
<1>3. TypeOK'
  <2>1. up' \in [Sockets -> Seq(Frame)] /\ down' \in [Sockets -> Seq(Message)]
    <3>1. /\ up' = [p \in Sockets |-> up'[p]] /\ down' = [p \in Sockets |-> down'[p]]
      BY DEF Moved, Wired, Hears, TypeOK
    <3> QED BY <3>1, MovedWires
  <2> QED BY <1>1, <1>2, <2>1 DEF TypeOK
<1>4. purged => Attached = {}
  BY DEF SafetyInv, MemoryIsDurable, Bookkeeping, TypeOK
<1>5. SafetyInv'
  BY <1>1, <1>2, <1>4, SameCopies DEF safetyVars
<1>6. Durable' = Durable
  BY <1>1 DEF Durable, Rehydrated
<1> QED BY <1>1, <1>3, <1>5, <1>6

LEMMA MovedSession ==
  ASSUME SessionTypeOK, NEW c \in Sessions, NEW y, NEW frames, NEW new, Moved(c, y, frames, new)
  PROVE  /\ session' \in [Sessions -> SessionState] /\ session'[c] = y
         /\ \A d \in Sessions : d # c => session'[d] = session[d]
         /\ fate' \in [Texts -> {"none", "typed", "abandoned"}]
<1>1. /\ y \in SessionState /\ session' = [session EXCEPT ![c] = y]
      /\ fate' \in [Texts -> {"none", "typed", "abandoned"}]
  BY DEF Moved, Wired, Wrote
<1> QED BY <1>1 DEF SessionTypeOK

LEMMA MovedSockets ==
  ASSUME TypeOK, SessionTypeOK, SocketsInv, NEW c \in Sessions, NEW y, NEW frames, NEW new,
         Moved(c, y, frames, new)
  PROVE  SocketsInv'
<1>1. /\ session'[c] = y /\ \A d \in Sessions : d # c => session'[d] = session[d]
  BY MovedSession
<1>2. ASSUME NEW s \in Sockets, link'[s] \in {"unused", "connecting"} PROVE down'[s] = <<>>
  <2>1. link[s] \in {"unused", "connecting"}
    BY <1>2 DEF Moved, Joined, TypeOK
  <2>2. down[s] = <<>>
    BY <2>1 DEF SocketsInv
  <2> QED BY <2>2, MovedWires
<1>3. ASSUME NEW d \in Sessions, session[d].socket # NoSocket
      PROVE  link'[session[d].socket] # "unused" /\ session[d].socket \in Sockets
  <2>1. session[d].socket \in Sockets /\ link[session[d].socket] # "unused"
    BY <1>3 DEF SessionTypeOK, SessionState, SocketsInv
  <2> QED BY <2>1 DEF Moved, Joined, TypeOK
<1>4. y.socket # NoSocket =>
        /\ link'[y.socket] # "unused"
        /\ \A d \in Sessions : session[d].socket = y.socket => d = c
  <2>1. CASE y.socket = session[c].socket
    BY <1>3, <2>1 DEF SocketsInv
  <2>2. ASSUME NEW s \in Sockets, link[s] = "unused", link' = [link EXCEPT ![s] = "connecting"],
               y.socket = s
        PROVE  /\ link'[s] # "unused" /\ \A d \in Sessions : session[d].socket # s
    BY <2>2, RoomAssumption DEF TypeOK, SocketsInv
  <2> QED BY <2>1, <2>2 DEF Moved, Joined
<1>5. ASSUME NEW d \in Sessions, NEW e \in Sessions, session'[d].socket # NoSocket
      PROVE  /\ link'[session'[d].socket] # "unused"
             /\ session'[e].socket = session'[d].socket => e = d
  <2>1. CASE d = c
    BY <1>1, <1>4, <1>5, <2>1
  <2>2. CASE d # c /\ e = c
    BY <1>1, <1>3, <1>4, <1>5, <2>2
  <2>3. CASE d # c /\ e # c
    BY <1>1, <1>3, <1>5, <2>3 DEF SocketsInv
  <2> QED BY <2>1, <2>2, <2>3
<1>6. ASSUME NEW d \in Sessions
      PROVE  /\ session'[d].connected => session'[d].socket # NoSocket
             /\ ~Alive(session'[d]) =>
                  /\ session'[d].socket = NoSocket /\ session'[d].pending = <<>>
                  /\ session'[d].buffer = <<>> /\ session'[d].texts = <<>> /\ ~session'[d].timer
  <2>1. CASE d = c
    BY <1>1, <2>1 DEF Moved, Joined
  <2>2. CASE d # c
    BY <1>1, <2>2 DEF SocketsInv
  <2> QED BY <2>1, <2>2
<1> QED BY <1>2, <1>5, <1>6 DEF SocketsInv

-----------------------------------------------------------------------------
(* What is told stays durable, and a replica holds no more                  *)

\* The documents of a session and of the room differ by text.
LEMMA HeldIsText ==
  ASSUME SessionTypeOK, ReplicaIsBacked, SocketsInv, NEW c \in Sessions
  PROVE  /\ Unacknowledged(session[c]) \subseteq TextOps
         /\ session[c].socket # NoSocket => session[c].doc \ Durable.doc \subseteq TextOps
<1>1. session[c].buffer \in Seq(Texts) /\ session[c].texts \in Seq(Batches)
  BY DEF SessionTypeOK, SessionState
<1>2. Elements(session[c].buffer) \subseteq Texts /\ Elements(session[c].texts) \subseteq Batches
  BY <1>1, TypedElements
<1>3. Unacknowledged(session[c]) \subseteq TextOps
  BY <1>2 DEF Unacknowledged, TextsOf, TextOps, Batches
<1>4. session[c].socket # NoSocket => Alive(session[c])
  BY DEF SocketsInv
<1> QED BY <1>3, <1>4 DEF ReplicaIsBacked

\* What a session learns was on its way to it.
LEMMA LearntTold ==
  ASSUME TypeOK, NEW c \in Sessions, NEW op \in Learnt(c)
  PROVE  /\ Hears(c) /\ session[c].socket \in Sockets
         /\ 1 \in DOMAIN down[session[c].socket] /\ Received(c) = down[session[c].socket][1]
         /\ Told(down[session[c].socket][1]) /\ op \in down[session[c].socket][1].update
<1>1. Hears(c) /\ Told(Received(c)) /\ op \in Received(c).update
  BY DEF Learnt
<1>2. down[session[c].socket] \in Seq(Message) /\ down[session[c].socket] # <<>>
  BY <1>1 DEF Hears, TypeOK
<1> QED BY <1>1, <1>2, TailElements DEF Hears, Received

LEMMA MovedTold ==
  ASSUME TypeOK, SafetyInv, SessionTypeOK, SocketsInv, ToldInv, NEW c \in Sessions,
         NEW y, NEW frames, NEW new, Moved(c, y, frames, new)
  PROVE  ToldInv'
<1>1. /\ session'[c] = y /\ (\A d \in Sessions : d # c => session'[d] = session[d])
      /\ Durable' = Durable
  BY MovedSession, MovedRoom
<1>2. ASSUME NEW s \in Sockets, NEW i \in DOMAIN down'[s], Told(down'[s][i])
      PROVE  down'[s][i].update \subseteq Durable'.doc
  <2>1. \E k \in DOMAIN down[s] : down[s][k] = down'[s][i]
    BY <1>2, MovedWires
  <2> QED BY <1>1, <1>2, <2>1 DEF ToldInv
<1>3. ASSUME NEW s \in Sockets, NEW i \in DOMAIN down'[s], down'[s][i].kind = "syncRequest",
             NEW j \in DOMAIN down'[s], j < i, Told(down'[s][j])
      PROVE  down'[s][j].update \ down'[s][i].have \subseteq TextOps
  <2>1. CASE down'[s] = down[s]
    BY <1>3, <2>1 DEF ToldInv
  <2>2. CASE /\ i + 1 \in DOMAIN down[s] /\ down'[s][i] = down[s][i + 1]
             /\ j + 1 \in DOMAIN down[s] /\ down'[s][j] = down[s][j + 1]
    <3>1. j + 1 < i + 1
      BY <1>3, MovedWires
    <3> QED BY <1>3, <2>2, <3>1 DEF ToldInv
  <2> QED BY <2>1, <2>2, MovedWires
<1>4. ASSUME NEW s \in Sockets, NEW i \in DOMAIN down'[s], down'[s][i].kind = "syncRequest",
             NEW d \in Sessions, session'[d].socket = s
      PROVE  session'[d].doc \ down'[s][i].have \subseteq TextOps
  <2>1. PICK k \in DOMAIN down[s] :
          /\ down[s][k] = down'[s][i]
          /\ Hears(c) /\ s = session[c].socket => k = i + 1 /\ i \in Nat /\ i > 0
    BY MovedWires
  <2>2. CASE d # c
    BY <1>1, <1>4, <2>1, <2>2 DEF ToldInv
  <2>3. CASE d = c /\ y.socket = session[c].socket
    <3>1. ASSUME NEW op \in y.doc, op \notin TextOps PROVE op \in down[s][k].have
      <4>1. new \subseteq Texts /\ op \in session[c].doc \cup TextsOf(new) \cup Learnt(c)
        BY <3>1 DEF Moved, Wrote
      <4>2. op \notin TextsOf(new)
        BY <3>1, <4>1 DEF TextsOf, TextOps
      <4>3. CASE op \in session[c].doc
        BY <1>1, <1>4, <2>1, <2>3, <3>1, <4>3 DEF ToldInv
      <4>4. CASE op \in Learnt(c)
        <5>1. Hears(c) /\ 1 \in DOMAIN down[s] /\ Told(down[s][1]) /\ op \in down[s][1].update
          BY <1>1, <1>4, <2>3, <4>4, LearntTold
        <5>2. 1 < k
          BY <1>1, <1>4, <2>1, <2>3, <5>1
        <5>3. down[s][1].update \ down[s][k].have \subseteq TextOps
          BY <1>4, <2>1, <5>1, <5>2 DEF ToldInv
        <5> QED BY <3>1, <5>1, <5>3
      <4> QED BY <4>1, <4>2, <4>3, <4>4
    <3> QED BY <1>1, <2>1, <2>3, <3>1
  <2>4. CASE d = c /\ y.socket # session[c].socket
    <3>1. link[s] = "unused" /\ down' = down
      BY <1>1, <1>4, <2>4, RoomAssumption DEF Moved, Joined
    <3>2. down[s] = <<>>
      BY <3>1 DEF SocketsInv
    <3> QED BY <2>1, <3>2
  <2> QED BY <2>2, <2>3, <2>4
<1> QED BY <1>2, <1>3, <1>4 DEF ToldInv

\* What the room serves is durable.
LEMMA ServedIsDurable == TypeOK /\ SafetyInv => memory.doc \subseteq Durable.doc
<1> SUFFICES ASSUME TypeOK, SafetyInv PROVE memory.doc \subseteq Durable.doc
  OBVIOUS
<1>1. CASE instance = "down" \/ purged
  BY <1>1, EmptyTypes DEF SafetyInv, Bookkeeping, MemoryIsDurable, TypeOK, EmptyRoom
<1>2. CASE instance = "live" /\ ~purged /\ job = NoJob
  BY <1>2, MemoryFacts
<1>3. CASE instance = "live" /\ job # NoJob
  <2>1. /\ memory.doc \subseteq storage.doc /\ storage.commit = memory.commit + 1
        /\ memory.commit \in Nat
    BY <1>3 DEF SafetyInv, MemoryIsDurable, Bookkeeping, TypeOK, RoomState
  <2>2. storage.commit > 0
    BY <2>1
  <2> QED BY <2>1, <2>2, DurableFacts DEF SafetyInv
<1> QED BY <1>1, <1>2, <1>3 DEF TypeOK

\* An element of a concatenation is one of the former or comes after them all.
LEMMA ConcatIndex ==
  ASSUME NEW S, NEW seq \in Seq(S), NEW more \in Seq(S), NEW i \in DOMAIN (seq \o more)
  PROVE  \/ i \in DOMAIN seq /\ (seq \o more)[i] = seq[i]
         \/ /\ \A j \in DOMAIN seq : j < i
            /\ \E k \in DOMAIN more : (seq \o more)[i] = more[k]
<1>1. /\ i \in 1..(Len(seq) + Len(more)) /\ DOMAIN seq = 1..Len(seq)
      /\ DOMAIN more = 1..Len(more) /\ Len(seq) \in Nat /\ Len(more) \in Nat
  OBVIOUS
<1>2. CASE i <= Len(seq)
  BY <1>1, <1>2
<1>3. CASE i > Len(seq)
  <2>1. i - Len(seq) \in DOMAIN more /\ (seq \o more)[i] = more[i - Len(seq)]
    BY <1>1, <1>3
  <2> QED BY <1>1, <1>3, <2>1
<1> QED BY <1>1, <1>2, <1>3

\* The same when the room makes the step.
LEMMA RoomTold ==
  ASSUME TypeOK, SafetyInv, TypeOK', SafetyInv', SessionTypeOK, SocketsInv, ToldInv,
         ReplicaIsBacked, RoomNext, UNCHANGED sessionVars
  PROVE  ToldInv'
<1>1. Durable.doc \subseteq Durable'.doc /\ session' = session
  BY DurableGrows DEF Next, sessionVars
<1>2. CASE down' = down
  BY <1>1, <1>2 DEF ToldInv
<1>3. ASSUME NEW s \in Sockets, Accept(s), Deliver(s, <<Ready>>) PROVE ToldInv'
  <2>1. ASSUME NEW p \in Sockets, NEW i \in DOMAIN down'[p]
        PROVE  \/ i \in DOMAIN down[p] /\ down'[p][i] = down[p][i]
               \/ ~Told(down'[p][i]) /\ down'[p][i].kind # "syncRequest"
    <3>1. CASE p = s
      <4>1. down'[p] = Append(down[p], Ready) /\ down[p] \in Seq(Message)
        BY <1>3, <3>1 DEF Deliver, TypeOK
      <4>2. \/ i \in DOMAIN down[p] /\ down'[p][i] = down[p][i]
            \/ down'[p][i] = Ready
        BY <2>1, <4>1
      <4> QED BY <4>2 DEF Ready, Told
    <3>2. CASE p # s
      BY <1>3, <2>1, <3>2 DEF Deliver, TypeOK
    <3> QED BY <3>1, <3>2
  <2> QED BY <1>1, <2>1 DEF ToldInv
<1>4. CASE Spoken
  <2>1. memory'.doc \subseteq Durable'.doc
    <3>1. (TypeOK /\ SafetyInv)' => (memory.doc \subseteq Durable.doc)'
      BY ServedIsDurable, PTL
    <3> QED BY <3>1
  <2>2. ASSUME NEW p \in Sockets, NEW i \in DOMAIN down'[p]
        PROVE  \/ i \in DOMAIN down[p] /\ down'[p][i] = down[p][i]
               \/ /\ \A j \in DOMAIN down[p] : j < i
                  /\ i \notin DOMAIN down[p]
                  /\ Told(down'[p][i]) => down'[p][i].update \subseteq memory'.doc
                  /\ down'[p][i].kind = "syncRequest" => down'[p][i].have = Durable'.doc
    <3>1. PICK messages : Speaks(p, messages)
      BY <1>4 DEF Spoken
    <3>2. /\ down[p] \in Seq(Message) /\ messages \in Seq(Message)
          /\ down'[p] = down[p] \o messages
      BY <3>1 DEF Speaks, TypeOK
    <3>3. \/ i \in DOMAIN down[p] /\ down'[p][i] = down[p][i]
          \/ /\ \A j \in DOMAIN down[p] : j < i
             /\ \E k \in DOMAIN messages : down'[p][i] = messages[k]
      BY <2>2, <3>2, ConcatIndex
    <3>4. DOMAIN down[p] \subseteq Nat
      BY <3>2
    <3> QED BY <3>1, <3>3, <3>4 DEF Speaks, Told
  <2>3. ASSUME NEW p \in Sockets, NEW i \in DOMAIN down'[p], Told(down'[p][i])
        PROVE  down'[p][i].update \subseteq Durable'.doc
    BY <1>1, <2>1, <2>2, <2>3 DEF ToldInv
  <2>4. ASSUME NEW p \in Sockets, NEW i \in DOMAIN down'[p], down'[p][i].kind = "syncRequest"
        PROVE  /\ \A j \in DOMAIN down'[p] : j < i /\ Told(down'[p][j]) =>
                    down'[p][j].update \ down'[p][i].have \subseteq TextOps
               /\ \A c \in Sessions : session'[c].socket = p =>
                    session'[c].doc \ down'[p][i].have \subseteq TextOps
    <3>1. CASE i \in DOMAIN down[p] /\ down'[p][i] = down[p][i]
      <4>1. \A j \in DOMAIN down'[p] : j < i => j \in DOMAIN down[p] /\ down'[p][j] = down[p][j]
        <5>1. DOMAIN down[p] \subseteq Nat
          <6>1. down[p] \in Seq(Message)
            BY DEF TypeOK
          <6> QED BY <6>1
        <5>2. ASSUME NEW j \in DOMAIN down'[p], j < i, \A k \in DOMAIN down[p] : k < j,
                     j \notin DOMAIN down[p], j \in Nat
              PROVE  FALSE
          <6>1. i < j /\ i \in Nat
            BY <3>1, <5>1, <5>2
          <6> QED BY <5>2, <6>1
        <5>3. DOMAIN down'[p] \subseteq Nat
          <6>1. down'[p] \in Seq(Message)
            BY DEF TypeOK
          <6> QED BY <6>1
        <5> QED BY <2>2, <5>2, <5>3
      <4> QED BY <1>1, <2>4, <3>1, <4>1 DEF ToldInv
    <3>2. CASE down'[p][i].have = Durable'.doc
      <4>1. \A c \in Sessions : session'[c].socket = p => session'[c].doc \ Durable'.doc \subseteq TextOps
        BY <1>1, RoomAssumption, HeldIsText
      <4> QED BY <2>3, <3>2, <4>1
    <3> QED BY <2>2, <2>4, <3>1, <3>2
  <2> QED BY <2>3, <2>4 DEF ToldInv
<1> QED BY <1>2, <1>3, <1>4, StepSpeaks DEF Next

-----------------------------------------------------------------------------
(* No text is forgotten, and none is taken for another                      *)

LEMMA BatchFacts ==
  ASSUME SessionTypeOK, TextsInv, NEW c \in Sessions, session[c].buffer # <<>>
  PROVE  LET b == Batch(session[c]) IN
         /\ b.id \in Texts /\ OwnerOf[b.id] = c /\ fate[b.id] # "none" /\ Unnamed(b.id)
         /\ b.update \subseteq OwnEdits(c) /\ Named(b)
<1> DEFINE x == session[c]
           b == Batch(x)
<1>1. x.buffer \in Seq(Texts)
  BY DEF SessionTypeOK, SessionState
<1>2. /\ Head(x.buffer) \in Elements(x.buffer) /\ Elements(x.buffer) \subseteq Texts
  BY <1>1, TailElements, TypedElements
<1>3. b.id = Head(x.buffer) /\ b.update = TextsOf(Elements(x.buffer))
  BY DEF Batch
<1>4. OwnerOf[b.id] = c /\ fate[b.id] # "none" /\ Unnamed(b.id)
  BY <1>2, <1>3 DEF TextsInv
<1>5. b.update \subseteq OwnEdits(c)
  BY <1>2, <1>3 DEF TextsInv, TextsOf, OwnEdits
<1>6. Named(b)
  BY <1>4 DEF Named, Unnamed
<1> QED BY <1>2, <1>3, <1>4, <1>5, <1>6

LEMMA MovedTexts ==
  ASSUME TypeOK, SafetyInv, SessionTypeOK, SocketsInv, TextsInv, NEW c \in Sessions,
         NEW y, NEW frames, NEW new, Moved(c, y, frames, new)
  PROVE  TextsInv'
<1> DEFINE x == session[c]
<1>1. /\ session'[c] = y /\ (\A d \in Sessions : d # c => session'[d] = session[d])
      /\ Durable' = Durable /\ job' = job
  BY MovedSession, MovedRoom
<1>2. ASSUME NEW b \in Elements(y.texts)
      PROVE  \/ b \in Elements(x.texts)
             \/ x.buffer # <<>> /\ b = Batch(x) /\ Elements(y.buffer) \subseteq new
  BY <1>2 DEF Moved, Wrote
<1>3. ASSUME NEW b \in Elements(y.texts)
      PROVE  OwnerOf[b.id] = c /\ b.update \subseteq OwnEdits(c) /\ Named(b)
  <2>1. CASE b \in Elements(x.texts)
    BY <2>1 DEF TextsInv
  <2>2. CASE x.buffer # <<>> /\ b = Batch(x)
    BY <2>2, BatchFacts
  <2> QED BY <1>2, <2>1, <2>2
<1>4. ASSUME NEW b \in Elements(y.texts), NEW e \in Elements(y.texts), e.id = b.id
      PROVE  e = b
  <2>1. CASE b \in Elements(x.texts) /\ e \in Elements(x.texts)
    BY <1>4, <2>1 DEF TextsInv
  <2>2. CASE x.buffer # <<>> /\ (b = Batch(x) \/ e = Batch(x))
    BY <1>2, <1>4, <2>2, BatchFacts DEF Unnamed
  <2> QED BY <1>2, <2>1, <2>2
<1>5. ASSUME NEW p \in Sockets, NEW f \in Elements(up'[p]), f.kind = "text"
      PROVE  f \in Elements(up[p]) \/ \E b \in Elements(y.texts) : f.id = b.id /\ f.update = b.update
  BY <1>5, MovedWires DEF Moved, Wired, Sends
<1>6. \A p \in Sockets : Elements(down'[p]) \subseteq Elements(down[p])
  BY MovedWires
<1>7. ASSUME NEW t \in Texts, Unnamed(t), \A b \in Elements(y.texts) : b.id # t
      PROVE  Unnamed(t)'
  <2>1. \A d \in Sessions : \A b \in Elements(session'[d].texts) : b.id # t
    BY <1>1, <1>7 DEF Unnamed
  <2> QED BY <1>1, <1>5, <1>6, <1>7, <2>1 DEF Unnamed
<1>8. ASSUME NEW b, Named(b), \A e \in Elements(y.texts) : e.id = b.id => e = b
      PROVE  Named(b)'
  BY <1>1, <1>5, <1>6, <1>8 DEF Named
<1>9. ASSUME NEW t \in Texts, fate[t] # "none" PROVE fate'[t] # "none"
  BY <1>9 DEF Moved, Wrote
<1>10. ASSUME NEW d \in Sessions, NEW t \in Elements(session'[d].buffer)
       PROVE  OwnerOf[t] = d /\ fate'[t] # "none" /\ Unnamed(t)'
  <2>1. CASE d # c
    <3>1. t \in Elements(session[d].buffer) /\ session[d].buffer \in Seq(Texts)
      BY <1>1, <1>10, <2>1 DEF SessionTypeOK, SessionState
    <3>2. t \in Texts /\ OwnerOf[t] = d /\ fate[t] # "none" /\ Unnamed(t)
      BY <3>1, TypedElements DEF TextsInv
    <3> QED BY <1>3, <1>7, <1>9, <2>1, <3>2
  <2>2. CASE d = c
    <3>1. t \in Elements(y.buffer) /\ (t \in Elements(x.buffer) \/ t \in new)
      BY <1>1, <1>10, <2>2 DEF Moved, Wrote
    <3>2. t \in Texts /\ OwnerOf[t] = c /\ Unnamed(t) /\ fate'[t] # "none"
      <4>1. CASE t \in Elements(x.buffer)
        <5>1. x.buffer \in Seq(Texts)
          BY DEF SessionTypeOK, SessionState
        <5> QED BY <1>9, <4>1, <5>1, TypedElements DEF TextsInv
      <4>2. CASE t \in new
        BY <4>2 DEF Moved, Wrote, TextsInv
      <4> QED BY <3>1, <4>1, <4>2
    <3>3. ASSUME NEW b \in Elements(y.texts), b.id = t PROVE FALSE
      <4>1. CASE b \in Elements(x.texts)
        BY <3>2, <3>3, <4>1 DEF Unnamed
      <4>2. CASE x.buffer # <<>> /\ b = Batch(x) /\ t \in new
        BY <3>3, <4>2, BatchFacts DEF Moved, Wrote
      <4> QED BY <1>2, <3>1, <4>1, <4>2
    <3> QED BY <1>7, <2>2, <3>2, <3>3
  <2> QED BY <2>1, <2>2
<1>11. ASSUME NEW d \in Sessions, NEW b \in Elements(session'[d].texts)
       PROVE  /\ OwnerOf[b.id] = d /\ b.update \subseteq OwnEdits(d) /\ Named(b)'
              /\ \A e \in Elements(session'[d].texts) : e.id = b.id => e = b
  <2>1. CASE d = c
    BY <1>1, <1>3, <1>4, <1>8, <2>1
  <2>2. CASE d # c
    <3>1. /\ OwnerOf[b.id] = d /\ b.update \subseteq OwnEdits(d) /\ Named(b)
          /\ \A e \in Elements(session'[d].texts) : e.id = b.id => e = b
      BY <1>1, <1>11, <2>2 DEF TextsInv
    <3>2. \A e \in Elements(y.texts) : e.id # b.id
      BY <1>3, <2>2, <3>1
    <3> QED BY <1>8, <3>1, <3>2
  <2> QED BY <2>1, <2>2
<1>12. ASSUME NEW t \in Texts, fate'[t] = "none" PROVE Unnamed(t)'
  <2>1. fate[t] = "none" /\ Unnamed(t)
    BY <1>12 DEF Moved, Wrote, TextsInv
  <2>2. ASSUME NEW b \in Elements(y.texts), b.id = t PROVE FALSE
    BY <1>2, <2>1, <2>2, BatchFacts DEF Unnamed
  <2> QED BY <1>7, <2>1, <2>2
<1>13. OwnEdits(c)' = OwnEdits(c) /\ \A d \in Sessions : OwnEdits(d)' = OwnEdits(d)
  BY DEF OwnEdits
<1> QED BY <1>10, <1>11, <1>12 DEF TextsInv, OwnEdits

\* The replica and the texts of a session lose nothing that is not durable.
LEMMA MovedBacked ==
  ASSUME TypeOK, SafetyInv, SessionTypeOK, ToldInv, TextsInv, ReplicaIsBacked, TextsAreTracked,
         NEW c \in Sessions, NEW y, NEW frames, NEW new, Moved(c, y, frames, new)
  PROVE  ReplicaIsBacked' /\ TextsAreTracked'
<1> DEFINE x == session[c]
<1>1. /\ session'[c] = y /\ (\A d \in Sessions : d # c => session'[d] = session[d])
      /\ Durable' = Durable
  BY MovedSession, MovedRoom
<1>2. Learnt(c) \subseteq Durable.doc
  BY LearntTold DEF ToldInv
<1>3. ASSUME Kept(c, y, new)
      PROVE  Unacknowledged(x) \cup TextsOf(new) \subseteq Durable.doc \cup Unacknowledged(y)
  <2>1. ASSUME NEW b \in Elements(x.texts)
        PROVE  b.update \subseteq Durable.doc \cup Unacknowledged(y)
    <3>1. CASE b \in Elements(y.texts)
      BY <3>1 DEF Unacknowledged
    <3>2. CASE Hears(c) /\ Received(c).kind = "commit" /\ Received(c).id = b.id
      <4>1. down[x.socket] \in Seq(Message) /\ x.socket \in Sockets /\ down[x.socket] # <<>>
        BY <3>2 DEF Hears, TypeOK
      <4>2. Received(c) \in Elements(down[x.socket])
        BY <4>1, TailElements DEF Received
      <4>3. Named(b)
        BY <2>1 DEF TextsInv
      <4> QED BY <3>2, <4>1, <4>2, <4>3 DEF Named
    <3> QED BY <1>3, <2>1, <3>1, <3>2 DEF Kept
  <2>2. TextsOf(Elements(x.buffer)) \cup TextsOf(new) \subseteq Unacknowledged(y)
    BY <1>3 DEF Kept, TextsOf
  <2> QED BY <2>1, <2>2 DEF Unacknowledged
<1>4. ASSUME NEW d \in Sessions, Alive(session'[d])
      PROVE  session'[d].doc \subseteq Durable'.doc \cup Unacknowledged(session'[d])
  <2>1. CASE d # c
    BY <1>1, <1>4, <2>1 DEF ReplicaIsBacked
  <2>2. CASE d = c /\ Kept(c, y, new)
    <3>1. x.doc \subseteq Durable.doc \cup Unacknowledged(x)
      BY <1>1, <1>4, <2>2 DEF Moved, Joined, ReplicaIsBacked
    <3>2. y.doc \subseteq x.doc \cup TextsOf(new) \cup Learnt(c)
      BY DEF Moved, Wrote
    <3> QED BY <1>1, <1>2, <1>3, <2>2, <3>1, <3>2
  <2>3. CASE d = c /\ Dropped(c, y, new)
    BY <1>1, <1>4, <2>3 DEF Dropped
  <2> QED BY <2>1, <2>2, <2>3 DEF Moved, Wrote
<1>5. ASSUME NEW t \in Texts, fate'[t] = "typed"
      PROVE  TextOp(t) \in Durable'.doc \cup Unacknowledged(session'[OwnerOf[t]])
  <2>1. OwnerOf[t] \in Sessions
    BY SessionAssumption
  <2>2. t \in new \/ /\ fate[t] = "typed"
                     /\ TextOp(t) \in Durable.doc \cup Unacknowledged(session[OwnerOf[t]])
    BY <1>5 DEF Moved, Wrote, TextsAreTracked
  <2>3. CASE OwnerOf[t] # c
    BY <1>1, <2>1, <2>2, <2>3 DEF Moved, Wrote
  <2>4. CASE OwnerOf[t] = c /\ Kept(c, y, new)
    <3>1. t \in new => TextOp(t) \in TextsOf(new)
      BY DEF TextsOf
    <3> QED BY <1>1, <1>3, <2>2, <2>4, <3>1
  <2>5. CASE OwnerOf[t] = c /\ Dropped(c, y, new)
    BY <1>1, <1>5, <2>2, <2>5 DEF Dropped
  <2> QED BY <2>3, <2>4, <2>5 DEF Moved, Wrote
<1> QED BY <1>4, <1>5 DEF ReplicaIsBacked, TextsAreTracked

\* A commit being published is durable already.
LEMMA JobIsDurable ==
  ASSUME TypeOK, SafetyInv, job # NoJob
  PROVE  Durable.doc = job.doc
<1>1. instance = "live"
  BY DEF SafetyInv, Bookkeeping, TypeOK
<1>2. /\ storage.doc = job.doc /\ storage.commit = memory.commit + 1 /\ memory.commit \in Nat
  BY <1>1 DEF SafetyInv, MemoryIsDurable, Bookkeeping, TypeOK, RoomState
<1>3. storage.commit > 0
  BY <1>2
<1> QED BY <1>2, <1>3, DurableFacts DEF SafetyInv

\* The head of a socket, among what it carries.
LEMMA TakesHead ==
  ASSUME TypeOK, NEW s \in Sockets, NEW kind, Takes(s, kind)
  PROVE  Head(up[s]) \in Elements(up[s]) /\ Head(up[s]).kind = kind
<1>1. up[s] \in Seq(Frame) /\ up[s] # <<>>
  BY DEF TypeOK, Takes
<1> QED BY <1>1, TailElements DEF Takes

LEMMA RoomTexts ==
  ASSUME TypeOK, SafetyInv, SessionTypeOK, TextsInv, RoomNext, UNCHANGED sessionVars
  PROVE  TextsInv'
<1>1. session' = session /\ fate' = fate /\ Durable.doc \subseteq Durable'.doc
  BY DurableGrows DEF sessionVars, Next
<1>2. \A p \in Sockets : Elements(up'[p]) \subseteq Elements(up[p])
  BY FramesTaken
<1>3. \A t \in Texts : t \notin Initials /\ t \notin Commands /\ t # NoId
  BY RoomAssumption DEF Proposals
<1>4. NoJob.id = NoId
  BY DEF NoJob
<1>5. ASSUME NEW t \in Texts, Unnamed(t) PROVE Unnamed(t)'
  <2>1. ASSUME NEW p \in Sockets, NEW m \in Elements(down'[p]), m.kind = "commit", m.id = t
        PROVE  FALSE
    <3>1. m \notin Elements(down[p])
      BY <1>5, <2>1 DEF Unnamed
    <3>2. Origin(m)
      BY <2>1, <3>1, CommitOrigins
    <3>3. ~\E s \in Sockets : Takes(s, "text") /\ Head(up[s]).id = t
      BY <1>5, TakesHead DEF Unnamed
    <3>4. ~\E s \in Sockets : Takes(s, "commands") /\ Head(up[s]).id = t
      BY <1>3, HeadFrame
    <3> QED BY <1>3, <1>5, <2>1, <3>2, <3>3, <3>4 DEF Origin, Unnamed
  <2>2. job'.id # t
    <3>1. ~\E s \in Sockets : Takes(s, "text") /\ Head(up[s]).id = t
      BY <1>5, TakesHead DEF Unnamed
    <3>2. ~\E s \in Sockets : Takes(s, "commands") /\ Head(up[s]).id = t
      BY <1>3, HeadFrame
    <3> QED BY <1>3, <1>4, <1>5, <3>1, <3>2, JobOrigin DEF Unnamed
  <2> QED BY <1>1, <1>2, <1>5, <2>1, <2>2 DEF Unnamed
<1>6. ASSUME NEW b, b.id \in Texts, Named(b) PROVE Named(b)'
  <2>1. \A s \in Sockets : Takes(s, "text") /\ Head(up[s]).id = b.id => Head(up[s]).update = b.update
    BY <1>6, TakesHead DEF Named
  <2>2. ~\E s \in Sockets : Takes(s, "commands") /\ Head(up[s]).id = b.id
    BY <1>3, <1>6, HeadFrame
  <2>3. ASSUME NEW p \in Sockets, NEW m \in Elements(down'[p]), m.kind = "commit", m.id = b.id
        PROVE  b.update \subseteq Durable'.doc
    <3>1. CASE m \in Elements(down[p])
      BY <1>1, <1>6, <2>3, <3>1 DEF Named
    <3>2. CASE job # NoJob /\ job.id = b.id
      BY <1>1, <1>6, <3>2, JobIsDurable DEF Named
    <3>3. CASE \E s \in Sockets : /\ Takes(s, "text") /\ Head(up[s]).id = b.id
                                  /\ Head(up[s]).update \subseteq Durable.doc
      BY <1>1, <2>1, <3>3
    <3>4. m \in Elements(down[p]) \/ Origin(m)
      BY <2>3, CommitOrigins
    <3> QED BY <1>3, <1>6, <2>2, <2>3, <3>1, <3>2, <3>3, <3>4 DEF Origin
  <2>4. job'.id = b.id => b.update \subseteq job'.doc
    BY <1>3, <1>4, <1>6, <2>1, <2>2, JobOrigin DEF Named
  <2> QED BY <1>2, <1>6, <2>3, <2>4 DEF Named
<1>7. ASSUME NEW c \in Sessions
      PROVE  /\ Elements(session[c].buffer) \subseteq Texts
             /\ \A b \in Elements(session[c].texts) : b.id \in Texts
  <2>1. session[c].buffer \in Seq(Texts) /\ session[c].texts \in Seq(Batches)
    BY DEF SessionTypeOK, SessionState
  <2>2. Elements(session[c].buffer) \subseteq Texts /\ Elements(session[c].texts) \subseteq Batches
    BY <2>1, TypedElements
  <2> QED BY <2>2 DEF Batches
<1>8. ASSUME NEW c \in Sessions, NEW t \in Elements(session[c].buffer)
      PROVE  OwnerOf[t] = c /\ fate[t] # "none" /\ Unnamed(t)'
  BY <1>5, <1>7 DEF TextsInv
<1>9. ASSUME NEW c \in Sessions, NEW b \in Elements(session[c].texts)
      PROVE  /\ OwnerOf[b.id] = c /\ b.update \subseteq OwnEdits(c) /\ Named(b)'
             /\ \A e \in Elements(session[c].texts) : e.id = b.id => e = b
  BY <1>6, <1>7 DEF TextsInv
<1>10. ASSUME NEW t \in Texts, fate[t] = "none" PROVE Unnamed(t)'
  BY <1>5, <1>10 DEF TextsInv
<1> QED BY <1>1, <1>8, <1>9, <1>10 DEF TextsInv, OwnEdits

\* The room keeps apart the sockets of the sessions, and silent those it has not accepted.
LEMMA RoomSockets ==
  ASSUME TypeOK, SafetyInv, SessionTypeOK, SocketsInv, RoomNext, UNCHANGED sessionVars
  PROVE  SocketsInv'
<1>1. session' = session /\ \A c \in Sessions : session[c].socket \in Sockets \cup {NoSocket}
  BY DEF sessionVars, SessionTypeOK, SessionState
<1>2. \A p \in Sockets : link'[p] \in {"unused", "connecting"} => down'[p] = <<>>
  BY UnacceptedSilence DEF SocketsInv
<1>3. \A c \in Sessions : session[c].socket # NoSocket => link'[session[c].socket] # "unused"
  BY <1>1, UnacceptedSilence DEF SocketsInv
<1> QED BY <1>1, <1>2, <1>3 DEF SocketsInv

-----------------------------------------------------------------------------
(* The invariant of the sessions and the room together *)

CollabInv ==
  /\ RoomInv
  /\ SessionTypeOK /\ SocketsInv
  /\ ToldInv /\ TextsInv
  /\ ReplicaIsBacked /\ TextsAreTracked

\* A step of the composition is one of a session or one of the room.
LEMMA CollabSteps ==
  ASSUME TypeOK, SafetyInv, SessionTypeOK, SocketsInv, ToldInv, CollabNext
  PROVE  \/ SessionNext /\ \E c \in Sessions : Moves(c)
         \/ RoomNext /\ UNCHANGED sessionVars
<1>1. CASE SessionNext
  BY <1>1, SessionMoves
<1>2. CASE ~SessionNext
  BY <1>2 DEF CollabNext, RoomNext
<1> QED BY <1>1, <1>2

LEMMA CollabStep ==
  ASSUME CollabInv, CollabNext
  PROVE  CollabInv'
<1>1. TypeOK /\ SafetyInv
  BY DEF CollabInv, RoomInv, SafetyInv
<1>2. CASE SessionNext /\ \E c \in Sessions : Moves(c)
  <2>1. PICK c \in Sessions : Moves(c)
    BY <1>2
  <2>2. PICK y, frames, new : Moved(c, y, frames, new)
    BY <2>1 DEF Moves
  <2>3. TypeOK' /\ SafetyInv'
    BY <1>1, <2>2, MovedRoom DEF CollabInv
  <2>4. SessionTypeOK'
    BY <1>2, <2>2, MovedSession, DecisionType DEF CollabInv, SessionTypeOK
  <2>5. SocketsInv' /\ ToldInv' /\ TextsInv'
    BY <1>1, <2>2, MovedSockets, MovedTold, MovedTexts DEF CollabInv
  <2>6. ReplicaIsBacked' /\ TextsAreTracked'
    BY <1>1, <2>2, MovedBacked DEF CollabInv
  <2> QED BY <2>3, <2>4, <2>5, <2>6 DEF CollabInv, RoomInv, SafetyInv
<1>3. CASE RoomNext /\ UNCHANGED sessionVars
  <2>1. TypeOK' /\ SafetyInv'
    BY <1>1, <1>3, StepType, SafetyStep DEF Next
  <2>2. session' = session /\ decision' = decision /\ fate' = fate
    BY <1>3 DEF sessionVars
  <2>3. SessionTypeOK'
    BY <2>2 DEF CollabInv, SessionTypeOK
  <2>4. SocketsInv' /\ TextsInv'
    BY <1>1, <1>3, RoomSockets, RoomTexts DEF CollabInv
  <2>5. ToldInv'
    BY <1>1, <1>3, <2>1, RoomTold DEF CollabInv
  <2>6. Durable.doc \subseteq Durable'.doc
    BY <1>1, <1>3, DurableGrows DEF Next
  <2>7. ReplicaIsBacked' /\ TextsAreTracked'
    BY <2>2, <2>6 DEF CollabInv, ReplicaIsBacked, TextsAreTracked, Unacknowledged
  <2> QED BY <2>1, <2>3, <2>4, <2>5, <2>7 DEF CollabInv, RoomInv, SafetyInv
<1> QED BY <1>1, <1>2, <1>3, CollabSteps DEF CollabInv

LEMMA CollabStutters ==
  ASSUME CollabInv, UNCHANGED vars
  PROVE  CollabInv'
<1>1. UNCHANGED roomVars /\ session' = session /\ decision' = decision /\ fate' = fate
  BY DEF vars, sessionVars
<1>2. TypeOK' /\ up' = up /\ down' = down /\ link' = link /\ job' = job
  BY <1>1, StepType DEF roomVars, memoryVars, CollabInv, RoomInv
<1>3. RoomInv' /\ Durable' = Durable
  BY <1>1, <1>2 DEF roomVars, memoryVars, durableVars, CollabInv, RoomInv, Bookkeeping,
     MemoryIsDurable, ToldIsDurable, CommitNamesDocument, ReceiptsAreBacked, Durable, Rehydrated,
     Attached
<1>4. SessionTypeOK' /\ SocketsInv' /\ ToldInv'
  BY <1>1, <1>2, <1>3 DEF CollabInv, SessionTypeOK, SocketsInv, ToldInv
<1>5. TextsInv'
  BY <1>1, <1>2, <1>3 DEF CollabInv, TextsInv, Unnamed, Named
<1>6. ReplicaIsBacked' /\ TextsAreTracked'
  BY <1>1, <1>3 DEF CollabInv, ReplicaIsBacked, TextsAreTracked, Unacknowledged
<1> QED BY <1>3, <1>4, <1>5, <1>6 DEF CollabInv

LEMMA CollabStarts == CollabInit => CollabInv
<1> SUFFICES ASSUME CollabInit PROVE CollabInv
  OBVIOUS
<1>1. RoomInv
  BY InitType, InitSafety DEF CollabInit, RoomInv, SafetyInv
<1>2. /\ session = [c \in Sessions |-> NewSession] /\ decision = [a \in Commands |-> "none"]
      /\ fate = [t \in Texts |-> "none"]
      /\ link = [s \in Sockets |-> "unused"] /\ up = [s \in Sockets |-> <<>>]
      /\ down = [s \in Sockets |-> <<>>] /\ job = NoJob
  BY DEF CollabInit, RoomInit
<1>3. Elements(<<>>) = {} /\ \A i : i \notin DOMAIN <<>>
  BY EmptyElements
<1>4. NewSession \in SessionState
  BY DEF NewSession, SessionState
<1>5. SessionTypeOK
  BY <1>2, <1>4 DEF SessionTypeOK
<1>6. SocketsInv
  BY <1>2 DEF SocketsInv, NewSession, Alive
<1>7. ToldInv
  BY <1>2, <1>3 DEF ToldInv
<1>8. NoJob.id \notin Texts
  BY RoomAssumption DEF NoJob, Proposals
<1>9. TextsInv
  BY <1>2, <1>3, <1>8 DEF TextsInv, Unnamed, NewSession
<1>10. ReplicaIsBacked /\ TextsAreTracked
  BY <1>2 DEF ReplicaIsBacked, TextsAreTracked, NewSession
<1> QED BY <1>1, <1>5, <1>6, <1>7, <1>9, <1>10 DEF CollabInv

LEMMA CollabInvariant == CollabSpec => []CollabInv
<1>1. CollabInv /\ [CollabNext]_vars => CollabInv'
  BY CollabStep, CollabStutters
<1> QED BY <1>1, CollabStarts, PTL DEF CollabSpec

\* Nothing a client was told of is ever lost, whatever the sessions of
\* CollaborativeSession do with their connections: the room's promises were proved
\* against clients that may send anything, and these are such clients.
THEOREM SessionsLoseNothing == CollabSpec => []ToldIsDurable
<1>1. CollabInv => ToldIsDurable
  BY DEF CollabInv, RoomInv
<1> QED BY <1>1, CollabInvariant, PTL

\* The replica of a live session shows nothing but what the room holds for good and
\* its own unacknowledged edits: through lost connections, replays, refusals, and the
\* recovery of replaceReplica, nothing refused stays in a document.
THEOREM ReplicasAreBacked == CollabSpec => []ReplicaIsBacked
<1>1. CollabInv => ReplicaIsBacked
  BY DEF CollabInv
<1> QED BY <1>1, CollabInvariant, PTL

\* A typed edit is in the room for good, kept by its session, or reported as
\* abandoned: no edit is lost between the buffer, the proposal in flight and the room.
THEOREM TypedEditsAreTracked == CollabSpec => []TextsAreTracked
<1>1. CollabInv => TextsAreTracked
  BY DEF CollabInv
<1> QED BY <1>1, CollabInvariant, PTL

-----------------------------------------------------------------------------
(* What the sessions inherit from the ledger the room keeps *)

LEMMA CollabLedgerStep ==
  ASSUME CollabInv, [CollabNext]_vars
  PROVE  [Promised!Next]_(Promised!ledgerVars)
<1>1. TypeOK /\ SafetyInv /\ SessionTypeOK /\ SocketsInv /\ ToldInv
  BY DEF CollabInv, RoomInv, SafetyInv
<1>2. CASE \E c \in Sessions : Moves(c)
  <2>1. storage' = storage /\ archive' = archive
    BY <1>1, <1>2, MovedRoom DEF Moves
  <2> QED BY <2>1, SameDurable
<1>3. CASE [Next]_roomVars
  BY <1>1, <1>3, LedgerStep
<1> QED BY <1>1, <1>2, <1>3, CollabSteps DEF Next, vars

\* With its clients, the room is still a ledger: every step of the composition leaves
\* the durable copy as it is or accepts one proposal, under the next commit.
THEOREM CollabRefinement == CollabSpec => ImplementsLedger
<1>1. CollabInv /\ [CollabNext]_vars => [Promised!Next]_(Promised!ledgerVars)
  BY CollabLedgerStep
<1>2. CollabInit => Promised!Init
  BY LedgerInit DEF CollabInit
<1> QED BY <1>1, <1>2, CollabInvariant, PTL DEF CollabSpec, ImplementsLedger, Promised!Spec

\* However many sessions open a new room, and however often each proposes to initialize
\* it over lost connections and retries, the room is initialized once.
THEOREM SessionsInitializeOnce == CollabSpec => []InitializedOnce
<1> DEFINE Founded == InitializedOnce /\ (Durable.commit = 0 => Durable.doc = {})
<1>1. CollabInit => Founded
  BY FoundedInit DEF CollabInit
<1>2. CollabInv /\ Founded /\ [CollabNext]_vars => Founded'
  <2> SUFFICES ASSUME CollabInv, Founded, [CollabNext]_vars PROVE Founded'
    OBVIOUS
  <2>1. Durable.commit \in Nat
    BY DurableFacts DEF CollabInv, RoomInv
  <2>2. [Promised!Next]_(Promised!ledgerVars)
    BY CollabLedgerStep
  <2> QED BY <2>1, <2>2, FoundedStep
<1>3. Founded => InitializedOnce
  OBVIOUS
<1> HIDE DEF Founded
<1> QED BY <1>1, <1>2, <1>3, CollabInvariant, PTL DEF CollabSpec

\* In a room that is never idle for a day no command number is executed twice,
\* whatever the sessions send again.
LEMMA CollabOnce == "idle" \notin Faults => (CollabSpec => []OnceInv)
<1> SUFFICES ASSUME "idle" \notin Faults PROVE CollabSpec => []OnceInv
  OBVIOUS
<1>1. CollabInit => OnceInv
  BY OnceInit DEF CollabInit
<1>2. CollabInv /\ OnceInv /\ [CollabNext]_vars => OnceInv'
  <2> SUFFICES ASSUME CollabInv, OnceInv, [CollabNext]_vars PROVE OnceInv'
    OBVIOUS
  <2>1. TypeOK /\ SafetyInv /\ RoomInv /\ SessionTypeOK /\ SocketsInv /\ ToldInv
    BY DEF CollabInv, RoomInv, SafetyInv
  <2>2. CASE \E c \in Sessions : Moves(c)
    <3>1. TypeOK' /\ storage' = storage /\ archive' = archive /\ retiring' = retiring
      BY <2>1, <2>2, MovedRoom DEF Moves
    <3> QED BY <2>1, <3>1, SameStorage
  <2>3. CASE [Next]_roomVars
    BY <2>1, <2>3, OnceStep
  <2> QED BY <2>1, <2>2, <2>3, CollabSteps DEF Next, vars
<1> QED BY <1>1, <1>2, CollabInvariant, PTL DEF CollabSpec

\* In a room that is never purged no number of a session is executed twice, whatever
\* CollaborativeSession sends again on whichever connection.
THEOREM SessionsExecuteOnce == ASSUME "idle" \notin Faults PROVE CollabSpec => []SequenceOnce
<1>1. OnceInv => SequenceOnce
  BY DEF OnceInv
<1> QED BY <1>1, CollabOnce, PTL

-----------------------------------------------------------------------------
(* The numbers of the commands.  A step of session c keeps its pending      *)
(* commands, but for one it hears is executed; gives the next number to a   *)
(* command nobody dispatched before; or hears that one is refused.          *)

Ordered(pending) ==
  \A i, j \in DOMAIN pending : i < j => pending[i].sequence < pending[j].sequence
HearsCommit(c, id) == Hears(c) /\ Received(c).kind = "commit" /\ Received(c).id = id
Keeps(c, y) ==
  /\ y.sequence = session[c].sequence
  /\ Elements(y.pending) \subseteq Elements(session[c].pending)
  /\ Ordered(session[c].pending) => Ordered(y.pending)
  /\ Alive(y) => \A p \in Elements(session[c].pending) :
                   p \in Elements(y.pending) \/ HearsCommit(c, p.id)
Proposes(c, y, a) ==
  /\ SessionOf[a] = c /\ decision[a] = "none" /\ decision'[a] # "none"
  /\ y.sequence = session[c].sequence + 1
  /\ y.pending = Append(session[c].pending, [id |-> a, sequence |-> y.sequence])
Refuses(c, y) ==
  /\ \E a \in Commands : SessionOf[a] = c /\ decision'[a] = "refused"
  /\ \A p \in Elements(y.pending) : \E q \in Elements(session[c].pending) : q.id = p.id
Decides(c) ==
  \A a \in Commands :
    /\ decision[a] # "none" => decision'[a] # "none"
    /\ decision[a] = "refused" => decision'[a] = "refused"
    /\ decision'[a] = "accepted" => decision[a] = "accepted" \/ HearsCommit(c, a)
Counts(c) ==
  /\ Decides(c)
  /\ \/ Keeps(c, session'[c]) \/ Refuses(c, session'[c])
     \/ \E a \in Commands : Proposes(c, session'[c], a)

LEMMA BecomeSession ==
  ASSUME SessionTypeOK, NEW c \in Sessions, NEW result, Become(c, result)
  PROVE  session'[c] = result.to
BY DEF SessionTypeOK, Become

LEMMA SameCounts ==
  ASSUME NEW c \in Sessions, Numbering(session'[c]) = Numbering(session[c]), decision' = decision
  PROVE  Counts(c)
<1>1. Decides(c)
  BY DEF Decides
<1>2. Keeps(c, session'[c])
  BY DEF Keeps, Numbering
<1> QED BY <1>1, <1>2 DEF Counts

LEMMA ConnectionCounts ==
  ASSUME SessionTypeOK, NEW c \in Sessions, Open(c) \/ Lose(c) \/ NoticeClose(c)
  PROVE  Counts(c)
<1> DEFINE x == session[c]
<1>1. x \in SessionState /\ session \in [Sessions -> SessionState]
  BY DEF SessionTypeOK
<1>2. CASE Open(c)
  <2>1. PICK s \in Sockets : session' = [session EXCEPT ![c].socket = s]
    BY <1>2 DEF Open
  <2>2. session'[c] = [x EXCEPT !.socket = s] /\ decision' = decision
    BY <1>1, <1>2, <2>1 DEF Open
  <2>3. Numbering(session'[c]) = Numbering(x)
    BY <1>1, <2>2 DEF Numbering, SessionState
  <2> QED BY <2>2, <2>3, SameCounts
<1>3. CASE Lose(c) \/ NoticeClose(c)
  <2>1. session'[c] = Disconnected(x) /\ decision' = decision
    BY <1>1, <1>3 DEF Lose, NoticeClose
  <2> QED BY <1>1, <2>1, DisconnectedFacts, SameCounts
<1> QED BY <1>2, <1>3

LEMMA TextCounts ==
  ASSUME SessionTypeOK, NEW c \in Sessions,
         \/ FlushTimer(c) \/ RetryTimer(c) \/ ReceiveReady(c) \/ ReceiveTextGone(c)
         \/ \E t \in Texts : Type(c, t)
  PROVE  Counts(c)
<1> DEFINE x == session[c]
<1>1. x \in SessionState /\ decision' = decision
  BY DEF SessionTypeOK, FlushTimer, RetryTimer, ReceiveReady, ReceiveTextGone, Type
<1>2. CASE FlushTimer(c)
  <2>1. session'[c] = SendFlushed(x).to
    BY <1>2, BecomeSession DEF FlushTimer
  <2> QED BY <1>1, <2>1, SendFlushedFacts, SameCounts
<1>3. ASSUME NEW w \in SessionState, Become(c, ResumeText(w)), Numbering(w) = Numbering(x)
      PROVE  Counts(c)
  BY <1>1, <1>3, BecomeSession, ResumeTextFacts, SameCounts
<1>4. CASE RetryTimer(c)
  <2> DEFINE w == [x EXCEPT !.timer = FALSE]
  <2>1. w \in SessionState /\ Numbering(w) = Numbering(x)
    BY <1>1 DEF SessionState, Numbering
  <2>2. Become(c, ResumeText(w))
    BY <1>4 DEF RetryTimer
  <2> HIDE DEF w
  <2> QED BY <1>3, <2>1, <2>2
<1>5. CASE ReceiveReady(c)
  <2> DEFINE w == [x EXCEPT !.connected = TRUE, !.ready = FALSE]
  <2>1. w \in SessionState /\ Numbering(w) = Numbering(x)
    BY <1>1 DEF SessionState, Numbering
  <2>2. Become(c, ResumeText(w))
    BY <1>5 DEF ReceiveReady
  <2> HIDE DEF w
  <2> QED BY <1>3, <2>1, <2>2
<1>6. CASE ReceiveTextGone(c)
  <2> DEFINE w == Recovered(x)
  <2>1. w \in SessionState /\ Numbering(w) = Numbering(x)
    <3>1. <<>> \in Seq(Texts) /\ <<>> \in Seq(Batches) /\ {} \in SUBSET Op
      OBVIOUS
    <3> QED BY <1>1, <3>1 DEF SessionState, Recovered, Numbering
  <2>2. session' = session \/ Become(c, Start(w))
    BY <1>6 DEF ReceiveTextGone
  <2> HIDE DEF w
  <2>3. CASE Become(c, Start(w))
    BY <1>1, <2>1, <2>3, BecomeSession, StartFacts, SameCounts
  <2> QED BY <1>1, <2>2, <2>3, SameCounts
<1>7. ASSUME NEW t \in Texts, Type(c, t) PROVE Counts(c)
  <2> DEFINE moved == x.buffer # <<>> /\ Conflicts[Head(x.buffer)] # Conflicts[t]
             flushed == IF moved THEN SendFlushed(x) ELSE Result(x, <<>>)
             w == flushed.to
             y == [w EXCEPT !.doc = @ \cup {TextOp(t)}, !.buffer = Append(@, t)]
  <2>1. Become(c, Result(y, flushed.frames))
    BY <1>7 DEF Type
  <2>2. w \in SessionState /\ Numbering(w) = Numbering(x)
    BY <1>1, SendFlushedFacts DEF Result
  <2>3. session'[c] = y
    BY <2>1, BecomeSession DEF Result
  <2> HIDE DEF w
  <2>4. Numbering(y) = Numbering(w)
    BY <2>2 DEF Numbering, SessionState
  <2> QED BY <1>1, <2>2, <2>3, <2>4, SameCounts
<1> QED BY <1>2, <1>4, <1>5, <1>6, <1>7

LEMMA SyncCounts ==
  ASSUME TypeOK, SessionTypeOK, SocketsInv, NEW c \in Sessions,
         ReceiveSyncResponse(c) \/ ReceiveSyncRequest(c)
  PROVE  Counts(c)
<1> DEFINE x == session[c]
<1>1. x \in SessionState /\ decision' = decision
  BY DEF SessionTypeOK, ReceiveSyncResponse, ReceiveSyncRequest
<1>2. CASE ReceiveSyncResponse(c)
  <2>1. Received(c).update \in SUBSET Op
    BY <1>2, LearntFacts DEF ReceiveSyncResponse
  <2>2. session'[c] = Integrated(x, Received(c).update)
    BY <1>2, BecomeSession DEF ReceiveSyncResponse, Result
  <2> QED BY <1>1, <2>1, <2>2, IntegratedFacts, SameCounts
<1>3. CASE ReceiveSyncRequest(c)
  <2> DEFINE w == [x EXCEPT !.ready = FALSE, !.initializing = FALSE]
             r == Flushed(w)
  <2>1. w \in SessionState /\ Numbering(w) = Numbering(x)
    BY <1>1 DEF SessionState, Numbering
  <2>2. \/ session'[c] = [x EXCEPT !.initializing = TRUE, !.ready = FALSE]
        \/ session'[c] = [x EXCEPT !.initializing = FALSE, !.ready = FALSE]
        \/ session'[c] = [r EXCEPT !.resuming = TRUE]
        \/ session'[c] = [r EXCEPT !.ready = TRUE, !.recovering = FALSE]
    <3>1. ASSUME NEW z, NEW frames, Become(c, Result(z, frames)) PROVE session'[c] = z
      BY <3>1, BecomeSession DEF Result
    <3>2. \/ \E frames : Become(c, Result([x EXCEPT !.initializing = TRUE, !.ready = FALSE], frames))
          \/ \E frames : Become(c, Result([x EXCEPT !.initializing = FALSE, !.ready = FALSE], frames))
          \/ \E frames : Become(c, Result([r EXCEPT !.resuming = TRUE], frames))
          \/ \E frames : Become(c, Result([r EXCEPT !.ready = TRUE, !.recovering = FALSE], frames))
      BY <1>3 DEF ReceiveSyncRequest
    <3> HIDE DEF r, w
    <3> QED BY <3>1, <3>2
  <2> HIDE DEF w
  <2>3. r \in SessionState /\ Numbering(r) = Numbering(x)
    BY <2>1, FlushedFacts
  <2> HIDE DEF r
  <2>4. Numbering(session'[c]) = Numbering(x)
    BY <1>1, <2>2, <2>3 DEF Numbering, SessionState
  <2> QED BY <1>1, <2>4, SameCounts
<1> QED BY <1>2, <1>3

LEMMA EndCounts ==
  ASSUME SessionTypeOK, NEW c \in Sessions, NEW end \in {"rejected", "exhausted", "destroyed"},
         End(c, end)
  PROVE  Counts(c)
<1> DEFINE x == session[c]
<1>1. x \in SessionState /\ session'[c] = Ended(x, end)
  BY DEF SessionTypeOK, End
<1>2. session'[c].pending = <<>> /\ ~Alive(session'[c])
  BY <1>1, EndedFacts DEF Alive
<1>3. session'[c].sequence = x.sequence
  BY <1>1 DEF Ended, Disconnected, SessionState
<1>4. Keeps(c, session'[c])
  BY <1>2, <1>3, EmptyElements DEF Keeps, Ordered
<1>5. Decides(c)
  BY DEF End, Decides
<1> QED BY <1>4, <1>5 DEF Counts

LEMMA EndingCounts ==
  ASSUME SessionTypeOK, NEW c \in Sessions, Destroy(c) \/ ReceiveReject(c) \/ ReceiveRetry(c)
  PROVE  Counts(c)
<1>1. CASE \E end \in {"rejected", "exhausted", "destroyed"} : End(c, end)
  BY <1>1, EndCounts
<1>2. CASE ReceiveRetry(c) /\ ~End(c, "exhausted")
  <2> DEFINE x == session[c]
  <2>1. x \in SessionState /\ decision' = decision
    BY <1>2 DEF SessionTypeOK, ReceiveRetry
  <2>2. session'[c] = [x EXCEPT !.attempts = @ + 1, !.ready = FALSE, !.timer = TRUE,
                               !.resuming = @ \/ x.texts # <<>> \/ x.buffer # <<>>]
    BY <1>2 DEF SessionTypeOK, ReceiveRetry
  <2>3. Numbering(session'[c]) = Numbering(x)
    BY <2>1, <2>2 DEF Numbering, SessionState
  <2> QED BY <2>1, <2>3, SameCounts
<1> QED BY <1>1, <1>2 DEF Destroy, ReceiveReject

LEMMA WithoutOrdered ==
  ASSUME NEW pending \in Seq(Entries), NEW id, Ordered(pending)
  PROVE  Ordered(Without(pending, id))
<1> SUFFICES ASSUME NEW i \in DOMAIN Without(pending, id), NEW j \in DOMAIN Without(pending, id), i < j
             PROVE  Without(pending, id)[i].sequence < Without(pending, id)[j].sequence
  BY DEF Ordered
<1>1. PICK k \in DOMAIN pending, l \in DOMAIN pending :
        k < l /\ pending[k] = Without(pending, id)[i] /\ pending[l] = Without(pending, id)[j]
  BY WithoutFacts
<1> QED BY <1>1 DEF Ordered

LEMMA CommitCounts ==
  ASSUME TypeOK, SessionTypeOK, SocketsInv, NEW c \in Sessions, ReceiveCommit(c)
  PROVE  Counts(c)
<1> DEFINE x == session[c]
           id == Received(c).id
           w == Integrated(x, Received(c).update)
           y == Acknowledged(c, w, id).to
<1>1. x \in SessionState /\ Hears(c) /\ Received(c).kind = "commit"
  BY ReceivesFacts DEF SessionTypeOK, ReceiveCommit
<1>2. Received(c).update \in SUBSET Op
  BY LearntFacts DEF ReceiveCommit
<1>3. session'[c] = y
  BY BecomeSession DEF ReceiveCommit
<1>4. w \in SessionState /\ Numbering(w) = Numbering(x)
  BY <1>1, <1>2, IntegratedFacts
<1> HIDE DEF w
<1>5. y.pending = Without(x.pending, id) /\ y.sequence = x.sequence
  BY <1>4, AcknowledgedFacts DEF Numbering
<1> HIDE DEF y
<1>6. x.pending \in Seq(Entries)
  BY <1>1 DEF SessionState
<1>7. Keeps(c, y)
  BY <1>1, <1>5, <1>6, WithoutFacts, WithoutOrdered DEF Keeps, HearsCommit
<1>8. Decides(c)
  BY <1>1 DEF ReceiveCommit, Decides, HearsCommit
<1> QED BY <1>3, <1>7, <1>8 DEF Counts

LEMMA ConflictCounts ==
  ASSUME TypeOK, SessionTypeOK, SocketsInv, NumbersInv, NEW c \in Sessions, ReceiveConflict(c)
  PROVE  Counts(c)
<1> DEFINE x == session[c]
           message == Received(c)
           rest == Without(x.pending, message.id)
           pending == Renumbered(rest, message.accepted)
           sequence == message.accepted + Len(rest)
           w == [x EXCEPT !.pending = pending, !.sequence = sequence, !.ready = FALSE]
<1>1. x \in SessionState /\ x.pending \in Seq(Entries) /\ Hears(c) /\ message.kind = "conflict"
  BY ReceivesFacts DEF SessionTypeOK, SessionState, ReceiveConflict
<1>2. CASE session' = session /\ decision' = decision
  BY <1>2, SameCounts
<1>3. CASE /\ \E p \in Elements(x.pending) : p.id = message.id
           /\ Become(c, Start(w))
           /\ decision' = [decision EXCEPT ![message.id] = "refused"]
  <2>1. message.id \in Commands /\ message.accepted \in Nat
    <3>1. down[session[c].socket] \in Seq(Message) /\ down[session[c].socket] # <<>>
      BY <1>1 DEF Hears, TypeOK
    <3>2. message \in Message
      BY <3>1, TailElements DEF Received
    <3> QED BY <1>1, <3>2 DEF Message
  <2>2. SessionOf[message.id] = c
    BY <1>3 DEF NumbersInv
  <2>3. /\ decision \in [Commands -> {"none", "pending", "accepted", "refused", "closed"}]
        /\ decision' = [decision EXCEPT ![message.id] = "refused"]
    BY <1>3 DEF SessionTypeOK
  <2>4. Decides(c) /\ decision'[message.id] = "refused"
    BY <2>1, <2>3 DEF Decides
  <2>5. rest \in Seq(Entries) /\ Elements(rest) \subseteq Elements(x.pending)
    BY <1>1, WithoutFacts
  <2>6. session'[c] = Start(w).to
    BY <1>3, BecomeSession
  <2> HIDE DEF rest, message
  <2>7. /\ pending \in Seq(Entries) /\ sequence \in Nat
        /\ \A p \in Elements(pending) : \E q \in Elements(x.pending) : q.id = p.id
    <3>1. /\ pending \in Seq(Entries) /\ sequence \in Nat
          /\ DOMAIN pending = DOMAIN rest /\ \A i \in DOMAIN rest : pending[i].id = rest[i].id
      BY <2>1, <2>5, RenumberedType
    <3> HIDE DEF pending
    <3>2. \A p \in Elements(pending) : \E q \in Elements(rest) : q.id = p.id
      BY <3>1 DEF Elements
    <3> QED BY <2>5, <3>1, <3>2
  <2> HIDE DEF pending, sequence
  <2>8. w \in SessionState /\ w.pending = pending
    BY <1>1, <2>7 DEF SessionState
  <2> HIDE DEF w
  <2>9. session'[c].pending = pending
    BY <2>6, <2>8, StartFacts DEF Numbering
  <2> QED BY <2>1, <2>2, <2>4, <2>7, <2>9 DEF Counts, Refuses
<1> QED BY <1>2, <1>3 DEF ReceiveConflict

LEMMA DispatchCounts ==
  ASSUME SessionTypeOK, NEW c \in Sessions, NEW a \in Commands, Dispatch(c, a)
  PROVE  Counts(c)
<1> DEFINE x == session[c]
           w == SendFlushed(x).to
           entry == [id |-> a, sequence |-> x.sequence + 1]
           y == [w EXCEPT !.sequence = @ + 1, !.pending = Append(@, entry)]
<1>1. /\ x \in SessionState /\ SessionOf[a] = c /\ decision[a] = "none"
      /\ decision \in [Commands -> {"none", "pending", "accepted", "refused", "closed"}]
      /\ decision' = [decision EXCEPT ![a] = "pending"]
  BY DEF SessionTypeOK, Dispatch
<1>2. session'[c] = y
  BY BecomeSession DEF Dispatch, Result
<1>3. w \in SessionState /\ Numbering(w) = Numbering(x)
  BY <1>1, SendFlushedFacts
<1> HIDE DEF w
<1>4. y.sequence = x.sequence + 1 /\ y.pending = Append(x.pending, entry)
  BY <1>3 DEF SessionState, Numbering
<1>5. Proposes(c, y, a)
  BY <1>1, <1>4 DEF Proposes
<1>6. Decides(c)
  BY <1>1 DEF Decides
<1> QED BY <1>2, <1>5, <1>6 DEF Counts

LEMMA SessionCounts ==
  ASSUME TypeOK, SessionTypeOK, SocketsInv, ToldInv, NumbersInv, SessionNext
  PROVE  \E c \in Sessions : Moves(c) /\ Counts(c)
<1>1. PICK c \in Sessions :
        \/ Open(c) \/ Lose(c) \/ NoticeClose(c) \/ Destroy(c)
        \/ FlushTimer(c) \/ RetryTimer(c) \/ Receive(c)
        \/ \E a \in Commands : Dispatch(c, a)
        \/ \E t \in Texts : Type(c, t)
  BY DEF SessionNext
<1>2. Moves(c)
  BY <1>1, FlushTimerMoves, RetryTimerMoves, ReceiveReadyMoves, ReceiveSyncResponseMoves,
     ReceiveSyncRequestMoves, DisconnectMoves, OpenMoves, ReceiveRetryMoves, EndingMoves,
     ReceiveCommitMoves, ReceiveConflictMoves, ReceiveTextGoneMoves, TypeMoves, DispatchMoves
     DEF Receive
<1>3. Counts(c)
  BY <1>1, ConnectionCounts, TextCounts, SyncCounts, EndingCounts, CommitCounts, ConflictCounts,
     DispatchCounts DEF Receive
<1> QED BY <1>2, <1>3

LEMMA NumberTypes ==
  ASSUME TypeOK, SessionTypeOK, NEW c \in Sessions, NEW n \in Numbers(c)
  PROVE  n[1] \in Commands /\ n[2] \in Nat
<1>1. CASE \E p \in Elements(session[c].pending) : n = <<p.id, p.sequence>>
  <2>1. session[c].pending \in Seq(Entries)
    BY DEF SessionTypeOK, SessionState
  <2>2. Elements(session[c].pending) \subseteq Entries
    BY <2>1, TypedElements
  <2>3. \A p \in Entries : p.id \in Commands /\ p.sequence \in Nat
    BY DEF Entries
  <2> QED BY <1>1, <2>2, <2>3
<1>2. CASE \E op \in Durable.doc : op.id \in Commands /\ n = <<op.id, op.sequence>>
  <2>1. Durable.doc \subseteq Op
    BY RestoreType DEF Durable, StorageType
  <2> QED BY <1>2, <2>1 DEF Op
<1>3. CASE \E s \in Sockets : \E f \in Elements(up[s]) :
             f.kind = "commands" /\ n = <<f.id, f.sequence>>
  <2>1. PICK s \in Sockets : \E f \in Elements(up[s]) :
                                f.kind = "commands" /\ n = <<f.id, f.sequence>>
    BY <1>3
  <2>2. \A f \in Elements(up[s]) : f \in Frame
    BY TypedElements DEF TypeOK
  <2>3. \A f \in Frame : f.kind = "commands" => f.id \in Commands /\ f.sequence \in Nat
    BY DEF Frame
  <2> QED BY <2>1, <2>2, <2>3
<1> QED BY <1>1, <1>2, <1>3 DEF Numbers

\* Sessions keep their numbers apart: a command and its number go together.
LEMMA MovedNumbers ==
  ASSUME TypeOK, SafetyInv, SessionTypeOK, NumbersInv, NEW c \in Sessions, Counts(c),
         NEW y, NEW frames, NEW new, Moved(c, y, frames, new)
  PROVE  NumbersInv'
<1> DEFINE x == session[c]
<1>1. /\ session'[c] = y /\ \A d \in Sessions : d # c => session'[d] = session[d]
      /\ Durable' = Durable /\ Sends(y, frames) /\ x \in SessionState
  BY MovedSession, MovedRoom DEF Moved, Wired, SessionTypeOK
<1>2. \A s \in Sockets : Elements(up'[s]) \subseteq Elements(up[s]) \cup Elements(frames)
  BY MovedWires
<1>3. Decides(c)
  BY DEF Counts
<1>4. x.pending \in Seq(Entries) /\ x.sequence \in Nat
  BY <1>1 DEF SessionState
<1>5. \A p \in Elements(x.pending) : /\ p.id \in Commands /\ SessionOf[p.id] = c
                                     /\ decision[p.id] # "none" /\ <<p.id, p.sequence>> \in Numbers(c)
  <2>1. Elements(x.pending) \subseteq Entries
    BY <1>4, TypedElements
  <2>2. \A p \in Entries : p.id \in Commands
    BY DEF Entries
  <2>3. \A p \in Elements(x.pending) : <<p.id, p.sequence>> \in Numbers(c)
    BY DEF Numbers
  <2>4. /\ \A p \in Elements(x.pending) : SessionOf[p.id] = c
        /\ \A n \in Numbers(c) : decision[n[1]] # "none"
    BY DEF NumbersInv
  <2> SUFFICES ASSUME NEW p \in Elements(x.pending)
               PROVE  /\ p.id \in Commands /\ SessionOf[p.id] = c
                      /\ decision[p.id] # "none" /\ <<p.id, p.sequence>> \in Numbers(c)
    OBVIOUS
  <2> DEFINE n == <<p.id, p.sequence>>
  <2>5. n \in Numbers(c) /\ n[1] = p.id
    BY <2>3
  <2> QED BY <2>1, <2>2, <2>4, <2>5
<1>6. \A p \in Elements(y.pending) :
        p.id \in Commands /\ SessionOf[p.id] = c /\ decision'[p.id] # "none"
  <2>1. CASE Keeps(c, y) \/ Refuses(c, y)
    BY <1>3, <1>5, <2>1 DEF Keeps, Refuses, Decides
  <2>2. ASSUME NEW a \in Commands, Proposes(c, y, a)
        PROVE  \A p \in Elements(y.pending) :
                 p.id \in Commands /\ SessionOf[p.id] = c /\ decision'[p.id] # "none"
    <3> DEFINE entry == [id |-> a, sequence |-> y.sequence]
    <3>1. Elements(y.pending) = Elements(x.pending) \cup {entry}
      BY <1>4, <2>2, AppendElements DEF Proposes
    <3>2. entry.id = a
      OBVIOUS
    <3> HIDE DEF entry
    <3> QED BY <1>3, <1>5, <2>2, <3>1, <3>2 DEF Proposes, Decides
  <2> QED BY <1>1, <2>1, <2>2 DEF Counts
<1>7. ASSUME NEW d \in Sessions, NEW n \in Numbers(d)'
      PROVE  n \in Numbers(d) \/ (d = c /\ \E p \in Elements(y.pending) : n = <<p.id, p.sequence>>)
  <2>1. CASE \E p \in Elements(session'[d].pending) : n = <<p.id, p.sequence>>
    BY <1>1, <2>1 DEF Numbers
  <2>2. CASE \E op \in Durable'.doc : /\ op.id \in Commands /\ SessionOf[op.id] = d
                                      /\ n = <<op.id, op.sequence>>
    BY <1>1, <2>2 DEF Numbers
  <2>3. CASE \E s \in Sockets : \E f \in Elements(up'[s]) :
               f.kind = "commands" /\ SessionOf[f.id] = d /\ n = <<f.id, f.sequence>>
    <3>0. PICK s \in Sockets : \E f \in Elements(up'[s]) :
                 f.kind = "commands" /\ SessionOf[f.id] = d /\ n = <<f.id, f.sequence>>
      BY <2>3
    <3>1. PICK f \in Elements(up'[s]) :
                 f.kind = "commands" /\ SessionOf[f.id] = d /\ n = <<f.id, f.sequence>>
      BY <3>0
    <3>2. CASE f \in Elements(up[s])
      BY <3>1, <3>2 DEF Numbers
    <3>3. CASE f \in Elements(frames)
      <4>1. PICK p \in Elements(y.pending) : f.id = p.id /\ f.sequence = p.sequence
        BY <1>1, <3>1, <3>3 DEF Sends
      <4> QED BY <1>6, <3>1, <4>1
    <3> QED BY <1>2, <3>2, <3>3
  <2> QED BY <2>1, <2>2, <2>3 DEF Numbers
<1>8. ASSUME NEW d \in Sessions PROVE \A p \in Elements(session'[d].pending) : SessionOf[p.id] = d
  BY <1>1, <1>6 DEF NumbersInv
<1>9. ASSUME NEW d \in Sessions, NEW n \in Numbers(d)' PROVE decision'[n[1]] # "none"
  <2>1. CASE n \in Numbers(d)
    BY <1>3, <2>1, NumberTypes DEF NumbersInv, Decides
  <2>2. CASE \E p \in Elements(y.pending) : n = <<p.id, p.sequence>>
    BY <1>6, <2>2
  <2> QED BY <1>7, <1>9, <2>1, <2>2
<1>10. ASSUME NEW d \in Sessions, Unrefused(d)' PROVE Unrefused(d)
  BY <1>3, <1>10 DEF Unrefused, Decides
<1>11. ASSUME NEW d \in Sessions, Unrefused(d)'
       PROVE  /\ \A n \in Numbers(d)' : n[2] <= session'[d].sequence
              /\ \A n, m \in Numbers(d)' : n[1] = m[1] <=> n[2] = m[2]
  <2>1. /\ \A n \in Numbers(d) : n[2] <= session[d].sequence
        /\ \A n, m \in Numbers(d) : n[1] = m[1] <=> n[2] = m[2]
    BY <1>10, <1>11 DEF NumbersInv
  <2>2. CASE Numbers(d)' \subseteq Numbers(d) /\ session'[d].sequence = session[d].sequence
    BY <2>1, <2>2
  <2>3. CASE d # c
    BY <1>1, <1>7, <2>2, <2>3
  <2>4. CASE d = c /\ Keeps(c, y)
    <3>1. \A n \in Numbers(d)' : n \in Numbers(d)
      BY <1>5, <1>7, <2>4 DEF Keeps
    <3> QED BY <1>1, <2>2, <2>4, <3>1 DEF Keeps
  <2>5. CASE d = c /\ Refuses(c, y)
    BY <1>11, <2>5 DEF Unrefused, Refuses
  <2>6. ASSUME d = c, NEW a \in Commands, Proposes(c, y, a)
        PROVE  /\ \A n \in Numbers(d)' : n[2] <= session'[d].sequence
               /\ \A n, m \in Numbers(d)' : n[1] = m[1] <=> n[2] = m[2]
    <3> DEFINE entry == [id |-> a, sequence |-> y.sequence]
    <3>1. Elements(y.pending) = Elements(x.pending) \cup {entry}
      BY <1>4, <2>6, AppendElements DEF Proposes
    <3>2. \A n \in Numbers(d)' : n \in Numbers(d) \/ n = <<a, y.sequence>>
      BY <1>5, <1>7, <2>6, <3>1
    <3>3. \A n \in Numbers(d) : n[1] # a /\ n[2] \in Nat
      BY <2>6, NumberTypes DEF Proposes, NumbersInv
    <3>4. y.sequence = x.sequence + 1 /\ session'[d] = y /\ session[d] = x
      BY <1>1, <2>6 DEF Proposes
    <3>5. \A n \in Numbers(d) : n[2] < y.sequence
      BY <1>4, <2>1, <3>3, <3>4
    <3>6. \A n \in Numbers(d)' : n[2] <= session'[d].sequence
      BY <1>4, <3>2, <3>3, <3>4, <3>5
    <3>7. \A n, m \in Numbers(d)' : n[1] = m[1] <=> n[2] = m[2]
      BY <1>4, <2>1, <3>2, <3>3, <3>4, <3>5
    <3> QED BY <3>6, <3>7
  <2> QED BY <1>1, <2>3, <2>4, <2>5, <2>6 DEF Counts
<1> QED BY <1>8, <1>9, <1>11 DEF NumbersInv

\* The room executes a command under the number it came with.
LEMMA RoomNumbers ==
  ASSUME TypeOK, SafetyInv, SessionTypeOK, NumbersInv, RoomNext, UNCHANGED sessionVars
  PROVE  NumbersInv'
<1>1. session' = session /\ decision' = decision
  BY DEF sessionVars
<1>2. ASSUME NEW c \in Sessions, NEW n \in Numbers(c)' PROVE n \in Numbers(c)
  <2>1. CASE \E p \in Elements(session'[c].pending) : n = <<p.id, p.sequence>>
    BY <1>1, <2>1 DEF Numbers
  <2>2. CASE \E op \in Durable'.doc : /\ op.id \in Commands /\ SessionOf[op.id] = c
                                      /\ n = <<op.id, op.sequence>>
    <3>1. PICK op \in Durable'.doc : /\ op.id \in Commands /\ SessionOf[op.id] = c
                                     /\ n = <<op.id, op.sequence>>
      BY <2>2
    <3>2. CASE op \in Durable.doc
      BY <3>1, <3>2 DEF Numbers
    <3>3. CASE op \notin Durable.doc
      <4>1. PICK s \in Sockets : /\ Takes(s, "commands") /\ op.id = Head(up[s]).id
                                 /\ op.sequence = Head(up[s]).sequence
        BY <3>1, <3>3, OpOrigin
      <4>2. Head(up[s]) \in Elements(up[s]) /\ Head(up[s]).kind = "commands"
        BY <4>1, TakesHead
      <4> QED BY <3>1, <4>1, <4>2 DEF Numbers
    <3> QED BY <3>2, <3>3
  <2>3. CASE \E s \in Sockets : \E f \in Elements(up'[s]) :
               f.kind = "commands" /\ SessionOf[f.id] = c /\ n = <<f.id, f.sequence>>
    BY <2>3, FramesTaken DEF Numbers
  <2> QED BY <1>2, <2>1, <2>2, <2>3 DEF Numbers
<1>3. \A c \in Sessions : Unrefused(c)' = Unrefused(c)
  BY <1>1 DEF Unrefused
<1> QED BY <1>1, <1>2, <1>3 DEF NumbersInv

\* A session is told of an acceptance by a commit that names the command.
LEMMA MovedAccepted ==
  ASSUME TypeOK, SafetyInv, SessionTypeOK, AcceptedInv, NEW c \in Sessions, Counts(c),
         NEW y, NEW frames, NEW new, Moved(c, y, frames, new)
  PROVE  AcceptedInv'
<1>1. Durable' = Durable /\ job' = job /\ Decides(c)
  BY MovedRoom DEF Counts
<1>2. \A d \in Sessions : Unrefused(d)' => Unrefused(d)
  BY <1>1 DEF Unrefused, Decides
<1>3. \A s \in Sockets : Elements(down'[s]) \subseteq Elements(down[s])
  BY MovedWires DEF Elements
<1>4. ASSUME NEW s \in Sockets, NEW m \in Elements(down'[s]),
             m.kind = "commit", m.id \in Commands, Unrefused(SessionOf[m.id])'
      PROVE  m.id \in Ids(Durable'.doc)
  <2>1. SessionOf[m.id] \in Sessions
    BY <1>4, RoomAssumption
  <2> QED BY <1>1, <1>2, <1>3, <1>4, <2>1 DEF AcceptedInv
<1>5. ASSUME NEW a \in Commands, decision'[a] = "accepted", Unrefused(SessionOf[a])'
      PROVE  a \in Ids(Durable'.doc)
  <2>1. SessionOf[a] \in Sessions
    BY RoomAssumption
  <2>2. CASE decision[a] = "accepted"
    BY <1>1, <1>2, <1>5, <2>1, <2>2 DEF AcceptedInv
  <2>3. CASE HearsCommit(c, a)
    <3>1. session[c].socket \in Sockets /\ down[session[c].socket] # <<>>
      BY <2>3 DEF HearsCommit, Hears
    <3>2. Received(c) \in Elements(down[session[c].socket])
      <4>1. down[session[c].socket] \in Seq(Message)
        BY <3>1 DEF TypeOK
      <4> QED BY <3>1, <4>1, TailElements DEF Received
    <3>3. Received(c).kind = "commit" /\ Received(c).id = a
      BY <2>3 DEF HearsCommit
    <3> QED BY <1>1, <1>2, <1>5, <2>1, <3>1, <3>2, <3>3 DEF AcceptedInv
  <2> QED BY <1>1, <1>5, <2>2, <2>3 DEF Decides
<1> QED BY <1>1, <1>4, <1>5 DEF AcceptedInv

\* The room answers with a commit a command it executed: the one it is publishing, or
\* the one that took the number, which was the same.
LEMMA RoomAccepted ==
  ASSUME TypeOK, SafetyInv, SessionTypeOK, NumbersInv, AcceptedInv, RoomNext, UNCHANGED sessionVars
  PROVE  AcceptedInv'
<1>1. decision' = decision /\ Durable.doc \subseteq Durable'.doc
  BY DurableGrows DEF sessionVars, Next
<1>2. \A c : Unrefused(c)' = Unrefused(c)
  BY <1>1 DEF Unrefused
<1>3. Ids(Durable.doc) \subseteq Ids(Durable'.doc)
  BY <1>1 DEF Ids
<1>4. /\ \A t \in Texts : t \notin Commands
      /\ \A id \in Initials \cup {NoId} : id \notin Commands /\ id \notin Texts
  BY RoomAssumption DEF Proposals
<1>5. \A s \in Sockets : /\ Takes(s, "text") => Head(up[s]).id \in Texts
                         /\ Takes(s, "commands") => Head(up[s]).id \in Commands
  BY HeadFrame
<1>6. job'.id \in Commands => job'.id \in Ids(job'.doc)
  BY <1>4, <1>5, JobOrigin DEF AcceptedInv, NoJob
<1>7. ASSUME NEW s \in Sockets, NEW m \in Elements(down'[s]),
             m.kind = "commit", m.id \in Commands, Unrefused(SessionOf[m.id])
      PROVE  m.id \in Ids(Durable.doc)
  <2> DEFINE c == SessionOf[m.id]
  <2>1. c \in Sessions
    BY <1>7, RoomAssumption
  <2>2. CASE m \in Elements(down[s])
    BY <1>7, <2>2 DEF AcceptedInv
  <2>3. CASE job # NoJob /\ job.id = m.id
    BY <1>7, <2>3, JobIsDurable DEF AcceptedInv
  <2>4. ASSUME NEW p \in Sockets, Takes(p, "commands"), Head(up[p]).id = m.id,
               Head(up[p]).sequence <= storage.receipts[c]
        PROVE  m.id \in Ids(Durable.doc)
    <3> DEFINE frame == Head(up[p])
    <3>1. frame \in Elements(up[p]) /\ frame.kind = "commands"
      BY <2>4, TakesHead
    <3>2. <<frame.id, frame.sequence>> \in Numbers(c)
      BY <2>4, <3>1 DEF Numbers
    <3>3. frame.sequence \in Nat \ {0} /\ storage.receipts[c] \in Nat
      BY <2>1, <2>4, HeadFrame DEF TypeOK, StorageType
    <3>4. PICK op \in storage.doc : /\ op.id \in Commands /\ SessionOf[op.id] = c
                                    /\ op.sequence = frame.sequence
      <4>1. frame.sequence \in 1..storage.receipts[c]
        BY <2>4, <3>3
      <4> QED BY <2>1, <4>1 DEF SafetyInv, ReceiptsAreBacked, Backed
    <3>5. op \in Durable.doc
      <4>1. storage.commit # 0
        BY <3>4 DEF SafetyInv, Bookkeeping, EmptyStorage
      <4>2. storage.commit \in Nat
        BY DEF TypeOK, StorageType
      <4> QED BY <3>4, <4>1, <4>2, DurableFacts DEF SafetyInv
    <3>6. <<op.id, op.sequence>> \in Numbers(c)
      BY <3>4, <3>5 DEF Numbers
    <3>7. op.id = frame.id
      <4> DEFINE n == <<op.id, op.sequence>>
                 k == <<frame.id, frame.sequence>>
      <4>1. n[2] = k[2] /\ n[1] = op.id /\ k[1] = frame.id
        BY <3>4
      <4>2. n \in Numbers(c) /\ k \in Numbers(c)
        BY <3>2, <3>6
      <4> HIDE DEF n, k
      <4> QED BY <1>7, <2>1, <4>1, <4>2 DEF NumbersInv
    <3> QED BY <2>4, <3>5, <3>7 DEF Ids
  <2>5. m \in Elements(down[s]) \/ Origin(m)
    BY CommitOrigins
  <2> QED BY <1>4, <1>5, <1>7, <2>2, <2>3, <2>4, <2>5 DEF Origin
<1>8. ASSUME NEW a \in Commands, decision[a] = "accepted", Unrefused(SessionOf[a])
      PROVE  a \in Ids(Durable.doc)
  BY <1>8 DEF AcceptedInv
<1> QED BY <1>1, <1>2, <1>3, <1>6, <1>7, <1>8 DEF AcceptedInv

-----------------------------------------------------------------------------
(* What a dispatch promises *)

LEMMA NumbersStart == CollabInit => NumbersInv /\ AcceptedInv
<1> SUFFICES ASSUME CollabInit PROVE NumbersInv /\ AcceptedInv
  OBVIOUS
<1>1. /\ \A c \in Sessions : session[c].pending = <<>>
      /\ \A a \in Commands : decision[a] = "none"
      /\ \A s \in Sockets : up[s] = <<>> /\ down[s] = <<>>
      /\ job = NoJob
  BY DEF CollabInit, RoomInit, NewSession
<1>2. Durable.doc = {} \/ \E id \in Initials : Durable.doc = {Promised!Entry(id, 0, 1)}
  BY LedgerInit DEF CollabInit, Promised!Init
<1>3. \A op \in Durable.doc : op.id \notin Commands
  BY <1>2, RoomAssumption DEF Promised!Entry
<1>4. \A c \in Sessions : Numbers(c) = {}
  BY <1>1, <1>3, EmptyElements DEF Numbers
<1>5. NoJob.id \notin Commands
  BY RoomAssumption DEF NoJob, Proposals
<1>6. NumbersInv
  BY <1>1, <1>4, EmptyElements DEF NumbersInv
<1>7. AcceptedInv
  BY <1>1, <1>5, EmptyElements DEF AcceptedInv
<1> QED BY <1>6, <1>7

LEMMA NumbersStutter ==
  ASSUME NumbersInv, AcceptedInv, UNCHANGED vars
  PROVE  NumbersInv' /\ AcceptedInv'
<1>1. /\ up' = up /\ down' = down /\ job' = job /\ session' = session /\ decision' = decision
      /\ Durable' = Durable
  BY DEF vars, roomVars, memoryVars, durableVars, sessionVars, Durable, Rehydrated
<1>2. \A c : Numbers(c)' = Numbers(c) /\ Unrefused(c)' = Unrefused(c)
  BY <1>1 DEF Numbers, Unrefused
<1> QED BY <1>1, <1>2 DEF NumbersInv, AcceptedInv

LEMMA NumbersStep ==
  ASSUME CollabInv, NumbersInv, AcceptedInv, [CollabNext]_vars
  PROVE  NumbersInv' /\ AcceptedInv'
<1>1. TypeOK /\ SafetyInv /\ SessionTypeOK /\ SocketsInv /\ ToldInv
  BY DEF CollabInv, RoomInv, SafetyInv
<1>2. CASE SessionNext
  <2>1. PICK c \in Sessions : Moves(c) /\ Counts(c)
    BY <1>1, <1>2, SessionCounts
  <2>2. PICK y, frames, new : Moved(c, y, frames, new)
    BY <2>1 DEF Moves
  <2> QED BY <1>1, <2>1, <2>2, MovedNumbers, MovedAccepted
<1>3. CASE RoomNext /\ UNCHANGED sessionVars
  BY <1>1, <1>3, RoomNumbers, RoomAccepted
<1> QED BY <1>1, <1>2, <1>3, CollabSteps, NumbersStutter

LEMMA NumbersInvariant == CollabSpec => [](NumbersInv /\ AcceptedInv)
BY NumbersStart, NumbersStep, CollabInvariant, PTL DEF CollabSpec

\* What an accepted dispatch means, even in a room that forgot its receipts: as long as
\* none of the session's commands was refused, the command is in the document for good.
AcceptedIsExecuted ==
  \A a \in Commands :
    decision[a] = "accepted" /\ Unrefused(SessionOf[a]) => a \in Ids(Durable.doc)

\* The promise of CollaborativeSession.dispatch is kept when it resolves as accepted:
\* the commit that answers names a command the room executed.
THEOREM AcceptedMeansExecuted == CollabSpec => []AcceptedIsExecuted
<1>1. AcceptedInv => AcceptedIsExecuted
  BY DEF AcceptedInv, AcceptedIsExecuted
<1> QED BY <1>1, NumbersInvariant, PTL

\* As long as the room refuses none of its commands and is never idle for a day, every
\* command of a session is executed at most once, and once if it was accepted: whatever
\* connections are lost and whatever the session sends again.
THEOREM CommandsExecuteExactlyOnce ==
  ASSUME "idle" \notin Faults PROVE CollabSpec => []ExecutedExactlyOnce
<1>1. NumbersInv /\ AcceptedInv /\ OnceInv => ExecutedExactlyOnce
  <2> SUFFICES ASSUME NumbersInv, AcceptedInv, OnceInv, NEW a \in Commands, Unrefused(SessionOf[a])
               PROVE  /\ decision[a] = "accepted" => a \in Ids(Durable.doc)
                      /\ \A op, other \in Durable.doc : op.id = a /\ other.id = a => op = other
    BY DEF ExecutedExactlyOnce
  <2> DEFINE c == SessionOf[a]
  <2>1. c \in Sessions
    BY RoomAssumption
  <2>2. ASSUME NEW op \in Durable.doc, NEW other \in Durable.doc, op.id = a, other.id = a
        PROVE  op = other
    <3> DEFINE n == <<op.id, op.sequence>>
               m == <<other.id, other.sequence>>
    <3>1. n \in Numbers(c) /\ m \in Numbers(c)
      BY <2>2 DEF Numbers
    <3>2. n[1] = m[1] /\ n[2] = op.sequence /\ m[2] = other.sequence
      BY <2>2
    <3> HIDE DEF n, m
    <3>3. n[2] = m[2]
      BY <2>1, <3>1, <3>2 DEF NumbersInv
    <3> QED BY <2>2, <3>2, <3>3 DEF OnceInv, SequenceOnce
  <2> QED BY <2>2 DEF AcceptedInv
<1> QED BY <1>1, NumbersInvariant, CollabOnce, PTL

-----------------------------------------------------------------------------
(* The next command of a session is the one the room waits for *)

\* Without an idle day, receipts only grow.
LEMMA ReceiptsGrow ==
  ASSUME TypeOK, SafetyInv, TypeOK', OnceInv, OnceInv', Durable.doc \subseteq Durable'.doc,
         NEW c \in Sessions
  PROVE  storage.receipts[c] <= storage'.receipts[c]
<1>1. storage.receipts[c] \in Nat /\ storage'.receipts[c] \in Nat
  BY DEF TypeOK, StorageType
<1>2. CASE storage.receipts[c] = 0
  BY <1>1, <1>2
<1>3. CASE storage.receipts[c] > 0
  <2>1. storage.receipts[c] \in 1..storage.receipts[c]
    BY <1>1, <1>3
  <2>2. PICK op \in storage.doc : /\ op.id \in Commands /\ SessionOf[op.id] = c
                                  /\ op.sequence = storage.receipts[c]
    BY <2>1 DEF SafetyInv, ReceiptsAreBacked, Backed
  <2>3. Durable.doc = storage.doc
    BY NeverArchived DEF OnceInv
  <2>4. Durable'.doc = storage'.doc
    <3>1. storage'.doc \in SUBSET Op /\ storage'.commit \in Nat /\ archive' = EmptyRoom
      BY DEF TypeOK, StorageType, OnceInv
    <3> QED BY <3>1 DEF Durable, Rehydrated, EmptyRoom
  <2>5. op \in storage'.doc
    BY <2>2, <2>3, <2>4
  <2> QED BY <2>2, <2>5 DEF OnceInv
<1> QED BY <1>1, <1>2, <1>3

LEMMA MovedPending ==
  ASSUME TypeOK, SafetyInv, SessionTypeOK, NumbersInv, AcceptedInv, OnceInv, PendingInv,
         NEW c \in Sessions, Counts(c), NEW y, NEW frames, NEW new, Moved(c, y, frames, new)
  PROVE  PendingInv'
<1> DEFINE x == session[c]
           receipt == storage.receipts[c]
<1>1. /\ session'[c] = y /\ \A d \in Sessions : d # c => session'[d] = session[d]
      /\ Durable' = Durable /\ storage' = storage /\ Decides(c) /\ Joined(c, y)
      /\ x \in SessionState
  BY MovedSession, MovedRoom DEF Moved, SessionTypeOK, Counts
<1>2. x.pending \in Seq(Entries) /\ x.sequence \in Nat /\ receipt \in Nat
  BY <1>1 DEF SessionState, TypeOK, StorageType
<1>3. \A d \in Sessions : Unrefused(d)' => Unrefused(d)
  BY <1>1 DEF Unrefused, Decides
<1>4. \A p \in Elements(x.pending) :
        /\ p.id \in Commands /\ SessionOf[p.id] = c /\ <<p.id, p.sequence>> \in Numbers(c)
        /\ p.sequence \in Nat \ {0}
  <2>1. Elements(x.pending) \subseteq Entries
    BY <1>2, TypedElements
  <2>2. \A p \in Entries : p.id \in Commands /\ p.sequence \in Nat \ {0}
    BY DEF Entries
  <2>3. \A p \in Elements(x.pending) : SessionOf[p.id] = c
    BY DEF NumbersInv
  <2> QED BY <2>1, <2>2, <2>3 DEF Numbers
<1>5. ASSUME Unrefused(c)', Alive(y)
      PROVE  /\ Ordered(y.pending)
             /\ \A n \in 1..y.sequence :
                  n <= receipt \/ \E p \in Elements(y.pending) : p.sequence = n
  <2>1. /\ Unrefused(c) /\ Alive(x) /\ Ordered(x.pending)
        /\ \A n \in 1..x.sequence :
             n <= receipt \/ \E p \in Elements(x.pending) : p.sequence = n
    BY <1>1, <1>3, <1>5 DEF PendingInv, Ordered, Joined
  <2>2. \A n \in Numbers(c) : n[2] <= x.sequence
    BY <2>1 DEF NumbersInv
  <2>3. CASE Keeps(c, y)
    <3>1. ASSUME NEW p \in Elements(x.pending), HearsCommit(c, p.id)
          PROVE  p.sequence <= receipt
      <4>1. session[c].socket \in Sockets /\ Received(c) \in Elements(down[session[c].socket])
        <5>1. session[c].socket \in Sockets /\ down[session[c].socket] # <<>>
          BY <3>1 DEF HearsCommit, Hears
        <5>2. down[session[c].socket] \in Seq(Message)
          BY <5>1 DEF TypeOK
        <5> QED BY <5>1, <5>2, TailElements DEF Received
      <4>2. p.id \in Ids(Durable.doc)
        <5>1. p.id \in Commands /\ Unrefused(SessionOf[p.id])
          BY <1>4, <2>1
        <5>2. Received(c).kind = "commit" /\ Received(c).id = p.id
          BY <3>1 DEF HearsCommit
        <5> DEFINE heard == Received(c)
        <5>3. heard \in Elements(down[session[c].socket])
          BY <4>1
        <5> HIDE DEF heard
        <5>4. heard.kind = "commit" /\ heard.id \in Commands /\ Unrefused(SessionOf[heard.id])
               => heard.id \in Ids(Durable.doc)
          BY <4>1, <5>3 DEF AcceptedInv
        <5> QED BY <5>1, <5>2, <5>4 DEF heard
      <4>3. PICK op \in Durable.doc : op.id = p.id
        BY <4>2 DEF Ids
      <4> DEFINE n == <<op.id, op.sequence>>
                 m == <<p.id, p.sequence>>
      <4>4. n \in Numbers(c) /\ m \in Numbers(c)
        BY <1>4, <4>3 DEF Numbers
      <4>5. n[1] = m[1] /\ n[2] = op.sequence /\ m[2] = p.sequence
        BY <4>3
      <4> HIDE DEF n, m
      <4>6. op.sequence = p.sequence
        BY <2>1, <4>4, <4>5 DEF NumbersInv
      <4>7. op \in storage.doc
        BY <4>3, NeverArchived DEF OnceInv
      <4> QED BY <1>4, <4>3, <4>6, <4>7 DEF OnceInv
    <3> QED BY <1>5, <2>1, <2>3, <3>1 DEF Keeps
  <2>4. ASSUME NEW a \in Commands, Proposes(c, y, a)
        PROVE  /\ Ordered(y.pending)
               /\ \A n \in 1..y.sequence :
                    n <= receipt \/ \E p \in Elements(y.pending) : p.sequence = n
    <3> DEFINE entry == [id |-> a, sequence |-> y.sequence]
    <3>1. /\ y.sequence = x.sequence + 1 /\ y.pending = Append(x.pending, entry)
          /\ entry.sequence = y.sequence
      BY <2>4 DEF Proposes
    <3> HIDE DEF entry
    <3>2. Elements(y.pending) = Elements(x.pending) \cup {entry}
      BY <1>2, <3>1, AppendElements
    <3>3. \A i \in DOMAIN x.pending :
            x.pending[i].sequence \in Nat /\ x.pending[i].sequence < y.sequence
      <4> SUFFICES ASSUME NEW i \in DOMAIN x.pending
                   PROVE  x.pending[i].sequence \in Nat /\ x.pending[i].sequence < y.sequence
        OBVIOUS
      <4> DEFINE p == x.pending[i]
                 n == <<p.id, p.sequence>>
      <4>1. p \in Elements(x.pending)
        BY DEF Elements
      <4>2. n \in Numbers(c) /\ n[2] = p.sequence /\ p.sequence \in Nat
        BY <1>4, <4>1
      <4> HIDE DEF n
      <4> QED BY <1>2, <2>2, <3>1, <4>2
    <3>4. Ordered(y.pending)
      <4>1. DOMAIN y.pending = 1..(Len(x.pending) + 1) /\ Len(x.pending) \in Nat
            /\ DOMAIN x.pending = 1..Len(x.pending)
            /\ y.pending[Len(x.pending) + 1] = entry
            /\ \A i \in 1..Len(x.pending) : y.pending[i] = x.pending[i]
        BY <1>2, <3>1
      <4> QED BY <2>1, <3>1, <3>3, <4>1 DEF Ordered
    <3>5. ASSUME NEW n \in 1..y.sequence
          PROVE  n <= receipt \/ \E p \in Elements(y.pending) : p.sequence = n
      <4>1. n \in 1..x.sequence \/ n = y.sequence
        BY <1>2, <3>1
      <4> QED BY <2>1, <3>1, <3>2, <4>1
    <3> QED BY <3>4, <3>5
  <2>5. CASE Refuses(c, y)
    BY <1>5, <2>5 DEF Unrefused, Refuses
  <2> QED BY <1>1, <2>3, <2>4, <2>5 DEF Counts
<1>6. ASSUME NEW d \in Sessions, Unrefused(d)', Alive(session'[d])
      PROVE  /\ Ordered(session'[d].pending)
             /\ \A n \in 1..session'[d].sequence :
                  \/ n <= storage'.receipts[d]
                  \/ \E p \in Elements(session'[d].pending) : p.sequence = n
  <2>1. CASE d = c
    BY <1>1, <1>5, <1>6, <2>1
  <2>2. CASE d # c
    BY <1>1, <1>3, <1>6, <2>2 DEF PendingInv, Ordered
  <2> QED BY <2>1, <2>2
<1> QED BY <1>6 DEF PendingInv, Ordered

LEMMA PendingStep ==
  ASSUME "idle" \notin Faults, CollabInv, CollabInv', NumbersInv, AcceptedInv, OnceInv, OnceInv',
         PendingInv, [CollabNext]_vars
  PROVE  PendingInv'
<1>1. /\ TypeOK /\ SafetyInv /\ SessionTypeOK /\ SocketsInv /\ ToldInv /\ TypeOK'
  BY DEF CollabInv, RoomInv, SafetyInv
<1>2. CASE SessionNext
  <2>1. PICK c \in Sessions : Moves(c) /\ Counts(c)
    BY <1>1, <1>2, SessionCounts
  <2>2. PICK y, frames, new : Moved(c, y, frames, new)
    BY <2>1 DEF Moves
  <2> QED BY <1>1, <2>1, <2>2, MovedPending
<1>3. CASE [Next]_roomVars /\ UNCHANGED sessionVars
  <2>1. session' = session /\ decision' = decision
    BY <1>3 DEF sessionVars
  <2>2. \A c : Unrefused(c)' = Unrefused(c)
    BY <2>1 DEF Unrefused
  <2>3. \A c \in Sessions : /\ storage.receipts[c] <= storage'.receipts[c]
                            /\ storage.receipts[c] \in Nat /\ storage'.receipts[c] \in Nat
    BY <1>1, <1>3, DurableGrows, ReceiptsGrow DEF TypeOK, StorageType
  <2>4. \A c \in Sessions : \A n \in 1..session[c].sequence :
          n <= storage.receipts[c] => n <= storage'.receipts[c]
    <3>1. \A c \in Sessions : session[c].sequence \in Nat
      BY <1>1 DEF SessionTypeOK, SessionState
    <3> QED BY <2>3, <3>1
  <2> QED BY <2>1, <2>2, <2>4 DEF PendingInv
<1> QED BY <1>1, <1>2, <1>3, CollabSteps DEF Next, vars

\* The first pending command is the least: everything before it was executed.
LEMMA FirstPending ==
  ASSUME CollabInv, NumbersInv, OnceInv, PendingInv, NEW c \in Sessions, Unrefused(c)
  PROVE  Follows(c)
<1> DEFINE x == session[c]
           first == Head(x.pending)
<1> SUFFICES ASSUME x.pending # <<>>
             PROVE  first.sequence <= Rehydrated.receipts[c] + 1
  BY DEF Follows
<1>1. x \in SessionState /\ Alive(x)
  BY DEF CollabInv, SessionTypeOK, SocketsInv
<1>2. x.pending \in Seq(Entries) /\ x.sequence \in Nat
  BY <1>1 DEF SessionState
<1>3. first \in Elements(x.pending) /\ first = x.pending[1] /\ 1 \in DOMAIN x.pending
  BY <1>2, TailElements
<1>4. first.sequence \in Nat \ {0}
  <2>1. first \in Entries
    BY <1>2, <1>3, TypedElements
  <2> QED BY <2>1 DEF Entries
<1> DEFINE n == <<first.id, first.sequence>>
<1>5. n \in Numbers(c) /\ n[2] = first.sequence
  BY <1>3 DEF Numbers
<1> HIDE DEF n
<1>6. first.sequence <= x.sequence
  BY <1>5 DEF NumbersInv
<1>7. /\ Rehydrated.receipts[c] = storage.receipts[c]
      /\ storage.receipts[c] \in Nat
  BY NeverArchived DEF OnceInv, CollabInv, RoomInv, TypeOK, StorageType
<1>8. CASE first.sequence = 1
  BY <1>7, <1>8
<1>9. CASE first.sequence # 1
  <2>1. first.sequence - 1 \in 1..x.sequence /\ first.sequence - 1 < first.sequence
    <3>1. x.sequence \in Nat
      BY <1>2
    <3> HIDE DEF x, first
    <3> QED BY <1>4, <1>6, <1>9, <3>1
  <2>2. CASE first.sequence - 1 <= storage.receipts[c]
    BY <1>4, <1>7, <2>2
  <2>3. CASE \E p \in Elements(x.pending) : p.sequence = first.sequence - 1
    <3>1. PICK i \in DOMAIN x.pending : x.pending[i].sequence = first.sequence - 1
      BY <2>3 DEF Elements
    <3>2. i \in Nat /\ i >= 1
      BY <1>2
    <3>3. i = 1 \/ 1 < i
      BY <3>2
    <3>4. 1 < i => first.sequence < x.pending[i].sequence
      BY <1>1, <1>3 DEF PendingInv
    <3> QED BY <1>3, <1>4, <2>1, <3>1, <3>3, <3>4
  <2> QED BY <1>1, <2>1, <2>2, <2>3 DEF PendingInv
<1> QED BY <1>8, <1>9

UnrefusedFollows == \A c \in Sessions : Unrefused(c) => Follows(c)

LEMMA PendingStart == CollabInit => PendingInv
<1> SUFFICES ASSUME CollabInit PROVE PendingInv
  OBVIOUS
<1>1. \A c \in Sessions : session[c].pending = <<>> /\ session[c].sequence = 0
  BY DEF CollabInit, NewSession
<1>2. \A i : i \notin DOMAIN <<>> /\ i \notin 1..0
  OBVIOUS
<1> QED BY <1>1, <1>2 DEF PendingInv

\* A room that is never purged never waits for a command the session will not send, as
\* long as it refused none of the session's commands: no gap opens in the numbers that
\* #dispatch gives and acceptCommands compares with the receipt.
THEOREM NoGapWithoutRefusal ==
  ASSUME "idle" \notin Faults PROVE CollabSpec => []UnrefusedFollows
<1>1. CollabInv /\ NumbersInv /\ OnceInv /\ PendingInv => UnrefusedFollows
  BY FirstPending DEF UnrefusedFollows
<1>2. (CollabInv /\ CollabInv' /\ NumbersInv /\ AcceptedInv /\ OnceInv /\ OnceInv'
       /\ PendingInv /\ [CollabNext]_vars) => PendingInv'
  BY PendingStep
<1> QED BY <1>1, <1>2, PendingStart, CollabInvariant, NumbersInvariant, CollabOnce, PTL
        DEF CollabSpec
=============================================================================
