--------------------------- MODULE HistoryProofs ---------------------------
(***************************************************************************)
(* Proofs about the undo and redo history of a session, for any elements,  *)
(* properties, texts and numbers of gestures, edits and lost connections.  *)
(*                                                                         *)
(* The first part is about the stacks and the restoration under way.  The  *)
(* second is about elements that are gone.  From the replica over the      *)
(* documents on their way to the room's document an element does not come  *)
(* back; what may bring it back later is a key of it: an identifier still  *)
(* fresh, a step whose undoing or redoing creates it, a creation the room  *)
(* has not accepted.  It has at most one, and none while anybody sees it   *)
(* or when another participant removed it.                                 *)
(***************************************************************************)
EXTENDS History, SequenceTheorems, TLAPS

Commands ==
  [op : {"create"}, e : Elements, color : Colors, text : Contents]
  \cup [op : {"update"}, e : Elements, color : Colors, text : {None}]
  \cup [op : {"delete"}, e : Elements, color : {None}, text : {None}]
Proposals == [id : 1 .. MaxActs, batch : SUBSET Commands]
Answers == [kind : {"commit", "conflict"}, id : 0 .. MaxActs, doc : Docs]
StructureSteps == [kind : {"structure"}, e : {None}, before : Docs, after : Docs, made : Nat]
TextSteps ==
  [kind : {"text"}, e : Elements, before : Contents, after : Contents, made : Nat]
Steps == StructureSteps \cup TextSteps
Restorations == [id : 1 .. MaxActs, step : Steps, back : BOOLEAN, superseded : BOOLEAN]

DocumentTypes ==
  /\ room \in Docs /\ replica \in Docs
  /\ waiting \in Seq(Proposals) /\ up \in Seq(Proposals) /\ down \in Seq(Answers)
  /\ acts \in 0 .. MaxActs
StackTypes ==
  /\ undo \in Seq(Steps) /\ redo \in Seq(Steps)
  /\ pending \in Restorations \cup {None}
  /\ openText \in Elements \cup {None}

\* The open field is that of the latest step to undo.
OpenIsLast ==
  openText # None =>
    undo # <<>> /\ undo[Len(undo)] \in TextSteps /\ undo[Len(undo)].e = openText

\* The steps to undo grow later, the steps to redo earlier, and the restoration under
\* way is between them unless a new step superseded it and took the place of the latter.
StacksInOrder(u, r) ==
  /\ \A i, j \in 1 .. Len(u) : i < j => u[i].made < u[j].made
  /\ \A i, j \in 1 .. Len(r) : i < j => r[j].made < r[i].made
  /\ \A i \in 1 .. Len(u), j \in 1 .. Len(r) : u[i].made < r[j].made
Between(u, step, r) ==
  /\ \A i \in 1 .. Len(u) : u[i].made < step.made
  /\ \A j \in 1 .. Len(r) : step.made < r[j].made
InOrder ==
  /\ StacksInOrder(undo, redo)
  /\ pending # None =>
       IF pending.superseded THEN redo = <<>> ELSE Between(undo, pending.step, redo)

-----------------------------------------------------------------------------
\* Documents, batches and steps

\* A document has a record, or nothing, for every element.
LEMMA DocsAreRecords == Docs = [Elements -> Records \cup {None}]
  BY DEF Docs

\* An executable batch leads from a document to a document.
LEMMA ExecutedDocument ==
  ASSUME NEW doc \in Docs, NEW batch \in SUBSET Commands, NEW id \in 0 .. MaxActs,
         Executable(doc, batch)
  PROVE  Executed(doc, batch, id) \in Docs
  <1>1. ASSUME NEW e \in Elements, NEW c \in batch, c.e = e
        PROVE  Outcome(doc[e], c, id) \in Records \cup {None}
    <2>1. CASE c.op = "create"
      <3>1. c.color \in Colors /\ c.text \in Contents
        BY <2>1 DEF Commands
      <3>. QED
        BY <2>1, <3>1 DEF Outcome, Records
    <2>2. CASE c.op = "update"
      <3>1. c.color \in Colors /\ doc[e] # None
        BY <1>1, <2>2 DEF Commands, Executable
      <3>2. doc[e] \in Records
        BY <3>1, DocsAreRecords
      <3>. QED
        BY <2>2, <3>1, <3>2 DEF Outcome, Records
    <2>3. CASE c.op = "delete"
      BY <2>3 DEF Outcome
    <2>. QED
      BY <2>1, <2>2, <2>3 DEF Commands
  <1>2. ASSUME NEW e \in Elements
        PROVE  (IF \E c \in batch : c.e = e
                THEN Outcome(doc[e], CHOOSE c \in batch : c.e = e, id) ELSE doc[e])
               \in Records \cup {None}
    <2>1. CASE \E c \in batch : c.e = e
      <3>. DEFINE c == CHOOSE c \in batch : c.e = e
      <3>1. c \in batch /\ c.e = e
        BY <2>1
      <3>. QED
        BY <1>1, <2>1, <3>1
    <2>2. CASE ~ \E c \in batch : c.e = e
      BY <2>2, DocsAreRecords
    <2>. QED
      BY <2>1, <2>2
  <1>. QED
    BY <1>2, DocsAreRecords DEF Executed

\* What leads from one document to another is a batch of commands.
LEMMA RestorationBatch ==
  ASSUME NEW from \in Docs, NEW to \in Docs, NEW now \in Docs
  PROVE  RestoreHistoryStep(from, to, now) \in SUBSET Commands
  <1>1. \A e \in Elements : to[e] # None => to[e] \in Records
    BY DocsAreRecords
  <1>2. \A e \in Elements : to[e] # None => Created(e, to[e]) \in Commands
    BY <1>1 DEF Created, Commands, Records
  <1>3. \A e \in Elements : to[e] # None => Recolored(e, to[e].color) \in Commands
    BY <1>1 DEF Recolored, Commands, Records
  <1>4. \A e \in Elements : Deleted(e) \in Commands
    BY DEF Deleted, Commands
  <1>. QED
    BY <1>2, <1>3, <1>4 DEF RestoreHistoryStep

\* What the room commits, with the texts of the replica, is a document.
LEMMA IntegratedDocument ==
  ASSUME replica \in Docs, NEW doc \in Docs
  PROVE  Integrated(doc) \in Docs
  <1>1. ASSUME NEW e \in Elements, doc[e] # None, replica[e] # None
        PROVE  [doc[e] EXCEPT !.text = replica[e].text] \in Records
    <2>1. doc[e] \in Records /\ replica[e] \in Records
      BY <1>1, DocsAreRecords
    <2>. QED
      BY <2>1 DEF Records
  <1>. QED
    BY <1>1, DocsAreRecords DEF Integrated

\* The text of an element is another one.
LEMMA TextReplaced ==
  ASSUME replica \in Docs, NEW e \in Elements, replica[e] # None, NEW v \in Contents
  PROVE  [replica EXCEPT ![e].text = v] \in Docs
  <1>1. replica[e] \in Records
    BY DocsAreRecords
  <1>2. [replica[e] EXCEPT !.text = v] \in Records
    BY <1>1 DEF Records
  <1>. QED
    BY <1>2, DocsAreRecords

\* The restoration of a structural step is a batch of commands.
LEMMA RestoredBatch ==
  ASSUME NEW step \in StructureSteps, NEW back \in BOOLEAN, replica \in Docs
  PROVE  Restoration(step, back, replica) \in SUBSET Commands
  <1>1. Goal(step, ~back) \in Docs /\ Goal(step, back) \in Docs
    BY DEF Goal, StructureSteps
  <1>. QED
    BY <1>1, RestorationBatch DEF Restoration

\* A sequence without one of its elements is a sequence of the others.
LEMMA Removed ==
  ASSUME NEW S, NEW s \in Seq(S), NEW i \in 1 .. Len(s)
  PROVE  /\ RemoveAt(s, i) \in Seq(S)
         /\ \A j \in 1 .. Len(s) : j # i => \E k \in 1 .. Len(RemoveAt(s, i)) :
              RemoveAt(s, i)[k] = s[j]
         /\ RemoveAt(s, i) # s
  <1>. DEFINE head == SubSeq(s, 1, i - 1)
              tail == SubSeq(s, i + 1, Len(s))
  <1>1. Len(s) \in Nat /\ i \in Nat
    BY LenProperties
  <1>2. /\ head \in Seq(S) /\ Len(head) = i - 1
        /\ \A k \in 1 .. i - 1 : head[k] = s[k]
    BY <1>1
  <1>3. /\ tail \in Seq(S) /\ Len(tail) = Len(s) - i
        /\ \A k \in 1 .. Len(s) - i : tail[k] = s[k + i]
    BY <1>1
  <1>4. RemoveAt(s, i) = head \o tail
    BY DEF RemoveAt
  <1>. HIDE DEF head, tail
  <1>. DEFINE n == i - 1
              rest == head \o tail
  <1>5. n \in Nat /\ i = n + 1 /\ n < Len(s)
    BY <1>1
  <1>6. /\ rest \in Seq(S) /\ Len(rest) = Len(head) + Len(tail)
        /\ \A k \in 1 .. Len(head) + Len(tail) :
             rest[k] = IF k <= Len(head) THEN head[k] ELSE tail[k - Len(head)]
    BY <1>2, <1>3, ConcatProperties
  <1>. HIDE DEF n, rest
  <1>7. Len(head) = n /\ Len(tail) = Len(s) - n - 1
    BY <1>2, <1>3, <1>5
  <1>8. Len(rest) = Len(s) - 1
    BY <1>1, <1>5, <1>6, <1>7
  <1>9. ASSUME NEW j \in 1 .. Len(s), j # i
        PROVE  \E k \in 1 .. Len(rest) : rest[k] = s[j]
    <2>1. CASE j < i
      <3>1. j \in 1 .. n /\ j \in 1 .. Len(head) + Len(tail) /\ j <= Len(head)
        BY <1>1, <1>5, <1>7, <2>1
      <3>2. rest[j] = head[j] /\ head[j] = s[j]
        BY <1>2, <1>5, <1>6, <3>1
      <3>. QED
        BY <1>6, <3>1, <3>2
    <2>2. CASE j > i
      <3>. DEFINE k == j - 1
      <3>1. /\ k \in 1 .. Len(head) + Len(tail) /\ ~(k <= Len(head))
            /\ k - Len(head) = j - i /\ j - i \in 1 .. Len(s) - i /\ (j - i) + i = j
        BY <1>1, <1>5, <1>7, <2>2
      <3>2. rest[k] = tail[j - i]
        BY <1>6, <3>1
      <3>3. tail[j - i] = s[j]
        BY <1>3, <3>1
      <3>. QED
        BY <1>6, <3>1, <3>2, <3>3
    <2>. QED
      BY <1>1, <1>9, <2>1, <2>2
  <1>10. rest # s
    BY <1>1, <1>8
  <1>11. RemoveAt(s, i) = rest
    BY <1>4 DEF rest
  <1>. QED
    BY <1>6, <1>9, <1>10, <1>11

-----------------------------------------------------------------------------
\* Orders

\* Steps have times.
LEMMA StepTimes == \A step \in Steps : step.made \in Nat
  BY DEF Steps, StructureSteps, TextSteps

\* The time of a new step is after those of all the steps there are.
LEMMA NowIsLater ==
  ASSUME StackTypes, InOrder
  PROVE  /\ Now \in Nat
         /\ \A i \in 1 .. Len(undo) : undo[i].made < Now
         /\ \A j \in 1 .. Len(redo) : redo[j].made < Now
         /\ pending # None => pending.step.made < Now
  <1>. DEFINE a == IF undo = <<>> THEN 0 ELSE undo[Len(undo)].made
              b == IF redo = <<>> THEN 0 ELSE redo[1].made
              c == IF pending = None THEN 0 ELSE pending.step.made
              Latest(t) == t \in Times \cup {0} /\ \A u \in Times : u <= t
  <1>1. /\ \A i \in 1 .. Len(undo) : undo[i].made \in Nat
        /\ \A j \in 1 .. Len(redo) : redo[j].made \in Nat
        /\ pending # None => pending.step.made \in Nat
        /\ DOMAIN undo = 1 .. Len(undo) /\ DOMAIN redo = 1 .. Len(redo)
    BY StepTimes DEF StackTypes, Restorations
  <1>2. Len(undo) \in Nat /\ Len(redo) \in Nat
    BY LenProperties DEF StackTypes
  <1>3. /\ a \in Nat /\ a \in Times \cup {0}
        /\ \A i \in 1 .. Len(undo) : undo[i].made <= a
    <2>1. CASE undo = <<>>
      BY <2>1
    <2>2. CASE undo # <<>>
      <3>1. Len(undo) \in 1 .. Len(undo)
        BY <1>2, <2>2, EmptySeq DEF StackTypes
      <3>2. \A i \in 1 .. Len(undo) : i = Len(undo) \/ i < Len(undo)
        BY <1>2
      <3>. DEFINE top == Len(undo)
      <3>. HIDE DEF top
      <3>3. \A i \in 1 .. Len(undo) : undo[i].made <= undo[Len(undo)].made
        <4>1. \A i \in 1 .. Len(undo) : i < top => undo[i].made < undo[top].made
          BY <3>1 DEF InOrder, StacksInOrder, top
        <4>2. \A i \in 1 .. Len(undo) : i = top \/ i < top
          BY <3>2 DEF top
        <4>3. undo[top].made \in Nat
          BY <1>1, <3>1 DEF top
        <4>4. \A i \in 1 .. Len(undo) : undo[i].made <= undo[top].made
          BY <1>1, <4>1, <4>2, <4>3
        <4>. QED
          BY <4>4 DEF top
      <3>4. a = undo[Len(undo)].made
        BY <2>2
      <3>5. undo[Len(undo)].made \in Times
        BY <1>1, <3>1 DEF Times
      <3>. QED
        BY <1>1, <3>1, <3>3, <3>4, <3>5
    <2>. QED
      BY <2>1, <2>2
  <1>4. /\ b \in Nat /\ b \in Times \cup {0}
        /\ \A j \in 1 .. Len(redo) : redo[j].made <= b
    <2>1. CASE redo = <<>>
      BY <2>1
    <2>2. CASE redo # <<>>
      <3>1. 1 \in 1 .. Len(redo)
        BY <1>2, <2>2, EmptySeq DEF StackTypes
      <3>2. \A j \in 1 .. Len(redo) : j = 1 \/ 1 < j
        BY <1>2
      <3>3. \A j \in 1 .. Len(redo) : redo[j].made <= redo[1].made
        BY <1>1, <3>1, <3>2 DEF InOrder, StacksInOrder
      <3>4. b = redo[1].made
        BY <2>2
      <3>5. redo[1].made \in Times
        BY <1>1, <3>1 DEF Times
      <3>. QED
        BY <1>1, <3>1, <3>3, <3>4, <3>5
    <2>. QED
      BY <2>1, <2>2
  <1>5. c \in Nat /\ c \in Times \cup {0}
    BY <1>1 DEF Times
  <1>. HIDE DEF a, b
  <1>6. \A u \in Times : u \in Nat /\ (u <= a \/ u <= b \/ u <= c)
    BY <1>1, <1>3, <1>4, <1>5 DEF Times
  <1>. HIDE DEF c
  <1>7. \E t : Latest(t)
    <2>1. \/ b <= a /\ c <= a
          \/ a <= b /\ c <= b
          \/ a <= c /\ b <= c
      BY <1>3, <1>4, <1>5
    <2>2. CASE b <= a /\ c <= a
      <3>1. \A u \in Times : u <= a
        BY <1>3, <1>4, <1>5, <1>6, <2>2
      <3>. QED
        BY <1>3, <3>1
    <2>3. CASE a <= b /\ c <= b
      <3>1. \A u \in Times : u <= b
        BY <1>3, <1>4, <1>5, <1>6, <2>3
      <3>. QED
        BY <1>4, <3>1
    <2>4. CASE a <= c /\ b <= c
      <3>1. \A u \in Times : u <= c
        BY <1>3, <1>4, <1>5, <1>6, <2>4
      <3>. QED
        BY <1>5, <3>1
    <2>. QED
      BY <2>1, <2>2, <2>3, <2>4
  <1>. DEFINE latest == CHOOSE t \in Times \cup {0} : \A u \in Times : u <= t
  <1>8. latest \in Times \cup {0} /\ \A u \in Times : u <= latest
    BY <1>7
  <1>9. Now = 1 + latest
    BY DEF Now
  <1>. HIDE DEF latest
  <1>10. latest \in Nat
    BY <1>6, <1>8
  <1>11. Now \in Nat /\ \A u \in Times : u < Now
    BY <1>6, <1>8, <1>9, <1>10
  <1>12. /\ \A i \in 1 .. Len(undo) : undo[i].made \in Times
         /\ \A j \in 1 .. Len(redo) : redo[j].made \in Times
         /\ pending # None => pending.step.made \in Times
    BY <1>1 DEF Times
  <1>. QED
    BY <1>11, <1>12

\* A step between the stacks may be put on either.
LEMMA Pushed ==
  ASSUME NEW u \in Seq(Steps), NEW r \in Seq(Steps), NEW step \in Steps,
         StacksInOrder(u, r), Between(u, step, r)
  PROVE  /\ Append(u, step) \in Seq(Steps) /\ Append(r, step) \in Seq(Steps)
         /\ StacksInOrder(Append(u, step), r)
         /\ StacksInOrder(u, Append(r, step))
  <1>. DEFINE v == Append(u, step)
              q == Append(r, step)
  <1>1. /\ v \in Seq(Steps) /\ Len(v) = Len(u) + 1 /\ Len(u) \in Nat
        /\ \A i \in 1 .. Len(u) : v[i] = u[i]
        /\ v[Len(u) + 1] = step
    BY AppendProperties, LenProperties
  <1>2. /\ q \in Seq(Steps) /\ Len(q) = Len(r) + 1 /\ Len(r) \in Nat
        /\ \A i \in 1 .. Len(r) : q[i] = r[i]
        /\ q[Len(r) + 1] = step
    BY AppendProperties, LenProperties
  <1>. HIDE DEF v, q
  <1>3. StacksInOrder(v, r)
    <2>1. \A i \in 1 .. Len(v) : i \in 1 .. Len(u) \/ i = Len(u) + 1
      BY <1>1
    <2>2. \A i, j \in 1 .. Len(v) : i < j => i \in 1 .. Len(u)
      BY <1>1
    <2>3. \A i, j \in 1 .. Len(v) : i < j => v[i].made < v[j].made
      BY <1>1, <2>1, <2>2 DEF StacksInOrder, Between
    <2>4. \A i \in 1 .. Len(v), j \in 1 .. Len(r) : v[i].made < r[j].made
      BY <1>1, <2>1 DEF StacksInOrder, Between
    <2>. QED
      BY <2>3, <2>4 DEF StacksInOrder
  <1>4. StacksInOrder(u, q)
    <2>1. \A i \in 1 .. Len(q) : i \in 1 .. Len(r) \/ i = Len(r) + 1
      BY <1>2
    <2>2. \A i, j \in 1 .. Len(q) : i < j => i \in 1 .. Len(r)
      BY <1>2
    <2>3. \A i, j \in 1 .. Len(q) : i < j => q[j].made < q[i].made
      BY <1>2, <2>1, <2>2 DEF StacksInOrder, Between
    <2>4. \A i \in 1 .. Len(u), j \in 1 .. Len(q) : u[i].made < q[j].made
      BY <1>2, <2>1 DEF StacksInOrder, Between
    <2>. QED
      BY <2>3, <2>4 DEF StacksInOrder
  <1>. QED
    BY <1>1, <1>2, <1>3, <1>4 DEF v, q

\* A step taken from a stack, with those above it, is between what is left.
LEMMA Popped ==
  ASSUME NEW u \in Seq(Steps), NEW r \in Seq(Steps), StacksInOrder(u, r)
  PROVE  /\ \A n \in 1 .. Len(u) :
              /\ SubSeq(u, 1, n - 1) \in Seq(Steps) /\ u[n] \in Steps
              /\ StacksInOrder(SubSeq(u, 1, n - 1), r)
              /\ Between(SubSeq(u, 1, n - 1), u[n], r)
         /\ \A n \in 1 .. Len(r) :
              /\ SubSeq(r, 1, n - 1) \in Seq(Steps) /\ r[n] \in Steps
              /\ StacksInOrder(u, SubSeq(r, 1, n - 1))
              /\ Between(u, r[n], SubSeq(r, 1, n - 1))
         /\ StacksInOrder(<<>>, r) /\ StacksInOrder(u, <<>>)
  <1>1. ASSUME NEW s \in Seq(Steps), NEW n \in 1 .. Len(s)
        PROVE  /\ SubSeq(s, 1, n - 1) \in Seq(Steps) /\ s[n] \in Steps
               /\ Len(SubSeq(s, 1, n - 1)) = n - 1
               /\ \A i \in 1 .. n - 1 : SubSeq(s, 1, n - 1)[i] = s[i]
               /\ \A i \in 1 .. n - 1 : i \in 1 .. Len(s) /\ i < n
    BY LenProperties
  <1>2. ASSUME NEW n \in 1 .. Len(u)
        PROVE  /\ StacksInOrder(SubSeq(u, 1, n - 1), r)
               /\ Between(SubSeq(u, 1, n - 1), u[n], r)
    BY <1>1 DEF StacksInOrder, Between
  <1>3. ASSUME NEW n \in 1 .. Len(r)
        PROVE  /\ StacksInOrder(u, SubSeq(r, 1, n - 1))
               /\ Between(u, r[n], SubSeq(r, 1, n - 1))
    BY <1>1 DEF StacksInOrder, Between
  <1>4. StacksInOrder(<<>>, r) /\ StacksInOrder(u, <<>>)
    BY DEF StacksInOrder
  <1>. QED
    BY <1>1, <1>2, <1>3, <1>4

-----------------------------------------------------------------------------
\* Documents, batches and answers stay what they are

\* A batch is proposed with an identifier of its own.
LEMMA ProposedTypes ==
  ASSUME DocumentTypes, NEW batch \in SUBSET Commands, Act, Propose(batch)
  PROVE  /\ waiting' \in Seq(Proposals) /\ up' \in Seq(Proposals)
         /\ acts' \in 0 .. MaxActs /\ acts + 1 \in 1 .. MaxActs
         /\ waiting' = Append(waiting, [id |-> acts + 1, batch |-> batch])
  <1>1. acts + 1 \in 1 .. MaxActs /\ acts' = acts + 1
    BY HistoryAssumption DEF Act, DocumentTypes
  <1>2. acts' \in 0 .. MaxActs
    BY <1>1, HistoryAssumption
  <1>3. [id |-> acts + 1, batch |-> batch] \in Proposals
    BY <1>1 DEF Proposals
  <1>. QED
    BY <1>1, <1>2, <1>3 DEF Propose, DocumentTypes

\* The room's answer is a document on its way, or lost.
LEMMA AnsweredTypes ==
  ASSUME DocumentTypes, NEW kind \in {"commit", "conflict"}, NEW id \in 0 .. MaxActs,
         NEW doc \in Docs, Answer(kind, id, doc)
  PROVE  down' \in Seq(Answers)
  <1>1. [kind |-> kind, id |-> id, doc |-> doc] \in Answers
    BY DEF Answers
  <1>. QED
    BY <1>1 DEF Answer, DocumentTypes

\* A deletion is a batch of commands.
LEMMA DeletionBatch ==
  ASSUME NEW selection, Delete(selection)
  PROVE  \E batch \in SUBSET Commands : Dispatch(batch)
  <1>1. selection \subseteq Elements /\ Dispatch({Deleted(e) : e \in selection})
    BY DEF Delete, Present
  <1>2. {Deleted(e) : e \in selection} \in SUBSET Commands
    BY <1>1 DEF Deleted, Commands
  <1>. QED
    BY <1>1, <1>2

\* Gestures.
LEMMA DispatchTypes ==
  ASSUME DocumentTypes, NEW batch \in SUBSET Commands, Dispatch(batch)
  PROVE  DocumentTypes'
  BY ProposedTypes DEF Dispatch, roomVars, DocumentTypes

LEMMA GestureTypes ==
  ASSUME DocumentTypes, NEW e \in Elements, Create(e) \/ Recolor(e) \/ Type(e)
  PROVE  DocumentTypes'
  <1>1. ASSUME NEW batch \in SUBSET Commands, Dispatch(batch) PROVE DocumentTypes'
    BY <1>1, DispatchTypes
  <1>2. CASE Create(e)
    <2>1. PICK k \in Colors : Dispatch({Created(e, [color |-> k, text |-> Blank])})
      BY <1>2 DEF Create
    <2>2. Created(e, [color |-> k, text |-> Blank]) \in Commands
      BY HistoryAssumption DEF Created, Commands
    <2>. QED
      BY <1>1, <2>1, <2>2
  <1>3. CASE Recolor(e)
    <2>1. PICK k \in Colors : Dispatch({Recolored(e, k)})
      BY <1>3 DEF Recolor
    <2>2. Recolored(e, k) \in Commands
      BY DEF Recolored, Commands
    <2>. QED
      BY <1>1, <2>1, <2>2
  <1>4. CASE Type(e)
    <2>1. PICK v \in Contents : replica' = [replica EXCEPT ![e].text = v]
      BY <1>4 DEF Type
    <2>2. replica[e] # None /\ replica \in Docs
      BY <1>4 DEF Type, Present, DocumentTypes
    <2>3. replica' \in Docs
      BY <2>1, <2>2, TextReplaced
    <2>4. acts' \in 0 .. MaxActs
      BY <1>4, HistoryAssumption DEF Type, Act, DocumentTypes
    <2>. QED
      BY <1>4, <2>3, <2>4 DEF Type, roomVars, DocumentTypes
  <1>. QED
    BY <1>2, <1>3, <1>4

\* What a restoration takes: nothing, or a step that is not skipped, with those below it.
LEMMA RestoreCases ==
  ASSUME StackTypes, NEW back \in BOOLEAN, Restore(back)
  PROVE  LET source == IF back THEN undo ELSE redo
             target == IF back THEN redo ELSE undo IN
         /\ source \in Seq(Steps) /\ target \in Seq(Steps)
         /\ pending = None /\ Act /\ openText' = None
         /\ UNCHANGED <<roomVars, down>>
         /\ \/ /\ Stacks(back, <<>>, target)
               /\ UNCHANGED <<pending, replica, waiting, up>>
            \/ \E last \in 1 .. Len(source) :
                 /\ ~Skipped(source[last], back)
                 /\ Crosses(source[last], SubSeq(source, 1, last - 1), target, back)
  <1>. DEFINE source == IF back THEN undo ELSE redo
              target == IF back THEN redo ELSE undo
              left == {i \in DOMAIN source : ~Skipped(source[i], back)}
  <1>1. source \in Seq(Steps) /\ target \in Seq(Steps) /\ DOMAIN source = 1 .. Len(source)
    BY DEF StackTypes
  <1>2. /\ pending = None /\ Act /\ openText' = None
        /\ UNCHANGED <<roomVars, down>>
    BY DEF Restore
  <1>3. \/ /\ Stacks(back, <<>>, target)
           /\ UNCHANGED <<pending, replica, waiting, up>>
        \/ \E last \in left :
             Crosses(source[last], SubSeq(source, 1, last - 1), target, back)
    BY DEF Restore
  <1>. HIDE DEF source, target
  <1>4. \A last \in left : last \in 1 .. Len(source) /\ ~Skipped(source[last], back)
    BY <1>1
  <1>. QED
    BY <1>1, <1>2, <1>3, <1>4 DEF source, target

\* A step that is crossed.
LEMMA CrossesTypes ==
  ASSUME DocumentTypes, NEW back \in BOOLEAN, NEW step \in Steps, NEW below, NEW target,
         Act, UNCHANGED <<roomVars, down>>, ~Skipped(step, back),
         Crosses(step, below, target, back)
  PROVE  DocumentTypes'
  <1>1. acts' \in 0 .. MaxActs
    BY HistoryAssumption DEF Act, DocumentTypes
  <1>2. CASE step.kind = "text"
    <2>1. step \in TextSteps
      BY <1>2 DEF Steps, StructureSteps
    <2>2. step.e \in Elements /\ Goal(step, back) \in Contents
      BY <2>1 DEF TextSteps, Goal
    <2>3. replica[step.e] # None
      BY <1>2 DEF Skipped
    <2>4. [replica EXCEPT ![step.e].text = Goal(step, back)] \in Docs
      BY <2>2, <2>3, TextReplaced DEF DocumentTypes
    <2>. QED
      BY <1>1, <1>2, <2>4 DEF Crosses, roomVars, DocumentTypes
  <1>3. CASE step.kind = "structure" /\ ~ready
    BY <1>1, <1>3 DEF Crosses, roomVars, DocumentTypes
  <1>4. CASE step.kind = "structure" /\ ready
    <2>1. step \in StructureSteps
      BY <1>4 DEF Steps, TextSteps
    <2>2. Restoration(step, back, replica) \in SUBSET Commands
      BY <2>1, RestoredBatch DEF DocumentTypes
    <2>3. Propose(Restoration(step, back, replica)) /\ replica' = replica
      BY <1>4 DEF Crosses
    <2>. QED
      BY <2>2, <2>3, ProposedTypes DEF roomVars, DocumentTypes
  <1>. QED
    BY <1>2, <1>3, <1>4 DEF Crosses

\* An undo or a redo.
LEMMA RestoreTypes ==
  ASSUME DocumentTypes, StackTypes, NEW back \in BOOLEAN, Restore(back)
  PROVE  DocumentTypes'
  <1>. DEFINE source == IF back THEN undo ELSE redo
              target == IF back THEN redo ELSE undo
  <1>1. /\ source \in Seq(Steps) /\ Act /\ UNCHANGED <<roomVars, down>>
        /\ \/ UNCHANGED <<replica, waiting, up>>
           \/ \E last \in 1 .. Len(source) :
                /\ ~Skipped(source[last], back)
                /\ Crosses(source[last], SubSeq(source, 1, last - 1), target, back)
    BY RestoreCases
  <1>. HIDE DEF source, target
  <1>2. CASE UNCHANGED <<replica, waiting, up>>
    <2>1. acts' \in 0 .. MaxActs
      BY <1>1, HistoryAssumption DEF Act, DocumentTypes
    <2>. QED
      BY <1>1, <1>2, <2>1 DEF roomVars, DocumentTypes
  <1>3. ASSUME NEW last \in 1 .. Len(source), ~Skipped(source[last], back),
               Crosses(source[last], SubSeq(source, 1, last - 1), target, back)
        PROVE  DocumentTypes'
    <2>1. source[last] \in Steps
      BY <1>1
    <2>. QED
      BY <1>1, <1>3, <2>1, CrossesTypes
  <1>. QED
    BY <1>1, <1>2, <1>3

\* The room.
LEMMA RoomTypes ==
  ASSUME DocumentTypes, RoomDecides \/ OtherEdits
  PROVE  DocumentTypes'
  <1>1. CASE RoomDecides
    <2>. DEFINE proposal == Head(up)
    <2>1. /\ proposal \in Proposals /\ up' \in Seq(Proposals)
          /\ replica' = replica /\ waiting' = waiting /\ acts' = acts
      BY <1>1, HeadTailProperties DEF RoomDecides, DocumentTypes
    <2>2. /\ proposal.id \in 0 .. MaxActs /\ proposal.batch \in SUBSET Commands
      BY <2>1, HistoryAssumption DEF Proposals
    <2>3. \/ room' = room /\ Answer("commit", proposal.id, room)
          \/ room' = room /\ down' = down
          \/ /\ Executable(room, proposal.batch)
             /\ room' = Executed(room, proposal.batch, proposal.id)
             /\ Answer("commit", proposal.id, room')
          \/ room' = room /\ Answer("conflict", proposal.id, room)
      BY <1>1 DEF RoomDecides
    <2>. HIDE DEF proposal
    <2>4. room' \in Docs
      BY <2>2, <2>3, ExecutedDocument DEF DocumentTypes
    <2>5. down' \in Seq(Answers)
      BY <2>2, <2>3, <2>4, AnsweredTypes DEF DocumentTypes
    <2>. QED
      BY <2>1, <2>4, <2>5 DEF DocumentTypes
  <1>2. CASE OtherEdits
    <2>1. PICK e \in Elements, batch \in SUBSET Commands :
            /\ room[e] # None /\ room' = Executed(room, batch, 0)
            /\ \A c \in batch : c.e = e /\ c.op # "create"
      <3>1. PICK e \in Elements :
              /\ room[e] # None
              /\ \/ \E k \in Colors : room' = Executed(room, {Recolored(e, k)}, 0)
                 \/ room' = Executed(room, {Deleted(e)}, 0)
        BY <1>2 DEF OtherEdits
      <3>2. \A k \in Colors : /\ Recolored(e, k) \in Commands
                              /\ Recolored(e, k).e = e /\ Recolored(e, k).op # "create"
        BY DEF Recolored, Commands
      <3>3. Deleted(e) \in Commands /\ Deleted(e).e = e /\ Deleted(e).op # "create"
        BY DEF Deleted, Commands
      <3>4. PICK c \in Commands :
              room' = Executed(room, {c}, 0) /\ c.e = e /\ c.op # "create"
        BY <3>1, <3>2, <3>3
      <3>5. {c} \in SUBSET Commands /\ \A d \in {c} : d.e = e /\ d.op # "create"
        BY <3>4
      <3>. QED
        BY <3>1, <3>4, <3>5
    <2>2. Executable(room, batch) /\ 0 \in 0 .. MaxActs
      BY <2>1, HistoryAssumption DEF Executable
    <2>3. room' \in Docs
      BY <2>1, <2>2, ExecutedDocument DEF DocumentTypes
    <2>4. down' \in Seq(Answers)
      BY <1>2, <2>2, <2>3, AnsweredTypes DEF OtherEdits
    <2>. QED
      BY <1>2, <2>3, <2>4 DEF OtherEdits, DocumentTypes
  <1>. QED
    BY <1>1, <1>2

\* An answer is taken, and the proposal it decides.
LEMMA ReceivedTypes ==
  ASSUME DocumentTypes, NEW kind \in {"commit", "conflict"}, Received(kind)
  PROVE  /\ Head(down) \in Answers /\ down' \in Seq(Answers) /\ waiting' \in Seq(Proposals)
         /\ \A j \in 1 .. Len(waiting) : waiting[j].id # Head(down).id =>
              \E k \in 1 .. Len(waiting') : waiting'[k] = waiting[j]
  <1>1. Head(down) \in Answers /\ down' \in Seq(Answers)
    BY HeadTailProperties DEF Received, DocumentTypes
  <1>2. \/ waiting' = waiting
        \/ \E i \in 1 .. Len(waiting) :
             waiting[i].id = Head(down).id /\ waiting' = RemoveAt(waiting, i)
    BY DEF Received, DocumentTypes
  <1>3. ASSUME NEW i \in 1 .. Len(waiting),
               waiting[i].id = Head(down).id, waiting' = RemoveAt(waiting, i)
        PROVE  /\ waiting' \in Seq(Proposals)
               /\ \A j \in 1 .. Len(waiting) : waiting[j].id # Head(down).id =>
                    \E k \in 1 .. Len(waiting') : waiting'[k] = waiting[j]
    <2>1. waiting \in Seq(Proposals)
      BY DEF DocumentTypes
    <2>. QED
      BY <1>3, <2>1, Removed
  <1>4. CASE waiting' = waiting
    <2>1. \A j \in 1 .. Len(waiting) : j \in 1 .. Len(waiting') /\ waiting'[j] = waiting[j]
      BY <1>4
    <2>2. waiting' \in Seq(Proposals)
      BY <1>4 DEF DocumentTypes
    <2>. QED
      BY <1>1, <2>1, <2>2
  <1>. QED
    BY <1>1, <1>2, <1>3, <1>4

\* The connection.
LEMMA ConnectionTypes ==
  ASSUME DocumentTypes,
         Close \/ Lose \/ Synchronize \/ ReceiveCommit \/ ReceiveConflict
  PROVE  DocumentTypes'
  <1>1. CASE Close \/ Lose
    <2>1. <<>> \in Seq(Proposals) /\ <<>> \in Seq(Answers)
      OBVIOUS
    <2>2. /\ UNCHANGED <<room, replica, acts>>
          /\ up' = <<>> /\ down' = <<>> /\ (waiting' = <<>> \/ waiting' = waiting)
      BY <1>1 DEF Close, Lose, roomVars
    <2>. QED
      BY <2>1, <2>2 DEF DocumentTypes
  <1>2. CASE Synchronize
    <2>1. Integrated(room) \in Docs
      BY IntegratedDocument DEF DocumentTypes
    <2>. QED
      BY <1>2, <2>1 DEF Synchronize, DocumentTypes
  <1>3. CASE ReceiveCommit
    <2>1. /\ Received("commit") /\ replica' = Integrated(Head(down).doc)
          /\ UNCHANGED <<room, up, acts>>
      BY <1>3 DEF ReceiveCommit, roomVars
    <2>2. Head(down).doc \in Docs
      BY <2>1, ReceivedTypes DEF Answers
    <2>3. replica' \in Docs
      BY <2>1, <2>2, IntegratedDocument DEF DocumentTypes
    <2>. QED
      BY <2>1, <2>3, ReceivedTypes DEF DocumentTypes
  <1>4. CASE ReceiveConflict
    BY <1>4, ReceivedTypes DEF ReceiveConflict, roomVars, DocumentTypes
  <1>. QED
    BY <1>1, <1>2, <1>3, <1>4

-----------------------------------------------------------------------------
\* The stacks

StackInv == StackTypes /\ OpenIsLast /\ InOrder

\* A step is recorded: it is the latest, and nothing may be redone.
LEMMA RecordKeeps ==
  ASSUME StackTypes, InOrder, NEW step \in Steps, step.made = Now, Record(step)
  PROVE  /\ undo' \in Seq(Steps) /\ redo' \in Seq(Steps)
         /\ pending' \in Restorations \cup {None}
         /\ InOrder'
         /\ undo' # <<>> /\ undo'[Len(undo')] = step
  <1>1. undo' = Append(undo, step) /\ redo' = <<>> /\ pending' = Superseded(pending)
    BY DEF Record
  <1>2. undo \in Seq(Steps) /\ redo \in Seq(Steps) /\ StacksInOrder(undo, redo)
    BY DEF StackTypes, InOrder
  <1>3. StacksInOrder(undo, <<>>)
    BY <1>2, Popped
  <1>4. Between(undo, step, <<>>)
    BY NowIsLater DEF Between
  <1>5. StacksInOrder(undo', redo')
    <2>1. <<>> \in Seq(Steps)
      OBVIOUS
    <2>. QED
      BY <1>1, <1>2, <1>3, <1>4, <2>1, Pushed
  <1>6. /\ undo' \in Seq(Steps) /\ redo' \in Seq(Steps)
        /\ undo' # <<>> /\ undo'[Len(undo')] = step
    BY <1>1, <1>2, AppendProperties
  <1>7. pending = None \/ pending \in Restorations
    BY DEF StackTypes
  <1>8. CASE pending = None
    BY <1>1, <1>5, <1>6, <1>8 DEF Superseded, InOrder
  <1>9. CASE pending # None
    <2>. DEFINE next == [pending EXCEPT !.superseded = TRUE]
    <2>1. next \in Restorations
      BY <1>7, <1>9 DEF Restorations
    <2>2. next.superseded
      BY <1>7, <1>9 DEF Restorations
    <2>3. pending' = next
      BY <1>1, <1>9 DEF Superseded
    <2>. HIDE DEF next
    <2>. QED
      BY <1>1, <1>5, <1>6, <2>1, <2>2, <2>3 DEF InOrder
  <1>. QED
    BY <1>8, <1>9

\* Text typed into the open field joins the latest step, any other makes one.
LEMMA TypeStacks ==
  ASSUME DocumentTypes, StackInv, NEW e \in Elements, Type(e)
  PROVE  StackInv'
  <1>1. PICK v \in Contents :
          /\ IF openText = e
             THEN /\ undo' = [undo EXCEPT ![Len(undo)].after = v]
                  /\ UNCHANGED <<redo, pending>>
             ELSE Record(TextStep(e, replica[e].text, v, Now))
          /\ openText' = e
    BY DEF Type
  <1>2. e # None
    BY HistoryAssumption
  <1>3. CASE openText = e
    <2>. DEFINE n == Len(undo)
                next == [undo[n] EXCEPT !.after = v]
    <2>1. /\ undo \in Seq(Steps) /\ n \in Nat /\ undo # <<>>
          /\ undo[n] \in TextSteps /\ undo[n].e = e
      BY <1>2, <1>3, LenProperties DEF StackInv, StackTypes, OpenIsLast
    <2>2. n \in 1 .. n
      BY <2>1, EmptySeq
    <2>3. next \in TextSteps /\ next.e = e /\ next.made = undo[n].made
      BY <2>1 DEF TextSteps
    <2>4. undo' = [undo EXCEPT ![n] = next]
      BY <1>1, <1>3
    <2>. HIDE DEF n, next
    <2>5. /\ undo' \in Seq(Steps) /\ Len(undo') = n
          /\ \A i \in 1 .. n : undo'[i].made = undo[i].made
          /\ undo'[n] = next
      <3>1. next \in Steps /\ Len(undo) = n
        BY <2>3 DEF Steps, n
      <3>2. undo' \in Seq(Steps) /\ Len(undo') = n
        BY <2>1, <2>2, <2>4, <3>1, ExceptSeq
      <3>3. \A i \in 1 .. n : undo'[i] = IF i = n THEN next ELSE undo[i]
        BY <2>1, <2>2, <2>4, <3>1, ExceptSeq
      <3>. QED
        BY <2>2, <2>3, <3>2, <3>3
    <2>6. undo' # <<>>
      BY <2>2, <2>5, EmptySeq
    <2>7. redo' = redo /\ pending' = pending /\ openText' = e
      BY <1>1, <1>3
    <2>8. StackTypes'
      BY <2>5, <2>7 DEF StackInv, StackTypes
    <2>9. OpenIsLast'
      BY <2>3, <2>5, <2>6, <2>7 DEF OpenIsLast
    <2>10. InOrder'
      <3>1. Len(undo) = n
        BY DEF n
      <3>. QED
        BY <2>5, <2>7, <3>1 DEF StackInv, InOrder, StacksInOrder, Between
    <2>. QED
      BY <2>8, <2>9, <2>10 DEF StackInv
  <1>4. CASE openText # e
    <2>. DEFINE step == TextStep(e, replica[e].text, v, Now)
    <2>1. replica[e] \in Records
      <3>1. replica[e] # None
        BY DEF Type, Present
      <3>. QED
        BY <3>1, DocsAreRecords DEF DocumentTypes
    <2>2. step \in TextSteps /\ step.e = e /\ step.made = Now
      BY <2>1, NowIsLater DEF StackInv, TextStep, TextSteps, Records
    <2>3. Record(step) /\ openText' = e
      BY <1>1, <1>4
    <2>. HIDE DEF step
    <2>4. step \in Steps
      BY <2>2 DEF Steps
    <2>5. /\ undo' \in Seq(Steps) /\ redo' \in Seq(Steps)
          /\ pending' \in Restorations \cup {None}
          /\ InOrder'
          /\ undo' # <<>> /\ undo'[Len(undo')] = step
      BY <2>2, <2>3, <2>4, RecordKeeps DEF StackInv
    <2>. QED
      BY <2>2, <2>3, <2>5 DEF StackInv, StackTypes, OpenIsLast
  <1>. QED
    BY <1>3, <1>4

\* A step is crossed: it goes to the other stack, waits between them, or stays.
LEMMA RestoreStacks ==
  ASSUME DocumentTypes, StackInv, NEW back \in BOOLEAN, Restore(back)
  PROVE  StackInv'
  <1>. DEFINE source == IF back THEN undo ELSE redo
              target == IF back THEN redo ELSE undo
  <1>1. /\ pending = None /\ Act /\ openText' = None
        /\ \/ Stacks(back, <<>>, target) /\ UNCHANGED pending
           \/ \E last \in 1 .. Len(source) :
                Crosses(source[last], SubSeq(source, 1, last - 1), target, back)
    BY RestoreCases DEF StackInv
  <1>2. undo \in Seq(Steps) /\ redo \in Seq(Steps) /\ StacksInOrder(undo, redo)
    BY DEF StackInv, StackTypes, InOrder
  <1>3. CASE Stacks(back, <<>>, target) /\ UNCHANGED pending
    <2>1. /\ undo' \in Seq(Steps) /\ redo' \in Seq(Steps)
          /\ \/ undo' = <<>> /\ redo' = redo
             \/ undo' = undo /\ redo' = <<>>
      <3>1. <<>> \in Seq(Steps)
        OBVIOUS
      <3>2. \/ undo' = <<>> /\ redo' = redo
            \/ undo' = undo /\ redo' = <<>>
        BY <1>3 DEF Stacks
      <3>. QED
        BY <1>2, <3>1, <3>2
    <2>2. StacksInOrder(undo', redo')
      BY <1>2, <2>1, Popped
    <2>. QED
      BY <1>1, <1>3, <2>1, <2>2 DEF StackInv, StackTypes, OpenIsLast, InOrder
  <1>4. ASSUME NEW last \in 1 .. Len(source),
               Crosses(source[last], SubSeq(source, 1, last - 1), target, back)
        PROVE  StackInv'
    <2>. DEFINE step == source[last]
                below == SubSeq(source, 1, last - 1)
                u == IF back THEN below ELSE undo
                r == IF back THEN redo ELSE below
    <2>1. /\ u \in Seq(Steps) /\ r \in Seq(Steps) /\ step \in Steps
          /\ StacksInOrder(u, r) /\ Between(u, step, r)
      BY <1>2, Popped
    <2>2. \/ /\ Stacks(back, below, Append(target, step)) /\ pending' = pending
          \/ /\ Stacks(back, Append(below, step), target) /\ pending' = pending
          \/ /\ Stacks(back, below, target)
             /\ pending' = [id |-> acts + 1, step |-> step, back |-> back,
                            superseded |-> FALSE]
      BY <1>4 DEF Crosses
    <2>3. \/ undo' = u /\ redo' = Append(r, step) /\ pending' = pending
          \/ undo' = Append(u, step) /\ redo' = r /\ pending' = pending
          \/ /\ undo' = u /\ redo' = r
             /\ pending' = [id |-> acts + 1, step |-> step, back |-> back,
                            superseded |-> FALSE]
      BY <2>2 DEF Stacks
    <2>. HIDE DEF step, below, u, r
    <2>4. CASE /\ pending' = pending
               /\ \/ undo' = u /\ redo' = Append(r, step)
                  \/ undo' = Append(u, step) /\ redo' = r
      <3>1. /\ undo' \in Seq(Steps) /\ redo' \in Seq(Steps)
            /\ StacksInOrder(undo', redo')
        BY <2>1, <2>4, Pushed
      <3>. QED
        BY <1>1, <2>4, <3>1 DEF StackInv, StackTypes, OpenIsLast, InOrder
    <2>5. CASE /\ undo' = u /\ redo' = r
               /\ pending' = [id |-> acts + 1, step |-> step, back |-> back,
                              superseded |-> FALSE]
      <3>1. acts + 1 \in 1 .. MaxActs
        BY <1>1, HistoryAssumption DEF Act, DocumentTypes
      <3>. DEFINE next == [id |-> acts + 1, step |-> step, back |-> back, superseded |-> FALSE]
      <3>2. next \in Restorations
        BY <2>1, <3>1 DEF Restorations
      <3>3. ~next.superseded /\ next.step = step /\ pending' = next
        BY <2>5
      <3>. HIDE DEF next
      <3>. QED
        BY <1>1, <2>1, <2>5, <3>2, <3>3 DEF StackInv, StackTypes, OpenIsLast, InOrder
    <2>. QED
      BY <2>3, <2>4, <2>5
  <1>. QED
    BY <1>1, <1>3, <1>4

\* A commit: the restoration under way changes stacks, or a new step is recorded.
LEMMA CommitStacks ==
  ASSUME DocumentTypes, DocumentTypes', StackInv, ReceiveCommit
  PROVE  StackInv'
  <1>1. \/ UNCHANGED historyVars
        \/ pending # None /\ Restored
        \/ Record(StructureStep(replica, replica', Now)) /\ openText' = None
    BY DEF ReceiveCommit, Restoring
  <1>2. undo \in Seq(Steps) /\ redo \in Seq(Steps) /\ StacksInOrder(undo, redo)
    BY DEF StackInv, StackTypes, InOrder
  <1>3. CASE UNCHANGED historyVars
    BY <1>3 DEF historyVars, StackInv, StackTypes, OpenIsLast, InOrder
  <1>4. CASE pending # None /\ Restored
    <2>1. pending \in Restorations /\ pending' = None /\ openText' = None
      BY <1>4 DEF StackInv, StackTypes, Restored
    <2>2. pending.step \in Steps /\ pending.superseded \in BOOLEAN /\ pending.back \in BOOLEAN
      BY <2>1 DEF Restorations
    <2>3. CASE ~pending.superseded
      <3>1. Between(undo, pending.step, redo)
        BY <1>4, <2>3 DEF StackInv, InOrder
      <3>2. \/ undo' = undo /\ redo' = Append(redo, pending.step)
            \/ undo' = Append(undo, pending.step) /\ redo' = redo
        BY <1>4, <2>2, <2>3 DEF Restored
      <3>3. /\ undo' \in Seq(Steps) /\ redo' \in Seq(Steps)
            /\ StacksInOrder(undo', redo')
        BY <1>2, <2>2, <3>1, <3>2, Pushed
      <3>. QED
        BY <2>1, <3>3 DEF StackInv, StackTypes, OpenIsLast, InOrder
    <2>4. CASE pending.superseded
      <3>. DEFINE step == [pending.step EXCEPT !.made = Now]
      <3>1. redo = <<>>
        BY <1>4, <2>4 DEF StackInv, InOrder
      <3>2. step \in Steps /\ step.made = Now
        BY <2>2, NowIsLater DEF StackInv, Steps, StructureSteps, TextSteps
      <3>3. redo' = redo /\ (undo' = undo \/ undo' = Append(undo, step))
        BY <1>4, <2>2, <2>4 DEF Restored
      <3>. HIDE DEF step
      <3>4. Between(undo, step, redo)
        BY <3>1, <3>2, NowIsLater DEF StackInv, Between
      <3>5. /\ undo' \in Seq(Steps) /\ redo' \in Seq(Steps)
            /\ StacksInOrder(undo', redo')
        BY <1>2, <3>2, <3>3, <3>4, Pushed
      <3>. QED
        BY <2>1, <3>5 DEF StackInv, StackTypes, OpenIsLast, InOrder
    <2>. QED
      BY <2>3, <2>4
  <1>5. CASE Record(StructureStep(replica, replica', Now)) /\ openText' = None
    <2>. DEFINE step == StructureStep(replica, replica', Now)
    <2>1. step \in Steps /\ step.made = Now
      BY NowIsLater DEF StackInv, DocumentTypes, StructureStep, StructureSteps, Steps
    <2>. HIDE DEF step
    <2>2. Record(step)
      BY <1>5 DEF step
    <2>3. /\ undo' \in Seq(Steps) /\ redo' \in Seq(Steps)
          /\ pending' \in Restorations \cup {None} /\ InOrder'
      BY <2>1, <2>2, RecordKeeps DEF StackInv
    <2>. QED
      BY <1>5, <2>3 DEF StackInv, StackTypes, OpenIsLast
  <1>. QED
    BY <1>1, <1>3, <1>4, <1>5

\* What is left: steps that do not touch the stacks, clear them or drop the restoration.
LEMMA OtherStacks ==
  ASSUME StackInv,
         UNCHANGED historyVars \/ Close \/ ReceiveConflict
  PROVE  StackInv'
  <1>1. CASE UNCHANGED historyVars
    BY <1>1 DEF historyVars, StackInv, StackTypes, OpenIsLast, InOrder
  <1>2. CASE Close
    <2>1. undo' = <<>> /\ redo' = <<>> /\ pending' = None /\ openText' = None
      BY <1>2 DEF Close
    <2>2. <<>> \in Seq(Steps) /\ StacksInOrder(<<>>, <<>>)
      BY DEF StacksInOrder
    <2>. QED
      BY <2>1, <2>2 DEF StackInv, StackTypes, OpenIsLast, InOrder
  <1>3. CASE ReceiveConflict
    <2>1. UNCHANGED <<undo, redo, openText>> /\ (pending' = None \/ pending' = pending)
      BY <1>3 DEF ReceiveConflict, Decided
    <2>. QED
      BY <2>1 DEF StackInv, StackTypes, OpenIsLast, InOrder
  <1>. QED
    BY <1>1, <1>2, <1>3

-----------------------------------------------------------------------------
\* The restoration under way is waiting for the room

\* A proposal is added to those that wait.
LEMMA WaitsLonger ==
  ASSUME DocumentTypes, NEW batch \in SUBSET Commands, Act, Propose(batch)
  PROVE  /\ \A i \in 1 .. Len(waiting) :
              i \in 1 .. Len(waiting') /\ waiting'[i] = waiting[i]
         /\ \E i \in 1 .. Len(waiting') : waiting'[i].id = acts + 1
  <1>. DEFINE proposal == [id |-> acts + 1, batch |-> batch]
  <1>1. waiting' = Append(waiting, proposal) /\ waiting \in Seq(Proposals)
    BY DEF Propose, DocumentTypes
  <1>2. proposal \in Proposals
    BY ProposedTypes DEF Proposals
  <1>3. proposal.id = acts + 1
    OBVIOUS
  <1>. HIDE DEF proposal
  <1>4. /\ Len(waiting') = Len(waiting) + 1 /\ Len(waiting) \in Nat
        /\ \A i \in 1 .. Len(waiting) : waiting'[i] = waiting[i]
        /\ waiting'[Len(waiting) + 1] = proposal
    BY <1>1, <1>2, AppendProperties, LenProperties
  <1>5. Len(waiting) + 1 \in 1 .. Len(waiting')
    BY <1>4
  <1>. QED
    BY <1>3, <1>4, <1>5

\* The restoration is among the proposals that wait.
Waits(p, w) == p # None => \E i \in 1 .. Len(w) : w[i].id = p.id

\* Every step leaves the restoration among the proposals that wait, or without one.
LEMMA WaitsNext ==
  ASSUME DocumentTypes, StackInv, Waits(pending, waiting), [Next]_vars
  PROVE  Waits(pending', waiting')
  <1>1. CASE UNCHANGED <<pending, waiting>>
    BY <1>1
  <1>2. ASSUME \/ \E e \in Elements : Create(e) \/ Recolor(e)
               \/ \E selection : Delete(selection)
        PROVE  Waits(pending', waiting')
    <2>1. PICK batch \in SUBSET Commands : Dispatch(batch)
      <3>1. \A e \in Elements, k \in Colors :
              Created(e, [color |-> k, text |-> Blank]) \in Commands
        BY HistoryAssumption DEF Created, Commands
      <3>2. \A e \in Elements, k \in Colors : Recolored(e, k) \in Commands
        BY DEF Recolored, Commands
      <3>3. \A e \in Elements : Create(e) \/ Recolor(e) => \E c \in Commands : Dispatch({c})
        BY <3>1, <3>2 DEF Create, Recolor
      <3>. QED
        BY <1>2, <3>3, DeletionBatch
    <2>2. pending' = pending /\ Act /\ Propose(batch)
      BY <2>1 DEF Dispatch, historyVars
    <2>. QED
      BY <2>2, WaitsLonger DEF Waits
  <1>3. ASSUME NEW e \in Elements, Type(e) PROVE Waits(pending', waiting')
    <2>1. waiting' = waiting /\ (pending' = pending \/ pending' = Superseded(pending))
      BY <1>3 DEF Type, Record
    <2>2. pending # None => Superseded(pending).id = pending.id
      BY DEF Superseded, StackInv, StackTypes, Restorations
    <2>3. pending = None => Superseded(pending) = None
      BY DEF Superseded
    <2>. QED
      BY <2>1, <2>2, <2>3 DEF Waits
  <1>4. ASSUME NEW back \in BOOLEAN, Restore(back) PROVE Waits(pending', waiting')
    <2>. DEFINE source == IF back THEN undo ELSE redo
                target == IF back THEN redo ELSE undo
    <2>1. /\ source \in Seq(Steps) /\ pending = None /\ Act
          /\ \/ UNCHANGED pending
             \/ \E last \in 1 .. Len(source) :
                  Crosses(source[last], SubSeq(source, 1, last - 1), target, back)
      BY <1>4, RestoreCases DEF StackInv
    <2>. HIDE DEF source, target
    <2>2. ASSUME NEW step \in Steps, NEW below, Crosses(step, below, target, back)
          PROVE  Waits(pending', waiting')
      <3>1. CASE pending' = pending
        BY <2>1, <3>1 DEF Waits
      <3>2. CASE step.kind = "structure" /\ ready
        <4>1. step \in StructureSteps
          BY <3>2 DEF Steps, TextSteps
        <4>2. Restoration(step, back, replica) \in SUBSET Commands
          BY <4>1, RestoredBatch DEF DocumentTypes
        <4>3. /\ Propose(Restoration(step, back, replica))
              /\ pending' = [id |-> acts + 1, step |-> step, back |-> back,
                             superseded |-> FALSE]
          BY <2>2, <3>2 DEF Crosses
        <4>4. pending'.id = acts + 1
          BY <4>3
        <4>5. \E i \in 1 .. Len(waiting') : waiting'[i].id = acts + 1
          BY <2>1, <4>2, <4>3, WaitsLonger
        <4>. QED
          BY <4>4, <4>5 DEF Waits
      <3>. QED
        BY <2>2, <3>1, <3>2 DEF Crosses
    <2>. QED
      BY <2>1, <2>2 DEF Waits
  <1>5. CASE Close
    BY <1>5 DEF Close, Waits
  <1>6. CASE ReceiveCommit
    <2>1. /\ Received("commit")
          /\ \/ UNCHANGED historyVars /\ waiting' = waiting
             \/ pending' = None
             \/ /\ pending # None => pending.id # Head(down).id
                /\ pending' = Superseded(pending)
      BY <1>6 DEF ReceiveCommit, Restored, Record, Restoring
    <2>2. /\ pending # None => Superseded(pending).id = pending.id
          /\ pending = None => Superseded(pending) = None
      BY DEF Superseded, StackInv, StackTypes, Restorations
    <2>3. CASE /\ pending # None => pending.id # Head(down).id
               /\ pending' = Superseded(pending)
      BY <2>1, <2>2, <2>3, ReceivedTypes DEF Waits
    <2>. QED
      BY <1>1, <2>1, <2>3 DEF Waits, historyVars
  <1>7. CASE ReceiveConflict
    <2>1. Received("conflict") /\ pending' = Decided(pending, Head(down).id)
      BY <1>7 DEF ReceiveConflict
    <2>2. \/ pending' = None
          \/ pending' = pending /\ (pending # None => pending.id # Head(down).id)
      BY <2>1 DEF Decided
    <2>. QED
      BY <2>1, <2>2, ReceivedTypes DEF Waits
  <1>8. CASE RoomDecides \/ OtherEdits \/ Lose \/ Synchronize \/ UNCHANGED vars
    BY <1>1, <1>8 DEF RoomDecides, OtherEdits, Lose, Synchronize, vars, historyVars
  <1>. QED
    BY <1>2, <1>3, <1>4, <1>5, <1>6, <1>7, <1>8 DEF Next, Undo, Redo

-----------------------------------------------------------------------------
\* The theorems

\* The inductive invariant.
HistoryInv == DocumentTypes /\ StackInv /\ Waits(pending, waiting)

\* Every step keeps it.
LEMMA HistoryStep ==
  ASSUME HistoryInv, [Next]_vars
  PROVE  HistoryInv'
  <1>. USE DEF HistoryInv
  <1>1. DocumentTypes'
    <2>1. ASSUME NEW back \in BOOLEAN, Restore(back) PROVE DocumentTypes'
      BY <2>1, RestoreTypes DEF StackInv
    <2>2. CASE UNCHANGED vars
      BY <2>2 DEF vars, roomVars, DocumentTypes
    <2>. QED
      BY <2>1, <2>2, GestureTypes, DeletionBatch, DispatchTypes, RoomTypes, ConnectionTypes
      DEF Next, Undo, Redo
  <1>2. StackInv'
    <2>1. CASE UNCHANGED vars
      BY <2>1, OtherStacks DEF vars
    <2>2. CASE RoomDecides \/ OtherEdits \/ Lose \/ Synchronize
      BY <2>2, OtherStacks DEF RoomDecides, OtherEdits, Lose, Synchronize
    <2>3. ASSUME NEW e, Create(e) \/ Recolor(e) \/ Delete(e) PROVE StackInv'
      BY <2>3, OtherStacks DEF Create, Recolor, Delete, Dispatch
    <2>. QED
      BY <1>1, <2>1, <2>2, <2>3, TypeStacks, RestoreStacks, CommitStacks, OtherStacks
      DEF Next, Undo, Redo
  <1>3. Waits(pending', waiting')
    BY WaitsNext
  <1>. QED
    BY <1>1, <1>2, <1>3

\* It holds at first.
LEMMA HistoryInitially == Init => HistoryInv
  <1>. SUFFICES ASSUME Init PROVE HistoryInv
    OBVIOUS
  <1>1. /\ room = Opening /\ replica = Opening /\ waiting = <<>> /\ up = <<>> /\ down = <<>>
        /\ undo = <<>> /\ redo = <<>> /\ pending = None /\ openText = None /\ acts = 0
    BY DEF Init
  <1>2. <<>> \in Seq(Proposals) /\ <<>> \in Seq(Answers) /\ <<>> \in Seq(Steps)
    OBVIOUS
  <1>3. DocumentTypes
    BY <1>1, <1>2, HistoryAssumption DEF DocumentTypes
  <1>4. StackInv
    BY <1>1, <1>2 DEF StackInv, StackTypes, OpenIsLast, InOrder, StacksInOrder
  <1>. QED
    BY <1>1, <1>3, <1>4 DEF HistoryInv, Waits

\* The inductive invariant: documents, batches and steps are what they are, the stacks
\* are in order, the open field is that of the latest step, the restoration waits.
THEOREM HistoryInvariant == Spec => []HistoryInv
  <1>1. Init => HistoryInv
    BY HistoryInitially
  <1>2. HistoryInv /\ [Next]_vars => HistoryInv'
    BY HistoryStep
  <1>. QED
    BY <1>1, <1>2, PTL DEF Spec

\* The history never waits for a decision the room has given.
THEOREM RestorationsAreDecided == Spec => []RestorationIsDecided
  <1>1. HistoryInv => RestorationIsDecided
    BY DEF HistoryInv, Waits, DocumentTypes, RestorationIsDecided
  <1>. QED
    BY <1>1, HistoryInvariant, PTL

\* Stacks in order, with what is between them, are one sequence in order.
LEMMA OneSequence ==
  ASSUME StackInv
  PROVE  Chronological
  <1>. DEFINE restored == IF pending = None \/ pending.superseded THEN <<>> ELSE <<pending.step>>
              later == [i \in DOMAIN redo |-> redo[Len(redo) + 1 - i]]
              first == undo \o restored
              all == undo \o restored \o later
              n == Len(redo)
  <1>1. undo \in Seq(Steps) /\ redo \in Seq(Steps) /\ StacksInOrder(undo, redo)
    BY DEF StackInv, StackTypes, InOrder
  <1>2. first \in Seq(Steps) /\ StacksInOrder(first, redo)
    <2>1. CASE restored = <<>>
      BY <1>1, <2>1, ConcatEmptySeq
    <2>2. CASE restored # <<>>
      <3>1. pending # None /\ ~pending.superseded /\ restored = <<pending.step>>
        BY <2>2
      <3>2. pending.step \in Steps /\ Between(undo, pending.step, redo)
        BY <3>1 DEF StackInv, StackTypes, InOrder, Restorations
      <3>3. first = Append(undo, pending.step)
        BY <1>1, <3>1, <3>2, AppendIsConcat
      <3>. QED
        BY <1>1, <3>2, <3>3, Pushed
    <2>. QED
      BY <2>1, <2>2
  <1>3. n \in Nat /\ DOMAIN redo = 1 .. n
    BY <1>1, LenProperties
  <1>4. /\ later \in Seq(Steps) /\ Len(later) = n
        /\ \A i \in 1 .. n : later[i] = redo[n + 1 - i] /\ n + 1 - i \in 1 .. n
    <2>1. later = [i \in 1 .. n |-> redo[n + 1 - i]]
      BY <1>3
    <2>2. \A i \in 1 .. n : n + 1 - i \in 1 .. n
      BY <1>3
    <2>3. \A i \in 1 .. n : redo[n + 1 - i] \in Steps
      BY <1>1, <1>3, <2>2
    <2>4. later \in [1 .. n -> Steps]
      BY <2>1, <2>3
    <2>5. later \in Seq(Steps) /\ Len(later) = n
      BY <1>3, <2>4, IsASeq, LenProperties
    <2>. QED
      BY <2>1, <2>2, <2>5
  <1>. HIDE DEF first, later, n
  <1>5. /\ Len(first \o later) = Len(first) + n /\ first \o later \in Seq(Steps)
        /\ Len(first) \in Nat
        /\ \A i \in 1 .. Len(first) + n :
             (first \o later)[i] = IF i <= Len(first) THEN first[i] ELSE later[i - Len(first)]
    <2>1. Len(first) \in Nat /\ first \in Seq(Steps) /\ later \in Seq(Steps) /\ Len(later) = n
      BY <1>2, <1>4, LenProperties
    <2>2. /\ first \o later \in Seq(Steps)
          /\ Len(first \o later) = Len(first) + Len(later)
          /\ \A i \in 1 .. Len(first) + Len(later) :
               (first \o later)[i] = IF i <= Len(first) THEN first[i] ELSE later[i - Len(first)]
      BY <2>1, ConcatProperties
    <2>. QED
      BY <2>1, <2>2
  <1>6. ASSUME NEW i \in 1 .. Len(first) + n, NEW j \in 1 .. Len(first) + n, i < j
        PROVE  (first \o later)[i].made < (first \o later)[j].made
    <2>1. CASE j <= Len(first)
      <3>1. i \in 1 .. Len(first) /\ j \in 1 .. Len(first) /\ i <= Len(first)
        BY <1>5, <1>6, <2>1
      <3>2. (first \o later)[i] = first[i] /\ (first \o later)[j] = first[j]
        BY <1>5, <2>1, <3>1
      <3>. QED
        BY <1>2, <1>6, <3>1, <3>2 DEF StacksInOrder
    <2>2. CASE i <= Len(first) /\ ~(j <= Len(first))
      <3>. DEFINE k == j - Len(first)
      <3>1. i \in 1 .. Len(first) /\ k \in 1 .. n
        BY <1>3, <1>5, <1>6, <2>2
      <3>2. /\ (first \o later)[i] = first[i] /\ (first \o later)[j] = later[k]
        BY <1>5, <2>2
      <3>3. later[k] = redo[n + 1 - k] /\ n + 1 - k \in 1 .. Len(redo)
        BY <1>4, <3>1 DEF n
      <3>. QED
        BY <1>2, <3>1, <3>2, <3>3 DEF StacksInOrder
    <2>3. CASE ~(i <= Len(first)) /\ ~(j <= Len(first))
      <3>. DEFINE k == i - Len(first)
                  l == j - Len(first)
      <3>1. k \in 1 .. n /\ l \in 1 .. n /\ n + 1 - l < n + 1 - k
        BY <1>3, <1>5, <1>6, <2>3
      <3>2. (first \o later)[i] = later[k] /\ (first \o later)[j] = later[l]
        BY <1>5, <2>3
      <3>3. /\ later[k] = redo[n + 1 - k] /\ n + 1 - k \in 1 .. Len(redo)
            /\ later[l] = redo[n + 1 - l] /\ n + 1 - l \in 1 .. Len(redo)
        BY <1>4, <3>1 DEF n
      <3>. QED
        BY <1>1, <3>1, <3>2, <3>3 DEF StacksInOrder
    <2>. QED
      BY <1>5, <1>6, <2>1, <2>2, <2>3
  <1>7. DOMAIN all = 1 .. Len(first) + n /\ all = first \o later
    BY <1>5 DEF first
  <1>8. \A i, j \in DOMAIN all : i < j => all[i].made < all[j].made
    BY <1>6, <1>7
  <1>. QED
    BY <1>8 DEF Chronological, later

\* An undo always takes the latest step, and no step is redone over one made after it.
THEOREM HistoryIsChronological == Spec => []Chronological
  <1>1. HistoryInv => Chronological
    BY OneSequence DEF HistoryInv
  <1>. QED
    BY <1>1, HistoryInvariant, PTL

-----------------------------------------------------------------------------
\* From the replica over the documents on their way to the room's document

\* What is seen of an element twice is the same, but for its text.
Alike(x, y) ==
  /\ x = None <=> y = None
  /\ x # None => x.color = y.color /\ x.born = y.born

\* The replica, and what it will be after each answer on its way.
Place(r, d, i) == IF i = 0 THEN r ELSE d[i].doc

\* An element that is gone does not come back while somebody may still see it, and is
\* always the one that was created once.
Lasts(r, d) ==
  \A e \in Elements :
    /\ \A i, j, k \in 0 .. Len(d) :
         i < j /\ j < k /\ Place(r, d, i)[e] # None /\ Place(r, d, k)[e] # None
           => Place(r, d, j)[e] # None
    /\ \A i, j \in 0 .. Len(d) :
         Place(r, d, i)[e] # None /\ Place(r, d, j)[e] # None
           => Place(r, d, i)[e].born = Place(r, d, j)[e].born

\* A refusal changes nothing, an own commit one element.
Changes(r, d) ==
  /\ \A e \in Elements, i \in 1 .. Len(d) :
       d[i].kind = "conflict" => Alike(Place(r, d, i - 1)[e], Place(r, d, i)[e])
  /\ \A e, o \in Elements, i \in 1 .. Len(d) :
       d[i].id # 0 /\ e # o =>
         \/ Alike(Place(r, d, i - 1)[e], Place(r, d, i)[e])
         \/ Alike(Place(r, d, i - 1)[o], Place(r, d, i)[o])

\* The last document on its way is the room's, of which the replica is an earlier one.
Leads(rm, r, d, on) ==
  /\ \A e \in Elements : rm[e] # None /\ r[e] # None => rm[e].born = r[e].born
  /\ on => \A e \in Elements : Alike(rm[e], Place(r, d, Len(d))[e])
  /\ ~on => d = <<>>

\* An own commit that removes an element tells of the last removal.
Removal(r, d, i, e) == Place(r, d, i - 1)[e] # None /\ Place(r, d, i)[e] = None
Removers(r, d, by) ==
  \A e \in Elements, i \in 1 .. Len(d) : d[i].id # 0 /\ Removal(r, d, i, e) => by[e] # "other"

ChainOf(rm, r, d, on, by) ==
  Lasts(r, d) /\ Changes(r, d) /\ Leads(rm, r, d, on) /\ Removers(r, d, by)

\* Nobody sees an element any more.
AbsentOf(rm, r, d, e) == rm[e] = None /\ \A i \in 0 .. Len(d) : Place(r, d, i)[e] = None

LEMMA AlikeTwice ==
  ASSUME NEW x, NEW y, NEW z, Alike(x, y), Alike(y, z) \/ Alike(z, y)
  PROVE  Alike(x, z) /\ Alike(y, x)
  BY DEF Alike

\* The documents on their way are one less, or the texts of the replica change.
Shifted(r, d, s, c, n) ==
  /\ Len(c) = Len(d) - n
  /\ \A i \in 1 .. Len(c) : c[i] = d[i + n]
  /\ \A e \in Elements, i \in 0 .. Len(c) : Alike(Place(s, c, i)[e], Place(r, d, i + n)[e])

LEMMA ChainShifted ==
  ASSUME NEW rm, NEW r, NEW d, NEW on, NEW by, ChainOf(rm, r, d, on, by),
         NEW s, NEW c, NEW n \in 0 .. 1, Shifted(r, d, s, c, n),
         Len(d) \in Nat, Len(c) \in Nat, d = <<>> => Len(d) = 0, Len(c) = 0 => c = <<>>
  PROVE  /\ ChainOf(rm, s, c, on, by)
         /\ \A e \in Elements : AbsentOf(rm, r, d, e) => AbsentOf(rm, s, c, e)
         /\ \A e \in Elements, i \in 1 .. Len(c) :
              Removal(s, c, i, e) <=> Removal(r, d, i + n, e)
  <1>1. \A i \in 0 .. Len(c) : i + n \in 0 .. Len(d)
    BY DEF Shifted
  <1>2. \A i \in 1 .. Len(c) :
          /\ i - 1 \in 0 .. Len(c) /\ i \in 0 .. Len(c) /\ (i - 1) + n = (i + n) - 1
          /\ i + n \in 1 .. Len(d) /\ c[i] = d[i + n]
    BY DEF Shifted
  <1>3. \A e \in Elements, i \in 0 .. Len(c) : Alike(Place(s, c, i)[e], Place(r, d, i + n)[e])
    BY DEF Shifted
  <1>4. Lasts(s, c)
    <2>1. ASSUME NEW e \in Elements, NEW i \in 0 .. Len(c), NEW j \in 0 .. Len(c),
                 NEW k \in 0 .. Len(c), i < j, j < k,
                 Place(s, c, i)[e] # None, Place(s, c, k)[e] # None
          PROVE  Place(s, c, j)[e] # None
      <3>1. /\ i + n \in 0 .. Len(d) /\ j + n \in 0 .. Len(d) /\ k + n \in 0 .. Len(d)
            /\ i + n < j + n /\ j + n < k + n
        BY <1>1, <2>1
      <3>2. Place(r, d, i + n)[e] # None /\ Place(r, d, k + n)[e] # None
        BY <1>3, <2>1 DEF Alike
      <3>3. Place(r, d, j + n)[e] # None
        BY <3>1, <3>2 DEF ChainOf, Lasts
      <3>. QED
        BY <1>3, <3>3 DEF Alike
    <2>2. ASSUME NEW e \in Elements, NEW i \in 0 .. Len(c), NEW j \in 0 .. Len(c),
                 Place(s, c, i)[e] # None, Place(s, c, j)[e] # None
          PROVE  Place(s, c, i)[e].born = Place(s, c, j)[e].born
      <3>1. i + n \in 0 .. Len(d) /\ j + n \in 0 .. Len(d)
        BY <1>1
      <3>2. /\ Place(r, d, i + n)[e] # None /\ Place(r, d, j + n)[e] # None
            /\ Place(s, c, i)[e].born = Place(r, d, i + n)[e].born
            /\ Place(s, c, j)[e].born = Place(r, d, j + n)[e].born
        BY <1>3, <2>2 DEF Alike
      <3>. QED
        BY <3>1, <3>2 DEF ChainOf, Lasts
    <2>. QED
      BY <2>1, <2>2 DEF Lasts
  <1>5. \A e \in Elements, i \in 1 .. Len(c) :
          /\ Alike(Place(s, c, i - 1)[e], Place(r, d, (i + n) - 1)[e])
          /\ Alike(Place(s, c, i)[e], Place(r, d, i + n)[e])
    BY <1>2, <1>3
  <1>6. Changes(s, c)
    <2>1. ASSUME NEW e \in Elements, NEW i \in 1 .. Len(c),
                 Alike(Place(r, d, (i + n) - 1)[e], Place(r, d, i + n)[e])
          PROVE  Alike(Place(s, c, i - 1)[e], Place(s, c, i)[e])
      BY <1>5, <2>1 DEF Alike
    <2>2. ASSUME NEW e \in Elements, NEW i \in 1 .. Len(c), c[i].kind = "conflict"
          PROVE  Alike(Place(s, c, i - 1)[e], Place(s, c, i)[e])
      <3>1. i + n \in 1 .. Len(d) /\ d[i + n].kind = "conflict"
        BY <1>2, <2>2
      <3>. QED
        BY <2>1, <3>1 DEF ChainOf, Changes
    <2>3. ASSUME NEW e \in Elements, NEW o \in Elements, NEW i \in 1 .. Len(c),
                 c[i].id # 0, e # o
          PROVE  \/ Alike(Place(s, c, i - 1)[e], Place(s, c, i)[e])
                 \/ Alike(Place(s, c, i - 1)[o], Place(s, c, i)[o])
      <3>1. i + n \in 1 .. Len(d) /\ d[i + n].id # 0
        BY <1>2, <2>3
      <3>. QED
        BY <2>1, <2>3, <3>1 DEF ChainOf, Changes
    <2>. QED
      BY <2>2, <2>3 DEF Changes
  <1>7. \A e \in Elements, i \in 1 .. Len(c) : Removal(s, c, i, e) <=> Removal(r, d, i + n, e)
    BY <1>5 DEF Removal, Alike
  <1>8. Removers(s, c, by)
    BY <1>2, <1>7 DEF ChainOf, Removers
  <1>9. Leads(rm, s, c, on)
    <2>1. ASSUME ~on PROVE c = <<>> /\ n = 0
      BY <2>1 DEF ChainOf, Leads, Shifted
    <2>2. ASSUME on, NEW e \in Elements PROVE Alike(rm[e], Place(s, c, Len(c))[e])
      <3>1. Len(c) \in 0 .. Len(c) /\ Len(c) + n = Len(d)
        BY DEF Shifted
      <3>2. Alike(Place(s, c, Len(c))[e], Place(r, d, Len(d))[e])
        BY <1>3, <3>1
      <3>. QED
        BY <2>2, <3>2, AlikeTwice DEF ChainOf, Leads
    <2>3. ASSUME NEW e \in Elements, rm[e] # None, s[e] # None PROVE rm[e].born = s[e].born
      <3>1. 0 \in 0 .. Len(c) /\ Len(c) \in 0 .. Len(c) /\ Place(s, c, 0) = s
        BY DEF Place
      <3>2. CASE on
        <4>1. Alike(rm[e], Place(s, c, Len(c))[e])
          BY <2>2, <3>2
        <4>. QED
          BY <1>4, <2>3, <3>1, <4>1 DEF Lasts, Alike
      <3>3. CASE ~on
        <4>1. Alike(s[e], Place(r, d, 0)[e]) /\ Place(r, d, 0) = r
          BY <1>3, <2>1, <3>1, <3>3 DEF Place
        <4>. QED
          BY <2>3, <4>1 DEF Alike, ChainOf, Leads
      <3>. QED
        BY <3>2, <3>3
    <2>. QED
      BY <2>1, <2>2, <2>3 DEF Leads
  <1>10. ASSUME NEW e \in Elements, AbsentOf(rm, r, d, e) PROVE AbsentOf(rm, s, c, e)
    <2>1. \A i \in 0 .. Len(c) : Place(r, d, i + n)[e] = None
      BY <1>1, <1>10 DEF AbsentOf
    <2>. QED
      BY <1>3, <1>10, <2>1 DEF AbsentOf, Alike
  <1>. QED
    BY <1>4, <1>6, <1>7, <1>8, <1>9, <1>10 DEF ChainOf

\* What the room may do to an element: leave it but for its colour, remove it, or create
\* it when nobody sees it any more.
Changed(rm, r, d, now, e) ==
  \/ rm[e] # None /\ now[e] # None /\ rm[e].born = now[e].born
  \/ now[e] = None
  \/ AbsentOf(rm, r, d, e)

\* The room answers: its document is the last on its way.
MayAnswer(rm, r, d, m, by, to) ==
  /\ \A e \in Elements : Changed(rm, r, d, m.doc, e)
  /\ m.kind = "conflict" => \A e \in Elements : Alike(rm[e], m.doc[e])
  /\ m.id # 0 => \A e, o \in Elements :
       e # o => Alike(rm[e], m.doc[e]) \/ Alike(rm[o], m.doc[o])
  /\ \A e \in Elements : m.id # 0 /\ rm[e] # None /\ m.doc[e] = None => to[e] # "other"
  /\ \A e \in Elements : to[e] = "other" => by[e] = "other" \/ rm[e] # None
Answered(rm, r, d, m, to) ==
  /\ ChainOf(m.doc, r, Append(d, m), TRUE, to)
  /\ \A e \in Elements : AbsentOf(rm, r, d, e) /\ m.doc[e] = None =>
       AbsentOf(m.doc, r, Append(d, m), e)
  /\ \A e \in Elements, i \in 1 .. Len(d) :
       Removal(r, Append(d, m), i, e) <=> Removal(r, d, i, e)
  /\ \A e \in Elements :
       Removal(r, Append(d, m), Len(d) + 1, e) <=> rm[e] # None /\ m.doc[e] = None

LEMMA ChainAnswered ==
  ASSUME NEW rm, NEW r, NEW d \in Seq(Answers), NEW by, ChainOf(rm, r, d, TRUE, by),
         NEW m \in Answers, NEW to, MayAnswer(rm, r, d, m, by, to)
  PROVE  Answered(rm, r, d, m, to)
  <1>. USE DEF MayAnswer
  <1>. DEFINE c == Append(d, m)
              n == Len(d)
  <1>1. /\ n \in Nat /\ Len(c) = n + 1 /\ c[n + 1] = m
        /\ \A i \in 1 .. n : c[i] = d[i]
    OBVIOUS
  <1>2. /\ \A i \in 0 .. n : Place(r, c, i) = Place(r, d, i)
        /\ Place(r, c, n + 1) = m.doc
    BY <1>1 DEF Place
  <1>. HIDE DEF c
  <1>3. \A i \in 0 .. Len(c) : i \in 0 .. n \/ i = n + 1
    BY <1>1
  <1>4. \A e \in Elements : Alike(rm[e], Place(r, d, n)[e])
    BY DEF ChainOf, Leads
  <1>5. \A e \in Elements, i \in 1 .. n :
          /\ i - 1 \in 0 .. n /\ i \in 0 .. n
          /\ Place(r, c, i - 1) = Place(r, d, i - 1) /\ Place(r, c, i) = Place(r, d, i)
    BY <1>1, <1>2
  <1>6. (n + 1) - 1 = n /\ n \in 0 .. n /\ Place(r, c, n) = Place(r, d, n)
    BY <1>1, <1>2
  <1>7. /\ \A e \in Elements, i \in 1 .. n : Removal(r, c, i, e) <=> Removal(r, d, i, e)
        /\ \A e \in Elements : Removal(r, c, n + 1, e) <=> rm[e] # None /\ m.doc[e] = None
    BY <1>2, <1>4, <1>5, <1>6 DEF Removal, Alike
  <1>8. Lasts(r, c)
    <2>1. ASSUME NEW e \in Elements, NEW i \in 0 .. Len(c), NEW j \in 0 .. Len(c),
                 NEW k \in 0 .. Len(c), i < j, j < k,
                 Place(r, c, i)[e] # None, Place(r, c, k)[e] # None
          PROVE  Place(r, c, j)[e] # None
      <3>1. i \in 0 .. n /\ j \in 0 .. n
        BY <1>1, <2>1
      <3>2. CASE k \in 0 .. n
        BY <1>2, <2>1, <3>1, <3>2 DEF ChainOf, Lasts
      <3>3. CASE k = n + 1
        <4>1. rm[e] # None
          BY <1>2, <2>1, <3>1, <3>3 DEF Changed, AbsentOf
        <4>2. Place(r, d, n)[e] # None
          BY <1>4, <4>1 DEF Alike
        <4>3. CASE j = n
          BY <1>2, <3>1, <4>2, <4>3
        <4>4. CASE j # n
          <5>1. j < n /\ n \in 0 .. n
            BY <1>1, <3>1, <4>4
          <5>2. Place(r, d, j)[e] # None
            BY <1>2, <2>1, <3>1, <4>2, <5>1 DEF ChainOf, Lasts
          <5>. QED
            BY <1>2, <3>1, <5>2
        <4>. QED
          BY <4>3, <4>4
      <3>. QED
        BY <1>3, <3>2, <3>3
    <2>2. ASSUME NEW e \in Elements, NEW i \in 0 .. n,
                 Place(r, c, i)[e] # None, m.doc[e] # None
          PROVE  Place(r, c, i)[e].born = m.doc[e].born
      <3>1. Place(r, d, i)[e] # None /\ Place(r, c, i) = Place(r, d, i)
        BY <1>2, <2>2
      <3>2. rm[e] # None /\ rm[e].born = m.doc[e].born
        BY <2>2, <3>1 DEF Changed, AbsentOf
      <3>3. Place(r, d, n)[e] # None /\ Place(r, d, n)[e].born = rm[e].born
        BY <1>4, <3>2 DEF Alike
      <3>4. n \in 0 .. n
        BY <1>1
      <3>. QED
        BY <3>1, <3>2, <3>3, <3>4 DEF ChainOf, Lasts
    <2>3. ASSUME NEW e \in Elements, NEW i \in 0 .. Len(c), NEW j \in 0 .. Len(c),
                 Place(r, c, i)[e] # None, Place(r, c, j)[e] # None
          PROVE  Place(r, c, i)[e].born = Place(r, c, j)[e].born
      <3>1. CASE i \in 0 .. n /\ j \in 0 .. n
        BY <1>2, <2>3, <3>1 DEF ChainOf, Lasts
      <3>2. CASE i = n + 1 \/ j = n + 1
        BY <1>2, <1>3, <2>2, <2>3, <3>2
      <3>. QED
        BY <1>3, <3>1, <3>2
    <2>. QED
      BY <2>1, <2>3 DEF Lasts
  <1>9. Changes(r, c)
    <2>1. \A e \in Elements : Alike(rm[e], m.doc[e]) =>
            Alike(Place(r, c, (n + 1) - 1)[e], Place(r, c, n + 1)[e])
      BY <1>2, <1>4, <1>6 DEF Alike
    <2>2. \A i \in 1 .. Len(c) : i \in 1 .. n \/ i = n + 1
      BY <1>1
    <2>3. ASSUME NEW e \in Elements, NEW i \in 1 .. Len(c), c[i].kind = "conflict"
          PROVE  Alike(Place(r, c, i - 1)[e], Place(r, c, i)[e])
      <3>1. CASE i \in 1 .. n
        <4>1. d[i].kind = "conflict"
          BY <1>1, <2>3, <3>1
        <4>. QED
          BY <1>5, <3>1, <4>1 DEF ChainOf, Changes
      <3>2. CASE i = n + 1
        BY <1>1, <2>1, <2>3, <3>2
      <3>. QED
        BY <2>2, <3>1, <3>2
    <2>4. ASSUME NEW e \in Elements, NEW o \in Elements, NEW i \in 1 .. Len(c),
                 c[i].id # 0, e # o
          PROVE  \/ Alike(Place(r, c, i - 1)[e], Place(r, c, i)[e])
                 \/ Alike(Place(r, c, i - 1)[o], Place(r, c, i)[o])
      <3>1. CASE i \in 1 .. n
        <4>1. d[i].id # 0
          BY <1>1, <2>4, <3>1
        <4>. QED
          BY <1>5, <2>4, <3>1, <4>1 DEF ChainOf, Changes
      <3>2. CASE i = n + 1
        BY <1>1, <2>1, <2>4, <3>2
      <3>. QED
        BY <2>2, <3>1, <3>2
    <2>. QED
      BY <2>3, <2>4 DEF Changes
  <1>10. Leads(m.doc, r, c, TRUE)
    <2>1. ASSUME NEW e \in Elements, m.doc[e] # None, r[e] # None
          PROVE  m.doc[e].born = r[e].born
      <3>1. Place(r, c, 0) = r /\ 0 \in 0 .. Len(c) /\ n + 1 \in 0 .. Len(c)
        BY <1>1 DEF Place
      <3>. QED
        BY <1>2, <1>8, <2>1, <3>1 DEF Lasts
    <2>2. \A e \in Elements : Alike(m.doc[e], Place(r, c, Len(c))[e])
      BY <1>1, <1>2 DEF Alike
    <2>. QED
      BY <2>1, <2>2 DEF Leads
  <1>11. Removers(r, c, to)
    <2>1. ASSUME NEW e \in Elements, NEW i \in 1 .. Len(c), c[i].id # 0, Removal(r, c, i, e)
          PROVE  to[e] # "other"
      <3>1. CASE i = n + 1
        BY <1>1, <1>7, <2>1, <3>1
      <3>2. CASE i \in 1 .. n
        <4>1. d[i].id # 0 /\ Removal(r, d, i, e)
          BY <1>1, <1>7, <2>1, <3>2
        <4>2. by[e] # "other"
          BY <3>2, <4>1 DEF ChainOf, Removers
        <4>3. rm[e] = None
          <5>1. SUFFICES ASSUME rm[e] # None PROVE FALSE
            OBVIOUS
          <5>2. Place(r, d, n)[e] # None
            BY <1>4, <5>1 DEF Alike
          <5>3. i # n
            BY <4>1, <5>2 DEF Removal
          <5>4. /\ i - 1 \in 0 .. n /\ i \in 0 .. n /\ n \in 0 .. n
                /\ i - 1 < i /\ i < n
            BY <1>1, <3>2, <5>3
          <5>. QED
            BY <4>1, <5>2, <5>4 DEF Removal, ChainOf, Lasts
        <4>. QED
          BY <4>2, <4>3
      <3>. QED
        BY <1>1, <3>1, <3>2
    <2>. QED
      BY <2>1 DEF Removers
  <1>12. ASSUME NEW e \in Elements, AbsentOf(rm, r, d, e), m.doc[e] = None
         PROVE  AbsentOf(m.doc, r, c, e)
    BY <1>2, <1>3, <1>12 DEF AbsentOf
  <1>. QED
    BY <1>7, <1>8, <1>9, <1>10, <1>11, <1>12 DEF c, ChainOf, Answered

\* After a removal nobody sees the element again.
LEMMA RemovedForGood ==
  ASSUME NEW rm, NEW r, NEW d \in Seq(Answers), NEW on, NEW by, ChainOf(rm, r, d, on, by),
         NEW e \in Elements, NEW i \in 1 .. Len(d), Removal(r, d, i, e)
  PROVE  rm[e] = None /\ \A j \in i .. Len(d) : Place(r, d, j)[e] = None
  <1>1. ASSUME NEW j \in i .. Len(d) PROVE Place(r, d, j)[e] = None
    <2>1. CASE j = i
      BY <2>1 DEF Removal
    <2>2. CASE j # i
      <3>1. /\ i - 1 \in 0 .. Len(d) /\ i \in 0 .. Len(d) /\ j \in 0 .. Len(d)
            /\ i - 1 < i /\ i < j
        BY <2>2
      <3>. QED
        BY <3>1 DEF Removal, ChainOf, Lasts
    <2>. QED
      BY <2>1, <2>2
  <1>2. on
    <2>1. d # <<>>
      OBVIOUS
    <2>. QED
      BY <2>1 DEF ChainOf, Leads
  <1>3. Len(d) \in i .. Len(d)
    OBVIOUS
  <1>. QED
    BY <1>1, <1>2, <1>3 DEF ChainOf, Leads, Alike

\* Nothing is on its way and the replica is the room's document, or not any more.
LEMMA ChainAlone ==
  ASSUME NEW rm, NEW r, NEW on, NEW by,
         \A e \in Elements : rm[e] # None /\ r[e] # None => rm[e].born = r[e].born,
         on => \A e \in Elements : Alike(rm[e], r[e])
  PROVE  /\ ChainOf(rm, r, <<>>, on, by)
         /\ \A e \in Elements : AbsentOf(rm, r, <<>>, e) <=> rm[e] = None /\ r[e] = None
         /\ \A e \in Elements, i \in 1 .. Len(<<>>) : FALSE
  <1>1. Len(<<>>) = 0 /\ \A i \in 0 .. Len(<<>>) : i = 0
    OBVIOUS
  <1>2. Place(r, <<>>, 0) = r
    BY DEF Place
  <1>3. \A i \in 1 .. Len(<<>>) : FALSE
    OBVIOUS
  <1>4. \A i, j \in 0 .. Len(<<>>) : ~(i < j)
    BY <1>1
  <1>. QED
    BY <1>1, <1>2, <1>3, <1>4 DEF ChainOf, Lasts, Changes, Leads, Removers, AbsentOf

-----------------------------------------------------------------------------
\* Proposals and answers are told apart by their numbers

\* What is left when an element is removed keeps its order.
LEMMA RemovedPlaces ==
  ASSUME NEW S, NEW s \in Seq(S), NEW i \in 1 .. Len(s)
  PROVE  /\ RemoveAt(s, i) \in Seq(S) /\ Len(RemoveAt(s, i)) = Len(s) - 1
         /\ \A k \in 1 .. Len(s) - 1 :
              RemoveAt(s, i)[k] = s[IF k < i THEN k ELSE k + 1]
  <1>. DEFINE head == SubSeq(s, 1, i - 1)
              tail == SubSeq(s, i + 1, Len(s))
  <1>1. Len(s) \in Nat /\ i \in Nat
    BY LenProperties
  <1>2. /\ head \in Seq(S) /\ Len(head) = i - 1
        /\ \A k \in 1 .. i - 1 : head[k] = s[k]
    BY <1>1
  <1>3. /\ tail \in Seq(S) /\ Len(tail) = Len(s) - i
        /\ \A k \in 1 .. Len(s) - i : tail[k] = s[k + i]
    BY <1>1
  <1>4. RemoveAt(s, i) = head \o tail
    BY DEF RemoveAt
  <1>. HIDE DEF head, tail
  <1>5. /\ head \o tail \in Seq(S) /\ Len(head \o tail) = Len(head) + Len(tail)
        /\ \A k \in 1 .. Len(head) + Len(tail) :
             (head \o tail)[k] = IF k <= Len(head) THEN head[k] ELSE tail[k - Len(head)]
    BY <1>2, <1>3, ConcatProperties
  <1>6. Len(head) + Len(tail) = Len(s) - 1
    BY <1>1, <1>2, <1>3
  <1>7. ASSUME NEW k \in 1 .. Len(s) - 1
        PROVE  (head \o tail)[k] = s[IF k < i THEN k ELSE k + 1]
    <2>1. CASE k < i
      <3>1. k \in 1 .. i - 1 /\ k <= Len(head) /\ k \in 1 .. Len(head) + Len(tail)
        BY <1>1, <1>2, <1>6, <2>1
      <3>. QED
        BY <1>2, <1>5, <2>1, <3>1
    <2>2. CASE ~(k < i)
      <3>1. /\ ~(k <= Len(head)) /\ k \in 1 .. Len(head) + Len(tail)
            /\ k - Len(head) \in 1 .. Len(s) - i /\ (k - Len(head)) + i = k + 1
        BY <1>1, <1>2, <1>6, <2>2
      <3>. QED
        BY <1>3, <1>5, <2>2, <3>1
    <2>. QED
      BY <2>1, <2>2
  <1>. QED
    BY <1>4, <1>5, <1>6, <1>7

Increasing(q) == \A i, j \in 1 .. Len(q) : i < j => q[i].id < q[j].id
Among(q, w) == \A i \in 1 .. Len(q) : \E j \in 1 .. Len(w) : w[j] = q[i]

\* What is on its way to the room is waiting for its decision, and was not answered.
NumbersOf(w, q, d, acc, n, on) ==
  /\ Increasing(w) /\ Increasing(q) /\ Among(q, w)
  /\ \A i \in 1 .. Len(w) : w[i].id <= n
  /\ \A i \in 1 .. Len(d) : d[i].id <= n
  /\ \A k \in acc : k \in 1 .. n
  /\ \A i \in 1 .. Len(d), j \in 1 .. Len(q) : d[i].id # q[j].id
  /\ \A i \in 1 .. Len(d) : d[i].kind = "commit" /\ d[i].id # 0 => d[i].id \in acc
  /\ ~on => q = <<>> /\ d = <<>>

LEMMA ProposalIds == \A p \in Proposals : p.id \in Nat /\ p.id >= 1
  BY HistoryAssumption DEF Proposals

LEMMA AnswerIds == \A m \in Answers : m.id \in Nat
  BY HistoryAssumption DEF Answers

\* A sequence and one element more.
LEMMA IncreasingMore ==
  ASSUME NEW q \in Seq(Proposals), NEW p \in Proposals, Increasing(q),
         \A i \in 1 .. Len(q) : q[i].id < p.id
  PROVE  /\ Increasing(Append(q, p)) /\ Append(q, p) \in Seq(Proposals)
         /\ Len(Append(q, p)) = Len(q) + 1 /\ Append(q, p)[Len(q) + 1] = p
         /\ \A i \in 1 .. Len(q) : Append(q, p)[i] = q[i]
         /\ \A i \in 1 .. Len(q) + 1 : i \in 1 .. Len(q) \/ i = Len(q) + 1
  <1>1. /\ Append(q, p) \in Seq(Proposals) /\ Len(q) \in Nat
        /\ Len(Append(q, p)) = Len(q) + 1 /\ Append(q, p)[Len(q) + 1] = p
        /\ \A i \in 1 .. Len(q) : Append(q, p)[i] = q[i]
        /\ \A i \in 1 .. Len(q) + 1 : i \in 1 .. Len(q) \/ i = Len(q) + 1
    OBVIOUS
  <1>2. ASSUME NEW i \in 1 .. Len(q) + 1, NEW j \in 1 .. Len(q) + 1, i < j
        PROVE  Append(q, p)[i].id < Append(q, p)[j].id
    <2>1. i \in 1 .. Len(q)
      BY <1>1, <1>2
    <2>2. CASE j \in 1 .. Len(q)
      BY <1>1, <1>2, <2>1, <2>2 DEF Increasing
    <2>3. CASE j = Len(q) + 1
      BY <1>1, <1>2, <2>1, <2>3
    <2>. QED
      BY <1>1, <2>2, <2>3
  <1>. QED
    BY <1>1, <1>2 DEF Increasing

LEMMA NumbersProposed ==
  ASSUME NEW w \in Seq(Proposals), NEW q \in Seq(Proposals), NEW d \in Seq(Answers), NEW acc,
         NEW n \in Nat, NumbersOf(w, q, d, acc, n, TRUE), NEW p \in Proposals, p.id = n + 1
  PROVE  NumbersOf(Append(w, p), Append(q, p), d, acc, n + 1, TRUE)
  <1>. DEFINE v == Append(w, p)
              r == Append(q, p)
  <1>1. /\ \A i \in 1 .. Len(w) : w[i].id \in Nat /\ w[i].id < p.id
        /\ \A i \in 1 .. Len(d) : d[i].id \in Nat
    BY ProposalIds, AnswerIds DEF NumbersOf
  <1>2. \A i \in 1 .. Len(q) : q[i].id < p.id
    BY <1>1 DEF NumbersOf, Among
  <1>3. /\ Increasing(v) /\ Len(v) = Len(w) + 1 /\ v[Len(w) + 1] = p
        /\ \A i \in 1 .. Len(w) : v[i] = w[i]
        /\ \A i \in 1 .. Len(w) + 1 : i \in 1 .. Len(w) \/ i = Len(w) + 1
    <2>1. Increasing(w) /\ \A i \in 1 .. Len(w) : w[i].id < p.id
      BY <1>1 DEF NumbersOf
    <2>. QED
      BY <2>1, IncreasingMore
  <1>4. /\ Increasing(r) /\ Len(r) = Len(q) + 1 /\ r[Len(q) + 1] = p
        /\ \A i \in 1 .. Len(q) : r[i] = q[i]
        /\ \A i \in 1 .. Len(q) + 1 : i \in 1 .. Len(q) \/ i = Len(q) + 1
    <2>1. Increasing(q)
      BY DEF NumbersOf
    <2>. QED
      BY <1>2, <2>1, IncreasingMore
  <1>5. Len(w) \in Nat /\ Len(q) \in Nat
    OBVIOUS
  <1>. HIDE DEF v, r
  <1>6. Among(r, v)
    <2>1. Len(w) + 1 \in 1 .. Len(v) /\ \A j \in 1 .. Len(w) : j \in 1 .. Len(v)
      BY <1>3, <1>5
    <2>2. ASSUME NEW i \in 1 .. Len(q) PROVE \E j \in 1 .. Len(v) : v[j] = r[i]
      <3>1. PICK j \in 1 .. Len(w) : w[j] = q[i]
        BY DEF NumbersOf, Among
      <3>. QED
        BY <1>3, <1>4, <2>1, <3>1
    <2>. QED
      BY <1>3, <1>4, <2>1, <2>2 DEF Among
  <1>7. /\ \A i \in 1 .. Len(v) : v[i].id <= n + 1
        /\ \A i \in 1 .. Len(d) : d[i].id <= n + 1
    <2>1. \A i \in 1 .. Len(d) : d[i].id <= n
      BY DEF NumbersOf
    <2>2. \A i \in 1 .. Len(w) : v[i].id <= n + 1
      BY <1>1, <1>3
    <2>3. v[Len(w) + 1].id <= n + 1
      BY <1>3
    <2>. QED
      BY <1>1, <1>3, <2>1, <2>2, <2>3
  <1>8. \A k \in acc : k \in 1 .. n + 1
    BY DEF NumbersOf
  <1>9. ASSUME NEW i \in 1 .. Len(d), NEW j \in 1 .. Len(r) PROVE d[i].id # r[j].id
    <2>1. CASE j \in 1 .. Len(q)
      BY <1>4, <2>1 DEF NumbersOf
    <2>2. CASE j = Len(q) + 1
      <3>1. d[i].id <= n /\ d[i].id \in Nat
        BY <1>1 DEF NumbersOf
      <3>. QED
        BY <1>4, <2>2, <3>1
    <2>. QED
      BY <1>4, <2>1, <2>2
  <1>. QED
    BY <1>3, <1>4, <1>6, <1>7, <1>8, <1>9 DEF NumbersOf, v, r

LEMMA NumbersPass ==
  ASSUME NEW w \in Seq(Proposals), NEW q \in Seq(Proposals), NEW d \in Seq(Answers), NEW acc,
         NEW n \in Nat, NEW on, NumbersOf(w, q, d, acc, n, on)
  PROVE  NumbersOf(w, q, d, acc, n + 1, on)
  <1>1. /\ \A i \in 1 .. Len(w) : w[i].id \in Nat
        /\ \A i \in 1 .. Len(d) : d[i].id \in Nat
    BY ProposalIds, AnswerIds
  <1>2. /\ \A i \in 1 .. Len(w) : w[i].id <= n + 1
        /\ \A i \in 1 .. Len(d) : d[i].id <= n + 1
        /\ \A k \in acc : k \in 1 .. n + 1
    BY <1>1 DEF NumbersOf
  <1>. QED
    BY <1>2 DEF NumbersOf

\* The room decides about the first proposal on its way.
LEMMA NumbersDecided ==
  ASSUME NEW w \in Seq(Proposals), NEW q \in Seq(Proposals), NEW d \in Seq(Answers), NEW acc,
         NEW n \in Nat, NEW on, NumbersOf(w, q, d, acc, n, on), q # <<>>,
         NEW more, more \subseteq {q[1].id}, NEW c,
         \/ c = d
         \/ \E m \in Answers : /\ c = Append(d, m) /\ m.id = q[1].id
                               /\ m.kind = "commit" => m.id \in acc \cup more
  PROVE  NumbersOf(w, Tail(q), c, acc \cup more, n, on) /\ on
  <1>. DEFINE r == Tail(q)
  <1>1. /\ Len(q) \in Nat /\ Len(q) >= 1 /\ 1 \in 1 .. Len(q) /\ Len(r) = Len(q) - 1
        /\ r \in Seq(Proposals)
        /\ \A i \in 1 .. Len(r) : r[i] = q[i + 1] /\ i + 1 \in 1 .. Len(q) /\ 1 < i + 1
    OBVIOUS
  <1>. HIDE DEF r
  <1>2. on
    BY DEF NumbersOf
  <1>3. Increasing(r)
    <2>1. ASSUME NEW i \in 1 .. Len(r), NEW j \in 1 .. Len(r), i < j
          PROVE  r[i].id < r[j].id
      <3>1. i + 1 < j + 1
        BY <1>1, <2>1
      <3>. QED
        BY <1>1, <3>1 DEF NumbersOf, Increasing
    <2>. QED
      BY <2>1 DEF Increasing
  <1>4. Among(r, w)
    BY <1>1 DEF NumbersOf, Among
  <1>5. q[1].id \in 1 .. n
    <2>1. PICK j \in 1 .. Len(w) : w[j] = q[1]
      BY <1>1 DEF NumbersOf, Among
    <2>2. w[j].id <= n /\ w[j].id \in Nat /\ w[j].id >= 1
      BY ProposalIds DEF NumbersOf
    <2>. QED
      BY <2>1, <2>2
  <1>6. \A k \in acc \cup more : k \in 1 .. n
    BY <1>5 DEF NumbersOf
  <1>7. ASSUME NEW j \in 1 .. Len(r) PROVE q[1].id # r[j].id
    <2>1. q[1].id < q[j + 1].id /\ r[j] = q[j + 1]
      BY <1>1 DEF NumbersOf, Increasing
    <2>. QED
      BY <1>5, <2>1
  <1>8. \A i \in 1 .. Len(d), j \in 1 .. Len(r) : d[i].id # r[j].id
    BY <1>1 DEF NumbersOf
  <1>9. CASE c = d
    BY <1>2, <1>3, <1>4, <1>6, <1>8, <1>9 DEF NumbersOf, r
  <1>10. ASSUME NEW m \in Answers, c = Append(d, m), m.id = q[1].id,
                m.kind = "commit" => m.id \in acc \cup more
         PROVE  NumbersOf(w, r, c, acc \cup more, n, on)
    <2>1. /\ Len(c) = Len(d) + 1 /\ c[Len(d) + 1] = m
          /\ \A i \in 1 .. Len(d) : c[i] = d[i]
          /\ \A i \in 1 .. Len(d) + 1 : i \in 1 .. Len(d) \/ i = Len(d) + 1
      BY <1>10
    <2>2. \A i \in 1 .. Len(c) : c[i].id <= n
      BY <1>5, <1>10, <2>1 DEF NumbersOf
    <2>3. \A i \in 1 .. Len(c), j \in 1 .. Len(r) : c[i].id # r[j].id
      BY <1>7, <1>8, <1>10, <2>1
    <2>4. \A i \in 1 .. Len(c) :
            c[i].kind = "commit" /\ c[i].id # 0 => c[i].id \in acc \cup more
      BY <1>10, <2>1 DEF NumbersOf
    <2>. QED
      BY <1>2, <1>3, <1>4, <1>6, <2>2, <2>3, <2>4 DEF NumbersOf
  <1>. QED
    BY <1>2, <1>9, <1>10 DEF r

\* Somebody else's edit is told.
LEMMA NumbersTold ==
  ASSUME NEW w \in Seq(Proposals), NEW q \in Seq(Proposals), NEW d \in Seq(Answers), NEW acc,
         NEW n \in Nat, NumbersOf(w, q, d, acc, n, TRUE), NEW m \in Answers, m.id = 0
  PROVE  NumbersOf(w, q, Append(d, m), acc, n, TRUE)
  <1>. DEFINE c == Append(d, m)
  <1>1. /\ Len(c) = Len(d) + 1 /\ c[Len(d) + 1] = m
        /\ \A i \in 1 .. Len(d) : c[i] = d[i]
        /\ \A i \in 1 .. Len(d) + 1 : i \in 1 .. Len(d) \/ i = Len(d) + 1
    OBVIOUS
  <1>. HIDE DEF c
  <1>2. \A j \in 1 .. Len(q) : q[j].id # 0
    BY ProposalIds
  <1>3. \A i \in 1 .. Len(c) : c[i].id <= n
    BY <1>1 DEF NumbersOf
  <1>4. \A i \in 1 .. Len(c), j \in 1 .. Len(q) : c[i].id # q[j].id
    BY <1>1, <1>2 DEF NumbersOf
  <1>5. \A i \in 1 .. Len(c) : c[i].kind = "commit" /\ c[i].id # 0 => c[i].id \in acc
    BY <1>1 DEF NumbersOf
  <1>. QED
    BY <1>3, <1>4, <1>5 DEF NumbersOf, c

\* An answer is received: what it decides is no longer waiting.
Decides(w, id, v) ==
  \/ v = w
  \/ \E i \in 1 .. Len(w) : w[i].id = id /\ v = RemoveAt(w, i)

LEMMA NumbersReceived ==
  ASSUME NEW w \in Seq(Proposals), NEW q \in Seq(Proposals), NEW d \in Seq(Answers), NEW acc,
         NEW n \in Nat, NEW on, NumbersOf(w, q, d, acc, n, on), d # <<>>, NEW v,
         Decides(w, d[1].id, v)
  PROVE  /\ NumbersOf(v, q, Tail(d), acc, n, on) /\ on
         /\ v \in Seq(Proposals)
         /\ \A k \in 1 .. Len(v) : \E j \in 1 .. Len(w) : v[k] = w[j]
         /\ v # w => d[1].id # 0 /\ \A k \in 1 .. Len(v) : v[k].id # d[1].id
  <1>. DEFINE c == Tail(d)
  <1>1. /\ Len(d) \in Nat /\ 1 \in 1 .. Len(d) /\ Len(c) = Len(d) - 1
        /\ \A i \in 1 .. Len(c) : c[i] = d[i + 1] /\ i + 1 \in 1 .. Len(d)
    OBVIOUS
  <1>. HIDE DEF c
  <1>2. on
    BY DEF NumbersOf
  <1>3. ASSUME NEW i \in 1 .. Len(c)
        PROVE  /\ c[i].id <= n
               /\ \A j \in 1 .. Len(q) : c[i].id # q[j].id
               /\ c[i].kind = "commit" /\ c[i].id # 0 => c[i].id \in acc
    <2>. DEFINE k == i + 1
    <2>1. k \in 1 .. Len(d) /\ c[i] = d[k]
      BY <1>1
    <2>. HIDE DEF k
    <2>. QED
      BY <2>1 DEF NumbersOf
  <1>4. CASE v = w
    <2>1. \A k \in 1 .. Len(v) : k \in 1 .. Len(w) /\ v[k] = w[k]
      BY <1>4
    <2>. QED
      BY <1>2, <1>3, <1>4, <2>1 DEF NumbersOf, c
  <1>5. ASSUME NEW i \in 1 .. Len(w), w[i].id = d[1].id, v = RemoveAt(w, i)
        PROVE  /\ NumbersOf(v, q, c, acc, n, on) /\ v \in Seq(Proposals)
               /\ \A k \in 1 .. Len(v) : \E j \in 1 .. Len(w) : v[k] = w[j]
               /\ d[1].id # 0 /\ \A k \in 1 .. Len(v) : v[k].id # d[1].id
    <2>. DEFINE at(k) == IF k < i THEN k ELSE k + 1
    <2>1. /\ v \in Seq(Proposals) /\ Len(v) = Len(w) - 1 /\ Len(w) \in Nat
          /\ \A k \in 1 .. Len(v) : v[k] = w[at(k)]
      <3>1. /\ RemoveAt(w, i) \in Seq(Proposals) /\ Len(RemoveAt(w, i)) = Len(w) - 1
            /\ \A k \in 1 .. Len(w) - 1 : RemoveAt(w, i)[k] = w[at(k)]
        BY RemovedPlaces
      <3>. HIDE DEF at
      <3>2. Len(w) \in Nat /\ v = RemoveAt(w, i)
        BY <1>5, LenProperties
      <3>. QED
        BY <3>1, <3>2
    <2>2. \A k \in 1 .. Len(v) : at(k) \in 1 .. Len(w) /\ at(k) # i
      BY <2>1
    <2>3. \A j, k \in 1 .. Len(v) : j < k => at(j) < at(k)
      BY <2>1
    <2>4. \A j \in 1 .. Len(w) : j # i => \E k \in 1 .. Len(v) : v[k] = w[j]
      BY <1>5, Removed
    <2>. HIDE DEF at
    <2>5. Increasing(v)
      BY <2>1, <2>2, <2>3 DEF NumbersOf, Increasing
    <2>6. ASSUME NEW k \in 1 .. Len(q) PROVE \E j \in 1 .. Len(v) : v[j] = q[k]
      <3>1. PICK j \in 1 .. Len(w) : w[j] = q[k]
        BY DEF NumbersOf, Among
      <3>2. w[j].id # w[i].id
        BY <1>1, <1>5, <3>1 DEF NumbersOf
      <3>. QED
        BY <2>4, <3>1, <3>2
    <2>7. \A k \in 1 .. Len(v) : v[k].id <= n
      BY <2>1, <2>2 DEF NumbersOf
    <2>8. ASSUME NEW k \in 1 .. Len(v) PROVE v[k].id # d[1].id
      <3>1. at(k) < i \/ i < at(k)
        BY <2>2, <2>1
      <3>2. w[at(k)].id \in Nat /\ w[i].id \in Nat
        BY <2>2, ProposalIds
      <3>3. w[at(k)].id # w[i].id
        <4>. DEFINE j == at(k)
        <4>1. j \in 1 .. Len(w) /\ (j < i \/ i < j)
          BY <2>2, <3>1
        <4>. HIDE DEF j
        <4>2. \/ w[j].id < w[i].id
              \/ w[i].id < w[j].id
          BY <4>1 DEF NumbersOf, Increasing
        <4>. QED
          BY <3>2, <4>2 DEF j
      <3>. QED
        BY <1>5, <2>1, <3>3
    <2>9. d[1].id # 0
      BY <1>5, ProposalIds
    <2>. QED
      BY <1>2, <1>3, <2>1, <2>2, <2>5, <2>6, <2>7, <2>8, <2>9 DEF NumbersOf, Among
  <1>. QED
    BY <1>2, <1>4, <1>5 DEF Decides, c

\* The connection is lost, or everything undecided is proposed again.
LEMMA NumbersReset ==
  ASSUME NEW w \in Seq(Proposals), NEW q \in Seq(Proposals), NEW d \in Seq(Answers), NEW acc,
         NEW n \in Nat, NEW on, NumbersOf(w, q, d, acc, n, on)
  PROVE  /\ NumbersOf(w, <<>>, <<>>, acc, n, FALSE)
         /\ NumbersOf(<<>>, <<>>, <<>>, acc, n, FALSE)
         /\ NumbersOf(w, w, <<>>, acc, n, TRUE)
  <1>1. Len(<<>>) = 0 /\ \A i \in 1 .. Len(<<>>) : FALSE
    OBVIOUS
  <1>2. Among(w, w) /\ Among(<<>>, w) /\ Among(<<>>, <<>>) /\ Increasing(<<>>)
    BY <1>1 DEF Among, Increasing
  <1>. QED
    BY <1>1, <1>2 DEF NumbersOf

-----------------------------------------------------------------------------
\* What batches do, and the batches that cross a step

\* A batch is about one element, and may create it.
Concerned(batch) == \A b, c \in batch : b.e = c.e
Creates(batch, e) == \E c \in batch : c.op = "create" /\ c.e = e

LEMMA BatchOutcome ==
  ASSUME NEW doc \in Docs, NEW batch \in SUBSET Commands, NEW id \in 0 .. MaxActs,
         Executable(doc, batch), NEW e \in Elements
  PROVE  /\ (\A c \in batch : c.e # e) => Executed(doc, batch, id)[e] = doc[e]
         /\ doc[e] # None /\ Executed(doc, batch, id)[e] # None =>
              Executed(doc, batch, id)[e].born = doc[e].born
         /\ doc[e] = None /\ Executed(doc, batch, id)[e] # None => Creates(batch, e)
         /\ batch = {Deleted(e)} => doc[e] # None /\ Executed(doc, batch, id)[e] = None
  <1>. DEFINE c == CHOOSE c \in batch : c.e = e
              now == Executed(doc, batch, id)[e]
  <1>1. now = IF \E b \in batch : b.e = e THEN Outcome(doc[e], c, id) ELSE doc[e]
    BY DEF Executed
  <1>2. ASSUME \E b \in batch : b.e = e
        PROVE  /\ c \in batch /\ c.e = e /\ c \in Commands
               /\ c.op = "create" <=> doc[e] = None
    BY <1>2 DEF Executable
  <1>3. doc[e] # None => doc[e] \in Records
    BY DocsAreRecords
  <1>. HIDE DEF c, now
  <1>4. (\A b \in batch : b.e # e) => now = doc[e]
    BY <1>1
  <1>5. CASE \E b \in batch : b.e = e
    <2>1. /\ c \in batch /\ c.e = e /\ now = Outcome(doc[e], c, id)
          /\ c.op = "create" <=> doc[e] = None
          /\ c.op \in {"create", "update", "delete"}
      BY <1>1, <1>2, <1>5 DEF Commands
    <2>2. c.op = "create" => Creates(batch, e)
      BY <2>1 DEF Creates
    <2>3. doc[e] # None /\ now # None => now.born = doc[e].born
      BY <1>3, <2>1 DEF Outcome, Records
    <2>4. ASSUME batch = {Deleted(e)} PROVE doc[e] # None /\ now = None
      <3>1. c.op = "delete"
        BY <2>1, <2>4 DEF Deleted
      <3>. QED
        BY <2>1, <3>1 DEF Outcome
    <2>. QED
      BY <1>4, <2>1, <2>2, <2>3, <2>4 DEF now
  <1>6. CASE ~ \E b \in batch : b.e = e
    <2>1. batch # {Deleted(e)}
      <3>1. Deleted(e).e = e
        BY DEF Deleted
      <3>. QED
        BY <1>6, <3>1
    <2>. QED
      BY <1>4, <1>6, <2>1 DEF now
  <1>. QED
    BY <1>5, <1>6

\* A step made an element, or unmade it; most leave most as they are.
Came(step, e) == step.kind = "structure" /\ step.before[e] = None /\ step.after[e] # None
Gone(step, e) == step.kind = "structure" /\ step.before[e] # None /\ step.after[e] = None
Same(step, e) ==
  /\ step.before[e] = None <=> step.after[e] = None
  /\ step.before[e] # None => step.before[e].color = step.after[e].color
Single(step) ==
  step.kind = "structure" => \A e, o \in Elements : e # o => Same(step, e) \/ Same(step, o)

\* Crossing a step brings an element back, or removes it.
Restores(step, back, e) == IF back THEN Gone(step, e) ELSE Came(step, e)
Removes(step, back, e) == IF back THEN Came(step, e) ELSE Gone(step, e)

LEMMA CrossingBatch ==
  ASSUME NEW step \in StructureSteps, NEW back \in BOOLEAN, replica \in Docs, Single(step)
  PROVE  /\ Concerned(Restoration(step, back, replica))
         /\ \A e \in Elements : Creates(Restoration(step, back, replica), e) =>
              Restores(step, back, e)
         /\ \A e \in Elements :
              Removes(step, back, e) /\ Restoration(step, back, replica) # {} =>
                Restoration(step, back, replica) = {Deleted(e)}
  <1>. DEFINE from == Goal(step, ~back)
              to == Goal(step, back)
              batch == Restoration(step, back, replica)
  <1>1. /\ step.kind = "structure"
        /\ \/ back /\ from = step.after /\ to = step.before
           \/ ~back /\ from = step.before /\ to = step.after
    BY DEF Goal, StructureSteps
  <1>2. batch = {Created(e, to[e]) : e \in {e \in Elements :
                   from[e] = None /\ to[e] # None /\ replica[e] = None}}
                \cup {Recolored(e, to[e].color) : e \in {e \in Elements :
                   /\ from[e] # None /\ to[e] # None /\ replica[e] # None
                   /\ from[e].color # to[e].color /\ replica[e].color # to[e].color}}
                \cup {Deleted(e) : e \in {e \in Elements :
                   from[e] # None /\ to[e] = None /\ replica[e] # None}}
    BY DEF Restoration, RestoreHistoryStep
  <1>. HIDE DEF from, to, batch
  <1>3. ASSUME NEW c \in batch
        PROVE  /\ c.e \in Elements /\ ~Same(step, c.e)
               /\ c.op = "create" => from[c.e] = None /\ to[c.e] # None
               /\ from[c.e] # None /\ to[c.e] = None => c = Deleted(c.e)
    <2>1. CASE \E e \in Elements : /\ c = Created(e, to[e])
                                   /\ from[e] = None /\ to[e] # None
      <3>1. PICK e \in Elements : c = Created(e, to[e]) /\ from[e] = None /\ to[e] # None
        BY <2>1
      <3>2. c.e = e
        BY <3>1 DEF Created
      <3>. QED
        BY <1>1, <3>1, <3>2 DEF Same
    <2>2. CASE \E e \in Elements : /\ c = Recolored(e, to[e].color)
                                   /\ from[e] # None /\ to[e] # None
                                   /\ from[e].color # to[e].color
      <3>1. PICK e \in Elements : /\ c = Recolored(e, to[e].color)
                                  /\ from[e] # None /\ to[e] # None
                                  /\ from[e].color # to[e].color
        BY <2>2
      <3>2. c.e = e /\ c.op = "update"
        BY <3>1 DEF Recolored
      <3>. QED
        BY <1>1, <3>1, <3>2 DEF Same
    <2>3. CASE \E e \in Elements : c = Deleted(e) /\ from[e] # None /\ to[e] = None
      <3>1. PICK e \in Elements : c = Deleted(e) /\ from[e] # None /\ to[e] = None
        BY <2>3
      <3>2. c.e = e /\ c.op = "delete"
        BY <3>1 DEF Deleted
      <3>. QED
        BY <1>1, <3>1, <3>2 DEF Same
    <2>. QED
      BY <1>2, <2>1, <2>2, <2>3
  <1>4. Concerned(batch)
    <2>1. ASSUME NEW b \in batch, NEW c \in batch, b.e # c.e PROVE FALSE
      <3>1. b.e \in Elements /\ c.e \in Elements /\ ~Same(step, b.e) /\ ~Same(step, c.e)
        BY <1>3
      <3>. QED
        BY <1>1, <2>1, <3>1 DEF Single
    <2>. QED
      BY <2>1 DEF Concerned
  <1>5. ASSUME NEW e \in Elements, Creates(batch, e) PROVE Restores(step, back, e)
    <2>1. PICK c \in batch : c.op = "create" /\ c.e = e
      BY <1>5 DEF Creates
    <2>2. from[e] = None /\ to[e] # None
      BY <1>3, <2>1
    <2>. QED
      BY <1>1, <2>2 DEF Restores, Gone, Came
  <1>6. ASSUME NEW e \in Elements, Removes(step, back, e), batch # {}
        PROVE  batch = {Deleted(e)}
    <2>1. from[e] # None /\ to[e] = None /\ ~Same(step, e)
      BY <1>1, <1>6 DEF Removes, Gone, Came, Same
    <2>2. ASSUME NEW c \in batch PROVE c = Deleted(e)
      <3>1. c.e \in Elements /\ ~Same(step, c.e)
        BY <1>3
      <3>2. c.e = e
        BY <1>1, <2>1, <3>1 DEF Single
      <3>. QED
        BY <1>3, <2>1, <3>2
    <2>. QED
      BY <1>6, <2>2
  <1>. QED
    BY <1>4, <1>5, <1>6 DEF batch

-----------------------------------------------------------------------------
\* The keys of an element: what may still bring it back

UndoKey(u, e, i) == i \in 1 .. Len(u) /\ Gone(u[i], e)
RedoKey(r, e, i) == i \in 1 .. Len(r) /\ Came(r[i], e)
WaitKey(w, acc, e, n) ==
  \E j \in 1 .. Len(w) : w[j].id = n /\ n \notin acc /\ Creates(w[j].batch, e)
KeysOf(u, r, w, acc, f, e) ==
  {<<"undo", i>> : i \in {i \in 1 .. Len(u) : UndoKey(u, e, i)}}
  \cup {<<"redo", i>> : i \in {i \in 1 .. Len(r) : RedoKey(r, e, i)}}
  \cup {<<"waiting", n>> : n \in {n \in 1 .. MaxActs : WaitKey(w, acc, e, n)}}
  \cup {<<"fresh", x>> : x \in f \cap {e}}
AtMostOne(K) == \A a, b \in K : a = b

LEMMA KeyCases ==
  ASSUME NEW u \in Seq(Steps), NEW r \in Seq(Steps), NEW w \in Seq(Proposals), NEW acc,
         NEW f, NEW e
  PROVE  /\ \A i : <<"undo", i>> \in KeysOf(u, r, w, acc, f, e) <=> UndoKey(u, e, i)
         /\ \A i : <<"redo", i>> \in KeysOf(u, r, w, acc, f, e) <=> RedoKey(r, e, i)
         /\ \A n : <<"waiting", n>> \in KeysOf(u, r, w, acc, f, e) <=> WaitKey(w, acc, e, n)
         /\ \A x : <<"fresh", x>> \in KeysOf(u, r, w, acc, f, e) <=> x = e /\ e \in f
         /\ \A k \in KeysOf(u, r, w, acc, f, e) :
              \/ \E i : k = <<"undo", i>>
              \/ \E i : k = <<"redo", i>>
              \/ \E n : k = <<"waiting", n>>
              \/ \E x : k = <<"fresh", x>>
  <1>1. /\ \A i : UndoKey(u, e, i) => i \in 1 .. Len(u)
        /\ \A i : RedoKey(r, e, i) => i \in 1 .. Len(r)
    BY DEF UndoKey, RedoKey
  <1>2. \A n : WaitKey(w, acc, e, n) => n \in 1 .. MaxActs
    <2>1. \A p \in Proposals : p.id \in 1 .. MaxActs
      BY DEF Proposals
    <2>2. \A j \in 1 .. Len(w) : w[j] \in Proposals
      OBVIOUS
    <2>. QED
      BY <2>1, <2>2 DEF WaitKey
  <1>. DEFINE K == KeysOf(u, r, w, acc, f, e)
  <1>3. \A i : <<"undo", i>> \in K <=> UndoKey(u, e, i)
    BY <1>1 DEF KeysOf
  <1>4. \A i : <<"redo", i>> \in K <=> RedoKey(r, e, i)
    BY <1>1 DEF KeysOf
  <1>5. \A n : <<"waiting", n>> \in K <=> WaitKey(w, acc, e, n)
    BY <1>2 DEF KeysOf
  <1>6. \A x : <<"fresh", x>> \in K <=> x = e /\ e \in f
    BY DEF KeysOf
  <1>7. \A k \in K :
          \/ \E i : k = <<"undo", i>>
          \/ \E i : k = <<"redo", i>>
          \/ \E n : k = <<"waiting", n>>
          \/ \E x : k = <<"fresh", x>>
    BY DEF KeysOf
  <1>. QED
    BY <1>3, <1>4, <1>5, <1>6, <1>7

LEMMA KeysWithin ==
  ASSUME NEW u \in Seq(Steps), NEW r \in Seq(Steps), NEW w \in Seq(Proposals), NEW acc, NEW f,
         NEW uu \in Seq(Steps), NEW rr \in Seq(Steps), NEW ww \in Seq(Proposals), NEW aa, NEW ff,
         NEW e, NEW X,
         \A i : UndoKey(uu, e, i) => UndoKey(u, e, i) \/ <<"undo", i>> \in X,
         \A i : RedoKey(rr, e, i) => RedoKey(r, e, i) \/ <<"redo", i>> \in X,
         \A n : WaitKey(ww, aa, e, n) => WaitKey(w, acc, e, n) \/ <<"waiting", n>> \in X,
         e \in ff => e \in f
  PROVE  KeysOf(uu, rr, ww, aa, ff, e) \subseteq KeysOf(u, r, w, acc, f, e) \cup X
  <1>. DEFINE K == KeysOf(u, r, w, acc, f, e)
              L == KeysOf(uu, rr, ww, aa, ff, e)
  <1>1. /\ \A i : <<"undo", i>> \in K <=> UndoKey(u, e, i)
        /\ \A i : <<"redo", i>> \in K <=> RedoKey(r, e, i)
        /\ \A n : <<"waiting", n>> \in K <=> WaitKey(w, acc, e, n)
        /\ \A x : <<"fresh", x>> \in K <=> x = e /\ e \in f
    BY KeyCases
  <1>2. /\ \A i : <<"undo", i>> \in L <=> UndoKey(uu, e, i)
        /\ \A i : <<"redo", i>> \in L <=> RedoKey(rr, e, i)
        /\ \A n : <<"waiting", n>> \in L <=> WaitKey(ww, aa, e, n)
        /\ \A x : <<"fresh", x>> \in L <=> x = e /\ e \in ff
        /\ \A k \in L :
             \/ \E i : k = <<"undo", i>>
             \/ \E i : k = <<"redo", i>>
             \/ \E n : k = <<"waiting", n>>
             \/ \E x : k = <<"fresh", x>>
    BY KeyCases
  <1>. HIDE DEF K, L
  <1>3. ASSUME NEW k \in L PROVE k \in K \cup X
    <2>1. ASSUME NEW i, k = <<"undo", i>> PROVE k \in K \cup X
      BY <1>1, <1>2, <1>3, <2>1
    <2>2. ASSUME NEW i, k = <<"redo", i>> PROVE k \in K \cup X
      BY <1>1, <1>2, <1>3, <2>2
    <2>3. ASSUME NEW n, k = <<"waiting", n>> PROVE k \in K \cup X
      BY <1>1, <1>2, <1>3, <2>3
    <2>4. ASSUME NEW x, k = <<"fresh", x>> PROVE k \in K \cup X
      BY <1>1, <1>2, <1>3, <2>4
    <2>. QED
      BY <1>2, <1>3, <2>1, <2>2, <2>3, <2>4
  <1>. QED
    BY <1>3 DEF K, L

\* The proposals that wait, one more and fewer.
LEMMA WaitKeysMore ==
  ASSUME NEW w \in Seq(Proposals), NEW p \in Proposals, NEW acc, NEW e, NEW n,
         WaitKey(Append(w, p), acc, e, n)
  PROVE  WaitKey(w, acc, e, n) \/ (n = p.id /\ Creates(p.batch, e))
  <1>1. PICK j \in 1 .. Len(Append(w, p)) :
          Append(w, p)[j].id = n /\ n \notin acc /\ Creates(Append(w, p)[j].batch, e)
    BY DEF WaitKey
  <1>2. /\ j \in 1 .. Len(w) \/ j = Len(w) + 1
        /\ \A i \in 1 .. Len(w) : Append(w, p)[i] = w[i]
        /\ Append(w, p)[Len(w) + 1] = p
    OBVIOUS
  <1>. QED
    BY <1>1, <1>2 DEF WaitKey

LEMMA WaitKeysFewer ==
  ASSUME NEW w, NEW v, NEW acc, NEW aa, NEW e, NEW n, acc \subseteq aa,
         \A k \in 1 .. Len(v) : \E j \in 1 .. Len(w) : v[k] = w[j],
         WaitKey(v, aa, e, n)
  PROVE  WaitKey(w, acc, e, n)
  <1>1. PICK k \in 1 .. Len(v) : v[k].id = n /\ n \notin aa /\ Creates(v[k].batch, e)
    BY DEF WaitKey
  <1>2. PICK j \in 1 .. Len(w) : v[k] = w[j]
    OBVIOUS
  <1>. QED
    BY <1>1, <1>2 DEF WaitKey

\* An element has at most one key, and while it has one nobody sees it, and it was not
\* somebody else who removed it.
KeptOf(K, rm, r, d, by, e) ==
  AtMostOne(K) /\ (K # {} => AbsentOf(rm, r, d, e) /\ by[e] # "other")
KeysOn(e) == KeysOf(undo, redo, waiting, accepted, fresh, e)
KeysKept == \A e \in Elements : KeptOf(KeysOn(e), room, replica, down, remover, e)

\* Batches and steps are about one element each.
Singles ==
  /\ \A i \in 1 .. Len(waiting) : Concerned(waiting[i].batch)
  /\ \A i \in 1 .. Len(undo) : Single(undo[i])
  /\ \A i \in 1 .. Len(redo) : Single(redo[i])
  /\ pending # None => Single(pending.step)

\* A restoration that removes an element does only that, and is what removed it.
RemovingOf(p, w, acc, rm, r, d, by, K, e) ==
  p # None /\ Removes(p.step, p.back, e) =>
    /\ \A i \in 1 .. Len(w) : w[i].id = p.id => w[i].batch = {Deleted(e)}
    /\ p.id \in acc =>
         /\ rm[e] = None /\ by[e] # "other" /\ K = {}
         /\ \A i \in 1 .. Len(d) : d[i].kind = "commit" /\ d[i].id = p.id =>
              \A j \in i .. Len(d) : Place(r, d, j)[e] = None
         /\ \A i \in 1 .. Len(d) : Removal(r, d, i, e) => d[i].id = p.id
Removing ==
  \A e \in Elements :
    RemovingOf(pending, waiting, accepted, room, replica, down, remover, KeysOn(e), e)

\* The open field shows what its step tells; its element is never awaited.
OpenFieldOf(o, u, w, acc, f, rm, r, d) ==
  o # None =>
    /\ r[o] # None => u[Len(u)].after = r[o].text
    /\ r[o] = None => AbsentOf(rm, r, d, o)
    /\ o \notin f
    /\ \A n \in 1 .. MaxActs : ~WaitKey(w, acc, o, n)
OpenField == OpenFieldOf(openText, undo, waiting, accepted, fresh, room, replica, down)

Linked == ChainOf(room, replica, down, connected, remover)
Numbers ==
  /\ NumbersOf(waiting, up, down, accepted, acts, connected)
  /\ connected \in BOOLEAN /\ (ready => connected)

LinkInv == Linked /\ Numbers /\ KeysKept /\ Singles /\ Removing /\ OpenField

-----------------------------------------------------------------------------
\* What every step keeps

\* The texts change, or nothing that the chain is about.
LEMMA ShiftedInPlace ==
  ASSUME NEW r, NEW d \in Seq(Answers), NEW s, \A e \in Elements : Alike(s[e], r[e])
  PROVE  Shifted(r, d, s, d, 0)
  <1>1. Len(d) \in Nat
    OBVIOUS
  <1>2. ASSUME NEW e \in Elements, NEW i \in 0 .. Len(d)
        PROVE  Alike(Place(s, d, i)[e], Place(r, d, i + 0)[e])
    <2>1. i + 0 = i
      OBVIOUS
    <2>2. CASE i = 0
      BY <2>1, <2>2 DEF Place
    <2>3. CASE i # 0
      BY <2>1, <2>3 DEF Place, Alike
    <2>. QED
      BY <2>2, <2>3
  <1>3. \A i \in 1 .. Len(d) : d[i] = d[i + 0]
    OBVIOUS
  <1>. QED
    BY <1>1, <1>2, <1>3 DEF Shifted

\* The first answer is taken, and integrated or found to change nothing.
LEMMA ShiftedOnce ==
  ASSUME NEW r, NEW d \in Seq(Answers), d # <<>>, NEW s,
         \A e \in Elements : Alike(s[e], d[1].doc[e])
  PROVE  Shifted(r, d, s, Tail(d), 1)
  <1>1. /\ Len(d) \in Nat /\ Len(Tail(d)) = Len(d) - 1
        /\ \A i \in 1 .. Len(Tail(d)) : Tail(d)[i] = d[i + 1]
    OBVIOUS
  <1>2. ASSUME NEW e \in Elements, NEW i \in 0 .. Len(Tail(d))
        PROVE  Alike(Place(s, Tail(d), i)[e], Place(r, d, i + 1)[e])
    <2>1. i + 1 # 0
      BY <1>1
    <2>2. CASE i = 0
      BY <2>2 DEF Place
    <2>3. CASE i # 0
      <3>1. i \in 1 .. Len(Tail(d))
        BY <1>1, <2>3
      <3>. QED
        BY <1>1, <2>1, <2>3, <3>1 DEF Place, Alike
    <2>. QED
      BY <2>2, <2>3
  <1>. QED
    BY <1>1, <1>2 DEF Shifted

LEMMA KeptFewer ==
  ASSUME NEW K, NEW L, L \subseteq K, NEW rm, NEW r, NEW d, NEW by, NEW e,
         KeptOf(K, rm, r, d, by, e),
         NEW rr, NEW s, NEW c, NEW to,
         L # {} /\ AbsentOf(rm, r, d, e) /\ by[e] # "other" =>
           AbsentOf(rr, s, c, e) /\ to[e] # "other"
  PROVE  KeptOf(L, rr, s, c, to, e)
  <1>1. AtMostOne(L) /\ (L # {} => K # {})
    BY DEF KeptOf, AtMostOne
  <1>. QED
    BY <1>1 DEF KeptOf

\* A restoration that is still under way, superseded or not.
StillRestoring(p, q) == q # None => p # None /\ q.step = p.step /\ q.back = p.back /\ q.id = p.id

RemovalDone(p, acc, e) == p # None /\ Removes(p.step, p.back, e) /\ p.id \in acc
FewerKeys(p, acc, K, L, e) == RemovalDone(p, acc, e) => L \subseteq K
NotNew(p, w, v) ==
  \A k \in 1 .. Len(v) : v[k].id = p.id => \E j \in 1 .. Len(w) : v[k] = w[j]
SameRemovals(r, d, s, c, n, e) ==
  \A i \in 1 .. Len(c) : Removal(s, c, i, e) <=> Removal(r, d, i + n, e)

LEMMA RemovingStays ==
  ASSUME NEW p, NEW w, NEW acc, NEW rm, NEW r, NEW d, NEW by, NEW K, NEW e \in Elements,
         RemovingOf(p, w, acc, rm, r, d, by, K, e),
         NEW q, StillRestoring(p, q), NEW v, NEW L, NEW s, NEW c, NEW n \in 0 .. 1,
         NotNew(p, w, v), FewerKeys(p, acc, K, L, e),
         Len(d) \in Nat, Len(c) \in Nat, Shifted(r, d, s, c, n), SameRemovals(r, d, s, c, n, e)
  PROVE  RemovingOf(q, v, acc, rm, s, c, by, L, e)
  <1>. SUFFICES ASSUME q # None, Removes(q.step, q.back, e)
                PROVE  /\ \A i \in 1 .. Len(v) : v[i].id = q.id => v[i].batch = {Deleted(e)}
                       /\ q.id \in acc =>
                            /\ rm[e] = None /\ by[e] # "other" /\ L = {}
                            /\ \A i \in 1 .. Len(c) : c[i].kind = "commit" /\ c[i].id = q.id =>
                                 \A j \in i .. Len(c) : Place(s, c, j)[e] = None
                            /\ \A i \in 1 .. Len(c) : Removal(s, c, i, e) => c[i].id = q.id
    BY DEF RemovingOf
  <1>1. p # None /\ Removes(p.step, p.back, e) /\ q.id = p.id
    BY DEF StillRestoring
  <1>2. /\ \A i \in 1 .. Len(w) : w[i].id = p.id => w[i].batch = {Deleted(e)}
        /\ p.id \in acc =>
             /\ rm[e] = None /\ by[e] # "other" /\ K = {}
             /\ \A i \in 1 .. Len(d) : d[i].kind = "commit" /\ d[i].id = p.id =>
                  \A j \in i .. Len(d) : Place(r, d, j)[e] = None
             /\ \A i \in 1 .. Len(d) : Removal(r, d, i, e) => d[i].id = p.id
    BY <1>1 DEF RemovingOf
  <1>3. \A i \in 1 .. Len(v) : v[i].id = q.id => v[i].batch = {Deleted(e)}
    BY <1>1, <1>2 DEF NotNew
  <1>4. /\ \A i \in 1 .. Len(c) : i + n \in 1 .. Len(d) /\ c[i] = d[i + n]
        /\ \A i \in 1 .. Len(c) : \A j \in i .. Len(c) : j + n \in i + n .. Len(d)
        /\ \A j \in 1 .. Len(c) : Alike(Place(s, c, j)[e], Place(r, d, j + n)[e])
    BY DEF Shifted
  <1>5. ASSUME q.id \in acc, NEW i \in 1 .. Len(c), c[i].kind = "commit", c[i].id = q.id,
               NEW j \in i .. Len(c)
        PROVE  Place(s, c, j)[e] = None
    <2>1. i + n \in 1 .. Len(d) /\ d[i + n].kind = "commit" /\ d[i + n].id = p.id
      BY <1>1, <1>4, <1>5
    <2>2. j + n \in i + n .. Len(d) /\ j \in 1 .. Len(c)
      BY <1>4
    <2>3. Place(r, d, j + n)[e] = None
      BY <1>1, <1>2, <1>5, <2>1, <2>2
    <2>. QED
      BY <1>4, <2>2, <2>3 DEF Alike
  <1>6. ASSUME q.id \in acc, NEW i \in 1 .. Len(c), Removal(s, c, i, e)
        PROVE  c[i].id = q.id
    BY <1>1, <1>2, <1>4, <1>6 DEF SameRemovals
  <1>. QED
    BY <1>1, <1>2, <1>3, <1>5, <1>6 DEF FewerKeys, RemovalDone

\* A gesture that proposes a batch.
LEMMA DispatchLinks ==
  ASSUME HistoryInv, HistoryInv', LinkInv, NEW o \in Elements, NEW cmd \in Commands,
         Dispatch({cmd}), cmd.e = o,
         IF cmd.op = "create" THEN o \in fresh /\ fresh' = fresh \ {o} ELSE fresh' = fresh
  PROVE  LinkInv'
  <1>. DEFINE p == [id |-> acts + 1, batch |-> {cmd}]
              Before(e) == KeysOf(undo, redo, waiting, accepted, fresh, e)
              After(e) == KeysOf(undo, redo, waiting', accepted, fresh', e)
  <1>1. /\ waiting \in Seq(Proposals) /\ up \in Seq(Proposals) /\ down \in Seq(Answers)
        /\ undo \in Seq(Steps) /\ redo \in Seq(Steps) /\ acts \in Nat
        /\ waiting' \in Seq(Proposals)
    BY HistoryAssumption DEF HistoryInv, DocumentTypes, StackInv, StackTypes
  <1>2. /\ acts' = acts + 1 /\ ready
        /\ waiting' = Append(waiting, p) /\ up' = Append(up, p)
        /\ UNCHANGED <<room, accepted, remover, undo, redo, pending, openText, down,
                       connected, ready, replica>>
    BY DEF Dispatch, Act, Propose, roomVars, historyVars
  <1>3. p \in Proposals
    <2>1. acts + 1 \in 1 .. MaxActs
      BY HistoryAssumption DEF Dispatch, Act, HistoryInv, DocumentTypes
    <2>. QED
      BY <2>1 DEF Proposals
  <1>4. p.id = acts + 1 /\ p.batch = {cmd}
    OBVIOUS
  <1>. HIDE DEF p
  <1>5. /\ Len(waiting') = Len(waiting) + 1 /\ waiting'[Len(waiting) + 1] = p
        /\ \A i \in 1 .. Len(waiting) : waiting'[i] = waiting[i]
        /\ \A i \in 1 .. Len(waiting) + 1 : i \in 1 .. Len(waiting) \/ i = Len(waiting) + 1
    BY <1>1, <1>2, <1>3
  <1>6. Linked'
    BY <1>2 DEF LinkInv, Linked
  <1>7. Numbers'
    <2>1. connected = TRUE /\ NumbersOf(waiting, up, down, accepted, acts, TRUE)
      BY <1>2 DEF LinkInv, Numbers
    <2>2. NumbersOf(waiting', up', down, accepted, acts + 1, TRUE)
      BY <1>1, <1>2, <1>3, <1>4, <2>1, NumbersProposed
    <2>. QED
      BY <1>2, <2>1, <2>2 DEF Numbers
  <1>8. ASSUME NEW e \in Elements
        PROVE  /\ KeptOf(After(e), room, replica, down, remover, e)
               /\ After(e) \subseteq Before(e) \/ (e = o /\ o \in fresh)
    <2>1. ASSUME NEW n, WaitKey(waiting', accepted, e, n)
          PROVE  WaitKey(waiting, accepted, e, n) \/ (n = acts + 1 /\ e = o /\ cmd.op = "create")
      <3>1. WaitKey(Append(waiting, p), accepted, e, n)
        BY <1>2, <2>1
      <3>2. WaitKey(waiting, accepted, e, n) \/ (n = p.id /\ Creates(p.batch, e))
        BY <1>1, <1>3, <3>1, WaitKeysMore
      <3>3. Creates({cmd}, e) => e = o /\ cmd.op = "create"
        BY DEF Creates
      <3>. QED
        BY <1>4, <3>2, <3>3
    <2>2. CASE e # o \/ cmd.op # "create"
      <3>1. e \in fresh' => e \in fresh
        OBVIOUS
      <3>2. After(e) \subseteq Before(e) \cup {}
        BY <1>1, <2>1, <2>2, <3>1, KeysWithin
      <3>3. KeptOf(Before(e), room, replica, down, remover, e)
        BY DEF LinkInv, KeysKept, KeysOn
      <3>. HIDE DEF Before, After
      <3>4. After(e) \subseteq Before(e)
        BY <3>2
      <3>. QED
        BY <3>3, <3>4, KeptFewer
    <2>3. CASE e = o /\ cmd.op = "create"
      <3>1. /\ <<"fresh", o>> \in Before(e) /\ o \in fresh
            /\ <<"fresh", o>> \notin After(e)
        BY <1>1, <2>3, KeyCases
      <3>2. After(e) \subseteq Before(e) \cup {<<"waiting", acts + 1>>}
        <4>. DEFINE X == {<<"waiting", acts + 1>>}
        <4>1. \A n : WaitKey(waiting', accepted, e, n) =>
                WaitKey(waiting, accepted, e, n) \/ <<"waiting", n>> \in X
          BY <2>1
        <4>2. e \in fresh' => e \in fresh
          OBVIOUS
        <4>. HIDE DEF X
        <4>3. After(e) \subseteq Before(e) \cup X
          BY <1>1, <4>1, <4>2, KeysWithin
        <4>. QED
          BY <4>3 DEF X
      <3>3. KeptOf(Before(e), room, replica, down, remover, e)
        BY DEF LinkInv, KeysKept, KeysOn
      <3>. HIDE DEF Before, After
      <3>4. After(e) \subseteq {<<"waiting", acts + 1>>}
        BY <3>1, <3>2, <3>3 DEF KeptOf, AtMostOne
      <3>. QED
        BY <2>3, <3>1, <3>3, <3>4 DEF KeptOf, AtMostOne
    <2>. QED
      BY <2>2, <2>3
  <1>9. KeysKept'
    BY <1>2, <1>8 DEF KeysKept, KeysOn
  <1>10. Singles'
    <2>1. Concerned(p.batch)
      BY <1>4 DEF Concerned
    <2>2. \A i \in 1 .. Len(waiting') : Concerned(waiting'[i].batch)
      BY <1>5, <2>1 DEF LinkInv, Singles
    <2>. QED
      BY <1>2, <2>2 DEF LinkInv, Singles
  <1>11. ASSUME NEW e \in Elements
         PROVE  RemovingOf(pending, waiting', accepted, room, replica, down, remover, After(e), e)
    <2>1. RemovingOf(pending, waiting, accepted, room, replica, down, remover, Before(e), e)
      BY DEF LinkInv, Removing, KeysOn
    <2>2. pending # None => pending.id # p.id
      <3>1. pending # None => \E i \in 1 .. Len(waiting) : waiting[i].id = pending.id
        BY DEF HistoryInv, Waits
      <3>2. \A i \in 1 .. Len(waiting) : waiting[i].id <= acts /\ waiting[i].id \in Nat
        BY <1>1, ProposalIds DEF LinkInv, Numbers, NumbersOf
      <3>. QED
        BY <1>1, <1>4, <3>1, <3>2
    <2>3. pending # None => NotNew(pending, waiting, waiting')
      BY <1>5, <2>2 DEF NotNew
    <2>4. ASSUME RemovalDone(pending, accepted, e)
          PROVE  After(e) \subseteq Before(e)
      <3>1. Before(e) = {}
        BY <2>1, <2>4 DEF RemovingOf, RemovalDone
      <3>2. o \in fresh /\ e = o => <<"fresh", o>> \in Before(e)
        BY <1>1, KeyCases
      <3>. HIDE DEF Before, After
      <3>. QED
        BY <1>8, <3>1, <3>2
    <2>5. CASE pending = None
      BY <2>5 DEF RemovingOf
    <2>6. CASE pending # None
      <3>1. Shifted(replica, down, replica, down, 0) /\ Len(down) \in Nat
        <4>1. \A a \in Elements : Alike(replica[a], replica[a])
          BY DEF Alike
        <4>. QED
          BY <1>1, <4>1, ShiftedInPlace
      <3>2. SameRemovals(replica, down, replica, down, 0, e)
        BY <1>1 DEF SameRemovals
      <3>. HIDE DEF Before, After
      <3>3. StillRestoring(pending, pending)
        BY DEF StillRestoring
      <3>4. FewerKeys(pending, accepted, Before(e), After(e), e)
        BY <2>4 DEF FewerKeys
      <3>5. NotNew(pending, waiting, waiting')
        BY <2>3, <2>6
      <3>6. 0 \in 0 .. 1
        OBVIOUS
      <3>. QED
        BY <2>1, <3>1, <3>2, <3>3, <3>4, <3>5, <3>6, RemovingStays
    <2>. QED
      BY <2>5, <2>6
  <1>12. Removing'
    BY <1>2, <1>11 DEF Removing, KeysOn
  <1>13. OpenField'
    <2>1. ASSUME openText # None, NEW n \in 1 .. MaxActs PROVE ~WaitKey(waiting', accepted, openText, n)
      <3>1. openText \notin fresh /\ ~WaitKey(waiting, accepted, openText, n)
        BY <2>1 DEF LinkInv, OpenField, OpenFieldOf
      <3>2. WaitKey(Append(waiting, p), accepted, openText, n) =>
              \/ WaitKey(waiting, accepted, openText, n)
              \/ Creates(p.batch, openText)
        BY <1>1, <1>3, WaitKeysMore
      <3>3. Creates({cmd}, openText) => openText = o /\ o \in fresh
        BY DEF Creates
      <3>. QED
        BY <1>2, <1>4, <3>1, <3>2, <3>3
    <2>2. openText \notin fresh => openText \notin fresh'
      OBVIOUS
    <2>. QED
      BY <1>2, <2>1, <2>2 DEF LinkInv, OpenField, OpenFieldOf
  <1>. QED
    BY <1>6, <1>7, <1>9, <1>10, <1>12, <1>13 DEF LinkInv

\* The session moves along the chain, or its texts change; the room does nothing.
LEMMA MovedLinks ==
  ASSUME HistoryInv, HistoryInv', LinkInv,
         UNCHANGED <<room, accepted, remover, fresh, connected>>,
         NEW n \in 0 .. 1, Shifted(replica, down, replica', down', n),
         Numbers', Singles', OpenField',
         StillRestoring(pending, pending'),
         \A k \in 1 .. Len(waiting') : \E j \in 1 .. Len(waiting) : waiting'[k] = waiting[j],
         \A e \in Elements :
           \/ KeysOn(e)' \subseteq KeysOn(e)
           \/ /\ KeptOf(KeysOn(e)', room, replica', down', remover, e)
              /\ pending' # None => ~RemovalDone(pending, accepted, e)
  PROVE  LinkInv'
  <1>1. /\ down \in Seq(Answers) /\ down' \in Seq(Answers)
        /\ Len(down) \in Nat /\ Len(down') \in Nat
        /\ (down = <<>> => Len(down) = 0) /\ (Len(down') = 0 => down' = <<>>)
    BY DEF HistoryInv, DocumentTypes
  <1>2. ChainOf(room, replica, down, connected, remover)
    BY DEF LinkInv, Linked
  <1>3. /\ ChainOf(room, replica', down', connected, remover)
        /\ \A e \in Elements :
             AbsentOf(room, replica, down, e) => AbsentOf(room, replica', down', e)
        /\ \A e \in Elements, i \in 1 .. Len(down') :
             Removal(replica', down', i, e) <=> Removal(replica, down, i + n, e)
    BY <1>1, <1>2, ChainShifted
  <1>4. Linked'
    BY <1>3 DEF Linked
  <1>5. ASSUME NEW e \in Elements PROVE KeptOf(KeysOn(e)', room, replica', down', remover, e)
    <2>. DEFINE K == KeysOn(e)
                L == KeysOn(e)'
    <2>1. KeptOf(K, room, replica, down, remover, e)
      BY DEF LinkInv, KeysKept
    <2>. HIDE DEF K, L
    <2>2. ASSUME L \subseteq K PROVE KeptOf(L, room, replica', down', remover, e)
      BY <1>3, <2>1, <2>2, KeptFewer
    <2>. QED
      BY <2>2 DEF K, L
  <1>6. KeysKept'
    BY <1>5 DEF KeysKept
  <1>7. ASSUME NEW e \in Elements
        PROVE  RemovingOf(pending', waiting', accepted, room, replica', down', remover,
                          KeysOn(e)', e)
    <2>. DEFINE K == KeysOn(e)
                L == KeysOn(e)'
    <2>1. RemovingOf(pending, waiting, accepted, room, replica, down, remover, K, e)
      BY DEF LinkInv, Removing
    <2>2. pending' # None => FewerKeys(pending, accepted, K, L, e)
      BY DEF FewerKeys
    <2>. HIDE DEF K, L
    <2>3. CASE pending' # None
      <3>1. SameRemovals(replica, down, replica', down', n, e)
        BY <1>3 DEF SameRemovals
      <3>2. NotNew(pending, waiting, waiting')
        BY DEF NotNew
      <3>3. FewerKeys(pending, accepted, K, L, e)
        BY <2>2, <2>3
      <3>4. RemovingOf(pending', waiting', accepted, room, replica', down', remover, L, e)
        BY <1>1, <2>1, <3>1, <3>2, <3>3, RemovingStays
      <3>. QED
        BY <3>4 DEF L
    <2>4. CASE pending' = None
      BY <2>4 DEF RemovingOf
    <2>. QED
      BY <2>3, <2>4
  <1>8. Removing'
    BY <1>7 DEF Removing
  <1>. QED
    BY <1>4, <1>6, <1>8 DEF LinkInv

\* What somebody sees has no key.
LEMMA PresentWithoutKey ==
  ASSUME HistoryInv, LinkInv, NEW e \in Elements,
         room[e] # None \/ \E i \in 0 .. Len(down) : Place(replica, down, i)[e] # None
  PROVE  /\ KeysOn(e) = {} /\ e \notin fresh
         /\ \A i : ~UndoKey(undo, e, i) /\ ~RedoKey(redo, e, i)
         /\ \A n : ~WaitKey(waiting, accepted, e, n)
  <1>1. undo \in Seq(Steps) /\ redo \in Seq(Steps) /\ waiting \in Seq(Proposals)
    BY DEF HistoryInv, DocumentTypes, StackInv, StackTypes
  <1>2. KeysOn(e) = {}
    BY DEF LinkInv, KeysKept, KeptOf, AbsentOf
  <1>. QED
    BY <1>1, <1>2, KeyCases DEF KeysOn

\* The keys of steps, with one step more and with only the first of them.
LEMMA StepKeysMore ==
  ASSUME NEW s \in Seq(Steps), NEW step \in Steps, NEW e, NEW i
  PROVE  /\ UndoKey(Append(s, step), e, i) =>
              UndoKey(s, e, i) \/ (i = Len(s) + 1 /\ Gone(step, e))
         /\ RedoKey(Append(s, step), e, i) =>
              RedoKey(s, e, i) \/ (i = Len(s) + 1 /\ Came(step, e))
  <1>1. /\ Len(s) \in Nat /\ Len(Append(s, step)) = Len(s) + 1
        /\ \A k \in 1 .. Len(s) : Append(s, step)[k] = s[k]
        /\ Append(s, step)[Len(s) + 1] = step
        /\ \A k \in 1 .. Len(s) + 1 : k \in 1 .. Len(s) \/ k = Len(s) + 1
    OBVIOUS
  <1>. QED
    BY <1>1 DEF UndoKey, RedoKey

LEMMA StepKeysFewer ==
  ASSUME NEW s \in Seq(Steps), NEW n \in 1 .. Len(s), NEW e, NEW i
  PROVE  /\ UndoKey(SubSeq(s, 1, n - 1), e, i) => UndoKey(s, e, i) /\ i # n
         /\ RedoKey(SubSeq(s, 1, n - 1), e, i) => RedoKey(s, e, i) /\ i # n
  <1>1. /\ Len(SubSeq(s, 1, n - 1)) = n - 1
        /\ \A k \in 1 .. n - 1 : SubSeq(s, 1, n - 1)[k] = s[k]
        /\ \A k \in 1 .. n - 1 : k \in 1 .. Len(s) /\ k # n
    BY LenProperties
  <1>. QED
    BY <1>1 DEF UndoKey, RedoKey

\* The steps of a stack, and one more.
LEMMA SingleMore ==
  ASSUME NEW s \in Seq(Steps), NEW step \in Steps, Single(step),
         \A i \in 1 .. Len(s) : Single(s[i])
  PROVE  \A i \in 1 .. Len(Append(s, step)) : Single(Append(s, step)[i])
  <1>1. /\ Len(s) \in Nat /\ Len(Append(s, step)) = Len(s) + 1
        /\ \A k \in 1 .. Len(s) : Append(s, step)[k] = s[k]
        /\ Append(s, step)[Len(s) + 1] = step
        /\ \A k \in 1 .. Len(s) + 1 : k \in 1 .. Len(s) \/ k = Len(s) + 1
    OBVIOUS
  <1>. QED
    BY <1>1

\* Stacks whose steps are fewer, or of no consequence, give no more keys.
LEMMA StacksWithin ==
  ASSUME HistoryInv, HistoryInv', NEW e,
         \A i : UndoKey(undo', e, i) => UndoKey(undo, e, i),
         \A i : RedoKey(redo', e, i) => RedoKey(redo, e, i),
         \A n : WaitKey(waiting', accepted', e, n) => WaitKey(waiting, accepted, e, n),
         fresh' = fresh
  PROVE  KeysOn(e)' \subseteq KeysOn(e)
  <1>1. /\ undo \in Seq(Steps) /\ redo \in Seq(Steps) /\ waiting \in Seq(Proposals)
        /\ undo' \in Seq(Steps) /\ redo' \in Seq(Steps) /\ waiting' \in Seq(Proposals)
    BY DEF HistoryInv, DocumentTypes, StackInv, StackTypes
  <1>2. KeysOf(undo', redo', waiting', accepted', fresh', e)
          \subseteq KeysOf(undo, redo, waiting, accepted, fresh, e) \cup {}
    BY <1>1, KeysWithin
  <1>. QED
    BY <1>2 DEF KeysOn

\* Text is typed.
LEMMA TypeLinks ==
  ASSUME HistoryInv, HistoryInv', LinkInv, NEW e \in Elements, Type(e)
  PROVE  LinkInv'
  <1>1. PICK v \in Contents :
          /\ replica' = [replica EXCEPT ![e].text = v]
          /\ IF openText = e
             THEN /\ undo' = [undo EXCEPT ![Len(undo)].after = v]
                  /\ UNCHANGED <<redo, pending>>
             ELSE Record(TextStep(e, replica[e].text, v, Now))
    BY DEF Type
  <1>2. /\ openText' = e /\ acts' = acts + 1 /\ replica[e] # None
        /\ UNCHANGED <<room, accepted, remover, up, down, connected, ready, waiting, fresh>>
    BY DEF Type, Act, Present, roomVars
  <1>3. /\ replica \in Docs /\ down \in Seq(Answers) /\ acts \in Nat
        /\ waiting \in Seq(Proposals) /\ up \in Seq(Proposals)
        /\ undo \in Seq(Steps) /\ redo \in Seq(Steps) /\ undo' \in Seq(Steps)
        /\ pending \in Restorations \cup {None}
    BY HistoryAssumption DEF HistoryInv, DocumentTypes, StackInv, StackTypes
  <1>4. /\ \A a \in Elements : Alike(replica'[a], replica[a])
        /\ replica'[e] # None /\ replica'[e].text = v
    <2>1. replica \in [Elements -> Records \cup {None}] /\ replica[e] \in Records
      BY <1>2, <1>3, DocsAreRecords
    <2>. DEFINE x == [replica[e] EXCEPT !.text = v]
    <2>2. /\ x \in Records /\ x.text = v
          /\ x.color = replica[e].color /\ x.born = replica[e].born
      BY <2>1 DEF Records
    <2>3. /\ replica'[e] = x
          /\ \A a \in Elements : a # e => replica'[a] = replica[a]
      BY <1>1, <2>1
    <2>. HIDE DEF x
    <2>4. x # None
      BY <2>2, HistoryAssumption
    <2>. QED
      BY <1>2, <2>2, <2>3, <2>4 DEF Alike
  <1>5. Shifted(replica, down, replica', down', 0)
    BY <1>2, <1>3, <1>4, ShiftedInPlace
  <1>6. Numbers'
    <2>1. NumbersOf(waiting, up, down, accepted, acts + 1, connected)
      BY <1>3, NumbersPass DEF LinkInv, Numbers
    <2>. QED
      BY <1>2, <2>1 DEF LinkInv, Numbers
  <1>7. /\ undo' # <<>> /\ undo'[Len(undo')].after = v
        /\ redo' = redo \/ redo' = <<>>
        /\ \A i \in 1 .. Len(undo') : Single(undo'[i])
        /\ \A a, i : UndoKey(undo', a, i) => UndoKey(undo, a, i)
        /\ \/ pending' = pending
           \/ pending' = Superseded(pending)
    <2>1. CASE openText = e
      <3>. DEFINE n == Len(undo)
                  next == [undo[n] EXCEPT !.after = v]
      <3>1. undo # <<>> /\ undo[n] \in TextSteps
        BY <2>1, HistoryAssumption DEF HistoryInv, StackInv, OpenIsLast
      <3>2. n \in 1 .. n
        BY <1>3, <3>1, EmptySeq
      <3>3. next \in TextSteps /\ next.after = v
        BY <3>1 DEF TextSteps
      <3>4. /\ Len(undo') = n /\ undo'[n] = next
            /\ \A i \in 1 .. n : i # n => undo'[i] = undo[i]
        <4>1. undo' = [undo EXCEPT ![n] = next]
          BY <1>1, <2>1
        <4>. HIDE DEF next
        <4>. QED
          BY <1>3, <3>2, <4>1
      <3>. HIDE DEF next
      <3>5. next.kind = "text"
        BY <3>3 DEF TextSteps
      <3>6. \A i \in 1 .. Len(undo') : Single(undo'[i])
        BY <3>4, <3>5 DEF LinkInv, Singles, Single
      <3>7. \A a, i : UndoKey(undo', a, i) => UndoKey(undo, a, i)
        BY <3>4, <3>5 DEF UndoKey, Gone
      <3>8. undo' # <<>>
        BY <1>3, <3>2, <3>4
      <3>. QED
        BY <1>1, <2>1, <3>3, <3>4, <3>6, <3>7, <3>8
    <2>2. CASE openText # e
      <3>. DEFINE step == TextStep(e, replica[e].text, v, Now)
      <3>1. /\ undo' = Append(undo, step) /\ redo' = <<>> /\ pending' = Superseded(pending)
        BY <1>1, <2>2 DEF Record
      <3>2. step \in Steps /\ step.kind = "text" /\ step.after = v
        <4>1. replica[e] \in Records
          BY <1>2, <1>3, DocsAreRecords
        <4>2. Now \in Nat
          BY NowIsLater DEF HistoryInv, StackInv
        <4>. QED
          BY <4>1, <4>2 DEF TextStep, TextSteps, Steps, Records
      <3>. HIDE DEF step
      <3>3. Single(step) /\ \A a : ~Gone(step, a)
        BY <3>2 DEF Single, Gone
      <3>4. \A i \in 1 .. Len(undo') : Single(undo'[i])
        BY <1>3, <3>1, <3>2, <3>3, SingleMore DEF LinkInv, Singles
      <3>5. \A a, i : UndoKey(undo', a, i) => UndoKey(undo, a, i)
        BY <1>3, <3>1, <3>2, <3>3, StepKeysMore
      <3>6. undo' # <<>> /\ undo'[Len(undo')] = step
        BY <1>3, <3>1, <3>2, AppendProperties
      <3>. QED
        BY <3>1, <3>2, <3>4, <3>5, <3>6
    <2>. QED
      BY <2>1, <2>2
  <1>8. /\ pending = None => Superseded(pending) = None
        /\ pending # None => /\ Superseded(pending).step = pending.step
                             /\ Superseded(pending).back = pending.back
                             /\ Superseded(pending).id = pending.id
    <2>1. pending # None => pending \in Restorations
      BY <1>3
    <2>. QED
      BY <2>1 DEF Superseded, Restorations
  <1>9. StillRestoring(pending, pending')
    BY <1>7, <1>8 DEF StillRestoring
  <1>10. Singles'
    BY <1>2, <1>7, <1>9 DEF LinkInv, Singles, StillRestoring
  <1>11. OpenField'
    <2>1. e \notin fresh /\ \A n : ~WaitKey(waiting, accepted, e, n)
      <3>1. 0 \in 0 .. Len(down) /\ Place(replica, down, 0)[e] # None
        BY <1>2, <1>3 DEF Place
      <3>. QED
        BY <3>1, PresentWithoutKey
    <2>. QED
      BY <1>2, <1>4, <1>7, <2>1 DEF OpenField, OpenFieldOf
  <1>12. \A a \in Elements : KeysOn(a)' \subseteq KeysOn(a)
    <2>1. \A a, i : RedoKey(redo', a, i) => RedoKey(redo, a, i)
      BY <1>7 DEF RedoKey
    <2>. QED
      BY <1>2, <1>7, <2>1, StacksWithin
  <1>13. \A k \in 1 .. Len(waiting') : \E j \in 1 .. Len(waiting) : waiting'[k] = waiting[j]
    BY <1>2
  <1>14. 0 \in 0 .. 1 /\ UNCHANGED <<room, accepted, remover, fresh, connected>>
    BY <1>2
  <1>. QED
    BY <1>5, <1>6, <1>9, <1>10, <1>11, <1>12, <1>13, <1>14, MovedLinks

\* Stacks that a step is taken from and put on again have no key more.
LEMMA QuietStacks ==
  ASSUME HistoryInv, LinkInv, NEW back \in BOOLEAN,
         \/ Stacks(back, <<>>, IF back THEN redo ELSE undo)
         \/ \E last \in 1 .. Len(IF back THEN undo ELSE redo) :
              LET source == IF back THEN undo ELSE redo
                  target == IF back THEN redo ELSE undo
                  below == SubSeq(source, 1, last - 1) IN
              \/ source[last].kind = "text" /\ Stacks(back, below, Append(target, source[last]))
              \/ Stacks(back, Append(below, source[last]), target)
  PROVE  /\ \A e, i : UndoKey(undo', e, i) => UndoKey(undo, e, i)
         /\ \A e, i : RedoKey(redo', e, i) => RedoKey(redo, e, i)
         /\ \A i \in 1 .. Len(undo') : Single(undo'[i])
         /\ \A i \in 1 .. Len(redo') : Single(redo'[i])
  <1>1. undo \in Seq(Steps) /\ redo \in Seq(Steps)
    BY DEF HistoryInv, StackInv, StackTypes
  <1>2. /\ \A i \in 1 .. Len(undo) : Single(undo[i])
        /\ \A i \in 1 .. Len(redo) : Single(redo[i])
    BY DEF LinkInv, Singles
  <1>3. ASSUME NEW s \in Seq(Steps), NEW n \in 1 .. Len(s), \A i \in 1 .. Len(s) : Single(s[i])
        PROVE  LET below == SubSeq(s, 1, n - 1) IN
               /\ below \in Seq(Steps) /\ s[n] \in Steps /\ Single(s[n])
               /\ \A i \in 1 .. Len(below) : Single(below[i])
               /\ \A e, i : UndoKey(below, e, i) => UndoKey(s, e, i)
               /\ \A e, i : RedoKey(below, e, i) => RedoKey(s, e, i)
               /\ Len(below) + 1 = n
    <2>. DEFINE below == SubSeq(s, 1, n - 1)
    <2>1. /\ below \in Seq(Steps) /\ Len(below) = n - 1 /\ s[n] \in Steps
          /\ \A i \in 1 .. n - 1 : below[i] = s[i] /\ i \in 1 .. Len(s)
      BY LenProperties
    <2>2. \A e, i : UndoKey(below, e, i) => UndoKey(s, e, i)
      BY StepKeysFewer
    <2>3. \A e, i : RedoKey(below, e, i) => RedoKey(s, e, i)
      BY StepKeysFewer
    <2>. HIDE DEF below
    <2>4. \A i \in 1 .. Len(below) : Single(below[i])
      BY <1>3, <2>1
    <2>5. Len(below) + 1 = n
      BY <2>1
    <2>. QED
      BY <1>3, <2>1, <2>2, <2>3, <2>4, <2>5 DEF below
  <1>4. ASSUME NEW s \in Seq(Steps), NEW n \in 1 .. Len(s), \A i \in 1 .. Len(s) : Single(s[i])
        PROVE  LET most == Append(SubSeq(s, 1, n - 1), s[n]) IN
               /\ \A i \in 1 .. Len(most) : Single(most[i])
               /\ \A e, i : UndoKey(most, e, i) => UndoKey(s, e, i)
               /\ \A e, i : RedoKey(most, e, i) => RedoKey(s, e, i)
    <2>. DEFINE below == SubSeq(s, 1, n - 1)
                most == Append(below, s[n])
    <2>1. /\ below \in Seq(Steps) /\ s[n] \in Steps /\ Single(s[n])
          /\ \A i \in 1 .. Len(below) : Single(below[i])
          /\ \A e, i : UndoKey(below, e, i) => UndoKey(s, e, i)
          /\ \A e, i : RedoKey(below, e, i) => RedoKey(s, e, i)
          /\ Len(below) + 1 = n
      BY <1>3, <1>4
    <2>. HIDE DEF below
    <2>2. \A i \in 1 .. Len(most) : Single(most[i])
      BY <2>1, SingleMore
    <2>3. \A e, i : UndoKey(most, e, i) => UndoKey(s, e, i)
      <3>1. \A e, i : UndoKey(most, e, i) => UndoKey(below, e, i) \/ (i = n /\ Gone(s[n], e))
        BY <2>1, StepKeysMore
      <3>2. \A e, i : i = n /\ Gone(s[n], e) => UndoKey(s, e, i)
        BY DEF UndoKey
      <3>. QED
        BY <2>1, <3>1, <3>2
    <2>4. \A e, i : RedoKey(most, e, i) => RedoKey(s, e, i)
      <3>1. \A e, i : RedoKey(most, e, i) => RedoKey(below, e, i) \/ (i = n /\ Came(s[n], e))
        BY <2>1, StepKeysMore
      <3>2. \A e, i : i = n /\ Came(s[n], e) => RedoKey(s, e, i)
        BY DEF RedoKey
      <3>. QED
        BY <2>1, <3>1, <3>2
    <2>. QED
      BY <2>2, <2>3, <2>4 DEF below
  <1>5. CASE Stacks(back, <<>>, IF back THEN redo ELSE undo)
    <2>1. \/ undo' = <<>> /\ redo' = redo
          \/ undo' = undo /\ redo' = <<>>
      BY <1>5 DEF Stacks
    <2>2. Len(<<>>) = 0 /\ \A i \in 1 .. Len(<<>>) : FALSE
      OBVIOUS
    <2>3. \A e, i : ~UndoKey(<<>>, e, i) /\ ~RedoKey(<<>>, e, i)
      BY <2>2 DEF UndoKey, RedoKey
    <2>. QED
      BY <1>2, <2>1, <2>2, <2>3
  <1>6. ASSUME NEW last \in 1 .. Len(IF back THEN undo ELSE redo),
               LET source == IF back THEN undo ELSE redo
                   target == IF back THEN redo ELSE undo
                   below == SubSeq(source, 1, last - 1) IN
               \/ source[last].kind = "text" /\ Stacks(back, below, Append(target, source[last]))
               \/ Stacks(back, Append(below, source[last]), target)
        PROVE  /\ \A e, i : UndoKey(undo', e, i) => UndoKey(undo, e, i)
               /\ \A e, i : RedoKey(redo', e, i) => RedoKey(redo, e, i)
               /\ \A i \in 1 .. Len(undo') : Single(undo'[i])
               /\ \A i \in 1 .. Len(redo') : Single(redo'[i])
    <2>. DEFINE source == IF back THEN undo ELSE redo
                target == IF back THEN redo ELSE undo
                step == source[last]
                below == SubSeq(source, 1, last - 1)
                most == Append(below, step)
                more == Append(target, step)
    <2>1. /\ source \in Seq(Steps) /\ target \in Seq(Steps) /\ last \in 1 .. Len(source)
          /\ \A i \in 1 .. Len(source) : Single(source[i])
          /\ \A i \in 1 .. Len(target) : Single(target[i])
      BY <1>1, <1>2
    <2>2. \/ step.kind = "text" /\ Stacks(back, below, more)
          \/ Stacks(back, most, target)
      BY <1>6
    <2>. HIDE DEF source, target
    <2>3. /\ below \in Seq(Steps) /\ step \in Steps /\ Single(step)
          /\ \A i \in 1 .. Len(below) : Single(below[i])
          /\ \A e, i : UndoKey(below, e, i) => UndoKey(source, e, i)
          /\ \A e, i : RedoKey(below, e, i) => RedoKey(source, e, i)
      BY <1>3, <2>1
    <2>4. /\ \A i \in 1 .. Len(most) : Single(most[i])
          /\ \A e, i : UndoKey(most, e, i) => UndoKey(source, e, i)
          /\ \A e, i : RedoKey(most, e, i) => RedoKey(source, e, i)
      BY <1>4, <2>1
    <2>. HIDE DEF step, below, most
    <2>5. ASSUME step.kind = "text"
          PROVE  /\ \A i \in 1 .. Len(more) : Single(more[i])
                 /\ \A e, i : UndoKey(more, e, i) => UndoKey(target, e, i)
                 /\ \A e, i : RedoKey(more, e, i) => RedoKey(target, e, i)
      <3>1. \A e : ~Gone(step, e) /\ ~Came(step, e)
        BY <2>5 DEF Gone, Came
      <3>. QED
        BY <2>1, <2>3, <3>1, SingleMore, StepKeysMore
    <2>. HIDE DEF more
    <2>6. CASE back
      <3>1. source = undo /\ target = redo
        BY <2>6 DEF source, target
      <3>2. \/ step.kind = "text" /\ undo' = below /\ redo' = more
            \/ undo' = most /\ redo' = redo
        BY <2>2, <2>6, <3>1 DEF Stacks
      <3>. QED
        BY <1>2, <2>3, <2>4, <2>5, <3>1, <3>2
    <2>7. CASE ~back
      <3>1. source = redo /\ target = undo
        BY <2>7 DEF source, target
      <3>2. \/ step.kind = "text" /\ redo' = below /\ undo' = more
            \/ redo' = most /\ undo' = undo
        BY <2>2, <2>7, <3>1 DEF Stacks
      <3>. QED
        BY <1>2, <2>3, <2>4, <2>5, <3>1, <3>2
    <2>. QED
      BY <2>6, <2>7
  <1>. QED
    BY <1>5, <1>6

\* A step is proposed again, or its reverse: its key is the batch that waits.
LEMMA ProposedLinks ==
  ASSUME HistoryInv, HistoryInv', LinkInv, NEW back \in BOOLEAN, Act, ready,
         NEW last \in 1 .. Len(IF back THEN undo ELSE redo),
         LET source == IF back THEN undo ELSE redo
             target == IF back THEN redo ELSE undo
             step == source[last] IN
         /\ step.kind = "structure" /\ ~Skipped(step, back)
         /\ Stacks(back, SubSeq(source, 1, last - 1), target)
         /\ Propose(Restoration(step, back, replica))
         /\ pending' = [id |-> acts + 1, step |-> step, back |-> back, superseded |-> FALSE],
         openText' = None,
         UNCHANGED <<room, accepted, remover, down, connected, ready, replica, fresh>>
  PROVE  LinkInv'
  <1>. DEFINE source == IF back THEN undo ELSE redo
              target == IF back THEN redo ELSE undo
              step == source[last]
              below == SubSeq(source, 1, last - 1)
              batch == Restoration(step, back, replica)
              p == [id |-> acts + 1, batch |-> batch]
              key == <<"waiting", acts + 1>>
              former == IF back THEN <<"undo", last>> ELSE <<"redo", last>>
  <1>1. /\ waiting \in Seq(Proposals) /\ up \in Seq(Proposals) /\ down \in Seq(Answers)
        /\ undo \in Seq(Steps) /\ redo \in Seq(Steps) /\ acts \in Nat
        /\ waiting' \in Seq(Proposals) /\ undo' \in Seq(Steps) /\ redo' \in Seq(Steps)
        /\ replica \in Docs
    BY HistoryAssumption DEF HistoryInv, DocumentTypes, StackInv, StackTypes
  <1>2. /\ step.kind = "structure" /\ batch # {}
        /\ Stacks(back, below, target)
        /\ waiting' = Append(waiting, p) /\ up' = Append(up, p) /\ acts' = acts + 1
        /\ pending' = [id |-> acts + 1, step |-> step, back |-> back, superseded |-> FALSE]
    BY DEF Skipped, Propose, Act
  <1>3. /\ source \in Seq(Steps) /\ target \in Seq(Steps) /\ last \in 1 .. Len(source)
        /\ Single(step) /\ step \in Steps
    BY <1>1 DEF LinkInv, Singles
  <1>4. step \in StructureSteps
    BY <1>2, <1>3 DEF Steps, TextSteps
  <1>5. /\ Concerned(batch)
        /\ \A e \in Elements : Creates(batch, e) => Restores(step, back, e)
        /\ \A e \in Elements : Removes(step, back, e) => batch = {Deleted(e)}
    <2>. HIDE DEF step
    <2>1. /\ Concerned(batch)
          /\ \A e \in Elements : Creates(batch, e) => Restores(step, back, e)
          /\ \A e \in Elements : Removes(step, back, e) /\ batch # {} => batch = {Deleted(e)}
      BY <1>1, <1>3, <1>4, CrossingBatch
    <2>. QED
      BY <1>2, <2>1
  <1>6. p \in Proposals
    <2>1. acts + 1 \in 1 .. MaxActs
      BY HistoryAssumption DEF Act, HistoryInv, DocumentTypes
    <2>2. batch \in SUBSET Commands
      BY <1>1, <1>4, RestoredBatch
    <2>. QED
      BY <2>1, <2>2 DEF Proposals
  <1>7. p.id = acts + 1 /\ p.batch = batch
    OBVIOUS
  <1>8. \/ back /\ undo' = below /\ redo' = redo /\ source = undo
        \/ ~back /\ undo' = undo /\ redo' = below /\ source = redo
    BY <1>2 DEF Stacks
  <1>. HIDE DEF p, batch
  <1>9. /\ Len(waiting') = Len(waiting) + 1 /\ waiting'[Len(waiting) + 1] = p
        /\ \A i \in 1 .. Len(waiting) : waiting'[i] = waiting[i]
        /\ \A i \in 1 .. Len(waiting) + 1 : i \in 1 .. Len(waiting) \/ i = Len(waiting) + 1
    BY <1>1, <1>2, <1>6
  <1>10. /\ pending'.id = acts + 1 /\ pending'.step = step /\ pending'.back = back
    BY <1>2
  <1>. HIDE DEF source, target, step, below
  <1>11. Linked'
    BY DEF LinkInv, Linked
  <1>12. Numbers'
    <2>1. connected = TRUE /\ NumbersOf(waiting, up, down, accepted, acts, TRUE)
      BY DEF LinkInv, Numbers
    <2>2. NumbersOf(waiting', up', down, accepted, acts + 1, TRUE)
      BY <1>1, <1>2, <1>6, <1>7, <2>1, NumbersProposed
    <2>. QED
      BY <1>2, <2>1, <2>2 DEF Numbers
  <1>13. Singles'
    <2>1. \A i \in 1 .. Len(waiting') : Concerned(waiting'[i].batch)
      BY <1>5, <1>7, <1>9 DEF LinkInv, Singles
    <2>2. \A i \in 1 .. Len(below) : Single(below[i])
      <3>1. \A i \in 1 .. last - 1 : below[i] = source[i] /\ i \in 1 .. Len(source)
        BY <1>3 DEF below
      <3>2. Len(below) = last - 1
        BY <1>3, LenProperties DEF below
      <3>. QED
        BY <1>8, <3>1, <3>2 DEF LinkInv, Singles
    <2>. QED
      BY <1>3, <1>8, <1>10, <2>1, <2>2 DEF LinkInv, Singles
  <1>14. ASSUME NEW e \in Elements
         PROVE  KeptOf(KeysOn(e)', room, replica, down, remover, e)
    <2>. DEFINE K == KeysOn(e)
                L == KeysOn(e)'
                X == {key}
    <2>1. KeptOf(K, room, replica, down, remover, e)
      BY DEF LinkInv, KeysKept
    <2>2. ASSUME NEW n, WaitKey(waiting', accepted, e, n)
          PROVE  WaitKey(waiting, accepted, e, n) \/ (n = acts + 1 /\ Creates(batch, e))
      <3>1. WaitKey(Append(waiting, p), accepted, e, n)
        BY <1>2, <2>2
      <3>2. WaitKey(waiting, accepted, e, n) \/ (n = p.id /\ Creates(p.batch, e))
        BY <1>1, <1>6, <3>1, WaitKeysMore
      <3>. QED
        BY <1>7, <3>2
    <2>3. /\ \A i : UndoKey(undo', e, i) => UndoKey(undo, e, i) /\ (back => i # last)
          /\ \A i : RedoKey(redo', e, i) => RedoKey(redo, e, i) /\ (~back => i # last)
      <3>1. /\ \A i : UndoKey(below, e, i) => UndoKey(source, e, i) /\ i # last
            /\ \A i : RedoKey(below, e, i) => RedoKey(source, e, i) /\ i # last
        BY <1>3, StepKeysFewer DEF below
      <3>. QED
        BY <1>8, <3>1
    <2>4. CASE ~Creates(batch, e)
      <3>1. L \subseteq K
        BY <2>2, <2>3, <2>4, StacksWithin
      <3>. HIDE DEF K, L
      <3>2. KeptOf(L, room, replica, down, remover, e)
        BY <2>1, <3>1, KeptFewer
      <3>. QED
        BY <3>2 DEF L
    <2>5. CASE Creates(batch, e)
      <3>1. former \in K
        <4>1. Restores(step, back, e)
          BY <1>5, <2>5
        <4>2. IF back THEN UndoKey(undo, e, last) ELSE RedoKey(redo, e, last)
          BY <1>3, <1>8, <4>1 DEF Restores, UndoKey, RedoKey, step
        <4>. QED
          BY <1>1, <4>2, KeyCases DEF KeysOn
      <3>2. former \notin L
        <4>1. \A i : <<"undo", i>> \in L <=> UndoKey(undo', e, i)
          BY <1>1, KeyCases DEF KeysOn
        <4>2. \A i : <<"redo", i>> \in L <=> RedoKey(redo', e, i)
          BY <1>1, KeyCases DEF KeysOn
        <4>. HIDE DEF L
        <4>. QED
          BY <2>3, <4>1, <4>2
      <3>3. L \subseteq K \cup X
        <4>1. \A n : WaitKey(waiting', accepted, e, n) =>
                WaitKey(waiting, accepted, e, n) \/ <<"waiting", n>> \in X
          BY <2>2
        <4>. HIDE DEF X
        <4>2. KeysOf(undo', redo', waiting', accepted, fresh, e)
                \subseteq KeysOf(undo, redo, waiting, accepted, fresh, e) \cup X
          BY <1>1, <2>3, <4>1, KeysWithin
        <4>. QED
          BY <4>2 DEF KeysOn
      <3>. HIDE DEF K, L, former
      <3>4. K = {former} /\ AbsentOf(room, replica, down, e) /\ remover[e] # "other"
        BY <2>1, <3>1 DEF KeptOf, AtMostOne
      <3>5. L \subseteq {key}
        BY <3>2, <3>3, <3>4
      <3>6. KeptOf(L, room, replica, down, remover, e)
        BY <3>4, <3>5 DEF KeptOf, AtMostOne
      <3>. QED
        BY <3>6 DEF L
    <2>. QED
      BY <2>4, <2>5
  <1>15. KeysKept'
    BY <1>14 DEF KeysKept
  <1>16. Removing'
    <2>1. acts + 1 \notin accepted
      <3>1. \A k \in accepted : k \in 1 .. acts
        BY DEF LinkInv, Numbers, NumbersOf
      <3>. QED
        BY <1>1, <3>1
    <2>2. \A i \in 1 .. Len(waiting') : waiting'[i].id = acts + 1 => waiting'[i].batch = batch
      <3>1. \A i \in 1 .. Len(waiting) : waiting[i].id # acts + 1
        <4>1. \A i \in 1 .. Len(waiting) : waiting[i].id <= acts
          BY DEF LinkInv, Numbers, NumbersOf
        <4>2. \A i \in 1 .. Len(waiting) : waiting[i].id \in Nat
          BY <1>1, ProposalIds
        <4>. QED
          BY <1>1, <4>1, <4>2
      <3>. QED
        BY <1>7, <1>9, <3>1
    <2>3. ASSUME NEW e \in Elements
          PROVE  RemovingOf(pending', waiting', accepted, room, replica, down, remover,
                            KeysOn(e)', e)
      <3>. DEFINE L == KeysOn(e)'
      <3>. HIDE DEF L
      <3>1. RemovingOf(pending', waiting', accepted, room, replica, down, remover, L, e)
        BY <1>5, <1>10, <2>1, <2>2 DEF RemovingOf
      <3>. QED
        BY <3>1 DEF L
    <2>. QED
      BY <2>3 DEF Removing
  <1>17. OpenField'
    BY DEF OpenField, OpenFieldOf
  <1>. QED
    BY <1>11, <1>12, <1>13, <1>15, <1>16, <1>17 DEF LinkInv

\* An undo or a redo.
LEMMA RestoreLinks ==
  ASSUME HistoryInv, HistoryInv', LinkInv, NEW back \in BOOLEAN, Restore(back)
  PROVE  LinkInv'
  <1>. DEFINE source == IF back THEN undo ELSE redo
              target == IF back THEN redo ELSE undo
  <1>1. /\ pending = None /\ Act /\ openText' = None /\ acts' = acts + 1
        /\ UNCHANGED <<room, accepted, remover, down, connected, ready, fresh>>
    BY DEF Restore, roomVars, Act
  <1>2. \/ /\ Stacks(back, <<>>, target)
           /\ UNCHANGED <<pending, replica, waiting, up>>
        \/ \E last \in 1 .. Len(source) :
             /\ ~Skipped(source[last], back)
             /\ Crosses(source[last], SubSeq(source, 1, last - 1), target, back)
    BY RestoreCases DEF HistoryInv, StackInv
  <1>3. /\ replica \in Docs /\ down \in Seq(Answers) /\ acts \in Nat
        /\ waiting \in Seq(Proposals) /\ up \in Seq(Proposals)
        /\ undo \in Seq(Steps) /\ redo \in Seq(Steps)
    BY HistoryAssumption DEF HistoryInv, DocumentTypes, StackInv, StackTypes
  <1>4. ASSUME UNCHANGED <<pending, waiting, up>>,
               \A a \in Elements : Alike(replica'[a], replica[a]),
               /\ \A e, i : UndoKey(undo', e, i) => UndoKey(undo, e, i)
               /\ \A e, i : RedoKey(redo', e, i) => RedoKey(redo, e, i)
               /\ \A i \in 1 .. Len(undo') : Single(undo'[i])
               /\ \A i \in 1 .. Len(redo') : Single(redo'[i])
        PROVE  LinkInv'
    <2>1. Shifted(replica, down, replica', down', 0)
      BY <1>1, <1>3, <1>4, ShiftedInPlace
    <2>2. Numbers'
      <3>1. NumbersOf(waiting, up, down, accepted, acts + 1, connected)
        BY <1>3, NumbersPass DEF LinkInv, Numbers
      <3>. QED
        BY <1>1, <1>4, <3>1 DEF LinkInv, Numbers
    <2>3. Singles'
      BY <1>1, <1>4 DEF LinkInv, Singles
    <2>4. OpenField'
      BY <1>1 DEF OpenField, OpenFieldOf
    <2>5. \A e \in Elements : KeysOn(e)' \subseteq KeysOn(e)
      BY <1>1, <1>4, StacksWithin
    <2>6. \A k \in 1 .. Len(waiting') : \E j \in 1 .. Len(waiting) : waiting'[k] = waiting[j]
      BY <1>4
    <2>7. StillRestoring(pending, pending')
      BY <1>4 DEF StillRestoring
    <2>8. 0 \in 0 .. 1
      OBVIOUS
    <2>. QED
      BY <1>1, <2>1, <2>2, <2>3, <2>4, <2>5, <2>6, <2>7, <2>8, MovedLinks
  <1>5. \A a \in Elements : Alike(replica[a], replica[a])
    BY DEF Alike
  <1>6. CASE Stacks(back, <<>>, target) /\ UNCHANGED <<pending, replica, waiting, up>>
    BY <1>4, <1>5, <1>6, QuietStacks
  <1>7. ASSUME NEW last \in 1 .. Len(source), ~Skipped(source[last], back),
               Crosses(source[last], SubSeq(source, 1, last - 1), target, back)
        PROVE  LinkInv'
    <2>. DEFINE step == source[last]
                below == SubSeq(source, 1, last - 1)
    <2>1. step \in Steps
      BY <1>3
    <2>2. CASE step.kind = "text"
      <3>1. /\ replica' = [replica EXCEPT ![step.e].text = Goal(step, back)]
            /\ Stacks(back, below, Append(target, step))
            /\ UNCHANGED <<pending, waiting, up>>
        BY <1>7, <2>2 DEF Crosses
      <3>2. /\ \A e, i : UndoKey(undo', e, i) => UndoKey(undo, e, i)
            /\ \A e, i : RedoKey(redo', e, i) => RedoKey(redo, e, i)
            /\ \A i \in 1 .. Len(undo') : Single(undo'[i])
            /\ \A i \in 1 .. Len(redo') : Single(redo'[i])
        BY <2>2, <3>1, QuietStacks
      <3>. HIDE DEF step
      <3>3. step \in TextSteps
        BY <2>1, <2>2 DEF Steps, StructureSteps
      <3>4. step.e \in Elements /\ Goal(step, back) \in Contents
        BY <3>3 DEF TextSteps, Goal
      <3>5. replica[step.e] # None
        BY <1>7, <2>2 DEF Skipped, step
      <3>6. ASSUME NEW a \in Elements PROVE Alike(replica'[a], replica[a])
        <4>. DEFINE e == step.e
                    x == [replica[e] EXCEPT !.text = Goal(step, back)]
        <4>1. replica \in [Elements -> Records \cup {None}] /\ replica[e] \in Records
          BY <1>3, <3>4, <3>5, DocsAreRecords
        <4>2. x \in Records /\ x.color = replica[e].color /\ x.born = replica[e].born
          BY <3>4, <4>1 DEF Records
        <4>3. /\ replica'[e] = x
              /\ a # e => replica'[a] = replica[a]
          BY <3>1, <3>4, <4>1
        <4>. HIDE DEF x
        <4>4. x # None
          BY <4>2, HistoryAssumption
        <4>. QED
          BY <3>5, <4>2, <4>3, <4>4 DEF Alike
      <3>. QED
        BY <1>4, <3>1, <3>2, <3>6
    <2>3. CASE step.kind = "structure" /\ ~ready
      <3>1. /\ Stacks(back, Append(below, step), target)
            /\ UNCHANGED <<pending, replica, waiting, up>>
        BY <1>7, <2>3 DEF Crosses
      <3>2. /\ \A e, i : UndoKey(undo', e, i) => UndoKey(undo, e, i)
            /\ \A e, i : RedoKey(redo', e, i) => RedoKey(redo, e, i)
            /\ \A i \in 1 .. Len(undo') : Single(undo'[i])
            /\ \A i \in 1 .. Len(redo') : Single(redo'[i])
        BY <3>1, QuietStacks
      <3>. QED
        BY <1>4, <1>5, <3>1, <3>2
    <2>4. CASE step.kind = "structure" /\ ready
      <3>1. /\ Stacks(back, below, target)
            /\ Propose(Restoration(step, back, replica))
            /\ pending' = [id |-> acts + 1, step |-> step, back |-> back, superseded |-> FALSE]
            /\ replica' = replica
        BY <1>7, <2>4 DEF Crosses
      <3>. QED
        BY <1>1, <1>7, <2>4, <3>1, ProposedLinks
    <2>. QED
      BY <1>7, <2>2, <2>3, <2>4 DEF Crosses
  <1>. QED
    BY <1>2, <1>6, <1>7

\* The documents that are integrated differ by their texts alone.
LEMMA IntegratedAlike ==
  ASSUME replica \in Docs, NEW doc \in Docs, NEW e \in Elements
  PROVE  /\ Alike(Integrated(doc)[e], doc[e])
         /\ replica[e] # None /\ doc[e] # None /\ replica[e].born = doc[e].born =>
              Integrated(doc)[e].text = replica[e].text
  <1>1. Integrated(doc)[e] =
          IF doc[e] # None /\ replica[e] # None /\ replica[e].born = doc[e].born
          THEN [doc[e] EXCEPT !.text = replica[e].text] ELSE doc[e]
    BY DEF Integrated
  <1>2. CASE doc[e] # None /\ replica[e] # None /\ replica[e].born = doc[e].born
    <2>. DEFINE x == [doc[e] EXCEPT !.text = replica[e].text]
    <2>1. doc[e] \in Records /\ replica[e] \in Records
      BY <1>2, DocsAreRecords
    <2>2. /\ x \in Records /\ x.color = doc[e].color /\ x.born = doc[e].born
          /\ x.text = replica[e].text
      BY <2>1 DEF Records
    <2>3. Integrated(doc)[e] = x
      BY <1>1, <1>2
    <2>. HIDE DEF x
    <2>4. x # None
      BY <2>2, HistoryAssumption
    <2>. QED
      BY <1>2, <2>2, <2>3, <2>4 DEF Alike
  <1>3. CASE ~ (doc[e] # None /\ replica[e] # None /\ replica[e].born = doc[e].born)
    BY <1>1, <1>3 DEF Alike
  <1>. QED
    BY <1>2, <1>3

\* Nothing is on its way to the session any more.
LEMMA AloneLinks ==
  ASSUME HistoryInv, HistoryInv', LinkInv,
         UNCHANGED <<accepted, fresh>>, down' = <<>>,
         \A e \in Elements : room'[e] # None /\ replica'[e] # None =>
           room'[e].born = replica'[e].born,
         connected' => \A e \in Elements : Alike(room'[e], replica'[e]),
         \A e \in Elements : AbsentOf(room, replica, down, e) => replica'[e] = None,
         \A e \in Elements : room[e] = None => room'[e] = None /\ remover'[e] = remover[e],
         Numbers', Singles', OpenField',
         StillRestoring(pending, pending'),
         \A k \in 1 .. Len(waiting') : \E j \in 1 .. Len(waiting) : waiting'[k] = waiting[j],
         \A e \in Elements : KeysOn(e)' \subseteq KeysOn(e)
  PROVE  LinkInv'
  <1>1. /\ ChainOf(room', replica', down', connected', remover')
        /\ \A e \in Elements : AbsentOf(room', replica', down', e)
             <=> room'[e] = None /\ replica'[e] = None
        /\ \A i \in 1 .. Len(down') : FALSE
    <2>1. \A i \in 1 .. Len(<<>>) : FALSE
      OBVIOUS
    <2>2. ChainOf(room', replica', <<>>, connected', remover')
      BY ChainAlone
    <2>3. \A i \in 0 .. Len(<<>>) : i = 0
      OBVIOUS
    <2>4. 0 \in 0 .. Len(<<>>)
      OBVIOUS
    <2>5. \A e : AbsentOf(room', replica', <<>>, e) <=> room'[e] = None /\ replica'[e] = None
      BY <2>3, <2>4 DEF AbsentOf, Place
    <2>. QED
      BY <2>1, <2>2, <2>5
  <1>2. Linked'
    BY <1>1 DEF Linked
  <1>3. ASSUME NEW e \in Elements PROVE KeptOf(KeysOn(e)', room', replica', down', remover', e)
    <2>. DEFINE K == KeysOn(e)
                L == KeysOn(e)'
    <2>1. KeptOf(K, room, replica, down, remover, e) /\ L \subseteq K
      BY DEF LinkInv, KeysKept
    <2>2. AbsentOf(room, replica, down, e) => AbsentOf(room', replica', down', e)
      BY <1>1 DEF AbsentOf
    <2>4. AbsentOf(room, replica, down, e) => remover'[e] = remover[e]
      BY DEF AbsentOf
    <2>. HIDE DEF K, L
    <2>3. KeptOf(L, room', replica', down', remover', e)
      BY <2>1, <2>2, <2>4, KeptFewer
    <2>. QED
      BY <2>3 DEF L
  <1>4. KeysKept'
    BY <1>3 DEF KeysKept
  <1>5. ASSUME NEW e \in Elements
        PROVE  RemovingOf(pending', waiting', accepted, room', replica', down', remover',
                          KeysOn(e)', e)
    <2>. DEFINE K == KeysOn(e)
                L == KeysOn(e)'
    <2>1. RemovingOf(pending, waiting, accepted, room, replica, down, remover, K, e)
      BY DEF LinkInv, Removing
    <2>2. L \subseteq K
      OBVIOUS
    <2>. HIDE DEF K, L
    <2>3. RemovingOf(pending', waiting', accepted, room', replica', down', remover', L, e)
      <3>1. CASE pending' # None /\ Removes(pending'.step, pending'.back, e)
        <4>1. /\ pending # None /\ Removes(pending.step, pending.back, e)
              /\ pending'.id = pending.id
          BY <3>1 DEF StillRestoring
        <4>2. \A i \in 1 .. Len(waiting') :
                waiting'[i].id = pending'.id => waiting'[i].batch = {Deleted(e)}
          BY <2>1, <4>1 DEF RemovingOf
        <4>3. pending'.id \in accepted => room'[e] = None /\ remover'[e] # "other" /\ L = {}
          BY <2>1, <2>2, <4>1 DEF RemovingOf
        <4>. QED
          BY <1>1, <4>2, <4>3 DEF RemovingOf
      <3>. QED
        BY <3>1 DEF RemovingOf
    <2>. QED
      BY <2>3 DEF L
  <1>6. Removing'
    BY <1>5 DEF Removing
  <1>. QED
    BY <1>2, <1>4, <1>6 DEF LinkInv

\* The session ends, or loses its connection.
LEMMA LostLinks ==
  ASSUME HistoryInv, HistoryInv', LinkInv, Close \/ Lose
  PROVE  LinkInv'
  <1>1. /\ UNCHANGED <<room, accepted, remover, fresh, replica, acts>>
        /\ up' = <<>> /\ down' = <<>> /\ connected' = FALSE /\ ready' = FALSE
        /\ \/ /\ UNCHANGED <<waiting, undo, redo, pending, openText>>
           \/ /\ waiting' = <<>> /\ undo' = <<>> /\ redo' = <<>>
              /\ pending' = None /\ openText' = None
    BY DEF Close, Lose, roomVars, historyVars
  <1>2. /\ down \in Seq(Answers) /\ acts \in Nat
        /\ waiting \in Seq(Proposals) /\ up \in Seq(Proposals)
    BY HistoryAssumption DEF HistoryInv, DocumentTypes
  <1>3. \A i \in 1 .. Len(<<>>) : FALSE
    OBVIOUS
  <1>4. \A e \in Elements : room[e] # None /\ replica'[e] # None =>
          room[e].born = replica'[e].born
    BY <1>1 DEF LinkInv, Linked, ChainOf, Leads
  <1>5. \A e \in Elements : AbsentOf(room, replica, down, e) =>
          room[e] = None /\ replica'[e] = None
    <2>1. 0 \in 0 .. Len(down) /\ Place(replica, down, 0) = replica
      BY <1>2 DEF Place
    <2>. QED
      BY <1>1, <2>1 DEF AbsentOf
  <1>6. Numbers'
    <2>1. NumbersOf(waiting, up, down, accepted, acts, connected)
      BY DEF LinkInv, Numbers
    <2>2. NumbersOf(waiting', <<>>, <<>>, accepted, acts, FALSE)
      BY <1>1, <1>2, <2>1, NumbersReset
    <2>. QED
      BY <1>1, <2>2 DEF Numbers
  <1>7. Singles'
    BY <1>1, <1>3 DEF LinkInv, Singles
  <1>8. OpenField'
    <2>1. CASE openText' = None
      BY <2>1 DEF OpenField, OpenFieldOf
    <2>2. CASE UNCHANGED <<waiting, undo, openText>>
      <3>1. \A e \in Elements : AbsentOf(room, replica, down, e) =>
              AbsentOf(room, replica', down', e)
        <4>1. \A i \in 0 .. Len(<<>>) : i = 0
          OBVIOUS
        <4>. QED
          BY <1>1, <1>5, <4>1 DEF AbsentOf, Place
      <3>2. openText # None => openText \in Elements
        BY DEF HistoryInv, StackInv, StackTypes
      <3>. QED
        BY <1>1, <2>2, <3>1, <3>2 DEF LinkInv, OpenField, OpenFieldOf
    <2>. QED
      BY <1>1, <2>1, <2>2
  <1>9. \A k \in 1 .. Len(waiting') : \E j \in 1 .. Len(waiting) : waiting'[k] = waiting[j]
    BY <1>1, <1>3
  <1>10. \A e \in Elements : KeysOn(e)' \subseteq KeysOn(e)
    <2>1. \A e, i : UndoKey(undo', e, i) => UndoKey(undo, e, i)
      BY <1>1, <1>3 DEF UndoKey
    <2>2. \A e, i : RedoKey(redo', e, i) => RedoKey(redo, e, i)
      BY <1>1, <1>3 DEF RedoKey
    <2>3. \A e, n : WaitKey(waiting', accepted', e, n) => WaitKey(waiting, accepted, e, n)
      BY <1>1, <1>3 DEF WaitKey
    <2>. QED
      BY <1>1, <2>1, <2>2, <2>3, StacksWithin
  <1>11. StillRestoring(pending, pending')
    BY <1>1 DEF StillRestoring
  <1>. QED
    BY <1>1, <1>4, <1>5, <1>6, <1>7, <1>8, <1>9, <1>10, <1>11, AloneLinks

\* The session synchronizes.
LEMMA SynchronizeLinks ==
  ASSUME HistoryInv, HistoryInv', LinkInv, Synchronize
  PROVE  LinkInv'
  <1>1. /\ UNCHANGED <<room, accepted, remover, fresh, acts, waiting, undo, redo, pending,
                       openText>>
        /\ up' = waiting /\ down' = <<>> /\ down = <<>>
        /\ connected' = TRUE /\ ready' = TRUE /\ replica' = Integrated(room)
    BY DEF Synchronize, historyVars
  <1>2. /\ down \in Seq(Answers) /\ acts \in Nat /\ room \in Docs /\ replica \in Docs
        /\ waiting \in Seq(Proposals) /\ up \in Seq(Proposals)
    BY HistoryAssumption DEF HistoryInv, DocumentTypes
  <1>3. \A e \in Elements : Alike(replica'[e], room[e]) /\ Alike(room[e], replica'[e])
    BY <1>1, <1>2, IntegratedAlike DEF Alike
  <1>4. \A e \in Elements : room[e] # None /\ replica'[e] # None =>
          room[e].born = replica'[e].born
    BY <1>3 DEF Alike
  <1>5. \A e \in Elements : AbsentOf(room, replica, down, e) => replica'[e] = None
    BY <1>3 DEF AbsentOf, Alike
  <1>6. Numbers'
    <2>1. NumbersOf(waiting, up, down, accepted, acts, connected)
      BY DEF LinkInv, Numbers
    <2>2. NumbersOf(waiting, waiting, <<>>, accepted, acts, TRUE)
      BY <1>2, <2>1, NumbersReset
    <2>. QED
      BY <1>1, <2>2 DEF Numbers
  <1>7. Singles'
    BY <1>1 DEF LinkInv, Singles
  <1>8. OpenField'
    <2>1. SUFFICES ASSUME openText # None
                   PROVE  /\ replica'[openText] # None =>
                               undo[Len(undo)].after = replica'[openText].text
                          /\ replica'[openText] = None =>
                               AbsentOf(room, replica', down', openText)
      BY <1>1 DEF LinkInv, OpenField, OpenFieldOf
    <2>2. openText \in Elements
      BY <2>1 DEF HistoryInv, StackInv, StackTypes
    <2>3. ASSUME replica'[openText] # None
          PROVE  undo[Len(undo)].after = replica'[openText].text
      <3>1. room[openText] # None
        BY <1>3, <2>2, <2>3 DEF Alike
      <3>2. replica[openText] # None /\ undo[Len(undo)].after = replica[openText].text
        BY <2>1, <3>1 DEF LinkInv, OpenField, OpenFieldOf, AbsentOf
      <3>3. replica[openText].born = room[openText].born
        BY <2>2, <3>1, <3>2 DEF LinkInv, Linked, ChainOf, Leads
      <3>. QED
        BY <1>1, <1>2, <2>2, <3>1, <3>2, <3>3, IntegratedAlike
    <2>4. ASSUME replica'[openText] = None PROVE AbsentOf(room, replica', down', openText)
      <3>1. room[openText] = None
        BY <1>3, <2>2, <2>4 DEF Alike
      <3>2. \A i \in 0 .. Len(<<>>) : i = 0
        OBVIOUS
      <3>. QED
        BY <1>1, <2>4, <3>1, <3>2 DEF AbsentOf, Place
    <2>. QED
      BY <2>3, <2>4
  <1>9. \A k \in 1 .. Len(waiting') : \E j \in 1 .. Len(waiting) : waiting'[k] = waiting[j]
    BY <1>1
  <1>10. \A e \in Elements : KeysOn(e)' \subseteq KeysOn(e)
    BY <1>1, StacksWithin
  <1>11. StillRestoring(pending, pending')
    BY <1>1 DEF StillRestoring
  <1>. QED
    BY <1>1, <1>3, <1>4, <1>5, <1>6, <1>7, <1>8, <1>9, <1>10, <1>11, AloneLinks

\* An answer is received.
LEMMA ReceivedFacts ==
  ASSUME HistoryInv, LinkInv, NEW kind \in {"commit", "conflict"}, Received(kind)
  PROVE  /\ down \in Seq(Answers) /\ down # <<>> /\ 1 \in 1 .. Len(down)
         /\ 1 \in 0 .. Len(down) /\ 0 \in 0 .. Len(down)
         /\ Head(down) = down[1] /\ down[1] \in Answers /\ down[1].kind = kind
         /\ down' = Tail(down) /\ Place(replica, down, 0) = replica
         /\ Place(replica, down, 1) = down[1].doc
         /\ NumbersOf(waiting', up, down', accepted, acts, connected) /\ connected = TRUE
         /\ \A k \in 1 .. Len(waiting') : \E j \in 1 .. Len(waiting) : waiting'[k] = waiting[j]
         /\ \A e, n : WaitKey(waiting', accepted, e, n) => WaitKey(waiting, accepted, e, n)
         /\ waiting' # waiting => down[1].id # 0
  <1>1. /\ down \in Seq(Answers) /\ acts \in Nat
        /\ waiting \in Seq(Proposals) /\ up \in Seq(Proposals)
    BY HistoryAssumption DEF HistoryInv, DocumentTypes
  <1>2. down # <<>> /\ Head(down).kind = kind /\ down' = Tail(down)
    BY DEF Received
  <1>3. /\ 1 \in 1 .. Len(down) /\ Head(down) = down[1] /\ down[1] \in Answers
        /\ 1 \in 0 .. Len(down) /\ 0 \in 0 .. Len(down)
    BY <1>1, <1>2
  <1>4. Decides(waiting, down[1].id, waiting')
    BY <1>1, <1>3 DEF Received, Decides
  <1>5. NumbersOf(waiting, up, down, accepted, acts, connected) /\ connected \in BOOLEAN
    BY DEF LinkInv, Numbers
  <1>6. /\ NumbersOf(waiting', up, Tail(down), accepted, acts, connected) /\ connected
        /\ \A k \in 1 .. Len(waiting') : \E j \in 1 .. Len(waiting) : waiting'[k] = waiting[j]
        /\ waiting' # waiting => down[1].id # 0
    <2>1. NumbersOf(waiting', up, Tail(down), accepted, acts, connected)
      BY <1>1, <1>2, <1>4, <1>5, NumbersReceived
    <2>2. connected
      BY <1>2, <1>5 DEF NumbersOf
    <2>3. \A k \in 1 .. Len(waiting') : \E j \in 1 .. Len(waiting) : waiting'[k] = waiting[j]
      BY <1>1, <1>2, <1>4, <1>5, <2>1, NumbersReceived
    <2>4. waiting' # waiting => down[1].id # 0
      BY <1>1, <1>4, ProposalIds DEF Decides
    <2>. QED
      BY <2>1, <2>2, <2>3, <2>4
  <1>7. \A e, n : WaitKey(waiting', accepted, e, n) => WaitKey(waiting, accepted, e, n)
    <2>1. accepted \subseteq accepted
      OBVIOUS
    <2>2. \A k \in 1 .. Len(waiting') : \E j \in 1 .. Len(waiting) : waiting'[k] = waiting[j]
      BY <1>6
    <2>. QED
      BY <2>1, <2>2, WaitKeysFewer
  <1>8. Place(replica, down, 0) = replica /\ Place(replica, down, 1) = down[1].doc
    BY DEF Place
  <1>. QED
    BY <1>1, <1>2, <1>3, <1>5, <1>6, <1>7, <1>8

\* What was absent, or is removed, is absent for good.
LEMMA AbsentAfter ==
  ASSUME HistoryInv, HistoryInv', LinkInv, NEW n \in 0 .. 1,
         Shifted(replica, down, replica', down', n), NEW e \in Elements
  PROVE  /\ AbsentOf(room, replica, down, e) => AbsentOf(room, replica', down', e)
         /\ n = 1 /\ Removal(replica, down, 1, e) => AbsentOf(room, replica', down', e)
         /\ /\ n = 1 /\ room[e] = None
            /\ \A j \in 1 .. Len(down) : Place(replica, down, j)[e] = None
            => AbsentOf(room, replica', down', e)
  <1>1. /\ down \in Seq(Answers) /\ down' \in Seq(Answers)
        /\ Len(down) \in Nat /\ Len(down') \in Nat
        /\ (down = <<>> => Len(down) = 0) /\ (Len(down') = 0 => down' = <<>>)
    BY DEF HistoryInv, DocumentTypes
  <1>2. ChainOf(room, replica, down, connected, remover)
    BY DEF LinkInv, Linked
  <1>3. AbsentOf(room, replica, down, e) => AbsentOf(room, replica', down', e)
    BY <1>1, <1>2, ChainShifted
  <1>4. ASSUME n = 1, room[e] = None,
               \A j \in 1 .. Len(down) : Place(replica, down, j)[e] = None
        PROVE  AbsentOf(room, replica', down', e)
    <2>1. \A i \in 0 .. Len(down') :
            /\ i + n \in 1 .. Len(down)
            /\ Alike(Place(replica', down', i)[e], Place(replica, down, i + n)[e])
      BY <1>1, <1>4 DEF Shifted
    <2>. QED
      BY <1>4, <2>1 DEF AbsentOf, Alike
  <1>5. ASSUME n = 1, Removal(replica, down, 1, e) PROVE AbsentOf(room, replica', down', e)
    <2>1. 1 \in 1 .. Len(down)
      BY <1>1, <1>5 DEF Shifted
    <2>. QED
      BY <1>1, <1>2, <1>4, <1>5, <2>1, RemovedForGood
  <1>. QED
    BY <1>3, <1>4, <1>5

\* A refusal is received.
LEMMA ConflictLinks ==
  ASSUME HistoryInv, HistoryInv', LinkInv, ReceiveConflict
  PROVE  LinkInv'
  <1>1. /\ Received("conflict") /\ pending' = Decided(pending, Head(down).id)
        /\ ready' = FALSE
        /\ UNCHANGED <<room, accepted, remover, fresh, undo, redo, openText, up, connected,
                       replica, acts>>
    BY DEF ReceiveConflict, roomVars
  <1>2. /\ down \in Seq(Answers) /\ down # <<>> /\ 1 \in 1 .. Len(down)
        /\ down[1].kind = "conflict" /\ down' = Tail(down)
        /\ Place(replica, down, 0) = replica /\ Place(replica, down, 1) = down[1].doc
        /\ NumbersOf(waiting', up, down', accepted, acts, connected) /\ connected = TRUE
        /\ \A k \in 1 .. Len(waiting') : \E j \in 1 .. Len(waiting) : waiting'[k] = waiting[j]
        /\ \A e, n : WaitKey(waiting', accepted, e, n) => WaitKey(waiting, accepted, e, n)
    BY <1>1, ReceivedFacts
  <1>3. \A e \in Elements : Alike(replica'[e], down[1].doc[e])
    <2>1. ASSUME NEW e \in Elements PROVE Alike(replica[e], down[1].doc[e])
      <3>1. Alike(Place(replica, down, 1 - 1)[e], Place(replica, down, 1)[e])
        BY <1>2 DEF LinkInv, Linked, ChainOf, Changes
      <3>2. 1 - 1 = 0
        OBVIOUS
      <3>. QED
        BY <1>2, <3>1, <3>2
    <2>. QED
      BY <1>1, <2>1
  <1>4. Shifted(replica, down, replica', down', 1)
    BY <1>2, <1>3, ShiftedOnce
  <1>5. Numbers'
    BY <1>1, <1>2 DEF Numbers
  <1>6. StillRestoring(pending, pending')
    BY <1>1 DEF Decided, StillRestoring
  <1>7. Singles'
    <2>1. \A i \in 1 .. Len(waiting') : Concerned(waiting'[i].batch)
      BY <1>2 DEF LinkInv, Singles
    <2>. QED
      BY <1>1, <1>6, <2>1 DEF LinkInv, Singles, StillRestoring
  <1>8. 1 \in 0 .. 1
    OBVIOUS
  <1>9. OpenField'
    <2>1. SUFFICES ASSUME openText # None
                   PROVE  /\ replica[openText] = None =>
                               AbsentOf(room, replica', down', openText)
                          /\ \A n \in 1 .. MaxActs : ~WaitKey(waiting', accepted, openText, n)
      BY <1>1 DEF LinkInv, OpenField, OpenFieldOf
    <2>2. openText \in Elements
      BY <2>1 DEF HistoryInv, StackInv, StackTypes
    <2>3. AbsentOf(room, replica, down, openText) => AbsentOf(room, replica', down', openText)
      BY <1>4, <1>8, <2>2, AbsentAfter
    <2>. QED
      BY <1>2, <2>1, <2>3 DEF LinkInv, OpenField, OpenFieldOf
  <1>10. \A e \in Elements : KeysOn(e)' \subseteq KeysOn(e)
    BY <1>1, <1>2, StacksWithin
  <1>. QED
    BY <1>1, <1>2, <1>4, <1>5, <1>6, <1>7, <1>8, <1>9, <1>10, MovedLinks

\* A commit is received: the session takes the next document of the chain.
LEMMA CommitMoves ==
  ASSUME HistoryInv, HistoryInv', LinkInv, ReceiveCommit
  PROVE  /\ Shifted(replica, down, replica', down', 1)
         /\ \A e \in Elements : Alike(replica'[e], Place(replica, down, 1)[e])
         /\ \A e \in Elements : Removal(replica, down, 1, e) <=>
              replica[e] # None /\ replica'[e] = None
         /\ \A e \in Elements : replica[e] # None /\ replica'[e] # None =>
              replica'[e].text = replica[e].text
         /\ Numbers'
         /\ UNCHANGED <<room, accepted, remover, fresh, connected, acts>>
  <1>1. /\ Received("commit") /\ replica' = Integrated(Head(down).doc)
        /\ UNCHANGED <<room, accepted, remover, fresh, connected, acts, up, ready>>
    BY DEF ReceiveCommit, roomVars
  <1>2. /\ down \in Seq(Answers) /\ down # <<>> /\ 1 \in 1 .. Len(down)
        /\ 1 \in 0 .. Len(down) /\ 0 \in 0 .. Len(down)
        /\ Head(down) = down[1] /\ down[1] \in Answers /\ down' = Tail(down)
        /\ Place(replica, down, 0) = replica /\ Place(replica, down, 1) = down[1].doc
        /\ NumbersOf(waiting', up, down', accepted, acts, connected) /\ connected = TRUE
    BY <1>1, ReceivedFacts
  <1>3. down[1].doc \in Docs /\ replica \in Docs
    BY <1>2 DEF Answers, HistoryInv, DocumentTypes
  <1>4. \A e \in Elements :
          /\ Alike(replica'[e], down[1].doc[e])
          /\ replica[e] # None /\ down[1].doc[e] # None
             /\ replica[e].born = down[1].doc[e].born => replica'[e].text = replica[e].text
    BY <1>1, <1>2, <1>3, IntegratedAlike
  <1>5. Shifted(replica, down, replica', down', 1)
    BY <1>2, <1>4, ShiftedOnce
  <1>6. Numbers'
    BY <1>1, <1>2 DEF LinkInv, Numbers
  <1>7. ASSUME NEW e \in Elements
        PROVE  Removal(replica, down, 1, e) <=> replica[e] # None /\ replica'[e] = None
    <2>1. 1 - 1 = 0
      OBVIOUS
    <2>. QED
      BY <1>2, <1>4, <2>1 DEF Removal, Alike
  <1>8. ASSUME NEW e \in Elements, replica[e] # None, replica'[e] # None
        PROVE  replica'[e].text = replica[e].text
    <2>1. down[1].doc[e] # None
      BY <1>4, <1>8 DEF Alike
    <2>2. Place(replica, down, 0)[e].born = Place(replica, down, 1)[e].born
      BY <1>2, <1>8, <2>1 DEF LinkInv, Linked, ChainOf, Lasts
    <2>. QED
      BY <1>2, <1>4, <1>8, <2>1, <2>2
  <1>. QED
    BY <1>1, <1>2, <1>4, <1>5, <1>6, <1>7, <1>8

\* It is somebody else's, or an answer that came before.
LEMMA OthersCommitLinks ==
  ASSUME HistoryInv, HistoryInv', LinkInv, ReceiveCommit, waiting' = waiting,
         UNCHANGED historyVars
  PROVE  LinkInv'
  <1>1. /\ Shifted(replica, down, replica', down', 1) /\ Numbers'
        /\ UNCHANGED <<room, accepted, remover, fresh, connected>>
        /\ UNCHANGED <<waiting, undo, redo, pending, openText>>
        /\ 1 \in 0 .. 1
    BY CommitMoves DEF historyVars
  <1>2. Singles'
    BY <1>1 DEF LinkInv, Singles
  <1>3. OpenField'
    <2>1. SUFFICES ASSUME openText # None
                   PROVE  /\ replica'[openText] # None =>
                               undo[Len(undo)].after = replica'[openText].text
                          /\ replica'[openText] = None =>
                               AbsentOf(room, replica', down', openText)
      BY <1>1 DEF LinkInv, OpenField, OpenFieldOf
    <2>2. openText \in Elements
      BY <2>1 DEF HistoryInv, StackInv, StackTypes
    <2>3. /\ replica[openText] # None => undo[Len(undo)].after = replica[openText].text
          /\ replica[openText] = None => AbsentOf(room, replica, down, openText)
      BY <2>1 DEF LinkInv, OpenField, OpenFieldOf
    <2>4. replica[openText] = None => AbsentOf(room, replica', down', openText)
      BY <1>1, <2>2, <2>3, AbsentAfter
    <2>5. AbsentOf(room, replica', down', openText) => replica'[openText] = None
      <3>1. 0 \in 0 .. Len(down')
        BY DEF HistoryInv, DocumentTypes
      <3>. QED
        BY <3>1 DEF AbsentOf, Place
    <2>6. CASE replica[openText] = None
      BY <2>4, <2>5, <2>6
    <2>7. CASE replica[openText] # None
      <3>1. replica'[openText] # None => replica'[openText].text = replica[openText].text
        BY <2>2, <2>7, CommitMoves
      <3>2. replica'[openText] = None => AbsentOf(room, replica', down', openText)
        <4>1. replica'[openText] = None => Removal(replica, down, 1, openText)
          BY <2>2, <2>7, CommitMoves
        <4>. QED
          BY <1>1, <2>2, <4>1, AbsentAfter
      <3>. QED
        BY <2>3, <2>7, <3>1, <3>2
    <2>. QED
      BY <2>6, <2>7
  <1>4. \A k \in 1 .. Len(waiting') : \E j \in 1 .. Len(waiting) : waiting'[k] = waiting[j]
    BY <1>1
  <1>5. \A e \in Elements : KeysOn(e)' \subseteq KeysOn(e)
    BY <1>1, StacksWithin
  <1>6. StillRestoring(pending, pending')
    BY <1>1 DEF StillRestoring
  <1>. QED
    BY <1>1, <1>2, <1>3, <1>4, <1>5, <1>6, MovedLinks

\* It is the restoration under way: what it removed has the step it leaves as its key.
LEMMA RestoredLinks ==
  ASSUME HistoryInv, HistoryInv', LinkInv, ReceiveCommit, waiting' # waiting,
         Restoring(Head(down).id), Restored
  PROVE  LinkInv'
  <1>. DEFINE step == pending.step
              kept == IF pending.superseded THEN [step EXCEPT !.made = Now] ELSE step
              back == pending.back
  <1>1. /\ Shifted(replica, down, replica', down', 1) /\ Numbers'
        /\ UNCHANGED <<room, accepted, remover, fresh, connected>>
        /\ 1 \in 0 .. 1
    BY CommitMoves
  <1>2. Received("commit")
    BY DEF ReceiveCommit
  <1>3. /\ down \in Seq(Answers) /\ 1 \in 1 .. Len(down) /\ down[1].kind = "commit"
        /\ Head(down) = down[1] /\ down[1].id # 0
        /\ \A k \in 1 .. Len(waiting') : \E j \in 1 .. Len(waiting) : waiting'[k] = waiting[j]
        /\ \A e, n : WaitKey(waiting', accepted, e, n) => WaitKey(waiting, accepted, e, n)
    BY <1>2, ReceivedFacts
  <1>4. /\ pending \in Restorations /\ pending # None /\ pending.id = down[1].id
        /\ undo \in Seq(Steps) /\ redo \in Seq(Steps)
        /\ undo' \in Seq(Steps) /\ redo' \in Seq(Steps)
        /\ waiting \in Seq(Proposals) /\ waiting' \in Seq(Proposals)
    BY <1>3 DEF Restoring, HistoryInv, StackInv, StackTypes, DocumentTypes
  <1>5. /\ step \in Steps /\ back \in BOOLEAN
        /\ kept \in Steps
        /\ kept.kind = step.kind /\ kept.before = step.before /\ kept.after = step.after
    <2>1. step \in Steps /\ back \in BOOLEAN
      BY <1>4 DEF Restorations
    <2>2. Now \in Nat
      BY NowIsLater DEF HistoryInv, StackInv
    <2>. QED
      BY <2>1, <2>2 DEF Steps, StructureSteps, TextSteps
  <1>6. /\ pending' = None /\ openText' = None
        /\ \/ back /\ undo' = undo /\ (redo' = redo \/ redo' = Append(redo, step))
           \/ ~back /\ undo' = Append(undo, kept) /\ redo' = redo
    BY <1>5 DEF Restored
  <1>. HIDE DEF kept
  <1>7. /\ \A e : Gone(kept, e) <=> Gone(step, e)
        /\ \A e : Same(kept, e) <=> Same(step, e)
    BY <1>5 DEF Gone, Same
  <1>8. Single(step) /\ Single(kept)
    BY <1>4, <1>5, <1>7 DEF LinkInv, Singles, Single
  <1>9. Singles'
    <2>1. \A i \in 1 .. Len(waiting') : Concerned(waiting'[i].batch)
      BY <1>3 DEF LinkInv, Singles
    <2>2. /\ \A i \in 1 .. Len(undo) : Single(undo[i])
          /\ \A i \in 1 .. Len(redo) : Single(redo[i])
      BY DEF LinkInv, Singles
    <2>3. /\ \A i \in 1 .. Len(undo') : Single(undo'[i])
          /\ \A i \in 1 .. Len(redo') : Single(redo'[i])
      BY <1>4, <1>5, <1>6, <1>8, <2>2, SingleMore
    <2>. QED
      BY <1>6, <2>1, <2>3 DEF Singles
  <1>10. OpenField'
    BY <1>6 DEF OpenField, OpenFieldOf
  <1>11. ASSUME NEW e \in Elements
         PROVE  /\ \A i : UndoKey(undo', e, i) => UndoKey(undo, e, i)
                     \/ (i = Len(undo) + 1 /\ ~back /\ Removes(step, back, e))
                /\ \A i : RedoKey(redo', e, i) => RedoKey(redo, e, i)
                     \/ (i = Len(redo) + 1 /\ back /\ Removes(step, back, e))
    <2>1. \A i : UndoKey(Append(undo, kept), e, i) =>
            UndoKey(undo, e, i) \/ (i = Len(undo) + 1 /\ Gone(kept, e))
      BY <1>4, <1>5, StepKeysMore
    <2>2. \A i : RedoKey(Append(redo, step), e, i) =>
            RedoKey(redo, e, i) \/ (i = Len(redo) + 1 /\ Came(step, e))
      BY <1>4, <1>5, StepKeysMore
    <2>3. /\ ~back /\ Gone(kept, e) => Removes(step, back, e)
          /\ back /\ Came(step, e) => Removes(step, back, e)
      BY <1>7 DEF Removes
    <2>. QED
      BY <1>6, <2>1, <2>2, <2>3
  <1>12. ASSUME NEW e \in Elements
         PROVE  \/ KeysOn(e)' \subseteq KeysOn(e)
                \/ /\ KeptOf(KeysOn(e)', room, replica', down', remover, e)
                   /\ pending' # None => ~RemovalDone(pending, accepted, e)
    <2>1. CASE ~Removes(step, back, e)
      BY <1>1, <1>3, <1>11, <2>1, StacksWithin
    <2>2. CASE Removes(step, back, e)
      <3>. DEFINE key == IF back THEN <<"redo", Len(redo) + 1>> ELSE <<"undo", Len(undo) + 1>>
                  X == {key}
                  L == KeysOn(e)'
      <3>1. pending.id \in accepted
        BY <1>3, <1>4 DEF LinkInv, Numbers, NumbersOf
      <3>2. /\ room[e] = None /\ remover[e] # "other" /\ KeysOn(e) = {}
            /\ \A j \in 1 .. Len(down) : Place(replica, down, j)[e] = None
        <4>1. RemovingOf(pending, waiting, accepted, room, replica, down, remover, KeysOn(e), e)
          BY DEF LinkInv, Removing
        <4>. QED
          BY <1>3, <1>4, <2>2, <3>1, <4>1 DEF RemovingOf
      <3>3. AbsentOf(room, replica', down', e)
        BY <1>1, <3>2, AbsentAfter
      <3>4. L \subseteq X
        <4>1. /\ \A i : UndoKey(undo', e, i) => UndoKey(undo, e, i) \/ <<"undo", i>> \in X
              /\ \A i : RedoKey(redo', e, i) => RedoKey(redo, e, i) \/ <<"redo", i>> \in X
          BY <1>11
        <4>. HIDE DEF X
        <4>2. KeysOf(undo', redo', waiting', accepted, fresh, e)
                \subseteq KeysOf(undo, redo, waiting, accepted, fresh, e) \cup X
          BY <1>3, <1>4, <4>1, KeysWithin
        <4>3. L = KeysOf(undo', redo', waiting', accepted, fresh, e)
          BY <1>1 DEF KeysOn
        <4>. QED
          BY <3>2, <4>2, <4>3 DEF KeysOn
      <3>. HIDE DEF L
      <3>5. KeptOf(L, room, replica', down', remover, e)
        BY <3>2, <3>3, <3>4 DEF KeptOf, AtMostOne
      <3>. QED
        BY <1>6, <3>5 DEF L
    <2>. QED
      BY <2>1, <2>2
  <1>13. StillRestoring(pending, pending')
    BY <1>6 DEF StillRestoring
  <1>. QED
    BY <1>1, <1>3, <1>9, <1>10, <1>12, <1>13, MovedLinks

\* It is a gesture: what it removed has the new step as its key.
LEMMA RecordedLinks ==
  ASSUME HistoryInv, HistoryInv', LinkInv, ReceiveCommit, waiting' # waiting,
         ~Restoring(Head(down).id),
         Record(StructureStep(replica, replica', Now)), openText' = None
  PROVE  LinkInv'
  <1>. DEFINE step == StructureStep(replica, replica', Now)
  <1>1. /\ Shifted(replica, down, replica', down', 1) /\ Numbers'
        /\ UNCHANGED <<room, accepted, remover, fresh, connected>>
        /\ 1 \in 0 .. 1
        /\ \A e \in Elements : Alike(replica'[e], Place(replica, down, 1)[e])
        /\ \A e \in Elements : Removal(replica, down, 1, e) <=>
             replica[e] # None /\ replica'[e] = None
    BY CommitMoves
  <1>2. Received("commit")
    BY DEF ReceiveCommit
  <1>3. /\ down \in Seq(Answers) /\ 1 \in 1 .. Len(down) /\ down[1].kind = "commit"
        /\ Head(down) = down[1] /\ down[1].id # 0
        /\ 0 \in 0 .. Len(down) /\ Place(replica, down, 0) = replica
        /\ \A k \in 1 .. Len(waiting') : \E j \in 1 .. Len(waiting) : waiting'[k] = waiting[j]
        /\ \A e, n : WaitKey(waiting', accepted, e, n) => WaitKey(waiting, accepted, e, n)
    BY <1>2, ReceivedFacts
  <1>4. /\ pending \in Restorations \cup {None}
        /\ undo \in Seq(Steps) /\ redo \in Seq(Steps)
        /\ undo' \in Seq(Steps) /\ redo' \in Seq(Steps)
        /\ waiting \in Seq(Proposals) /\ waiting' \in Seq(Proposals)
        /\ replica \in Docs /\ replica' \in Docs
    BY DEF HistoryInv, StackInv, StackTypes, DocumentTypes
  <1>5. pending # None => pending.id # down[1].id
    BY <1>3 DEF Restoring
  <1>6. /\ undo' = Append(undo, step) /\ redo' = <<>> /\ pending' = Superseded(pending)
    BY DEF Record
  <1>7. /\ step \in Steps
        /\ step.kind = "structure" /\ step.before = replica /\ step.after = replica'
    <2>1. Now \in Nat
      BY NowIsLater DEF HistoryInv, StackInv
    <2>. QED
      BY <1>4, <2>1 DEF StructureStep, StructureSteps, Steps
  <1>. HIDE DEF step
  <1>8. StillRestoring(pending, pending')
    <2>1. pending = None => Superseded(pending) = None
      BY DEF Superseded
    <2>2. pending # None => /\ Superseded(pending).step = pending.step
                            /\ Superseded(pending).back = pending.back
                            /\ Superseded(pending).id = pending.id
      BY <1>4 DEF Superseded, Restorations
    <2>. QED
      BY <1>6, <2>1, <2>2 DEF StillRestoring
  <1>9. Single(step)
    <2>1. ASSUME NEW e \in Elements, Alike(replica[e], Place(replica, down, 1)[e])
          PROVE  Same(step, e)
      BY <1>1, <1>7, <2>1 DEF Alike, Same
    <2>2. ASSUME NEW e \in Elements, NEW o \in Elements, e # o
          PROVE  Same(step, e) \/ Same(step, o)
      <3>1. 1 - 1 = 0
        OBVIOUS
      <3>2. \/ Alike(Place(replica, down, 1 - 1)[e], Place(replica, down, 1)[e])
            \/ Alike(Place(replica, down, 1 - 1)[o], Place(replica, down, 1)[o])
        BY <1>3, <2>2 DEF LinkInv, Linked, ChainOf, Changes
      <3>. QED
        BY <1>3, <2>1, <3>1, <3>2
    <2>. QED
      BY <2>2 DEF Single
  <1>10. Singles'
    <2>1. \A i \in 1 .. Len(waiting') : Concerned(waiting'[i].batch)
      BY <1>3 DEF LinkInv, Singles
    <2>2. \A i \in 1 .. Len(undo') : Single(undo'[i])
      BY <1>4, <1>6, <1>7, <1>9, SingleMore DEF LinkInv, Singles
    <2>3. \A i \in 1 .. Len(redo') : FALSE
      BY <1>6
    <2>. QED
      BY <1>8, <2>1, <2>2, <2>3 DEF LinkInv, Singles, StillRestoring
  <1>11. OpenField'
    BY DEF OpenField, OpenFieldOf
  <1>12. ASSUME NEW e \in Elements
         PROVE  /\ \A i : UndoKey(undo', e, i) => UndoKey(undo, e, i)
                     \/ (i = Len(undo) + 1 /\ Removal(replica, down, 1, e))
                /\ \A i : RedoKey(redo', e, i) => RedoKey(redo, e, i)
    <2>1. \A i : UndoKey(Append(undo, step), e, i) =>
            UndoKey(undo, e, i) \/ (i = Len(undo) + 1 /\ Gone(step, e))
      BY <1>4, <1>7, StepKeysMore
    <2>2. Gone(step, e) => Removal(replica, down, 1, e)
      BY <1>1, <1>7 DEF Gone
    <2>3. \A i : ~RedoKey(redo', e, i)
      BY <1>6 DEF RedoKey
    <2>. QED
      BY <1>6, <2>1, <2>2, <2>3
  <1>13. ASSUME NEW e \in Elements
         PROVE  \/ KeysOn(e)' \subseteq KeysOn(e)
                \/ /\ KeptOf(KeysOn(e)', room, replica', down', remover, e)
                   /\ pending' # None => ~RemovalDone(pending, accepted, e)
    <2>1. CASE ~Removal(replica, down, 1, e)
      BY <1>1, <1>3, <1>12, <2>1, StacksWithin
    <2>2. CASE Removal(replica, down, 1, e)
      <3>. DEFINE key == <<"undo", Len(undo) + 1>>
                  X == {key}
                  L == KeysOn(e)'
      <3>1. KeysOn(e) = {}
        <4>1. Place(replica, down, 0)[e] # None
          BY <1>1, <1>3, <2>2
        <4>. QED
          BY <1>3, <4>1, PresentWithoutKey
      <3>2. AbsentOf(room, replica', down', e)
        BY <1>1, <2>2, AbsentAfter
      <3>3. remover[e] # "other"
        BY <1>3, <2>2 DEF LinkInv, Linked, ChainOf, Removers
      <3>4. L \subseteq X
        <4>1. /\ \A i : UndoKey(undo', e, i) => UndoKey(undo, e, i) \/ <<"undo", i>> \in X
              /\ \A i : RedoKey(redo', e, i) => RedoKey(redo, e, i) \/ <<"redo", i>> \in X
          BY <1>12
        <4>. HIDE DEF X
        <4>2. KeysOf(undo', redo', waiting', accepted, fresh, e)
                \subseteq KeysOf(undo, redo, waiting, accepted, fresh, e) \cup X
          BY <1>3, <1>4, <4>1, KeysWithin
        <4>3. L = KeysOf(undo', redo', waiting', accepted, fresh, e)
          BY <1>1 DEF KeysOn
        <4>. QED
          BY <3>1, <4>2, <4>3 DEF KeysOn
      <3>. HIDE DEF L
      <3>5. KeptOf(L, room, replica', down', remover, e)
        BY <3>2, <3>3, <3>4 DEF KeptOf, AtMostOne
      <3>6. ~RemovalDone(pending, accepted, e)
        <4>1. SUFFICES ASSUME RemovalDone(pending, accepted, e) PROVE FALSE
          OBVIOUS
        <4>2. RemovingOf(pending, waiting, accepted, room, replica, down, remover, KeysOn(e), e)
          BY DEF LinkInv, Removing
        <4>3. down[1].id = pending.id /\ pending # None
          BY <1>3, <2>2, <4>1, <4>2 DEF RemovingOf, RemovalDone
        <4>. QED
          BY <1>5, <4>3
      <3>. QED
        BY <3>5, <3>6 DEF L
    <2>. QED
      BY <2>1, <2>2
  <1>. QED
    BY <1>1, <1>3, <1>8, <1>10, <1>11, <1>13, MovedLinks

\* A commit, whoever made it.
LEMMA CommitLinks ==
  ASSUME HistoryInv, HistoryInv', LinkInv, ReceiveCommit
  PROVE  LinkInv'
  BY OthersCommitLinks, RestoredLinks, RecordedLinks DEF ReceiveCommit

\* What the room does as it answers with m.
Answering(m) ==
  /\ \A e \in Elements :
       \/ room[e] # None /\ room'[e] # None /\ room[e].born = room'[e].born
       \/ room'[e] = None
       \/ \E n \in 1 .. MaxActs : WaitKey(waiting, accepted, e, n)
  /\ m.kind = "conflict" => \A e \in Elements : Alike(room[e], room'[e])
  /\ m.id # 0 => \A e, o \in Elements :
       e # o => Alike(room[e], room'[e]) \/ Alike(room[o], room'[o])
  /\ \A e \in Elements :
       m.id # 0 /\ room[e] # None /\ room'[e] = None => remover'[e] # "other"
  /\ \A e \in Elements : remover'[e] = "other" => remover[e] = "other" \/ room[e] # None
  /\ \A e \in Elements : KeysOn(e)' # {} => room'[e] = None
  /\ \A e \in Elements :
       RemovalDone(pending, accepted', e) /\ pending.id \notin accepted =>
         /\ m.id = pending.id /\ m.id # 0
         /\ room[e] # None /\ room'[e] = None /\ remover'[e] # "other"

\* The room answers a connected session.
LEMMA AnsweredLinks ==
  ASSUME HistoryInv, HistoryInv', LinkInv, connected,
         UNCHANGED <<replica, waiting, undo, redo, pending, openText, connected, fresh>>,
         NEW m \in Answers, down' = Append(down, m), m.doc = room', Answering(m),
         Numbers', accepted \subseteq accepted'
  PROVE  LinkInv'
  <1>. USE DEF Answering
  <1>1. /\ undo \in Seq(Steps) /\ redo \in Seq(Steps) /\ waiting \in Seq(Proposals)
        /\ down \in Seq(Answers) /\ Len(down) \in Nat
    BY DEF HistoryInv, DocumentTypes, StackInv, StackTypes
  <1>2. ChainOf(room, replica, down, TRUE, remover) /\ connected = TRUE
    BY DEF LinkInv, Linked, Numbers
  <1>3. ASSUME NEW e \in Elements, NEW n, WaitKey(waiting, accepted, e, n)
        PROVE  KeysOn(e) # {} /\ AbsentOf(room, replica, down, e) /\ remover[e] # "other"
    <2>1. KeysOn(e) # {}
      BY <1>1, <1>3, KeyCases DEF KeysOn
    <2>. QED
      BY <2>1 DEF LinkInv, KeysKept, KeptOf
  <1>4. ASSUME NEW e \in Elements PROVE Changed(room, replica, down, m.doc, e)
    BY <1>3 DEF Changed
  <1>5. /\ ChainOf(room', replica, down', TRUE, remover')
        /\ \A e \in Elements : AbsentOf(room, replica, down, e) /\ room'[e] = None =>
             AbsentOf(room', replica, down', e)
        /\ \A e \in Elements, i \in 1 .. Len(down) :
             Removal(replica, down', i, e) <=> Removal(replica, down, i, e)
        /\ \A e \in Elements :
             Removal(replica, down', Len(down) + 1, e) <=> room[e] # None /\ room'[e] = None
    <2>1. MayAnswer(room, replica, down, m, remover, remover')
      BY <1>4 DEF MayAnswer
    <2>. DEFINE to == remover'
    <2>2. MayAnswer(room, replica, down, m, remover, to)
      BY <2>1
    <2>. HIDE DEF to
    <2>3. Answered(room, replica, down, m, to)
      BY <1>1, <1>2, <2>2, ChainAnswered
    <2>. QED
      BY <2>3 DEF Answered, to
  <1>6. Linked'
    BY <1>2, <1>5 DEF Linked
  <1>7. ASSUME NEW e \in Elements PROVE KeysOn(e)' \subseteq KeysOn(e)
    <2>1. \A k \in 1 .. Len(waiting) : \E j \in 1 .. Len(waiting) : waiting[k] = waiting[j]
      OBVIOUS
    <2>2. \A n : WaitKey(waiting', accepted', e, n) => WaitKey(waiting, accepted, e, n)
      BY <2>1, WaitKeysFewer
    <2>. QED
      BY <2>2, StacksWithin
  <1>8. ASSUME NEW e \in Elements
        PROVE  KeptOf(KeysOn(e)', room', replica', down', remover', e)
    <2>. DEFINE K == KeysOn(e)
                L == KeysOn(e)'
    <2>1. KeptOf(K, room, replica, down, remover, e) /\ L \subseteq K
      BY <1>7 DEF LinkInv, KeysKept
    <2>2. L # {} /\ AbsentOf(room, replica, down, e) /\ remover[e] # "other" =>
            AbsentOf(room', replica', down', e) /\ remover'[e] # "other"
      BY <1>5 DEF AbsentOf
    <2>. HIDE DEF K, L
    <2>3. KeptOf(L, room', replica', down', remover', e)
      BY <2>1, <2>2, KeptFewer
    <2>. QED
      BY <2>3 DEF L
  <1>9. KeysKept'
    BY <1>8 DEF KeysKept
  <1>10. Singles'
    BY DEF LinkInv, Singles
  <1>11. ASSUME NEW e \in Elements
         PROVE  RemovingOf(pending', waiting', accepted', room', replica', down', remover',
                           KeysOn(e)', e)
    <2>. DEFINE K == KeysOn(e)
                L == KeysOn(e)'
    <2>1. /\ RemovingOf(pending, waiting, accepted, room, replica, down, remover, K, e)
          /\ KeptOf(K, room, replica, down, remover, e) /\ L \subseteq K
      BY <1>7 DEF LinkInv, Removing, KeysKept
    <2>2. /\ Len(down') = Len(down) + 1 /\ down'[Len(down) + 1] = m
          /\ \A i \in 1 .. Len(down) : down'[i] = down[i]
          /\ \A i \in 1 .. Len(down') : i \in 1 .. Len(down) \/ i = Len(down) + 1
      BY <1>1
    <2>3. /\ \A j \in 1 .. Len(down) : Place(replica, down', j) = Place(replica, down, j)
          /\ Place(replica, down', Len(down) + 1) = room'
      BY <1>1, <2>2 DEF Place
    <2>4. K # {} => room[e] = None
      BY <2>1 DEF KeptOf, AbsentOf
    <2>. HIDE DEF K, L
    <2>5. ASSUME RemovalDone(pending, accepted', e)
          PROVE  /\ room'[e] = None /\ remover'[e] # "other" /\ L = {}
                 /\ \A i \in 1 .. Len(down') :
                      down'[i].kind = "commit" /\ down'[i].id = pending.id =>
                        \A j \in i .. Len(down') : Place(replica, down', j)[e] = None
                 /\ \A i \in 1 .. Len(down') :
                      Removal(replica, down', i, e) => down'[i].id = pending.id
      <3>1. CASE pending.id \in accepted
        <4>1. /\ room[e] = None /\ remover[e] # "other" /\ K = {}
              /\ \A i \in 1 .. Len(down) : down[i].kind = "commit" /\ down[i].id = pending.id =>
                   \A j \in i .. Len(down) : Place(replica, down, j)[e] = None
              /\ \A i \in 1 .. Len(down) : Removal(replica, down, i, e) => down[i].id = pending.id
          BY <2>1, <2>5, <3>1 DEF RemovingOf, RemovalDone
        <4>2. room'[e] = None
          <5>1. \A n : ~WaitKey(waiting, accepted, e, n)
            BY <1>3, <4>1 DEF K
          <5>. QED
            BY <4>1, <5>1
        <4>3. remover'[e] # "other" /\ L = {}
          BY <2>1, <4>1
        <4>4. ASSUME NEW i \in 1 .. Len(down'), down'[i].kind = "commit",
                     down'[i].id = pending.id, NEW j \in i .. Len(down')
              PROVE  Place(replica, down', j)[e] = None
          <5>1. CASE j = Len(down) + 1
            BY <2>3, <4>2, <5>1
          <5>2. CASE j # Len(down) + 1
            <6>1. i \in 1 .. Len(down) /\ j \in i .. Len(down) /\ j \in 1 .. Len(down)
              BY <1>1, <2>2, <5>2
            <6>. QED
              BY <2>2, <2>3, <4>1, <4>4, <6>1
          <5>. QED
            BY <5>1, <5>2
        <4>5. ASSUME NEW i \in 1 .. Len(down'), Removal(replica, down', i, e)
              PROVE  down'[i].id = pending.id
          <5>1. i # Len(down) + 1
            BY <1>5, <4>1, <4>5
          <5>. QED
            BY <1>5, <2>2, <4>1, <4>5, <5>1
        <4>. QED
          BY <4>2, <4>3, <4>4, <4>5
      <3>2. CASE pending.id \notin accepted
        <4>1. /\ m.id = pending.id /\ m.id # 0
              /\ room[e] # None /\ room'[e] = None /\ remover'[e] # "other"
          BY <2>5, <3>2
        <4>2. L = {}
          BY <2>1, <2>4, <4>1
        <4>3. \A i \in 1 .. Len(down) : ~ (down[i].kind = "commit" /\ down[i].id = pending.id)
          BY <3>2, <4>1 DEF LinkInv, Numbers, NumbersOf
        <4>4. ASSUME NEW i \in 1 .. Len(down'), down'[i].kind = "commit",
                     down'[i].id = pending.id, NEW j \in i .. Len(down')
              PROVE  Place(replica, down', j)[e] = None
          <5>1. i = Len(down) + 1
            BY <2>2, <4>3, <4>4
          <5>2. j = Len(down) + 1
            BY <1>1, <2>2, <5>1
          <5>. QED
            BY <2>3, <4>1, <5>2
        <4>5. ASSUME NEW i \in 1 .. Len(down'), Removal(replica, down', i, e)
              PROVE  down'[i].id = pending.id
          <5>1. CASE i = Len(down) + 1
            BY <2>2, <4>1, <5>1
          <5>2. CASE i \in 1 .. Len(down)
            <6>1. Removal(replica, down, i, e)
              BY <1>5, <4>5, <5>2
            <6>. QED
              BY <1>1, <1>2, <4>1, <5>2, <6>1, RemovedForGood
          <5>. QED
            BY <2>2, <5>1, <5>2
        <4>. QED
          BY <4>1, <4>2, <4>4, <4>5
      <3>. QED
        BY <3>1, <3>2
    <2>6. RemovingOf(pending, waiting, accepted', room', replica, down', remover', L, e)
      BY <2>1, <2>5 DEF RemovingOf, RemovalDone
    <2>. QED
      BY <2>6 DEF L
  <1>12. Removing'
    BY <1>11 DEF Removing
  <1>13. OpenField'
    <2>1. SUFFICES ASSUME openText # None
                   PROVE  /\ replica[openText] = None => AbsentOf(room', replica, down', openText)
                          /\ \A n \in 1 .. MaxActs : ~WaitKey(waiting, accepted', openText, n)
      BY DEF LinkInv, OpenField, OpenFieldOf
    <2>2. openText \in Elements
      BY <2>1 DEF HistoryInv, StackInv, StackTypes
    <2>3. /\ replica[openText] = None => AbsentOf(room, replica, down, openText)
          /\ \A n \in 1 .. MaxActs : ~WaitKey(waiting, accepted, openText, n)
      BY <2>1 DEF LinkInv, OpenField, OpenFieldOf
    <2>4. replica[openText] = None => room'[openText] = None
      BY <2>2, <2>3 DEF AbsentOf
    <2>5. \A n : WaitKey(waiting, accepted', openText, n) => WaitKey(waiting, accepted, openText, n)
      BY DEF WaitKey
    <2>. QED
      BY <1>5, <2>2, <2>3, <2>4, <2>5
  <1>. QED
    BY <1>6, <1>9, <1>10, <1>12, <1>13 DEF LinkInv

\* The keys are no more when the room accepts more.
LEMMA KeysAccepted ==
  ASSUME HistoryInv, HistoryInv', UNCHANGED <<undo, redo, waiting, fresh>>,
         accepted \subseteq accepted', NEW e
  PROVE  KeysOn(e)' \subseteq KeysOn(e)
  <1>1. \A k \in 1 .. Len(waiting) : \E j \in 1 .. Len(waiting) : waiting[k] = waiting[j]
    OBVIOUS
  <1>2. \A n : WaitKey(waiting', accepted', e, n) => WaitKey(waiting, accepted, e, n)
    BY <1>1, WaitKeysFewer
  <1>. QED
    BY <1>2, StacksWithin

\* The proposal the room decides about is the first on its way, which waits.
LEMMA DecidedFacts ==
  ASSUME HistoryInv, LinkInv, RoomDecides
  PROVE  /\ up \in Seq(Proposals) /\ up # <<>> /\ Head(up) = up[1] /\ up[1] \in Proposals
         /\ up' = Tail(up) /\ connected = TRUE
         /\ Concerned(up[1].batch)
         /\ \E j \in 1 .. Len(waiting) : waiting[j] = up[1]
         /\ \A e \in Elements : up[1].id \notin accepted /\ Creates(up[1].batch, e) =>
              WaitKey(waiting, accepted, e, up[1].id)
  <1>1. /\ up \in Seq(Proposals) /\ up # <<>> /\ Head(up) = up[1] /\ up[1] \in Proposals
        /\ up' = Tail(up) /\ 1 \in 1 .. Len(up)
    BY DEF HistoryInv, DocumentTypes, RoomDecides
  <1>2. connected = TRUE /\ Among(up, waiting)
    BY <1>1 DEF LinkInv, Numbers, NumbersOf
  <1>3. PICK j \in 1 .. Len(waiting) : waiting[j] = up[1]
    BY <1>1, <1>2 DEF Among
  <1>4. Concerned(up[1].batch)
    BY <1>3 DEF LinkInv, Singles
  <1>5. \A e \in Elements : up[1].id \notin accepted /\ Creates(up[1].batch, e) =>
          WaitKey(waiting, accepted, e, up[1].id)
    BY <1>3 DEF WaitKey
  <1>. QED
    BY <1>1, <1>2, <1>3, <1>4, <1>5

\* It decides about it, and answers or not.
LEMMA DecidedNumbers ==
  ASSUME HistoryInv, LinkInv, RoomDecides,
         NEW more, more \subseteq {up[1].id}, accepted' = accepted \cup more,
         \/ down' = down
         \/ \E m \in Answers : /\ down' = Append(down, m) /\ m.id = up[1].id
                               /\ m.kind = "commit" => m.id \in accepted \cup more
  PROVE  Numbers'
  <1>1. /\ up \in Seq(Proposals) /\ up # <<>> /\ up' = Tail(up)
        /\ waiting \in Seq(Proposals) /\ down \in Seq(Answers) /\ acts \in Nat
    BY DecidedFacts, HistoryAssumption DEF HistoryInv, DocumentTypes
  <1>2. NumbersOf(waiting, up, down, accepted, acts, connected)
    BY DEF LinkInv, Numbers
  <1>3. NumbersOf(waiting, Tail(up), down', accepted \cup more, acts, connected)
    <2>. DEFINE c == down'
    <2>1. \/ c = down
          \/ \E m \in Answers : /\ c = Append(down, m) /\ m.id = up[1].id
                                /\ m.kind = "commit" => m.id \in accepted \cup more
      OBVIOUS
    <2>. HIDE DEF c
    <2>2. NumbersOf(waiting, Tail(up), c, accepted \cup more, acts, connected)
      BY <1>1, <1>2, <2>1, NumbersDecided, ZenonT(30)
    <2>. QED
      BY <2>2 DEF c
  <1>4. UNCHANGED <<waiting, acts, connected, ready>>
    BY DEF RoomDecides
  <1>. QED
    BY <1>1, <1>3, <1>4 DEF LinkInv, Numbers

\* It answers and its document stays: a batch accepted before, or a refused one.
LEMMA RepeatedLinks ==
  ASSUME HistoryInv, HistoryInv', LinkInv, RoomDecides,
         UNCHANGED <<room, accepted, remover>>,
         NEW m \in Answers, down' = Append(down, m), m.doc = room, m.id = up[1].id,
         m.kind = "commit" => m.id \in accepted
  PROVE  LinkInv'
  <1>1. connected = TRUE
    BY DecidedFacts
  <1>2. Numbers'
    <2>1. {} \subseteq {up[1].id} /\ accepted' = accepted \cup {}
      OBVIOUS
    <2>2. m.kind = "commit" => m.id \in accepted \cup {}
      OBVIOUS
    <2>. QED
      BY <2>1, <2>2, DecidedNumbers
  <1>3. UNCHANGED <<replica, waiting, undo, redo, pending, openText, connected, fresh>>
    BY DEF RoomDecides, historyVars
  <1>4. \A e \in Elements : Alike(room[e], room'[e])
    BY DEF Alike
  <1>5. ASSUME NEW e \in Elements, KeysOn(e)' # {} PROVE room'[e] = None
    <2>1. KeysOn(e) # {}
      BY <1>3, <1>5, KeysAccepted
    <2>. QED
      BY <2>1 DEF LinkInv, KeysKept, KeptOf, AbsentOf
  <1>6. \A e \in Elements :
          \/ room[e] # None /\ room'[e] # None /\ room[e].born = room'[e].born
          \/ room'[e] = None
    OBVIOUS
  <1>7. accepted' = accepted /\ remover' = remover /\ accepted \subseteq accepted' /\ m.doc = room'
    OBVIOUS
  <1>8. Answering(m)
    BY <1>4, <1>5, <1>6, <1>7 DEF Answering, RemovalDone
  <1>. QED
    BY <1>1, <1>2, <1>3, <1>7, <1>8, AnsweredLinks

\* It executes the batch.
LEMMA ExecutedLinks ==
  ASSUME HistoryInv, HistoryInv', LinkInv, RoomDecides,
         up[1].id \notin accepted, Executable(room, up[1].batch),
         room' = Executed(room, up[1].batch, up[1].id),
         accepted' = accepted \cup {up[1].id},
         remover' = [e \in Elements |->
           IF room[e] # None /\ room'[e] = None THEN "me" ELSE remover[e]],
         NEW m \in Answers, down' = Append(down, m), m.doc = room', m.id = up[1].id,
         m.kind = "commit"
  PROVE  LinkInv'
  <1>. DEFINE p == up[1]
  <1>1. /\ connected = TRUE /\ p \in Proposals /\ Concerned(p.batch)
        /\ \E j \in 1 .. Len(waiting) : waiting[j] = p
        /\ \A e \in Elements : Creates(p.batch, e) => WaitKey(waiting, accepted, e, p.id)
    BY DecidedFacts
  <1>2. Numbers'
    <2>1. {p.id} \subseteq {up[1].id} /\ accepted' = accepted \cup {p.id}
      OBVIOUS
    <2>2. m.kind = "commit" => m.id \in accepted \cup {p.id}
      OBVIOUS
    <2>. QED
      BY <2>1, <2>2, DecidedNumbers
  <1>3. UNCHANGED <<replica, waiting, undo, redo, pending, openText, connected, fresh>>
    BY DEF RoomDecides, historyVars
  <1>4. /\ p.id \in 1 .. MaxActs /\ p.id \in 0 .. MaxActs /\ p.id # 0
        /\ p.batch \in SUBSET Commands /\ room \in Docs
    <2>. HIDE DEF p
    <2>1. p.id \in 1 .. MaxActs /\ p.batch \in SUBSET Commands
      BY <1>1 DEF Proposals
    <2>2. p.id \in 0 .. MaxActs /\ p.id # 0
      BY <2>1, HistoryAssumption
    <2>. QED
      BY <2>1, <2>2 DEF HistoryInv, DocumentTypes
  <1>5. ASSUME NEW e \in Elements
        PROVE  /\ (\A c \in p.batch : c.e # e) => room'[e] = room[e]
               /\ room[e] # None /\ room'[e] # None => room'[e].born = room[e].born
               /\ room[e] = None /\ room'[e] # None => Creates(p.batch, e)
               /\ p.batch = {Deleted(e)} => room[e] # None /\ room'[e] = None
    BY <1>4, BatchOutcome
  <1>. HIDE DEF p
  <1>6. ASSUME NEW e \in Elements
        PROVE  \/ room[e] # None /\ room'[e] # None /\ room[e].born = room'[e].born
               \/ room'[e] = None
               \/ \E n \in 1 .. MaxActs : WaitKey(waiting, accepted, e, n)
    BY <1>1, <1>4, <1>5
  <1>7. ASSUME NEW e \in Elements, NEW o \in Elements, e # o
        PROVE  Alike(room[e], room'[e]) \/ Alike(room[o], room'[o])
    <2>1. SUFFICES ASSUME ~Alike(room[e], room'[e]), ~Alike(room[o], room'[o]) PROVE FALSE
      OBVIOUS
    <2>2. room'[e] # room[e] /\ room'[o] # room[o]
      BY <2>1 DEF Alike
    <2>3. PICK b \in p.batch : b.e = e
      BY <1>5, <2>2
    <2>4. PICK c \in p.batch : c.e = o
      BY <1>5, <2>2
    <2>. QED
      BY <1>1, <1>7, <2>3, <2>4 DEF Concerned
  <1>8. \A e \in Elements :
          /\ room[e] # None /\ room'[e] = None => remover'[e] # "other"
          /\ remover'[e] = "other" => remover[e] = "other"
    OBVIOUS
  <1>9. accepted \subseteq accepted' /\ p.id \in accepted'
    BY DEF p
  <1>10. ASSUME NEW e \in Elements, KeysOn(e)' # {} PROVE room'[e] = None
    <2>1. SUFFICES ASSUME room'[e] # None PROVE FALSE
      OBVIOUS
    <2>2. KeysOn(e)' \subseteq KeysOn(e)
      BY <1>3, <1>9, KeysAccepted
    <2>3. room[e] = None /\ AtMostOne(KeysOn(e))
      BY <1>10, <2>2 DEF LinkInv, KeysKept, KeptOf, AbsentOf
    <2>4. WaitKey(waiting, accepted, e, p.id)
      BY <1>1, <1>5, <2>1, <2>3
    <2>5. /\ undo \in Seq(Steps) /\ redo \in Seq(Steps) /\ waiting \in Seq(Proposals)
      BY DEF HistoryInv, DocumentTypes, StackInv, StackTypes
    <2>6. <<"waiting", p.id>> \in KeysOn(e)
      BY <2>4, <2>5, KeyCases DEF KeysOn
    <2>7. <<"waiting", p.id>> \in KeysOn(e)'
      BY <1>10, <2>2, <2>3, <2>6 DEF AtMostOne
    <2>8. KeysOn(e)' = KeysOf(undo, redo, waiting, accepted', fresh, e)
      BY <1>3 DEF KeysOn
    <2>9. WaitKey(waiting, accepted', e, p.id)
      <3>. DEFINE acc == accepted'
      <3>1. <<"waiting", p.id>> \in KeysOf(undo, redo, waiting, acc, fresh, e)
        BY <2>7, <2>8
      <3>. HIDE DEF acc
      <3>2. WaitKey(waiting, acc, e, p.id)
        BY <2>5, <3>1, KeyCases
      <3>. QED
        BY <3>2 DEF acc
    <2>. QED
      BY <1>9, <2>9 DEF WaitKey
  <1>11. ASSUME NEW e \in Elements, RemovalDone(pending, accepted', e), pending.id \notin accepted
         PROVE  /\ m.id = pending.id /\ m.id # 0
                /\ room[e] # None /\ room'[e] = None /\ remover'[e] # "other"
    <2>1. pending # None /\ Removes(pending.step, pending.back, e) /\ pending.id = p.id
      BY <1>11 DEF RemovalDone, p
    <2>2. RemovingOf(pending, waiting, accepted, room, replica, down, remover, KeysOn(e), e)
      BY DEF LinkInv, Removing
    <2>3. p.batch = {Deleted(e)}
      BY <1>1, <2>1, <2>2 DEF RemovingOf
    <2>4. room[e] # None /\ room'[e] = None
      BY <1>5, <2>3
    <2>. QED
      BY <1>4, <1>8, <2>1, <2>4 DEF p
  <1>12. m.id # 0 /\ m.kind # "conflict"
    BY <1>4 DEF p
  <1>. QED
    BY <1>1, <1>2, <1>3, <1>6, <1>7, <1>8, <1>9, <1>10, <1>11, <1>12, AnsweredLinks DEF Answering

\* It refuses to hear it before the refused batch comes again.
LEMMA UnheardLinks ==
  ASSUME HistoryInv, HistoryInv', LinkInv, RoomDecides,
         UNCHANGED <<room, accepted, remover, down>>
  PROVE  LinkInv'
  <1>1. UNCHANGED <<room, accepted, remover, down, replica, waiting, undo, redo, pending,
                    openText, connected, ready, fresh>>
    BY DEF RoomDecides, historyVars
  <1>2. Numbers'
    <2>1. {} \subseteq {up[1].id} /\ accepted' = accepted \cup {}
      OBVIOUS
    <2>. QED
      BY <2>1, DecidedNumbers
  <1>3. \A e \in Elements : KeysOn(e)' = KeysOn(e)
    BY <1>1 DEF KeysOn
  <1>4. KeysKept'
    BY <1>1, <1>3 DEF LinkInv, KeysKept
  <1>5. Removing'
    BY <1>1, <1>3 DEF LinkInv, Removing
  <1>6. Linked' /\ Singles' /\ OpenField'
    BY <1>1 DEF LinkInv, Linked, Singles, OpenField
  <1>. QED
    BY <1>2, <1>4, <1>5, <1>6 DEF LinkInv

\* The room decides.
LEMMA RoomLinks ==
  ASSUME HistoryInv, HistoryInv', LinkInv, RoomDecides
  PROVE  LinkInv'
  <1>. DEFINE p == up[1]
              told(kind, doc) == [kind |-> kind, id |-> p.id, doc |-> doc]
  <1>1. Head(up) = p /\ p \in Proposals /\ connected = TRUE
    BY DecidedFacts
  <1>2. p.id \in 0 .. MaxActs /\ room \in Docs /\ room' \in Docs
    <2>. HIDE DEF p
    <2>1. p.id \in 1 .. MaxActs
      BY <1>1 DEF Proposals
    <2>2. p.id \in 0 .. MaxActs
      BY <2>1, HistoryAssumption
    <2>. QED
      BY <2>2 DEF HistoryInv, DocumentTypes
  <1>3. told("commit", room) \in Answers /\ told("conflict", room) \in Answers
        /\ told("commit", room') \in Answers
    BY <1>2 DEF Answers
  <1>4. CASE /\ p.id \in accepted
             /\ Answer("commit", p.id, room)
             /\ UNCHANGED <<room, accepted, gap, remover>>
    <2>1. down' = Append(down, told("commit", room))
      BY <1>1, <1>4 DEF Answer
    <2>. DEFINE m == told("commit", room)
    <2>2. m \in Answers /\ down' = Append(down, m) /\ m.doc = room /\ m.id = up[1].id
          /\ m.id \in accepted
      BY <1>3, <1>4, <2>1
    <2>. HIDE DEF m
    <2>. QED
      BY <1>4, <2>2, RepeatedLinks
  <1>5. CASE p.id \notin accepted /\ gap /\ UNCHANGED <<room, accepted, gap, remover, down>>
    BY <1>5, UnheardLinks
  <1>6. CASE /\ p.id \notin accepted /\ ~gap /\ Executable(room, p.batch)
             /\ room' = Executed(room, p.batch, p.id)
             /\ accepted' = accepted \cup {p.id}
             /\ remover' = [e \in Elements |->
                  IF room[e] # None /\ room'[e] = None THEN "me" ELSE remover[e]]
             /\ Answer("commit", p.id, room')
             /\ UNCHANGED gap
    <2>1. down' = Append(down, told("commit", room'))
      BY <1>1, <1>6 DEF Answer
    <2>. DEFINE m == told("commit", room')
    <2>2. m \in Answers /\ down' = Append(down, m) /\ m.doc = room' /\ m.id = up[1].id
          /\ m.kind = "commit"
      BY <1>3, <2>1
    <2>. HIDE DEF m
    <2>. QED
      BY <1>6, <2>2, ExecutedLinks
  <1>7. CASE /\ p.id \notin accepted /\ ~gap /\ ~Executable(room, p.batch)
             /\ gap' = TRUE
             /\ Answer("conflict", p.id, room)
             /\ UNCHANGED <<room, accepted, remover>>
    <2>1. down' = Append(down, told("conflict", room))
      BY <1>1, <1>7 DEF Answer
    <2>. DEFINE m == told("conflict", room)
    <2>2. m \in Answers /\ down' = Append(down, m) /\ m.doc = room /\ m.id = up[1].id
          /\ m.kind # "commit"
      BY <1>3, <2>1
    <2>. HIDE DEF m
    <2>. QED
      BY <1>7, <2>2, RepeatedLinks
  <1>. QED
    BY <1>1, <1>4, <1>5, <1>6, <1>7 DEF RoomDecides

\* Another participant's edit creates nothing, and only it is what removes an element.
RemoverTypes == remover \in [Elements -> {"nobody", "me", "other"}]

LEMMA OthersFacts ==
  ASSUME HistoryInv, RemoverTypes, OtherEdits
  PROVE  /\ \A e \in Elements : room[e] = None => room'[e] = None /\ remover'[e] = remover[e]
         /\ \A e \in Elements : room[e] # None /\ room'[e] # None => room'[e].born = room[e].born
         /\ \A e \in Elements : remover'[e] = "other" => remover[e] = "other" \/ room[e] # None
         /\ RemoverTypes'
  <1>1. PICK o \in Elements :
          /\ room[o] # None
          /\ \/ /\ \E k \in Colors \ {room[o].color} :
                     room' = Executed(room, {Recolored(o, k)}, 0)
                /\ UNCHANGED remover
             \/ /\ room' = Executed(room, {Deleted(o)}, 0)
                /\ remover' = [remover EXCEPT ![o] = "other"]
    BY DEF OtherEdits
  <1>2. PICK c \in Commands : /\ c.e = o /\ c.op # "create"
                              /\ room' = Executed(room, {c}, 0)
    BY <1>1 DEF Commands, Recolored, Deleted
  <1>3. room \in Docs /\ Executable(room, {c}) /\ 0 \in 0 .. MaxActs /\ {c} \in SUBSET Commands
    BY <1>1, <1>2, HistoryAssumption DEF HistoryInv, DocumentTypes, Executable
  <1>4. ASSUME NEW e \in Elements
        PROVE  /\ room[e] # None /\ room'[e] # None => room'[e].born = room[e].born
               /\ room[e] = None /\ room'[e] # None => Creates({c}, e)
    BY <1>2, <1>3, BatchOutcome
  <1>5. \A e \in Elements : ~Creates({c}, e)
    BY <1>2 DEF Creates
  <1>6. /\ \A e \in Elements : remover'[e] = remover[e] \/ e = o
        /\ RemoverTypes'
    BY <1>1 DEF RemoverTypes
  <1>. QED
    BY <1>1, <1>4, <1>5, <1>6

\* Another participant edits.
LEMMA OthersLinks ==
  ASSUME HistoryInv, HistoryInv', LinkInv, RemoverTypes, OtherEdits
  PROVE  LinkInv'
  <1>1. UNCHANGED <<accepted, replica, waiting, undo, redo, pending, openText, up, acts,
                    connected, ready, fresh>>
    BY DEF OtherEdits, historyVars
  <1>2. ASSUME NEW e \in Elements PROVE KeysOn(e)' \subseteq KeysOn(e)
    BY <1>1, KeysAccepted
  <1>3. ASSUME NEW e \in Elements
        PROVE  /\ room[e] = None => room'[e] = None /\ remover'[e] = remover[e]
               /\ room[e] # None /\ room'[e] # None => room'[e].born = room[e].born
               /\ remover'[e] = "other" => remover[e] = "other" \/ room[e] # None
    BY OthersFacts
  <1>4. CASE connected
    <2>. DEFINE m == [kind |-> "commit", id |-> 0, doc |-> room']
    <2>1. /\ m \in Answers /\ down' = Append(down, m) /\ m.doc = room' /\ m.id = 0
          /\ m.kind # "conflict"
      <3>1. 0 \in 0 .. MaxActs /\ room' \in Docs
        BY HistoryAssumption DEF HistoryInv, DocumentTypes
      <3>2. down' = Append(down, m)
        BY <1>4 DEF OtherEdits, Answer
      <3>. QED
        BY <3>1, <3>2 DEF Answers
    <2>. HIDE DEF m
    <2>2. Answering(m)
      <3>1. ASSUME NEW e \in Elements, KeysOn(e)' # {} PROVE room'[e] = None
        <4>1. KeysOn(e) # {}
          BY <1>2, <3>1
        <4>. QED
          BY <1>3, <4>1 DEF LinkInv, KeysKept, KeptOf, AbsentOf
      <3>2. \A e \in Elements :
              \/ room[e] # None /\ room'[e] # None /\ room[e].born = room'[e].born
              \/ room'[e] = None
        BY <1>3
      <3>3. \A e \in Elements : remover'[e] = "other" => remover[e] = "other" \/ room[e] # None
        BY <1>3
      <3>. QED
        BY <1>1, <2>1, <3>1, <3>2, <3>3 DEF Answering, RemovalDone
    <2>3. Numbers'
      <3>1. /\ waiting \in Seq(Proposals) /\ up \in Seq(Proposals) /\ down \in Seq(Answers)
            /\ acts \in Nat
        BY HistoryAssumption DEF HistoryInv, DocumentTypes
      <3>2. NumbersOf(waiting, up, down, accepted, acts, TRUE) /\ connected = TRUE
        BY <1>4 DEF LinkInv, Numbers
      <3>3. NumbersOf(waiting, up, Append(down, m), accepted, acts, TRUE)
        BY <2>1, <3>1, <3>2, NumbersTold
      <3>. QED
        BY <1>1, <2>1, <3>2, <3>3 DEF Numbers
    <2>4. connected = TRUE /\ accepted \subseteq accepted'
      BY <1>1, <1>4 DEF LinkInv, Numbers
    <2>. QED
      BY <1>1, <2>1, <2>2, <2>3, <2>4, AnsweredLinks
  <1>5. CASE ~connected
    <2>1. /\ down = <<>> /\ down' = <<>> /\ 0 \in 0 .. Len(down)
      BY <1>5 DEF LinkInv, Linked, ChainOf, Leads, OtherEdits, Answer
    <2>2. \A e \in Elements : room'[e] # None /\ replica'[e] # None =>
            room'[e].born = replica'[e].born
      <3>1. \A e \in Elements : room[e] # None /\ replica[e] # None =>
              room[e].born = replica[e].born
        BY DEF LinkInv, Linked, ChainOf, Leads
      <3>. QED
        BY <1>1, <1>3, <3>1
    <2>3. \A e \in Elements : AbsentOf(room, replica, down, e) => replica'[e] = None
      BY <1>1, <2>1 DEF AbsentOf, Place
    <2>4. Numbers' /\ Singles'
      BY <1>1, <2>1 DEF LinkInv, Numbers, Singles
    <2>5. OpenField'
      <3>1. \A e \in Elements : AbsentOf(room, replica, down, e) =>
              AbsentOf(room', replica, down, e)
        BY <1>3 DEF AbsentOf
      <3>2. openText # None => openText \in Elements
        BY DEF HistoryInv, StackInv, StackTypes
      <3>. QED
        BY <1>1, <2>1, <3>1, <3>2 DEF LinkInv, OpenField, OpenFieldOf
    <2>6. StillRestoring(pending, pending') /\ ~connected'
      BY <1>1, <1>5 DEF StillRestoring
    <2>7. \A k \in 1 .. Len(waiting') : \E j \in 1 .. Len(waiting) : waiting'[k] = waiting[j]
      BY <1>1
    <2>. QED
      BY <1>1, <1>2, <1>3, <2>1, <2>2, <2>3, <2>4, <2>5, <2>6, <2>7, AloneLinks
  <1>. QED
    BY <1>4, <1>5

-----------------------------------------------------------------------------
\* The theorems about elements that are gone and about the open field

\* At first the only keys are fresh identifiers.
LEMMA LinkInitially == Init => LinkInv /\ RemoverTypes
  <1>. SUFFICES ASSUME Init PROVE LinkInv /\ RemoverTypes
    OBVIOUS
  <1>1. /\ room = Opening /\ replica = Opening /\ accepted = {} /\ up = <<>> /\ down = <<>>
        /\ connected = TRUE /\ waiting = <<>> /\ undo = <<>> /\ redo = <<>>
        /\ pending = None /\ openText = None /\ acts = 0
        /\ \A e \in Elements : e \in fresh => Opening[e] = None
        /\ \A e \in Elements : remover[e] = "nobody"
        /\ RemoverTypes
    BY DEF Init, RemoverTypes
  <1>2. /\ ChainOf(room, replica, down, connected, remover)
        /\ \A e \in Elements : AbsentOf(room, replica, down, e) <=> Opening[e] = None
    <2>1. \A e \in Elements : Alike(Opening[e], Opening[e])
      BY DEF Alike
    <2>2. /\ ChainOf(Opening, Opening, <<>>, TRUE, remover)
          /\ \A e \in Elements : AbsentOf(Opening, Opening, <<>>, e)
               <=> Opening[e] = None /\ Opening[e] = None
      BY <2>1, ChainAlone
    <2>. QED
      BY <1>1, <2>2
  <1>3. Numbers
    <2>1. Len(waiting) = 0 /\ Len(up) = 0 /\ Len(down) = 0
      BY <1>1
    <2>. QED
      BY <1>1, <2>1 DEF Numbers, NumbersOf, Increasing, Among
  <1>4. ASSUME NEW e \in Elements
        PROVE  KeptOf(KeysOn(e), room, replica, down, remover, e)
    <2>1. KeysOn(e) \subseteq {<<"fresh", x>> : x \in fresh \cap {e}}
      BY <1>1 DEF KeysOn, KeysOf, UndoKey, RedoKey, WaitKey
    <2>2. AtMostOne(KeysOn(e)) /\ (KeysOn(e) # {} => e \in fresh)
      BY <2>1 DEF AtMostOne
    <2>. QED
      BY <1>1, <1>2, <2>2 DEF KeptOf
  <1>5. Singles
    BY <1>1 DEF Singles
  <1>6. Removing /\ OpenField
    BY <1>1 DEF Removing, RemovingOf, OpenField, OpenFieldOf
  <1>. QED
    BY <1>1, <1>2, <1>3, <1>4, <1>5, <1>6 DEF LinkInv, Linked, KeysKept

\* Gestures.
LEMMA GestureLinks ==
  ASSUME HistoryInv, HistoryInv', LinkInv, NEW e \in Elements,
         Create(e) \/ Recolor(e) \/ Type(e)
  PROVE  LinkInv'
  <1>1. CASE Create(e)
    <2>1. PICK k \in Colors : Dispatch({Created(e, [color |-> k, text |-> Blank])})
      BY <1>1 DEF Create
    <2>. DEFINE cmd == Created(e, [color |-> k, text |-> Blank])
    <2>2. cmd \in Commands /\ cmd.e = e /\ cmd.op = "create"
      BY HistoryAssumption DEF Commands, Created
    <2>3. e \in fresh /\ fresh' = fresh \ {e} /\ Dispatch({cmd})
      BY <1>1, <2>1 DEF Create
    <2>. HIDE DEF cmd
    <2>. QED
      BY <2>2, <2>3, DispatchLinks
  <1>2. CASE Recolor(e)
    <2>1. PICK k \in Colors : Dispatch({Recolored(e, k)})
      BY <1>2 DEF Recolor
    <2>. DEFINE cmd == Recolored(e, k)
    <2>2. cmd \in Commands /\ cmd.e = e /\ cmd.op # "create"
      BY DEF Commands, Recolored
    <2>3. fresh' = fresh /\ Dispatch({cmd})
      BY <1>2, <2>1 DEF Recolor
    <2>. HIDE DEF cmd
    <2>. QED
      BY <2>2, <2>3, DispatchLinks
  <1>. QED
    BY <1>1, <1>2, TypeLinks

\* A deletion of one element.
LEMMA DeletionLinks ==
  ASSUME HistoryInv, HistoryInv', LinkInv, ~joint', NEW selection, Delete(selection)
  PROVE  LinkInv'
  <1>1. PICK o \in Elements : selection = {o}
    <2>1. selection # {} /\ selection \subseteq Elements
          /\ \A a, b \in selection : a = b
      BY DEF Delete, Present
    <2>. QED
      BY <2>1
  <1>. DEFINE cmd == Deleted(o)
  <1>2. cmd \in Commands /\ cmd.e = o /\ cmd.op # "create"
    BY DEF Commands, Deleted
  <1>3. {Deleted(x) : x \in selection} = {cmd}
    BY <1>1
  <1>4. fresh' = fresh /\ Dispatch({cmd})
    BY <1>3 DEF Delete
  <1>. HIDE DEF cmd
  <1>. QED
    BY <1>2, <1>4, DispatchLinks

\* Every step keeps it, as long as no gesture is about several elements.
LEMMA LinkStep ==
  ASSUME HistoryInv, HistoryInv', LinkInv, RemoverTypes, ~joint', [Next]_vars
  PROVE  LinkInv'
  <1>1. CASE UNCHANGED vars
    <2>1. UNCHANGED <<room, accepted, remover, down, replica, waiting, undo, redo, pending,
                      openText, up, acts, connected, ready, fresh>>
      BY <1>1 DEF vars, roomVars, historyVars
    <2>2. \A e \in Elements : KeysOn(e)' = KeysOn(e)
      BY <2>1 DEF KeysOn
    <2>3. KeysKept' /\ Removing'
      BY <2>1, <2>2 DEF LinkInv, KeysKept, Removing
    <2>4. Linked' /\ Numbers' /\ Singles' /\ OpenField'
      BY <2>1 DEF LinkInv, Linked, Numbers, Singles, OpenField
    <2>. QED
      BY <2>3, <2>4 DEF LinkInv
  <1>2. CASE \/ \E e \in Elements : Create(e) \/ Recolor(e) \/ Type(e)
             \/ \E selection \in SUBSET Elements : Delete(selection)
    BY <1>2, GestureLinks, DeletionLinks
  <1>3. CASE Undo \/ Redo
    <2>1. PICK back \in BOOLEAN : Restore(back)
      BY <1>3 DEF Undo, Redo
    <2>. QED
      BY <2>1, RestoreLinks
  <1>4. CASE RoomDecides \/ OtherEdits
    BY <1>4, RoomLinks, OthersLinks
  <1>5. CASE Close \/ Lose \/ Synchronize
    BY <1>5, LostLinks, SynchronizeLinks
  <1>6. CASE ReceiveCommit \/ ReceiveConflict
    BY <1>6, CommitLinks, ConflictLinks
  <1>. QED
    BY <1>1, <1>2, <1>3, <1>4, <1>5, <1>6 DEF Next

\* Who removed an element last is written by those who remove it.
LEMMA RemoverStep ==
  ASSUME HistoryInv, RemoverTypes, [Next]_vars
  PROVE  RemoverTypes'
  <1>1. CASE RoomDecides
    BY <1>1 DEF RoomDecides, RemoverTypes
  <1>2. CASE OtherEdits
    BY <1>2, OthersFacts
  <1>3. CASE ~RoomDecides /\ ~OtherEdits
    <2>1. remover' = remover
      BY <1>3 DEF Next, vars, roomVars, historyVars, Create, Recolor, Delete, Type, Dispatch,
                  Undo, Redo, Restore, Close, Lose, Synchronize, ReceiveCommit,
                  ReceiveConflict
    <2>. QED
      BY <2>1 DEF RemoverTypes
  <1>. QED
    BY <1>1, <1>2, <1>3

\* Once a gesture was about several elements, one was.
LEMMA JointStays ==
  ASSUME [Next]_vars, joint
  PROVE  joint'
  BY DEF Next, vars, Create, Recolor, Delete, Type, Undo, Redo, Restore, Close, RoomDecides,
         OtherEdits, Lose, Synchronize, ReceiveCommit, ReceiveConflict

\* As long as no gesture was about several elements, an element that is gone has at most
\* one key that may bring it back, and while it has one nobody sees it, and it was not
\* somebody else who removed it.
KeysInv == HistoryInv /\ RemoverTypes /\ (~joint => LinkInv)

THEOREM KeysInvariant == Spec => []KeysInv
  <1>1. Init => KeysInv
    BY HistoryInitially, LinkInitially DEF KeysInv
  <1>2. KeysInv /\ [Next]_vars => KeysInv'
    <2>1. SUFFICES ASSUME KeysInv, [Next]_vars PROVE KeysInv'
      OBVIOUS
    <2>2. HistoryInv' /\ RemoverTypes'
      BY <2>1, HistoryStep, RemoverStep DEF KeysInv
    <2>3. ~joint' => LinkInv'
      BY <2>1, <2>2, JointStays, LinkStep DEF KeysInv
    <2>. QED
      BY <2>2, <2>3 DEF KeysInv
  <1>. QED
    BY <1>1, <1>2, PTL DEF Spec

\* Edits extend a text step only while it is the latest and tells the field's text, as
\* long as no gesture is about several elements.
THEOREM EditsJoinTheLatest == Spec => [](~joint => OpenTextIsLatest)
  <1>1. KeysInv => (~joint => OpenTextIsLatest)
    BY DEF KeysInv, HistoryInv, StackInv, OpenIsLast, LinkInv, OpenField, OpenFieldOf,
           OpenTextIsLatest
  <1>. QED
    BY <1>1, KeysInvariant, PTL

\* What another participant deleted stays deleted, whatever is undone and redone.
DeletionsStand == \A e \in Elements : room[e] = None /\ remover[e] = "other" => room'[e] = None

\* A batch that creates an element again is a key of it.
LEMMA DeletionStands ==
  ASSUME HistoryInv, LinkInv, RemoverTypes, [Next]_vars
  PROVE  DeletionsStand
  <1>. SUFFICES ASSUME NEW e \in Elements, room[e] = None, remover[e] = "other"
                PROVE  room'[e] = None
    BY DEF DeletionsStand
  <1>1. CASE RoomDecides
    <2>1. CASE room' = room
      BY <2>1
    <2>2. CASE room' # room
      <3>1. /\ up[1].id \notin accepted /\ Executable(room, up[1].batch)
            /\ room' = Executed(room, up[1].batch, up[1].id)
        BY <1>1, <2>2, DecidedFacts DEF RoomDecides
      <3>2. up[1].id \in 1 .. MaxActs /\ up[1].batch \in SUBSET Commands
        BY <1>1, DecidedFacts DEF Proposals
      <3>3. up[1].id \in 0 .. MaxActs /\ room \in Docs
        BY <3>2, HistoryAssumption DEF HistoryInv, DocumentTypes
      <3>4. room'[e] # None => Creates(up[1].batch, e)
        BY <3>1, <3>2, <3>3, BatchOutcome
      <3>5. room'[e] # None => WaitKey(waiting, accepted, e, up[1].id)
        BY <1>1, <3>1, <3>4, DecidedFacts
      <3>6. WaitKey(waiting, accepted, e, up[1].id) => KeysOn(e) # {}
        <4>1. undo \in Seq(Steps) /\ redo \in Seq(Steps) /\ waiting \in Seq(Proposals)
          BY DEF HistoryInv, DocumentTypes, StackInv, StackTypes
        <4>2. WaitKey(waiting, accepted, e, up[1].id) =>
                <<"waiting", up[1].id>> \in KeysOf(undo, redo, waiting, accepted, fresh, e)
          BY <4>1, KeyCases
        <4>. QED
          BY <4>2 DEF KeysOn
      <3>7. KeysOn(e) = {}
        BY DEF LinkInv, KeysKept, KeptOf
      <3>. QED
        BY <3>5, <3>6, <3>7
    <2>. QED
      BY <2>1, <2>2
  <1>2. CASE OtherEdits
    BY <1>2, OthersFacts
  <1>3. CASE ~RoomDecides /\ ~OtherEdits
    <2>1. room' = room
      BY <1>3 DEF Next, vars, roomVars, historyVars, Create, Recolor, Delete, Type, Dispatch,
                  Undo, Redo, Restore, Close, Lose, Synchronize, ReceiveCommit, ReceiveConflict
    <2>. QED
      BY <2>1
  <1>. QED
    BY <1>1, <1>2, <1>3

\* No sequence of undo and redo brings back an element another participant removed, as
\* long as every gesture is about one element.
THEOREM OthersDeletionsAreKept == Spec => OthersDeletionsStand
  <1>1. KeysInv /\ [Next]_vars =>
          [~joint => \A e \in Elements :
             room[e] = None /\ remover[e] = "other" => room'[e] = None]_vars
    BY DeletionStands DEF DeletionsStand, KeysInv
  <1>. QED
    BY <1>1, KeysInvariant, PTL DEF Spec, OthersDeletionsStand
=============================================================================
