--------------------------- MODULE EditingProofs ---------------------------
(***************************************************************************)
(* Proofs about the boxes being typed and edited, for any boxes and any    *)
(* numbers of saves, changes and proposals.                                *)
(***************************************************************************)
EXTENDS Editing, SequenceTheorems, TLAPS

\* Boxes whose creation is not decided are proposed once, and are not being typed.
OnceProposed ==
  /\ \A i, j \in 1 .. Len(sent) : sent[i].draft.box = sent[j].draft.box => i = j
  /\ \A i \in 1 .. Len(sent), answer \in answered :
       sent[i].draft.box # answer.creation.draft.box
  /\ \A answer, other \in answered :
       answer.creation.draft.box = other.creation.draft.box => answer = other
  /\ \A box \in Undecided : box \notin BoxOf(typing)

\* They are kept among the drafts, once, until the document has held them.
ProposedIsKept ==
  /\ \A box \in Undecided : box \in Pending \/ box \in seen
  /\ \A draft \in pending : draft.box \notin BoxOf(typing)
  /\ \A draft, other \in pending : draft.box = other.box => draft = other

BoxTypeOK ==
  /\ typing \in Drafts \cup {Nothing} /\ parked \in Boxes \cup {Nothing}
  /\ pending \subseteq PendingDrafts /\ proposals \in 0 .. MaxRequests
  /\ model \subseteq seen /\ seen \subseteq Boxes /\ refused \subseteq Boxes
  /\ answered \subseteq Answers /\ sent \in Seq(Creations)
BoxInv == BoxTypeOK /\ ProposedIsKept /\ OnceProposed

\* What a draft is attached to was in the document, was refused or is proposed; for a
\* proposed draft, proposed before it.
Known == seen \cup refused \cup Pending
Attached ==
  /\ typing # Nothing => typing.to \subseteq Known
  /\ \A i \in 1 .. Len(sent) : sent[i].draft.to \subseteq Known
  /\ \A answer \in answered : answer.creation.draft.to \subseteq Known
  /\ \A draft \in pending :
       /\ draft.nth <= proposals
       /\ \A target \in draft.to :
            \/ target \in seen \cup refused
            \/ \E other \in pending : other.box = target /\ other.nth < draft.nth

\* Every save has a number of its own; the edit that awaits one, unless its box is
\* gone, still holds the draft that was saved.
SavesAreNumbered ==
  /\ \A save \in saves : save.save < nextSave
  /\ \A save, other \in saves : save.save = other.save => save = other
  /\ \A save \in saves : save.save \notin acceptances
  /\ \A number \in acceptances : number < nextSave
  /\ activity # Nothing => activity.save < nextSave
  /\ activity # Nothing /\ ~activity.dialog => activity.draft = 0
  /\ \A save \in saves : Current(activity, save) /\ ~activity.deleted =>
       activity.saving /\ activity.draft = save.draft

EditTypeOK ==
  /\ activity \in Edits \cup {Nothing}
  /\ saves \subseteq Saves /\ nextSave \in 1 .. MaxRequests + 1
  /\ acceptances \subseteq 1 .. MaxRequests /\ givenUp \in BOOLEAN
  /\ activity # Nothing /\ activity.saving => \E save \in saves : save.save = activity.save
EditInv == EditTypeOK /\ SavesAreNumbered

-----------------------------------------------------------------------------
\* Records and sequences

\* A box is undecided when a creation sent or answered is of it.
LEMMA UndecidedBoxes ==
  ASSUME sent \in Seq(Creations)
  PROVE  /\ \A i \in 1 .. Len(sent) : sent[i].draft.box \in Undecided
         /\ \A answer \in answered : answer.creation.draft.box \in Undecided
         /\ \A box \in Undecided :
              \/ \E i \in 1 .. Len(sent) : box = sent[i].draft.box
              \/ \E answer \in answered : box = answer.creation.draft.box
  BY DEF Undecided, Range

\* The same, of the next state.
LEMMA UndecidedBoxesNext ==
  ASSUME sent' \in Seq(Creations)
  PROVE  /\ \A i \in 1 .. Len(sent') : sent'[i].draft.box \in Undecided'
         /\ \A answer \in answered' : answer.creation.draft.box \in Undecided'
         /\ \A box \in Undecided' :
              \/ \E i \in 1 .. Len(sent') : box = sent'[i].draft.box
              \/ \E answer \in answered' : box = answer.creation.draft.box
  BY DEF Undecided, Range

\* A fresh box is a box that is not drawn, proposed or undecided.
LEMMA FreshBoxes ==
  ASSUME NEW box \in Fresh
  PROVE  /\ box \in Boxes
         /\ box \notin Pending /\ box \notin Undecided /\ box \notin BoxOf(typing)
  BY DEF Fresh

\* What is placed is in the document or proposed.
LEMMA PlacedIsKnown ==
  Placed \subseteq model \cup Pending
  BY DEF Placed, Pending

\* The boxes a draft may be attached to are boxes.
LEMMA PlacedAreBoxes ==
  ASSUME BoxTypeOK
  PROVE  Placed \subseteq Boxes
  <1>1. Pending \subseteq Boxes
    BY DEF Pending, BoxTypeOK, PendingDrafts
  <1>. QED
    BY <1>1, PlacedIsKnown DEF BoxTypeOK

\* Opening a draft types a fresh box.
LEMMA OpenedIsFresh ==
  ASSUME BoxTypeOK, NEW target \in SUBSET Boxes, Opened(target)
  PROVE  typing' \in Drafts /\ typing'.box \in Fresh /\ parked' = Nothing
  <1>1. (CHOOSE box \in Fresh : TRUE) \in Fresh
    BY DEF Opened
  <1>. QED
    BY <1>1, FreshBoxes DEF Opened, Typing, Drafts

-----------------------------------------------------------------------------
\* The boxes

\* What is typed changes; what is proposed, undecided and in the document does not.
LEMMA TypingChanges ==
  ASSUME BoxInv,
         UNCHANGED <<pending, model, seen, refused, answered, sent, proposals>>,
         parked' \in Boxes \cup {Nothing},
         \/ typing' = Nothing
         \/ typing' = typing
         \/ typing' \in Drafts /\ typing # Nothing /\ typing'.box = typing.box
         \/ typing' \in Drafts /\ typing'.box \in Fresh
  PROVE  BoxInv'
  <1>1. BoxTypeOK'
    BY DEF BoxInv, BoxTypeOK
  <1>2. /\ Undecided' = Undecided /\ Pending' = Pending
    BY DEF Undecided, Pending
  <1>3. \A box \in BoxOf(typing') : box \in BoxOf(typing) \/ box \in Fresh
    BY DEF BoxOf
  <1>4. \A draft \in pending : draft.box \notin BoxOf(typing')
    BY <1>3, FreshBoxes DEF BoxInv, ProposedIsKept, Pending
  <1>5. \A box \in Undecided : box \notin BoxOf(typing')
    BY <1>3, FreshBoxes DEF BoxInv, OnceProposed
  <1>6. ProposedIsKept'
    BY <1>2, <1>4 DEF BoxInv, ProposedIsKept, BoxOf
  <1>7. OnceProposed'
    BY <1>2, <1>5 DEF BoxInv, OnceProposed, BoxOf
  <1>. QED
    BY <1>1, <1>6, <1>7 DEF BoxInv

\* The box being typed is proposed; another may be typed at once.
LEMMA TypingProposed ==
  ASSUME BoxInv,
         typing # Nothing,
         NEW after \in Afterwards, Proposed(after), proposals < MaxRequests,
         UNCHANGED <<model, seen, refused, answered>>,
         parked' \in Boxes \cup {Nothing},
         \/ typing' = Nothing
         \/ typing' \in Drafts /\ typing'.box \in Fresh
  PROVE  BoxInv'
  <1>. DEFINE creation == [draft |-> typing, edit |-> after = "edit"]
  <1>1. typing \in Drafts /\ creation \in Creations /\ sent \in Seq(Creations)
    BY DEF BoxInv, BoxTypeOK, Creations
  <1>. DEFINE item == [box |-> typing.box, to |-> typing.to, nth |-> proposals + 1]
  <1>2. /\ sent' = Append(sent, creation) /\ pending' = pending \cup {item}
        /\ proposals' = proposals + 1
    BY DEF Proposed
  <1>0. /\ proposals' \in 0 .. MaxRequests
        /\ item \in PendingDrafts /\ item.box = typing.box
    <2>1. typing.box \in Boxes /\ typing.to \in SUBSET Boxes
      BY <1>1 DEF Drafts
    <2>2. proposals \in 0 .. MaxRequests
      BY DEF BoxInv, BoxTypeOK
    <2>3. proposals + 1 \in 1 .. MaxRequests /\ proposals + 1 \in 0 .. MaxRequests
      BY <2>2, EditingAssumption
    <2>. QED
      BY <1>2, <2>1, <2>3 DEF PendingDrafts
  <1>3. /\ sent' \in Seq(Creations) /\ Len(sent') = Len(sent) + 1
        /\ \A i \in 1 .. Len(sent) : sent'[i] = sent[i]
        /\ sent'[Len(sent) + 1] = creation
    BY <1>1, <1>2, AppendProperties
  <1>4. BoxTypeOK'
    BY <1>0, <1>1, <1>2, <1>3 DEF BoxInv, BoxTypeOK
  <1>. HIDE DEF item
  <1>5. Pending' = Pending \cup {typing.box} /\ BoxOf(typing) = {typing.box}
    BY <1>0, <1>2 DEF Pending, BoxOf
  <1>6. \A box \in Undecided' : box \in Undecided \/ box = typing.box
    <2>1. ASSUME NEW i \in 1 .. Len(sent')
          PROVE  sent'[i].draft.box \in Undecided \/ sent'[i].draft.box = typing.box
      <3>1. CASE i \in 1 .. Len(sent)
        BY <3>1, <1>1, <1>3, UndecidedBoxes
      <3>2. CASE i = Len(sent) + 1
        BY <3>2, <1>3
      <3>. QED
        BY <3>1, <3>2, <1>1, <1>3, LenProperties
    <2>. QED
      BY <2>1, <1>1, <1>3, UndecidedBoxes, UndecidedBoxesNext
  <1>7. \A box \in BoxOf(typing') : box \in Fresh
    BY DEF BoxOf
  <1>8. typing.box \notin Undecided /\ typing.box \notin Pending
    BY <1>5 DEF BoxInv, OnceProposed, ProposedIsKept, Pending
  <1>9. ProposedIsKept'
    <2>1. \A box \in Undecided' : box \in Pending' \/ box \in seen'
      BY <1>5, <1>6 DEF BoxInv, ProposedIsKept
    <2>2. \A draft \in pending' : draft.box \notin BoxOf(typing')
      BY <1>0, <1>2, <1>5, <1>7, FreshBoxes DEF Pending
    <2>3. \A draft, other \in pending' : draft.box = other.box => draft = other
      BY <1>0, <1>2, <1>8 DEF BoxInv, ProposedIsKept, Pending
    <2>. QED
      BY <2>1, <2>2, <2>3 DEF ProposedIsKept, BoxOf
  <1>10. OnceProposed'
    <2>1. \A i \in 1 .. Len(sent) : sent[i].draft.box # typing.box
      BY <1>1, <1>8, UndecidedBoxes
    <2>2. ASSUME NEW i \in 1 .. Len(sent'), NEW j \in 1 .. Len(sent'),
                 sent'[i].draft.box = sent'[j].draft.box
          PROVE  i = j
      <3>1. Len(sent) \in Nat
        BY <1>1, LenProperties
      <3>2. CASE i \in 1 .. Len(sent) /\ j \in 1 .. Len(sent)
        BY <3>2, <2>2, <1>3 DEF BoxInv, OnceProposed
      <3>3. CASE i = Len(sent) + 1 /\ j \in 1 .. Len(sent)
        BY <3>3, <2>1, <2>2, <1>3
      <3>4. CASE j = Len(sent) + 1 /\ i \in 1 .. Len(sent)
        BY <3>4, <2>1, <2>2, <1>3
      <3>. QED
        BY <3>1, <3>2, <3>3, <3>4, <1>3
    <2>3. ASSUME NEW i \in 1 .. Len(sent'), NEW answer \in answered'
          PROVE  sent'[i].draft.box # answer.creation.draft.box
      <3>1. CASE i \in 1 .. Len(sent)
        BY <3>1, <1>3 DEF BoxInv, OnceProposed
      <3>2. CASE i = Len(sent) + 1
        BY <3>2, <1>1, <1>3, <1>8, UndecidedBoxes
      <3>. QED
        BY <3>1, <3>2, <1>1, <1>3, LenProperties
    <2>4. \A answer, other \in answered' :
            answer.creation.draft.box = other.creation.draft.box => answer = other
      BY DEF BoxInv, OnceProposed
    <2>5. \A box \in Undecided' : box \notin BoxOf(typing')
      BY <1>5, <1>6, <1>7, FreshBoxes
    <2>. QED
      BY <2>2, <2>3, <2>4, <2>5 DEF OnceProposed, BoxOf
  <1>. QED
    BY <1>4, <1>9, <1>10 DEF BoxInv

\* The room decides the creation it was sent first.
LEMMA RoomDecidesBoxes ==
  ASSUME BoxInv, RoomDecides
  PROVE  BoxInv'
  <1>. DEFINE creation == Head(sent)
  <1>1. sent \in Seq(Creations) /\ sent # <<>> /\ sent' = Tail(sent)
    BY DEF BoxInv, BoxTypeOK, RoomDecides
  <1>2. PICK accepted \in BOOLEAN, stays \in BOOLEAN :
          /\ model' = IF accepted /\ stays THEN model \cup {creation.draft.box} ELSE model
          /\ answered' = answered \cup {[creation |-> creation, accepted |-> accepted]}
    BY DEF RoomDecides
  <1>3. /\ creation \in Creations
        /\ sent' \in Seq(Creations) /\ Len(sent') = Len(sent) - 1 /\ Len(sent) \in Nat
        /\ \A i \in 1 .. Len(sent') : sent'[i] = sent[i + 1]
        /\ creation = sent[1] /\ 1 \in 1 .. Len(sent)
    BY <1>1, HeadTailProperties, LenProperties, EmptySeq
  <1>4. BoxTypeOK'
    <2>1. creation.draft.box \in Boxes
      BY <1>3 DEF Creations, Drafts
    <2>2. model' \subseteq seen' /\ seen' \subseteq Boxes
      BY <1>2, <2>1 DEF BoxInv, BoxTypeOK, RoomDecides
    <2>3. answered' \subseteq Answers
      BY <1>2, <1>3 DEF BoxInv, BoxTypeOK, Answers
    <2>. QED
      BY <1>3, <2>2, <2>3 DEF BoxInv, BoxTypeOK, RoomDecides, typed
  <1>5. \A i \in 1 .. Len(sent') : i + 1 \in 1 .. Len(sent) /\ sent'[i] = sent[i + 1]
    BY <1>3
  <1>6. \A box \in Undecided' : box \in Undecided
    BY <1>1, <1>2, <1>3, <1>5, UndecidedBoxes, UndecidedBoxesNext
  <1>7. ProposedIsKept'
    BY <1>6 DEF BoxInv, ProposedIsKept, RoomDecides, typed, Pending, BoxOf
  <1>8. OnceProposed'
    <2>1. \A i, j \in 1 .. Len(sent') : sent'[i].draft.box = sent'[j].draft.box => i = j
      <3>. SUFFICES ASSUME NEW i \in 1 .. Len(sent'), NEW j \in 1 .. Len(sent'),
                           sent'[i].draft.box = sent'[j].draft.box
                    PROVE  i = j
        OBVIOUS
      <3>1. /\ i + 1 \in 1 .. Len(sent) /\ j + 1 \in 1 .. Len(sent)
            /\ sent[i + 1].draft.box = sent[j + 1].draft.box
        BY <1>5
      <3>2. i + 1 = j + 1
        BY <3>1 DEF BoxInv, OnceProposed
      <3>. QED
        BY <3>2
    <2>2. \A i \in 1 .. Len(sent') : sent'[i].draft.box # creation.draft.box
      <3>. SUFFICES ASSUME NEW i \in 1 .. Len(sent')
                    PROVE  sent[i + 1].draft.box # sent[1].draft.box
        BY <1>3
      <3>1. i + 1 # 1 /\ i + 1 \in 1 .. Len(sent)
        BY <1>5
      <3>. QED
        BY <1>3, <3>1 DEF BoxInv, OnceProposed
    <2>3. \A i \in 1 .. Len(sent'), answer \in answered' :
            sent'[i].draft.box # answer.creation.draft.box
      BY <1>2, <1>5, <2>2 DEF BoxInv, OnceProposed
    <2>4. \A answer \in answered : answer.creation.draft.box # creation.draft.box
      BY <1>3 DEF BoxInv, OnceProposed
    <2>5. \A answer, other \in answered' :
            answer.creation.draft.box = other.creation.draft.box => answer = other
      BY <1>2, <2>4 DEF BoxInv, OnceProposed
    <2>6. \A box \in Undecided' : box \notin BoxOf(typing')
      BY <1>6 DEF BoxInv, OnceProposed, RoomDecides, typed
    <2>. QED
      BY <2>1, <2>3, <2>5, <2>6 DEF OnceProposed, BoxOf
  <1>. QED
    BY <1>4, <1>7, <1>8 DEF BoxInv

\* An answer is handled: its box is not undecided any longer, and comes back if refused.
LEMMA AnsweredBoxes ==
  ASSUME BoxInv, Answered
  PROVE  BoxInv'
  <1>1. PICK answer \in answered :
          /\ IF answer.accepted THEN Created(answer) ELSE Refused(answer)
          /\ answered' = answered \ {answer}
          /\ UNCHANGED <<awaited, model, seen, sent, proposals>>
    BY DEF Answered
  <1>. DEFINE draft == answer.creation.draft
  <1>2. draft \in Drafts /\ draft # Nothing /\ sent \in Seq(Creations)
    BY EditingAssumption DEF BoxInv, BoxTypeOK, Answers, Creations
  <1>3. /\ sent' = sent /\ model' = model /\ seen' = seen /\ proposals' = proposals
        /\ parked' = parked
        /\ refused' = refused \/ refused' = refused \cup {draft.box}
        /\ \/ UNCHANGED <<typing, pending>>
           \/ /\ pending' = {other \in pending : other.box # draft.box}
              /\ (typing' = typing \/ typing' = draft)
    BY <1>1 DEF Created, Refused, typed
  <1>4. BoxTypeOK'
    BY <1>1, <1>2, <1>3 DEF BoxInv, BoxTypeOK, Drafts
  <1>5. /\ \A box \in Undecided' : box \in Undecided /\ box # draft.box
        /\ draft.box \in Undecided
    <2>1. /\ \A i \in 1 .. Len(sent) : sent[i].draft.box # draft.box
          /\ \A other \in answered' : other.creation.draft.box # draft.box
      BY <1>1 DEF BoxInv, OnceProposed
    <2>. QED
      BY <1>1, <1>2, <1>3, <2>1, UndecidedBoxes, UndecidedBoxesNext
  <1>6. \A box \in Pending : box \in Pending' \/ box = draft.box
    BY <1>3 DEF Pending
  <1>7. BoxOf(draft) = {draft.box}
    BY <1>2 DEF BoxOf
  <1>8. ProposedIsKept'
    <2>1. \A box \in Undecided' : box \in Pending' \/ box \in seen'
      BY <1>3, <1>5, <1>6 DEF BoxInv, ProposedIsKept
    <2>2. \A other \in pending' : other.box \notin BoxOf(typing')
      BY <1>3, <1>7 DEF BoxInv, ProposedIsKept
    <2>3. \A one, other \in pending' : one.box = other.box => one = other
      BY <1>3 DEF BoxInv, ProposedIsKept
    <2>. QED
      BY <2>1, <2>2, <2>3 DEF ProposedIsKept, BoxOf
  <1>9. OnceProposed'
    <2>1. \A box \in Undecided' : box \notin BoxOf(typing')
      BY <1>3, <1>5, <1>7 DEF BoxInv, OnceProposed
    <2>. QED
      BY <1>1, <1>3, <2>1 DEF BoxInv, OnceProposed, BoxOf
  <1>. QED
    BY <1>4, <1>8, <1>9 DEF BoxInv

\* The document changes, or proposed boxes are seen in it.
LEMMA DocumentChanges ==
  ASSUME BoxInv, Settle \/ \E box \in Boxes : OtherDeletes(box)
  PROVE  BoxInv'
  <1>1. /\ UNCHANGED <<typing, parked, seen, refused, answered, sent, proposals>>
        /\ model' \subseteq model
        /\ pending' \subseteq pending
        /\ \A draft \in pending : draft \in pending' \/ draft.box \in model
    BY DEF Settle, OtherDeletes, typed, known
  <1>2. BoxTypeOK'
    BY <1>1 DEF BoxInv, BoxTypeOK
  <1>3. Undecided' = Undecided
    BY <1>1 DEF Undecided
  <1>4. \A box \in Pending : box \in Pending' \/ box \in seen
    BY <1>1 DEF Pending, BoxInv, BoxTypeOK
  <1>5. ProposedIsKept'
    BY <1>1, <1>3, <1>4 DEF BoxInv, ProposedIsKept, BoxOf
  <1>6. OnceProposed'
    BY <1>1, <1>3 DEF BoxInv, OnceProposed, BoxOf
  <1>. QED
    BY <1>2, <1>5, <1>6 DEF BoxInv

\* Every step keeps what is true of the boxes.
LEMMA BoxStep ==
  ASSUME BoxInv, EditInv, [Next]_vars
  PROVE  BoxInv'
  <1>. USE DEF typed, known
  <1>1. BoxTypeOK
    BY DEF BoxInv
  <1>0. proposals + nextSave <= MaxRequests => proposals < MaxRequests
    BY <1>1, EditingAssumption DEF BoxTypeOK, EditInv, EditTypeOK
  <1>2. CASE UNCHANGED <<typed, known, answered, sent, proposals>>
    <2>1. parked' \in Boxes \cup {Nothing}
      BY <1>1, <1>2 DEF BoxTypeOK
    <2>. QED
      BY <1>2, <2>1, TypingChanges
  <1>3. ASSUME Open PROVE BoxInv'
    <2>1. PICK target \in {{}} \cup {{box} : box \in Placed} : Opened(target)
      BY <1>3 DEF Open
    <2>2. target \in SUBSET Boxes
      BY <1>1, PlacedAreBoxes
    <2>. QED
      BY <1>1, <1>3, <2>1, <2>2, OpenedIsFresh, TypingChanges DEF Open
  <1>4. ASSUME Type PROVE BoxInv'
    <2>1. typing \in Drafts /\ typing # Nothing
      BY <1>1, <1>4 DEF Type, BoxTypeOK
    <2>2. typing' \in Drafts /\ typing'.box = typing.box
      BY <1>4, <2>1 DEF Type, Drafts
    <2>3. parked' \in Boxes \cup {Nothing}
      BY <1>1, <1>4 DEF Type, BoxTypeOK
    <2>. QED
      BY <1>4, <2>1, <2>2, <2>3, TypingChanges DEF Type
  <1>5. ASSUME Resume PROVE BoxInv'
    BY <1>5, TypingChanges DEF Resume
  <1>6. ASSUME Cancel \/ \E box \in Boxes : TypeInPlace(box) PROVE BoxInv'
    <2>1. parked' \in Boxes \cup {Nothing} /\ (typing' = Nothing \/ typing' = typing)
      BY <1>1, <1>6 DEF Cancel, Cancelled, TypeInPlace, BoxTypeOK
    <2>. QED
      BY <1>6, <2>1, TypingChanges DEF Cancel, Cancelled, TypeInPlace
  <1>7. ASSUME NEW after \in Afterwards, Create(after) PROVE BoxInv'
    <2>1. CASE typing.text # ""
      <3>1. parked' \in Boxes \cup {Nothing}
        BY <1>1, <1>7, <2>1 DEF Create, BoxTypeOK
      <3>. QED
        BY <1>0, <1>7, <2>1, <3>1, TypingProposed DEF Create
    <2>2. CASE ~(typing.text # "")
      <3>1. /\ UNCHANGED <<pending, model, seen, refused, answered, sent, proposals>>
            /\ \/ typing' = Nothing /\ parked' = parked
               \/ typing' = typing /\ parked' = typing.box
        BY <1>7, <2>2 DEF Create, Cancelled
      <3>2. parked' \in Boxes \cup {Nothing}
        BY <1>1, <1>7, <3>1 DEF BoxTypeOK, Drafts, Create
      <3>. QED
        BY <3>1, <3>2, TypingChanges
    <2>. QED
      BY <2>1, <2>2
  <1>8. ASSUME CreateWithChild PROVE BoxInv'
    <2>1. CASE activity = Nothing /\ Fresh # {} /\ typing.box \in Visible
      <3>. DEFINE child == CHOOSE box \in Fresh : TRUE
      <3>1. child \in Fresh /\ child \in Boxes
        BY <2>1, FreshBoxes
      <3>2. typing \in Drafts
        BY <1>1, <1>8 DEF CreateWithChild, BoxTypeOK
      <3>3. /\ typing' = [box |-> child, text |-> "", to |-> {typing.box}]
            /\ parked' = Nothing
        BY <1>8, <2>1 DEF CreateWithChild, Typing
      <3>4. typing' \in Drafts /\ typing'.box \in Fresh
        BY <3>1, <3>2, <3>3 DEF Drafts
      <3>. QED
        BY <1>0, <1>8, <3>3, <3>4, TypingProposed DEF CreateWithChild, Afterwards
    <2>2. CASE ~(activity = Nothing /\ Fresh # {} /\ typing.box \in Visible)
      <3>1. typing' = Nothing /\ parked' \in Boxes \cup {Nothing}
        BY <1>1, <1>8, <2>2 DEF CreateWithChild, BoxTypeOK
      <3>. QED
        BY <1>0, <1>8, <3>1, TypingProposed DEF CreateWithChild, Afterwards
    <2>. QED
      BY <2>1, <2>2
  <1>9. ASSUME SaveAnswered PROVE BoxInv'
    <2>1. PICK save \in saves :
            /\ SaveAccepted(save) \/ SaveRefused(save)
            /\ UNCHANGED <<nextSave, known, answered, sent, proposals>>
      BY <1>9 DEF SaveAnswered
    <2>2. CASE UNCHANGED typed
      BY <1>2, <2>1, <2>2
    <2>3. CASE Opened({save.box}) /\ UNCHANGED pending
      <3>1. {save.box} \in SUBSET Boxes
        BY DEF EditInv, EditTypeOK, Saves
      <3>. QED
        BY <1>1, <2>1, <2>3, <3>1, OpenedIsFresh, TypingChanges
    <2>. QED
      BY <2>1, <2>2, <2>3 DEF SaveAccepted, SaveRefused, CarryOn
  <1>10. ASSUME \/ UpdateDraft \/ CancelEdit \/ Layout
                \/ \E box \in Boxes : OpenDialog(box)
                \/ \E carryOn \in {"nothing", "child", "dialog"} : Save(carryOn)
         PROVE  BoxInv'
    BY <1>2, <1>10 DEF UpdateDraft, CancelEdit, Layout, OpenDialog, Save
  <1>11. CASE UNCHANGED vars
    BY <1>2, <1>11 DEF vars
  <1>. QED
    BY <1>3, <1>4, <1>5, <1>6, <1>7, <1>8, <1>9, <1>10, <1>11, RoomDecidesBoxes,
       AnsweredBoxes, DocumentChanges
    DEF Next, Gestures, Reactions

-----------------------------------------------------------------------------
\* What drafts are attached to

\* A box that was in the document, refused or proposed once is so ever after, and the
\* drafts still proposed are attached to boxes proposed before them.
LEMMA PendingAttached ==
  ASSUME BoxInv, Attached,
         model' \subseteq seen', seen \subseteq seen', refused \subseteq refused',
         proposals' = proposals \/ proposals' = proposals + 1,
         \A draft \in pending : draft \in pending' \/ draft.box \in seen' \cup refused',
         \A draft \in pending' :
           \/ draft \in pending
           \/ draft.nth = proposals + 1 /\ draft.nth = proposals' /\ draft.to \subseteq Known
  PROVE  /\ Known \subseteq Known'
         /\ \A draft \in pending' :
              /\ draft.nth <= proposals'
              /\ \A target \in draft.to :
                   \/ target \in seen' \cup refused'
                   \/ \E other \in pending' : other.box = target /\ other.nth < draft.nth
  <1>1. Known \subseteq Known'
    BY DEF Known, Pending
  <1>2. proposals \in Nat /\ \A draft \in pending : draft.nth \in Nat
    BY EditingAssumption DEF BoxInv, BoxTypeOK, PendingDrafts
  <1>3. \A draft \in pending : draft.nth <= proposals
    BY DEF Attached
  <1>4. ASSUME NEW draft \in pending'
        PROVE  /\ draft.nth <= proposals'
               /\ \A target \in draft.to :
                    \/ target \in seen' \cup refused'
                    \/ \E other \in pending' : other.box = target /\ other.nth < draft.nth
    <2>1. CASE draft \in pending
      <3>1. draft.nth <= proposals'
        BY <1>2, <1>3, <2>1
      <3>2. \A target \in draft.to :
              \/ target \in seen \cup refused
              \/ \E other \in pending : other.box = target /\ other.nth < draft.nth
        BY <2>1 DEF Attached
      <3>. QED
        BY <3>1, <3>2
    <2>2. CASE draft.nth = proposals + 1 /\ draft.nth = proposals' /\ draft.to \subseteq Known
      <3>1. \A target \in draft.to :
              \/ target \in seen \cup refused
              \/ \E other \in pending : other.box = target /\ other.nth < draft.nth
        BY <1>2, <1>3, <2>2 DEF Known, Pending
      <3>. QED
        BY <1>2, <2>2, <3>1
    <2>. QED
      BY <2>1, <2>2
  <1>. QED
    BY <1>1, <1>4

\* What is typed changes, attached to nothing new or to a box that is known.
LEMMA TypingAttached ==
  ASSUME BoxInv, Attached, UNCHANGED <<pending, seen, refused, answered, sent, proposals>>,
         \/ typing' = Nothing
         \/ typing # Nothing /\ typing'.to = typing.to
         \/ typing'.to \subseteq Known
  PROVE  Attached'
  <1>1. Known' = Known
    BY DEF Known, Pending
  <1>. QED
    BY <1>1 DEF Attached

\* What is typed is proposed; a child of it may be typed at once.
LEMMA ProposedAttached ==
  ASSUME BoxInv, Attached, typing # Nothing, NEW after \in Afterwards, Proposed(after),
         UNCHANGED <<model, seen, refused, answered>>,
         typing' = Nothing \/ typing'.to = {typing.box}
  PROVE  Attached'
  <1>. DEFINE creation == [draft |-> typing, edit |-> after = "edit"]
              item == [box |-> typing.box, to |-> typing.to, nth |-> proposals + 1]
  <1>1. /\ sent' = Append(sent, creation) /\ pending' = pending \cup {item}
        /\ proposals' = proposals + 1
    BY DEF Proposed
  <1>2. sent \in Seq(Creations) /\ creation \in Creations
    BY DEF BoxInv, BoxTypeOK, Creations
  <1>3. /\ Len(sent') = Len(sent) + 1 /\ sent'[Len(sent) + 1] = creation
        /\ \A i \in 1 .. Len(sent) : sent'[i] = sent[i]
    BY <1>1, <1>2, AppendProperties
  <1>4. item.box = typing.box /\ item.to = typing.to /\ item.nth = proposals + 1
    OBVIOUS
  <1>5. creation.draft = typing
    OBVIOUS
  <1>. HIDE DEF item, creation
  <1>6. typing.to \subseteq Known
    BY DEF Attached
  <1>7. model' \subseteq seen'
    BY DEF BoxInv, BoxTypeOK
  <1>8. /\ Known \subseteq Known'
        /\ \A draft \in pending' :
             /\ draft.nth <= proposals'
             /\ \A target \in draft.to :
                  \/ target \in seen' \cup refused'
                  \/ \E other \in pending' : other.box = target /\ other.nth < draft.nth
    BY <1>1, <1>4, <1>6, <1>7, PendingAttached
  <1>9. typing.box \in Known'
    BY <1>1, <1>4 DEF Known, Pending
  <1>10. typing' # Nothing => typing'.to \subseteq Known'
    BY <1>9
  <1>11. ASSUME NEW i \in 1 .. Len(sent')
         PROVE  sent'[i].draft.to \subseteq Known'
    <2>1. CASE i \in 1 .. Len(sent)
      BY <1>3, <1>8, <2>1 DEF Attached
    <2>2. CASE i = Len(sent) + 1
      BY <1>3, <1>5, <1>6, <1>8, <2>2
    <2>. QED
      BY <1>2, <1>3, <2>1, <2>2, LenProperties
  <1>12. \A answer \in answered' : answer.creation.draft.to \subseteq Known'
    BY <1>8 DEF Attached
  <1>. QED
    BY <1>8, <1>10, <1>11, <1>12 DEF Attached

\* A creation is decided: it was attached to what is known before it was sent.
LEMMA DecidedAttached ==
  ASSUME BoxInv, Attached, RoomDecides
  PROVE  Attached'
  <1>1. /\ sent \in Seq(Creations) /\ sent # <<>> /\ sent' = Tail(sent)
        /\ UNCHANGED <<typing, pending, refused, proposals>> /\ seen \subseteq seen'
        /\ model' \subseteq seen'
    BY DEF BoxInv, BoxTypeOK, RoomDecides, typed
  <1>2. /\ Len(sent') = Len(sent) - 1 /\ Len(sent) \in Nat
        /\ \A i \in 1 .. Len(sent') : sent'[i] = sent[i + 1]
        /\ Head(sent) = sent[1] /\ 1 \in 1 .. Len(sent)
    BY <1>1, HeadTailProperties, LenProperties, EmptySeq
  <1>3. /\ Known \subseteq Known'
        /\ \A draft \in pending' :
             /\ draft.nth <= proposals'
             /\ \A target \in draft.to :
                  \/ target \in seen' \cup refused'
                  \/ \E other \in pending' : other.box = target /\ other.nth < draft.nth
    BY <1>1, PendingAttached
  <1>4. ASSUME NEW i \in 1 .. Len(sent')
        PROVE  sent'[i].draft.to \subseteq Known'
    <2>1. i + 1 \in 1 .. Len(sent) /\ sent'[i] = sent[i + 1]
      BY <1>2
    <2>. QED
      BY <1>3, <2>1 DEF Attached
  <1>5. ASSUME NEW answer \in answered'
        PROVE  answer.creation.draft.to \subseteq Known'
    <2>1. answer \in answered \/ answer.creation = Head(sent)
      BY DEF RoomDecides
    <2>. QED
      BY <1>2, <1>3, <2>1 DEF Attached
  <1>. QED
    BY <1>1, <1>3, <1>4, <1>5 DEF Attached

\* An answer is handled; a refused box is typed again, attached as it was.
LEMMA AnsweredAttached ==
  ASSUME BoxInv, Attached, Answered
  PROVE  Attached'
  <1>1. PICK answer \in answered :
          /\ IF answer.accepted THEN Created(answer) ELSE Refused(answer)
          /\ answered' = answered \ {answer}
          /\ UNCHANGED <<awaited, model, seen, sent, proposals>>
    BY DEF Answered
  <1>2. /\ typing' = typing \/ typing' = answer.creation.draft
        /\ \/ UNCHANGED <<pending, refused>>
           \/ /\ pending' = {other \in pending : other.box # answer.creation.draft.box}
              /\ refused' = refused \cup {answer.creation.draft.box}
    BY <1>1 DEF Created, Refused, typed
  <1>3. model' \subseteq seen'
    BY <1>1 DEF BoxInv, BoxTypeOK
  <1>4. /\ Known \subseteq Known'
        /\ \A draft \in pending' :
             /\ draft.nth <= proposals'
             /\ \A target \in draft.to :
                  \/ target \in seen' \cup refused'
                  \/ \E other \in pending' : other.box = target /\ other.nth < draft.nth
    BY <1>1, <1>2, <1>3, PendingAttached
  <1>5. typing' # Nothing => typing'.to \subseteq Known'
    BY <1>2, <1>4 DEF Attached
  <1>. QED
    BY <1>1, <1>4, <1>5 DEF Attached

\* Drafts the document holds are forgotten: what is attached to them is attached to it.
LEMMA SettledAttached ==
  ASSUME BoxInv, Attached, Settle
  PROVE  Attached'
  <1>1. /\ UNCHANGED <<typing, known, answered, sent, proposals>>
        /\ pending' = {draft \in pending : draft.box \notin model}
        /\ model \subseteq seen
    BY DEF Settle, BoxInv, BoxTypeOK
  <1>2. /\ Known \subseteq Known'
        /\ \A draft \in pending' :
             /\ draft.nth <= proposals'
             /\ \A target \in draft.to :
                  \/ target \in seen' \cup refused'
                  \/ \E other \in pending' : other.box = target /\ other.nth < draft.nth
    BY <1>1, PendingAttached DEF known
  <1>. QED
    BY <1>1, <1>2 DEF Attached

\* Every step keeps what is true of the attachments.
LEMMA AttachedStep ==
  ASSUME BoxInv, Attached, [Next]_vars
  PROVE  Attached'
  <1>. USE DEF typed, known
  <1>1. Placed \subseteq Known
    BY PlacedIsKnown DEF Known, BoxInv, BoxTypeOK
  <1>2. CASE UNCHANGED <<typing, pending, seen, refused, answered, sent, proposals>>
    <2>1. typing' = Nothing \/ (typing # Nothing /\ typing'.to = typing.to)
      BY <1>2
    <2>. QED
      BY <1>2, <2>1, TypingAttached
  <1>3. ASSUME NEW target, Opened(target),
               UNCHANGED <<pending, seen, refused, answered, sent, proposals>>
        PROVE  Attached'
    <2>1. typing'.to \subseteq Known
      BY <1>1, <1>3 DEF Opened, Typing
    <2>. QED
      BY <1>3, <2>1, TypingAttached
  <1>4. ASSUME Open PROVE Attached'
    BY <1>3, <1>4 DEF Open
  <1>5. ASSUME Type PROVE Attached'
    <2>1. typing # Nothing /\ typing \in Drafts
      BY <1>5 DEF Type, BoxInv, BoxTypeOK
    <2>2. typing'.to = typing.to
      BY <1>5, <2>1 DEF Type, Drafts
    <2>. QED
      BY <1>5, <2>1, <2>2, TypingAttached DEF Type
  <1>6. ASSUME Cancel \/ \E box \in Boxes : TypeInPlace(box) PROVE Attached'
    <2>1. /\ UNCHANGED <<pending, seen, refused, answered, sent, proposals>>
          /\ typing' = Nothing \/ typing' = typing
      BY <1>6 DEF Cancel, Cancelled, TypeInPlace
    <2>. QED
      BY <1>2, <2>1, TypingAttached
  <1>7. ASSUME NEW after \in Afterwards, Create(after) PROVE Attached'
    <2>1. CASE typing.text # ""
      <3>1. /\ typing # Nothing /\ Proposed(after) /\ typing' = Nothing
            /\ UNCHANGED <<model, seen, refused, answered>>
        BY <1>7, <2>1 DEF Create
      <3>. QED
        BY <3>1, ProposedAttached
    <2>2. CASE ~(typing.text # "")
      <3>1. /\ UNCHANGED <<pending, seen, refused, answered, sent, proposals>>
            /\ typing' = Nothing \/ typing' = typing
        BY <1>7, <2>2 DEF Create, Cancelled
      <3>. QED
        BY <1>2, <3>1, TypingAttached
    <2>. QED
      BY <2>1, <2>2
  <1>8. ASSUME CreateWithChild PROVE Attached'
    <2>1. /\ typing # Nothing /\ Proposed("nothing")
          /\ UNCHANGED <<model, seen, refused, answered>>
          /\ typing' = Nothing \/ Typing({typing.box})
      BY <1>8 DEF CreateWithChild
    <2>2. Typing({typing.box}) => typing'.to = {typing.box}
      <3>. DEFINE child == [box |-> CHOOSE box \in Fresh : TRUE, text |-> "", to |-> {typing.box}]
      <3>1. child.to = {typing.box}
        OBVIOUS
      <3>2. Typing({typing.box}) => typing' = child
        BY DEF Typing
      <3>. HIDE DEF child
      <3>. QED
        BY <3>1, <3>2
    <2>. QED
      BY <2>1, <2>2, ProposedAttached DEF Afterwards
  <1>9. ASSUME SaveAnswered PROVE Attached'
    <2>1. PICK save \in saves :
            /\ SaveAccepted(save) \/ SaveRefused(save)
            /\ UNCHANGED <<nextSave, known, answered, sent, proposals>>
      BY <1>9 DEF SaveAnswered
    <2>2. CASE UNCHANGED typed
      BY <1>2, <2>1, <2>2
    <2>3. CASE Opened({save.box}) /\ UNCHANGED pending
      BY <1>3, <2>1, <2>3
    <2>. QED
      BY <2>1, <2>2, <2>3 DEF SaveAccepted, SaveRefused, CarryOn
  <1>10. ASSUME \/ Resume \/ UpdateDraft \/ CancelEdit \/ Layout
                \/ \E box \in Boxes : OpenDialog(box) \/ OtherDeletes(box)
                \/ \E carryOn \in {"nothing", "child", "dialog"} : Save(carryOn)
         PROVE  Attached'
    BY <1>2, <1>10 DEF Resume, UpdateDraft, CancelEdit, Layout, OpenDialog, OtherDeletes, Save
  <1>11. CASE UNCHANGED vars
    BY <1>2, <1>11 DEF vars
  <1>. QED
    BY <1>4, <1>5, <1>6, <1>7, <1>8, <1>9, <1>10, <1>11, DecidedAttached, AnsweredAttached,
       SettledAttached
    DEF Next, Gestures, Reactions

\* A proposed draft is drawn when what it is attached to is in the document or drawn
\* and proposed before it.
LEMMA DrawnWhenAttached ==
  ASSUME BoxInv, Attached
  PROVE  ProposedIsDrawn
  <1>. SUFFICES ASSUME NEW draft \in pending,
                       draft.to \cap ((seen \ model) \cup refused) = {},
                       \A other \in pending :
                         other.box \in draft.to /\ other.nth < draft.nth => other.box \in Visible
                PROVE  draft.box \in Visible
    BY DEF BoxInv, ProposedIsKept, ProposedIsDrawn
  <1>. DEFINE drawn == UNION {drafts \in SUBSET pending : Fit(drafts)}
              more == drawn \cup {draft}
  <1>1. more \in SUBSET pending
    OBVIOUS
  <1>2. ASSUME NEW target \in draft.to
        PROVE  target \in model \/ \E other \in drawn : other.nth < draft.nth /\ other.box = target
    <2>1. CASE target \in seen \cup refused
      BY <2>1
    <2>2. ASSUME NEW other \in pending, other.box = target, other.nth < draft.nth
          PROVE  target \in model \/ other \in drawn
      <3>1. other.box \in Visible /\ other.box \notin BoxOf(typing)
        BY <2>2 DEF BoxInv, ProposedIsKept
      <3>2. other.box \in model \/ \E same \in drawn : other.box = same.box
        BY <3>1 DEF Visible, Placed
      <3>3. \A same \in drawn : same.box = other.box => same = other
        BY DEF BoxInv, ProposedIsKept
      <3>. QED
        BY <2>2, <3>2, <3>3
    <2>. QED
      BY <2>1, <2>2 DEF Attached
  <1>3. ASSUME NEW one \in drawn
        PROVE  one.to \subseteq model \cup {other.box : other \in {d \in drawn : d.nth < one.nth}}
    <2>1. PICK drafts \in SUBSET pending : Fit(drafts) /\ one \in drafts
      OBVIOUS
    <2>2. one.to \subseteq model \cup {other.box : other \in {d \in drafts : d.nth < one.nth}}
      BY <2>1 DEF Fit
    <2>3. drafts \subseteq drawn
      BY <2>1
    <2>. HIDE DEF drawn
    <2>. QED
      BY <2>2, <2>3
  <1>. HIDE DEF drawn
  <1>4. Fit(more)
    BY <1>2, <1>3 DEF Fit
  <1>5. draft \in drawn
    BY <1>1, <1>4 DEF drawn
  <1>. QED
    BY <1>5 DEF Visible, Placed, drawn

-----------------------------------------------------------------------------
\* The edit

\* An edit of a box that is gone awaits nothing once its save was accepted.
LEMMA EditClosed ==
  ASSUME NEW edit \in Edits,
         NEW closed, closed = [edit EXCEPT !.saving = FALSE, !.save = 0]
  PROVE  /\ closed \in Edits /\ ~closed.saving /\ closed.save = 0
         /\ closed.box = edit.box /\ closed.draft = edit.draft
         /\ closed.dialog = edit.dialog
  <1>. DEFINE next == [edit EXCEPT !.saving = FALSE, !.save = 0]
  <1>0. 0 \in 0 .. MaxRequests
    BY EditingAssumption
  <1>1. next \in Edits
    BY <1>0 DEF Edits
  <1>2. ~next.saving /\ next.save = 0 /\ next.box = edit.box /\ next.draft = edit.draft
    BY DEF Edits
  <1>3. next.dialog = edit.dialog
    BY DEF Edits
  <1>4. closed = next
    OBVIOUS
  <1>. HIDE DEF next
  <1>. QED
    BY <1>1, <1>2, <1>3, <1>4

\* Nor does one whose save was refused.
LEMMA EditRefused ==
  ASSUME NEW edit \in Edits, NEW gone \in BOOLEAN,
         NEW after, after = AfterRefused(edit, gone)
  PROVE  /\ after \in Edits /\ ~after.saving /\ after.save = 0
         /\ after.box = edit.box /\ after.draft = edit.draft
         /\ after.dialog = edit.dialog
  <1>. DEFINE next == AfterRefused(edit, gone)
  <1>0. 0 \in 0 .. MaxRequests
    BY EditingAssumption
  <1>1. next \in Edits
    BY <1>0 DEF Edits, AfterRefused
  <1>2. /\ ~next.saving /\ next.save = 0
        /\ next.box = edit.box /\ next.draft = edit.draft
    BY DEF Edits, AfterRefused
  <1>3. next.dialog = edit.dialog
    BY DEF Edits, AfterRefused
  <1>4. after = next
    OBVIOUS
  <1>. HIDE DEF next
  <1>. QED
    BY <1>1, <1>2, <1>3, <1>4

\* No edit, the edit as it was, or one that begins: it awaits nothing.
LEMMA EditChanges ==
  ASSUME EditInv, UNCHANGED awaited, givenUp' \in BOOLEAN,
         \/ activity' = Nothing
         \/ activity' = activity
         \/ \E box \in Boxes, dialog \in BOOLEAN : activity' = Edit(box, dialog)
  PROVE  EditInv'
  <1>1. CASE activity' = Nothing
    BY <1>1 DEF EditInv, EditTypeOK, SavesAreNumbered, Current, awaited
  <1>2. CASE activity' = activity
    BY <1>2 DEF EditInv, EditTypeOK, SavesAreNumbered, Current, awaited
  <1>3. ASSUME NEW box \in Boxes, NEW dialog \in BOOLEAN, activity' = Edit(box, dialog)
        PROVE  EditInv'
    <2>1. activity' \in Edits /\ ~activity'.saving /\ activity'.save = 0 /\ activity'.draft = 0
      BY <1>3, EditingAssumption DEF Edit, Edits
    <2>2. \A save \in saves : save.save # 0
      BY EditingAssumption DEF EditInv, EditTypeOK, Saves
    <2>3. 0 < nextSave
      BY EditingAssumption DEF EditInv, EditTypeOK
    <2>4. EditTypeOK'
      BY <2>1 DEF EditInv, EditTypeOK, awaited
    <2>5. SavesAreNumbered'
      BY <2>1, <2>2, <2>3 DEF EditInv, SavesAreNumbered, Current, awaited
    <2>. QED
      BY <2>4, <2>5 DEF EditInv
  <1>. QED
    BY <1>1, <1>2, <1>3

\* The edit goes on with another draft or without its box; while its box is there it
\* awaits what it awaited, with the same draft.
LEMMA EditGoesOn ==
  ASSUME EditInv, UNCHANGED <<awaited, givenUp>>,
         activity # Nothing, activity' \in Edits,
         activity'.dialog = activity.dialog,
         activity'.save = activity.save,
         ~activity'.dialog => activity'.draft = activity.draft,
         activity'.saving => activity.saving,
         activity'.deleted \/ (~activity.deleted /\ ~activity.saving)
  PROVE  EditInv'
  <1>1. EditTypeOK'
    BY DEF EditInv, EditTypeOK, awaited
  <1>2. \A save \in saves : Current(activity', save) /\ ~activity'.deleted =>
          activity'.saving /\ activity'.draft = save.draft
    BY DEF EditInv, SavesAreNumbered, Current, awaited
  <1>3. SavesAreNumbered'
    BY <1>2 DEF EditInv, SavesAreNumbered, Current, awaited
  <1>. QED
    BY <1>1, <1>3 DEF EditInv

\* A save takes the next number and the draft as it is.
LEMMA SaveKeeps ==
  ASSUME BoxInv, EditInv, NEW carryOn \in {"nothing", "child", "dialog"}, Save(carryOn)
  PROVE  EditInv'
  <1>. DEFINE save == [box |-> activity.box, save |-> nextSave, draft |-> activity.draft,
                       present |-> activity.box \in model, carryOn |-> carryOn]
  <1>1. activity \in Edits /\ nextSave \in 1 .. MaxRequests
    BY EditingAssumption DEF BoxInv, BoxTypeOK, EditInv, EditTypeOK, Save
  <1>2. /\ activity' = [activity EXCEPT !.saving = TRUE, !.save = nextSave]
        /\ saves' = saves \cup {save} /\ nextSave' = nextSave + 1
        /\ ~activity.deleted /\ UNCHANGED <<acceptances, givenUp>>
    BY DEF Save
  <1>3. /\ activity' \in Edits /\ activity'.saving /\ activity'.save = nextSave
        /\ activity'.draft = activity.draft /\ activity'.dialog = activity.dialog
    <2>. DEFINE next == [activity EXCEPT !.saving = TRUE, !.save = nextSave]
    <2>1. nextSave \in 0 .. MaxRequests
      BY <1>1, EditingAssumption
    <2>2. next \in Edits
      BY <1>1, <2>1 DEF Edits
    <2>3. next.saving /\ next.save = nextSave /\ next.draft = activity.draft
      BY <1>1 DEF Edits
    <2>4. next.dialog = activity.dialog
      BY <1>1 DEF Edits
    <2>5. activity' = next
      BY <1>2
    <2>. HIDE DEF next
    <2>. QED
      BY <2>2, <2>3, <2>4, <2>5
  <1>4. save \in Saves /\ save.save = nextSave /\ save.draft = activity.draft
    BY <1>1 DEF Saves, Edits
  <1>5. nextSave' \in 1 .. MaxRequests + 1
    BY <1>1, <1>2, EditingAssumption
  <1>6. \A other \in saves : other.save < nextSave /\ other.save \in Nat
    BY EditingAssumption DEF EditInv, EditTypeOK, SavesAreNumbered, Saves
  <1>7. EditTypeOK'
    BY <1>2, <1>3, <1>4, <1>5 DEF EditInv, EditTypeOK
  <1>8. \A other \in saves' : other.save < nextSave'
    BY <1>1, <1>2, <1>4, <1>6
  <1>9. \A one, other \in saves' : one.save = other.save => one = other
    BY <1>1, <1>2, <1>4, <1>6 DEF EditInv, SavesAreNumbered
  <1>12. /\ \A other \in saves' : other.save \notin acceptances'
         /\ \A number \in acceptances' : number < nextSave'
    BY <1>1, <1>2, <1>4 DEF EditInv, EditTypeOK, SavesAreNumbered
  <1>10. \A other \in saves' : Current(activity', other) => other = save
    BY <1>1, <1>2, <1>3, <1>6 DEF Current
  <1>11. SavesAreNumbered'
    BY <1>1, <1>2, <1>3, <1>4, <1>8, <1>9, <1>10, <1>12 DEF EditInv, SavesAreNumbered, Current, Save
  <1>. QED
    BY <1>7, <1>11 DEF EditInv

\* What the outcome of a save may do to the edit that awaits it: close it, or let it go
\* on, awaiting nothing, with its draft.  Another edit is left alone.
Settled(save) ==
  \/ Current(activity, save) /\ activity' = Nothing
  \/ /\ Current(activity, save)
     /\ activity' \in Edits /\ ~activity'.saving
     /\ activity'.box = activity.box /\ activity'.draft = activity.draft
     /\ activity'.dialog = activity.dialog
     /\ activity'.save = 0
  \/ ~Current(activity, save) /\ activity' = activity
  \/ /\ activity = Nothing \/ (Current(activity, save) /\ ~activity.deleted)
     /\ \E box \in Boxes : activity' = Edit(box, TRUE)

\* The outcome of a save settles the edit that awaits it, and closes it with a draft
\* only if the draft was accepted.
LEMMA OutcomeSettles ==
  ASSUME EditInv, NEW save \in saves, SaveAccepted(save) \/ SaveRefused(save)
  PROVE  /\ Settled(save)
         /\ Current(activity, save) =>
              \/ /\ activity' \in Edits
                 /\ activity'.box = activity.box /\ activity'.draft = activity.draft
              \/ ~activity.deleted /\ acceptances' = acceptances \cup {save.save}
  <1>1. activity # Nothing => activity \in Edits
    BY DEF EditInv, EditTypeOK
  <1>2. save.box \in Boxes
    BY DEF EditInv, EditTypeOK, Saves
  <1>3. CASE SaveRefused(save)
    <2>1. PICK gone \in BOOLEAN :
            activity' = IF Current(activity, save) THEN AfterRefused(activity, gone) ELSE activity
      BY <1>3 DEF SaveRefused
    <2>2. CASE Current(activity, save)
      <3>1. activity \in Edits /\ activity' = AfterRefused(activity, gone)
        BY <1>1, <2>1, <2>2 DEF Current
      <3>2. /\ activity' \in Edits /\ ~activity'.saving /\ activity'.save = 0
            /\ activity'.box = activity.box /\ activity'.draft = activity.draft
            /\ activity'.dialog = activity.dialog
        BY <3>1, EditRefused
      <3>. QED
        BY <2>2, <3>2 DEF Settled
    <2>3. CASE ~Current(activity, save)
      BY <2>1, <2>3 DEF Settled
    <2>. QED
      BY <2>2, <2>3
  <1>4. CASE SaveAccepted(save)
    <2>. DEFINE closed == IF Current(activity, save) THEN AfterAccepted(activity) ELSE activity
    <2>1. /\ acceptances' = acceptances \cup {save.save}
          /\ \/ activity' = closed
             \/ closed = Nothing /\ activity' = Edit(save.box, TRUE)
      BY <1>4 DEF SaveAccepted, Begun
    <2>2. CASE Current(activity, save) /\ activity.deleted
      <3>1. activity \in Edits /\ closed = [activity EXCEPT !.saving = FALSE, !.save = 0]
        BY <1>1, <2>2 DEF Current, AfterAccepted
      <3>2. /\ closed \in Edits /\ ~closed.saving /\ closed.save = 0
            /\ closed.box = activity.box /\ closed.draft = activity.draft
            /\ closed.dialog = activity.dialog
        BY <3>1, EditClosed
      <3>3. activity' = closed
        BY <2>1, <3>2, EditingAssumption
      <3>. QED
        BY <2>2, <3>2, <3>3 DEF Settled
    <2>3. CASE Current(activity, save) /\ ~activity.deleted
      <3>1. closed = Nothing
        BY <2>3 DEF AfterAccepted
      <3>. QED
        BY <1>2, <2>1, <2>3, <3>1 DEF Settled
    <2>4. CASE ~Current(activity, save)
      BY <1>2, <2>1, <2>4 DEF Settled
    <2>. QED
      BY <2>2, <2>3, <2>4
  <1>. QED
    BY <1>3, <1>4

\* The other saves stay numbered, and the edit that goes on awaits one of them or none.
LEMMA SaveAnsweredKeeps ==
  ASSUME EditInv, SaveAnswered
  PROVE  EditInv'
  <1>1. PICK save \in saves :
          /\ SaveAccepted(save) \/ SaveRefused(save)
          /\ saves' = saves \ {save} /\ nextSave' = nextSave
    BY DEF SaveAnswered
  <1>0. acceptances' \subseteq 1 .. MaxRequests /\ givenUp' \in BOOLEAN
    <2>1. acceptances' \subseteq 1 .. MaxRequests
      BY <1>1 DEF SaveAccepted, SaveRefused, EditInv, EditTypeOK, Saves
    <2>2. givenUp' = givenUp \/ givenUp' = FALSE
      BY <1>1 DEF SaveAccepted, SaveRefused, Begun
    <2>3. givenUp \in BOOLEAN
      BY DEF EditInv, EditTypeOK
    <2>. QED
      BY <2>1, <2>2, <2>3
  <1>9. acceptances' = acceptances \/ acceptances' = acceptances \cup {save.save}
    BY <1>1 DEF SaveAccepted, SaveRefused
  <1>2. Settled(save)
    BY <1>1, OutcomeSettles
  <1>3. /\ saves' \subseteq Saves /\ nextSave' \in 1 .. MaxRequests + 1 /\ 0 < nextSave
        /\ \A other \in saves' : other.save < nextSave' /\ other.save # 0
        /\ \A other \in saves' : other.save # save.save
        /\ \A one, other \in saves' : one.save = other.save => one = other
    BY <1>1, EditingAssumption DEF EditInv, EditTypeOK, SavesAreNumbered, Saves
  <1>10. /\ \A other \in saves' : other.save \notin acceptances'
         /\ \A number \in acceptances' : number < nextSave'
    BY <1>1, <1>3, <1>9 DEF EditInv, SavesAreNumbered
  <1>4. CASE activity' = Nothing
    BY <1>0, <1>3, <1>4, <1>10 DEF EditInv, EditTypeOK, SavesAreNumbered, Current
  <1>5. CASE /\ activity' \in Edits /\ ~activity'.saving /\ activity'.save = 0
             /\ ~activity'.dialog => activity'.draft = 0
    <2>1. EditTypeOK'
      BY <1>0, <1>3, <1>5 DEF EditTypeOK
    <2>2. SavesAreNumbered'
      BY <1>3, <1>5, <1>10 DEF SavesAreNumbered, Current
    <2>. QED
      BY <2>1, <2>2 DEF EditInv
  <1>6. CASE ~Current(activity, save) /\ activity' = activity /\ activity # Nothing
    <2>1. activity.save # save.save
      BY <1>6 DEF Current
    <2>2. EditTypeOK'
      BY <1>0, <1>1, <1>3, <1>6, <2>1 DEF EditInv, EditTypeOK
    <2>3. SavesAreNumbered'
      BY <1>1, <1>3, <1>6, <1>10 DEF EditInv, SavesAreNumbered, Current
    <2>. QED
      BY <2>2, <2>3 DEF EditInv
  <1>7. ASSUME NEW box \in Boxes, activity' = Edit(box, TRUE)
        PROVE  activity' \in Edits /\ ~activity'.saving /\ activity'.save = 0 /\ activity'.draft = 0
    BY <1>7, EditingAssumption DEF Edit, Edits
  <1>8. activity # Nothing /\ ~activity.dialog => activity.draft = 0
    BY DEF EditInv, SavesAreNumbered
  <1>. QED
    BY <1>2, <1>4, <1>5, <1>6, <1>7, <1>8 DEF Settled, Current

\* Every step keeps what is true of the edit and its saves.
LEMMA EditStep ==
  ASSUME BoxInv, EditInv, [Next]_vars
  PROVE  EditInv'
  <1>. USE DEF edited
  <1>0. givenUp \in BOOLEAN
    BY DEF EditInv, EditTypeOK
  <1>1. model \subseteq Boxes
    BY DEF BoxInv, BoxTypeOK
  <1>2. CASE UNCHANGED edited
    BY <1>0, <1>2, EditChanges
  <1>3. ASSUME NEW box \in Boxes, TypeInPlace(box) \/ OpenDialog(box) PROVE EditInv'
    BY <1>0, <1>3, EditChanges DEF TypeInPlace, OpenDialog, Begun
  <1>4. ASSUME CancelEdit PROVE EditInv'
    BY <1>0, <1>4, EditChanges DEF CancelEdit
  <1>5. ASSUME UpdateDraft PROVE EditInv'
    <2>1. activity \in Edits /\ activity.draft < MaxChanges /\ activity.dialog /\ ~activity.saving
      BY <1>5 DEF UpdateDraft, EditInv, EditTypeOK
    <2>. DEFINE next == [activity EXCEPT !.draft = activity.draft + 1]
    <2>2. activity.draft + 1 \in 0 .. MaxChanges
      BY <2>1, EditingAssumption DEF Edits
    <2>3. next \in Edits
      BY <2>1, <2>2 DEF Edits
    <2>4. next.save = activity.save
      BY <2>1 DEF Edits
    <2>5. next.dialog = activity.dialog
      BY <2>1 DEF Edits
    <2>6. next.saving = activity.saving
      BY <2>1 DEF Edits
    <2>7. next.deleted = activity.deleted
      BY <2>1 DEF Edits
    <2>8. activity' = next /\ UNCHANGED <<awaited, givenUp>> /\ activity # Nothing
      BY <1>5 DEF UpdateDraft
    <2>. HIDE DEF next
    <2>. QED
      BY <2>1, <2>3, <2>4, <2>5, <2>6, <2>7, <2>8, EditGoesOn
  <1>6. ASSUME Layout PROVE EditInv'
    <2>1. activity \in Edits /\ activity # Nothing /\ UNCHANGED <<awaited, givenUp>>
      BY <1>6 DEF Layout, EditInv, EditTypeOK
    <2>2. CASE ~activity.dialog
      BY <1>0, <1>6, <2>1, <2>2, EditChanges DEF Layout
    <2>3. CASE activity.dialog
      <3>. DEFINE next == [activity EXCEPT !.deleted = TRUE, !.saving = FALSE]
      <3>1. next \in Edits
        BY <2>1 DEF Edits
      <3>2. next.save = activity.save /\ next.deleted /\ ~next.saving
        BY <2>1 DEF Edits
      <3>3. next.dialog = activity.dialog
        BY <2>1 DEF Edits
      <3>4. activity' = next
        BY <1>6, <2>3 DEF Layout
      <3>. HIDE DEF next
      <3>. QED
        BY <2>1, <2>3, <3>1, <3>2, <3>3, <3>4, EditGoesOn
    <2>. QED
      BY <2>2, <2>3
  <1>7. ASSUME Answered PROVE EditInv'
    <2>1. PICK answer \in answered :
            /\ IF answer.accepted THEN Created(answer) ELSE Refused(answer)
            /\ UNCHANGED <<awaited, model, seen, sent, proposals>>
      BY <1>7 DEF Answered
    <2>2. \/ UNCHANGED activity
          \/ \E box \in model : activity' = Edit(box, TRUE)
      BY <2>1 DEF Created, Refused, Begun
    <2>3. givenUp' = givenUp \/ givenUp' = FALSE
      BY <2>1 DEF Created, Refused, Begun
    <2>4. givenUp' \in BOOLEAN
      BY <1>0, <2>3
    <2>. QED
      BY <1>1, <2>1, <2>2, <2>4, EditChanges
  <1>8. CASE UNCHANGED vars
    BY <1>2, <1>8 DEF vars
  <1>9. ASSUME \/ Open \/ Type \/ Resume \/ Cancel \/ CreateWithChild
               \/ \E after \in Afterwards : Create(after)
               \/ Settle \/ RoomDecides \/ \E box \in Boxes : OtherDeletes(box)
        PROVE  EditInv'
    BY <1>2, <1>9 DEF Open, Type, Resume, Cancel, CreateWithChild, Create, Settle,
                      RoomDecides, OtherDeletes
  <1>. QED
    BY <1>3, <1>4, <1>5, <1>6, <1>7, <1>8, <1>9, SaveKeeps, SaveAnsweredKeeps
    DEF Next, Gestures, Reactions

-----------------------------------------------------------------------------
\* The theorems

\* At first nothing is typed, edited, proposed or saved.
LEMMA Initial == Init => BoxInv /\ Attached /\ EditInv
  <1>. SUFFICES ASSUME Init PROVE BoxInv /\ Attached /\ EditInv
    OBVIOUS
  <1>1. sent \in Seq(Creations) /\ Len(sent) = 0
    BY DEF Init
  <1>2. Undecided = {}
    BY DEF Init, Undecided, Range
  <1>3. BoxTypeOK
    BY <1>1, EditingAssumption DEF Init, BoxTypeOK
  <1>4. ProposedIsKept
    BY <1>2 DEF Init, ProposedIsKept
  <1>5. OnceProposed
    BY <1>1, <1>2 DEF Init, OnceProposed
  <1>6. Attached
    <2>1. typing = Nothing /\ pending = {} /\ answered = {} /\ 1 .. Len(sent) = {}
      BY <1>1 DEF Init
    <2>. QED
      BY <2>1 DEF Attached
  <1>7. EditInv
    <2>1. givenUp \in BOOLEAN
      BY DEF Init
    <2>2. nextSave \in 1 .. MaxRequests + 1
      BY EditingAssumption DEF Init
    <2>3. EditTypeOK
      BY <2>1, <2>2 DEF Init, EditTypeOK
    <2>4. SavesAreNumbered
      BY DEF Init, SavesAreNumbered, Current
    <2>. QED
      BY <2>3, <2>4 DEF EditInv
  <1>. QED
    BY <1>3, <1>4, <1>5, <1>6, <1>7 DEF BoxInv

\* The inductive invariant of what is typed, proposed, attached, edited and saved.
THEOREM EditingInvariant == Spec => [](BoxInv /\ Attached /\ EditInv)
  <1>1. Init => BoxInv /\ Attached /\ EditInv
    BY Initial
  <1>2. (BoxInv /\ Attached /\ EditInv) /\ [Next]_vars => (BoxInv /\ Attached /\ EditInv)'
    BY BoxStep, AttachedStep, EditStep
  <1>. QED
    BY <1>1, <1>2, PTL DEF Spec

\* Types, and that an edit shown as being saved awaits an outcome still to come.
THEOREM EditingTypes == Spec => []EditingTypeOK
  <1>1. BoxInv /\ EditInv => EditingTypeOK
    BY DEF BoxInv, BoxTypeOK, EditInv, EditTypeOK, EditingTypeOK, Range
  <1>. QED
    BY <1>1, EditingInvariant, PTL

\* A proposed box stays among the drafts, once, until it is refused or was in the
\* document, and is drawn, as withNodeDrafts draws, unless a box down the chain it is
\* attached to was deleted or refused.
THEOREM ProposedStaysDrawn == Spec => []ProposedIsDrawn
  <1>1. BoxInv /\ Attached => ProposedIsDrawn
    BY DrawnWhenAttached
  <1>. QED
    BY <1>1, EditingInvariant, PTL

\* A draft goes on, or is given up by its author, or accepted as it stands.
KeptOrGivenUp ==
  (activity # Nothing /\ activity.draft > 0 /\ activity' # activity) =>
    \/ /\ activity' # Nothing
       /\ activity'.box = activity.box /\ activity'.draft >= activity.draft
    \/ CancelEdit
    \/ \E save \in saves :
         /\ save.save \in acceptances' \ acceptances
         /\ save.save = activity.save /\ save.draft = activity.draft
         /\ ~activity.deleted

\* A box typed in place has no draft to lose when a layout takes it; a dialog outlives
\* its box; an outcome closes the edit that awaits it only with the draft that was saved.
LEMMA DraftStep ==
  ASSUME BoxInv, EditInv, [Next]_vars
  PROVE  KeptOrGivenUp
  <1>. SUFFICES ASSUME activity # Nothing, activity.draft > 0, activity' # activity,
                       ~CancelEdit
                PROVE  \/ /\ activity' # Nothing
                          /\ activity'.box = activity.box /\ activity'.draft >= activity.draft
                       \/ \E save \in saves :
                            /\ save.save \in acceptances' \ acceptances
                            /\ save.save = activity.save /\ save.draft = activity.draft
                            /\ ~activity.deleted
    BY DEF KeptOrGivenUp
  <1>1. /\ activity \in Edits /\ activity.draft \in Nat /\ activity.dialog
        /\ Nothing \notin Edits
    BY EditingAssumption DEF EditInv, EditTypeOK, SavesAreNumbered, Edits
  <1>2. \/ \E carryOn \in {"nothing", "child", "dialog"} : Save(carryOn)
        \/ SaveAnswered \/ UpdateDraft \/ Layout
    BY DEF Next, Gestures, Reactions, vars, edited, Open, Type, Resume, Cancel, CreateWithChild,
           Create, TypeInPlace, OpenDialog, Editable, Settle, Answered, Created, Refused,
           RoomDecides, OtherDeletes
  <1>3. ASSUME NEW carryOn \in {"nothing", "child", "dialog"}, Save(carryOn)
        PROVE  /\ activity' # Nothing
               /\ activity'.box = activity.box /\ activity'.draft >= activity.draft
    <2>1. /\ activity' = [activity EXCEPT !.saving = TRUE, !.save = nextSave]
          /\ nextSave \in 1 .. MaxRequests
      BY <1>3, EditingAssumption DEF Save, BoxInv, BoxTypeOK, EditInv, EditTypeOK
    <2>2. nextSave \in 0 .. MaxRequests
      BY <2>1, EditingAssumption
    <2>3. [activity EXCEPT !.saving = TRUE, !.save = nextSave] \in Edits
      BY <1>1, <2>2 DEF Edits
    <2>4. activity'.box = activity.box /\ activity'.draft = activity.draft
      BY <1>1, <2>1 DEF Edits
    <2>. QED
      BY <1>1, <2>1, <2>3, <2>4
  <1>4. ASSUME UpdateDraft
        PROVE  /\ activity' # Nothing
               /\ activity'.box = activity.box /\ activity'.draft >= activity.draft
    <2>. DEFINE next == [activity EXCEPT !.draft = activity.draft + 1]
    <2>1. activity' = next /\ activity.draft + 1 \in 0 .. MaxChanges
      BY <1>1, <1>4, EditingAssumption DEF UpdateDraft, Edits
    <2>2. next \in Edits
      BY <1>1, <2>1 DEF Edits
    <2>3. next.box = activity.box /\ next.draft = activity.draft + 1
      BY <1>1 DEF Edits
    <2>. HIDE DEF next
    <2>. QED
      BY <1>1, <2>1, <2>2, <2>3
  <1>5. ASSUME Layout
        PROVE  /\ activity' # Nothing
               /\ activity'.box = activity.box /\ activity'.draft >= activity.draft
    <2>. DEFINE next == [activity EXCEPT !.deleted = TRUE, !.saving = FALSE]
    <2>1. activity' = next
      BY <1>1, <1>5 DEF Layout
    <2>2. next \in Edits
      BY <1>1 DEF Edits
    <2>3. next.box = activity.box /\ next.draft = activity.draft
      BY <1>1 DEF Edits
    <2>. HIDE DEF next
    <2>. QED
      BY <1>1, <2>1, <2>2, <2>3
  <1>6. ASSUME SaveAnswered
        PROVE  \/ /\ activity' # Nothing
                  /\ activity'.box = activity.box /\ activity'.draft >= activity.draft
               \/ \E save \in saves :
                    /\ save.save \in acceptances' \ acceptances
                    /\ save.save = activity.save /\ save.draft = activity.draft
                    /\ ~activity.deleted
    <2>1. PICK save \in saves : SaveAccepted(save) \/ SaveRefused(save)
      BY <1>6 DEF SaveAnswered
    <2>2. /\ Settled(save)
          /\ Current(activity, save) =>
               \/ /\ activity' \in Edits
                  /\ activity'.box = activity.box /\ activity'.draft = activity.draft
               \/ ~activity.deleted /\ acceptances' = acceptances \cup {save.save}
      BY <2>1, OutcomeSettles
    <2>3. Current(activity, save)
      BY <2>2 DEF Settled
    <2>4. CASE /\ activity' \in Edits
               /\ activity'.box = activity.box /\ activity'.draft = activity.draft
      BY <1>1, <2>4
    <2>5. CASE ~activity.deleted /\ acceptances' = acceptances \cup {save.save}
      <3>1. activity.draft = save.draft /\ save.save = activity.save
        BY <2>3, <2>5 DEF EditInv, SavesAreNumbered, Current
      <3>2. save.save \notin acceptances
        BY DEF EditInv, SavesAreNumbered
      <3>. QED
        BY <2>5, <3>1, <3>2
    <2>. QED
      BY <2>2, <2>3, <2>4, <2>5
  <1>. QED
    BY <1>2, <1>3, <1>4, <1>5, <1>6

\* What was changed in a dialog goes away only given up by its author (CancelEdit), or
\* with the recorded acceptance of a save of it as it stands.
THEOREM DraftStays == Spec => DraftIsKept
  <1>1. BoxInv /\ EditInv /\ [Next]_vars => KeptOrGivenUp
    BY DraftStep
  <1>2. KeptOrGivenUp <=>
          ((activity # Nothing /\ activity.draft > 0 /\ activity' # activity) =>
             \/ /\ activity' # Nothing
                /\ activity'.box = activity.box /\ activity'.draft >= activity.draft
             \/ CancelEdit
             \/ \E save \in saves :
                  /\ save.save \in acceptances' \ acceptances
                  /\ save.save = activity.save /\ save.draft = activity.draft
                  /\ ~activity.deleted)
    BY DEF KeptOrGivenUp
  <1>. QED
    BY <1>1, <1>2, EditingInvariant, PTL DEF Spec, DraftIsKept
=============================================================================
