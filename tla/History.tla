------------------------------ MODULE History ------------------------------
(***************************************************************************)
(* The undo and redo history of one collaborative session: the class       *)
(* SessionHistory of src/src/lib/infrastructure/collaboration, and the     *)
(* batch restoreHistoryStep (infrastructure/document) builds for a step.   *)
(*                                                                         *)
(* A structural step is one accepted batch, kept as the documents on       *)
(* either side of its commit; undoing it proposes another batch, which the *)
(* room decides later.  A text step is restored at once.  The room and the *)
(* connection are those of modules Room and Session, reduced to what the   *)
(* history sees of them: batches are decided in order, an answer may be    *)
(* lost, and after a conflict or a reconnection the session synchronizes   *)
(* and proposes again what is undecided.  Other participants set colours   *)
(* and delete elements; the texts are this session's alone.                *)
(***************************************************************************)
EXTENDS Integers, Sequences, SequencesExt, FiniteSets

CONSTANTS
  Elements, Colors, Contents,   \* ids, a required property, texts of elements
  Blank,                        \* the text of a new element
  None,                         \* absent: no element, no restoration, no field
  Opening,                      \* the document the session opened
  MaxActs, MaxOthers, MaxLosses \* bounds: gestures, others' edits, lost connections

Records == [color : Colors, text : Contents, born : 0 .. MaxActs]
Docs == [Elements -> Records \cup {None}]

ASSUME HistoryAssumption ==
  /\ None \notin Elements \cup Colors \cup Contents \cup Records
  /\ Blank \in Contents
  /\ Opening \in Docs
  /\ MaxActs \in Nat /\ MaxOthers \in Nat /\ MaxLosses \in Nat

VARIABLES
  room,       \* the room's document; a text there is as its element was created
  accepted,   \* the batches the room has accepted: its receipts
  gap,        \* the room refused a batch and waits for the next one renumbered
  up, down,   \* proposals and answers on the connection
  connected, ready, ended,
  replica,    \* the session's document
  waiting,    \* batches proposed and not decided, in order (the session's pending)
  undo, redo, pending, openText,   \* SessionHistory
  acts, others, losses,            \* counters for the bounds
  fresh,      \* identifiers no element has had
  remover,    \* per element: who removed it last, "nobody", "me" or "other"
  joint,      \* the user deleted several elements at once
  disturbed   \* somebody else edited, an answer was lost, or the user did not wait

historyVars == <<undo, redo, pending, openText>>
roomVars == <<room, accepted, gap, others, remover>>
vars == <<roomVars, historyVars, up, down, connected, ready, ended, replica, waiting,
          acts, losses, fresh, joint, disturbed>>

-----------------------------------------------------------------------------
\* Batches: sets of commands, at most one per element

Created(e, x) == [op |-> "create", e |-> e, color |-> x.color, text |-> x.text]
Recolored(e, color) == [op |-> "update", e |-> e, color |-> color, text |-> None]
Deleted(e) == [op |-> "delete", e |-> e, color |-> None, text |-> None]

\* A creation needs a free identifier, any other command an element.
Executable(doc, batch) == \A c \in batch : c.op = "create" <=> doc[c.e] = None

Outcome(x, c, id) ==
  CASE c.op = "create" -> [color |-> c.color, text |-> c.text, born |-> id]
    [] c.op = "update" -> [x EXCEPT !.color = c.color]
    [] c.op = "delete" -> None
Executed(doc, batch, id) ==
  [e \in Elements |->
    IF \E c \in batch : c.e = e
    THEN Outcome(doc[e], CHOOSE c \in batch : c.e = e, id) ELSE doc[e]]

\* Mutants: whatever the goal holds and is gone is created again; properties the
\* step changed are not set back.
RestoreMissing(from, to, now) ==
  {Created(e, to[e]) : e \in {e \in Elements : to[e] # None /\ now[e] = None}}
  \cup {Deleted(e) : e \in {e \in Elements :
      from[e] # None /\ to[e] = None /\ now[e] # None}}
RestoreExistence(from, to, now) ==
  {Created(e, to[e]) : e \in {e \in Elements :
      from[e] = None /\ to[e] # None /\ now[e] = None}}
  \cup {Deleted(e) : e \in {e \in Elements :
      from[e] # None /\ to[e] = None /\ now[e] # None}}

\* What the step deleted is created again with its text, what it changed is set
\* back wherever it differs, what it created is removed.
RestoreHistoryStep(from, to, now) ==
  {Created(e, to[e]) : e \in {e \in Elements :
      from[e] = None /\ to[e] # None /\ now[e] = None}}
  \cup {Recolored(e, to[e].color) : e \in {e \in Elements :
      /\ from[e] # None /\ to[e] # None /\ now[e] # None
      /\ from[e].color # to[e].color /\ now[e].color # to[e].color}}
  \cup {Deleted(e) : e \in {e \in Elements :
      from[e] # None /\ to[e] = None /\ now[e] # None}}

-----------------------------------------------------------------------------
\* Steps.  "made" tells in which order the changes took effect.

StructureStep(before, after, made) ==
  [kind |-> "structure", e |-> None, before |-> before, after |-> after, made |-> made]
TextStep(e, before, after, made) ==
  [kind |-> "text", e |-> e, before |-> before, after |-> after, made |-> made]

Goal(step, back) == IF back THEN step.before ELSE step.after
Restoration(step, back, doc) == RestoreHistoryStep(Goal(step, ~back), Goal(step, back), doc)

\* A time after those of all the steps there are.
Times == {undo[i].made : i \in DOMAIN undo} \cup {redo[i].made : i \in DOMAIN redo}
           \cup (IF pending = None THEN {0} ELSE {pending.step.made})
Now == 1 + (CHOOSE t \in Times \cup {0} : \A u \in Times : u <= t)

\* #record: a new step; the branch to redo is gone, an undo under way too.
\* Mutant: the undo under way still joins the steps to redo.
StaysRedoable(p) == p
Superseded(p) == IF p = None THEN None ELSE [p EXCEPT !.superseded = TRUE]
Record(step) ==
  /\ undo' = Append(undo, step)
  /\ redo' = <<>>
  /\ pending' = Superseded(pending)

-----------------------------------------------------------------------------
\* The user.  Bound: MaxActs gestures.

Act == ~ended /\ acts < MaxActs /\ acts' = acts + 1

\* dispatch: proposed to the room, kept until it decides.
Propose(batch) ==
  LET proposal == [id |-> acts + 1, batch |-> batch] IN
  /\ waiting' = Append(waiting, proposal)
  /\ up' = Append(up, proposal)
  /\ disturbed' = (disturbed \/ waiting # <<>>)

Dispatch(batch) ==
  /\ Act /\ ready
  /\ Propose(batch)
  /\ UNCHANGED <<roomVars, historyVars, down, connected, ready, ended, replica, losses>>
Present == {e \in Elements : replica[e] # None}
Create(e) ==
  /\ e \in fresh
  /\ fresh' = fresh \ {e}
  /\ \E k \in Colors : Dispatch({Created(e, [color |-> k, text |-> Blank])})
  /\ UNCHANGED joint
Recolor(e) ==
  /\ e \in Present
  /\ \E k \in Colors \ {replica[e].color} : Dispatch({Recolored(e, k)})
  /\ UNCHANGED <<fresh, joint>>
Delete(selection) ==
  /\ selection # {} /\ selection \subseteq Present
  /\ Dispatch({Deleted(e) : e \in selection})
  /\ joint' = (joint \/ \E e, o \in selection : e # o)
  /\ UNCHANGED fresh

\* textEdited: edits of the open field extend the latest step, any other makes one.
Type(e) ==
  /\ Act
  /\ e \in Present
  /\ \E v \in Contents \ {replica[e].text} :
       /\ replica' = [replica EXCEPT ![e].text = v]
       /\ IF openText = e
          THEN /\ undo' = [undo EXCEPT ![Len(undo)].after = v]
               /\ UNCHANGED <<redo, pending>>
          ELSE Record(TextStep(e, replica[e].text, v, Now))
  /\ openText' = e
  /\ UNCHANGED <<roomVars, up, down, connected, ready, ended, waiting, losses, fresh,
                 joint, disturbed>>

\* #restore: steps with nothing left to restore are dropped; then a text step is
\* restored at once, a structural one is proposed, or stays if the session takes
\* no command right now.
Skipped(step, back) ==
  IF step.kind = "text" THEN replica[step.e] = None
  ELSE Restoration(step, back, replica) = {}
Stacks(back, source, target) ==
  IF back THEN undo' = source /\ redo' = target ELSE redo' = source /\ undo' = target
Crosses(step, below, target, back) ==
  \/ /\ step.kind = "text"
     /\ replica' = [replica EXCEPT ![step.e].text = Goal(step, back)]
     /\ Stacks(back, below, Append(target, step))
     /\ UNCHANGED <<pending, waiting, up, disturbed>>
  \/ /\ step.kind = "structure" /\ ~ready
     /\ Stacks(back, Append(below, step), target)
     /\ UNCHANGED <<pending, replica, waiting, up, disturbed>>
  \/ /\ step.kind = "structure" /\ ready
     /\ Stacks(back, below, target)
     /\ Propose(Restoration(step, back, replica))
     /\ pending' = [id |-> acts + 1, step |-> step, back |-> back, superseded |-> FALSE]
     /\ UNCHANGED replica
Restore(back) ==
  LET source == IF back THEN undo ELSE redo
      target == IF back THEN redo ELSE undo
      left == {i \in DOMAIN source : ~Skipped(source[i], back)} IN
  /\ pending = None /\ Act
  /\ openText' = None
  /\ \/ /\ left = {}
        /\ Stacks(back, <<>>, target)
        /\ UNCHANGED <<pending, replica, waiting, up, disturbed>>
     \/ \E last \in left :
          /\ \A i \in left : i <= last
          /\ Crosses(source[last], SubSeq(source, 1, last - 1), target, back)
  /\ UNCHANGED <<roomVars, down, connected, ready, ended, losses, fresh, joint>>
Undo == Restore(TRUE)
Redo == Restore(FALSE)

\* Destruction or rejection: clear().
Close ==
  /\ ~ended
  /\ ended' = TRUE /\ ready' = FALSE /\ connected' = FALSE
  /\ up' = <<>> /\ down' = <<>> /\ waiting' = <<>>
  /\ undo' = <<>> /\ redo' = <<>> /\ pending' = None /\ openText' = None
  /\ UNCHANGED <<roomVars, replica, acts, losses, fresh, joint, disturbed>>

-----------------------------------------------------------------------------
\* The room

Answer(kind, id, doc) ==
  down' = IF connected THEN Append(down, [kind |-> kind, id |-> id, doc |-> doc]) ELSE down

\* A batch it has accepted already is acknowledged again; one behind a refused
\* batch waits for its new number; the others are executed or refused.
RoomDecides ==
  LET proposal == Head(up) IN
  /\ up # <<>>
  /\ up' = Tail(up)
  /\ \/ /\ proposal.id \in accepted
        /\ Answer("commit", proposal.id, room)
        /\ UNCHANGED <<room, accepted, gap, remover>>
     \/ /\ proposal.id \notin accepted /\ gap
        /\ UNCHANGED <<room, accepted, gap, remover, down>>
     \/ /\ proposal.id \notin accepted /\ ~gap /\ Executable(room, proposal.batch)
        /\ room' = Executed(room, proposal.batch, proposal.id)
        /\ accepted' = accepted \cup {proposal.id}
        /\ remover' = [e \in Elements |->
             IF room[e] # None /\ room'[e] = None THEN "me" ELSE remover[e]]
        /\ Answer("commit", proposal.id, room')
        /\ UNCHANGED gap
     \/ /\ proposal.id \notin accepted /\ ~gap /\ ~Executable(room, proposal.batch)
        /\ gap' = TRUE
        /\ Answer("conflict", proposal.id, room)
        /\ UNCHANGED <<room, accepted, remover>>
  /\ UNCHANGED <<historyVars, connected, ready, ended, replica, waiting, acts, others,
                 losses, fresh, joint, disturbed>>

\* Another participant's batch.  Bound: MaxOthers of them.
OtherEdits ==
  /\ others < MaxOthers
  /\ others' = others + 1
  /\ \E e \in Elements :
       /\ room[e] # None
       /\ \/ /\ \E k \in Colors \ {room[e].color} :
                  room' = Executed(room, {Recolored(e, k)}, 0)
             /\ UNCHANGED remover
          \/ /\ room' = Executed(room, {Deleted(e)}, 0)
             /\ remover' = [remover EXCEPT ![e] = "other"]
  /\ Answer("commit", 0, room')
  /\ disturbed' = TRUE
  /\ UNCHANGED <<accepted, gap, historyVars, up, connected, ready, ended, replica,
                 waiting, acts, losses, fresh, joint>>

-----------------------------------------------------------------------------
\* The session and its connection

\* The texts of an element that stayed are the replica's own.
Integrated(doc) ==
  [e \in Elements |->
    IF doc[e] # None /\ replica[e] # None /\ replica[e].born = doc[e].born
    THEN [doc[e] EXCEPT !.text = replica[e].text] ELSE doc[e]]

\* Bound: MaxLosses lost connections.
Lose ==
  /\ connected /\ losses < MaxLosses
  /\ losses' = losses + 1
  /\ connected' = FALSE /\ ready' = FALSE
  /\ up' = <<>> /\ down' = <<>>
  /\ disturbed' = (disturbed \/ waiting # <<>>)
  /\ UNCHANGED <<roomVars, historyVars, ended, replica, waiting, acts, fresh, joint>>

\* After a reconnection or a conflict: the room's document is integrated, then
\* every undecided batch is proposed again.
Synchronize ==
  /\ ~ended /\ ~ready /\ down = <<>>
  /\ connected' = TRUE /\ ready' = TRUE
  /\ replica' = Integrated(room)
  /\ up' = waiting
  /\ gap' = FALSE
  /\ UNCHANGED <<room, accepted, others, remover, historyVars, down, ended, waiting,
                 acts, losses, fresh, joint, disturbed>>

\* committed, for the restoration under way.  Mutant: the open field stays open.
RestoredKeepsOpen ==
  /\ pending' = None
  /\ undo' = IF pending.back THEN undo ELSE Append(undo,
       IF pending.superseded THEN [pending.step EXCEPT !.made = Now] ELSE pending.step)
  /\ redo' = IF pending.back /\ ~pending.superseded THEN Append(redo, pending.step) ELSE redo
  /\ UNCHANGED openText
Restored ==
  /\ pending' = None
  /\ openText' = None
  /\ undo' = IF pending.back THEN undo ELSE Append(undo,
       IF pending.superseded THEN [pending.step EXCEPT !.made = Now] ELSE pending.step)
  /\ redo' = IF pending.back /\ ~pending.superseded THEN Append(redo, pending.step) ELSE redo

Received(kind) ==
  /\ down # <<>> /\ Head(down).kind = kind
  /\ down' = Tail(down)
  /\ LET decided == {i \in DOMAIN waiting : waiting[i].id = Head(down).id} IN
       \/ decided = {} /\ waiting' = waiting
       \/ \E i \in decided : waiting' = RemoveAt(waiting, i)
Restoring(id) == pending # None /\ pending.id = id
ReceiveCommit ==
  LET id == Head(down).id IN
  /\ Received("commit")
  /\ replica' = Integrated(Head(down).doc)
  /\ \/ /\ waiting' = waiting
        /\ UNCHANGED historyVars
     \/ /\ waiting' # waiting /\ Restoring(id)
        /\ Restored
     \/ /\ waiting' # waiting /\ ~Restoring(id)
        /\ Record(StructureStep(replica, replica', Now))
        /\ openText' = None
  /\ UNCHANGED <<roomVars, up, connected, ready, ended, acts, losses, fresh, joint,
                 disturbed>>

\* A refused restoration is dropped with its step.  Mutant: it is waited for.
StillPending(p, id) == p
Decided(p, id) == IF p # None /\ p.id = id THEN None ELSE p
ReceiveConflict ==
  /\ Received("conflict")
  /\ pending' = Decided(pending, Head(down).id)
  /\ ready' = FALSE
  /\ UNCHANGED <<roomVars, undo, redo, openText, up, connected, ended, replica, acts,
                 losses, fresh, joint, disturbed>>

-----------------------------------------------------------------------------
Init ==
  /\ room = Opening /\ replica = Opening
  /\ accepted = {} /\ gap = FALSE
  /\ up = <<>> /\ down = <<>>
  /\ connected = TRUE /\ ready = TRUE /\ ended = FALSE
  /\ waiting = <<>>
  /\ undo = <<>> /\ redo = <<>> /\ pending = None /\ openText = None
  /\ acts = 0 /\ others = 0 /\ losses = 0
  /\ fresh = {e \in Elements : Opening[e] = None}
  /\ remover = [e \in Elements |-> "nobody"]
  /\ joint = FALSE /\ disturbed = FALSE

Next ==
  \/ \E e \in Elements : Create(e) \/ Recolor(e) \/ Type(e)
  \/ \E selection \in SUBSET Elements : Delete(selection)
  \/ Undo \/ Redo \/ Close
  \/ RoomDecides \/ OtherEdits
  \/ Lose \/ Synchronize \/ ReceiveCommit \/ ReceiveConflict

Spec == Init /\ [][Next]_vars

-----------------------------------------------------------------------------
\* Properties

\* The steps to undo, the one under way and the steps to redo are one sequence in
\* the order their changes were made: an undo always takes the latest, and no step
\* is redone over one made after it, however gestures and commits interleaved.
Chronological ==
  LET restored == IF pending = None \/ pending.superseded THEN <<>> ELSE <<pending.step>>
      later == [i \in DOMAIN redo |-> redo[Len(redo) + 1 - i]]
      all == undo \o restored \o later IN
  \A i, j \in DOMAIN all : i < j => all[i].made < all[j].made

\* Crossing a step, as if the room decided at once.
Crossed(doc, step, back) ==
  IF step.kind = "structure" THEN Executed(doc, Restoration(step, back, doc), 0)
  ELSE IF doc[step.e] = None THEN doc
  ELSE [doc EXCEPT ![step.e].text = Goal(step, back)]
Shown(doc) ==
  [e \in Elements |-> IF doc[e] = None THEN None ELSE <<doc[e].color, doc[e].text>>]

\* A participant who works alone, waits for the room's decisions and loses none of
\* its answers finds the document they opened, texts included, when they undo all.
BackToOpening ==
  LET undone[n \in 0 .. Len(undo)] ==
        IF n = 0 THEN replica ELSE Crossed(undone[n - 1], undo[Len(undo) + 1 - n], TRUE) IN
  ~ended /\ ~disturbed /\ waiting = <<>> => Shown(undone[Len(undo)]) = Shown(Opening)

\* "An element someone else has deleted since stays deleted": no sequence of undo
\* and redo brings back an element another participant removed, as long as every
\* gesture is about one element; a deletion of several is undone for all of them.
OthersDeletionsStand ==
  [][~joint =>
       \A e \in Elements : room[e] = None /\ remover[e] = "other" => room'[e] = None]_vars

\* The history never waits for a decision the room has given: undo and redo are
\* available again, whatever became of the batch that restored a step.
RestorationIsDecided ==
  pending # None => \E i \in DOMAIN waiting : waiting[i].id = pending.id

\* Edits extend a text step only while it is the latest and tells the field's text:
\* nothing slips between the edits it gathers.
OpenTextIsLatest ==
  openText # None =>
    /\ undo # <<>>
    /\ undo[Len(undo)].e = openText
    /\ replica[openText] # None => undo[Len(undo)].after = replica[openText].text
=============================================================================
