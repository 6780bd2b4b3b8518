------------------------------ MODULE Editing ------------------------------
(***************************************************************************)
(* Boxes being typed and edited on the canvas of one participant:          *)
(* node-typing.svelte.ts (new boxes, typed as drafts, proposed, created or *)
(* refused) and session/canvas-session.svelte.ts (the edit of an existing  *)
(* box, in its dialog or in place), in CollaborativeWorkspace.svelte.      *)
(*                                                                         *)
(* Between a gesture and its outcome lie a room, which accepts or refuses, *)
(* and other participants, who delete boxes.  A text is empty or not; what *)
(* is typed in place is shared as it is typed (module Session), so only a  *)
(* dialog has a draft to lose: here the number of changes made to it.      *)
(* Selection, focus, announcements and zoom are left out.                  *)
(***************************************************************************)
EXTENDS Naturals, Sequences, SequencesExt, FiniteSets

CONSTANTS
  Boxes,       \* the boxes that ever exist
  Existing,    \* those the document opens with
  Nothing,     \* no box, no draft, no edit
  MaxChanges,  \* bound: changes made to one draft
  MaxRequests  \* bound: edits saved and creations proposed, together

VARIABLES
  typing,     \* the draft of the new box being typed, with the boxes it is attached to
  parked,     \* the empty new box left for later
  pending,    \* the drafts proposed and not seen in the document yet
  activity,   \* the edit of an existing box
  saves,      \* saves whose outcome the session awaits
  nextSave,   \* number of the next save
  model,      \* the boxes of the document: the room's, as far as it has been published
  sent,       \* creations the room has yet to decide, in order
  answered,   \* answers whose continuation is about to run
  seen,       \* auxiliary: the boxes the model has held
  proposals,  \* how many creations were proposed
  refused,    \* auxiliary: the boxes whose refusal has come back
  acceptances, \* auxiliary: the saves that were accepted
  givenUp     \* auxiliary: whether the latest edit was given up by its author

typed == <<typing, parked, pending>>
awaited == <<saves, nextSave, acceptances>>
edited == <<activity, awaited, givenUp>>
known == <<model, seen, refused>>
vars == <<typed, edited, known, answered, sent, proposals>>

Afterwards == {"nothing", "select", "edit"}
Drafts == [box : Boxes, text : {"", "typed"}, to : SUBSET Boxes]
\* A proposed one, with its place among those proposed.
PendingDrafts == [box : Boxes, to : SUBSET Boxes, nth : 1 .. MaxRequests]
Creations == [draft : Drafts, edit : BOOLEAN]   \* whether its dialog is to follow
Answers == [creation : Creations, accepted : BOOLEAN]
Edits == [box : Boxes, dialog : BOOLEAN, draft : 0 .. MaxChanges, deleted : BOOLEAN,
          saving : BOOLEAN, save : 0 .. MaxRequests]
Saves == [box : Boxes, save : 1 .. MaxRequests, draft : 0 .. MaxChanges, present : BOOLEAN,
          carryOn : {"nothing", "child", "dialog"}]

ASSUME EditingAssumption ==
  /\ Existing \subseteq Boxes
  /\ Nothing \notin Boxes /\ Nothing \notin Drafts /\ Nothing \notin Edits
  /\ MaxChanges \in Nat /\ MaxRequests \in Nat

BoxOf(draft) == IF draft = Nothing THEN {} ELSE {draft.box}
Pending == {draft.box : draft \in pending}
\* Mutant: every draft is placed in the document as it is shared.
FitAlone(drafts) == \A draft \in drafts : draft.to \subseteq model
\* withNodeDrafts goes through the proposed drafts in order and skips one that no longer
\* fits: what it is attached to is neither in the document nor placed before it.
Fit(drafts) ==
  \A draft \in drafts :
    draft.to \subseteq model \cup {other.box : other \in {d \in drafts : d.nth < draft.nth}}
Placed == model \cup {draft.box : draft \in UNION {drafts \in SUBSET pending : Fit(drafts)}}
\* What the projection draws: the typed draft comes last.
Visible == Placed \cup {box \in BoxOf(typing) : typing.to \subseteq Placed}
\* Boxes proposed, whose answer has not come back.
Undecided ==
  {creation.draft.box : creation \in Range(sent)}
  \cup {answer.creation.draft.box : answer \in answered}
\* Boxes nothing refers to: a new one has a random identifier.
Fresh == Boxes \ (Existing \cup seen \cup refused \cup Pending \cup BoxOf(typing) \cup Undecided)

-----------------------------------------------------------------------------
\* A new box

\* A gesture outside the box being typed first leaves it; a parked box stays, and so
\* does one that is not drawn, which has no bar to be left by.
Unattended == BoxOf(typing) \cap Visible \subseteq {parked}

Typing(target) ==
  /\ typing' = [box |-> CHOOSE box \in Fresh : TRUE, text |-> "", to |-> target]
  /\ parked' = Nothing
\* open, when the session edits nothing: the draft is attached to a box in the document
\* or proposed and placed, or to none.
Opened(target) == Fresh # {} /\ target \subseteq Placed /\ Typing(target)
Open ==
  /\ activity = Nothing /\ Unattended
  /\ \E target \in {{}} \cup {{box} : box \in Placed} : Opened(target)
  /\ UNCHANGED <<pending, edited, known, answered, sent, proposals>>

Type ==
  /\ typing # Nothing /\ parked \notin BoxOf(typing)
  /\ typing' = [typing EXCEPT !.text = IF @ = "" THEN "typed" ELSE ""]
  /\ UNCHANGED <<parked, pending, edited, known, answered, sent, proposals>>

Resume ==
  /\ typing # Nothing /\ parked = typing.box
  /\ parked' = Nothing
  /\ UNCHANGED <<typing, pending, edited, known, answered, sent, proposals>>

\* #cancel
Cancelled == typing' = Nothing /\ UNCHANGED <<parked, pending>>
Cancel ==
  /\ typing # Nothing
  /\ Cancelled
  /\ UNCHANGED <<edited, known, answered, sent, proposals>>

\* #create of a box that is not empty.
Proposed(after) ==
  /\ pending' = pending \cup {[box |-> typing.box, to |-> typing.to, nth |-> proposals + 1]}
  /\ sent' = Append(sent, [draft |-> typing, edit |-> after = "edit"])
  /\ proposals' = proposals + 1

\* commit, edit, leave
Create(after) ==
  /\ typing # Nothing /\ parked \notin BoxOf(typing)
  /\ IF typing.text # ""
     THEN /\ proposals + nextSave <= MaxRequests
          /\ Proposed(after) /\ typing' = Nothing /\ UNCHANGED parked
     ELSE /\ UNCHANGED <<sent, proposals>>
          /\ IF after = "nothing"
             THEN parked' = typing.box /\ UNCHANGED <<typing, pending>>
             ELSE Cancelled
  /\ UNCHANGED <<edited, known, answered>>

\* #createWithChild: the child is typed at once, unless a box is edited or the proposed
\* one no longer fits.
CreateWithChild ==
  /\ typing # Nothing /\ parked \notin BoxOf(typing) /\ typing.text # ""
  /\ proposals + nextSave <= MaxRequests
  /\ Proposed("nothing")
  /\ IF activity = Nothing /\ Fresh # {} /\ typing.box \in Visible
     THEN Typing({typing.box})
     ELSE typing' = Nothing /\ UNCHANGED parked
  /\ UNCHANGED <<edited, known, answered>>

-----------------------------------------------------------------------------
\* The edit of an existing box

Edit(box, dialog) ==
  [box |-> box, dialog |-> dialog, draft |-> 0, deleted |-> FALSE,
   saving |-> FALSE, save |-> 0]
Begun(box, dialog) == activity' = Edit(box, dialog) /\ givenUp' = FALSE
\* selectEntity, then beginNodeEdit: nothing else is edited, the document has the box.
Editable(box) == activity = Nothing /\ box \in model

TypeInPlace(box) ==
  /\ Editable(box) /\ Unattended
  /\ Begun(box, FALSE)
  /\ typing' = IF parked \in BoxOf(typing) THEN Nothing ELSE typing
  /\ parked' = Nothing
  /\ UNCHANGED <<pending, awaited, known, answered, sent, proposals>>

OpenDialog(box) ==
  /\ Editable(box) /\ Unattended
  /\ Begun(box, TRUE)
  /\ UNCHANGED <<typed, awaited, known, answered, sent, proposals>>

\* updateDraft: dead while a save is under way.
UpdateDraft ==
  /\ activity # Nothing /\ activity.dialog /\ activity.draft < MaxChanges
  /\ ~activity.saving
  /\ activity' = [activity EXCEPT !.draft = @ + 1]
  /\ UNCHANGED <<typed, awaited, givenUp, known, answered, sent, proposals>>

\* saveDraft up to its await; saveNode is refused for a box that is gone.  In place,
\* a child or the dialog may follow.
Save(carryOn) ==
  /\ activity # Nothing /\ ~activity.saving /\ ~activity.deleted
  /\ carryOn # "nothing" => ~activity.dialog
  /\ proposals + nextSave <= MaxRequests
  /\ activity' = [activity EXCEPT !.saving = TRUE, !.save = nextSave]
  /\ saves' = saves \cup {[box |-> activity.box, save |-> nextSave, draft |-> activity.draft,
                           present |-> activity.box \in model, carryOn |-> carryOn]}
  /\ nextSave' = nextSave + 1
  /\ UNCHANGED <<typed, acceptances, givenUp, known, answered, sent, proposals>>

CancelEdit ==
  /\ activity # Nothing
  /\ activity' = Nothing /\ givenUp' = TRUE
  /\ UNCHANGED <<typed, awaited, known, answered, sent, proposals>>

\* Mutant: the outcome of a save is the outcome of whatever is edited.
Awaits(activityNow, save) == activityNow # Nothing
\* The save number is the one the edit waits for.
Current(activityNow, save) == activityNow # Nothing /\ activityNow.save = save.save

\* Mutant: any outcome closes the edit that awaits it.
Closed(edit, gone) == Nothing

AfterAccepted(edit) ==
  IF edit.deleted THEN [edit EXCEPT !.saving = FALSE, !.save = 0] ELSE Nothing
AfterRefused(edit, gone) ==
  [edit EXCEPT !.saving = FALSE, !.save = 0, !.deleted = @ \/ gone]

\* What #saved goes on to, whoever closed the edit: a child or the dialog, which
\* begin only if nothing is edited.
Child(save) ==
  /\ save.carryOn = "child" /\ activity' = Nothing
  /\ Fresh # {} /\ save.box \in Placed
CarryOn(save) ==
  IF Child(save) THEN Opened({save.box}) ELSE UNCHANGED <<typing, parked>>

\* The box of an edit still open is selected; that of one given up is or is not, and
\* only a selected box is edited.  The end of saveDraft; "failed" is a dispatch that throws.
SaveAccepted(save) ==
  /\ save.present \/ save.draft = 0
  /\ LET closed == IF Current(activity, save) THEN AfterAccepted(activity) ELSE activity
     IN \/ /\ activity' = closed /\ UNCHANGED givenUp
           /\ (save.carryOn = "dialog" /\ Current(activity, save)) =>
                save.box \notin model
        \/ /\ save.carryOn = "dialog" /\ closed = Nothing /\ save.box \in model
           /\ Begun(save.box, TRUE)
  /\ CarryOn(save)
  /\ acceptances' = acceptances \cup {save.save}
  /\ UNCHANGED pending
SaveRefused(save) ==
  /\ save.draft # 0
  /\ \E gone \in BOOLEAN :
       activity' = IF Current(activity, save) THEN AfterRefused(activity, gone) ELSE activity
  /\ UNCHANGED <<typed, acceptances, givenUp>>
SaveAnswered ==
  \E save \in saves :
    /\ SaveAccepted(save) \/ SaveRefused(save)
    /\ saves' = saves \ {save}
    /\ UNCHANGED <<nextSave, known, answered, sent, proposals>>

-----------------------------------------------------------------------------
\* The room and the other participants, whose changes arrive in the room's order

\* A creation is refused when a box it is attached to is gone, or for a reason of the room.
\* After a lost connection its commit arrives with those that follow it, which may
\* have deleted the box already.
RoomDecides ==
  /\ sent # <<>>
  /\ \E accepted, stays \in BOOLEAN :
       LET creation == Head(sent)
       IN /\ accepted => creation.draft.to \subseteq model
          /\ model' = IF accepted /\ stays THEN model \cup {creation.draft.box} ELSE model
          /\ answered' = answered \cup {[creation |-> creation, accepted |-> accepted]}
  /\ seen' = seen \cup model'
  /\ sent' = Tail(sent)
  /\ UNCHANGED <<typed, edited, refused, proposals>>

OtherDeletes(box) ==
  /\ box \in model
  /\ model' = model \ {box}
  /\ UNCHANGED <<typed, edited, seen, refused, answered, sent, proposals>>

\* settle, an effect of a changed document.
Settle ==
  /\ Pending \cap model # {}
  /\ pending' = {draft \in pending : draft.box \notin model}
  /\ UNCHANGED <<typing, parked, edited, known, answered, sent, proposals>>

\* #created: the dialog opens if the box is drawn by now.
Created(answer) ==
  LET box == answer.creation.draft.box
  IN /\ \/ UNCHANGED <<activity, givenUp>>
        \/ /\ answer.creation.edit /\ activity = Nothing /\ box \in model
           /\ Begun(box, TRUE)
     /\ UNCHANGED <<typed, refused>>

\* Mutant: the drafts attached to a refused box are dropped too.
RefusedWithChildren(answer) ==
  LET draft == answer.creation.draft
  IN /\ pending' = {other \in pending : other.box # draft.box /\ draft.box \notin other.to}
     /\ typing' = IF typing = Nothing \/ draft.box \in typing.to THEN draft ELSE typing
     /\ refused' = refused \cup {draft.box}
     /\ UNCHANGED <<parked, activity, givenUp>>
\* #refused
Refused(answer) ==
  LET draft == answer.creation.draft
  IN /\ pending' = {other \in pending : other.box # draft.box}
     /\ typing' = IF typing = Nothing THEN draft
                  ELSE IF draft.box \in typing.to THEN draft ELSE typing
     /\ refused' = refused \cup {draft.box}
     /\ UNCHANGED <<parked, activity, givenUp>>
Answered ==
  \E answer \in answered :
    /\ IF answer.accepted THEN Created(answer) ELSE Refused(answer)
    /\ answered' = answered \ {answer}
    /\ UNCHANGED <<awaited, model, seen, sent, proposals>>

\* Mutant: the dialog goes with its box.
LayoutClosing ==
  /\ activity # Nothing /\ ~activity.deleted /\ activity.box \notin Visible
  /\ activity' = Nothing
  /\ UNCHANGED <<typed, awaited, givenUp, known, answered, sent, proposals>>
\* reconcile, once a layout without the edited box is accepted.
Layout ==
  /\ activity # Nothing /\ ~activity.deleted /\ activity.box \notin Visible
  /\ activity' = IF activity.dialog THEN [activity EXCEPT !.deleted = TRUE, !.saving = FALSE]
                 ELSE Nothing
  /\ UNCHANGED <<typed, awaited, givenUp, known, answered, sent, proposals>>

-----------------------------------------------------------------------------

Init ==
  /\ typing = Nothing /\ parked = Nothing /\ pending = {}
  /\ activity = Nothing /\ saves = {} /\ nextSave = 1
  /\ model = Existing /\ seen = Existing
  /\ sent = <<>> /\ answered = {} /\ proposals = 0
  /\ refused = {} /\ acceptances = {} /\ givenUp = FALSE

Gestures ==
  \/ Open \/ Type \/ Resume \/ Cancel \/ CreateWithChild
  \/ \E after \in Afterwards : Create(after)
  \/ \E box \in Boxes : TypeInPlace(box) \/ OpenDialog(box)
  \/ UpdateDraft \/ CancelEdit
  \/ \E carryOn \in {"nothing", "child", "dialog"} : Save(carryOn)
Reactions == SaveAnswered \/ Settle \/ Answered \/ Layout
Next ==
  \/ Gestures \/ Reactions
  \/ RoomDecides \/ \E box \in Boxes : OtherDeletes(box)

Spec == Init /\ [][Next]_vars

-----------------------------------------------------------------------------
\* Properties

\* Types; an edit shown as being saved awaits an outcome still to come, and at most
\* one edit does so for each save.
EditingTypeOK ==
  /\ typing \in Drafts \cup {Nothing} /\ parked \in Boxes \cup {Nothing}
  /\ pending \subseteq PendingDrafts /\ proposals \in 0 .. MaxRequests
  /\ activity \in Edits \cup {Nothing}
  /\ saves \subseteq Saves /\ nextSave \in 1 .. MaxRequests + 1
  /\ acceptances \subseteq 1 .. MaxRequests /\ givenUp \in BOOLEAN
  /\ model \subseteq seen /\ seen \subseteq Boxes /\ refused \subseteq Boxes
  /\ answered \subseteq Answers /\ Range(sent) \subseteq Creations
  /\ activity # Nothing /\ activity.saving => \E save \in saves : save.save = activity.save

\* A proposed box stays among the drafts, once, from its proposal until its refusal comes
\* back or the document has held it; and it is drawn all that time, whatever is typed or
\* decided meanwhile, unless a box it is attached to was deleted or refused, or is not
\* drawn itself, being proposed before it and in that case.
ProposedIsDrawn ==
  /\ Undecided \subseteq Pending \cup seen
  /\ \A draft \in pending :
       /\ draft.box \notin BoxOf(typing)
       /\ \A other \in pending : draft.box = other.box => draft = other
       /\ \/ draft.box \in Visible
          \/ draft.to \cap ((seen \ model) \cup refused) # {}
          \/ \E other \in pending :
               other.box \in draft.to \ Visible /\ other.nth < draft.nth

\* docs/design.md:216: in collaboration a proposed box stays displayed in its place until
\* the room publishes it.  The code does not draw it once its target is deleted.
ProposedStaysShown == Undecided \subseteq Visible \cup seen

\* What was changed in a dialog goes away only when its author gives it up, or when it is
\* accepted as it stands, its box being there: not with the box, not with a refusal, and
\* not with the outcome of another save.
DraftIsKept ==
  [][(activity # Nothing /\ activity.draft > 0 /\ activity' # activity) =>
       \/ /\ activity' # Nothing
          /\ activity'.box = activity.box /\ activity'.draft >= activity.draft
       \/ CancelEdit
       \/ \E save \in saves :
            /\ save.save \in acceptances' \ acceptances
            /\ save.save = activity.save /\ save.draft = activity.draft
            /\ ~activity.deleted]_vars
=============================================================================
