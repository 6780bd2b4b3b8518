----------------------------- MODULE Projection -----------------------------
(***************************************************************************)
(* From the shared document to the scene a participant sees: the           *)
(* projection of the document with the drafts of this view                 *)
(* (SharedCanvasProjection, over DocumentProjection) and the canvas that   *)
(* measures what it is told to show, awaits a layout and shows it          *)
(* (LogicCanvas).  Documents change, become unreadable and are replaced,   *)
(* drafts come and go and texts change size while layouts are under way.   *)
(*                                                                         *)
(* A document is the set of its boxes: what is drawn and told apart.  A    *)
(* layout is a function of the boxes and the sizes they were measured at.  *)
(***************************************************************************)
EXTENDS Naturals, FiniteSets

CONSTANTS Boxes,
          Typed,         \* Those that are typed in this view.
          FalseCycles,   \* Documents whose folded groups make a cycle on the canvas.
          Unsolvable,    \* Documents the layout fails for.
          MaxChanges,    \* Changes of the session's document.
          MaxDrafts,     \* Changes of the drafts.
          MaxResizes,    \* Changes of the measured sizes.
          MaxLayouts     \* Layouts under way at once.

Documents == SUBSET Boxes
ASSUME ProjectionAssumption ==
  /\ Typed \subseteq Boxes /\ {FalseCycles, Unsolvable} \subseteq SUBSET Documents
  /\ {MaxChanges, MaxDrafts, MaxResizes, MaxLayouts} \subseteq Nat

VARIABLES
  source,      \* The session's source state and the document it was last valid with.
  drafts,      \* The boxes drawn in this view that the room has not accepted yet.
  projection,  \* What is projected, and whether its last layout failed.
  due,         \* The effect that hands the session's document over is to run.
  revision,    \* How often the canvas was told to look again ...
  told,        \* ... and what it is to measure.
  effect,      \* The revision and the measurement layer the canvas' effect observes.
  frame,       \* A recalculation is scheduled.
  sizes,       \* The sizes the texts have on the screen.
  previous,    \* What the last recalculation was made for.
  active,      \* The layout awaited, and ...
  requests,    \* ... all that are under way.
  display,     \* What is shown.
  changes, drafted, resized  \* Changes so far.

observed == <<revision, told>>
canvas == <<effect, frame, previous, active>>
shown == <<requests, display>>
counters == <<changes, drafted, resized>>
vars == <<source, drafts, projection, due, observed, canvas, sizes, shown, counters>>

Nothing == [kind |-> "nothing"]
Measuring == [kind |-> "measuring"]
Ready(boxes, size) == [kind |-> "ready", boxes |-> boxes, size |-> size]
Diagnostic(boxes) == [kind |-> "diagnostic", boxes |-> boxes]
InvalidSource(change) == [kind |-> "invalid", change |-> change]

Mounted == source.kind # "uninitialized"
Unreadable == source.kind = "invalid"
\* The document as drawn: a draft whose box the document holds already is skipped.  So is
\* one that no longer fits, in module Editing: here what is drawn of a document and drafts
\* need only be fixed.
WithDrafts(document, typed) == document \cup typed

-----------------------------------------------------------------------------
\* The projection

\* A false cycle is laid out from its source: the inner projection keeps what it had.
Projected(document) ==
  LET folded == document \in FalseCycles IN
  [document |-> document, folded |-> folded,
   inner |-> IF folded THEN projection.inner ELSE document, layoutFailed |-> FALSE]
\* Mutant: leaving a false cycle for what was drawn before it changes nothing.
ChangedInside(document) ==
  IF document \in FalseCycles THEN document # projection.document \/ ~projection.folded
  ELSE document # projection.inner
Changed(document) ==
  IF document \in FalseCycles THEN document # projection.document \/ ~projection.folded
  ELSE document # projection.inner \/ projection.folded
MustPublish(document, force) == Changed(document) \/ projection.layoutFailed \/ force

Publish(model) == revision' = revision + 1 /\ told' = model
Update(document, force) ==
  /\ projection' = Projected(document)
  /\ IF MustPublish(document, force) THEN Publish(document) ELSE UNCHANGED observed

Change == changes < MaxChanges /\ changes' = changes + 1

\* A session that was synchronized opens a workspace, with a projection and a canvas of its
\* own.  Layouts of a former workspace touch nothing of this one.
Mount(document) ==
  /\ projection' = [document |-> document, folded |-> document \in FalseCycles,
                    inner |-> document, layoutFailed |-> FALSE]
  /\ revision' = 1 /\ told' = document
  /\ effect' = [revision |-> 0, layer |-> {}] /\ frame' = FALSE
  /\ previous' = Nothing /\ active' = Nothing /\ requests' = {}
  /\ drafts' = {} /\ display' = Measuring
Open ==
  /\ ~Mounted /\ Change
  /\ \E document \in Documents :
       source' = [kind |-> "valid", boxes |-> document] /\ Mount(document)
  /\ due' = TRUE
  /\ UNCHANGED <<sizes, drafted, resized>>

\* A refused text replaces the replica by an empty one, and the workspace goes with it.
Reset ==
  /\ Mounted /\ Change
  /\ source' = [kind |-> "uninitialized", boxes |-> {}] /\ Mount({})
  /\ due' = FALSE
  /\ UNCHANGED <<sizes, drafted, resized>>

\* The session reads a valid document after an update of the replica.
ReadsValid ==
  /\ Mounted /\ Change
  /\ \E document \in Documents :
       /\ source' = [kind |-> "valid", boxes |-> document]
       /\ Update(WithDrafts(document, drafts), Unreadable)
  /\ due' = TRUE
  /\ UNCHANGED <<drafts, canvas, sizes, shown, drafted, resized>>

\* The replica cannot be read: its diagnostics are told, and those of every reading after.
ReadsInvalid ==
  /\ Mounted /\ Change
  /\ source' = [source EXCEPT !.kind = "invalid"]
  /\ Publish(told)
  /\ UNCHANGED <<drafts, projection, due, canvas, sizes, shown, drafted, resized>>

\* The workspace's effect: the document it was given, which the projection knows already.
HandOver ==
  /\ due /\ due' = FALSE
  /\ IF Unreadable THEN UNCHANGED <<projection, observed>>
     ELSE Update(WithDrafts(source.boxes, drafts), FALSE)
  /\ UNCHANGED <<source, drafts, canvas, sizes, shown, counters>>

SetDrafts ==
  /\ Mounted /\ drafted < MaxDrafts /\ drafted' = drafted + 1
  /\ drafts' \in (SUBSET Typed) \ {drafts}
  /\ IF Unreadable THEN UNCHANGED <<projection, observed>>
     ELSE Update(WithDrafts(source.boxes, drafts'), FALSE)
  /\ UNCHANGED <<source, due, canvas, sizes, shown, changes, resized>>

-----------------------------------------------------------------------------
\* The canvas

\* The effect runs again once what it reads has changed: the new measurement layer is on
\* the screen, frames and layouts of the former revision are abandoned.
Observe ==
  /\ Mounted /\ effect.revision # revision
  /\ effect' = [revision |-> revision, layer |-> told]
  /\ frame' = TRUE
  /\ active' = Nothing
  /\ UNCHANGED <<source, drafts, projection, due, observed, previous, sizes, shown, counters>>

\* Fonts arrive, texts wrap otherwise: the observer of the measured boxes schedules a frame.
Resize ==
  /\ resized < MaxResizes /\ resized' = resized + 1
  /\ effect.revision > 0
  /\ sizes' = ~sizes
  /\ frame' = TRUE
  /\ UNCHANGED <<source, drafts, projection, due, observed, effect, previous, active, shown,
                 changes, drafted>>

\* What the projection reads before it awaits.
Request ==
  [revision |-> effect.revision, layer |-> effect.layer, size |-> sizes,
   boxes |-> projection.document, invalid |-> IF Unreadable THEN changes ELSE 0]

\* A frame: nothing is laid out again for the same measurements of the same revision.
Measured == [revision |-> effect.revision, layer |-> effect.layer, size |-> sizes]
Recalculate ==
  /\ frame /\ frame' = FALSE
  /\ IF Measured = previous THEN UNCHANGED <<previous, active, requests>>
     ELSE /\ Cardinality(requests) < MaxLayouts
          /\ previous' = Measured
          /\ active' = Request
          /\ requests' = requests \cup {Request}
  /\ UNCHANGED <<source, drafts, projection, due, observed, effect, sizes, display, counters>>

\* The outcome of a layout; a document that became unreadable meanwhile has none, and a
\* box that was not measured cannot be laid out.
Outcome(request) ==
  IF request.invalid # 0 THEN InvalidSource(request.invalid)
  ELSE IF Unreadable THEN InvalidSource(changes)
  ELSE IF request.boxes \in Unsolvable \/ ~(request.boxes \subseteq request.layer)
       THEN Diagnostic(request.boxes)
  ELSE Ready(request.boxes, request.size)

\* Mutant: the layout awaited is shown, whatever has been published since.
Awaited(request) == active = request
Current(request) == active = request /\ request.revision = revision
Settle(request) ==
  LET outcome == Outcome(request) IN
  /\ requests' = requests \ {request}
  /\ projection' = IF outcome.kind = "invalid" THEN projection
                   ELSE [projection EXCEPT !.layoutFailed = outcome.kind = "diagnostic"]
  /\ IF Current(request)
     THEN /\ display' = outcome
          /\ previous' = IF outcome.kind = "ready" THEN previous ELSE Nothing
     ELSE UNCHANGED <<display, previous>>
  /\ UNCHANGED <<source, drafts, due, observed, effect, frame, active, sizes, counters>>
LayoutSettles == \E request \in requests : Settle(request)

-----------------------------------------------------------------------------
Init ==
  /\ source = [kind |-> "uninitialized", boxes |-> {}] /\ drafts = {}
  /\ projection = [document |-> {}, folded |-> {} \in FalseCycles, inner |-> {},
                   layoutFailed |-> FALSE]
  /\ due = FALSE
  /\ revision = 1 /\ told = {}
  /\ effect = [revision |-> 0, layer |-> {}] /\ frame = FALSE /\ sizes = FALSE
  /\ previous = Nothing /\ active = Nothing
  /\ requests = {} /\ display = Measuring
  /\ changes = 0 /\ drafted = 0 /\ resized = 0

Next ==
  \/ Open \/ Reset \/ ReadsValid \/ ReadsInvalid \/ HandOver \/ SetDrafts
  \/ Observe \/ Resize \/ Recalculate \/ LayoutSettles

\* Effects, frames and promises are run by the browser: each is run in the end.
Fairness ==
  /\ WF_vars(HandOver) /\ WF_vars(Observe) /\ WF_vars(Recalculate)
  /\ WF_vars(LayoutSettles)
Spec == Init /\ [][Next]_vars /\ Fairness

-----------------------------------------------------------------------------
\* Properties

\* What there is to show now: the drawing of the document with the drafts, or why there
\* is none.
Drawn == WithDrafts(source.boxes, drafts)
Shows(scene) ==
  IF ~Mounted THEN scene = Measuring
  ELSE IF Unreadable THEN scene = InvalidSource(changes)
  ELSE IF Drawn \in Unsolvable THEN scene = Diagnostic(Drawn)
  ELSE scene.kind = "ready" /\ scene.boxes = Drawn

\* Whatever layouts are under way, and in whatever order they end, the canvas never turns
\* to a scene or a diagnostic that is not that of the document, as drawn, of that moment.
NothingStaleIsShown ==
  [][display' # display => display' = Measuring \/ Shows(display)']_vars

\* Once documents, drafts and sizes are left alone, the canvas ends up showing the
\* document as it is drawn, at the sizes its texts have, or the reason why it cannot, and
\* that does not depend on how it came about.
CanvasCatchesUp ==
  <>[](Shows(display) /\ (display.kind = "ready" => display.size = sizes))
=============================================================================
