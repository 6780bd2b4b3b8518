-------------------------- MODULE ProjectionProofs --------------------------
(***************************************************************************)
(* The canvas never turns to what is stale: whatever the document, the     *)
(* drafts and the sizes do while layouts are awaited, in any number and in *)
(* whatever order they end.                                                *)
(***************************************************************************)
EXTENDS Projection, TLAPS

Sources == [kind: {"uninitialized", "valid", "invalid"}, boxes: Documents]
Projections == [document: Documents, folded: BOOLEAN, inner: Documents, layoutFailed: BOOLEAN]
Effects == [revision: Nat, layer: Documents]
Requests ==
  [revision: Nat, layer: Documents, size: BOOLEAN, boxes: Documents, invalid: Nat]

ProjectionTypeOK ==
  /\ source \in Sources /\ drafts \in Documents
  /\ projection \in Projections
  /\ revision \in Nat /\ told \in Documents
  /\ effect \in Effects /\ frame \in BOOLEAN /\ sizes \in BOOLEAN
  /\ requests \subseteq Requests
  /\ changes \in Nat

\* What was projected last was told last, and the projection within is of it unless it is
\* laid out from its source: so a document that changes nothing is the one told.
ToldIsProjected ==
  /\ told = projection.document
  /\ ~projection.folded => projection.inner = projection.document

\* A readable document is projected as it is drawn.
ProjectedIsDrawn == Mounted /\ ~Unreadable => projection.document = Drawn

\* A canvas that observed the last revision measures what it was told.
LayerIsTold ==
  /\ effect.revision <= revision
  /\ effect.revision = revision => effect.layer = told

\* The layout awaited, if nothing was published since, is of what is told now, and found
\* the document unreadable only if it still is.
Fresh(request) ==
  /\ request.boxes = told /\ request.layer = told
  /\ request.invalid # 0 => Unreadable /\ request.invalid = changes
AwaitedIsFresh ==
  \A request \in requests : request.revision <= revision /\ (Current(request) => Fresh(request))

\* Nothing is awaited without a workspace.
NothingUnmounted == ~Mounted => requests = {} /\ effect.revision = 0 /\ ~frame

ProjectionInv ==
  /\ ProjectionTypeOK /\ ToldIsProjected /\ ProjectedIsDrawn /\ LayerIsTold
  /\ AwaitedIsFresh /\ NothingUnmounted

-----------------------------------------------------------------------------
LEMMA NothingIsNoRequest == Nothing \notin Requests
BY DEF Nothing, Requests

\* An update projects what it is given, and what it does not publish was told already.
LEMMA UpdateTells ==
  ASSUME projection \in Projections, revision \in Nat, told \in Documents, ToldIsProjected,
         NEW document \in Documents, NEW force \in BOOLEAN, Update(document, force)
  PROVE  /\ projection' \in Projections /\ revision' \in Nat /\ told' = document
         /\ projection'.document = document /\ ToldIsProjected'
         /\ \/ revision' = revision + 1
            \/ revision' = revision /\ told' = told /\ ~force
<1> DEFINE folded == document \in FalseCycles
           inner == IF folded THEN projection.inner ELSE document
<1>0. projection' = [document |-> document, folded |-> folded, inner |-> inner,
                     layoutFailed |-> FALSE]
  BY DEF Update, Projected
<1>1. /\ projection'.document = document /\ projection' \in Projections
      /\ ~projection'.folded => projection'.inner = document
  <2>1. folded \in BOOLEAN /\ inner \in Documents /\ (~folded => inner = document)
    BY DEF Projections
  <2> HIDE DEF folded, inner
  <2> QED BY <1>0, <2>1 DEF Projections
<1>2. CASE MustPublish(document, force)
  <2>1. revision' = revision + 1 /\ told' = document
    BY <1>2 DEF Update, Publish
  <2> QED BY <1>1, <2>1 DEF ToldIsProjected
<1>3. CASE ~MustPublish(document, force)
  <2>1. revision' = revision /\ told' = told /\ ~force /\ ~Changed(document)
    BY <1>3 DEF Update, MustPublish, observed
  <2>2. document = projection.document
    BY <2>1 DEF Changed, ToldIsProjected
  <2> QED BY <1>1, <2>1, <2>2 DEF ToldIsProjected
<1> QED BY <1>2, <1>3

\* Where the canvas is left alone, it keeps what it observed and awaits: after something
\* was published nothing of it counts, and otherwise all is as it was.
LEMMA CanvasKept ==
  ASSUME ProjectionTypeOK, LayerIsTold, AwaitedIsFresh,
         UNCHANGED <<effect, active, requests>>, revision' \in Nat,
         \/ revision' = revision + 1
         \/ /\ revision' = revision /\ told' = told
            /\ Unreadable => Unreadable' /\ changes' = changes
  PROVE  LayerIsTold' /\ AwaitedIsFresh'
<1>1. effect.revision \in Nat /\ \A request \in requests : request.revision \in Nat
  BY DEF ProjectionTypeOK, Effects, Requests
<1>2. CASE revision' = revision + 1
  <2>1. LayerIsTold'
    BY <1>1, <1>2 DEF LayerIsTold, ProjectionTypeOK
  <2>2. ASSUME NEW request \in requests
        PROVE  request.revision <= revision' /\ ~Current(request)'
    BY <1>1, <1>2, <2>2 DEF AwaitedIsFresh, Current, ProjectionTypeOK
  <2> QED BY <2>1, <2>2 DEF AwaitedIsFresh
<1>3. CASE /\ revision' = revision /\ told' = told
           /\ Unreadable => Unreadable' /\ changes' = changes
  <2>1. LayerIsTold'
    BY <1>3 DEF LayerIsTold
  <2>2. ASSUME NEW request \in requests
        PROVE  request.revision <= revision' /\ (Current(request)' => Fresh(request)')
    <3>1. Current(request)' => Current(request)
      BY <1>3 DEF Current
    <3> QED BY <1>3, <2>2, <3>1 DEF AwaitedIsFresh, Fresh
  <2> QED BY <2>1, <2>2 DEF AwaitedIsFresh
<1> QED BY <1>2, <1>3

\* A workspace of its own: nothing observed, nothing awaited.
LEMMA MountInv ==
  ASSUME ProjectionTypeOK, NEW document \in Documents, Mount(document),
         source' \in Sources, sizes' \in BOOLEAN, changes' \in Nat,
         Mounted' => source'.boxes = document
  PROVE  ProjectionInv'
<1>1. /\ projection' = [document |-> document, folded |-> document \in FalseCycles,
                       inner |-> document, layoutFailed |-> FALSE]
      /\ revision' = 1 /\ told' = document
      /\ effect' = [revision |-> 0, layer |-> {}] /\ frame' = FALSE
      /\ requests' = {} /\ drafts' = {}
  BY DEF Mount
<1>2. projection' \in Projections /\ effect' \in Effects /\ {} \in Documents
  BY <1>1 DEF Projections, Effects, Documents
<1>3. ProjectionTypeOK'
  BY <1>1, <1>2 DEF ProjectionTypeOK
<1>4. ToldIsProjected' /\ LayerIsTold' /\ AwaitedIsFresh' /\ NothingUnmounted'
  BY <1>1 DEF ToldIsProjected, LayerIsTold, AwaitedIsFresh, NothingUnmounted
<1>5. ProjectedIsDrawn'
  BY <1>1 DEF ProjectedIsDrawn, Drawn, WithDrafts
<1> QED BY <1>3, <1>4, <1>5 DEF ProjectionInv

-----------------------------------------------------------------------------
(* What changes the document and its drafts *)

LEMMA DrawnType ==
  ASSUME NEW document \in Documents, NEW typed \in Documents
  PROVE  WithDrafts(document, typed) \in Documents
BY DEF WithDrafts, Documents

LEMMA WorkspaceInv == ProjectionInv /\ (Open \/ Reset) => ProjectionInv'
<1> SUFFICES ASSUME ProjectionInv, Open \/ Reset PROVE ProjectionInv'
  OBVIOUS
<1>1. ProjectionTypeOK /\ sizes' = sizes /\ changes' = changes + 1
  BY DEF ProjectionInv, Open, Reset, Change
<1>2. CASE Open
  <2>1. PICK document \in Documents :
          source' = [kind |-> "valid", boxes |-> document] /\ Mount(document)
    BY <1>2 DEF Open
  <2>2. source' \in Sources /\ source'.boxes = document
    BY <2>1 DEF Sources
  <2> QED BY <1>1, <2>1, <2>2, MountInv DEF ProjectionTypeOK
<1>3. CASE Reset
  <2>1. source' = [kind |-> "uninitialized", boxes |-> {}] /\ Mount({}) /\ {} \in Documents
    BY <1>3 DEF Reset, Documents
  <2>2. source' \in Sources /\ source'.boxes = {}
    BY <2>1 DEF Sources
  <2> QED BY <1>1, <2>1, <2>2, MountInv DEF ProjectionTypeOK
<1> QED BY <1>2, <1>3

LEMMA ReadsValidInv == ProjectionInv /\ ReadsValid => ProjectionInv'
<1> SUFFICES ASSUME ProjectionInv, ReadsValid PROVE ProjectionInv'
  OBVIOUS
<1>1. PICK document \in Documents :
        /\ source' = [kind |-> "valid", boxes |-> document]
        /\ Update(WithDrafts(document, drafts), Unreadable)
  BY DEF ReadsValid
<1>2. /\ Mounted /\ changes' = changes + 1
      /\ UNCHANGED <<drafts, effect, frame, active, sizes, requests>>
  BY DEF ReadsValid, Change, canvas, shown
<1>3. ProjectionTypeOK
  BY DEF ProjectionInv
<1>4. /\ source' \in Sources /\ source'.boxes = document /\ source'.kind = "valid"
      /\ Mounted' /\ ~Unreadable'
  BY <1>1 DEF Sources, Mounted, Unreadable
<1>5. /\ WithDrafts(document, drafts) \in Documents /\ Unreadable \in BOOLEAN
      /\ Drawn' = WithDrafts(document, drafts)
  BY <1>2, <1>3, <1>4, DrawnType DEF ProjectionTypeOK, Unreadable, Drawn
<1>6. /\ projection' \in Projections /\ revision' \in Nat /\ told' = Drawn'
      /\ projection'.document = Drawn' /\ ToldIsProjected'
      /\ \/ revision' = revision + 1
         \/ revision' = revision /\ told' = told /\ ~Unreadable
  BY <1>1, <1>3, <1>5, UpdateTells DEF ProjectionInv, ProjectionTypeOK
<1>7. ProjectionTypeOK'
  BY <1>2, <1>3, <1>4, <1>5, <1>6 DEF ProjectionTypeOK
<1>8. ProjectedIsDrawn' /\ NothingUnmounted'
  BY <1>4, <1>6 DEF ProjectedIsDrawn, NothingUnmounted
<1>9. LayerIsTold' /\ AwaitedIsFresh'
  BY <1>2, <1>3, <1>6, CanvasKept DEF ProjectionInv
<1> QED BY <1>6, <1>7, <1>8, <1>9 DEF ProjectionInv

LEMMA ReadsInvalidInv == ProjectionInv /\ ReadsInvalid => ProjectionInv'
<1> SUFFICES ASSUME ProjectionInv, ReadsInvalid PROVE ProjectionInv'
  OBVIOUS
<1>1. /\ Mounted /\ source' = [source EXCEPT !.kind = "invalid"]
      /\ revision' = revision + 1 /\ told' = told /\ changes' = changes + 1
      /\ UNCHANGED <<drafts, projection, effect, frame, active, sizes, requests>>
  BY DEF ReadsInvalid, Change, Publish, canvas, shown
<1>2. ProjectionTypeOK
  BY DEF ProjectionInv
<1>3. source' \in Sources /\ Mounted' /\ Unreadable'
  BY <1>1, <1>2 DEF ProjectionTypeOK, Sources, Mounted, Unreadable
<1>4. ProjectionTypeOK'
  BY <1>1, <1>2, <1>3 DEF ProjectionTypeOK
<1>5. ToldIsProjected' /\ ProjectedIsDrawn' /\ NothingUnmounted'
  BY <1>1, <1>3 DEF ProjectionInv, ToldIsProjected, ProjectedIsDrawn, NothingUnmounted
<1>6. LayerIsTold' /\ AwaitedIsFresh'
  BY <1>1, <1>2, <1>4, CanvasKept DEF ProjectionInv, ProjectionTypeOK
<1> QED BY <1>4, <1>5, <1>6 DEF ProjectionInv

\* The effect that hands the document over, and a change of drafts: the document as it is
\* drawn from now on is told, unless there is none to read.
LEMMA RedrawnInv ==
  ASSUME ProjectionInv, drafts' \in Documents,
         UNCHANGED <<source, effect, frame, active, sizes, requests, changes>>,
         IF Unreadable THEN UNCHANGED <<projection, observed>>
         ELSE Update(WithDrafts(source.boxes, drafts'), FALSE)
  PROVE  ProjectionInv'
<1>1. ProjectionTypeOK
  BY DEF ProjectionInv
<1>2. Mounted' = Mounted /\ Unreadable' = Unreadable
  BY DEF Mounted, Unreadable
<1>3. Drawn' = WithDrafts(source.boxes, drafts') /\ Drawn' \in Documents
  BY <1>1, DrawnType DEF Drawn, ProjectionTypeOK, Sources
<1>4. CASE Unreadable
  <2>1. UNCHANGED <<projection, revision, told>>
    BY <1>4 DEF observed
  <2>2. ProjectionTypeOK'
    BY <1>1, <2>1 DEF ProjectionTypeOK
  <2>3. ToldIsProjected' /\ ProjectedIsDrawn' /\ NothingUnmounted'
    BY <1>2, <1>4, <2>1 DEF ProjectionInv, ToldIsProjected, ProjectedIsDrawn, NothingUnmounted
  <2>4. LayerIsTold' /\ AwaitedIsFresh'
    BY <1>1, <1>2, <2>1, <2>2, CanvasKept DEF ProjectionInv, ProjectionTypeOK
  <2> QED BY <2>2, <2>3, <2>4 DEF ProjectionInv
<1>5. CASE ~Unreadable
  <2>1. /\ projection' \in Projections /\ revision' \in Nat /\ told' = Drawn'
        /\ projection'.document = Drawn' /\ ToldIsProjected'
        /\ \/ revision' = revision + 1
           \/ revision' = revision /\ told' = told
    BY <1>1, <1>3, <1>5, UpdateTells DEF ProjectionInv, ProjectionTypeOK
  <2>2. ProjectionTypeOK'
    BY <1>1, <1>3, <2>1 DEF ProjectionTypeOK
  <2>3. ProjectedIsDrawn' /\ NothingUnmounted'
    BY <1>2, <2>1 DEF ProjectionInv, ProjectedIsDrawn, NothingUnmounted
  <2>4. LayerIsTold' /\ AwaitedIsFresh'
    BY <1>1, <1>5, <2>1, CanvasKept DEF ProjectionInv
  <2> QED BY <2>1, <2>2, <2>3, <2>4 DEF ProjectionInv
<1> QED BY <1>4, <1>5

LEMMA HandOverInv == ProjectionInv /\ HandOver => ProjectionInv'
<1> SUFFICES ASSUME ProjectionInv, HandOver PROVE ProjectionInv'
  OBVIOUS
<1>1. /\ UNCHANGED <<source, drafts, effect, frame, active, sizes, requests, changes>>
      /\ drafts' \in Documents
  BY DEF HandOver, canvas, shown, counters, ProjectionInv, ProjectionTypeOK
<1>2. IF Unreadable THEN UNCHANGED <<projection, observed>>
      ELSE Update(WithDrafts(source.boxes, drafts'), FALSE)
  BY <1>1 DEF HandOver
<1> QED BY <1>1, <1>2, RedrawnInv

LEMMA SetDraftsInv == ProjectionInv /\ SetDrafts => ProjectionInv'
<1> SUFFICES ASSUME ProjectionInv, SetDrafts PROVE ProjectionInv'
  OBVIOUS
<1>1. /\ UNCHANGED <<source, effect, frame, active, sizes, requests, changes>>
      /\ drafts' \in Documents
  BY ProjectionAssumption DEF SetDrafts, canvas, shown, Documents
<1>2. IF Unreadable THEN UNCHANGED <<projection, observed>>
      ELSE Update(WithDrafts(source.boxes, drafts'), FALSE)
  BY DEF SetDrafts
<1> QED BY <1>1, <1>2, RedrawnInv

-----------------------------------------------------------------------------
(* The canvas *)

LEMMA ObserveInv == ProjectionInv /\ Observe => ProjectionInv'
<1> SUFFICES ASSUME ProjectionInv, Observe PROVE ProjectionInv'
  OBVIOUS
<1>1. /\ Mounted /\ effect' = [revision |-> revision, layer |-> told] /\ frame' = TRUE
      /\ active' = Nothing
      /\ UNCHANGED <<source, drafts, projection, revision, told, sizes, requests, changes>>
  BY DEF Observe, observed, shown, counters
<1>2. ProjectionTypeOK /\ Mounted'
  BY <1>1 DEF ProjectionInv, Mounted
<1>3. effect' \in Effects
  BY <1>1, <1>2 DEF ProjectionTypeOK, Effects
<1>4. ProjectionTypeOK'
  BY <1>1, <1>2, <1>3 DEF ProjectionTypeOK
<1>5. ToldIsProjected' /\ ProjectedIsDrawn' /\ NothingUnmounted'
  BY <1>1, <1>2
     DEF ProjectionInv, ToldIsProjected, ProjectedIsDrawn, NothingUnmounted, Drawn, Unreadable,
         Mounted
<1>6. LayerIsTold'
  BY <1>1, <1>2 DEF LayerIsTold, ProjectionTypeOK
<1>7. AwaitedIsFresh'
  <2>1. ASSUME NEW request \in requests
        PROVE  request.revision <= revision /\ request # Nothing
    BY <1>2, <2>1, NothingIsNoRequest DEF ProjectionInv, AwaitedIsFresh, ProjectionTypeOK
  <2> QED BY <1>1, <2>1 DEF AwaitedIsFresh, Current
<1> QED BY <1>4, <1>5, <1>6, <1>7 DEF ProjectionInv

LEMMA ResizeInv == ProjectionInv /\ Resize => ProjectionInv'
<1> SUFFICES ASSUME ProjectionInv, Resize PROVE ProjectionInv'
  OBVIOUS
<1>1. /\ effect.revision > 0 /\ sizes' = ~sizes /\ frame' = TRUE
      /\ UNCHANGED <<source, drafts, projection, revision, told, effect, active, requests, changes>>
  BY DEF Resize, observed, shown
<1>2. ProjectionTypeOK /\ Mounted /\ Mounted' = Mounted /\ Unreadable' = Unreadable
  BY <1>1 DEF ProjectionInv, NothingUnmounted, Mounted, Unreadable
<1>3. ProjectionTypeOK'
  BY <1>1, <1>2 DEF ProjectionTypeOK
<1>4. ToldIsProjected' /\ ProjectedIsDrawn' /\ NothingUnmounted'
  BY <1>1, <1>2
     DEF ProjectionInv, ToldIsProjected, ProjectedIsDrawn, NothingUnmounted, Drawn
<1>5. LayerIsTold' /\ AwaitedIsFresh'
  BY <1>1, <1>2, CanvasKept DEF ProjectionInv, ProjectionTypeOK
<1> QED BY <1>3, <1>4, <1>5 DEF ProjectionInv

\* What a layout is asked for is what is told, if the canvas has observed it.
LEMMA RequestFresh ==
  ASSUME ProjectionInv
  PROVE  /\ Request \in Requests /\ Request.revision <= revision
         /\ Request.revision = revision => Fresh(Request)
<1>1. /\ Request.revision = effect.revision /\ Request.layer = effect.layer
      /\ Request.boxes = projection.document
      /\ Request.invalid = IF Unreadable THEN changes ELSE 0
  BY DEF Request
<1>2. ProjectionTypeOK /\ LayerIsTold /\ ToldIsProjected
  BY DEF ProjectionInv
<1>3. Request \in Requests
  BY <1>2 DEF Request, Requests, ProjectionTypeOK, Effects, Projections
<1> QED BY <1>1, <1>2, <1>3 DEF LayerIsTold, ToldIsProjected, Fresh

LEMMA RecalculateInv == ProjectionInv /\ Recalculate => ProjectionInv'
<1> SUFFICES ASSUME ProjectionInv, Recalculate PROVE ProjectionInv'
  OBVIOUS
<1>1. /\ frame /\ frame' = FALSE
      /\ UNCHANGED <<source, drafts, projection, revision, told, effect, sizes, changes>>
  BY DEF Recalculate, observed, counters
<1>2. \/ active' = active /\ requests' = requests
      \/ active' = Request /\ requests' = requests \cup {Request}
  BY DEF Recalculate
<1>3. ProjectionTypeOK /\ Mounted /\ Mounted' = Mounted /\ Unreadable' = Unreadable
  BY <1>1 DEF ProjectionInv, NothingUnmounted, Mounted, Unreadable
<1>4. ProjectionTypeOK'
  BY <1>1, <1>2, <1>3, RequestFresh DEF ProjectionTypeOK
<1>5. ToldIsProjected' /\ ProjectedIsDrawn' /\ NothingUnmounted' /\ LayerIsTold'
  BY <1>1, <1>3
     DEF ProjectionInv, ToldIsProjected, ProjectedIsDrawn, NothingUnmounted, Drawn, LayerIsTold
<1>6. ASSUME NEW request \in requests'
      PROVE  request.revision <= revision /\ (Current(request)' => Fresh(request)')
  <2>1. Fresh(request)' = Fresh(request)
    BY <1>1, <1>3 DEF Fresh
  <2>2. CASE request = Request
    BY <1>1, <2>1, <2>2, RequestFresh DEF Current
  <2>3. CASE request # Request
    <3>1. request \in requests /\ (Current(request)' => Current(request))
      BY <1>1, <1>2, <1>6, <2>3 DEF Current
    <3> QED BY <2>1, <3>1 DEF ProjectionInv, AwaitedIsFresh
  <2> QED BY <2>2, <2>3
<1>7. AwaitedIsFresh'
  BY <1>1, <1>6 DEF AwaitedIsFresh
<1> QED BY <1>4, <1>5, <1>7 DEF ProjectionInv

LEMMA SettleInv ==
  ASSUME ProjectionInv, NEW request \in requests, Settle(request)
  PROVE  ProjectionInv'
<1>1. /\ requests' \subseteq requests
      /\ UNCHANGED <<source, drafts, revision, told, effect, frame, active, sizes, changes>>
  BY DEF Settle, observed, counters
<1>2. /\ projection' \in Projections
      /\ projection'.document = projection.document
      /\ projection'.folded = projection.folded /\ projection'.inner = projection.inner
  <2>1. projection \in Projections
    BY DEF ProjectionInv, ProjectionTypeOK
  <2>2. PICK failed \in BOOLEAN :
          projection' = projection \/ projection' = [projection EXCEPT !.layoutFailed = failed]
    BY DEF Settle
  <2> QED BY <2>1, <2>2 DEF Projections
<1>3. ProjectionTypeOK /\ Mounted' = Mounted /\ Unreadable' = Unreadable /\ Drawn' = Drawn
  BY <1>1 DEF ProjectionInv, Mounted, Unreadable, Drawn
<1>4. ProjectionTypeOK'
  BY <1>1, <1>2, <1>3 DEF ProjectionTypeOK
<1>5. ToldIsProjected' /\ ProjectedIsDrawn' /\ NothingUnmounted' /\ LayerIsTold'
  BY <1>1, <1>2, <1>3
     DEF ProjectionInv, ToldIsProjected, ProjectedIsDrawn, NothingUnmounted, LayerIsTold
<1>6. AwaitedIsFresh'
  BY <1>1, <1>3 DEF ProjectionInv, AwaitedIsFresh, Current, Fresh
<1> QED BY <1>4, <1>5, <1>6 DEF ProjectionInv

-----------------------------------------------------------------------------
LEMMA ProjectionInit == Init => ProjectionInv
<1> SUFFICES ASSUME Init PROVE ProjectionInv
  OBVIOUS
<1>1. /\ source = [kind |-> "uninitialized", boxes |-> {}] /\ drafts = {}
      /\ projection = [document |-> {}, folded |-> {} \in FalseCycles, inner |-> {},
                       layoutFailed |-> FALSE]
      /\ revision = 1 /\ told = {} /\ effect = [revision |-> 0, layer |-> {}]
      /\ frame = FALSE /\ sizes = FALSE /\ requests = {} /\ changes = 0
  BY DEF Init
<1>2. source \in Sources /\ projection \in Projections /\ effect \in Effects /\ {} \in Documents
  BY <1>1 DEF Sources, Projections, Effects, Documents
<1>3. ProjectionTypeOK /\ ~Mounted
  BY <1>1, <1>2 DEF ProjectionTypeOK, Mounted
<1> QED
  BY <1>1, <1>3 DEF ProjectionInv, ToldIsProjected, ProjectedIsDrawn, LayerIsTold,
                    AwaitedIsFresh, NothingUnmounted

LEMMA ProjectionStep == ProjectionInv /\ [Next]_vars => ProjectionInv'
<1> SUFFICES ASSUME ProjectionInv, [Next]_vars PROVE ProjectionInv'
  OBVIOUS
<1>1. CASE Open \/ Reset
  BY <1>1, WorkspaceInv
<1>2. CASE ReadsValid \/ ReadsInvalid
  BY <1>2, ReadsValidInv, ReadsInvalidInv
<1>3. CASE HandOver \/ SetDrafts
  BY <1>3, HandOverInv, SetDraftsInv
<1>4. CASE Observe \/ Resize \/ Recalculate
  BY <1>4, ObserveInv, ResizeInv, RecalculateInv
<1>5. CASE LayoutSettles
  BY <1>5, SettleInv DEF LayoutSettles
<1>6. CASE UNCHANGED vars
  BY <1>6
     DEF vars, observed, canvas, shown, counters, ProjectionInv, ProjectionTypeOK,
         ToldIsProjected, ProjectedIsDrawn, LayerIsTold, AwaitedIsFresh, NothingUnmounted,
         Current, Fresh, Mounted, Unreadable, Drawn
<1> QED BY <1>1, <1>2, <1>3, <1>4, <1>5, <1>6 DEF Next

\* The outcome of a layout that is shown is that of the document as it is drawn.
LEMMA ShownIsDrawn ==
  ASSUME ProjectionInv, NEW request \in requests, Settle(request), Current(request)
  PROVE  Shows(display)'
<1>1. /\ display' = Outcome(request)
      /\ UNCHANGED <<source, drafts, changes>>
  BY DEF Settle, counters
<1>2. Mounted /\ Fresh(request) /\ told = projection.document
  BY DEF ProjectionInv, NothingUnmounted, AwaitedIsFresh, ToldIsProjected
<1>3. /\ Mounted' = Mounted /\ Unreadable' = Unreadable /\ Drawn' = Drawn
  BY <1>1 DEF Mounted, Unreadable, Drawn
<1>4. CASE Unreadable
  <2>1. display' = InvalidSource(changes)
    BY <1>1, <1>2, <1>4 DEF Outcome, Fresh
  <2> QED BY <1>1, <1>2, <1>3, <1>4, <2>1 DEF Shows, InvalidSource
<1>5. CASE ~Unreadable
  <2>1. request.invalid = 0 /\ request.boxes = Drawn /\ request.layer = Drawn
    BY <1>2, <1>5 DEF ProjectionInv, ProjectedIsDrawn, Fresh
  <2>2. display' = IF Drawn \in Unsolvable THEN Diagnostic(Drawn) ELSE Ready(Drawn, request.size)
    BY <1>1, <1>5, <2>1 DEF Outcome
  <2>3. Ready(Drawn, request.size).kind = "ready" /\ Ready(Drawn, request.size).boxes = Drawn
    BY DEF Ready
  <2>4. Diagnostic(Drawn)' = Diagnostic(Drawn)
    BY <1>3 DEF Diagnostic
  <2> QED BY <1>2, <1>3, <1>5, <2>2, <2>3, <2>4 DEF Shows
<1> QED BY <1>4, <1>5

\* For any boxes, any number of changes and of layouts under way: the canvas never turns to
\* a scene or a diagnostic that is not that of the document, as drawn, of that moment
\* (what recalculate compares when the layout it awaited ends).
THEOREM ShowsWhatIsThere == Spec => NothingStaleIsShown
<1>1. ProjectionInv /\ [Next]_vars
        => [display' # display => display' = Measuring \/ Shows(display)']_vars
  <2> SUFFICES ASSUME ProjectionInv, [Next]_vars, display' # display
               PROVE  display' = Measuring \/ Shows(display)'
    OBVIOUS
  <2>1. CASE Open \/ Reset
    BY <2>1 DEF Open, Reset, Mount
  <2>2. CASE LayoutSettles
    <3>1. PICK request \in requests : Settle(request)
      BY <2>2 DEF LayoutSettles
    <3>2. Current(request)
      BY <3>1 DEF Settle
    <3> QED BY <3>1, <3>2, ShownIsDrawn
  <2>3. CASE \/ ReadsValid \/ ReadsInvalid \/ HandOver \/ SetDrafts \/ Observe \/ Resize
             \/ Recalculate \/ UNCHANGED vars
    BY <2>3
       DEF ReadsValid, ReadsInvalid, HandOver, SetDrafts, Observe, Resize, Recalculate, vars, shown
  <2> QED BY <2>1, <2>2, <2>3 DEF Next
<1> QED
  BY <1>1, ProjectionInit, ProjectionStep, PTL DEF Spec, NothingStaleIsShown
=============================================================================
