# Verification of sequit's collaboration

Sequit is a web editor for directed logic diagrams. Several people edit one
document at once: each browser keeps a Yjs replica, structural changes are
*commands* that a room on the server accepts or refuses one at a time, and text
is edited directly in the replica and proposed to the room afterwards. The room
is a Cloudflare Durable Object: one single-threaded object per room, with its
own transactional storage, that the runtime may evict, reset or wake at any
time, and that archives itself to an R2 bucket after an idle day.

This directory holds TLA+ models of that system, the TLC configurations that
check them on small instances, and TLAPS proofs of what matters most for every
instance. Paths below are relative to the repository; its sources are under
`src/`.

## 1. Inventory

The program's own concurrent logic is the collaboration: the worker
(`src/workers/collaboration-worker`), the client
(`src/lib/infrastructure/collaboration`) and the canvas that edits through it
(`src/app/web/ui`). The rest is pure (document rules, graph and layout
algorithms, codecs) or presentation.

| Component | State | Operations | Hard because |
|---|---|---|---|
| **Collaboration room** `collaboration-room.ts`, `room-storage.ts`, `room-archive.ts`, `command-receipts.ts` | document and commit in memory, their durable copy and one receipt per session in storage, an archive object, an alarm, a promise chain of frames, the `purged` flag | construct/restore, fetch, one handler per frame, commit, close, alarm, archive, purge | awaits inside handlers, resets between a write and its broadcast, restoration that writes, connections during the upload |
| **Room proposals** `room-proposals.ts`, `text-update-validation.ts` | none | authorize an initialization, commands, a text | which failure is an answer and which ends the socket |
| **Refusal budget** `room-refusal-budget.ts` | per-proposal and per-socket counters, a bucket of tokens | allow | lazy fractional refill, three bounds at once, a clock that may be set back |
| **Client session** `collaborative-session.ts`, `session-synchronizer.ts`, `session-text-edits.ts`, `session-conflict-recovery.ts`, `session-replica-recovery.ts` | replica, pending commands and their numbers, buffered and proposed texts, retry timer and count, readiness flags | dispatch, type, flush, synchronize, retry, conflict, reset, reject, destroy | everything is callbacks of one another; answers of a former connection; renumbering |
| **Transport** `websocket-collaboration-transport.ts`, `socket-health.ts` | current socket, status, back-off, one deadline per connection | connect, send, disconnect, close, four socket events, three deadlines | events and timers of superseded sockets, silent sockets, answers that cross a deadline |
| **History** `session-history.ts`, `history-restoration.ts` | undo and redo stacks, the pending restoration | undo, redo, committed, textEdited | an undo is decided by the room while the user goes on editing |
| **Presence** `session-presence.ts`, `room-sockets.ts`, `collaboration-awareness.svelte.ts` | own presence and its timer, what is shown; one attachment per socket | set, synchronize, attach, broadcast, close | lists overtaken by a reconnection, a reset or a replica with another clientID |
| **Command executor and rules** `document-commands.ts`, `shared-command-executor.ts`, `shared-command-rules.ts` | none | build a batch from a selection; execute it on a copy, command by command | a batch planned on one document is executed on another; junctions come and go as a side effect |
| **Core document, graph** `src/lib/core/document`, `src/lib/core/graph` | none | containment, placement and collection of junctions, deletion with bridges, validation, cycles | pure algorithms with side conditions on each other |
| **Canvas editing** `node-typing.svelte.ts`, `canvas-session.svelte.ts`, `CollaborativeWorkspace.svelte` | the typed box, the parked one, the proposed ones; the edit of an existing box and its saves | open, type, commit, cancel, park, resume; save and its outcome | outcomes that arrive while something else is being edited, boxes deleted under the cursor |
| **Local document session** `src/app/web/document` | the document of an unshared tab, its history | dispatch, save, close | synchronous except for a debounced save |
| **Ordering keys, layout engine, codecs** `src/lib/core/ordering`, `src/lib/core/layout`, wire format, Yjs codec, TOML, DOT | none | compare, place and route, encode, decode | pure; the layout is 40 000 lines of search |
| **Projection** `shared-canvas-projection.ts`, `document-projection.ts`, `LogicCanvas.svelte` | what is projected, drafts, whether the last layout failed; revision, scheduled frame, awaited layout, what is shown | update, read as invalid, set drafts; observe, measure, lay out, show | layouts awaited while documents, drafts and sizes change; what is not published is not drawn |
| **Routes, workshop, analytics, presentation** | Svelte state | draw | no property of the document |

They interact so: the user interface calls a session (`dispatch`, `updateText`,
`setPresence`); a session sends frames through its transport; the worker's
`fetch` (`index.ts`) gives the socket to the room; the room's handlers run one
after the other in the `processing` chain, execute a batch with the command
executor, write to the storage, then broadcast a `Commit` to every socket; a
session integrates what it receives, settles its dispatches and tells its
history. Storage, archive and alarm are shared between successive instances
of a room, and nothing else is.

What makes each part correct:

- *room*: what a client was told is never lost; memory and storage agree; a
  commit number names one document; a session's receipt is exactly what was
  executed; nobody misses a commit; every frame is answered; an idle room is
  freed.
- *session with room*: a command is executed once and its outcome is the truth;
  text is in the room, on its way or reported lost; the replica converges; every
  dispatch settles.
- *transport and budget*: one connection or one timer that will open it; a silent
  connection is noticed, one that answers is kept; refusals stay within a rate
  whatever sockets come and go.
- *document*: whatever late batch is accepted, the document reads well; a deletion
  removes what was selected, keeps the flow through it and is not refused.
- *history*: steps are undone latest first and redone in order, whatever the room
  decides meanwhile; undoing everything leads back to the opening document;
  nothing somebody else deleted comes back.
- *presence*: everybody who is there is shown, as they are, and nobody else.
- *projection*: the canvas shows the document there is, or why it cannot, and nothing
  it was before.
- *canvas editing*: what is typed is not lost to an outcome that is not its own; a
  proposed box stays drawn where it will be, as long as it fits.

## 2. Modules

| Module | What it is |
|---|---|
| `Room` | the room against any clients: one action per handler and per incident of the runtime |
| `Ledger` | abstract: an append-only ledger of proposals with one receipt per session |
| `RoomLedger` | the refinement mapping from `Room` to `Ledger` |
| `Session` | extends `Room` with the client sessions and their users |
| `Transport` | the client's end of the connection, with its clock: one action per socket event and timer |
| `RefusalBudget` | the room's budget of refusals, with its clock |
| `LeakyBucket` | abstract: what the budget promises |
| `Reconnection` | composes `Transport` and `RefusalBudget` on one clock |
| `History` | the undo and redo stacks of one session, with a room reduced to its decisions |
| `LogicDocument` | documents and the algorithms on them, as operators |
| `SharedDocument` | the batches people build and the executor that runs them, one action per command |
| `Presence` | the sessions' presences, the room's attachments and the lists between them |
| `Editing` | boxes typed and edited on the canvas of one participant |
| `Projection` | from the shared document to the scene: what is published, measured, laid out and shown |
| `MCRoom`, `MCSession`, `MCReconnection`, `MCHistory`, `MCSharedDocument`, `MCPresence`, `MCEditing`, `MCProjection` | small instances for TLC |
| `RoomProofs`, `SessionProofs`, `ReconnectionProofs`, `PresenceProofs`, `HistoryProofs`, `EditingProofs`, `ProjectionProofs`, `DocumentProofs` | the theorems |

`Session` composes with `Room` because their protocol is one. `Transport`,
`Presence` and `SharedDocument` are separate because each meets the rest at a
narrow place: `Session` treats a connection as something that is open or lost,
which is what `Transport` tells it; presences share only the socket with the
document's frames; and what a batch does inside the document is, to `Session`,
whether it is refused.

### Documents and messages

In `Room` and `Session` a document is a *set of operations*. A Yjs document is a
set of structs, an update a subset of it, applying an update a union; an
operation carries the proposal that made it, the sequence number and the commit
that executed it: if the code executed the same command twice the document would
hold two operations. A text edit is a struct made by the client, the same
wherever it is applied, so its operation carries only its id. What a proposal
does inside the document is abstracted to `Conflicts`: the proposals whose
execution makes its target go, or breaks a rule for it. A frame that does not
decode, or an update that is not what it claims to be, is the frame `malformed`.

In `History` documents are values, because undo is about values; in
`SharedDocument` they are what contains what and what relates what.

### Room

| State | Code |
|---|---|
| `memory` | `roomState` (document and commit) |
| `storage`, `legacy` | `document-meta`, the chunks and the `command-session:` keys; whether the stored format is to be upgraded |
| `archive` | `rooms/<id>/state.yjs` with its `commit` metadata |
| `job` | a handler between the transaction of `persistRoomState` and the broadcast of `commit` |
| `link`, `up`, `down` | each WebSocket, what is on its way to (or queued in) the room, and to the client |
| `instance`, `purged`, `refusals`, `alarm`, `retiring` | the object in memory; the flag `purged`; the budget; the scheduled alarm; how far `alarm()` is in the chain |
| `published` | auxiliary: every commit ever told to a client |

Handlers are atomic except where the code gives way: a commit is two steps
(`Persist`, then `Publish`) because the object may be reset between them; the
idle alarm is queued, uploads, and then purges or stays, because its R2 awaits
let connections and closes in. A storage await closes the input gate of a
Durable Object, so no other event falls between reading a receipt and publishing
the commit; that is why `InputGateOpen` guards every event while a commit is
under way. `Wake` is the constructor with the whole restoration: storage, else
archive, then the upgrade. `WakeFails` and `ReopenFails` are restorations that
fail, possibly after they rehydrated the storage. The alarm's link of the chain
may in the model be overtaken by frames queued behind it, a superset of what
happens.

`Faults` chooses what may befall the room: `crash`, `hibernate`, `storage`
(failing reads and transactions), `archive` (a put fails), `restore` (the
constructor fails), `idle` (a day without participants).

### Ledger and RoomLedger

`Ledger` says in three variables what a room promises: it is founded once, each
proposal is the next commit, each command the next of its session, edits are
added, the format may be upgraded, and only receipts may be forgotten. The
mapping reads the document and commit *a new instance would open* (`Durable`:
the storage, or the archive when the storage is empty) and the stored receipts.
Crashes, archiving, purging and restoring are stutters.

### Session

`session[c]` is a `CollaborativeSession` with its synchronizer and text flow: the
fields of the record are the private fields of those classes
(`ready`, `resuming`, `recovering`, `pending`, `sequence`, `attempts`, `timer`,
`buffer`, `texts`, ...). There is one action per public operation, per timer and
per kind of message received. `decision` is what a dispatch's promise settled
to, `fate` what became of a typed text. A lost connection (`Lose`) leaves what
was sent on it to the room: `Abandoned` sockets go on being read until they
close.

### Transport, RefusalBudget, Reconnection

| State | Code |
|---|---|
| `status`, `socket`, `closed` | what `onStatus` told; `socket` and `closed` of the closure |
| `wire`, `listening` | `readyState` of each WebSocket; whether its listeners are attached |
| `health` | the one timer of each `SocketHealth`: for the handshake, for silence, for a pong |
| `reconnect`, `delay` | `reconnectTimer`, `reconnectDelay` |
| `prompt`, `answer`, `calm` | the network: connections that answer within `RoundTrip`, what they owe, and whether it behaves from now on |
| `silence` | auxiliary: how long the current connection has not been heard |
| `credit`, `since` | `#tokens` in units of `RefillTime` to a token; the clock less `#lastRefill` |
| `total`, `proposals` | the `SocketBudget` of each WebSocket |
| `poured` | auxiliary: the level of a bucket that leaks as time really passes |

Time is discrete: `Tick` waits for the timers that are due. A reading that is
past a full refill changes nothing any more, so `since` is capped at `Full`; it
may be negative, because a clock may be set back. A socket of the transport is
the budget's key, so `Reconnection` puts both on one clock: a participant that
reconnects has a new budget, and only the room's bucket bounds what its short
connections cost. `ChurnIsBounded` is that as a refinement: what the room pays
for fits a bucket (`LeakyBucket`) that leaks one refusal a `RefillTime`.

### History

| State | Code |
|---|---|
| `undo`, `redo`, `pending`, `openText` | the private fields of `SessionHistory` |
| `replica`, `ready`, `waiting`, `ended` | the session's document, readiness, undecided batches and end |
| `room`, `accepted`, `gap` | the room's document, its receipts, and whether it waits for a renumbered batch |
| `up`, `down`, `connected` | what is on its way on the connection |
| `made` in a step, `remover`, `joint`, `disturbed`, `fresh`, the counters | auxiliary |

An element has one colour, which stands for the properties commands change, and
one text. A batch is a set of creations, updates and deletions;
`RestoreHistoryStep` is `restoreHistoryStep`. A created element has a new
identifier, as `crypto.randomUUID` gives it; an element created again by an undo
has the same identifier but is another Yjs map, which `born` tells apart. The
room decides batches in order, acknowledges again what it accepted, leaves those
behind a refused one undecided until the session synchronizes. Other
participants set colours and delete elements; nobody else edits the texts, and
no text is refused (replacing the replica belongs to `Session`). That a button
is dead while a dialog is open is the user interface's, not modelled: users may
do anything the session accepts.

### LogicDocument and SharedDocument

A document is a function `within` from what it holds (boxes, groups, junctions)
to the group around it, and a function `relations` from identifiers to pairs of
elements. `LogicDocument` has the algorithms of `src/lib/core` on such
documents: containment, `Readable` (`validateLogicDocument`, and `createGraph`
reduced to whether it fails: unknown ends, cycles of groups, cycles of relations
once groups stand for what they contain), the placement of junctions where their
targets are, their collection when they lose a side, and the deletion of a
selection with the bridges that keep its flow.

| State | Code |
|---|---|
| `document` | the room's document |
| `proposed` | per client, the batch its gesture built on the document it saw, with the gesture and what it selected |
| `running`, `candidate`, `rest` | the batch under execution: the copy being built and the commands left |
| `batches` | bound |

A gesture (`document-commands.ts` and the side panel) builds a batch; it is
executed when the room gets to it, on whatever the document has become. Each
`Execute...` is one command of `shared-command-executor.ts` with the checks
before and after it; `Finish` is the end of the batch, where an unreadable
candidate or a first refusal discards the whole. `current` tells a batch executed
on the document it was built for from a late one.

Texts, natures, lanes, regions, folding and order are left out. What the code does
until nothing is left to do (going up the groups, collecting junctions, following
targets through junctions, placing them) goes here in as many rounds as there can be
groups or junctions, one operator for the round (`Above`, `Unanchored`, `Onward`,
`Gathered`): section 4 proves that this is enough for it to be what is meant. The placement of
the junctions of a group repeats in rounds, as the code does, until nothing moves;
junctions on a cycle of junctions, which the code places one by one in an order of
its own, are excluded from `JunctionsFollowTargets`.

### Presence

| State | Code |
|---|---|
| `link`, `up`, `down` | the sockets, as in `Room`, with presence frames only |
| `attachment` | `serializeAttachment` of each socket |
| `client[c].local`, `timer`, `shown` | `#local`, the throttling timer and `#participants` of `SessionPresence` |
| `client[c].replica`, `mounting`, `others` | which clientID the replica has; the workspace between two replicas; what `CollaborationAwareness` shows |
| `client[c].starting`, `connected`, `socket`, `ended` | the session's connection and synchronization |

A presence is its author, the replica whose clientID it carries, and its number.
The room keeps nothing of it in memory, so that hibernation changes nothing; a
reset (`Crash`) drops the frames it had queued. What a client leaves (`left`)
stays among the room's sockets until the runtime tells the room of the close.
Names, pointers and selections have no content; an attachment that cannot be
stored and the limit of sockets are left out.

### Editing

| State | Code |
|---|---|
| `typing`, `parked`, `pending` | the typed draft, the parked one and the proposed ones of `NodeTyping`, the last with their order (`nth`) |
| `activity`, `saves`, `nextSave` | the edit of an existing box in `CanvasSession`, the saves it awaits and their numbers |
| `model` | the boxes of the document, as published to the canvas |
| `sent`, `answered` | creations the room has yet to decide; answers whose continuation is about to run |
| `proposals` | how many were proposed, from which a proposed draft has its place |
| `seen`, `refused`, `acceptances`, `givenUp` | auxiliary: the boxes the document has held, those whose refusal has come back, the saves that were accepted, whether the latest edit was given up by its author |

A text is empty or not. Text typed in place is shared as it is typed (`Session`),
so only a dialog has a draft to lose, and a draft is the number of changes made to
it.

`Placed` is what `withNodeDrafts` makes of the document and the proposed drafts: it
takes them in the order of their proposals and skips one that no longer fits, because
what it is attached to is neither in the document nor placed before it; `Fit` says that
of a set of drafts, and the largest such set is placed. `Visible` adds the typed draft,
which comes last. A child is opened from a placed box only. A typed box that is not
drawn has no bar, so that a gesture elsewhere does not leave it and opening another
replaces it. Boxes are not in groups here, so a draft is attached by its relations only.

A gesture is one action; what follows from an outcome (`SaveAnswered`,
`Answered`), from the document (`Settle`) and from an accepted layout (`Layout`)
may come at any time after it, as the microtasks, effects and layout of the page do.
Selection, focus, announcements and zoom are left out.

### Projection

| State | Code |
|---|---|
| `source` | `#sourceState` of the session, with the document it was last valid with |
| `drafts`, `projection` | `#drafts`, `#document`, `#foldedSource`, `#layoutFailed` of `SharedCanvasProjection`; `inner` is the document of its `DocumentProjection` |
| `due` | the workspace's effect that hands the document over a second time |
| `revision`, `told` | `projectionRevision` and `measurementModel` of `LogicCanvas` |
| `effect`, `frame` | what the measuring effect last ran for; its animation frame |
| `previous`, `active`, `requests`, `display` | the last measurements laid out, `activeLayoutRequest`, the calls of `createCanvasModel` that have not ended, what is shown |
| `sizes` | the sizes the browser gives the measured texts |

A document is the set of its boxes, which stands for everything that is drawn:
topology, measured content, provenance of relations. A layout is a function of the
boxes and their sizes, so the caches of layouts, which return what was computed for
the same, are left out; so are the previews of single regions. Some documents have
folded groups that make a cycle on the canvas, which takes the other path through
the projection; some cannot be laid out, and so cannot boxes that were not measured.
That a draft which no longer fits is skipped is left to `Editing`: here only that the
same document and drafts are always drawn alike matters, and they are drawn together.
`createCanvasModel` reads the projection when it is called and the source again when
it ends. Replacing the replica unmounts the workspace (`{#key session.replica}`); the
next one has a projection of its own. How an initialized replica comes to be
unreadable is not said: it may be at any time.

## 3. Runs

| Run | Instance | Question | States |
|---|---|---|---|
| `room_faults` | 2 sockets, 2 sessions, 3 commands, a text, 2 frames, all faults | agreement of the copies, durability, commit numbers, order and completeness of what is told, refinement of the ledger | 113 000 |
| `sessions` | three populations of joined sessions, a room that crashes: a deletion, a command and a text on the same target by two sessions on 3 sockets; 3 commands of one session of which the first is refused, and a text; 3 commands that cross a lost connection | executed once and only once, never stuck, numbers follow the receipt, backed replicas, tracked texts | 912 000 |
| `session_new` | 2 sessions opening a new or an old room, idle days, hibernation, failing archive and restoration | initialized once, convergence | 322 000 |
| `session_live` | 1 session, a command, a text, failing storage and archive, hibernation, idle days, 2 sockets | dispatches settle, texts arrive, frames are handled, an idle room is freed | 104 000 |
| `reconnects` | 2 connections, 2 proposals, a clock whose unit stands for 5 s, one set-back of it | one way back, silence and health, churn (refinement), return | 383 000 |
| `document` | 2 clients, 2 batches, 2 elements selected, three openings | readable documents, junctions with their targets, deletions | 453 000 |
| `history` | 2 elements, 2 colours, 2 texts, 4 gestures of which a deletion may be of both, 1 edit by somebody else, 1 lost connection | order of the stacks, the way back, decided restorations, open text field, others' deletions | 1 800 000 |
| `presence` | 2 participants, 4 sockets, one replaced replica, 2 frames to a client; three openings | everybody shown, nothing older, who left forgotten | 286 000 |
| `editing` | a box of the document and 2 new ones, 3 requests (boxes proposed and edits saved), 1 change of a draft | proposed boxes kept and drawn, drafts kept | 3 191 000 |
| `projection` | 2 boxes, one of them typed in this view, a false cycle, a document without layout, 3 changes, a draft, a resize, 2 layouts under way | nothing stale is shown, the canvas catches up | 738 000 |

The bounds are populations: sockets, commands and texts are used once each, and
`MaxFrames`, `MaxAttempts`, `Capacity`, `MaxRefusals`, `MaxRoomSockets` are
small enough to be reached. Why they are enough:

- *rooms and sessions*: two sockets let a frame of a lost connection meet the one
  that replaced it; two sessions let somebody else's commit fall between; two or
  three commands give a gap, a replay and a renumbering.
- *reconnects*: two slots give a connection and the one it superseded, which may
  still be closing; slots are taken again, so the number of connections is not
  bounded. The deadlines have the order and the rough proportions of the code's:
  the heartbeat's timeout is longer than a round trip and shorter than its
  interval, and the back-off reaches its maximum.
- *document*: two batches are one that is late and the one it is late for. The
  openings are two junctions chained into nested groups; a junction that leads to
  a group and to a box; two boxes that converge and part again beside a direct
  relation. The clients are interchangeable and the properties treat them alike, so
  they are a symmetry set.
- *history*: four gestures are an edit, its undo, a gesture meanwhile and the
  redo; the edit by somebody else makes a restoration refused.
- *presence*: four sockets are two reconnections of two participants; two frames
  are one list overtaken by a newer one. The openings: both are shown, one with its
  replica replaced already; the replica still to be replaced; one that has told
  nothing of itself yet.
- *editing*: the requests are shared by boxes proposed and edits saved (`MaxRequests`).
  Three are a box, the child typed after it, and the box refused and proposed again, now
  after its child in the order they are placed; or two saves awaited at once, the first
  by an edit given up, the second by the one that followed it, and a box such a save
  goes on to. The box of the document is what others delete under all of them; one
  change tells a draft from the content saved before it.
- *projection*: three changes are an opening, a document that cannot be read or is
  folded, and its correction; two layouts under way can end in either order.

Deadlock is not checked: a bounded population that has done everything stops.

Two runs show where the code and what the repository says of it part; each
finds a short behaviour that was followed through the source:

| Run | What it shows |
|---|---|
| `session_twice` | after a conflict a renumbered command and its former frame, still on an old socket, are both executed; the number of the next command is thereby taken, and its dispatch resolves as accepted although it was never executed |
| `session_stuck` | a conflict cancels the retry a text waits for; the session stays unready with nothing under way |

The same models show more of the kind, without a run of their own.

*Room and sessions.*

- An idle day deletes the receipts with the storage (`room-archive.ts:147`),
  which are "never evicted while the document exists"
  (`command-receipts.ts:8`); the next command of a session that survived that day
  is a gap for ever.
- Text of a deleted target that travels in a synchronization answer ends the
  session (`text-update-validation.ts:88`), where the document says the client
  gives up that incarnation of the text and synchronizes
  (`docs/collaboration-resilience.md:75-79`).
- `onCommit` sets a session ready without sending the texts flushed while it was
  not (`collaborative-session.ts:263`): they stay queued until the next retry,
  reconnection or conflict. `QuietMeansConverged` is violated on a new room with
  one text, two sockets and a failing storage; the passing runs check it without
  that combination.
- The gaps that answer the commands behind a refused one count as failed
  attempts (`session-synchronizer.ts:57`): enough of them end a session whose
  storage and connection never failed.
- `PendingFollowsReceipt` and `DecisionsAreTrue` do not hold once a command was
  refused *and* the connection lost, for the reason `session_twice` shows. `sessions`
  checks the former on populations in which a session that is refused keeps its
  connection; what holds whatever is lost speaks of sessions none of whose commands
  was refused (`Unrefused`), and is proved.
- With its receipts, a purge forgets what was executed: a command whose answer was
  lost may be executed again on the restored document, or a later one be taken for a
  gap. `SequenceOnce` and `ExecutedExactlyOnce` are stated for rooms that are never
  idle for a day, as is `PendingFollowsReceipt`, and `ImplementsLedger` allows a ledger
  to forget receipts at any time: no property checked here speaks of a session that
  survives a purge.
- A crash between the restoration of an archived room and `scheduleIdleAlarm` in
  `fetch` leaves a storage with no alarm. That is why `session_live` does not
  enable `crash`.

*History.*

- A batch whose commit message is lost makes no undoable step: by the time the
  commit is acknowledged again the synchronization has integrated the batch, so
  the document "just before" (`collaborative-session.ts:245`) equals the one
  after. Dropping the lost connection from `disturbed` shows it with one deletion.
- An undo pressed while an own batch is undecided crosses the step before that
  batch, and undoing everything no longer leads back to the opening document.
  `BackToOpening` is therefore stated for users who wait.
- `restoredFields` (`history-restoration.ts:70,73`) sets a property back even if
  somebody else changed it after the step; the comment at line 319 says "set back
  where nobody has changed it since". `History` models what the code does.
- The same comment ("An element someone else has deleted since stays deleted") and
  `docs/design.md:229` hold of steps about one element, and only of those. A step is
  pushed whole on the other stack (`session-history.ts:119-127`) and
  `elementChanges` creates whatever it deleted and is gone. Somebody deletes a box
  with its relation (or two boxes) and undoes it; another participant deletes the
  relation; redoing deletes the box that is left, and undoing again creates both.
  `OthersDeletionsStand` is therefore stated for users none of whose gestures deleted
  several elements (`~joint`); without that condition TLC finds these four gestures
  when `MCOpening` has both elements. A creation of several elements at once, as
  when pasting, has the same consequence and is not modelled.

*Documents.*

- `executeSharedCommands` finalizes a command only between two documents that read
  well (`shared-command-executor.ts:272-274`), and what is read at the end is
  neither placed nor checked for repetitions. A deletion that is late by two
  redirections can add a bridge that closes a cycle, skip `finalizeSharedCommand`
  until it cuts the cycle again, and be accepted: with junctions where they were,
  although "every surviving junction then follows its targets, whichever command
  moved, grouped or rewired them" (`shared-command-rules.ts:106-109`), and, if
  somebody drew one of its bridges meanwhile, with that relation twice. Three and
  four batches on a document of four boxes, a group and two junctions show it.
  `JunctionsFollowTargets` therefore speaks of the commands that are finalized.
- "A junction exists only while anchored on both sides"
  (`document-commands.ts:175`) holds of deletions only: moving an end of a
  relation away from a junction, or dissolving a group that anchors one, leaves it
  unanchored (`JunctionsAreAnchored` in `SharedDocument` is that statement).
- A deletion that is executed late gives up the flow of a relation somebody added
  to the junction meanwhile; a direct relation between two elements is taken for
  the bridge between them although it is deleted by the same gesture.

*Presence.*

- `EveryoneButThisClient` does not hold: `CollaborationAwareness` leaves out whoever
  has the clientID of the document there is now ("Everyone but this client.",
  `collaboration-awareness.svelte.ts:11`). After a refused text `#resetReplica`
  installs a document with another one and synchronizes, which sends the presence of
  the former (`session-presence.ts:30,39`): the user is shown among the others until
  the workspace is mounted again and sets a presence.
- `ShownOnce` does not hold: after a connection that was lost silently, the old
  socket and the new one both carry a presence of the same `clientId`, and it is
  the key of the lists in `ParticipantAvatars.svelte:42` and
  `CanvasAwareness.svelte:174`.

*Canvas editing.*

- The text of a refused box comes back to typing only if nothing else is being
  typed, and an empty parked box is enough for that (`node-typing.svelte.ts:379`),
  where `docs/design.md:216` gives it back without condition. The children of a
  refused box go with it, but a chain of three is let go one level at a time.
- `ProposedStaysShown` does not hold: "En collaboration, une boîte proposée reste
  affichée à sa place jusqu’à ce que la room la publie." (`docs/design.md:216`), but
  `withNodeDrafts` skips a draft that no longer fits (`node-draft.ts:70`). A box
  is opened from a box of the document, typed and proposed, while another participant
  deletes the latter: it is not drawn while the room decides. TLC finds such a
  behaviour in four steps when the run `editing` is given that invariant.
- The same is true of the box being typed, and of one refused and given back to be
  typed (`node-typing.svelte.ts:379`): once what it is attached to is deleted it is not
  drawn, out of reach, and the next box opened replaces it with its text
  (`node-typing.svelte.ts:194`). `ProposedIsDrawn` therefore says of a proposed box what
  the code keeps: it is among the drafts until it is decided, and is skipped only for a
  box deleted or refused down its chain. TLC finds a violation without either of these
  exceptions.
- A refusal that comes back while a box is edited in place leaves two boxes being
  typed.
- A box created and deleted before the document is read again stays drawn: the
  drafts are settled only by seeing the box in the document.

### Fairness

`Fairness` and `CollabFairness` assume what the runtime and the browser promise:
a delivered frame, connection or close is handled (weak fairness of the
handlers), a handler that persisted goes on to publish, an event wakes the
object, timers fire, and a client without a socket opens one. Strong fairness is
used for the alarm and the archive's put: they are enabled again and again
rather than continuously, because participants come and go and a failing put
reschedules the alarm. Nothing is assumed of users: no dispatch, typing,
destruction or connection loss is fair.

In `Reconnection` time passes and timers that are due fire at that time (a
browser that throttles the timers of a page in the background is not modelled);
a prompt connection answers; a socket that is closing ends. `ComesBack` says
"once the network is calm" because nothing promises that it ever is: `calm` may
become true and then stays so.

In `Presence` the room handles what arrives and is told, in the end, of every
connection that is gone; a browser reads what it is sent and notices a closed
connection. `GoneIsForgotten` needs the former: until the runtime tells the room
of a dead connection nobody can know.

In `Projection` effects, animation frames and promises run in the end; that a page in
the background has no frames only delays it. Nothing is assumed of the session, the
user or the fonts, whose changes are bounded: `CanvasCatchesUp` speaks of what
follows the last of them.

`History`, `SharedDocument` and `Editing` are checked for safety only:
`RestorationIsDecided` and `QuietShowsEveryone` say as invariants what must be
true when nothing is under way.

## 4. Proofs

All proofs are for arbitrary sets and arbitrary bounds, under the named
assumptions of the modules only.

*Room* (`RoomAssumption`: the ids of texts, commands and initializations are
disjoint and `NoId`, `NoSocket` are not among them; bounds are naturals).

- `RoomProofs`. The inductive invariant is `RoomInv`: types, `Bookkeeping`,
  `MemoryIsDurable`, `ToldIsDurable`, `CommitNamesDocument`,
  `ReceiptsAreBacked`. `Bookkeeping` is what the others need to be inductive:
  a commit under way excludes the upload, an archive that is stored is the
  memory, an archive older than the storage is contained in it, a live object
  with an empty storage has no archive. One lemma per group of actions shows
  that it is preserved; the theorems read off the conjuncts, and
  `CounterMonotonic` the action property.
- The ledger, in the same module. `Spec => Promised!Spec`, step by step from `RoomInv`:
  persisting is one ledger step, the upgrade at load is `Upgrade`, the purge is
  `ForgetReceipts`, everything else is a stutter.

  The same induction gives `InitializedAtMostOnce`: the founding proposal of the
  ledger finds an empty room.

  With no idle day, `OnceInv` (no archive, and a stored command's sequence is at most
  its session's receipt) is inductive on top of `RoomInv` and gives `SequenceOnce`
  (`ExactlyOnce`). The hypothesis is needed: with idle days the receipts are forgotten.
- `RoomProofs` also has what a socket is told. `OrderedCommits`: the numbers on their
  way never go back, because none is ahead of the durable one (`OrderInv`), which
  never goes back. `NothingMissed`: what the room said it held when it synchronized
  a socket, and every commit behind it on the way, are what the room holds; inductive
  with `SyncedInv`, which says the same of a room that hibernates and will be
  restored from its storage.

*Session* (`SessionAssumption` on top of `RoomAssumption`).

- `SessionProofs`. A session's steps leave the room's inside alone and put frames on
  its sockets, as any client of `Room` may: so `RoomInv` stays (`SessionsLoseNothing`,
  `CollabRefinement`, `SessionsInitializeOnce`, and `SessionsExecuteOnce` without
  idle days). The inductive invariant `CollabInv` adds what a session may rely on:
  types; `SocketsInv` (a socket has one session, and one that ended keeps nothing);
  `ToldInv` (all that is on its way to a session is durable, and whatever the room
  lacks when it asks is text); `TextsInv` (a proposal has one name and one content
  wherever it travels, and a commit that names it holds it). With these
  `ReplicaIsBacked` and `TextsAreTracked` are inductive for any `Faults`
  (`ReplicasAreBacked`, `TypedEditsAreTracked`): integrating adds what is durable, an
  acknowledged text is durable because the commit held it, a refused one leaves with
  the replica it was merged in.
- Commands are numbered by the session and deduplicated by number in the room, so
  that they are executed once rests on the numbers being stable. `NumbersInv`: until
  one of a session's commands is refused, a command has one number and a number one
  command, whether pending, on its way on any connection, or executed. `AcceptedInv`:
  a commit that names a command, and an acceptance, mean that it was executed. Hence
  `AcceptedMeansExecuted` in any room, and, with the receipts of a room that is never
  purged (`"idle" \notin Faults`), `CommandsExecuteExactlyOnce`. `PendingInv`: a
  number given is within the receipt or still pending, and pending numbers grow;
  hence `NoGapWithoutRefusal`. Both hypotheses are needed: a refusal renumbers
  (`session_twice`), a purge forgets receipts. Neither is vacuous: `sessions` has
  sessions without a refusal whose commands cross a lost connection and a crash.

*Connection* (`TransportAssumption`: a round trip is shorter than the handshake's
and the heartbeat's timeouts, the back-off starts above zero;
`BudgetAssumption`; the budget's sockets are the transport's connections).

- `ReconnectionProofs`. `TransportTypes`; `OneConnection` (`OneWayBack` for any
  number of connections); `SilenceIsBounded`, from the invariant that the silence
  of a current connection and the time left on its deadline add up to no more than
  the interval and the timeout; `HeartbeatIsFair`, from the invariant that what a
  prompt connection owes is due before the deadline that waits for it; `Churn`:
  the budget implements the leaky bucket, because what is poured and the credit,
  refilled up to now, together never exceed a full bucket, also when the clock was
  set back in between.

*Presence* (`PresenceAssumption`).

- `PresenceProofs`. `PresenceIsOrdered`, `NoOlderPresence` and `EveryoneIsShown`. The inductive
  invariant is one order along the whole way of a presence: what is shown of a
  connection is not later than any list on its way to that client, the lists
  follow one another, the last is not later than the attachment, which is not
  later than what is on its way to the room, nor that than what its author set
  last. For that a socket has one author, holds one presence, and is in no list
  before it is used. `EveryoneIsShown` needs of both directions what is LAST on the
  way, not what is first: the last list on its way to a client that has been greeted,
  or what it shows when none is, is who the room holds now (every change of an
  attachment or of the open sockets sends the list again); the last presence on its
  way to the room, or the attachment when none is, is the one the client set last, or
  its timer is running or it is still starting and will set it again. With that,
  `QuietShowsEveryone` is what remains when nothing is on its way.

*History* (`HistoryAssumption`).

- `HistoryProofs`. `HistoryInvariant`, then `Chronological` and
  `RestorationIsDecided`. The invariant orders the three places a step can be in:
  the steps to undo grow later, the steps to redo earlier, and the step under way
  lies between them unless something newer superseded it, in which case there is
  nothing left to redo and its place is nowhere. An open field is that of the last
  step to undo, so extending it changes no other. A restoration waits among the
  undecided batches because only its own answer removes that batch, and the same
  answer clears it. Types belong to the invariant: steps are records updated in
  place, whose time would otherwise not be known to stay.
- `KeysInvariant`, then `OthersDeletionsStand` and `OpenTextIsLatest`, the latter
  for users none of whose gestures deleted several elements, as the former says
  itself. Three things are inductive together. The documents form a chain from the
  replica over the answers on their way to the room's document: along it an element
  that is gone does not come back and is always the one created once, a refusal
  changes nothing, an own commit changes one element. The numbers of proposals and
  answers grow, and what is on its way to the room was not answered yet. An element
  that is gone has keys: an identifier still fresh, a step to undo that removed it,
  a step to redo that made it, a proposed creation the room has not accepted. It has
  one key at most, and while it has one nobody on the chain sees it and it was not
  another participant who removed it. Each move of a step between the stacks and
  the room turns one key into another: what makes this work is that a restoration
  which removes an element does nothing else, so that its acceptance IS the removal.
  That is what fails for a step about several elements, and it is why the condition
  is there. A created element then is never one another participant removed, and an
  open field whose element is gone is never shown again with another text.

*Canvas editing* (`EditingAssumption`).

- `EditingProofs`. `EditingInvariant`, then `EditingTypeOK` (with it, that an edit shown as
  being saved awaits an outcome still to come), `ProposedIsDrawn` and
  the action property `DraftIsKept`. An undecided box was proposed once and is not
  typed again until it is refused, which is what keeps it among the drafts exactly
  once. That it is drawn rests on what drafts are attached to (`Attached`): a box that
  was in the document, or was refused, or was proposed earlier. So one of the three is
  true of each thing a draft is attached to: it is in the document still, it was deleted
  or refused, or it is an earlier draft, which is placed or is skipped itself; the draft
  can be added to the largest set that fits unless the middle one holds of it or the
  last of these does (`DrawnWhenAttached`). Saves are numbered, and the edit that
  shows it awaits one holds the very draft that save carries unless its box is gone: so
  apart from `CancelEdit`, which the property names, only the acceptance of that save,
  recorded in `acceptances`, takes a draft away, and it takes it as it stands.

*Projection* (`ProjectionAssumption`).

- `ProjectionProofs`. `ShowsWhatIsThere`: what the canvas turns to is what there is to
  show at that moment, for any number of layouts under way. The inductive invariant
  `ProjectionInv` is the agreement that makes one comparison of revisions enough: what
  is projected is what was told last, also when nothing was published because nothing
  had changed; a readable document is projected as it is drawn; an effect that
  observed the last revision measures what was told; and a layout that is awaited and
  of that revision was asked for what is told now, and found the document unreadable
  only if it still is, as it was. Settling then shows the outcome of the document as
  drawn. TLC confirms `ProjectionInv` on the instance of the run `projection`.

*Shared document* (`DocumentAssumption`: boxes, groups and junctions are finite sets
with nothing in common and the root is none of them, relation identifiers are finitely
many numbers; `SharedDocumentAssumption`: a room starts from a document that reads
well, `Nobody` is no client).

- `DocumentProofs`. First the operators, for any document. A rule in rounds is the
  least set closed under one round as soon as the rounds are as many as the elements
  they add (`Saturation`): a round that adds nothing is the last, and each other adds
  one. Hence `ChainIsLeast` (the groups around a container, also when groups are in a
  circle) and `BeyondIsLeast` (what flows out of a junction); from these, that the
  groups around two places that share one are ordered where they are shared
  (`ChainIsLinear`), so that a deepest one exists and `CommonContainer` finds it
  (`CommonContainerIs`). Placing keeps every other element, the relations and every
  chain of groups (`PlacedDocument`), and a junction whose flow meets no cycle settles
  before the rounds end (`PlacesSettle`). `PlacedFollow` is then an induction on how
  many junctions a junction reaches: it ends in the deepest group that holds all its
  flow reaches, whatever the junctions' places were before.
- The inductive invariant is `DocumentInv`: what clients send is made of well-formed
  commands, and the room's document and the candidate are documents, the former
  readable. That a gesture's batch is well formed is not obvious: identifiers are
  chosen injectively among those that are free, a new junction's place is the common
  container of targets that exist, and bridges end at endpoints. Every command is
  refused with its batch or makes a document that is finalized (`Outcome`, one lemma
  per command). `DocumentReadsWell` and `JunctionsGoWithTheirTargets` follow for every
  number of clients and batches. The first rests on `Finish`, and on every candidate
  being a document for it to judge; the second needs each command, since each may move
  a target, rewire or collect.
- These proofs need induction, over rounds and over what a junction reaches. The
  library's induction theorems take an operator as a parameter, which the installed
  provers do not instantiate; `Induction` states it of a SET of numbers instead, and is
  proved from the order of the naturals being well founded.

Proved but not repeated in a run: the type invariants of `Room`, of the
transport and of the canvas, `Bookkeeping`, `ReceiptsAreBacked` and the commit counter.

Only model-checked, and why:

- `NeverStuck`, `QuietMeansConverged` and `PendingFollowsReceipt` hold of the
  populations of their runs, not of every instance (section 3), so there is no
  theorem to prove short of the hypotheses that exclude those cases;
- `BackToOpening` of `History`: what the steps to undo give back together, whose
  invariant would have to compare it with what the steps to redo give back, up to the
  texts a step below sets again; and `OpenTextIsLatest` for users who delete several
  elements at once;
- `DeletionKeepsFlow`, `DeletionIsExact` and `DeletionIsAccepted`: they relate a whole
  deletion to the document before its first command, through every order in which the
  commands of the batch may come; their invariant would have to say, of the document
  between any two of these commands, which junctions the executor has collected so far;
- all liveness (fairness and `ENABLED` are out of the prover's reach).

## 5. What is not modelled

- *Left out of modelled components*: the chunked encoding of the stored document
  (reduced to `Fits`) and the acceptance list of the former storage format; the
  per-proposal bound and the bucket in `Room`, which has the socket's bound only
  (`RefusalBudget` has all three); natures, lanes, regions, folding and order in
  documents; which struct of an update makes it invalid; focus, selection and
  announcements of the canvas.
- *Layout engine*: 40 000 lines of geometric search, pure and without shared
  state; far more than half of the implementation. What it computes is not stated
  as a relation anywhere short of the algorithm itself.
- *The drawing of a layout*: the scene, its previews and animations; the layout
  caches, which return what they computed for the same input.
- *Local document session*: executes its batches synchronously on one document,
  with Yjs' own undo manager.
- *Codecs, ordering keys, TOML and DOT, layout reports*: pure functions from
  values to values.
- *Routes, analytics, internationalisation, workshop*: no property of a document
  depends on them.

Each is listed with its reason in `PROJECT.json`.

## 6. Plan

In order:

1. `HistoryProofs`, continued: `OpenTextIsLatest` without the condition on deletions,
   from an invariant on the order of the steps that made and removed an element.
   Then `BackToOpening`, by the induction `DocumentProofs` has for rounds.
2. `DocumentProofs`, continued: the three properties of deletions.
3. `PersistencePlan`: the chunk keys of a stored document and the keys deleted with
   them, as a module of its own.
4. Pure operators: topological ranks and ordering keys against their definitions.
