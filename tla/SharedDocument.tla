-------------------------- MODULE SharedDocument --------------------------
(***************************************************************************)
(* The commands of a shared document: the batches the editor builds from   *)
(* what a person selects (app/web/document/document-commands.ts and the    *)
(* side panel), and the executor the room runs them with                   *)
(* (shared-command-executor.ts and shared-command-rules.ts).               *)
(*                                                                         *)
(* A batch is computed from the document as it is and executed later, once *)
(* other batches may have changed it: a client whose replica is late is    *)
(* one that computed its batch earlier.  The room executes one batch at a  *)
(* time, command by command, on a candidate; the first refusal, or an      *)
(* invalid candidate at the end, discards the whole batch.  The order of   *)
(* batches, their acknowledgement and their loss are module Session's.     *)
(***************************************************************************)
EXTENDS LogicDocument, Sequences, SequencesExt

CONSTANTS
  Clients, Nobody,
  Openings,      \* the documents a room may start from
  MaxSelected,   \* bound: elements selected in one gesture
  MaxBatches     \* bound: batches proposed

\* A room starts from a document that reads well.
ASSUME SharedDocumentAssumption ==
  /\ \A d \in Openings : IsDocument(d) /\ Readable(d)
  /\ Nobody \notin Clients
  /\ MaxSelected \in Nat /\ MaxBatches \in Nat

VARIABLES
  document,    \* the room's document
  proposed,    \* per client, its batch on the way to the room
  running,     \* the client whose batch is being executed
  candidate, rest,   \* the document being built and the commands left
  batches      \* how many batches were proposed

vars == <<document, proposed, running, candidate, rest, batches>>

NoBatch == [gesture |-> "none", commands |-> <<>>, chosen |-> {}, gone |-> {}, current |-> TRUE]

-----------------------------------------------------------------------------
\* Identifiers are random, so a new one is none the document or a batch names.

Mentions(command) ==
  CASE command.op = "relate" -> {command.id}
    [] command.op = "cut" -> command.ids
    [] command.op = "redirect" -> {command.id}
    [] OTHER -> {}
Known(field) ==
  IF field = "relation"
  THEN Ids(document) \cup
       UNION {UNION {Mentions(command) : command \in Range(proposed[c].commands)} : c \in Clients}
  ELSE Present(document) \cup
       UNION {{command.id : command \in {command \in Range(proposed[c].commands) :
                 command.op \in {"create", "group"}}} : c \in Clients}
Free == RelationIds \ Known("relation")
\* Relation creations for a set of pairs.
Relations(pairs) ==
  LET list == SetToSeq(pairs)
      ids == CHOOSE f \in [1 .. Len(list) -> Free] : IsInjective(f)
  IN [i \in 1 .. Len(list) |->
       [op |-> "relate", id |-> ids[i], from |-> list[i][1], to |-> list[i][2]]]
NewId(kind) == kind \ Known("endpoint")

-----------------------------------------------------------------------------
\* What a person asks for.

\* A client proposes one batch at a time here; ones it queues are other clients'.
MayPropose(c) == batches < MaxBatches /\ proposed[c] = NoBatch /\ running = Nobody
Propose(c, gesture, commands, chosen, gone) ==
  /\ commands # <<>>
  /\ batches' = batches + 1
  /\ proposed' = [proposed EXCEPT ![c] =
       [gesture |-> gesture, commands |-> commands, chosen |-> chosen, gone |-> gone,
        current |-> TRUE]]
  /\ UNCHANGED <<document, running, candidate, rest>>

Boxes(d) == Present(d) \cap Nodes
Selections(S) == {chosen \in SUBSET S : Cardinality(chosen) \in 1 .. MaxSelected}

\* connect: the editor refuses a relation its own document refuses.
Relate(c) ==
  \E link \in [from : Present(document), to : Present(document)] :
    /\ Free # {}
    /\ LET drawn == [document EXCEPT !.relations = Adding(@, CHOOSE r \in Free : TRUE, link)]
       IN /\ link \notin Range(document.relations) /\ ~Cyclic(drawn)
          /\ Propose(c, "relate", Relations({<<link.from, link.to>>}), {}, {})

\* SharedPropertyFields of a relation: one of its ends.
Redirect(c) ==
  \E r \in Ids(document), side \in {"from", "to"}, e \in Present(document) :
    /\ document.relations[r][side] # e
    /\ Propose(c, "redirect", <<[op |-> "redirect", id |-> r, side |-> side, end |-> e]>>, {}, {})

\* SharedPropertyFields of an element: its group.
Rehouse(c) ==
  \E e \in Present(document), g \in (Present(document) \cap Groups) \cup {Root} :
    /\ document.within[e] # g
    /\ Propose(c, "rehouse", <<[op |-> "rehouse", id |-> e, into |-> g]>>, {}, {})

\* connectedNodeCreation with planNodeCreation: a box attached to an endpoint, or
\* beside one and towards the same parents.
AddBox(c) ==
  \E n \in NewId(Nodes), e \in Present(document) :
    \E parents \in {{e}, Targets(document, e)} :
      /\ Cardinality(parents) <= Cardinality(Free)
      /\ Propose(c, "box",
           <<[op |-> "create", id |-> n, into |-> document.within[e]]>>
           \o Relations({n} \X parents), {}, {})

\* junctionInsertion with planJunctionInsertion.
InsertJunction(c) ==
  \E replaced \in Selections(Ids(document)), j \in NewId(Junctions) :
    LET pairs == Pairs(document, replaced)
        sources == {pair[1] : pair \in pairs}
        targets == {pair[2] : pair \in pairs}
    IN /\ Cardinality(Free) >= Cardinality(sources) + Cardinality(targets)
       /\ Propose(c, "junction",
            <<[op |-> "create", id |-> j, into |-> PlaceFor(document, targets)]>>
            \o Relations((sources \X {j}) \cup ({j} \X targets))
            \o <<[op |-> "cut", ids |-> replaced]>>, {}, {})

\* groupCreation of two boxes or more in one container, containerMove, groupDissolution.
GroupTogether(c) ==
  \E g \in NewId(Groups), members \in Selections(Boxes(document)) :
    /\ Cardinality(members) > 1
    /\ Cardinality({document.within[n] : n \in members}) = 1
    /\ Propose(c, "group", <<[op |-> "group", id |-> g, members |-> members]>>, {}, {})
MoveInto(c) ==
  \E ids \in Selections(Present(document) \ Junctions),
     g \in (Present(document) \cap Groups) \cup {Root} :
    /\ \E e \in ids : document.within[e] # g
    /\ Propose(c, "move", <<[op |-> "move", ids |-> ids, into |-> g]>>, {}, {})
Dissolve(c) ==
  \E g \in Present(document) \cap Groups :
    Propose(c, "dissolve", <<[op |-> "ungroup", id |-> g]>>, {}, {})

\* The bridges, then the relations, boxes and groups.
Removals(d, ends, chosen) ==
  LET removed == Removed(d, ends)
      cut == chosen \cup Touching(d, removed)
      boxes == SetToSeq(removed \cap Nodes)
      groups == SetToSeq(removed \cap Groups)
  IN Relations(JunctionBridges(d, removed, chosen))
     \o (IF cut = {} THEN <<>> ELSE <<[op |-> "cut", ids |-> cut]>>)
     \o [i \in 1 .. Len(boxes) |-> [op |-> "delete", id |-> boxes[i]]]
     \o [i \in 1 .. Len(groups) |-> [op |-> "ungroup", id |-> groups[i]]]
\* deletion: a junction's own removal is asked for only when
\* nothing else would have the executor collect it.
Deletion(d, ends, chosen) ==
  LET removed == Removed(d, ends)
      commands == Removals(d, ends, chosen)
      collects == \E command \in Range(commands) : command.op # "ungroup"
  IN IF collects \/ removed \cap Junctions = {} THEN commands
     ELSE Append(commands, [op |-> "delete", id |-> CHOOSE j \in removed \cap Junctions : TRUE])
Erase(c) ==
  \E ends \in SUBSET Present(document), chosen \in SUBSET Ids(document) :
    /\ Cardinality(ends) + Cardinality(chosen) \in 1 .. MaxSelected
    /\ Cardinality(JunctionBridges(document, Removed(document, ends), chosen))
         <= Cardinality(Free)
    /\ Propose(c, "erase", Deletion(document, ends, chosen), chosen, Removed(document, ends))

-----------------------------------------------------------------------------
\* The executor.

Begin(c) ==
  /\ running = Nobody /\ proposed[c] # NoBatch
  /\ running' = c
  /\ candidate' = document /\ rest' = proposed[c].commands
  /\ UNCHANGED <<document, proposed, batches>>

\* A refusal: the caller discards the candidate.
Discard ==
  /\ proposed' = [proposed EXCEPT ![running] = NoBatch]
  /\ running' = Nobody /\ candidate' = document /\ rest' = <<>>
  /\ UNCHANGED <<document, batches>>
Proceed(next) ==
  /\ candidate' = next /\ rest' = Tail(rest)
  /\ UNCHANGED <<document, proposed, running, batches>>
Next1(op) == running # Nobody /\ rest # <<>> /\ Head(rest).op = op

\* finalizeSharedCommand runs only between two documents that read well.
Checked(after) == Readable(candidate) /\ Readable(after)
Finalized(after, final) == IF Checked(after) THEN PlaceJunctions(final) ELSE after

ExecuteCreate ==
  /\ Next1("create")
  /\ LET c == Head(rest)
         after == [candidate EXCEPT !.within = Adding(@, c.id, c.into)]
     IN IF c.id \in Present(candidate) THEN Discard ELSE Proceed(Finalized(after, after))

\* createElement, then projectRelationAddition on the document before; a cycle makes
\* a candidate that does not read well, refused at the end unless a later command
\* breaks it.
ExecuteRelate ==
  /\ Next1("relate")
  /\ LET c == Head(rest)
         link == [from |-> c.from, to |-> c.to]
         after == [candidate EXCEPT !.relations = Adding(@, c.id, link)]
     IN IF \/ c.id \in Ids(candidate)
           \/ Checked(after) /\ Repeats(candidate, c.id, link)
        THEN Discard ELSE Proceed(Finalized(after, after))

ExecuteRedirect ==
  /\ Next1("redirect")
  /\ LET c == Head(rest)
         after == [candidate EXCEPT !.relations[c.id][c.side] = c.end]
     IN IF \/ c.id \notin Ids(candidate)
           \/ Checked(after) /\ Repeats(after, c.id, after.relations[c.id])
        THEN Discard ELSE Proceed(Finalized(after, after))

ExecuteRehouse ==
  /\ Next1("rehouse")
  /\ LET c == Head(rest)
         after == [candidate EXCEPT !.within[c.id] = c.into]
     IN IF c.id \notin Present(candidate)
        THEN Discard ELSE Proceed(Finalized(after, after))

ExecuteCut ==
  /\ Next1("cut")
  /\ LET c == Head(rest)
         after == Without(candidate, {}, c.ids)
     IN IF ~(c.ids \subseteq Ids(candidate))
        THEN Discard ELSE Proceed(Finalized(after, CollectJunctions(after)))

\* deleteElement, of a box or a junction: its relations go with it.
ExecuteDelete ==
  /\ Next1("delete")
  /\ LET c == Head(rest)
         after == Without(candidate, {c.id}, Touching(candidate, {c.id}))
     IN IF c.id \notin Present(candidate)
        THEN Discard ELSE Proceed(Finalized(after, CollectJunctions(after)))

\* groupElements: the members share a container, where the group comes.
ExecuteGroup ==
  /\ Next1("group")
  /\ LET c == Head(rest)
         containers == {candidate.within[e] : e \in c.members}
         after == [candidate EXCEPT !.within =
                    [e \in Present(candidate) \cup {c.id} |->
                      IF e \in c.members THEN c.id
                      ELSE IF e = c.id THEN CHOOSE g \in containers : TRUE
                      ELSE candidate.within[e]]]
     IN IF \/ ~(c.members \subseteq Present(candidate)) \/ c.id \in Present(candidate)
           \/ Cardinality(containers) # 1
        THEN Discard ELSE Proceed(Finalized(after, after))

\* dissolveDocumentGroup: the members go up, the group's relations go.
ExecuteUngroup ==
  /\ Next1("ungroup")
  /\ LET c == Head(rest)
         up == [candidate EXCEPT !.within =
                 [e \in Present(candidate) |->
                   IF candidate.within[e] = c.id THEN candidate.within[c.id]
                   ELSE candidate.within[e]]]
         after == Without(up, {c.id}, Touching(candidate, {c.id}))
     IN IF c.id \notin Present(candidate) \/ ~Readable(candidate)
        THEN Discard ELSE Proceed(Finalized(after, after))

\* moveDocumentElements: boxes and groups, never into themselves.
ExecuteMove ==
  /\ Next1("move")
  /\ LET c == Head(rest)
         after == PlaceJunctions(
                    [candidate EXCEPT !.within =
                      [e \in Present(candidate) |->
                        IF e \in c.ids \ Junctions THEN c.into ELSE candidate.within[e]]])
     IN IF \/ ~Readable(candidate)
           \/ c.into # Root /\ c.into \notin Present(candidate)
           \/ c.ids \cap ContainerChain(candidate, c.into) # {}
        THEN Discard ELSE Proceed(Finalized(after, after))

\* Mutant: a batch whose document is not valid is accepted.
FinishUnchecked ==
  /\ running # Nobody /\ rest = <<>>
  /\ document' = candidate
  /\ proposed' = [c \in Clients |->
       IF c = running \/ proposed[c] = NoBatch THEN NoBatch
       ELSE [proposed[c] EXCEPT !.current = @ /\ candidate = document]]
  /\ running' = Nobody
  /\ UNCHANGED <<candidate, rest, batches>>
\* The end of executeSharedCommands.
Finish ==
  /\ running # Nobody /\ rest = <<>>
  /\ IF ~Readable(candidate) THEN Discard
     ELSE /\ document' = candidate
          /\ proposed' = [c \in Clients |->
               IF c = running \/ proposed[c] = NoBatch THEN NoBatch
               ELSE [proposed[c] EXCEPT !.current = @ /\ candidate = document]]
          /\ running' = Nobody
          /\ UNCHANGED <<candidate, rest, batches>>

-----------------------------------------------------------------------------

Init ==
  /\ document \in Openings
  /\ proposed = [c \in Clients |-> NoBatch]
  /\ running = Nobody
  /\ candidate = document /\ rest = <<>>
  /\ batches = 0

Gesture(c) ==
  /\ MayPropose(c)
  /\ \/ Relate(c) \/ Redirect(c) \/ Rehouse(c) \/ AddBox(c) \/ InsertJunction(c)
     \/ GroupTogether(c) \/ MoveInto(c) \/ Dissolve(c) \/ Erase(c)
Next ==
  \/ \E c \in Clients : Gesture(c) \/ Begin(c)
  \/ ExecuteCreate \/ ExecuteRelate \/ ExecuteRedirect \/ ExecuteRehouse \/ ExecuteCut
  \/ ExecuteDelete \/ ExecuteGroup \/ ExecuteUngroup \/ ExecuteMove
  \/ Finish

Spec == Init /\ [][Next]_vars

-----------------------------------------------------------------------------
\* Properties

\* Types; the room's document reads well, whatever late batch was accepted: no cycle of
\* groups or of relations, nothing that refers to an element that is gone.
DocumentTypeOK ==
  /\ IsDocument(document) /\ Readable(document) /\ IsDocument(candidate)
  /\ \A c \in Clients : proposed[c].gone \subseteq Endpoints
  /\ running \in Clients \cup {Nobody}
  /\ batches \in 0 .. MaxBatches

\* Two elements are related once in each direction.
NoRepeats(d) == \A r, s \in Ids(d) : d.relations[r] = d.relations[s] => r = s

\* A junction is in the deepest group holding all that its flow reaches.
Beyond(d, j) == Reached(d, Ids(d), {j}, Junctions)
InCycle(d, j) == j \in Beyond(d, j)
JunctionsFollow(d) ==
  \A j \in Present(d) \cap Junctions :
    (Targets(d, j) # {} /\ \A k \in (Beyond(d, j) \cap Junctions) \cup {j} : ~InCycle(d, k)) =>
      LET ends == {e \in Beyond(d, j) : e \notin Junctions \/ Targets(d, e) = {}}
      IN ContainerChain(d, d.within[j])
           = {g \in Groups : \A e \in ends : g \in ContainerChain(d, d.within[e])}

\* A command executed between two documents that read well leaves every junction with
\* its targets, "whichever command moved, grouped or rewired them", and repeats no
\* relation, however late the batch it belongs to.
Finalizes ==
  /\ running # Nobody /\ running' = running /\ rest # <<>> /\ rest' = Tail(rest)
  /\ Readable(candidate) /\ Readable(candidate')
JunctionsFollowTargets ==
  [][Finalizes => /\ JunctionsFollow(candidate')
                  /\ NoRepeats(candidate) => NoRepeats(candidate')]_vars

Accepts(c, gesture) ==
  running = c /\ running' = Nobody /\ proposed[c].gesture = gesture
  /\ proposed[c].current /\ rest = <<>> /\ Readable(candidate)
CutsBetweenSurvivors(c) ==
  \E r \in proposed[c].chosen :
    {document.relations[r].from, document.relations[r].to} \cap proposed[c].gone = {}

\* A deletion executed on the document it was made for keeps the flow of the removed
\* junctions: boxes and groups that stay and were linked through junctions still are,
\* unless the same gesture deleted a relation between elements that stay.
DeletionKeepsFlow ==
  [][\A c \in Clients : (Accepts(c, "erase") /\ ~CutsBetweenSurvivors(c)) =>
       \A pair \in Flow(document, Ids(document) \ proposed[c].chosen) :
         pair[1] \notin proposed[c].gone /\ pair[2] \notin proposed[c].gone =>
           pair \in Flow(document', Ids(document'))]_vars

Strays(d) == {j \in Present(d) \cap Junctions :
                \/ Targets(d, j) = {} \/ \A r \in Ids(d) : d.relations[r].to # j}
\* Such a deletion removes all that was selected and everything in it, and leaves
\* no junction newly unanchored; nothing else goes but junctions that carried no flow
\* between elements that stay.
DeletionIsExact ==
  [][\A c \in Clients : Accepts(c, "erase") =>
       LET left == Present(document')
           carried == Ids(document) \ proposed[c].chosen
       IN /\ left \cap proposed[c].gone = {} /\ Ids(document') \cap proposed[c].chosen = {}
          /\ Strays(document') \subseteq Strays(document)
          /\ \A e \in (Present(document) \ proposed[c].gone) \ left :
               /\ e \in Junctions
               /\ CutsBetweenSurvivors(c) \/
                  ~\E s, t \in left \ Junctions :
                     /\ e \in Reached(document, carried, {s}, Junctions)
                     /\ t \in Reached(document, carried, {e}, Junctions)]_vars

\* A deletion executed on the document it was made for is never refused.
DeletionIsAccepted ==
  [][\A c \in Clients :
       (/\ running = c /\ running' = Nobody
        /\ proposed[c].gesture = "erase" /\ proposed[c].current) => rest = <<>> /\ Readable(candidate)]_vars

\* document-commands.ts:175: "A junction exists only while anchored on both sides".
JunctionsAreAnchored == Strays(document) = {}
=============================================================================
