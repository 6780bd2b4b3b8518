--------------------------- MODULE LogicDocument ---------------------------
(***************************************************************************)
(* The structure of a logic document and the pure rules the shared         *)
(* commands use: src/src/lib/core/document (validation, placement and      *)
(* collection of junctions, deletion) and lib/core/graph (cycles).         *)
(*                                                                         *)
(* A document is its endpoints (boxes, groups and junctions) with the      *)
(* group each is in, and its relations.  Texts, natures, colours, layout   *)
(* order, lanes and regions are left out: none decides what is below.      *)
(***************************************************************************)
EXTENDS Naturals, FiniteSets

CONSTANTS
  Nodes, Groups, Junctions,   \* identifiers of endpoints
  RelationIds,                \* identifiers of relations: numbers
  Root                        \* the container of an element in no group

ASSUME DocumentAssumption ==
  /\ Nodes \cap Groups = {} /\ Nodes \cap Junctions = {} /\ Groups \cap Junctions = {}
  /\ Root \notin Nodes \cup Groups \cup Junctions
  /\ IsFiniteSet(Nodes) /\ IsFiniteSet(Groups) /\ IsFiniteSet(Junctions)
  /\ RelationIds \subseteq Nat /\ IsFiniteSet(RelationIds)

Endpoints == Nodes \cup Groups \cup Junctions
Links == [from : Endpoints, to : Endpoints]
Present(d) == DOMAIN d.within
Ids(d) == DOMAIN d.relations
IsDocument(d) ==
  /\ d = [within |-> d.within, relations |-> d.relations]
  /\ Present(d) \subseteq Endpoints /\ d.within \in [Present(d) -> Groups \cup {Root}]
  /\ Ids(d) \subseteq RelationIds /\ d.relations \in [Ids(d) -> Links]
Pairs(d, ids) == {<<d.relations[r].from, d.relations[r].to>> : r \in ids}

\* A function with one more pair, and d without some endpoints and some relations.
Adding(f, key, value) == [x \in DOMAIN f \cup {key} |-> IF x = key THEN value ELSE f[x]]
Without(d, ends, ids) ==
  [within |-> [e \in Present(d) \ ends |-> d.within[e]],
   relations |-> [r \in Ids(d) \ ids |-> d.relations[r]]]
Touching(d, ends) ==
  {r \in Ids(d) : d.relations[r].from \in ends \/ d.relations[r].to \in ends}

-----------------------------------------------------------------------------
\* Containment and validity

\* The groups these are in, and the groups at and above a container.
Above(d, groups) == {d.within[g] : g \in groups \cap Present(d)} \ {Root}
ContainerChain(d, container) ==
  LET up[n \in 0 .. Cardinality(Groups)] ==
        IF n = 0 THEN {container} \ {Root} ELSE up[n - 1] \cup Above(d, up[n - 1])
  IN up[Cardinality(Groups)]

Valid(d) ==
  /\ \A e \in Present(d) : d.within[e] \in (Present(d) \cap Groups) \cup {Root}
  /\ \A g \in Present(d) \cap Groups : g \notin ContainerChain(d, d.within[g])
  /\ \A r \in Ids(d) : {d.relations[r].from, d.relations[r].to} \subseteq Present(d)

\* Another relation with the same source and target.
Repeats(d, id, link) == \E r \in Ids(d) \ {id} : d.relations[r] = link

-----------------------------------------------------------------------------
\* Cycles: a relation to a group counts for every box and junction in it

Contents(d, g) ==
  {e \in Present(d) \ Groups : g \in ContainerChain(d, d.within[e])}
Expansion(d, e) == IF e \in Groups /\ Contents(d, e) # {} THEN Contents(d, e) ELSE {e}
Adjacency(d) ==
  UNION {LET sources == Expansion(d, d.relations[r].from)
             targets == Expansion(d, d.relations[r].to)
         IN IF sources \cap targets = {} THEN sources \X targets
            ELSE {<<d.relations[r].from, d.relations[r].to>>} : r \in Ids(d)}
\* findCycle: some endpoints each have a successor among themselves.
Cyclic(d) ==
  LET edges == Adjacency(d)
  IN \E S \in SUBSET {edge[1] : edge \in edges} \ {{}} :
       \A e \in S : \E f \in S : <<e, f>> \in edges

\* readLogicDocument: valid, and its relations make no cycle.
Readable(d) == Valid(d) /\ ~Cyclic(d)

-----------------------------------------------------------------------------
\* Junctions

\* Mutant: the collection stops after the junctions unanchored to begin with.
CollectOnce(d) ==
  LET gone == {j \in Present(d) \cap Junctions :
                 \/ \A r \in Ids(d) : d.relations[r].to # j
                 \/ \A r \in Ids(d) : d.relations[r].from # j}
  IN Without(d, gone, Touching(d, gone))
\* Junctions with nothing in or nothing out once these are gone.
Unanchored(d, gone) ==
  LET left == Ids(d) \ Touching(d, gone)
  IN {j \in Present(d) \cap Junctions : \/ \A r \in left : d.relations[r].to # j
                                       \/ \A r \in left : d.relations[r].from # j}
\* collectJunctions: they go, with their relations, until none is left.
CollectJunctions(d) ==
  LET gone[n \in 0 .. Cardinality(Junctions)] ==
        IF n = 0 THEN {} ELSE Unanchored(d, gone[n - 1])
      all == gone[Cardinality(Junctions)]
  IN Without(d, all, Touching(d, all))

Targets(d, j) == {d.relations[r].to : r \in {r \in Ids(d) : d.relations[r].from = j}}

\* The deepest group holding every container, the root as soon as one is the root.
CommonContainer(d, containers) ==
  LET shared == {g \in Groups \cap Present(d) :
                   \A c \in containers : g \in ContainerChain(d, c)}
  IN IF shared = {} THEN Root
     ELSE CHOOSE g \in shared : shared \subseteq ContainerChain(d, g)

\* Mutant: a junction target counts with the place it had.
PlaceByOldPlaces(d) ==
  [d EXCEPT !.within = [e \in Present(d) |->
     IF e \notin Junctions \/ Targets(d, e) = {} THEN d.within[e]
     ELSE CommonContainer(d, {d.within[t] : t \in Targets(d, e)})]]
\* Junctions where their targets are, these being at given places.
Gathered(d, places) ==
  [e \in Present(d) |->
     IF e \notin Junctions \/ Targets(d, e) = {} THEN d.within[e]
     ELSE CommonContainer(d, {places[t] : t \in Targets(d, e)})]
\* placeJunctions: a junction lives where its targets do, a junction target
\* counting with its own new place.  In a cycle of junctions, which no check of the
\* code lets a creation make, the place depends on the order of the collection; here
\* it is what as many rounds as there are junctions leave.
PlaceJunctions(d) ==
  LET place[n \in 0 .. Cardinality(Junctions)] ==
        IF n = 0 THEN d.within ELSE Gathered(d, place[n - 1])
  IN [d EXCEPT !.within = place[Cardinality(Junctions)]]

\* The place junctionPlacement gives a new junction.
PlaceFor(d, targets) == CommonContainer(d, {PlaceJunctions(d).within[t] : t \in targets})

-----------------------------------------------------------------------------
\* Flow through junctions

\* What the sources reach along these relations, in one step or through the
\* junctions only.
Onward(d, ids, sources) ==
  {d.relations[r].to : r \in {r \in ids : d.relations[r].from \in sources}}
Reached(d, ids, sources, junctions) ==
  LET seen[n \in 0 .. Cardinality(Junctions)] ==
        IF n = 0 THEN Onward(d, ids, sources)
        ELSE seen[n - 1] \cup Onward(d, ids, seen[n - 1] \cap junctions)
  IN seen[Cardinality(Junctions)]

\* The boxes and groups linked through any number of junctions.
Flow(d, ids) ==
  {pair \in (Present(d) \ Junctions) \X (Present(d) \ Junctions) :
     pair[2] \in Reached(d, ids, {pair[1]}, Junctions)}

-----------------------------------------------------------------------------
\* projectDeletion

\* The selected endpoints, and everything in the selected groups.
Removed(d, ends) ==
  {e \in Present(d) : e \in ends \/ ContainerChain(d, d.within[e]) \cap ends # {}}
\* Mutant: only the junction a source enters is crossed.
BridgeOneJunction(d, removed, chosen) ==
  LET carried == Ids(d) \ chosen
      junctions == removed \cap Junctions
  IN UNION {({d.relations[r].from} \X Reached(d, carried, {d.relations[r].to}, {}))
              : r \in {r \in carried : d.relations[r].from \notin removed
                                       /\ d.relations[r].to \in junctions}}
     \ (Pairs(d, Ids(d)) \cup (Endpoints \X removed))
\* Mutant: a source already related to a target is related again.
BridgeAgain(d, removed, chosen) ==
  LET carried == Ids(d) \ chosen
      junctions == removed \cap Junctions
  IN UNION {({d.relations[r].from} \X Reached(d, carried, {d.relations[r].to}, junctions))
              : r \in {r \in carried : d.relations[r].from \notin removed
                                       /\ d.relations[r].to \in junctions}}
     \ (Endpoints \X removed)
\* junctionBridges: the pairs to relate so that the removed junctions' flow goes on.
JunctionBridges(d, removed, chosen) ==
  LET carried == Ids(d) \ chosen
      junctions == removed \cap Junctions
  IN UNION {({d.relations[r].from} \X Reached(d, carried, {d.relations[r].to}, junctions))
              : r \in {r \in carried : d.relations[r].from \notin removed
                                       /\ d.relations[r].to \in junctions}}
     \ (Pairs(d, Ids(d)) \cup (Endpoints \X removed))
=============================================================================
