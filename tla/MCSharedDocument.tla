------------------------- MODULE MCSharedDocument -------------------------
(* Instances of SharedDocument: the documents rooms start from.             *)
EXTENDS SharedDocument

CONSTANTS n1, n2, n3, g1, g2, j1, j2, c1, c2

Same == Permutations({c1, c2})

Link(a, b) == [from |-> a, to |-> b]

\* Two chained junctions from a box to a box in nested groups and one outside.
Chained ==
  [within |-> (n1 :> Root) @@ (n2 :> g2) @@ (g1 :> Root) @@ (g2 :> g1)
              @@ (j1 :> g2) @@ (j2 :> g2),
   relations |-> <<Link(n1, j1), Link(j1, j2), Link(j2, n2)>>]

\* A junction that leads to a group and to a box.
Grouped ==
  [within |-> (n1 :> Root) @@ (n2 :> g1) @@ (n3 :> Root) @@ (g1 :> Root) @@ (j1 :> Root),
   relations |-> <<Link(n1, j1), Link(j1, g1), Link(n3, j1)>>]

\* Two boxes that converge on a junction and part again, one also directly related.
Converging ==
  [within |-> (n1 :> Root) @@ (n2 :> g1) @@ (n3 :> g2) @@ (g1 :> Root) @@ (g2 :> g1)
              @@ (j1 :> g1) @@ (j2 :> g2),
   relations |-> <<Link(n1, j1), Link(j1, n2), Link(j1, j2), Link(j2, n3), Link(n1, n3)>>]

SomeOpenings == {Chained, Grouped, Converging}
=============================================================================
