----------------------------- MODULE MCHistory -----------------------------
(***************************************************************************)
(* A document that opens with one element; a second may be created.        *)
(***************************************************************************)
EXTENDS History

CONSTANTS e1, e2, red, blue, blank, words

MCOpening == [e \in Elements |->
  IF e = e1 THEN [color |-> red, text |-> blank, born |-> 0] ELSE None]
=============================================================================
