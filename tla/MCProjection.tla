---------------------------- MODULE MCProjection ----------------------------
(***************************************************************************)
(* Two boxes: one document whose folded groups make a cycle on the canvas, *)
(* one that cannot be laid out.                                            *)
(***************************************************************************)
EXTENDS Projection

CONSTANTS x, y

BothBoxes == {{x, y}}
SecondAlone == {{y}}
=============================================================================
