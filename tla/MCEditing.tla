----------------------------- MODULE MCEditing -----------------------------
(***************************************************************************)
(* A box of the document and two new ones.                                 *)
(***************************************************************************)
EXTENDS Editing

CONSTANTS e1, b1, b2
=============================================================================
