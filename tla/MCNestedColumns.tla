-------------------------- MODULE MCNestedColumns --------------------------
(* NestedColumns on the columns of NestedArrays. *)
EXTENDS NestedColumns, NestedArrays
=============================================================================
