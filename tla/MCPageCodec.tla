---------------------------- MODULE MCPageCodec -----------------------------
(* PageCodec on the columns of PageValues. *)
EXTENDS PageCodec, PageValues
=============================================================================
