----------------------------- MODULE MCSessions -----------------------------
(* Sessions with two overlapping calls of one client. *)
EXTENDS Sessions
=============================================================================
