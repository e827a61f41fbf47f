---------------------------- MODULE MCRowBuilder ----------------------------
(* RowBuilder on the schemas of RowSchemas. *)
EXTENDS RowBuilder, RowSchemas
=============================================================================
