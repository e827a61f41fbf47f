--------------------------- MODULE MCColumnChunk ---------------------------
(* ColumnChunk on the files of ChunkFiles. *)
EXTENDS ColumnChunk, ChunkFiles
=============================================================================
