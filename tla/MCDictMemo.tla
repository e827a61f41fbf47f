----------------------------- MODULE MCDictMemo -----------------------------
(***************************************************************************)
(* Two goroutines, one call each, on a file with a dictionary and a delta: *)
(* the smallest instance in which reify writes the memo.                   *)
(***************************************************************************)
EXTENDS DictMemo
=============================================================================
