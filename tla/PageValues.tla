----------------------------- MODULE PageValues -----------------------------
(***************************************************************************)
(* The columns PageCodec is checked on: for every encoding its values, how *)
(* many of them a page takes, how many a read asks for, and the pages.     *)
(* Integers are the extremes of their width, so that a delta wraps; a page *)
(* of levels is longer than the longest literal run.                       *)
(***************************************************************************)
EXTENDS Integers

MCCodecs == {"levels", "indices", "booleans", "int32", "int64", "lengths", "strings"}

MCValues ==
    [c \in MCCodecs |->
        CASE c \in {"levels", "indices", "booleans"} -> {0, 1}
          [] c = "int32" -> {-4, 0, 3}
          [] c = "int64" -> {-16, 0, 15}
          [] c = "lengths" -> {<<>>, <<1>>, <<1, 2>>}
          [] c = "strings" -> {<<1>>, <<1, 2>>, <<2>>}]

MCMaxPut ==
    [c \in MCCodecs |-> CASE c = "levels" -> 9 [] c = "indices" -> 7 [] c = "booleans" -> 6
                          [] c = "int32" -> 6 [] c = "int64" -> 3 [] c = "lengths" -> 2 [] c = "strings" -> 3]

MCMaxRead == [c \in MCCodecs |-> CASE c \in {"indices", "levels"} -> 4 [] OTHER -> 3]

MCPageLimit == [c \in MCCodecs |-> CASE c \in {"int64", "lengths", "strings"} -> 2 [] OTHER -> 1]

\* Two pages of booleans.
MCTwoPages == [c \in MCCodecs |-> 2]
=============================================================================
