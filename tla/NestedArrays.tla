---------------------------- MODULE NestedArrays ----------------------------
(***************************************************************************)
(* The nested columns that are written in the instances of NestedColumns.  *)
(***************************************************************************)
EXTENDS Integers, SequencesExt

Leaf(nullable) == [kind |-> "leaf", nullable |-> nullable]
List(nullable, elem) == [kind |-> "list", nullable |-> nullable, size |-> 0, elem |-> elem]
Fixed(nullable, size, elem) == [kind |-> "list", nullable |-> nullable, size |-> size, elem |-> elem]
Struct(nullable, fields) == [kind |-> "struct", nullable |-> nullable, fields |-> fields]

Bits(f, n) == IF f.nullable THEN [1 .. n -> BOOLEAN] ELSE {[i \in 1 .. n |-> TRUE]}

\* The offsets of n lists with at most m elements in all.
Offsets(n, m) == {o \in [1 .. n + 1 -> 0 .. m] : o[1] = 0 /\ \A i \in 1 .. n : o[i] <= o[i + 1]}

RECURSIVE Arrays(_, _, _, _)
\* The arrays of a field with n slots, and with at most m elements in a list array.
Arrays(f, n, m, tag) ==
    CASE f.kind = "leaf" ->
            {[off |-> 0, len |-> n, sliced |-> FALSE, valid |-> v, tag |-> tag] : v \in Bits(f, n)}
      [] f.kind = "list" ->
            LET shapes == IF f.size > 0 THEN {[i \in 1 .. n + 1 |-> (i - 1) * f.size]} ELSE Offsets(n, m)
            IN  UNION {{[off |-> 0, len |-> n, sliced |-> FALSE, valid |-> v, size |-> f.size,
                         offsets |-> o, child |-> c] :
                            v \in Bits(f, n), c \in Arrays(f.elem, o[n + 1], m, tag)} : o \in shapes}
      [] f.kind = "struct" ->
            {[off |-> 0, len |-> n, sliced |-> FALSE, valid |-> v, fields |-> c] :
                v \in Bits(f, n),
                c \in {s \in [DOMAIN f.fields -> UNION {Arrays(f.fields[k], n, m, 10 * tag + k) : k \in DOMAIN f.fields}] :
                          \A k \in DOMAIN f.fields : s[k] \in Arrays(f.fields[k], n, m, 10 * tag + k)}}

\* One chunk, two chunks, and the last slots of an array, in row groups of a number of rows
Whole(f, n, m, limit) == {[field |-> f, chunks |-> << a >>, limit |-> limit] : a \in Arrays(f, n, m, 1)}
Chunked(f, n, m, limit) ==
    {[field |-> f, chunks |-> << a, b >>, limit |-> limit] : a \in Arrays(f, n, m, 1), b \in Arrays(f, 1, m, 2)}
Sliced(f, n, m, limit) ==
    {[field |-> f, limit |-> limit, chunks |-> << [a EXCEPT !.off = 1, !.len = n - 1, !.sliced = TRUE] >>] :
        a \in Arrays(f, n, m, 1)}

Opt == Leaf(TRUE)
Req == Leaf(FALSE)

\* Nullable and required lists, structs and leaves in one another, lists that are null,
\* empty or hide elements, fixed-size lists in one row group.
MCColumns ==
    UNION {
        Whole(List(TRUE, Opt), 3, 3, 3), Chunked(List(TRUE, Opt), 2, 2, 2), Sliced(List(TRUE, Req), 3, 3, 1),
        Whole(List(TRUE, List(TRUE, Req)), 1, 3, 1), Sliced(List(TRUE, List(TRUE, Req)), 2, 2, 1),
        Whole(List(FALSE, List(TRUE, Opt)), 2, 2, 2),
        Whole(List(TRUE, List(FALSE, List(TRUE, Req))), 1, 2, 1),
        Chunked(Struct(TRUE, << Req, Opt >>), 2, 0, 2), Sliced(Struct(TRUE, << Struct(TRUE, << Req, Opt >>) >>), 3, 0, 1),
        Whole(Struct(TRUE, << List(TRUE, Req), Opt >>), 2, 2, 2), Sliced(Struct(TRUE, << List(FALSE, Opt) >>), 2, 2, 1),
        Whole(List(FALSE, Struct(TRUE, << Opt, List(TRUE, Req) >>)), 2, 2, 1),
        Whole(List(FALSE, Struct(TRUE, << List(FALSE, Req) >>)), 2, 2, 2),
        Whole(Struct(FALSE, << Req, Struct(FALSE, << List(FALSE, Req) >>) >>), 2, 2, 2),
        Whole(Fixed(TRUE, 2, Opt), 2, 0, 2), Whole(List(TRUE, Fixed(FALSE, 2, Req)), 2, 2, 1)}

\* Fixed-size lists in row groups of one row
MCFixedGroups == Whole(Fixed(FALSE, 2, Req), 2, 0, 1)
=============================================================================
