--------------------------- MODULE NestedColumns ---------------------------
(***************************************************************************)
(* A nested Arrow column written to Parquet and read back: the path        *)
(* builder turns every leaf of the array into definition and repetition    *)
(* levels (parquet/pqarrow/path_builder.go), the arrow column writer does  *)
(* so for every chunk and row group (encode_arrow.go), and the struct and  *)
(* list readers build arrays from the levels (column_readers.go,           *)
(* parquet/file/level_conversion.go).                                      *)
(*                                                                         *)
(* A field is a leaf, a list (of a fixed size, or size 0 for lists of any  *)
(* length) or a struct, nullable or not.  An array has a length and an     *)
(* offset into its validity, offsets and children, as a slice has; a null  *)
(* slot may have elements.  Positions count from 0, as in the code; the    *)
(* element at position p of a sequence is s[p + 1].                        *)
(***************************************************************************)
EXTENDS Integers, SequencesExt, FiniteSets

CONSTANTS
    Columns         \* [field, chunks, limit]: a column to write, MaxRowGroupLength

VARIABLES
    column,
    pc,             \* begin, path, write, read, done; or refused, panicked
    row,            \* offset: the first row of the row group
    leaf, part,     \* leafIdx, and the builder: one per chunk that has rows of the row group
    info,           \* pathInfo
    w,              \* the loop of writePath: position, stack, levels, visited elements
    file,           \* per leaf, what its column chunks hold: levels and values
    bits,           \* HasBitsBuffer of the column chunk writer
    rows            \* the rows read

vars == <<column, pc, row, leaf, part, info, w, file, bits, rows>>

Null == "null"

----------------------------------------------------------------------------
(***************************************************************************)
(* Arrays.                                                                 *)
(***************************************************************************)
\* NewSliceData: the null count is not known any more, unless it was zero.
SliceOf(a, i, j) == [a EXCEPT !.off = @ + i, !.len = j - i, !.sliced = TRUE]

Valid(a, i) == a.valid[a.off + i + 1]
NullsIn(a) == Cardinality({i \in 0 .. a.len - 1 : ~Valid(a, i)})

\* Struct.setData slices the children.
FieldOf(a, k) ==
    IF a.off # 0 \/ a.fields[k].len # a.len
    THEN SliceOf(a.fields[k], a.off, a.off + a.len) ELSE a.fields[k]

\* List.ValueOffsets, FixedSizeList.ValueOffsets
ValueOffsets(a, i) ==
    IF a.size > 0 THEN << (a.off + i) * a.size, (a.off + i + 1) * a.size >>
                  ELSE << a.offsets[a.off + i + 1], a.offsets[a.off + i + 2] >>

----------------------------------------------------------------------------
(***************************************************************************)
(* The path builder.                                                       *)
(***************************************************************************)
\* lazyNoNulls, lazyNullCount: a slice knows only whether the whole array has nulls.
LazyNoNulls(a) == \A i \in DOMAIN a.valid : a.valid[i]
LazyAllNull(a) == ~a.sliced /\ NullsIn(a) = a.len

AllNulls(def) == [kind |-> "nulls", def |-> def, rep |-> -1]

MaybeAddNullable(a, nullable, p) ==
    LET d == p.maxDef + 1
        node == IF LazyAllNull(a) THEN AllNulls(d - 1)
                ELSE [kind |-> "nullable", def |-> d - 1, rep |-> -1, arr |-> a]
    IN  IF ~nullable THEN p
        ELSE [p EXCEPT !.maxDef = d, !.path = IF LazyNoNulls(a) THEN @ ELSE Append(@, node)]

\* The range of a list: fixedSizeRangeSelector does not know of an offset.
GetRange(n, i) ==
    IF n.arr.size > 0 THEN << i * n.arr.size, (i + 1) * n.arr.size >> ELSE ValueOffsets(n.arr, i)

VisitListLike(a, p) ==
    [p EXCEPT !.maxDef = @ + 1, !.maxRep = @ + 1,
              !.path = Append(@, [kind |-> "list", arr |-> a, prev |-> p.maxRep, rep |-> p.maxRep + 1,
                                  def |-> IF a.size > 0 THEN p.maxDef + 1 ELSE p.maxDef,
                                  last |-> FALSE])]

\* fixup: the innermost list is the last, and nulls above it begin at the list around them.
Fixup(p) ==
    LET lists(k) == {j \in 1 .. k : p.path[j].kind = "list"}
        inner(k) == \E j \in lists(k) : p.path[j].rep = p.maxRep
        around(k) == IF lists(k) = {} THEN 0
                     ELSE p.path[CHOOSE j \in lists(k) : \A i \in lists(k) : i <= j].rep
        fixed(k) ==
            CASE p.path[k].kind = "list" -> [p.path[k] EXCEPT !.last = p.path[k].rep = p.maxRep]
              [] p.path[k].kind \in {"nulls", "nullable"} /\ ~inner(k) ->
                    [p.path[k] EXCEPT !.rep = around(k)]
              [] OTHER -> p.path[k]
    IN  IF p.maxRep = 0 THEN p ELSE [p EXCEPT !.path = [k \in DOMAIN p.path |-> fixed(k)]]

AddTerminalInfo(a, nullable, p) ==
    LET d == IF nullable THEN p.maxDef + 1 ELSE p.maxDef
        node == CASE LazyNoNulls(a) -> [kind |-> "present", def |-> d]
                  [] ~LazyNoNulls(a) /\ LazyAllNull(a) -> AllNulls(d - 1)
                  [] OTHER -> [kind |-> "terminal", def |-> d, arr |-> a]
    IN  Fixup([p EXCEPT !.maxDef = d, !.path = Append(@, node), !.arr = a,
                        !.nullable = nullable /\ ~LazyNoNulls(a)])

RECURSIVE Visit(_, _, _)
\* The paths of the leaves of array a, field f of its parent.
Visit(f, a, p) ==
    CASE f.kind = "leaf"   -> << AddTerminalInfo(a, f.nullable, p) >>
      [] f.kind = "list"   -> Visit(f.elem, a.child, VisitListLike(a, MaybeAddNullable(a, f.nullable, p)))
      [] f.kind = "struct" ->
            FlattenSeq([k \in DOMAIN f.fields |->
                            Visit(f.fields[k], FieldOf(a, k), MaybeAddNullable(a, f.nullable, p))])

NoPath == [path |-> << >>, maxDef |-> 0, maxRep |-> 0, arr |-> << >>, nullable |-> FALSE]

----------------------------------------------------------------------------
(***************************************************************************)
(* writePath: a node's run takes from its range, gives a range to the node *)
(* below and goes down, or is done with its range and goes up.             *)
(***************************************************************************)
Copies(n, x) == [i \in 1 .. n |-> x]
Empty(rng) == rng[1] = rng[2]
Size(rng) == rng[2] - rng[1]

AppendDefLevels(c, n, d) == [c EXCEPT !.def = @ \o Copies(n, d)]

\* Mutant of FillRepLevels: it does not see that one level is there already.
FillRepLevelsWhole(c, n, r) == IF r = -1 THEN c ELSE [c EXCEPT !.rep = @ \o Copies(n, r)]

\* One level is there already when a list has begun.
FillRepLevels(c, n, r) ==
    LET fillCount == IF Len(c.def) = Len(c.rep) THEN n ELSE n - 1
    IN  IF r = -1 THEN c
        ELSE [c EXCEPT !.rep = @ \o Copies(fillCount, r), !.negative = @ \/ fillCount < 0]

RangeOf(c) == c.stack[c.pos]
Done(c) == [c EXCEPT !.pos = @ - 1]
Down(c, from, child) ==
    [c EXCEPT !.pos = @ + 1, !.stack = [@ EXCEPT ![c.pos] = << from, @[2] >>, ![c.pos + 1] = child]]

RecordPostListVisit(visited, rng) ==
    IF visited # << >> /\ Last(visited)[2] = rng[1]
    THEN Append(Front(visited), << Last(visited)[1], rng[2] >>)
    ELSE Append(visited, rng)

\* The first position of from .. to - 1 whose list is empty, or is not; otherwise to.
FirstList(n, from, to, empty) ==
    LET found == {i \in from .. to - 1 : Empty(GetRange(n, i)) = empty}
    IN  IF found = {} THEN to ELSE CHOOSE i \in found : \A j \in found : i <= j

\* The innermost list also takes the non-empty lists that follow.
FillForLast(n, c, first, child) ==
    LET to == FirstList(n, first + 1, RangeOf(c)[2], TRUE)
        follow == [k \in 1 .. to - first - 1 |->
                      << n.prev >> \o Copies(Size(GetRange(n, first + k)) - 1, n.rep)]
        all == << child[1], GetRange(n, to - 1)[2] >>
    IN  Down([c EXCEPT !.rep = @ \o FlattenSeq(follow),
                       !.visited = RecordPostListVisit(@, all)], to, all)

RunList(n, c) ==
    LET rng == RangeOf(c)
        first == FirstList(n, rng[1], rng[2], FALSE)
        skipped == IF first = rng[1] THEN c
                   ELSE AppendDefLevels(FillRepLevels(c, first - rng[1], n.prev), first - rng[1], n.def)
        begun == IF Len(skipped.def) = Len(skipped.rep)
                 THEN [skipped EXCEPT !.rep = Append(@, n.prev)] ELSE skipped
        child == GetRange(n, first)
    IN  CASE first = rng[2] -> Done(skipped)
          [] first # rng[2] /\ n.last ->
                FillForLast(n, FillRepLevels(begun, Size(child), n.rep), first, child)
          [] OTHER -> Down(begun, first + 1, child)

\* The end of the run of equal bits at i.
RunEnd(n, i, to) ==
    LET other == {j \in i .. to - 1 : Valid(n.arr, j) # Valid(n.arr, i)}
    IN  IF other = {} THEN to ELSE CHOOSE j \in other : \A k \in other : j <= k

\* The bit run reader is always at the start of the range.
RunNullable(n, c) ==
    LET rng == RangeOf(c)
        from == IF Empty(rng) THEN rng[2]
                ELSE IF Valid(n.arr, rng[1]) THEN rng[1] ELSE RunEnd(n, rng[1], rng[2])
        nulls == from - rng[1]
        after == IF ~Empty(rng) /\ nulls = 0 THEN c
                 ELSE AppendDefLevels(FillRepLevels(c, nulls, n.rep), nulls, n.def)
    IN  IF from = rng[2] THEN Done(after)
        ELSE LET to == RunEnd(n, from, rng[2]) IN Down(after, to, << from, to >>)

\* One turn of the loop.
Run(n, c) ==
    LET size == Size(RangeOf(c))
    IN  CASE n.kind = "list"     -> RunList(n, c)
          [] n.kind = "nullable" -> RunNullable(n, c)
          [] n.kind = "present"  -> Done(AppendDefLevels(c, size, n.def))
          [] n.kind = "nulls"    -> Done(AppendDefLevels(FillRepLevels(c, size, n.rep), size, n.def))
          [] n.kind = "terminal" ->
                Done([c EXCEPT !.def = @ \o [i \in 1 .. size |->
                        IF Valid(n.arr, RangeOf(c)[1] + i - 1) THEN n.def ELSE n.def - 1]])

----------------------------------------------------------------------------
(***************************************************************************)
(* The level info of the schema's nodes.  A list's own info is that of its *)
(* elements, but for the ancestor.                                         *)
(***************************************************************************)
Increment(f, i) == IF f.nullable THEN [i EXCEPT !.def = @ + 1] ELSE i
IncrementRepeated(i) == [def |-> i.def + 1, rep |-> i.rep + 1, anc |-> i.def + 1]
RootInfo == [def |-> 0, rep |-> 0, anc |-> 0]

RECURSIVE LeafInfos(_, _)
LeafInfos(f, i) ==
    CASE f.kind = "leaf"   -> << Increment(f, i) >>
      [] f.kind = "list"   -> LeafInfos(f.elem, IncrementRepeated(Increment(f, i)))
      [] f.kind = "struct" -> FlattenSeq([k \in DOMAIN f.fields |-> LeafInfos(f.fields[k], Increment(f, i))])

LeafCount(f) == Len(LeafInfos(f, RootInfo))

----------------------------------------------------------------------------
(***************************************************************************)
(* The arrow column writer.                                                *)
(***************************************************************************)
RowsOf(c) == FoldLeft(LAMBDA n, a : n + a.len, 0, c.chunks)
GroupEnd == IF row + column.limit < RowsOf(column) THEN row + column.limit ELSE RowsOf(column)

\* newArrowColumnWriter: the slices of the chunks that have rows from .. to - 1.
Builders(chunks, from, to) ==
    LET start(k) == FoldLeft(LAMBDA n, a : n + a.len, 0, SubSeq(chunks, 1, k - 1))
        lo(k) == IF from > start(k) THEN from - start(k) ELSE 0
        hi(k) == IF to < start(k) + chunks[k].len THEN to - start(k) ELSE chunks[k].len
        has == SelectSeq([k \in DOMAIN chunks |-> k], LAMBDA k : lo(k) < hi(k))
    IN  [j \in DOMAIN has |-> SliceOf(chunks[has[j]], lo(has[j]), hi(has[j]))]

NoWork == [pos |-> 0, stack |-> << >>, def |-> << >>, rep |-> << >>, visited |-> << >>, negative |-> FALSE]
NoColumn == [def |-> << >>, rep |-> << >>, values |-> << >>]

Init ==
    /\ column \in Columns
    /\ pc = IF RowsOf(column) = 0 THEN "read" ELSE "begin"
    /\ row = 0 /\ leaf = 1 /\ part = 1
    /\ info = NoPath /\ w = NoWork
    /\ file = [k \in 1 .. LeafCount(column.field) |-> NoColumn]
    /\ bits = FALSE
    /\ rows = << >>

\* The builder's Visit and the beginning of writePath.
Begin ==
    /\ pc = "begin"
    /\ LET arr == Builders(column.chunks, row, GroupEnd)[part]
           path == Visit(column.field, arr, NoPath)[leaf]
       IN  /\ info' = path
           /\ w' = IF path.maxDef = 0 THEN NoWork
                   ELSE [NoWork EXCEPT !.pos = 1,
                            !.stack = [k \in DOMAIN path.path |-> IF k = 1 THEN << 0, arr.len >> ELSE << 0, 0 >>]]
           /\ pc' = IF path.maxDef = 0 THEN "write" ELSE "path"
    /\ UNCHANGED <<column, row, leaf, part, file, bits, rows>>

RunNode ==
    /\ pc = "path"
    /\ \E c \in {Run(info.path[w.pos], w)} :
          /\ w' = c
          /\ pc' = IF c.negative THEN "panicked" ELSE IF c.pos = 0 THEN "write" ELSE "path"
    /\ UNCHANGED <<column, row, leaf, part, info, file, bits, rows>>

\* postListVisitedElems
Visited ==
    IF w.rep = << >> THEN << << 0, info.arr.len >> >>
    ELSE IF w.visited = << >> THEN << << 0, 0 >> >> ELSE w.visited

\* The values of the slots of a leaf array, and those of them that bits select.
ValuesOf(a) == [i \in 1 .. a.len |-> 10 * a.tag + a.off + i]
Selected(values, set) == LET at == SelectSeq([i \in DOMAIN values |-> i], LAMBDA i : set[i])
                         IN  [j \in DOMAIN at |-> values[at[j]]]

\* WriteBatchSpaced: one value per slot, those that are null are left out.
Spaced(values, li, hasBits) ==
    LET slots == SelectSeq(w.def, LAMBDA d : d >= li.anc)
        defined == Len(SelectSeq(slots, LAMBDA d : d >= li.def))
        vals == SubSeq(ValuesOf(values), 1, Len(slots))
    IN  IF Len(vals) = defined THEN vals
        ELSE IF hasBits THEN Selected(vals, [i \in DOMAIN vals |-> slots[i] >= li.def])
        ELSE Selected(vals, [i \in DOMAIN vals |-> Valid(values, i - 1)])

\* WriteBatch: as many values as there are levels that say so, or all without levels.
Dense(values, li) ==
    IF li.def = 0 THEN ValuesOf(values)
    ELSE SubSeq(ValuesOf(values), 1, Len(SelectSeq(w.def, LAMBDA d : d = li.def)))

\* The next chunk of this leaf, the next leaf of this row group, or the next row group.
NextWrite ==
    LET parts == Len(Builders(column.chunks, row, GroupEnd))
        lastPart == part = parts
        lastLeaf == leaf = LeafCount(column.field)
    IN  /\ part' = IF lastPart THEN 1 ELSE part + 1
        /\ leaf' = IF ~lastPart THEN leaf ELSE IF lastLeaf THEN 1 ELSE leaf + 1
        /\ row' = IF lastPart /\ lastLeaf THEN GroupEnd ELSE row
        /\ pc' = IF lastPart /\ lastLeaf /\ GroupEnd = RowsOf(column) THEN "read" ELSE "begin"

\* WriteArrowToColumn
WriteLeaf ==
    /\ pc = "write" /\ Len(Visited) = 1
    /\ NextWrite
    /\ LET li == LeafInfos(column.field, RootInfo)[leaf]
           values == SliceOf(info.arr, Visited[1][1], Visited[1][2])
           singleNullable == li.def = li.anc + 1 /\ info.nullable
           maybeParentNulls == li.anc < li.def /\ ~singleNullable
           hasBits == bits \/ maybeParentNulls
           written == IF ~maybeParentNulls /\ NullsIn(values) = 0
                      THEN Dense(values, li) ELSE Spaced(values, li, hasBits)
       IN  /\ file' = [file EXCEPT ![leaf] =
                           [def |-> @.def \o w.def, rep |-> @.rep \o w.rep, values |-> @.values \o written]]
           /\ bits' = (hasBits /\ leaf' = leaf /\ row' = row)
    /\ info' = NoPath /\ w' = NoWork
    /\ UNCHANGED <<column, rows>>

\* "lists with non-zero length null components are not supported"
Refuse ==
    /\ pc = "write" /\ Len(Visited) # 1
    /\ pc' = "refused"
    /\ UNCHANGED <<column, row, leaf, part, info, w, file, bits, rows>>

----------------------------------------------------------------------------
(***************************************************************************)
(* The column readers.  A result is [ok, vals]; ok is FALSE where a reader *)
(* returns an error or would read past the end of a child.                 *)
(***************************************************************************)
\* The positions of levels that satisfy P, in order.
Positions(levels, P(_)) == SelectSeq([i \in DOMAIN levels |-> i], P)

\* ReadRecordData of the leaf
LeafArray(col, i) ==
    LET slots == Positions(col.def, LAMBDA p : col.def[p] >= i.anc)
        defined(k) == col.def[slots[k]] >= i.def
        before(k) == Cardinality({j \in 1 .. k : defined(j)})
    IN  IF i.def = 0 THEN [ok |-> TRUE, vals |-> col.values]
        ELSE [ok |-> before(Len(slots)) = Len(col.values),
              vals |-> [k \in DOMAIN slots |->
                            IF ~defined(k) THEN Null
                            ELSE IF before(k) > Len(col.values) THEN Null ELSE col.values[before(k)]]]

\* DefRepLevelsToListInfo: where lists start, and the number of elements of each.
ListStarts(col, i) == Positions(col.def, LAMBDA p : col.def[p] >= i.anc /\ col.rep[p] < i.rep)
ListSizes(col, i, starts) ==
    [k \in DOMAIN starts |->
        LET next == IF k = Len(starts) THEN Len(col.def) ELSE starts[k + 1] - 1
        IN  (IF col.def[starts[k]] >= i.def THEN 1 ELSE 0)
            + Cardinality({p \in starts[k] + 1 .. next : col.def[p] >= i.anc /\ col.rep[p] = i.rep})]

RECURSIVE IsOrHasRepeatedChild(_)
IsOrHasRepeatedChild(f) ==
    \/ f.kind = "list"
    \/ f.kind = "struct" /\ \A k \in DOMAIN f.fields : IsOrHasRepeatedChild(f.fields[k])

\* The columns of a struct's child k.
ChildColumns(f, k, cols) ==
    LET first == LeafCount([f EXCEPT !.fields = SubSeq(@, 1, k - 1)])
    IN  SubSeq(cols, first + 1, first + LeafCount(f.fields[k]))

RECURSIVE LevelsColumn(_, _)
\* GetDefLevels, GetRepLevels: a struct takes those of a child that is not repeated if it can.
LevelsColumn(f, cols) ==
    CASE f.kind = "leaf"   -> cols[1]
      [] f.kind = "list"   -> LevelsColumn(f.elem, cols)
      [] f.kind = "struct" ->
            LET plain == {k \in DOMAIN f.fields : ~IsOrHasRepeatedChild(f.fields[k])}
                child == IF plain = {} THEN 1 ELSE CHOOSE k \in plain : \A j \in plain : k <= j
            IN  LevelsColumn(f.fields[child], ChildColumns(f, child, cols))

\* The validity bits of a struct: DefRepLevelsToBitmap, DefLevelsToBitmap
StructBits(f, i, cols, lenBound) ==
    LET col == LevelsColumn(f, cols)
        at == IF IsOrHasRepeatedChild(f) THEN ListStarts(col, [i EXCEPT !.rep = @ + 1])
              ELSE Positions(col.def, LAMBDA p : i.rep > 0 => col.def[p] >= i.anc)
    IN  IF lenBound > 0 /\ (IsOrHasRepeatedChild(f) \/ f.nullable)
        THEN [k \in DOMAIN at |-> col.def[at[k]] >= i.def] ELSE Copies(lenBound, TRUE)

StructArray(f, bitmap, fields, lenBound) ==
    LET read == IF f.nullable \/ IsOrHasRepeatedChild(f) THEN Len(bitmap) ELSE Len(fields[1].vals)
        ok == /\ Len(bitmap) <= lenBound
              /\ \A k \in DOMAIN fields : fields[k].ok /\ Len(fields[k].vals) >= read
    IN  [ok |-> ok,
         vals |-> IF ~ok THEN << >>
                  ELSE [r \in 1 .. read |->
                          IF r \in DOMAIN bitmap => bitmap[r]
                          THEN [k \in DOMAIN fields |-> fields[k].vals[r]] ELSE Null]]

\* buildArray, buildFixedSizeListArray
ListArray(f, valid, sizes, items, lenBound) ==
    LET offset(k) == FoldLeft(LAMBDA n, m : n + m, 0, SubSeq(sizes, 1, k))
        ok == /\ Len(sizes) <= lenBound /\ items.ok
              /\ Len(items.vals) >= offset(Len(sizes))
              /\ f.size > 0 => /\ Len(items.vals) = offset(Len(sizes))
                               /\ \A k \in DOMAIN sizes : sizes[k] = IF valid[k] THEN f.size ELSE 0
    IN  [ok |-> ok,
         vals |-> IF ~ok THEN << >>
                  ELSE [k \in DOMAIN sizes |->
                          IF valid[k] THEN SubSeq(items.vals, offset(k - 1) + 1, offset(k)) ELSE Null]]

RECURSIVE BuildArray(_, _, _, _)
\* i is the level info of the parent.
BuildArray(f, i, cols, lenBound) ==
    LET own == Increment(f, i)
        list == [IncrementRepeated(own) EXCEPT !.anc = i.anc]
    IN  CASE f.kind = "leaf" -> LeafArray(cols[1], own)
          [] f.kind = "struct" ->
                StructArray(f, StructBits(f, own, cols, lenBound),
                            [k \in DOMAIN f.fields |->
                                BuildArray(f.fields[k], own, ChildColumns(f, k, cols), lenBound)], lenBound)
          [] f.kind = "list" ->
                LET col == LevelsColumn(f.elem, cols)
                    starts == ListStarts(col, list)
                    sizes == ListSizes(col, list, starts)
                IN  ListArray(f, [k \in DOMAIN starts |-> f.nullable => col.def[starts[k]] >= list.def - 1],
                              sizes,
                              BuildArray(f.elem, IncrementRepeated(own), cols,
                                         FoldLeft(LAMBDA n, m : n + m, 0, sizes)), lenBound)

\* The whole column is read as one batch.
ReadColumn ==
    /\ pc = "read"
    /\ \E out \in {BuildArray(column.field, RootInfo, file, RowsOf(column))} :
          /\ rows' = out.vals
          /\ pc' = IF out.ok THEN "done" ELSE "failed"
    /\ UNCHANGED <<column, row, leaf, part, info, w, file, bits>>

Finished == pc \in {"done", "refused", "failed", "panicked"} /\ UNCHANGED vars

Next == Begin \/ RunNode \/ WriteLeaf \/ Refuse \/ ReadColumn \/ Finished

Spec == Init /\ [][Next]_vars

----------------------------------------------------------------------------
RECURSIVE Logical(_, _, _)
\* What slot i of an array means.
Logical(f, a, i) ==
    CASE ~Valid(a, i) -> Null
      [] Valid(a, i) /\ f.kind = "leaf" -> ValuesOf(a)[i + 1]
      [] Valid(a, i) /\ f.kind = "struct" -> [k \in DOMAIN f.fields |-> Logical(f.fields[k], FieldOf(a, k), i)]
      [] Valid(a, i) /\ f.kind = "list" ->
            LET at == ValueOffsets(a, i) IN [j \in 1 .. Size(at) |-> Logical(f.elem, a.child, at[1] + j - 1)]

RECURSIVE HasElements(_, _, _)
\* Slot i of an array has list elements below it.
HasElements(f, a, i) ==
    CASE f.kind = "leaf"   -> FALSE
      [] f.kind = "list"   -> ~Empty(ValueOffsets(a, i))
      [] f.kind = "struct" -> \E k \in DOMAIN f.fields : HasElements(f.fields[k], FieldOf(a, k), i)

RECURSIVE HidesElements(_, _, _)
\* Slot i, or one below it, is null and has list elements.
HidesElements(f, a, i) ==
    CASE ~Valid(a, i) -> HasElements(f, a, i)
      [] Valid(a, i) /\ f.kind = "leaf" -> FALSE
      [] Valid(a, i) /\ f.kind = "list" ->
            \E j \in ValueOffsets(a, i)[1] .. ValueOffsets(a, i)[2] - 1 : HidesElements(f.elem, a.child, j)
      [] Valid(a, i) /\ f.kind = "struct" ->
            \E k \in DOMAIN f.fields : HidesElements(f.fields[k], FieldOf(a, k), i)

(***************************************************************************)
(* The rows read are the rows written, whatever the nesting, the chunks,   *)
(* the slices and the row groups; and a column is refused only when a null *)
(* has list elements, the one thing writePath's caller says it does not    *)
(* support.                                                                *)
(***************************************************************************)
NestedReadBack ==
    /\ pc \notin {"failed", "panicked"}
    /\ pc = "done" =>
          rows = FlattenSeq([k \in DOMAIN column.chunks |->
                    [i \in 1 .. column.chunks[k].len |-> Logical(column.field, column.chunks[k], i - 1)]])
    /\ pc = "refused" =>
          \E k \in DOMAIN column.chunks : \E i \in 0 .. column.chunks[k].len - 1 :
             HidesElements(column.field, column.chunks[k], i)
=============================================================================
