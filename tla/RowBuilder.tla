----------------------------- MODULE RowBuilder -----------------------------
(***************************************************************************)
(* array.RecordBuilder fed with JSON rows: UnmarshalOne takes a checkpoint *)
(* of every builder of every column, decodes the row into them and, when   *)
(* any part of the row is refused, restores them all.                      *)
(*                                                                         *)
(* A schema is a tree of builders.  The kinds: "leaf" (fixed width),       *)
(* "binary" (offsets and data), "view" (headers and blocks), "dict"        *)
(* (indices and memo table), "list" (a map is a list of structs),          *)
(* "struct", "sparse", "dense" and "ree" (run-end encoded, the run ends    *)
(* kept with it).  Value 0 is the zero value, empty for a string.          *)
(*                                                                         *)
(* The JSON of a value: null, a scalar, an array, an object; "bad" is      *)
(* where the tokens end or break, "odd" a value of the wrong type.  A key  *)
(* shown twice fails like "bad", an unknown key changes nothing.           *)
(* Fields are nullable, and AppendValueFromString is not mixed in.         *)
(***************************************************************************)
EXTENDS Integers, SequencesExt

CONSTANTS
    Schemas,    \* the schemas: [kind: node -> kind, kids: node -> nodes, columns: nodes,
                \*               limit: bound on the rows of a batch]
    Scalars,    \* the values of leaves, 0 among them
    MaxList,    \* bound on the elements of a JSON array
    BlockSize,  \* values in a block of a view builder
    MaxBatches  \* bound on NewRecordBatch

VARIABLES
    schema,     \* the schema
    b,          \* node -> the state of its builder
    accepted,   \* the rows UnmarshalOne took since the last batch, one value per column
    failed,     \* the last UnmarshalOne returned an error
    made        \* batches made

rowVars == <<schema, b, accepted, failed, made>>

Null == << >>
Zero == <<0, 0>>    \* the header of an inline value 0

Kind(n) == schema.kind[n]
Kids(n) == schema.kids[n]
Nodes == DOMAIN schema.kind

\* The state of a builder.  vals: values (leaf), indices (dict), type codes (union) or
\* validity, one per element; offs: offsets, or the run ends; data: the bytes of a binary
\* builder, the memo table of a dictionary; hdrs, blocks, cur, count, lens: a view
\* builder, its rawData, blockBuilder and the checkpoint that UnsafeAppend notes blocks
\* in; run, last, empty: length, lastUnmarshalled and lastValueWasEmpty of "ree".
NewBuilder ==
    [vals |-> << >>, offs |-> << >>, data |-> << >>,
     hdrs |-> << >>, blocks |-> << >>, cur |-> 1, count |-> 0, lens |-> {},
     run |-> 0, last |-> [t |-> "null"], empty |-> FALSE]

RowInit ==
    /\ schema \in Schemas
    /\ b = [n \in Nodes |-> NewBuilder]
    /\ accepted = << >> /\ failed = FALSE /\ made = 0

BuilderLen(s, n) == IF Kind(n) = "ree" THEN s[n].run ELSE Len(s[n].vals)

----------------------------------------------------------------------------
(***************************************************************************)
(* Appending one value to one builder.                                     *)
(***************************************************************************)
\* multiBufferBuilder.Reserve: the current block, the first with room, or a new one.
ReserveBlock(x) ==
    LET room == {i \in DOMAIN x.blocks : Len(x.blocks[i].cells) < x.blocks[i].cap}
    IN CASE x.cur \in room -> x
         [] x.cur \notin room /\ room # {} ->
                [x EXCEPT !.cur = CHOOSE i \in room : \A j \in room : i <= j]
         [] OTHER -> [x EXCEPT !.blocks = Append(@, [cells |-> << >>, cap |-> BlockSize]),
                               !.cur = Len(x.blocks) + 1]

\* rawData[length] = hdr
SetHeader(x, h) ==
    LET at == Len(x.vals) + 1
    IN [x EXCEPT !.hdrs = IF at <= Len(@) THEN [@ EXCEPT ![at] = h] ELSE Append(@, h)]

\* The header at length stays as it is, zero in memory not written yet.
KeepHeader(x) == IF Len(x.vals) < Len(x.hdrs) THEN x ELSE SetHeader(x, Zero)

\* multiBufferBuilder.UnsafeAppend and recordBlock
AppendBlock(x, v) ==
    LET i == x.cur
        off == Len(x.blocks[i].cells)
        noted == IF i <= x.count /\ \A p \in x.lens : p[1] # i THEN {<<i, off>>} ELSE {}
    IN SetHeader([x EXCEPT !.blocks[i].cells = Append(@, v), !.lens = @ \cup noted], <<i, off + 1>>)

ViewAppend(x, v) ==
    LET y == IF v = 0 THEN SetHeader(x, Zero) ELSE AppendBlock(ReserveBlock(x), v)
    IN [y EXCEPT !.vals = Append(@, TRUE)]

BinaryAppend(x, v, valid) ==
    [x EXCEPT !.offs = Append(@, Len(x.data)),
              !.data = IF v = 0 THEN @ ELSE Append(@, v),
              !.vals = Append(@, valid)]

\* memoTable.GetOrInsert and the append of the index
DictAppend(x, v) ==
    LET memo == IF Contains(x.data, v) THEN x.data ELSE Append(x.data, v)
    IN [x EXCEPT !.data = memo, !.vals = Append(@, << CHOOSE i \in DOMAIN memo : memo[i] = v >>)]

AppendScalar(x, kind, v) ==
    CASE kind = "leaf"   -> [x EXCEPT !.vals = Append(@, << v >>)]
      [] kind = "binary" -> BinaryAppend(x, v, TRUE)
      [] kind = "view"   -> ViewAppend(x, v)
      [] kind = "dict"   -> DictAppend(x, v)

\* RunEndEncodedBuilder.finishRun
finishRun(x) ==
    [x EXCEPT !.last = [t |-> "null"], !.empty = FALSE,
              !.offs = IF x.run = 0 THEN @ ELSE Append(@, x.run)]

RECURSIVE AppendNull(_, _), AppendEmptyValue(_, _)

\* fn(s, n) on each of the nodes, left to right
NullAll(s, ns)  == FoldLeft(LAMBDA t, n : AppendNull(t, n), s, ns)
EmptyAll(s, ns) == FoldLeft(LAMBDA t, n : AppendEmptyValue(t, n), s, ns)

AppendNull(s, n) ==
    LET kids == Kids(n) IN
    CASE Kind(n) \in {"leaf", "dict"} -> [s EXCEPT ![n].vals = Append(@, Null)]
      [] Kind(n) = "binary" -> [s EXCEPT ![n] = BinaryAppend(@, 0, FALSE)]
      [] Kind(n) = "view" -> [s EXCEPT ![n] = [KeepHeader(@) EXCEPT !.vals = Append(@, FALSE)]]
      [] Kind(n) = "list" ->
            [s EXCEPT ![n].vals = Append(@, FALSE), ![n].offs = Append(@, BuilderLen(s, kids[1]))]
      [] Kind(n) = "struct" -> NullAll([s EXCEPT ![n].vals = Append(@, FALSE)], kids)
      [] Kind(n) = "sparse" ->
            EmptyAll(AppendNull([s EXCEPT ![n].vals = Append(@, 1)], kids[1]), Tail(kids))
      [] Kind(n) = "dense" ->
            AppendNull([s EXCEPT ![n].vals = Append(@, 1),
                                 ![n].offs = Append(@, BuilderLen(s, kids[1]))], kids[1])
      [] Kind(n) = "ree" ->
            AppendNull([s EXCEPT ![n] = [finishRun(@) EXCEPT !.run = @ + 1]], kids[1])

AppendEmptyValue(s, n) ==
    LET kids == Kids(n) IN
    CASE Kind(n) \in {"leaf", "dict"} -> [s EXCEPT ![n] = AppendScalar(@, Kind(n), 0)]
      [] Kind(n) = "binary" -> [s EXCEPT ![n] = BinaryAppend(@, 0, TRUE)]
      [] Kind(n) = "view" -> [s EXCEPT ![n] = [KeepHeader(@) EXCEPT !.vals = Append(@, TRUE)]]
      [] Kind(n) = "list" ->
            [s EXCEPT ![n].vals = Append(@, TRUE), ![n].offs = Append(@, BuilderLen(s, kids[1]))]
      [] Kind(n) = "struct" -> EmptyAll([s EXCEPT ![n].vals = Append(@, TRUE)], kids)
      [] Kind(n) = "sparse" -> EmptyAll([s EXCEPT ![n].vals = Append(@, 1)], kids)
      [] Kind(n) = "dense" ->
            AppendEmptyValue([s EXCEPT ![n].vals = Append(@, 1),
                                       ![n].offs = Append(@, BuilderLen(s, kids[1]))], kids[1])
      [] Kind(n) = "ree" ->
            AppendEmptyValue([s EXCEPT ![n] = [finishRun(@) EXCEPT !.run = @ + 1, !.empty = TRUE]],
                             kids[1])

----------------------------------------------------------------------------
(***************************************************************************)
(* UnmarshalOne of the builders.  A decoding is [s, ok]: the builders, and *)
(* whether no error was returned.                                          *)
(***************************************************************************)
RECURSIVE UnmarshalValue(_, _, _)

\* In turn, until one fails: each of ds is <<node, document>>.
UnmarshalEach(s, ds) ==
    FoldLeft(LAMBDA r, d : IF r.ok THEN UnmarshalValue(r.s, d[1], d[2]) ELSE r,
             [s |-> s, ok |-> TRUE], ds)

\* Children whose keys kv does not show
Missing(kids, kv) == SelectSeq(kids, LAMBDA n : \A i \in DOMAIN kv : kids[kv[i][1]] # n)

UnmarshalList(s, n, d) ==
    LET kid == Kids(n)[1]
        s1 == [s EXCEPT ![n].vals = Append(@, TRUE), ![n].offs = Append(@, BuilderLen(s, kid))]
        s2 == IF Kind(kid) = "ree" THEN [s1 EXCEPT ![kid] = finishRun(@)] ELSE s1
    IN UnmarshalEach(s2, [i \in DOMAIN d.els |-> <<kid, d.els[i]>>])

UnmarshalStruct(s, n, d) ==
    LET s1 == [s EXCEPT ![n].vals = Append(@, TRUE)]
        r == UnmarshalEach(s1, [i \in DOMAIN d.kv |-> <<Kids(n)[d.kv[i][1]], d.kv[i][2]>>])
    IN IF r.ok THEN [s |-> NullAll(r.s, Missing(Kids(n), d.kv)), ok |-> ~d.cut] ELSE r

\* [type_id, value]: a code that names no child is refused, and so is a third element.
UnmarshalUnion(s, n, d) ==
    LET kids == Kids(n)
        others == IF Kind(n) = "sparse" THEN NullAll(s, RemoveAt(kids, d.code)) ELSE s
        at == IF Kind(n) = "dense" THEN << BuilderLen(s, kids[d.code]) >> ELSE << >>
        s1 == [others EXCEPT ![n].vals = Append(@, d.code), ![n].offs = @ \o at]
        r == UnmarshalValue(s1, kids[d.code], d.val)
    IN IF d.code \notin DOMAIN kids THEN [s |-> s, ok |-> FALSE]
       ELSE [r EXCEPT !.ok = @ /\ ~d.cut]

\* Mutant of SameRun: a null at the start continues a run that is not there.
SameRunFromStart(s, n, d) == ~s[n].empty /\ d = s[n].last

\* The value continues the run of lastUnmarshalled, or starts the next one.
SameRun(s, n, d) ==
    /\ ~s[n].empty
    /\ d = s[n].last
    /\ d.t # "null" \/ Len(s[n].offs) # BuilderLen(s, Kids(n)[1])

UnmarshalRun(s, n, d) ==
    IF SameRun(s, n, d) THEN [s |-> [s EXCEPT ![n].run = @ + 1], ok |-> TRUE]
    ELSE UnmarshalValue([s EXCEPT ![n] = [finishRun(@) EXCEPT !.run = @ + 1, !.last = d]],
                        Kids(n)[1], d)

UnmarshalValue(s, n, d) ==
    CASE d.t = "bad" -> [s |-> s, ok |-> FALSE]
      [] Kind(n) = "ree" /\ d.t # "bad" -> UnmarshalRun(s, n, d)
      [] d.t = "odd" /\ Kind(n) # "ree" -> [s |-> s, ok |-> FALSE]
      [] d.t = "null" /\ Kind(n) # "ree" -> [s |-> AppendNull(s, n), ok |-> TRUE]
      [] d.t = "scalar" /\ Kind(n) # "ree" ->
            [s |-> [s EXCEPT ![n] = AppendScalar(@, Kind(n), d.v)], ok |-> TRUE]
      [] d.t = "array" -> UnmarshalList(s, n, d)
      [] d.t = "object" -> UnmarshalStruct(s, n, d)
      [] d.t = "union" -> UnmarshalUnion(s, n, d)

\* RecordBuilder.unmarshalOne: a row is an object over the columns.
unmarshalOne(s, row) ==
    LET r == UnmarshalEach(s, [i \in DOMAIN row.kv |-> <<schema.columns[row.kv[i][1]], row.kv[i][2]>>])
    IN IF r.ok /\ ~row.cut THEN [r EXCEPT !.s = NullAll(r.s, Missing(schema.columns, row.kv))]
       ELSE [r EXCEPT !.ok = FALSE]

----------------------------------------------------------------------------
(***************************************************************************)
(* Checkpoints.                                                            *)
(***************************************************************************)
\* The checkpoint of a view builder is in the builder: capture starts it anew.
StartCheckpoint(x) == [x EXCEPT !.count = Len(x.blocks), !.lens = {}]

\* builderCheckpoint.capture of every node
capture(s) ==
    [n \in Nodes |-> [length |-> BuilderLen(s, n), size |-> Len(s[n].data), ends |-> Len(s[n].offs),
                      last |-> s[n].last, cur |-> s[n].cur]]

Cut(seq, len) == SubSeq(seq, 1, len)

\* multiBufferCheckpoint.restore, and the headers past the length zeroed
RestoreView(x, c) ==
    LET kept == Cut(x.blocks, x.count)
        was(i) == CHOOSE l \in 0 .. BlockSize : <<i, l>> \in x.lens
    IN [x EXCEPT !.vals = Cut(@, c.length),
                 !.hdrs = Cut(@, c.length),
                 !.blocks = [i \in DOMAIN kept |->
                                IF \E p \in x.lens : p[1] = i
                                THEN [cells |-> Cut(kept[i].cells, was(i)), cap |-> was(i)]
                                ELSE kept[i]],
                 !.cur = c.cur]

\* BinaryBuilder.truncate cuts the data at the offset of the first element to go.
TruncateBinary(x, len) ==
    [x EXCEPT !.data = IF len < Len(x.offs) THEN Cut(@, x.offs[len + 1]) ELSE @,
              !.offs = Cut(@, len), !.vals = Cut(@, len)]

RestoreRuns(x, c) == [x EXCEPT !.run = c.length, !.offs = Cut(@, c.ends), !.last = c.last]

\* Mutant of TruncateMemo: what the refused row inserted stays.
TruncateMemoNot(x, size) == x

\* MemoTable.Truncate: the entries inserted since are gone.
TruncateMemo(x, size) == [x EXCEPT !.data = Cut(@, size)]

\* builderCheckpoint.restore of one node: truncate, then the state of its own.
RestoreOne(x, kind, c) ==
    CASE kind = "ree" -> RestoreRuns(x, c)
      [] kind = "binary" -> [TruncateBinary(x, c.length) EXCEPT !.data = Cut(@, c.size)]
      [] kind = "view" -> RestoreView(x, c)
      [] kind = "dict" -> TruncateMemo([x EXCEPT !.vals = Cut(@, c.length)], c.size)
      [] OTHER -> [x EXCEPT !.vals = Cut(@, c.length), !.offs = Cut(@, c.ends)]

restore(s, cp) == [n \in Nodes |-> RestoreOne(s[n], Kind(n), cp[n])]

----------------------------------------------------------------------------
(***************************************************************************)
(* The JSON of a row, and the value it stands for.                         *)
(***************************************************************************)
RECURSIVE Docs(_, _), KeyValues(_, _, _)

Bad == [t |-> "bad"]
NullDoc == [t |-> "null"]

\* Up to len elements; a bad one is the last.
DocSeqs(ds, len) ==
    {q \in UNION {[1 .. k -> ds] : k \in 0 .. len} : \A i \in 1 .. Len(q) - 1 : q[i] # Bad}

\* Objects: some of the keys in some order, each with a document of its node, a bad one
\* last; cut when the closing token is missing.
KeyValues(sc, ns, keys) ==
    IF keys = << >> THEN {<< >>}
    ELSE {Append(kv, <<Last(keys), d>>) :
            kv \in {f \in KeyValues(sc, ns, Front(keys)) : f = << >> \/ Last(f)[2] # Bad},
            d \in Docs(sc, ns[Last(keys)])}

Objects(sc, ns) ==
    LET keys == {q \in UNION {[1 .. k -> DOMAIN ns] : k \in 0 .. Len(ns)} : IsInjective(q)}
    IN {[t |-> "object", kv |-> kv, cut |-> c] :
            kv \in UNION {KeyValues(sc, ns, q) : q \in keys}, c \in BOOLEAN}

Docs(sc, n) ==
    LET kids == sc.kids[n] IN
    {NullDoc, Bad, [t |-> "odd"]} \cup
    CASE sc.kind[n] = "list" -> {[t |-> "array", els |-> q] : q \in DocSeqs(Docs(sc, kids[1]), MaxList)}
      [] sc.kind[n] = "struct" -> Objects(sc, kids)
      [] sc.kind[n] \in {"sparse", "dense"} ->
            UNION {{[t |-> "union", code |-> k, val |-> d, cut |-> c] :
                        d \in Docs(sc, kids[Max({k, 1})]), c \in BOOLEAN} : k \in 0 .. Len(kids)}
      [] OTHER -> {[t |-> "scalar", v |-> v] : v \in Scalars}

Rows == [sc \in Schemas |-> Objects(sc, sc.columns)]

RECURSIVE ValueOf(_, _)

ObjectValue(ns, d) ==
    [j \in DOMAIN ns |->
        IF \E i \in DOMAIN d.kv : d.kv[i][1] = j
        THEN ValueOf(ns[j], d.kv[CHOOSE i \in DOMAIN d.kv : d.kv[i][1] = j][2])
        ELSE ValueOf(ns[j], NullDoc)]

ValueOf(n, d) ==
    CASE d.t = "null" /\ Kind(n) \in {"sparse", "dense"} -> << 1, ValueOf(Kids(n)[1], d) >>
      [] d.t = "null" /\ Kind(n) \notin {"sparse", "dense"} -> Null
      [] d.t = "scalar" -> << d.v >>
      [] d.t = "array" -> << [i \in DOMAIN d.els |-> ValueOf(Kids(n)[1], d.els[i])] >>
      [] d.t = "object" -> << ObjectValue(Kids(n), d) >>
      [] d.t = "union" -> << d.code, ValueOf(Kids(n)[d.code], d.val) >>

----------------------------------------------------------------------------
(***************************************************************************)
(* What an array made of the builders holds at i.  Broken: an index past   *)
(* the end of something.                                                   *)
(***************************************************************************)
RECURSIVE ArrayValue(_, _, _)

Broken == << -1 >>

EndOf(s, n, i, len) == IF i < Len(s[n].offs) THEN s[n].offs[i + 1] ELSE len

ReadBinary(x, i) ==
    LET from == x.offs[i]
        to == IF i < Len(x.offs) THEN x.offs[i + 1] ELSE Len(x.data)
    IN CASE from = to -> << 0 >> [] to = from + 1 -> << x.data[to] >> [] OTHER -> Broken

ReadView(x, i) ==
    LET h == x.hdrs[i]
    IN CASE h = Zero -> << 0 >>
         [] h # Zero /\ h[1] \in DOMAIN x.blocks /\ h[2] <= Len(x.blocks[h[1]].cells) ->
                << x.blocks[h[1]].cells[h[2]] >>
         [] OTHER -> Broken

\* The run ends after newData has finished the last run; FindPhysicalIndex
ReadRun(s, n, i) ==
    LET ends == finishRun(s[n]).offs
        after == {j \in DOMAIN ends : ends[j] >= i}
        j == CHOOSE j \in after : \A k \in after : j <= k
    IN IF after # {} /\ j <= BuilderLen(s, Kids(n)[1]) THEN ArrayValue(s, Kids(n)[1], j)
       ELSE Broken

ArrayValue(s, n, i) ==
    LET x == s[n]
        kids == Kids(n)
    IN CASE Kind(n) = "leaf" -> x.vals[i]
         [] Kind(n) = "dict" -> IF x.vals[i] = Null THEN Null ELSE << x.data[x.vals[i][1]] >>
         [] Kind(n) = "binary" -> IF x.vals[i] THEN ReadBinary(x, i) ELSE Null
         [] Kind(n) = "view" -> IF x.vals[i] THEN ReadView(x, i) ELSE Null
         [] Kind(n) = "list" ->
                LET from == x.offs[i]
                    to == EndOf(s, n, i, BuilderLen(s, kids[1]))
                IN IF x.vals[i] THEN << [k \in 1 .. to - from |-> ArrayValue(s, kids[1], from + k)] >>
                   ELSE Null
         [] Kind(n) = "struct" ->
                IF x.vals[i] THEN << [k \in DOMAIN kids |-> ArrayValue(s, kids[k], i)] >> ELSE Null
         [] Kind(n) = "sparse" -> << x.vals[i], ArrayValue(s, kids[x.vals[i]], i) >>
         [] Kind(n) = "dense" -> << x.vals[i], ArrayValue(s, kids[x.vals[i]], x.offs[i] + 1) >>
         [] Kind(n) = "ree" -> ReadRun(s, n, i)

----------------------------------------------------------------------------
(***************************************************************************)
(* RecordBuilder                                                           *)
(***************************************************************************)
UnmarshalOne(row) ==
    LET cp == capture(b)
        r == unmarshalOne([n \in Nodes |-> StartCheckpoint(b[n])], row)
    IN /\ Len(accepted) < schema.limit
       /\ failed' = ~r.ok
       /\ b' = IF r.ok THEN r.s ELSE restore(r.s, cp)
       /\ accepted' = IF r.ok THEN Append(accepted, ObjectValue(schema.columns, row)) ELSE accepted
       /\ UNCHANGED <<schema, made>>

\* newData of every builder resets it; a dictionary keeps its memo table.
NewRecordBatch ==
    /\ accepted # << >> /\ made < MaxBatches
    /\ b' = [n \in Nodes |->
                IF Kind(n) = "dict" THEN [NewBuilder EXCEPT !.data = b[n].data] ELSE NewBuilder]
    /\ accepted' = << >> /\ failed' = FALSE
    /\ made' = made + 1
    /\ UNCHANGED schema

RowNext == (\E row \in Rows[schema] : UnmarshalOne(row)) \/ NewRecordBatch

RowSpec == RowInit /\ [][RowNext]_rowVars

----------------------------------------------------------------------------
\* The columns hold the rows UnmarshalOne accepted, all of one length, whatever rows were
\* refused in between and wherever in the row the refusal came: nothing of a refused row
\* is left in an offset, a block, a union's child or a run, and no value joins a wrong run.
RowsKept ==
    \A c \in DOMAIN schema.columns :
        LET n == schema.columns[c] IN
        /\ BuilderLen(b, n) = Len(accepted)
        /\ \A i \in DOMAIN accepted : ArrayValue(b, n, i) = accepted[i][c]

\* What a later append can see of a builder
Seen(x) ==
    [vals |-> x.vals, offs |-> x.offs, data |-> x.data, hdrs |-> x.hdrs, cur |-> x.cur,
     cells |-> [i \in DOMAIN x.blocks |-> x.blocks[i].cells],
     run |-> x.run, last |-> x.last, empty |-> x.empty]

\* A refused row leaves every builder as it was, memo tables and the state that decides
\* whether the next value continues a run included.
RefusedRowUndone ==
    [][failed' => \A n \in Nodes : Seen(b'[n]) = Seen(b[n])]_rowVars
=============================================================================
