----------------------------- MODULE FileWriter -----------------------------
(***************************************************************************)
(* The writer of a Parquet file (parquet/file/file_writer.go) with its row *)
(* group writers (row_group_writer.go), the metadata they build and the    *)
(* page index and Bloom filters behind the data (parquet/metadata): row    *)
(* groups are written column by column (serial) or all columns at once     *)
(* (buffered), footers may be written in between, writes may fail.         *)
(*                                                                         *)
(* The sink is a sequence of blocks, and an offset is a place in it: 0 is  *)
(* an offset that was never set.  Columns are numbered from 1.             *)
(***************************************************************************)
EXTENDS Integers, Sequences, FiniteSets, Outcomes

CONSTANTS
    NumCols,     \* columns of the schema
    Modes,       \* which row groups are appended: TRUE for buffered ones
    Indexed,     \* the page index is enabled
    Filtered,    \* columns have Bloom filters
    MaxGroups,   \* bound: row groups the application appends
    MaxRows,     \* bound: rows it writes to a column
    MaxKV,       \* bound: key-value pairs it appends
    MaxFaults    \* bound: how many writes to the sink fail

VARIABLES
    f,         \* the file writer, its row group writer, and the sink with the number of its faults
    broken,    \* the file writer, or the Close of a row group, has returned an error
    colFailed  \* a column's Close, or NextColumn, has returned an error of the sink

vars == <<f, broken, colFailed>>

Nil == [nil |-> TRUE]

\* NewParquetWriterWithError, startFile: the magic number is in the file.
Init ==
    /\ f = [open |-> TRUE, flushed |-> FALSE, werr |-> FALSE, nrows |-> 0, rg |-> Nil,
            meta |-> <<>>, kv |-> 0, late |-> FALSE, indexed |-> 0, finished |-> FALSE,
            sink |-> <<[kind |-> "magic"]>>, faults |-> 0, err |-> FALSE]
    /\ broken = FALSE /\ colFailed = FALSE

-----------------------------------------------------------------------------
Put(x, blocks) == [x EXCEPT !.sink = @ \o blocks]

\* A write to the sink, or its Close, fails. What of the block was written before that is never referred to.
SinkFails(x) == [x EXCEPT !.faults = @ + 1, !.err = TRUE]

\* The row group being written is the last one in the metadata.
Ordinal(x) == Len(x.meta)

\* A column writer is bound to the metadata of column c.
NewColumn(c) == [col |-> c, rows |-> 0, closed |-> FALSE]

NewGroup(buffered) ==
    [nil |-> FALSE, buffered |-> buffered, nrows |-> 0, closed |-> FALSE, err |-> FALSE,
     nextCol |-> IF buffered THEN NumCols ELSE 0,
     cols |-> IF buffered THEN [c \in 1 .. NumCols |-> NewColumn(c)] ELSE <<>>]

NewMeta == [rows |-> 0, at |-> [c \in 1 .. NumCols |-> 0], index |-> 0, bloom |-> 0]

\* Every column has as many rows as the first. A serial writer knows the current column and the count so far.
CheckRowsWritten(x) ==
    LET r == x.rg
        now == r.cols[IF r.buffered THEN 1 ELSE Len(r.cols)].rows
    IN IF r.cols = <<>> THEN {x}
       ELSE IF r.buffered
       THEN IF \A c \in DOMAIN r.cols : r.cols[c].rows = now THEN {[x EXCEPT !.rg.nrows = now]}
            ELSE {Failed(x)}
       ELSE IF r.nrows = 0 THEN {[x EXCEPT !.rg.nrows = now]}
       ELSE IF r.nrows = now THEN {x} ELSE {Failed(x)}

\* A column writer writes its chunk once, and is closed even if that fails.
CloseColumn(x, c) ==
    LET done == [x EXCEPT !.rg.cols[c].closed = TRUE]
        w == x.rg.cols[c]
        chunk == [kind |-> "chunk", group |-> Ordinal(x), col |-> w.col, rows |-> w.rows]
    IN IF w.closed THEN {x}
       ELSE {Put([done EXCEPT !.meta[Ordinal(x)].at[w.col] = Len(x.sink) + 1], <<chunk>>), SinkFails(done)}

CloseColumns(x) ==
    LET upto[c \in 0 .. Len(x.rg.cols)] ==
            IF c = 0 THEN {x} ELSE Then(upto[c - 1], LAMBDA y : CloseColumn(y, c))
    IN upto[Len(x.rg.cols)]

\* Mutant of FinishGroup: a row group with columns not yet written is finished.
FinishUnchecked(x) == {[x EXCEPT !.meta[Ordinal(x)].rows = x.rg.nrows]}

\* The metadata of the row group; every column must have been started.
FinishGroup(x) ==
    LET y == [x EXCEPT !.meta[Ordinal(x)].rows = x.rg.nrows]
    IN IF x.rg.nextCol = NumCols THEN {y} ELSE {Failed(y)}

\* Mutant of CloseGroup: the error is not remembered.
CloseGroupForgets(x) ==
    IF x.rg.closed THEN {x}
    ELSE Then(Then(CheckRowsWritten([x EXCEPT !.rg.closed = TRUE]), CloseColumns), FinishGroup)

\* Mutant of CloseGroup: the rows of the columns are not compared.
CloseGroupUnchecked(x) ==
    IF x.rg.closed THEN {IF x.rg.err THEN Failed(x) ELSE x}
    ELSE {[y EXCEPT !.rg.err = y.err] :
            y \in Then(CloseColumns([x EXCEPT !.rg.closed = TRUE,
                                              !.rg.nrows = IF x.rg.cols = <<>> THEN 0 ELSE x.rg.cols[1].rows]), FinishGroup)}

\* rowGroupWriter.Close: an error is kept for every later call.
CloseGroup(x) ==
    IF x.rg.closed THEN {IF x.rg.err THEN Failed(x) ELSE x}
    ELSE {[y EXCEPT !.rg.err = y.err] :
            y \in Then(Then(CheckRowsWritten([x EXCEPT !.rg.closed = TRUE]), CloseColumns), FinishGroup)}

\* Every Bloom filter, also those an earlier footer knew, is written, and its new offset recorded.
WriteBloomFilters(x) ==
    IF ~Filtered \/ x.meta = <<>> THEN {x}
    ELSE {Put([x EXCEPT !.meta = [i \in DOMAIN @ |-> [@[i] EXCEPT !.bloom = Len(x.sink) + i]]],
              [i \in DOMAIN x.meta |-> [kind |-> "bloom", group |-> i]]), SinkFails(x)}

\* A row group without pages has no page index.
HasPages(x, i) == \E c \in 1 .. NumCols : x.meta[i].at[c] # 0 /\ x.sink[x.meta[i].at[c]].rows > 0

\* The page indexes of the row groups since the last footer; the final footer ends the builder.
WritePageIndex(x, final) ==
    LET todo == SelectSeq([i \in DOMAIN x.meta |-> i], LAMBDA i : i > x.indexed /\ HasPages(x, i))
        y == [x EXCEPT !.indexed = Len(x.meta), !.finished = final,
                !.meta = [i \in DOMAIN @ |-> IF \E k \in DOMAIN todo : todo[k] = i
                    THEN [@[i] EXCEPT !.index = Len(x.sink) + (CHOOSE k \in DOMAIN todo : todo[k] = i)]
                    ELSE @[i]]]
    IN IF ~Indexed THEN {x}
       ELSE {Put(y, [k \in DOMAIN todo |-> [kind |-> "index", group |-> todo[k]]]), SinkFails(x)}

\* Snapshot and writeFileMetadata.
WriteFooter(x) ==
    {Put([x EXCEPT !.flushed = TRUE, !.late = FALSE], <<[kind |-> "footer", meta |-> x.meta, kv |-> x.kv]>>), SinkFails(x)}

EndGroup(x) ==
    IF x.rg.nil THEN {x}
    ELSE Then(CloseGroup(x), LAMBDA y : {[y EXCEPT !.nrows = @ + y.rg.nrows, !.rg = Nil]})

\* An error of the file writer is recorded, and returned by every later call.
Record(S) == {[y EXCEPT !.werr = @ \/ y.err] : y \in S}

\* appendRowGroup
AppendGroup(x, buffered) ==
    IF x.werr THEN {Failed(x)}
    ELSE Record(Then(IF x.rg.nil THEN {x}
                     ELSE Then(CloseGroup(x), LAMBDA y : {[y EXCEPT !.nrows = @ + y.rg.nrows]}),
                     LAMBDA y : IF Indexed /\ y.finished THEN {Failed(y)}
                                ELSE {[y EXCEPT !.meta = Append(@, NewMeta), !.flushed = FALSE,
                                                !.rg = NewGroup(buffered)]}))

\* NextColumn: the rows are compared, the metadata moves on, and only then the current column is closed.
StartColumn(x) ==
    LET checked == Then(CheckRowsWritten(x), LAMBDA y : {[y EXCEPT !.rg.nextCol = @ + 1]})
        closed == Then(checked, LAMBDA y : IF y.rg.cols = <<>> THEN {y} ELSE CloseColumn(y, Len(y.rg.cols)))
    IN Then(closed, LAMBDA y : {[y EXCEPT !.rg.cols = Append(@, NewColumn(y.rg.nextCol))]})

FlushWithFooter(x, final) ==
    IF x.werr THEN {Failed(x)} ELSE IF x.flushed THEN {x}
    ELSE Record(Then(Then(Then(EndGroup(x), WriteBloomFilters), LAMBDA y : WritePageIndex(y, final)),
                     WriteFooter))

\* Close: the final footer, then the sink is closed whether or not that failed.
CloseFile(x) ==
    UNION {{y, [SinkFails(y) EXCEPT !.werr = TRUE]} : y \in FlushWithFooter([x EXCEPT !.open = FALSE], TRUE)}

-----------------------------------------------------------------------------
\* The call ends in one of S; MaxFaults bounds what fails at the sink.
Outcome(S) ==
    \E x \in S :
        /\ x.faults <= MaxFaults
        /\ f' = [x EXCEPT !.err = FALSE]
        /\ broken' = (broken \/ x.err)
        /\ UNCHANGED colFailed

\* AppendRowGroup, AppendBufferedRowGroup: the row group before is closed.
AppendRowGroup(buffered) ==
    /\ f.open /\ Len(f.meta) < MaxGroups
    /\ Outcome(AppendGroup(f, buffered))

Serial == ~f.rg.nil /\ ~f.rg.closed /\ ~f.rg.buffered

\* A call on columns ends in one of S; its error is returned and not recorded by the file writer.
ColumnOutcome(S) ==
    \E x \in S :
        /\ x.faults <= MaxFaults
        /\ f' = [x EXCEPT !.err = FALSE]
        /\ colFailed' = (colFailed \/ x.faults > f.faults)
        /\ UNCHANGED broken

NextColumn ==
    /\ Serial /\ f.rg.nextCol < NumCols
    /\ ColumnOutcome(StartColumn(f))

\* The column writers that the application may use: the current one of a serial row group, all of a buffered one.
Usable == {c \in 1 .. (IF f.rg.nil THEN 0 ELSE Len(f.rg.cols)) : ~f.rg.cols[c].closed /\ ~f.rg.closed}

\* WriteBatch of a column writer.
WriteRow(c) ==
    /\ c \in Usable /\ f.rg.cols[c].rows < MaxRows
    /\ f' = [f EXCEPT !.rg.cols[c].rows = @ + 1]
    /\ UNCHANGED <<broken, colFailed>>

\* The application closes a column writer itself.
CloseColumnWriter(c) ==
    /\ c \in Usable
    /\ ColumnOutcome(CloseColumn(f, c))

\* The application closes the row group itself.
CloseRowGroup ==
    /\ ~f.rg.nil
    /\ Outcome(CloseGroup(f))

\* The pair is in the next footer; if none is due, f.late records that.
AppendKeyValueMetadata ==
    /\ f.open /\ f.kv < MaxKV /\ ~f.werr
    /\ f' = [f EXCEPT !.kv = @ + 1, !.late = @ \/ f.flushed]
    /\ UNCHANGED <<broken, colFailed>>

Flush ==
    /\ f.open
    /\ Outcome(FlushWithFooter(f, FALSE))

Close ==
    /\ f.open
    /\ Outcome(CloseFile(f))

Next ==
    \/ \E b \in Modes : AppendRowGroup(b)
    \/ NextColumn
    \/ \E c \in 1 .. NumCols : WriteRow(c) \/ CloseColumnWriter(c)
    \/ CloseRowGroup
    \/ AppendKeyValueMetadata
    \/ Flush
    \/ Close

Spec == Init /\ [][Next]_vars

-----------------------------------------------------------------------------
Footers == {p \in DOMAIN f.sink : f.sink[p].kind = "footer"}

Closed == ~f.open /\ ~f.werr

LastFooter == f.sink[Len(f.sink)]

\* Every footer, also one written in between, can be read: the offsets of its row groups, page indexes and Bloom
\* filters lead to the blocks before it that were written for them. (An application that has seen a column or
\* NextColumn fail and closes the file all the same gets a footer too.)
FootersLead ==
    ~colFailed =>
        \A p \in Footers : \A i \in DOMAIN f.sink[p].meta :
            LET m == f.sink[p].meta[i]
                leadsTo(at, kind) == at \in 1 .. p - 1 /\ f.sink[at].kind = kind /\ f.sink[at].group = i
            IN /\ \A c \in 1 .. NumCols : leadsTo(m.at[c], "chunk") /\ f.sink[m.at[c]].col = c
               /\ Filtered => leadsTo(m.bloom, "bloom")
               /\ Indexed /\ HasPages(f, i) => leadsTo(m.index, "index")

\* Every footer leads to the blocks of its row groups, and after a Close without error the last block is a footer
\* that lists every row group appended and holds the key-value metadata, and NumRows is the number of rows it
\* announces. (Pairs appended right after FlushWithFooter, with no row group after them, are not written:
\* footerFlushed stays set.)
FooterWhole ==
    /\ FootersLead
    /\ Closed =>
        /\ LastFooter.kind = "footer" /\ Len(LastFooter.meta) = Len(f.meta)
        /\ f.late \/ LastFooter.kv = f.kv
        /\ \A i \in DOMAIN f.meta : LastFooter.meta[i] = f.meta[i]
        /\ LET sum[i \in 0 .. Len(f.meta)] == IF i = 0 THEN 0 ELSE sum[i - 1] + LastFooter.meta[i].rows
           IN f.nrows = sum[Len(f.meta)]

\* A row group has as many rows in each column as its metadata says; Close refuses any other. (In a serial row
\* group a count of 0 stands for one not yet known, so empty columns ahead of the first row are accepted.)
RowsAgree ==
    \A p \in Footers : \A i \in DOMAIN f.sink[p].meta :
        LET m == f.sink[p].meta[i]
            rows(c) == f.sink[m.at[c]].rows
        IN \A c \in 1 .. NumCols : m.at[c] # 0 =>
               rows(c) = m.rows \/ \A d \in 1 .. c : m.at[d] # 0 => rows(d) = 0

\* Once a row group could not be closed, or the file writer has returned an error, no footer is written any more:
\* the file cannot be taken for a complete one.
NoFooterAfterFailure == [][broken => Footers' = Footers]_vars

=============================================================================
