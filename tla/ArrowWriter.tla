---------------------------- MODULE ArrowWriter -----------------------------
(***************************************************************************)
(* pqarrow.FileWriter on top of file.Writer: records, tables and single    *)
(* columns are broken up into row groups and written column by column.     *)
(* The row group writer of the arrow writer (rgw) is the one of the file   *)
(* writer, f.rg, and every write to the file is one of FileWriter's.       *)
(*                                                                         *)
(* Rows are numbered in the order in which the application hands them in;  *)
(* columns are flat and of one chunk (NestedColumns has the others).  One  *)
(* element of a record may be one that the leaf writer refuses.  A call    *)
(* maps the writer to those it may become, a panic among them.  An         *)
(* application that has seen an error makes no call but Close.             *)
(***************************************************************************)
EXTENDS FileWriter

CONSTANTS
    MaxRowGroupLength,  \* WriterProperties.MaxRowGroupLength
    Sizes,              \* the numbers of rows of a record or table
    ChunkSizes,         \* the chunk sizes given to WriteTable
    MaxCalls,           \* bound: calls of the application, Close apart
    Mixed               \* WriteBuffered also follows Write, WriteTable, NewRowGroup and WriteColumnData

VARIABLES
    aw,   \* the arrow writer: colIdx, closed, and per row group the rows in each column
    app   \* the application: calls, rows handed in and rows acknowledged, what it has seen

awVars == <<vars, aw, app>>

ArrowInit ==
    /\ Init
    /\ aw = [colIdx |-> 0, closed |-> FALSE, data |-> <<>>]
    /\ app = [calls |-> 0, tried |-> 0, sent |-> 0, failed |-> FALSE, panicked |-> FALSE, excused |-> FALSE,
              byColumn |-> FALSE]

Lesser(m, n) == IF m < n THEN m ELSE n

-----------------------------------------------------------------------------
\* The writer at the start of a call.
Entry == [f |-> f, broken |-> broken, colFailed |-> colFailed, err |-> FALSE, panic |-> FALSE,
          colIdx |-> aw.colIdx, closed |-> aw.closed, data |-> aw.data]

Panics(y) == [y EXCEPT !.err = TRUE, !.panic = TRUE]

\* A step of the file writer or of the row group, and one of a column, within the call.
OfFile(y, S) == {[y EXCEPT !.f = [x EXCEPT !.err = FALSE], !.err = x.err, !.broken = @ \/ x.err] : x \in S}
OfColumn(y, S) ==
    {[y EXCEPT !.f = [x EXCEPT !.err = FALSE], !.err = x.err, !.colFailed = @ \/ x.faults > y.f.faults] : x \in S}

CloseCurrent(y) == IF y.f.rg.nil THEN {y} ELSE OfFile(y, CloseGroup(y.f))

\* Mutant of NewRowGroupChecked: colIdx stays where the last row group left it.
NewRowGroupKeepsIdx(y, buffered) ==
    Then(Then(CloseCurrent(y), LAMBDA z : OfFile(z, AppendGroup(z.f, buffered))),
         LAMBDA z : {[z EXCEPT !.data = Append(@, [c \in 1 .. NumCols |-> <<>>])]})

\* NewRowGroupChecked, NewBufferedRowGroupChecked
NewRowGroupChecked(y, buffered) ==
    Then(Then(CloseCurrent(y), LAMBDA z : OfFile(z, AppendGroup(z.f, buffered))),
         LAMBDA z : {[z EXCEPT !.colIdx = 0, !.data = Append(@, [c \in 1 .. NumCols |-> <<>>])]})

\* The column writer of a leaf: Column(i) of a buffered row group, NextColumn of a serial one, which
\* has no column writers once it is closed and no metadata after its last column.
TakeColumn(y, i) ==
    IF y.f.rg.buffered THEN {IF y.f.rg.closed \/ i > NumCols THEN Failed(y) ELSE y}
    ELSE IF y.f.rg.closed THEN {Panics(y)}
    ELSE Then(OfColumn(y, CheckRowsWritten(y.f)),
              LAMBDA z : IF z.f.rg.nextCol = NumCols THEN {Panics(z)} ELSE OfColumn(z, StartColumn(z.f)))

\* A record or table: its rows are those after first; refused is a place <<column, row>> in it, or none.
NoPlace == <<0, 0>>
Rec(first, n, refused) == [first |-> first, n |-> n, refused |-> refused]

\* The column writer of a leaf takes size rows of the record's column c, or refuses the one it cannot write.
WriteLeaf(y, rec, c, i, offset, size) ==
    LET k == IF y.f.rg.buffered THEN i ELSE Len(y.f.rg.cols)
    IN IF rec.refused[1] = c /\ rec.refused[2] \in offset + 1 .. offset + size THEN Failed(y)
       ELSE [y EXCEPT !.f.rg.cols[k].rows = @ + size,
                      !.data[Len(y.data)][y.f.rg.cols[k].col] = @ \o [r \in 1 .. size |-> rec.first + offset + r]]

\* WriteColumnChunked of column c of the record, size rows from offset. colIdx moves on before the
\* column writer is asked for, and an empty column is not looked up in the manifest.
WriteColumnChunked(y, rec, c, offset, size) ==
    LET i == IF rec.n = 0 THEN 1 ELSE y.colIdx + 1
    IN IF rec.n # 0 /\ y.colIdx >= NumCols THEN {Failed(y)}
       ELSE Then(TakeColumn([y EXCEPT !.colIdx = @ + 1], i),
                 LAMBDA z : {WriteLeaf(z, rec, c, i, offset, size)})

\* writeRecordBatchColumns, writeRecordBatchRange
WriteRange(y, rec, offset, size) ==
    LET upto[c \in 0 .. NumCols] ==
            IF c = 0 THEN {y} ELSE Then(upto[c - 1], LAMBDA z : WriteColumnChunked(z, rec, c, offset, size))
    IN upto[NumCols]

CloseArrow(y) ==
    IF y.closed THEN {y}
    ELSE Then(CloseCurrent([y EXCEPT !.closed = TRUE]), LAMBDA z : OfFile(z, CloseFile(z.f)))

\* A failed call closes the writer, whatever comes of that, and returns its own error.
OrClose(S) ==
    UNION {IF y.err /\ ~y.panic THEN {Failed(z) : z \in CloseArrow([y EXCEPT !.err = FALSE])} ELSE {y} : y \in S}

\* A row group of a record, and one of a table: they differ in what is followed by Close.
RecordGroup(y, rec, offset, size) ==
    Then(NewRowGroupChecked(y, FALSE), LAMBDA z : OrClose(WriteRange(z, rec, offset, size)))
TableGroup(y, rec, offset, size) ==
    OrClose(Then(NewRowGroupChecked(y, FALSE), LAMBDA z : WriteRange(z, rec, offset, size)))

\* Row groups of length rows and a last one with what is left; at least one.
EachGroup(y, rec, length, isTable) ==
    LET group(z, k) ==
            LET size == Lesser(length, rec.n - k * length)
            IN IF isTable THEN TableGroup(z, rec, k * length, size) ELSE RecordGroup(z, rec, k * length, size)
        upto[k \in 0 .. rec.n] == IF k = 0 THEN group(y, 0) ELSE Then(upto[k - 1], LAMBDA z : group(z, k))
    IN upto[IF rec.n = 0 THEN 0 ELSE (rec.n - 1) \div length]

Reset(y) == [y EXCEPT !.colIdx = 0]

Write(y, rec) == Then(EachGroup(y, rec, MaxRowGroupLength, FALSE), LAMBDA z : CloseCurrent(Reset(z)))

WriteTable(y, rec, chunkSize) == EachGroup(y, rec, Lesser(chunkSize, MaxRowGroupLength), TRUE)

\* The rest of a record goes to row groups of their own, after the current one has taken what fits.
SpillOver(y, rec, fits) ==
    LET from(k) == fits + (k - 1) * MaxRowGroupLength
        upto[k \in 0 .. rec.n] ==
            IF k = 0 THEN OrClose(WriteRange(y, rec, 0, fits))
            ELSE Then(Then(upto[k - 1], LAMBDA z : NewRowGroupChecked(z, TRUE)),
                      LAMBDA z : OrClose(WriteRange(z, rec, from(k), Lesser(MaxRowGroupLength, rec.n - from(k)))))
    IN upto[(rec.n - fits + MaxRowGroupLength - 1) \div MaxRowGroupLength]

WriteBuffered(y, rec) ==
    Then(Then(IF y.f.rg.nil THEN NewRowGroupChecked(y, TRUE) ELSE OfColumn(y, CheckRowsWritten(y.f)),
              LAMBDA z : LET fits == MaxRowGroupLength - z.f.rg.nrows
                         IN IF rec.n <= fits THEN OrClose(WriteRange(z, rec, 0, rec.n)) ELSE SpillOver(z, rec, fits)),
         LAMBDA z : {Reset(z)})

-----------------------------------------------------------------------------
\* The call ends in one of S. It hands in the rows of rec, and acknowledges them unless it is one for a column
\* and others are still to come. The application has no right to a call that is given an element to refuse, or
\* that ends a row group some of whose columns are missing.
Returns(S, rec, byColumn) ==
    LET last == ~byColumn \/ aw.colIdx + 1 = NumCols
        unfinished == aw.colIdx \in 1 .. NumCols - 1 \/ (~f.rg.nil /\ f.rg.nextCol < NumCols)
    IN \E y \in S :
        /\ y.f.faults <= MaxFaults
        /\ f' = y.f /\ broken' = y.broken /\ colFailed' = y.colFailed
        /\ aw' = [colIdx |-> y.colIdx, closed |-> y.closed, data |-> y.data]
        /\ app' = [app EXCEPT !.calls = @ + 1, !.failed = @ \/ y.err, !.panicked = y.panic, !.byColumn = byColumn,
                              !.tried = IF @ < app.sent + rec.n THEN app.sent + rec.n ELSE @,
                              !.sent = IF y.err \/ ~last THEN @ ELSE @ + rec.n,
                              !.excused = @ \/ rec.refused # NoPlace \/ (~byColumn /\ unfinished)]

Ready == ~app.failed /\ ~aw.closed /\ app.calls < MaxCalls

Records ==
    UNION {{Rec(app.sent, n, p) : p \in {NoPlace} \cup (1 .. NumCols) \X (1 .. n)} : n \in Sizes}

NoRows == Rec(app.sent, 0, NoPlace)

StartRowGroup(buffered) ==
    /\ Ready
    /\ Returns(NewRowGroupChecked(Entry, buffered), NoRows, FALSE)

WriteRecord ==
    /\ Ready
    /\ \E rec \in Records : Returns(Write(Entry, rec), rec, FALSE)

WriteWholeTable ==
    /\ Ready
    /\ \E rec \in Records, size \in ChunkSizes : Returns(WriteTable(Entry, rec, size), rec, FALSE)

WriteBufferedRecord ==
    /\ Ready
    /\ Mixed \/ f.rg.nil \/ (~f.rg.nil /\ f.rg.buffered /\ ~app.byColumn)
    /\ \E rec \in Records : Returns(WriteBuffered(Entry, rec), rec, FALSE)

\* WriteColumnData: the columns of a record one after the other, into a row group that was started for them.
WriteColumnData ==
    /\ Ready /\ ~f.rg.nil /\ ~f.rg.closed /\ aw.colIdx < NumCols
    /\ aw.data[Len(aw.data)][aw.colIdx + 1] = <<>>
    /\ \E rec \in Records :
        /\ IF aw.colIdx = 0 THEN rec.n <= MaxRowGroupLength ELSE rec.n = app.tried - app.sent
        /\ Returns(WriteColumnChunked(Entry, rec, aw.colIdx + 1, 0, rec.n), rec, TRUE)

CloseWriter ==
    /\ ~aw.closed /\ ~app.panicked
    /\ Returns(CloseArrow(Entry), NoRows, FALSE)

ArrowNext ==
    \/ \E b \in Modes : StartRowGroup(b)
    \/ WriteRecord \/ WriteWholeTable \/ WriteBufferedRecord \/ WriteColumnData
    \/ CloseWriter

ArrowSpec == ArrowInit /\ [][ArrowNext]_awVars

-----------------------------------------------------------------------------
\* Rows 1 to n, in order
Upto(n) == [i \in 1 .. n |-> i]

\* The rows of column c in the first k row groups
Column(c, k) ==
    LET rows[g \in 0 .. k] == IF g = 0 THEN <<>> ELSE rows[g - 1] \o aw.data[g][c]
    IN rows[k]

\* A file has the rows of Write, WriteBuffered, WriteTable and WriteColumnData in the order of the calls, each
\* in all columns and in row groups within MaxRowGroupLength: all of them when no call failed, and whole rows
\* without a gap when a call was refused and has closed the file. No sequence of calls panics, and none fails that
\* has a right to succeed. (After a failing write to the sink inside a column see FootersLead.)
RecordsKept ==
    /\ ~app.panicked
    /\ app.failed => app.excused \/ f.faults > 0
    /\ ~colFailed =>
        \A p \in Footers :
            LET meta == f.sink[p].meta
            IN /\ \E n \in 0 .. app.tried : \A c \in 1 .. NumCols : Column(c, Len(meta)) = Upto(n)
               /\ \A g \in DOMAIN meta : Len(aw.data[g][1]) = meta[g].rows /\ meta[g].rows <= MaxRowGroupLength
    /\ aw.closed /\ ~app.failed => LastFooter.kind = "footer" /\ Column(1, Len(LastFooter.meta)) = Upto(app.sent)
=============================================================================
