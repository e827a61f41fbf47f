---------------------------- MODULE RecordReader ----------------------------
(***************************************************************************)
(* The record reader of a Parquet file (parquet/pqarrow/file_reader.go):   *)
(* Next and Read take a batch from every column, in turn or with one       *)
(* goroutine per column, and put the columns into a record; SeekToRow      *)
(* moves every column.  A column is the row it will read next              *)
(* (ColumnChunk looks inside), and its reads and seeks may fail.           *)
(***************************************************************************)
EXTENDS Integers, Sequences, FiniteSets

CONSTANTS
    NumCols,   \* columns read
    NumRows,   \* rows of the row groups read
    Batch,     \* batchSize
    MaxSeeks,  \* bound: calls of SeekToRow
    MaxFaults  \* bound: columns that fail to read or to seek

Cols == 1 .. NumCols

\* One worker per column.
ColumnWorkers == Cols

\* A column of which nothing was read.
Unread == [from |-> 0, n |-> 0]

\* cur is nil.
NoRecord == <<>>

VARIABLES
    pos,        \* per column: the row it reads next
    rerr,       \* the reader's err: none, eof or io
    cur,        \* the record handed out: per column its first row and number of rows
    got,        \* cols of the call: what was read of each column
    rpc,        \* of the caller: idle, serial, send, wait, panicked
    ridx,       \* the column the caller is at
    rch, closed, errch, rcancelled,  \* the channels and the context of a parallel call
    rwpc, wcol,  \* per worker: where it is, and its column
    ret,        \* what the last Next or Read returned: none, batch, eof or io
    row,        \* where the next batch should begin: after the last one, or where a seek went
    tainted,    \* a call failed, and no seek has succeeded since
    stale,      \* a seek has left err as it was, and no call has set it since
    rparallel,  \* Props.Parallel
    seeks, faults

work == <<got, ridx, rch, closed, errch, rcancelled, rwpc, wcol>>
recVars == <<pos, rerr, cur, rpc, ret, row, tainted, stale, rparallel, seeks, faults, work>>

RecordInit ==
    /\ pos = [c \in Cols |-> 0] /\ rerr = "none" /\ cur = NoRecord
    /\ rpc = "idle" /\ ridx = 1 /\ got = [c \in Cols |-> Unread]
    /\ rch = <<>> /\ closed = FALSE /\ errch = <<>> /\ rcancelled = FALSE
    /\ rwpc = [w \in ColumnWorkers |-> "gone"] /\ wcol = [w \in ColumnWorkers |-> 1]
    /\ ret = "none" /\ row = 0 /\ tainted = FALSE /\ stale = FALSE /\ rparallel \in BOOLEAN /\ seeks = 0 /\ faults = 0

-----------------------------------------------------------------------------
Least(a, b) == IF a < b THEN a ELSE b

\* readField: NextBatch of column c gives its next rows, none at the end, or fails, before or after it has moved.
ReadField(c, result) ==
    LET n == Least(Batch, NumRows - pos[c])
    IN \/ /\ n > 0 /\ result = "ok"
          /\ pos' = [pos EXCEPT ![c] = @ + n]
          /\ got' = [got EXCEPT ![c] = [from |-> pos[c], n |-> n]]
          /\ faults' = faults
       \/ /\ n = 0 /\ result = "eof"
          /\ UNCHANGED <<pos, got, faults>>
       \/ /\ faults < MaxFaults /\ result = "io"
          /\ \E moved \in {0, n} : pos' = [pos EXCEPT ![c] = @ + moved]
          /\ faults' = faults + 1
          /\ UNCHANGED got

\* next returns false with e.
Fail(e) ==
    /\ rerr' = e /\ ret' = e /\ rpc' = "idle" /\ stale' = FALSE
    /\ tainted' = (tainted \/ e = "io")
    /\ UNCHANGED <<cur, row>>

\* NewRecordBatch has the rows of the first column and panics if a column has fewer.
Deliver(e) ==
    /\ rerr' = e /\ stale' = (stale /\ e # "none")
    /\ IF \A c \in Cols : got[c].n >= got[1].n
       THEN rpc' = "idle" /\ cur' = got /\ ret' = "batch" /\ row' = row + Least(Batch, NumRows - row)
       ELSE rpc' = "panicked" /\ UNCHANGED <<cur, ret, row>>
    /\ UNCHANGED tainted

Start ==
    /\ got' = [c \in Cols |-> Unread] /\ ridx' = 1
    /\ rpc' = IF rparallel THEN "send" ELSE "serial"
    /\ rch' = <<>> /\ closed' = FALSE /\ errch' = <<>> /\ rcancelled' = FALSE
    /\ rwpc' = [w \in ColumnWorkers |-> IF rparallel THEN "select" ELSE "gone"]
    /\ UNCHANGED <<wcol, ret>>

\* Next is over once err is set, also by the end of the file.
Next_ ==
    /\ rpc = "idle"
    /\ cur' = NoRecord
    /\ IF rerr = "none" THEN Start ELSE ret' = rerr /\ UNCHANGED <<rpc, work>>
    /\ UNCHANGED <<pos, rerr, row, tainted, stale, rparallel, seeks, faults>>

\* Read tries again.
Read ==
    /\ rpc = "idle"
    /\ cur' = NoRecord
    /\ Start
    /\ UNCHANGED <<pos, rerr, row, tainted, stale, rparallel, seeks, faults>>

\* SeekToRow: every column seeks, whatever becomes of the others; one that fails stays or is at the row. err stays.
SeekToRow ==
    /\ rpc = "idle" /\ seeks < MaxSeeks
    /\ \E r \in 0 .. NumRows - 1, failed \in SUBSET Cols : \E stay \in SUBSET failed :
        /\ faults + Cardinality(failed) <= MaxFaults
        /\ pos' = [c \in Cols |-> IF c \in stay THEN pos[c] ELSE r]
        /\ faults' = faults + Cardinality(failed)
        /\ tainted' = (failed # {})
        /\ row' = r
    /\ cur' = NoRecord /\ ret' = "none" /\ seeks' = seeks + 1 /\ stale' = (rerr # "none")
    /\ UNCHANGED <<rerr, rparallel, rpc, work>>

\* A row out of range only drops the record.
SeekOutside ==
    /\ rpc = "idle" /\ seeks < MaxSeeks
    /\ cur' = NoRecord /\ ret' = "none" /\ seeks' = seeks + 1
    /\ UNCHANGED <<pos, rerr, row, tainted, stale, rparallel, faults, rpc, work>>

-----------------------------------------------------------------------------
\* A serial call reads the columns in turn, up to the first that fails, and leaves an older err alone.
ReadSerial ==
    /\ rpc = "serial" /\ ridx <= NumCols
    /\ \E result \in {"ok", "eof", "io"} :
        /\ ReadField(ridx, result)
        /\ IF result # "ok" THEN Fail(result) /\ UNCHANGED ridx
           ELSE /\ ridx' = ridx + 1
                /\ UNCHANGED <<rerr, rpc, ret, cur, row, tainted, stale>>
    /\ UNCHANGED <<rch, closed, errch, rcancelled, rwpc, wcol, seeks, rparallel>>

SerialDone ==
    /\ rpc = "serial" /\ ridx > NumCols
    /\ Deliver(rerr)
    /\ UNCHANGED <<pos, rparallel, seeks, faults, work>>

\* A parallel call hands out the columns; the channel has room for all.
SendColumn ==
    /\ rpc = "send" /\ ridx <= NumCols /\ Len(rch) < NumCols
    /\ rch' = Append(rch, ridx) /\ ridx' = ridx + 1
    /\ UNCHANGED <<pos, rerr, cur, rpc, ret, row, tainted, stale, rparallel, seeks, faults, got, closed, errch, rcancelled, rwpc, wcol>>

CloseChannel ==
    /\ rpc = "send" /\ ridx > NumCols
    /\ closed' = TRUE /\ rpc' = "wait"
    /\ UNCHANGED <<pos, rerr, cur, ret, row, tainted, stale, rparallel, seeks, faults, got, ridx, rch, errch, rcancelled, rwpc, wcol>>

\* A worker takes a column; ctx.Done may win the select as well.
Take(w) ==
    /\ rwpc[w] = "select" /\ rch # <<>>
    /\ wcol' = [wcol EXCEPT ![w] = Head(rch)] /\ rch' = Tail(rch)
    /\ rwpc' = [rwpc EXCEPT ![w] = "read"]
    /\ UNCHANGED <<pos, rerr, cur, rpc, ret, row, tainted, stale, rparallel, seeks, faults, got, ridx, closed, errch, rcancelled>>

Leave(w) ==
    /\ rwpc[w] = "select" /\ (rcancelled \/ (closed /\ rch = <<>>))
    /\ rwpc' = [rwpc EXCEPT ![w] = "gone"]
    /\ UNCHANGED <<pos, rerr, cur, rpc, ret, row, tainted, stale, rparallel, seeks, faults, got, ridx, rch, closed, errch, rcancelled, wcol>>

\* Mutant of Worker: an error is not reported.
WorkerLosesError(w) ==
    /\ rwpc[w] = "read"
    /\ \E result \in {"ok", "eof", "io"} :
        /\ ReadField(wcol[w], result)
        /\ rwpc' = [rwpc EXCEPT ![w] = IF result = "ok" THEN "select" ELSE "gone"]
        /\ errch' = errch
    /\ UNCHANGED <<rerr, cur, rpc, ret, row, tainted, stale, rparallel, seeks, ridx, rch, closed, rcancelled, wcol>>

\* An error goes to errch, which has room for one of every worker; the worker then cancels the others and ends.
ColumnWorker(w) ==
    /\ rwpc[w] = "read"
    /\ \E result \in {"ok", "eof", "io"} :
        /\ ReadField(wcol[w], result)
        /\ rwpc' = [rwpc EXCEPT ![w] = IF result = "ok" THEN "select" ELSE "cancel"]
        /\ errch' = IF result = "ok" THEN errch ELSE Append(errch, result)
    /\ UNCHANGED <<rerr, cur, rpc, ret, row, tainted, stale, rparallel, seeks, ridx, rch, closed, rcancelled, wcol>>

Cancel(w) ==
    /\ rwpc[w] = "cancel"
    /\ rcancelled' = TRUE
    /\ rwpc' = [rwpc EXCEPT ![w] = "gone"]
    /\ UNCHANGED <<pos, rerr, cur, rpc, ret, row, tainted, stale, rparallel, seeks, faults, got, ridx, rch, closed, errch, wcol>>

\* wg.Wait is over: the first error reported is the reader's, or there is none any more.
CollectColumns ==
    /\ rpc = "wait" /\ \A w \in ColumnWorkers : rwpc[w] = "gone"
    /\ IF errch = <<>> THEN Deliver("none") ELSE Fail(errch[1])
    /\ UNCHANGED <<pos, rparallel, seeks, faults, work>>

Internal ==
    \/ ReadSerial \/ SerialDone \/ SendColumn \/ CloseChannel \/ CollectColumns
    \/ \E w \in ColumnWorkers : Take(w) \/ Leave(w) \/ ColumnWorker(w) \/ Cancel(w)

RecordNext == Next_ \/ Read \/ SeekToRow \/ SeekOutside \/ Internal

RecordSpec == RecordInit /\ [][RecordNext]_recVars /\ WF_recVars(Internal)

-----------------------------------------------------------------------------
\* As long as no call has failed, or since a seek has succeeded, a record has the same rows of every column, the
\* ones after the last record or from the row sought, and the batch is full but for the last; so NewRecordBatch,
\* given columns of equal length, does not panic.
Aligned ==
    ~tainted =>
        /\ rpc # "panicked"
        /\ cur # NoRecord => \A c \in Cols :
               /\ cur[c].n > 0 /\ cur[c].from + cur[c].n = row /\ cur[c].n = cur[1].n
               /\ cur[c].n = Batch \/ row = NumRows

\* The end is reported only when every row has been delivered. (SeekToRow does not clear err: after a seek from the
\* end Read goes on from the row, but Next reports the end again, until a Read has come to a new result.)
EofIsEnd == ret = "eof" /\ ~tainted /\ ~stale => row = NumRows

\* The columns of a record are the same rows, those after the last record or from the row
\* sought, so that NewRecordBatch does not panic, and the end is reported only when every
\* row was delivered: recordReader.Next, Read and SeekToRow.
RecordsAligned == Aligned /\ EofIsEnd

\* Next and Read return, whichever workers leave early.
RecordsReturn == rpc \in {"serial", "send", "wait"} ~> rpc \in {"idle", "panicked"}
=============================================================================
