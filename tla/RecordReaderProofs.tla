------------------------- MODULE RecordReaderProofs -------------------------
(***************************************************************************)
(* The columns of a record are the same rows, and the end is reported only *)
(* after the last row, for any number of columns and rows and any batch    *)
(* size, read in turn or by a goroutine per column, with any column        *)
(* failing at any call and seeks in between.                               *)
(*                                                                         *)
(* The channel is first in, first out, so that the columns handed to       *)
(* workers are those below ridx - Len(rch).  Each of them is being read,   *)
(* was read, or has left an error behind; a worker that left early saw a   *)
(* cancelled context, which again is an error.  So a call without an error *)
(* has read every column once, from the row where all of them stood.       *)
(***************************************************************************)
EXTENDS RecordReader, TLAPS

\* There is a column, and a batch has rows (GetRecordReader; BatchSize is positive).
Sizes == NumCols \in Nat \ {0} /\ NumRows \in Nat /\ Batch \in Nat \ {0}

Types ==
    /\ pos \in [Cols -> 0 .. NumRows] /\ row \in 0 .. NumRows
    /\ got \in [Cols -> [from : Nat, n : Nat]]
    /\ ridx \in 1 .. NumCols + 1 /\ rch \in Seq(Cols) /\ errch \in Seq({"eof", "io"})
    /\ wcol \in [ColumnWorkers -> Cols] /\ rwpc \in [ColumnWorkers -> {"gone", "select", "read", "cancel"}]
    /\ tainted \in BOOLEAN /\ stale \in BOOLEAN

\* The rows of the batch at row, and what a column is before and after its part of it is read.
Rows == Least(Batch, NumRows - row)
Untouched(c) == pos[c] = row /\ got[c] = Unread
Done(c) == Rows > 0 /\ pos[c] = row + Rows /\ got[c] = [from |-> row, n |-> Rows]

HandedOut(c) == c < ridx - Len(rch)
Parallel == rpc \in {"send", "wait"}

\* The columns in the channel follow each other, no two workers have the same one, and a
\* worker is gone because of an error or because all columns were taken.
Control ==
    /\ ~Parallel => \A w \in ColumnWorkers : rwpc[w] = "gone"
    /\ Parallel =>
        /\ closed => rpc = "wait"
        /\ rpc = "wait" => ridx = NumCols + 1
        /\ Len(rch) < ridx
        /\ \A i \in 1 .. Len(rch) : rch[i] = ridx - Len(rch) - 1 + i
        /\ \A w \in ColumnWorkers : rwpc[w] = "read" => HandedOut(wcol[w])
        /\ \A v, w \in ColumnWorkers : rwpc[v] = "read" /\ rwpc[w] = "read" /\ wcol[v] = wcol[w] => v = w
        /\ rcancelled => Len(errch) > 0
        /\ \A w \in ColumnWorkers : rwpc[w] = "cancel" => Len(errch) > 0
        /\ \A w \in ColumnWorkers : rwpc[w] = "gone" => Len(errch) > 0 \/ (rpc = "wait" /\ Len(rch) = 0)

\* Where the columns are as long as no call has failed.
Columns ==
    ~tainted =>
        /\ rpc = "idle" => \A c \in Cols : pos[c] = row
        /\ rpc = "serial" => \A c \in Cols : IF c < ridx THEN Done(c) ELSE Untouched(c)
        /\ Parallel =>
            /\ \A c \in Cols : ~HandedOut(c) => Untouched(c)
            /\ \A w \in ColumnWorkers : rwpc[w] = "read" => Untouched(wcol[w])
            /\ \A c \in Cols : HandedOut(c) =>
                   \/ \E w \in ColumnWorkers : rwpc[w] = "read" /\ wcol[w] = c
                   \/ Done(c)
                   \/ Len(errch) > 0 /\ (Rows = 0 => pos[c] = row)
            /\ \A i \in 1 .. Len(errch) : errch[i] = "eof" => Rows = 0

\* An err that is neither old nor of a failed call is the end of the rows.
Ends ==
    /\ rerr = "eof" /\ ~tainted /\ ~stale => row = NumRows
    /\ EofIsEnd
    /\ Parallel \/ rpc = "serial" => cur = NoRecord

RecordInv == Types /\ Control /\ Columns /\ Ends /\ Aligned

-----------------------------------------------------------------------------
LEMMA BatchRows ==
    ASSUME Sizes, Types
    PROVE  /\ Rows \in Nat /\ row + Rows \in 0 .. NumRows
           /\ Rows = 0 <=> row = NumRows
           /\ Rows = Batch \/ row + Rows = NumRows
BY DEF Sizes, Types, Rows, Least

\* A read of column c moves no other column, and from row it gives the rows of the batch.
LEMMA FieldRead ==
    ASSUME Sizes, Types, NEW c \in Cols, NEW result \in {"ok", "eof", "io"}, ReadField(c, result)
    PROVE  /\ pos' \in [Cols -> 0 .. NumRows] /\ got' \in [Cols -> [from : Nat, n : Nat]]
           /\ \A d \in Cols : d # c => pos'[d] = pos[d] /\ got'[d] = got[d]
           /\ Untouched(c) =>
                /\ result = "ok" => /\ Rows > 0 /\ pos'[c] = row + Rows
                                    /\ got'[c] = [from |-> row, n |-> Rows]
                /\ result = "eof" => Rows = 0 /\ pos' = pos /\ got' = got
                /\ Rows = 0 => pos'[c] = row
<1> DEFINE n == Least(Batch, NumRows - pos[c])
<1>1. /\ n \in Nat /\ pos[c] \in 0 .. NumRows /\ pos[c] + n \in 0 .. NumRows
      /\ pos \in [Cols -> 0 .. NumRows] /\ got \in [Cols -> [from : Nat, n : Nat]]
  <2>1. pos \in [Cols -> 0 .. NumRows] /\ got \in [Cols -> [from : Nat, n : Nat]]
    BY Zenon DEF Types
  <2>2. pos[c] \in 0 .. NumRows
    BY <2>1, Zenon
  <2>3. n \in Nat /\ pos[c] + n \in 0 .. NumRows
    BY <2>2 DEF Sizes, Least
  <2> QED
    BY <2>1, <2>2, <2>3, Zenon
<1>2. pos[c] = row => n = Rows
  BY DEF Rows
<1>3. \/ /\ n > 0 /\ result = "ok"
         /\ pos' = [pos EXCEPT ![c] = @ + n]
         /\ got' = [got EXCEPT ![c] = [from |-> pos[c], n |-> n]]
      \/ /\ n = 0 /\ result = "eof" /\ pos' = pos /\ got' = got
      \/ /\ result = "io" /\ got' = got
         /\ \E moved \in {0, n} : pos' = [pos EXCEPT ![c] = @ + moved]
  BY DEF ReadField
<1> HIDE DEF n
<1>4. CASE result = "ok"
  <2>1. [from |-> pos[c], n |-> n] \in [from : Nat, n : Nat]
    BY <1>1
  <2> QED
    BY <1>1, <1>2, <1>3, <1>4, <2>1 DEF Untouched
<1>5. CASE result = "eof"
  BY <1>1, <1>2, <1>3, <1>5 DEF Untouched
<1>6. CASE result = "io"
  <2>1. PICK moved \in {0, n} : pos' = [pos EXCEPT ![c] = @ + moved]
    BY <1>3, <1>6
  <2>2. pos[c] + moved \in 0 .. NumRows
    BY <1>1
  <2> QED
    BY <1>1, <1>2, <1>3, <1>6, <2>1, <2>2 DEF Untouched
<1> QED
  BY <1>4, <1>5, <1>6

LEMMA InitRecordInv == ASSUME Sizes, RecordInit PROVE RecordInv
<1>1. Types
  <2>1. pos \in [Cols -> 0 .. NumRows] /\ row \in 0 .. NumRows /\ ridx \in 1 .. NumCols + 1
    BY DEF Sizes, RecordInit
  <2>2. got \in [Cols -> [from : Nat, n : Nat]]
    BY DEF RecordInit, Unread
  <2>3. wcol \in [ColumnWorkers -> Cols]
    BY DEF Sizes, RecordInit, Cols
  <2>4. rch \in Seq(Cols) /\ errch \in Seq({"eof", "io"})
    BY DEF RecordInit
  <2>5. /\ rwpc \in [ColumnWorkers -> {"gone", "select", "read", "cancel"}]
        /\ tainted \in BOOLEAN /\ stale \in BOOLEAN
    BY Zenon DEF RecordInit
  <2> QED
    BY <2>1, <2>2, <2>3, <2>4, <2>5 DEF Types
<1>2. Control /\ Columns /\ Ends /\ Aligned
  BY DEF RecordInit, Control, Columns, Ends, EofIsEnd, Aligned, Parallel
<1> QED
  BY <1>1, <1>2 DEF RecordInv

\* Start leaves the columns where they are.
LEMMA StartStep ==
    ASSUME Sizes, RecordInv, rpc = "idle", cur' = NoRecord, Start,
           UNCHANGED <<pos, rerr, row, tainted, stale>>
    PROVE  RecordInv'
<1>1. /\ got' = [c \in Cols |-> Unread] /\ ridx' = 1 /\ rch' = <<>> /\ closed' = FALSE
      /\ errch' = <<>> /\ rcancelled' = FALSE /\ UNCHANGED <<wcol, ret>>
      /\ rpc' \in {"send", "serial"} /\ rwpc' \in [ColumnWorkers -> {"select", "gone"}]
      /\ rpc' = "send" => \A w \in ColumnWorkers : rwpc'[w] = "select"
      /\ rpc' = "serial" => \A w \in ColumnWorkers : rwpc'[w] = "gone"
  BY DEF Start
<1>2. Types'
  BY <1>1 DEF RecordInv, Types, Unread, Sizes
<1>3. Control'
  BY <1>1 DEF Control, Parallel, HandedOut
<1>4. Columns'
  <2>1. \A c \in Cols : ~tainted => Untouched(c)'
    BY <1>1 DEF RecordInv, Columns, Untouched
  <2>2. \A c \in Cols : ~(c < 1) /\ ~HandedOut(c)'
    BY <1>1 DEF HandedOut, Cols
  <2> QED
    BY <1>1, <2>1, <2>2 DEF Columns, Parallel
<1>5. Ends' /\ Aligned'
  BY <1>1 DEF RecordInv, Ends, EofIsEnd, Aligned, Parallel
<1> QED
  BY <1>2, <1>3, <1>4, <1>5 DEF RecordInv

LEMMA CallStep ==
    ASSUME Sizes, RecordInv, Next_ \/ Read \/ SeekToRow \/ SeekOutside
    PROVE  RecordInv'
<1>1. rpc = "idle" /\ cur' = NoRecord
  BY DEF Next_, Read, SeekToRow, SeekOutside
<1>2. CASE /\ Start
           /\ UNCHANGED <<pos, rerr, row, tainted, stale>>
  BY <1>1, <1>2, StartStep
<1>3. CASE /\ ret' \in {rerr, "none"}
           /\ UNCHANGED <<pos, rerr, row, tainted, stale, rpc, work>>
  <2>1. Types' /\ Control' /\ Columns'
    BY <1>3 DEF RecordInv, work, Types, Control, Columns, Parallel, HandedOut, Untouched, Done, Rows
  <2>2. Ends' /\ Aligned'
    BY <1>1, <1>3 DEF RecordInv, Ends, EofIsEnd, Aligned, Parallel
  <2> QED
    BY <2>1, <2>2 DEF RecordInv
<1>4. CASE SeekToRow
  <2>1. PICK r \in 0 .. NumRows - 1, failed \in SUBSET Cols : \E stay \in SUBSET failed :
            /\ pos' = [c \in Cols |-> IF c \in stay THEN pos[c] ELSE r]
            /\ tainted' = (failed # {}) /\ row' = r
    BY <1>4, Zenon DEF SeekToRow
  <2>2. /\ ret' = "none" /\ stale' = (rerr # "none") /\ UNCHANGED <<rerr, rpc, work>>
    BY <1>4 DEF SeekToRow
  <2>3. Types'
    BY <2>1, <2>2 DEF RecordInv, Types, work, Sizes
  <2>4. Control'
    BY <2>2 DEF RecordInv, work, Control, Parallel, HandedOut
  <2>5. Columns' /\ Ends' /\ Aligned'
    BY <1>1, <2>1, <2>2, Zenon DEF Columns, Ends, EofIsEnd, Aligned, Parallel
  <2> QED
    BY <2>3, <2>4, <2>5 DEF RecordInv
<1> QED
  BY <1>2, <1>3, <1>4 DEF Next_, Read, SeekOutside

\* The end of a call that has read every column.
LEMMA DeliverStep ==
    ASSUME Sizes, RecordInv, NEW e, Deliver(e), rpc \in {"serial", "wait"},
           e = "none" \/ (rpc = "serial" /\ e = rerr),
           ~tainted => \A c \in Cols : Done(c),
           \A w \in ColumnWorkers : rwpc[w] = "gone",
           UNCHANGED <<pos, work>>
    PROVE  RecordInv'
<1>1. /\ rerr' = e /\ stale' = (stale /\ e # "none") /\ tainted' = tainted
      /\ \/ rpc' = "idle" /\ cur' = got /\ ret' = "batch" /\ row' = row + Rows
         \/ /\ ~ \A c \in Cols : got[c].n >= got[1].n
            /\ rpc' = "panicked" /\ UNCHANGED <<cur, ret, row>>
  BY DEF Deliver, Rows
<1>2. /\ Rows \in Nat /\ row \in 0 .. NumRows /\ row + Rows \in 0 .. NumRows
      /\ Rows = 0 <=> row = NumRows
      /\ Rows = Batch \/ row + Rows = NumRows
  BY BatchRows DEF RecordInv, Types
<1>3. 1 \in Cols
  BY DEF Sizes, Cols
<1>4. ~tainted => \A c \in Cols : /\ Rows > 0 /\ pos[c] = row + Rows
                                  /\ got[c].from = row /\ got[c].n = Rows
  BY DEF Done
<1>5. ~tainted => rpc' = "idle" /\ cur' = got /\ ret' = "batch" /\ row' = row + Rows
  BY <1>1, <1>2, <1>3, <1>4
<1> HIDE DEF Rows
<1>6. Types'
  BY <1>1, <1>2, Zenon DEF RecordInv, Types, work
<1>7. Control'
  BY <1>1 DEF work, Control, Parallel
<1>8. Columns'
  BY <1>1, <1>4, <1>5 DEF work, Columns, Parallel
<1>9. Ends'
  <2>1. rerr' = "eof" /\ ~tainted /\ ~stale' => row' = NumRows
    BY <1>1, <1>2, <1>3, <1>4 DEF RecordInv, Types, Ends
  <2>2. EofIsEnd'
    BY <1>1, <1>5 DEF EofIsEnd
  <2> QED
    BY <1>1, <2>1, <2>2 DEF Ends, Parallel
<1>10. Aligned'
  BY <1>1, <1>2, <1>3, <1>4, <1>5 DEF Aligned
<1> QED
  BY <1>6, <1>7, <1>8, <1>9, <1>10 DEF RecordInv

\* The end of a call that fails.
LEMMA FailStep ==
    ASSUME Sizes, RecordInv, NEW e \in {"eof", "io"}, Fail(e), Parallel \/ rpc = "serial",
           ~tainted /\ e = "eof" => Rows = 0 /\ \A c \in Cols : pos'[c] = row,
           pos' \in [Cols -> 0 .. NumRows], got' \in [Cols -> [from : Nat, n : Nat]],
           \A w \in ColumnWorkers : rwpc[w] = "gone",
           UNCHANGED <<ridx, rch, closed, errch, rcancelled, rwpc, wcol>>
    PROVE  RecordInv'
<1>1. /\ rerr' = e /\ ret' = e /\ rpc' = "idle" /\ stale' = FALSE
      /\ tainted' = (tainted \/ e = "io") /\ UNCHANGED <<cur, row>>
  BY DEF Fail
<1>2. Rows = 0 <=> row = NumRows
  BY BatchRows DEF RecordInv
<1>3. cur = NoRecord
  BY DEF RecordInv, Ends
<1>4. Types'
  BY <1>1, Zenon DEF RecordInv, Types
<1>5. Control'
  BY <1>1 DEF Control, Parallel
<1>6. Columns'
  BY <1>1, Zenon DEF Columns, Parallel
<1>7. Ends' /\ Aligned'
  BY <1>1, <1>2, <1>3, Zenon DEF Ends, EofIsEnd, Aligned, Parallel
<1> QED
  BY <1>4, <1>5, <1>6, <1>7 DEF RecordInv

LEMMA SerialStep ==
    ASSUME Sizes, RecordInv, ReadSerial \/ SerialDone
    PROVE  RecordInv'
<1>0. /\ rpc = "serial" /\ Types /\ 1 \in Cols /\ \A w \in ColumnWorkers : rwpc[w] = "gone"
      /\ ~tainted => \A c \in Cols : IF c < ridx THEN Done(c) ELSE Untouched(c)
  BY DEF RecordInv, ReadSerial, SerialDone, Control, Parallel, Columns, Sizes, Cols
<1>1. CASE SerialDone
  <2>1. \A c \in Cols : c < ridx
    BY <1>0, <1>1 DEF SerialDone, Cols, Types, Sizes
  <2> QED
    BY <1>0, <1>1, <2>1, DeliverStep DEF SerialDone
<1>2. CASE ReadSerial
  <2>1. PICK result \in {"ok", "eof", "io"} :
            /\ ReadField(ridx, result)
            /\ \/ result # "ok" /\ Fail(result) /\ UNCHANGED ridx
               \/ /\ result = "ok" /\ ridx' = ridx + 1
                  /\ UNCHANGED <<rerr, rpc, ret, cur, row, tainted, stale>>
    BY <1>2 DEF ReadSerial
  <2>2. ridx \in Cols /\ UNCHANGED <<rch, closed, errch, rcancelled, rwpc, wcol>>
    BY <1>0, <1>2 DEF ReadSerial, Types, Cols, Sizes
  <2>3. /\ pos' \in [Cols -> 0 .. NumRows] /\ got' \in [Cols -> [from : Nat, n : Nat]]
        /\ \A d \in Cols : d # ridx => pos'[d] = pos[d] /\ got'[d] = got[d]
        /\ Untouched(ridx) =>
             /\ result = "ok" => /\ Rows > 0 /\ pos'[ridx] = row + Rows
                                 /\ got'[ridx] = [from |-> row, n |-> Rows]
             /\ result = "eof" => Rows = 0 /\ pos' = pos /\ got' = got
    BY <1>0, <2>1, <2>2, FieldRead
  <2>4. ridx \in Nat /\ \A c \in Cols : c \in Nat
    BY <2>2 DEF Cols
  <2>5. CASE result # "ok"
    <3>1. ~tainted /\ result = "eof" => Rows = 0 /\ \A c \in Cols : pos'[c] = row
      <4> SUFFICES ASSUME ~tainted, result = "eof"
                   PROVE  Rows = 0 /\ \A c \in Cols : pos'[c] = row
        OBVIOUS
      <4>1. Untouched(ridx)
        BY <1>0, <2>2, <2>4
      <4>2. Rows = 0 /\ pos' = pos
        BY <2>3, <4>1
      <4>3. \A c \in Cols : ~(c < ridx)
        BY <1>0, <4>2 DEF Done
      <4> QED
        BY <1>0, <4>2, <4>3 DEF Untouched
    <3> QED
      BY <1>0, <2>1, <2>2, <2>3, <2>5, <3>1, FailStep
  <2>6. CASE result = "ok"
    <3>1. ridx' = ridx + 1 /\ UNCHANGED <<rerr, rpc, ret, cur, row, tainted, stale>>
      BY <2>1, <2>6
    <3>2. Types'
      <4>1. ridx' \in 1 .. NumCols + 1
        BY <2>2, <3>1 DEF Cols, Sizes
      <4> QED
        BY <1>0, <2>2, <2>3, <3>1, <4>1, Zenon DEF Types
    <3>3. Control'
      BY <1>0, <2>2, <3>1 DEF Control, Parallel
    <3>4. Columns'
      <4>1. \A c \in Cols : c < ridx' <=> c < ridx \/ c = ridx
        BY <2>4, <3>1
      <4> QED
        BY <1>0, <2>2, <2>3, <2>4, <2>6, <3>1, <4>1 DEF Columns, Parallel, Done, Untouched, Rows
    <3>5. Ends' /\ Aligned'
      BY <1>0, <3>1 DEF RecordInv, Ends, EofIsEnd, Aligned, Parallel
    <3> QED
      BY <3>2, <3>3, <3>4, <3>5 DEF RecordInv
  <2> QED
    BY <2>5, <2>6
<1> QED
  BY <1>1, <1>2

\* SendColumn, CloseChannel, Leave and Cancel read no column.
LEMMA ChannelStep ==
    ASSUME Sizes, RecordInv,
           SendColumn \/ CloseChannel \/ \E w \in ColumnWorkers : Leave(w) \/ Cancel(w)
    PROVE  RecordInv'
<1>0. Types /\ Control /\ Columns /\ Ends /\ Aligned
  BY DEF RecordInv
<1>a. UNCHANGED <<pos, rerr, cur, ret, row, tainted, stale, got, errch, wcol>>
  BY DEF SendColumn, CloseChannel, Leave, Cancel
<1>b. /\ ridx \in Nat /\ Len(rch) \in Nat /\ \A c \in Cols : c \in Nat
      /\ \A w \in ColumnWorkers : wcol[w] \in Cols
  <2>1. /\ ridx \in 1 .. NumCols + 1 /\ rch \in Seq(Cols)
        /\ wcol \in [ColumnWorkers -> Cols]
    BY <1>0, Zenon DEF Types
  <2>2. ridx \in Nat /\ \A c \in Cols : c \in Nat
    BY <2>1 DEF Cols, Sizes
  <2>3. Len(rch) \in Nat
    BY <2>1
  <2> QED
    BY <2>1, <2>2, <2>3, Zenon
<1>1. CASE SendColumn
  <2>1. /\ rpc = "send" /\ ridx \in Cols /\ ridx' = ridx + 1 /\ rch' = Append(rch, ridx)
        /\ UNCHANGED <<rpc, closed, rcancelled, rwpc>>
    BY <1>0, <1>1 DEF SendColumn, Types, Cols, Sizes
  <2>2. /\ Len(rch') = Len(rch) + 1 /\ rch' \in Seq(Cols)
        /\ \A i \in 1 .. Len(rch) : rch'[i] = rch[i]
        /\ rch'[Len(rch) + 1] = ridx
    BY <1>0, <2>1 DEF Types
  <2>3. \A c : HandedOut(c)' <=> HandedOut(c)
    BY <1>b, <2>1, <2>2 DEF HandedOut
  <2>4. Types'
    <3>1. ridx' \in 1 .. NumCols + 1
      BY <2>1 DEF Cols, Sizes
    <3> QED
      BY <1>0, <1>a, <2>1, <2>2, <3>1 DEF Types
  <2>5. Control'
    <3>0. Len(rch) < ridx /\ \A i \in 1 .. Len(rch) : rch[i] = ridx - Len(rch) - 1 + i
      BY <1>0, <2>1, Zenon DEF Control, Parallel
    <3>1. \A i \in 1 .. Len(rch') : rch'[i] = ridx' - Len(rch') - 1 + i
      BY <1>b, <2>1, <2>2, <3>0
    <3>2. Len(rch') < ridx'
      BY <1>b, <2>1, <2>2, <3>0
    <3> QED
      BY <1>0, <1>a, <2>1, <2>3, <3>1, <3>2 DEF Control, Parallel
  <2>6. Columns'
    BY <1>0, <1>a, <2>1, <2>3 DEF Columns, Parallel, Untouched, Done, Rows
  <2>7. Ends' /\ Aligned'
    BY <1>0, <1>a, <2>1 DEF Ends, EofIsEnd, Aligned, Parallel
  <2> QED
    BY <2>4, <2>5, <2>6, <2>7 DEF RecordInv
<1>2. CASE CloseChannel
  <2>1. /\ rpc = "send" /\ rpc' = "wait" /\ ridx = NumCols + 1
        /\ UNCHANGED <<ridx, rch, rcancelled, rwpc>>
    BY <1>0, <1>2 DEF CloseChannel, Types, Sizes
  <2>2. Types'
    BY <1>0, <1>a, <2>1, Zenon DEF Types
  <2>3. Control'
    BY <1>0, <1>a, <2>1 DEF Control, Parallel, HandedOut
  <2>4. Columns'
    BY <1>0, <1>a, <2>1 DEF Columns, Parallel, HandedOut, Untouched, Done, Rows
  <2>5. Ends' /\ Aligned'
    BY <1>0, <1>a, <2>1 DEF Ends, EofIsEnd, Aligned, Parallel
  <2> QED
    BY <2>2, <2>3, <2>4, <2>5 DEF RecordInv
<1>3. CASE \E w \in ColumnWorkers : Leave(w) \/ Cancel(w)
  <2>1. PICK w \in ColumnWorkers : Leave(w) \/ Cancel(w)
    BY <1>3
  <2>2. /\ rwpc[w] \in {"select", "cancel"} /\ rwpc' = [rwpc EXCEPT ![w] = "gone"]
        /\ UNCHANGED <<rpc, ridx, rch, closed>>
        /\ rwpc[w] = "select" => rcancelled' = rcancelled /\ (rcancelled \/ (closed /\ rch = <<>>))
    BY <2>1 DEF Leave, Cancel
  <2>3. Parallel
    BY <1>0, <2>2 DEF Control
  <2>4. \A v \in ColumnWorkers : rwpc'[v] = IF v = w THEN "gone" ELSE rwpc[v]
    BY <1>0, <2>2 DEF Types
  <2>5. Len(errch) > 0 \/ (rpc = "wait" /\ Len(rch) = 0)
    BY <1>0, <2>2, <2>3 DEF Control
  <2>6. Types'
    BY <1>0, <1>a, <2>2, Zenon DEF Types
  <2>7. Control'
    <3>1. rcancelled' => Len(errch) > 0
      BY <1>0, <2>2, <2>3, Zenon DEF Control
    <3> QED
      BY <1>0, <1>a, <2>2, <2>3, <2>4, <2>5, <3>1 DEF Control, Parallel, HandedOut
  <2>8. Columns'
    BY <1>0, <1>a, <2>2, <2>3, <2>4 DEF Columns, Parallel, HandedOut, Untouched, Done, Rows
  <2>9. Ends' /\ Aligned'
    BY <1>0, <1>a, <2>2 DEF Ends, EofIsEnd, Aligned, Parallel
  <2> QED
    BY <2>6, <2>7, <2>8, <2>9 DEF RecordInv
<1> QED
  BY <1>1, <1>2, <1>3

\* The column taken is the first one that was not.
LEMMA TakeStep ==
    ASSUME Sizes, RecordInv, NEW w \in ColumnWorkers, Take(w)
    PROVE  RecordInv'
<1>0. Types /\ Control /\ Columns /\ Ends /\ Aligned
  BY DEF RecordInv
<1>1. /\ rwpc[w] = "select" /\ rch # <<>> /\ wcol' = [wcol EXCEPT ![w] = Head(rch)] /\ rch' = Tail(rch)
      /\ rwpc' = [rwpc EXCEPT ![w] = "read"]
      /\ UNCHANGED <<pos, rerr, cur, rpc, ret, row, tainted, stale, got, ridx, closed, errch, rcancelled>>
  BY DEF Take
<1>2. Parallel
  BY <1>0, <1>1 DEF Control
<1>3. /\ Len(rch) > 0 /\ Len(rch) \in Nat /\ Len(rch') = Len(rch) - 1 /\ rch' \in Seq(Cols)
      /\ Head(rch) = rch[1] /\ Head(rch) \in Cols
      /\ \A i \in 1 .. Len(rch) - 1 : rch'[i] = rch[i + 1]
  <2>1. rch \in Seq(Cols)
    BY <1>0, Zenon DEF Types
  <2> QED
    BY <1>1, <2>1
<1>4. ridx \in Nat /\ \A c \in Cols : c \in Nat
  BY <1>0 DEF Types, Cols, Sizes
<1>5. Head(rch) = ridx - Len(rch)
  BY <1>0, <1>2, <1>3, <1>4 DEF Control
<1>6. \A c \in Cols : HandedOut(c)' <=> HandedOut(c) \/ c = Head(rch)
  BY <1>1, <1>3, <1>4, <1>5 DEF HandedOut
<1>7. ~HandedOut(Head(rch))
  BY <1>3, <1>4, <1>5 DEF HandedOut
<1>8. /\ rwpc'[w] = "read" /\ wcol'[w] = Head(rch)
      /\ \A v \in ColumnWorkers : v # w => rwpc'[v] = rwpc[v] /\ wcol'[v] = wcol[v]
      /\ \A v \in ColumnWorkers : wcol[v] \in Cols
  <2>1. /\ wcol \in [ColumnWorkers -> Cols]
        /\ rwpc \in [ColumnWorkers -> {"gone", "select", "read", "cancel"}]
    BY <1>0, Zenon DEF Types
  <2> QED
    BY <1>1, <2>1, Zenon
<1>9. Types'
  BY <1>0, <1>1, <1>3, Zenon DEF Types
<1>10. Control'
  <2>1. Len(rch') < ridx' /\ \A i \in 1 .. Len(rch') : rch'[i] = ridx' - Len(rch') - 1 + i
    BY <1>0, <1>1, <1>2, <1>3, <1>4 DEF Control
  <2>2. \A v \in ColumnWorkers : rwpc'[v] = "read" => HandedOut(wcol[v])'
    <3> SUFFICES ASSUME NEW v \in ColumnWorkers, rwpc'[v] = "read" PROVE HandedOut(wcol[v])'
      OBVIOUS
    <3>1. CASE v = w
      <4>1. Head(rch) < ridx' - Len(rch')
        BY <1>3, <1>6, Zenon DEF HandedOut
      <4> QED
        BY <1>8, <3>1, <4>1, Zenon DEF HandedOut
    <3>2. CASE v # w
      <4>1. rwpc[v] = "read" /\ wcol'[v] = wcol[v] /\ wcol[v] \in Cols
        BY <1>8, <3>2, Zenon
      <4>2. HandedOut(wcol[v])
        BY <1>0, <1>2, <4>1, Zenon DEF Control
      <4>3. wcol[v] < ridx' - Len(rch')
        BY <1>6, <4>1, <4>2, Zenon DEF HandedOut
      <4> QED
        BY <4>1, <4>3, Zenon DEF HandedOut
    <3> QED
      BY <3>1, <3>2
  <2>3. \A u, v \in ColumnWorkers : rwpc'[u] = "read" /\ rwpc'[v] = "read" /\ wcol'[u] = wcol'[v] => u = v
    <3>1. \A v \in ColumnWorkers : rwpc[v] = "read" => wcol[v] # Head(rch)
      BY <1>0, <1>2, <1>7, Zenon DEF Control
    <3>2. \A u, v \in ColumnWorkers : rwpc[u] = "read" /\ rwpc[v] = "read" /\ wcol[u] = wcol[v] => u = v
      BY <1>0, <1>2, Zenon DEF Control
    <3> QED
      BY <1>8, <3>1, <3>2, Zenon
  <2>4. \A v \in ColumnWorkers : rwpc'[v] = "gone" => Len(errch) > 0 \/ (rpc = "wait" /\ Len(rch') = 0)
    <3>1. \A v \in ColumnWorkers : rwpc'[v] = "gone" => rwpc[v] = "gone"
      <4> SUFFICES ASSUME NEW v \in ColumnWorkers, rwpc'[v] = "gone" PROVE rwpc[v] = "gone"
        OBVIOUS
      <4>1. v # w
        BY <1>8
      <4> QED
        BY <1>8, <4>1, Zenon
    <3>2. \A v \in ColumnWorkers : rwpc[v] = "gone" => Len(errch) > 0 \/ (rpc = "wait" /\ Len(rch) = 0)
      BY <1>0, <1>2, Zenon DEF Control
    <3>3. Len(rch) # 0
      BY <1>3
    <3> QED
      BY <3>1, <3>2, <3>3, Zenon
  <2>5. \A v \in ColumnWorkers : rwpc'[v] = "cancel" => Len(errch) > 0
    BY <1>0, <1>2, <1>8 DEF Control
  <2> QED
    BY <1>0, <1>1, <1>2, <2>1, <2>2, <2>3, <2>4, <2>5 DEF Control, Parallel, HandedOut
<1>11. Columns'
  <2> SUFFICES ASSUME ~tainted PROVE Columns'
    BY <1>1 DEF Columns
  <2>1. /\ \A c \in Cols : ~HandedOut(c) => Untouched(c)
        /\ \A v \in ColumnWorkers : rwpc[v] = "read" => Untouched(wcol[v])
        /\ \A c \in Cols : HandedOut(c) =>
               \/ \E v \in ColumnWorkers : rwpc[v] = "read" /\ wcol[v] = c
               \/ Done(c)
               \/ Len(errch) > 0 /\ (Rows = 0 => pos[c] = row)
        /\ \A i \in 1 .. Len(errch) : errch[i] = "eof" => Rows = 0
    BY <1>0, <1>2, Zenon DEF Columns
  <2>2. \A c : (Untouched(c)' <=> Untouched(c)) /\ (Done(c)' <=> Done(c)) /\ Rows' = Rows
    BY <1>1 DEF Untouched, Done, Rows
  <2>3. \A c \in Cols : ~HandedOut(c)' => Untouched(c)'
    BY <1>6, <2>1, <2>2
  <2>4. \A v \in ColumnWorkers : rwpc'[v] = "read" => Untouched(wcol[v])'
    <3>1. Untouched(Head(rch))
      BY <1>3, <1>7, <2>1, Zenon
    <3>2. \A v \in ColumnWorkers : rwpc'[v] = "read" => Untouched(wcol'[v])
      BY <1>8, <2>1, <3>1, Zenon
    <3> QED
      BY <1>1, <3>2, Zenon DEF Untouched
  <2>5. \A c \in Cols : HandedOut(c)' =>
               \/ \E v \in ColumnWorkers : rwpc'[v] = "read" /\ wcol'[v] = c
               \/ Done(c)'
               \/ Len(errch) > 0 /\ (Rows' = 0 => pos[c] = row)
    BY <1>1, <1>6, <1>8, <2>1, <2>2
  <2>6. Parallel' /\ rpc \notin {"idle", "serial"}
    BY <1>1, <1>2 DEF Parallel
  <2> QED
    BY <1>1, <2>1, <2>2, <2>3, <2>4, <2>5, <2>6, Zenon DEF Columns
<1>12. Ends' /\ Aligned'
  BY <1>0, <1>1, Zenon DEF Ends, EofIsEnd, Aligned, Parallel
<1> QED
  BY <1>9, <1>10, <1>11, <1>12 DEF RecordInv

LEMMA WorkerStep ==
    ASSUME Sizes, RecordInv, NEW w \in ColumnWorkers, ColumnWorker(w)
    PROVE  RecordInv'
<1>0. Types /\ Control /\ Columns /\ Ends /\ Aligned
  BY DEF RecordInv
<1>1. PICK result \in {"ok", "eof", "io"} :
          /\ ReadField(wcol[w], result)
          /\ rwpc' = [rwpc EXCEPT ![w] = IF result = "ok" THEN "select" ELSE "cancel"]
          /\ errch' = IF result = "ok" THEN errch ELSE Append(errch, result)
  BY Zenon DEF ColumnWorker
<1>2. /\ rwpc[w] = "read"
      /\ UNCHANGED <<rerr, cur, rpc, ret, row, tainted, stale, ridx, rch, closed, rcancelled, wcol>>
  BY Zenon DEF ColumnWorker
<1>3. Parallel /\ Parallel'
  BY <1>0, <1>2, Zenon DEF Control, Parallel
<1>4. wcol[w] \in Cols /\ \A v \in ColumnWorkers :
          rwpc'[v] = IF v = w THEN IF result = "ok" THEN "select" ELSE "cancel" ELSE rwpc[v]
  BY <1>0, <1>1 DEF Types
<1>5. /\ pos' \in [Cols -> 0 .. NumRows] /\ got' \in [Cols -> [from : Nat, n : Nat]]
      /\ \A d \in Cols : d # wcol[w] => pos'[d] = pos[d] /\ got'[d] = got[d]
      /\ Untouched(wcol[w]) =>
           /\ result = "ok" => /\ Rows > 0 /\ pos'[wcol[w]] = row + Rows
                               /\ got'[wcol[w]] = [from |-> row, n |-> Rows]
           /\ result = "eof" => Rows = 0 /\ pos' = pos /\ got' = got
           /\ Rows = 0 => pos'[wcol[w]] = row
  BY <1>0, <1>1, <1>4, FieldRead
<1>6. /\ errch' \in Seq({"eof", "io"}) /\ Len(errch) \in Nat
      /\ result = "ok" => errch' = errch
      /\ result # "ok" => /\ Len(errch') = Len(errch) + 1 /\ errch'[Len(errch) + 1] = result
                          /\ \A i \in 1 .. Len(errch) : errch'[i] = errch[i]
  BY <1>0, <1>1 DEF Types
<1>7. Len(errch) > 0 \/ result # "ok" => Len(errch') > 0
  BY <1>6
<1>8. Types'
  BY <1>0, <1>1, <1>2, <1>5, <1>6, Zenon DEF Types
<1>9. Control'
  BY <1>0, <1>2, <1>3, <1>4, <1>7, Zenon DEF Control, Parallel, HandedOut
<1>10. Columns'
  <2> SUFFICES ASSUME ~tainted PROVE Columns'
    BY <1>2, Zenon DEF Columns
  <2>1. /\ \A c \in Cols : ~HandedOut(c) => Untouched(c)
        /\ \A v \in ColumnWorkers : rwpc[v] = "read" => Untouched(wcol[v])
        /\ \A c \in Cols : HandedOut(c) =>
               \/ \E v \in ColumnWorkers : rwpc[v] = "read" /\ wcol[v] = c
               \/ Done(c)
               \/ Len(errch) > 0 /\ (Rows = 0 => pos[c] = row)
        /\ \A i \in 1 .. Len(errch) : errch[i] = "eof" => Rows = 0
    BY <1>0, <1>3 DEF Columns
  <2>2. Rows' = Rows /\ \A c : HandedOut(c)' <=> HandedOut(c)
    BY <1>2 DEF Rows, HandedOut
  <2>3. \A c \in Cols : c # wcol[w] => (Untouched(c)' <=> Untouched(c)) /\ (Done(c)' <=> Done(c))
    BY <1>2, <1>5, <2>2, Zenon DEF Untouched, Done
  <2>4. HandedOut(wcol[w]) /\ \A v \in ColumnWorkers : v # w /\ rwpc[v] = "read" => wcol[v] # wcol[w]
    BY <1>0, <1>2, <1>3, Zenon DEF Control
  <2>5. \A c \in Cols : ~HandedOut(c)' => Untouched(c)'
    BY <2>1, <2>2, <2>3, <2>4
  <2>6. \A v \in ColumnWorkers : rwpc'[v] = "read" => Untouched(wcol[v])'
    <3>1. \A v \in ColumnWorkers : wcol[v] \in Cols /\ wcol' = wcol
      BY <1>0, <1>2 DEF Types
    <3>2. \A v \in ColumnWorkers : rwpc'[v] = "read" => v # w /\ rwpc[v] = "read"
      BY <1>4
    <3> QED
      BY <2>1, <2>3, <2>4, <3>1, <3>2 DEF Untouched
  <2>7. Done(wcol[w])' \/ (Len(errch') > 0 /\ (Rows = 0 => pos'[wcol[w]] = row))
    <3>1. Untouched(wcol[w])
      BY <1>2, <2>1
    <3> QED
      BY <1>2, <1>5, <1>7, <2>2, <3>1, Zenon DEF Done
  <2>8. \A c \in Cols : HandedOut(c)' =>
             \/ \E v \in ColumnWorkers : rwpc'[v] = "read" /\ wcol'[v] = c
             \/ Done(c)'
             \/ Len(errch') > 0 /\ (Rows' = 0 => pos'[c] = row')
    <3> SUFFICES ASSUME NEW c \in Cols, HandedOut(c), c # wcol[w]
                 PROVE  \/ \E v \in ColumnWorkers : rwpc'[v] = "read" /\ wcol'[v] = c
                        \/ Done(c)'
                        \/ Len(errch') > 0 /\ (Rows' = 0 => pos'[c] = row')
      BY <1>2, <2>2, <2>7
    <3>1. CASE \E v \in ColumnWorkers : rwpc[v] = "read" /\ wcol[v] = c
      <4>1. PICK v \in ColumnWorkers : rwpc[v] = "read" /\ wcol[v] = c
        BY <3>1
      <4>2. rwpc'[v] = "read" /\ wcol'[v] = c
        BY <1>2, <1>4, <4>1, Zenon
      <4> QED
        BY <4>2
    <3>2. CASE Done(c)
      BY <2>3, <3>2, Zenon
    <3>3. CASE Len(errch) > 0 /\ (Rows = 0 => pos[c] = row)
      BY <1>2, <1>5, <1>7, <2>2, <3>3
    <3> QED
      BY <2>1, <3>1, <3>2, <3>3, Zenon
  <2>9. \A i \in 1 .. Len(errch') : errch'[i] = "eof" => Rows' = 0
    <3>1. result = "eof" => Rows = 0
      BY <1>2, <1>5, <2>1
    <3>2. CASE result = "ok"
      BY <1>6, <2>1, <2>2, <3>2, Zenon
    <3>3. CASE result # "ok"
      <4> SUFFICES ASSUME NEW i \in 1 .. Len(errch'), errch'[i] = "eof" PROVE Rows = 0
        BY <2>2
      <4>1. i \in 1 .. Len(errch) \/ i = Len(errch) + 1
        BY <1>6, <3>3
      <4> QED
        BY <1>6, <2>1, <3>1, <3>3, <4>1, Zenon
    <3> QED
      BY <3>2, <3>3, Zenon
  <2>10. rpc \notin {"idle", "serial"}
    BY <1>3, Zenon DEF Parallel
  <2> QED
    BY <1>2, <1>3, <2>5, <2>6, <2>8, <2>9, <2>10 DEF Columns
<1>11. Ends' /\ Aligned'
  BY <1>0, <1>2, Zenon DEF Ends, EofIsEnd, Aligned, Parallel
<1> QED
  BY <1>8, <1>9, <1>10, <1>11 DEF RecordInv

\* All workers are gone: without an error every column was read, and if the first error is the
\* end, no column has moved.
LEMMA CollectStep ==
    ASSUME Sizes, RecordInv, CollectColumns
    PROVE  RecordInv'
<1>0. Types /\ Control /\ Columns /\ Ends /\ Aligned
  BY Zenon DEF RecordInv
<1>1. /\ rpc = "wait" /\ Parallel /\ \A w \in ColumnWorkers : rwpc[w] = "gone"
      /\ UNCHANGED <<pos, work>> /\ ridx = NumCols + 1
  BY <1>0 DEF CollectColumns, Parallel, Control
<1>2. /\ ridx \in Nat /\ Len(rch) \in Nat /\ \A c \in Cols : c \in Nat /\ c < NumCols + 1
      /\ 1 \in ColumnWorkers /\ Len(errch) \in Nat /\ (errch = <<>> <=> Len(errch) = 0)
  <2>1. ridx \in Nat /\ \A c \in Cols : c \in Nat /\ c < NumCols + 1
    BY <1>0 DEF Types, Cols, Sizes
  <2>2. 1 \in ColumnWorkers
    BY DEF ColumnWorkers, Cols, Sizes
  <2>3. Len(rch) \in Nat /\ Len(errch) \in Nat /\ (errch = <<>> <=> Len(errch) = 0)
    BY <1>0 DEF Types
  <2> QED
    BY <2>1, <2>2, <2>3
<1>3. ~tainted => \A c \in Cols : (~HandedOut(c) /\ Untouched(c)) \/ Done(c)
                                  \/ (Len(errch) > 0 /\ (Rows = 0 => pos[c] = row))
  BY <1>0, <1>1 DEF Columns
<1>4. CASE errch = <<>>
  <2>1. Len(rch) = 0 /\ \A c \in Cols : HandedOut(c)
    BY <1>0, <1>1, <1>2, <1>4 DEF Control, HandedOut
  <2>2. ~tainted => \A c \in Cols : Done(c)
    BY <1>2, <1>3, <1>4, <2>1
  <2>3. Deliver("none")
    BY <1>4 DEF CollectColumns
  <2> QED
    BY <1>1, <2>2, <2>3, DeliverStep
<1>5. CASE errch # <<>>
  <2>1. Fail(errch[1]) /\ 1 \in 1 .. Len(errch) /\ errch[1] \in {"eof", "io"}
    BY <1>0, <1>2, <1>5 DEF CollectColumns, Types
  <2>2. ~tainted /\ errch[1] = "eof" => Rows = 0
    BY <1>0, <1>1, <2>1 DEF Columns
  <2>3. ~tainted /\ Rows = 0 => \A c \in Cols : pos[c] = row
    BY <1>3 DEF Done, Untouched
  <2>4. /\ pos' \in [Cols -> 0 .. NumRows] /\ got' \in [Cols -> [from : Nat, n : Nat]]
        /\ UNCHANGED <<pos, ridx, rch, closed, errch, rcancelled, rwpc, wcol>>
    BY <1>0, <1>1 DEF Types, work
  <2> QED
    BY <1>1, <2>1, <2>2, <2>3, <2>4, FailStep
<1> QED
  BY <1>4, <1>5

LEMMA StepRecordInv == ASSUME Sizes, RecordInv, [RecordNext]_recVars PROVE RecordInv'
<1>1. CASE UNCHANGED recVars
  BY <1>1, Zenon DEF recVars, work, RecordInv, Types, Control, Columns, Ends, EofIsEnd, Aligned, Parallel, HandedOut,
              Untouched, Done, Rows
<1>2. CASE RecordNext
  BY <1>2, CallStep, SerialStep, ChannelStep, TakeStep, WorkerStep, CollectStep DEF RecordNext, Internal
<1> QED
  BY <1>1, <1>2, Zenon

\* For any number of columns and rows and any batch size: as long as no call of Next or Read has
\* failed since the last successful SeekToRow, a record has the same rows of every column, the
\* ones after the last record, NewRecordBatch does not panic, and Next and Read report the end
\* only when every row was delivered.
THEOREM RecordsStayAligned ==
    ASSUME Sizes PROVE RecordSpec => []RecordsAligned
<1>1. RecordInit => RecordInv
  BY InitRecordInv
<1>2. RecordInv /\ [RecordNext]_recVars => RecordInv'
  BY StepRecordInv
<1>3. RecordInv => RecordsAligned
  BY DEF RecordInv, Ends, RecordsAligned
<1> QED
  BY <1>1, <1>2, <1>3, PTL DEF RecordSpec
=============================================================================
