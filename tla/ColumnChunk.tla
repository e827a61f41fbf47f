---------------------------- MODULE ColumnChunk ----------------------------
(***************************************************************************)
(* Reading one column of a Parquet file, row by row and across row groups: *)
(* the page reader's position (serializedPageReader), the column chunk     *)
(* reader with its level and value decoders (columnChunkReader), the       *)
(* record reader that cuts levels into records (recordReader) and the leaf *)
(* reader that drives them (leafReader.LoadBatch, leafReader.SeekToRow).   *)
(*                                                                         *)
(* A level is a repetition and a definition level, each 0 or 1: a row      *)
(* starts where rep is 0, a value is stored where def is 1.  A decoder is  *)
(* the number of the level (or value) of the chunk it yields next.         *)
(***************************************************************************)
EXTENDS Integers, Sequences, SequencesExt, FiniteSets, FiniteSetsExt

CONSTANTS
    Files,          \* the files [kind, version, indexed, chunks], with bounds [seeks, reads] on the calls
    LevelBatch,     \* minLevelBatchSize
    BatchSizes      \* the sizes LoadBatch is called with

VARIABLES
    file,       \* the file being read
    pgr,        \* the page reader: [rg, page, firstRow, rowsSeen]; rg beyond the last: nil
    buf,        \* numBuffered and numDecoded: [n, done]
    dec,        \* the decoders of the current page: [rep, def, val]
    repBuf,     \* repLvlBuffer: its elements lv and its capacity
    pending,    \* the levels between levelsPos and levelsWritten
    atRecStart,
    pc,         \* idle, skip, records, loop, return or failed
    toSkip,     \* skipRows: the rows left to skip
    want, read, \* ReadRecords: the records asked for and read so far
    out,        \* the levels and values this LoadBatch produced
    call,       \* the call in progress or last made: [op, row, n]
    calls       \* how many calls of each kind were made

vars == <<file, pgr, buf, dec, repBuf, pending, atRecStart, pc, toSkip, want, read, out, call,
          calls>>

MaxRep   == file.kind = "repeated"
V2       == file.version = 2
Chunk    == file.chunks[pgr.rg]
HasMore  == pgr.rg <= Len(file.chunks)

PageStart(c, p)     == IF p = 1 THEN 1 ELSE c.ends[p - 1] + 1
PageLen(c, p)       == c.ends[p] - PageStart(c, p) + 1
\* How many of the levels of S start a row, how many hold a value
Starts(c, S)        == Cardinality({k \in S : c.rep[k] = 0})
Values(c, S)        == Cardinality({k \in S : c.def[k] = 1})

\* What Next adds to rowsSeen: a V1 page header has no number of rows.
PageCount(c, p)     ==
    IF V2 THEN Starts(c, PageStart(c, p) .. c.ends[p]) ELSE PageLen(c, p)
\* FirstRowIndex of the offset index
IndexFirstRow(c, p) == Starts(c, 1 .. PageStart(c, p) - 1)

NewPager(rg)        == [rg |-> rg, page |-> 0, firstRow |-> 0, rowsSeen |-> 0]

\* serializedPageReader.Next
CanNext == pgr.page < Len(Chunk.ends) /\ pgr.rowsSeen < Len(Chunk.rep)
Advance(q, c) ==
    [q EXCEPT !.page = @ + 1, !.firstRow = q.rowsSeen,
              !.rowsSeen = @ + PageCount(c, q.page + 1)]

\* serializedPageReader.SeekToPageWithRow: through the offset index, or page by page from
\* the first until rowsSeen reaches the row.
SeekPager(rg, c, row) ==
    LET Seen(p) == IF V2 THEN IndexFirstRow(c, p + 1) ELSE PageStart(c, p + 1) - 1
        pages   == DOMAIN c.ends
        p       == IF file.indexed THEN Max({i \in pages : IndexFirstRow(c, i) <= row})
                                   ELSE Min({i \in pages : Seen(i) >= row})
        before  == IF file.indexed THEN IndexFirstRow(c, p) ELSE Seen(p - 1)
    IN  Advance([NewPager(rg) EXCEPT !.page = p - 1, !.rowsSeen = before], c)

\* Mutant of Process: repLvlBuffer is kept with a V2 page too.
ProcessKeeps(q, c) ==
    LET first == PageStart(c, q.page)
    IN  /\ buf' = [n |-> PageLen(c, q.page), done |-> 0]
        /\ dec' = [rep |-> first, def |-> first, val |-> Values(c, 1 .. first - 1) + 1]
        /\ UNCHANGED repBuf

\* processPage of a data page: initLevelDecodersV1, initLevelDecodersV2, initDataDecoder
Process(q, c) ==
    LET first == PageStart(c, q.page)
    IN  /\ buf' = [n |-> PageLen(c, q.page), done |-> 0]
        /\ dec' = [rep |-> first, def |-> first, val |-> Values(c, 1 .. first - 1) + 1]
        /\ repBuf' = IF V2 /\ MaxRep THEN [repBuf EXCEPT !.lv = <<>>] ELSE repBuf

Exhausted == buf.n = 0 \/ buf.done = buf.n
Avail     == buf.n - buf.done

Init ==
    /\ file \in Files
    /\ pgr = NewPager(1)
    /\ buf = [n |-> 0, done |-> 0]
    /\ dec = [rep |-> 1, def |-> 1, val |-> 1]
    /\ repBuf = [lv |-> <<>>, cap |-> 0]
    /\ pending = <<>>
    /\ atRecStart = TRUE
    /\ pc = "idle"
    /\ toSkip = 0 /\ want = 0 /\ read = 0
    /\ out = [lv |-> <<>>, val |-> <<>>]
    /\ call = [op |-> "none", row |-> 0, n |-> 0]
    /\ calls = [seek |-> 0, read |-> 0]

\* readNewPage
TurnPage ==
    /\ Exhausted /\ CanNext
    /\ pgr' = Advance(pgr, Chunk)
    /\ Process(pgr', Chunk)

------------------------------------------------------------------------------
(* Seeking *)

\* The rows of the chunks before rg
RowsBefore(rg) ==
    Cardinality(UNION {{<<i, k>> : k \in {j \in DOMAIN file.chunks[i].rep : file.chunks[i].rep[j] = 0}}
                       : i \in 1 .. rg - 1})
TotalRows      == RowsBefore(Len(file.chunks) + 1)
\* FindChunkForRow
ChunkOf(row)   == Max({rg \in DOMAIN file.chunks : RowsBefore(rg) <= row})

\* leafReader.SeekToRow up to skipRows.  The page reader is replaced first.
SeekToRow(row) ==
    LET rg == ChunkOf(row)
        c  == file.chunks[rg]
        q  == SeekPager(rg, c, row - RowsBefore(rg))
    IN  /\ pc = "idle" /\ calls.seek < file.seeks
        /\ pgr' = q
        /\ Process(q, c)
        /\ toSkip' = row - RowsBefore(rg) - q.firstRow
        /\ pending' = <<>>
        /\ atRecStart' = TRUE
        /\ read' = 0
        /\ pc' = "skip"
        /\ call' = [op |-> "seek", row |-> row, n |-> 0]
        /\ calls' = [calls EXCEPT !.seek = @ + 1]
        /\ UNCHANGED <<file, want, out>>

\* The loop of skipRows: HasNext turns the page before toSkip is looked at.
SkipTurn ==
    /\ pc = "skip" /\ TurnPage
    /\ UNCHANGED <<file, pending, atRecStart, pc, toSkip, want, read, out, call, calls>>

SkipEnd ==
    /\ pc = "skip"
    /\ IF Exhausted THEN ~CanNext ELSE toSkip = 0
    /\ pc' = "idle"
    /\ UNCHANGED <<file, pgr, buf, dec, repBuf, pending, atRecStart, toSkip, want, read, out,
                   call, calls>>

\* k levels are read from the definition decoder and their values discarded.
Discard(k) ==
    /\ buf' = [buf EXCEPT !.done = @ + k]
    /\ dec' = [dec EXCEPT !.def = @ + k, !.val = @ + Values(Chunk, dec.def .. dec.def + k - 1)]

\* Without repetition levels a level is a row.
SkipFlat ==
    /\ pc = "skip" /\ ~Exhausted /\ toSkip > 0 /\ ~MaxRep
    /\ IF toSkip >= Avail
       THEN /\ toSkip' = toSkip - Avail
            /\ buf' = [buf EXCEPT !.done = buf.n]
            /\ UNCHANGED dec
       ELSE toSkip' = 0 /\ Discard(toSkip)
    /\ UNCHANGED <<file, pgr, repBuf, pending, atRecStart, pc, want, read, out, call, calls>>

\* getRepLvlBuffer and the decoding into it: a buffer that is large enough is written
\* to, and keeps its length.
Fill(lv) ==
    IF repBuf.cap < Len(lv)
    THEN [lv |-> lv, cap |-> Len(lv)]
    ELSE [repBuf EXCEPT !.lv = [i \in DOMAIN @ |-> IF i <= Len(lv) THEN lv[i] ELSE @[i]]]

\* With repetition levels those of the whole page are decoded, to find the row in them.
SkipRep ==
    LET c     == Chunk
        lv    == SubSeq(c.rep, dec.rep, c.ends[pgr.page])
        zeros == {i \in DOMAIN lv : lv[i] = 0}
        upTo  == {i \in zeros : Cardinality({j \in zeros : j < i}) = toSkip}
    IN  /\ pc = "skip" /\ ~Exhausted /\ toSkip > 0 /\ MaxRep
        /\ repBuf' = Fill(lv)
        /\ IF upTo = {}
           THEN /\ toSkip' = toSkip - Cardinality(zeros)
                /\ buf' = [n |-> 0, done |-> 0]
                /\ dec' = [dec EXCEPT !.rep = @ + Len(lv)]
           ELSE LET k == Min(upTo) - 1
                IN  /\ toSkip' = 0
                    /\ buf' = [buf EXCEPT !.done = @ + k]
                    /\ dec' = [rep |-> dec.rep + Len(lv), def |-> dec.def + k,
                               val |-> dec.val + Values(c, dec.def .. dec.def + k - 1)]
        /\ UNCHANGED <<file, pgr, pending, atRecStart, pc, want, read, out, call, calls>>

------------------------------------------------------------------------------
(* Reading *)

\* leafReader.LoadBatch
LoadBatch(n) ==
    /\ pc = "idle" /\ calls.read < file.reads
    /\ want' = n
    /\ out' = [lv |-> <<>>, val |-> <<>>]
    /\ pc' = IF HasMore THEN "records" ELSE "idle"
    /\ call' = [op |-> "read", n |-> n,
                row |-> call.row + (IF call.op = "read" THEN Min({call.n, TotalRows - call.row})
                                                        ELSE 0)]
    /\ calls' = [calls EXCEPT !.read = @ + 1]
    /\ UNCHANGED <<file, pgr, buf, dec, repBuf, pending, atRecStart, toSkip, read>>

\* Mutant of Delimit: the first level of a record ends it.
DelimitFirst(lv, n) ==
    LET ends == {i \in DOMAIN lv : lv[i].rep = 0 /\ i > 1}
        last == {i \in ends : Cardinality({j \in ends : j <= i}) = n}
    IN  IF last # {} THEN [take |-> Min(last) - 1, recs |-> n, atStart |-> TRUE]
                     ELSE [take |-> Len(lv), recs |-> Cardinality(ends), atStart |-> FALSE]

\* delimitRecords: the levels lv to consume for n records.  A record ends where the next
\* one starts, so a level with rep 0 ends one unless it is the first of its record.
Delimit(lv, n) ==
    LET ends == {i \in DOMAIN lv : lv[i].rep = 0 /\ (i > 1 \/ ~atRecStart)}
        last == {i \in ends : Cardinality({j \in ends : j <= i}) = n}
    IN  IF last # {} THEN [take |-> Min(last) - 1, recs |-> n, atStart |-> TRUE]
                     ELSE [take |-> Len(lv), recs |-> Cardinality(ends), atStart |-> FALSE]

\* Without repetition levels
Count(lv, n) ==
    LET k == Min({n, Len(lv)})
    IN  [take |-> k, recs |-> k, atStart |-> atRecStart]

\* ReadRecordData with lv the levels not yet consumed
ReadRecordData(lv, n, before) ==
    IF MaxRep /\ atRecStart /\ lv[1].rep # 0
    THEN pc' = "failed" /\ UNCHANGED <<buf, pending, atRecStart, read, out, dec>>
    ELSE LET d    == IF MaxRep THEN Delimit(lv, n) ELSE Count(lv, n)
             used == SubSeq(lv, 1, d.take)
             nval == Len(SelectSeq(used, LAMBDA l : l.def = 1))
         IN  /\ out' = [lv  |-> out.lv \o used,
                        val |-> out.val \o [i \in 1 .. nval |-> <<pgr.rg, dec.val + i - 1>>]]
             /\ dec' = [before EXCEPT !.val = @ + nval]
             /\ buf' = [buf EXCEPT !.done = @ + d.take]
             /\ pending' = SubSeq(lv, d.take + 1, Len(lv))
             /\ atRecStart' = d.atStart
             /\ read' = read + d.recs
             /\ pc' = "loop"

\* ReadRecords: first what is left of the levels read before
Records ==
    /\ pc = "records"
    /\ IF pending = <<>>
       THEN read' = 0 /\ pc' = "loop" /\ UNCHANGED <<buf, dec, pending, atRecStart, out>>
       ELSE ReadRecordData(pending, want, dec)
    /\ UNCHANGED <<file, pgr, repBuf, toSkip, want, call, calls>>

EnoughRead == atRecStart /\ read >= want

LoopTurn ==
    /\ pc = "loop" /\ ~EnoughRead /\ TurnPage
    /\ UNCHANGED <<file, pending, atRecStart, pc, toSkip, want, read, out, call, calls>>

\* The loop of ReadRecords ends.  At the end of the row group the record under way ends.
LoopEnd ==
    /\ pc = "loop"
    /\ EnoughRead \/ (Exhausted /\ ~CanNext)
    /\ read' = IF atRecStart THEN read ELSE read + 1
    /\ atRecStart' = TRUE
    /\ pc' = "return"
    /\ UNCHANGED <<file, pgr, buf, dec, repBuf, pending, toSkip, want, out, call, calls>>

\* readRepetitionLevels of k levels: from repLvlBuffer when it has elements
RepLevels(k) ==
    IF repBuf.lv # <<>>
    THEN SubSeq(repBuf.lv, buf.done + 1, Min({buf.done + k, Len(repBuf.lv)}))
    ELSE SubSeq(Chunk.rep, dec.rep, Min({dec.rep + k - 1, Chunk.ends[pgr.page]}))

\* The loop of ReadRecords reads a batch of levels and then the records in it.
LoopRead ==
    LET k    == Min({Avail, IF file.kind = "required" THEN want - read ELSE Max({LevelBatch, want})})
        reps == IF MaxRep THEN RepLevels(k) ELSE [i \in 1 .. k |-> 0]
        d    == [dec EXCEPT !.def = @ + k,
                            !.rep = IF MaxRep /\ repBuf.lv = <<>> THEN @ + Len(reps) ELSE @]
    IN  /\ pc = "loop" /\ ~EnoughRead /\ ~Exhausted
        /\ IF Len(reps) # k
           THEN pc' = "failed" /\ UNCHANGED <<buf, dec, pending, atRecStart, read, out>>
           ELSE ReadRecordData([i \in 1 .. k |-> [rep |-> reps[i], def |-> Chunk.def[dec.def + i - 1]]],
                               want - read, d)
        /\ UNCHANGED <<file, pgr, repBuf, toSkip, want, call, calls>>

\* Mutant of Return: the reader stays in the row group.
ReturnStays ==
    /\ pc = "return"
    /\ want' = want - read
    /\ pc' = IF want' > 0 THEN "records" ELSE "idle"
    /\ read' = 0
    /\ UNCHANGED <<file, pgr, buf, dec, repBuf, pending, atRecStart, toSkip, out, call, calls>>

\* Back in LoadBatch: a call that read nothing moves on to the next row group.
Return ==
    /\ pc = "return"
    /\ want' = want - read
    /\ IF read = 0
       THEN /\ pgr' = NewPager(pgr.rg + 1)
            /\ buf' = [n |-> 0, done |-> 0]
       ELSE UNCHANGED <<pgr, buf>>
    /\ pc' = IF want' > 0 /\ pgr'.rg <= Len(file.chunks) THEN "records" ELSE "idle"
    /\ read' = 0
    /\ UNCHANGED <<file, dec, repBuf, pending, atRecStart, toSkip, out, call, calls>>

\* The steps of a call that was begun
Run == SkipTurn \/ SkipEnd \/ SkipFlat \/ SkipRep \/ Records \/ LoopTurn \/ LoopEnd \/ LoopRead
       \/ Return

Next ==
    \/ \E row \in 0 .. TotalRows - 1 : SeekToRow(row)
    \/ \E n \in BatchSizes : LoadBatch(n)
    \/ Run

\* Nobody has to make a call, but a call runs on.
Spec == Init /\ [][Next]_vars /\ WF_vars(Run)

------------------------------------------------------------------------------
\* The levels k of chunk rg that belong to the rows from .. to - 1 of the file
LevelsOf(rg, from, to) ==
    LET c == file.chunks[rg]
    IN  {k \in DOMAIN c.rep : RowsBefore(rg) + Starts(c, 1 .. k) - 1 \in from .. to - 1}

\* What a batch of the rows from .. to - 1 consists of
Wanted(from, to) ==
    LET Levels(rg) == LET S == LevelsOf(rg, from, to)
                          c == file.chunks[rg]
                      IN  IF S = {} THEN <<>>
                          ELSE [i \in 1 .. Cardinality(S) |->
                                  [rep |-> c.rep[Min(S) + i - 1], def |-> c.def[Min(S) + i - 1]]]
        Vals(rg)   == LET S == LevelsOf(rg, from, to)
                          c == file.chunks[rg]
                      IN  IF S = {} THEN <<>>
                          ELSE [i \in 1 .. Values(c, S) |-> <<rg, Values(c, 1 .. Min(S) - 1) + i>>]
        all(f(_))  == FlattenSeq([rg \in DOMAIN file.chunks |-> f(rg)])
    IN  [lv |-> all(Levels), val |-> all(Vals)]

\* A batch has the levels and the values of exactly the rows that follow the last row
\* sought or read: leafReader.LoadBatch after leafReader.SeekToRow.
ReadsFromRow ==
    pc = "idle" /\ call.op = "read" =>
        out = Wanted(call.row, Min({call.row + call.n, TotalRows}))

\* A well-formed file is read without an error.
NoSpuriousFailure == pc # "failed"

\* Every call returns: neither skipRows nor the loops of LoadBatch and ReadRecords run on.
CallsReturn == (pc # "idle") ~> (pc \in {"idle", "failed"})
=============================================================================
