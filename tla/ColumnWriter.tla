---------------------------- MODULE ColumnWriter ----------------------------
(***************************************************************************)
(* The writer of one Parquet column chunk (parquet/file/column_writer.go   *)
(* and its typed forms): levels and values arrive in calls, are cut into   *)
(* batches, gathered in a page, and pages go to the page writer.  While    *)
(* the dictionary encoding is active pages are kept back, since the        *)
(* dictionary page must precede them; when the dictionary grows too large  *)
(* or does not pay, the writer falls back to PLAIN.                        *)
(*                                                                         *)
(* A level is a record: rep, its repetition level (0 begins a row), and    *)
(* val, its value or Null.  In a page the value is a slot: the value       *)
(* itself (PLAIN) or an index into the dictionary.  A value counts for one *)
(* unit of size.  An operation on the writer maps a writer to the set of   *)
(* writers it can end in: more than one because a write to the sink can    *)
(* fail, and because the comparison of sizes that decides whether the      *)
(* dictionary pays is left open.                                           *)
(***************************************************************************)
EXTENDS Integers, Sequences, FiniteSetsExt, Outcomes

CONSTANTS
    Vals,         \* the values of the column
    Null,         \* a level without a value
    Inputs,       \* the level sequences a call may pass
    Dicts,        \* the dictionaries of the dictionary arrays a call may pass
    Aligned,      \* pages must begin at a row: V2 pages, or a page index
    UseDict,      \* dictionary encoding is enabled
    CostFallback, \* the dictionary is dropped when it does not save space
    BatchSize,    \* props.WriteBatchSize
    PageSize,     \* props.DataPageSize
    DictLimit,    \* props.DictionaryPageSizeLimit
    MaxCalls,     \* bound: how many calls the application makes
    MaxFaults     \* bound: how many writes to the sink fail

Level == [rep : Nat, val : Vals \cup {Null}]

ASSUME Bounds == BatchSize \in Nat \ {0} /\ PageSize \in Nat \ {0} /\ DictLimit \in Nat \ {0}

ASSUME Columns ==
    /\ Aligned \in BOOLEAN /\ UseDict \in BOOLEAN /\ CostFallback \in BOOLEAN
    /\ Null \notin Vals /\ Null \notin Nat /\ Null \notin Seq(Vals)
    /\ \A lv \in Inputs : lv \in Seq(Level) /\ lv # <<>>
    /\ \A d \in Dicts : d \in Seq(Vals)

VARIABLES
    w,        \* the column writer and what it has sent to the page writer
    job,      \* the levels a call has yet to write, with its dictionary if it has one
    calls,    \* how many calls were made
    written,  \* every level the writer has accepted
    failed,   \* some call has returned an error
    faults    \* how many writes to the sink have failed

vars == <<w, job, calls, written, failed, faults>>

None == [op |-> "none", rest |-> <<>>]

\* newColumnWriterBase and the constructor of the typed writer.
NewWriter ==
    [dict |-> UseDict, memo |-> <<>>, preserved |-> Null, refd |-> {},
     cur |-> <<>>, raw |-> 0, rows |-> 0, rowsWritten |-> 0, cut |-> 0,
     pages |-> <<>>, out |-> <<>>, dictWritten |-> FALSE,
     bloom |-> {}, bloomDone |-> FALSE, closed |-> FALSE, err |-> FALSE]

Init ==
    /\ w = NewWriter /\ job = None /\ calls = 0
    /\ written = <<>> /\ failed = FALSE /\ faults = 0

-----------------------------------------------------------------------------
\* The page writer appends a page to the sink, or the sink fails.
Send(x, page) == {[x EXCEPT !.out = Append(@, page)], Failed(x)}

\* How many of the marks are set, counted one by one.
Count(marks) ==
    LET upto[n \in 0 .. Len(marks)] ==
            IF n = 0 THEN 0 ELSE IF marks[n] THEN upto[n - 1] + 1 ELSE upto[n - 1]
    IN upto[Len(marks)]

Rows(lv) == Count([i \in DOMAIN lv |-> lv[i].rep = 0])

Held(lv) == Count([i \in DOMAIN lv |-> lv[i].slot # Null])

\* A page is built from everything the encoders hold, and they are reset. With an active dictionary it is kept.
FlushCurrentPage(x) ==
    LET page == [kind |-> "data", dict |-> x.dict, levels |-> x.cur,
                 first |-> x.rowsWritten, seq |-> x.cut]
        done == [x EXCEPT !.cur = <<>>, !.raw = 0, !.rows = 0, !.cut = @ + 1,
                          !.rowsWritten = @ + x.rows]
    IN IF x.dict THEN {[done EXCEPT !.pages = Append(@, page)]} ELSE Send(done, page)

\* The pages kept back are written. The one that fails, and those before it, are gone.
DrainBufferedDataPages(x) ==
    {[x EXCEPT !.out = @ \o x.pages, !.pages = <<>>]} \cup
    {Failed([x EXCEPT !.out = @ \o SubSeq(x.pages, 1, i - 1),
                      !.pages = SubSeq(@, i + 1, Len(@))]) : i \in DOMAIN x.pages}

\* The entries of the dictionary that some value has used enter the Bloom filter, once.
PopulateBloom(x) ==
    IF x.bloomDone THEN x
    ELSE [x EXCEPT !.bloomDone = TRUE, !.bloom = @ \cup {x.memo[i] : i \in x.refd}]

WriteDictionaryPage(x) ==
    {[y EXCEPT !.dictWritten = ~y.err] :
        y \in Send(PopulateBloom(x), [kind |-> "dictionary", values |-> x.memo])}

\* The values of the current page are put into the PLAIN encoder that replaces the dictionary's.
UsePlain(x) ==
    {[x EXCEPT !.dict = FALSE, !.memo = <<>>, !.preserved = Null, !.refd = {}, !.raw = 0,
               !.cur = [i \in DOMAIN x.cur |-> [rep |-> x.cur[i].rep,
                            slot |-> IF x.cur[i].slot = Null THEN Null ELSE x.memo[x.cur[i].slot]]]]}

\* Mutant of FallbackToPlain: the Bloom filter is not filled from the dictionary dropped.
FallbackSkipsBloom(x) ==
    IF ~x.dict THEN {x}
    ELSE Then(IF x.pages = <<>> THEN {x}
              ELSE Then(WriteDictionaryPage(x), DrainBufferedDataPages), UsePlain)

FallbackToPlain(x) ==
    IF ~x.dict THEN {x}
    ELSE Then(IF x.pages = <<>> THEN {PopulateBloom(x)}
              ELSE Then(WriteDictionaryPage(x), DrainBufferedDataPages), UsePlain)

\* The size of a page with indices is that of the raw values put in the encoder.
CommitWriteAndCheckPageLimit(x) ==
    IF (IF x.dict THEN x.raw ELSE Held(x.cur)) >= PageSize THEN FlushCurrentPage(x) ELSE {x}

CheckDictionarySizeLimit(x) ==
    IF ~x.dict THEN {x}
    ELSE IF Len(x.memo) >= DictLimit THEN FallbackToPlain(x)
    ELSE IF CostFallback /\ ~x.dictWritten /\ x.pages = <<>> THEN {x} \cup FallbackToPlain(x)
    ELSE {x}

-----------------------------------------------------------------------------
\* The dictionary with the values of the levels inserted.
Insert(memo, lv) ==
    LET upto[n \in 0 .. Len(lv)] ==
            IF n = 0 THEN memo
            ELSE IF lv[n].val = Null \/ lv[n].val \in Range(upto[n - 1]) THEN upto[n - 1]
            ELSE Append(upto[n - 1], lv[n].val)
    IN upto[Len(lv)]

\* The index of a value in the dictionary.
IndexOf(memo, v) == CHOOSE k \in DOMAIN memo : memo[k] = v

\* The levels with a slot for each value: its place in the dictionary, or the value.
Slots(x, memo, lv) ==
    [i \in DOMAIN lv |-> [rep |-> lv[i].rep,
        slot |-> IF lv[i].val = Null THEN Null
                 ELSE IF x.dict THEN IndexOf(memo, lv[i].val)
                 ELSE lv[i].val]]

Present(lv) == {lv[i].val : i \in DOMAIN lv} \ {Null}

NumPresent(lv) == Count([i \in DOMAIN lv |-> lv[i].val # Null])

\* writeLevels, and writeValues into the current encoder. Values put into a dictionary wait for the Bloom filter.
WriteValues(x, lv) ==
    LET memo == IF x.dict THEN Insert(x.memo, lv) ELSE <<>>
        new  == Slots(x, memo, lv)
    IN [x EXCEPT !.memo = memo, !.cur = @ \o new, !.rows = @ + Rows(lv),
                 !.raw = IF x.dict THEN @ + NumPresent(lv) ELSE @,
                 !.refd = IF x.dict THEN @ \cup ({new[i].slot : i \in DOMAIN new} \ {Null}) ELSE @,
                 !.bloom = IF x.dict THEN @ ELSE @ \cup Present(lv)]

\* PutIndices: the indices of a dictionary array are used as they are, and its values not measured.
WriteIndices(x, lv) ==
    LET new == Slots(x, x.memo, lv)
    IN [x EXCEPT !.cur = @ \o new, !.rows = @ + Rows(lv),
                 !.refd = @ \cup ({new[i].slot : i \in DOMAIN new} \ {Null})]

\* Mutant of AlignBatchToRowBoundary: a batch may end inside a row.
AlignSplits(lv) == BatchSize

\* The batch ends where a row begins: back to the last such place, else on to the next.
AlignBatchToRowBoundary(lv) ==
    LET back == {b \in 1 .. BatchSize : lv[b + 1].rep = 0}
        on   == {b \in BatchSize .. Len(lv) : b = Len(lv) \/ lv[b + 1].rep = 0}
    IN IF back # {} THEN Max(back) ELSE Min(on)

NextBatch(lv) ==
    IF Len(lv) <= BatchSize THEN Len(lv)
    ELSE IF Aligned THEN AlignBatchToRowBoundary(lv) ELSE BatchSize

\* What a batch of a call does to the writer.
WriteOne(x, op, lv) ==
    IF op = "values"
    THEN Then(CommitWriteAndCheckPageLimit(WriteValues(x, lv)), CheckDictionarySizeLimit)
    ELSE CommitWriteAndCheckPageLimit(WriteIndices(x, lv))

-----------------------------------------------------------------------------
\* The writer becomes one of S; a failure is counted, and ends the call. For want of faults it does not happen.
Outcome(S, rest) ==
    \E x \in S :
        /\ x.err => faults < MaxFaults
        /\ w' = [x EXCEPT !.err = FALSE]
        /\ faults' = faults + (IF x.err THEN 1 ELSE 0)
        /\ failed' = (failed \/ x.err)
        /\ job' = IF x.err \/ rest = <<>> THEN None ELSE [job EXCEPT !.rest = rest]

Call ==
    /\ job = None /\ ~w.closed /\ calls < MaxCalls
    /\ calls' = calls + 1

\* A column begins with a row, and so does every call when pages are aligned.
Acceptable(lv) == (Aligned \/ written = <<>>) => lv[1].rep = 0

\* WriteBatch, WriteBatchSpaced: the batches follow.
WriteBatch(lv) ==
    /\ Call
    /\ Acceptable(lv)
    /\ job' = [op |-> "values", rest |-> lv]
    /\ UNCHANGED <<w, written, failed, faults>>

\* WriteBatch refuses levels that do not begin a row when pages are aligned; nothing is written.
Refuse(lv) ==
    /\ Call
    /\ Aligned /\ lv[1].rep # 0
    /\ UNCHANGED <<w, job, written, failed, faults>>

Batch ==
    /\ job # None
    /\ LET n == NextBatch(job.rest)
           lv == SubSeq(job.rest, 1, n)
       IN /\ Outcome(WriteOne(w, job.op, lv), SubSeq(job.rest, n + 1, Len(job.rest)))
          /\ written' = written \o lv
    /\ UNCHANGED calls

\* The array of a call is made dense, and written as values; first the writer may give up its dictionary.
Dense(S, lv) ==
    \E x \in S :
        /\ x.err => faults < MaxFaults
        /\ w' = [x EXCEPT !.err = FALSE]
        /\ faults' = faults + (IF x.err THEN 1 ELSE 0)
        /\ failed' = (failed \/ x.err)
        /\ job' = IF x.err THEN None ELSE [op |-> "values", rest |-> lv]

\* writeDictionaryArrow: a dictionary array, whose dictionary d must be the one already in the writer.
WriteDictionaryArrow(d, lv) ==
    /\ Call
    /\ Acceptable(lv) /\ Present(lv) \subseteq Range(d)
    /\ \/ /\ ~w.dict
          /\ Dense({w}, lv)
       \/ /\ w.dict /\ w.preserved = Null /\ w.memo # <<>>
          /\ failed' = TRUE
          /\ UNCHANGED <<w, job, faults>>
       \/ /\ w.dict /\ w.preserved = Null /\ w.memo = <<>> /\ IsInjective(d)
          /\ w' = [w EXCEPT !.memo = d, !.preserved = d]
          /\ job' = [op |-> "indices", rest |-> lv]
          /\ UNCHANGED <<failed, faults>>
       \/ /\ w.dict /\ w.preserved = Null /\ w.memo = <<>> /\ ~IsInjective(d)
          /\ Dense(FallbackToPlain([w EXCEPT !.memo = Insert(<<>>, [i \in DOMAIN d |-> [val |-> d[i]]]),
                                             !.preserved = d]), lv)
       \/ /\ w.dict /\ w.preserved # Null /\ w.preserved # d
          /\ Dense(FallbackToPlain(w), lv)
       \/ /\ w.dict /\ w.preserved = d
          /\ job' = [op |-> "indices", rest |-> lv]
          /\ UNCHANGED <<w, failed, faults>>
    /\ UNCHANGED written

\* Mutant of CloseWriter: the pages kept back are written before the dictionary page.
CloseFlushesFirst(x) ==
    LET flush(y) == IF y.cur = <<>> THEN {y} ELSE FlushCurrentPage(y)
        dict(y)  == IF y.dict THEN WriteDictionaryPage(y) ELSE {y}
    IN Then(Then(flush([x EXCEPT !.closed = TRUE]), DrainBufferedDataPages), dict)

\* Mutant of CloseWriter: the page under way is not flushed.
CloseDrains(x) ==
    LET dict(y)  == IF y.dict THEN WriteDictionaryPage(y) ELSE {y}
    IN Then(dict([x EXCEPT !.closed = TRUE]), DrainBufferedDataPages)

\* The dictionary page, the pages and the chunk's metadata; the first failure ends it, and it is not tried again.
CloseWriter(x) ==
    LET dict(y)  == IF y.dict THEN WriteDictionaryPage(y) ELSE {y}
        flush(y) == IF y.cur = <<>> THEN {y} ELSE FlushCurrentPage(y)
        finish(y) == {y, Failed(y)}
    IN Then(Then(Then(dict([x EXCEPT !.closed = TRUE]), flush), DrainBufferedDataPages), finish)

Close ==
    /\ job = None /\ ~w.closed
    /\ Outcome(CloseWriter(w), <<>>)
    /\ UNCHANGED <<calls, written>>

Next ==
    \/ \E lv \in Inputs : WriteBatch(lv) \/ Refuse(lv)
    \/ \E d \in Dicts, lv \in Inputs : WriteDictionaryArrow(d, lv)
    \/ Batch
    \/ Close

Spec == Init /\ [][Next]_vars

-----------------------------------------------------------------------------
\* Every page the writer has built and not lost: those with the page writer, and those kept back.
Built == w.out \o w.pages

IsData(p) == p.kind = "data"

\* What a reader makes of a page: indices are looked up in the dictionary page.
Dictionary == IF w.out[1].kind = "dictionary" THEN w.out[1].values ELSE <<>>

Decode(p) ==
    [i \in DOMAIN p.levels |-> [rep |-> p.levels[i].rep,
        val |-> IF p.dict /\ p.levels[i].slot \in DOMAIN Dictionary THEN Dictionary[p.levels[i].slot]
                ELSE p.levels[i].slot]]

Decoded ==
    LET upto[n \in 0 .. Len(w.out)] ==
            IF n = 0 THEN <<>>
            ELSE IF IsData(w.out[n]) THEN upto[n - 1] \o Decode(w.out[n]) ELSE upto[n - 1]
    IN upto[Len(w.out)]

\* A column closed without an error in any call reads back as exactly the levels and values written, in order:
\* no batch, page cut, fallback or re-encoding loses, repeats or changes one.
Complete == w.closed /\ ~failed => Decoded = written

\* Row-aligned pages begin with a row and carry the number of rows before them, which is what the offset index
\* records and a seek relies on; and RowsWritten, which the row group compares between columns, counts rows.
RowAligned ==
    /\ Aligned /\ ~failed =>
        \A i \in DOMAIN Built : IsData(Built[i]) =>
            /\ Built[i].levels[1].rep = 0
            /\ Built[i].first = IF i = 1 \/ ~IsData(Built[i - 1]) THEN 0
                                ELSE Built[i - 1].first + Rows(Built[i - 1].levels)
    /\ w.rowsWritten + w.rows = Rows(written)

\* Even after failed writes and later calls, no page is written twice and none overtakes an earlier one. Without a
\* failure the dictionary page is the first page of the chunk and the only one; a page of indices needs it, finds
\* every index in it, and is never behind a PLAIN page (FallbackToPlain writes the kept pages before anything else).
PagesInOrder ==
    /\ \A i, j \in DOMAIN Built : i < j /\ IsData(Built[i]) /\ IsData(Built[j]) => Built[i].seq < Built[j].seq
    /\ ~failed =>
        \A i \in DOMAIN w.out :
            /\ w.out[i].kind = "dictionary" => i = 1
            /\ IsData(w.out[i]) /\ w.out[i].dict =>
                 /\ w.out[1].kind = "dictionary"
                 /\ \A k \in DOMAIN w.out[i].levels :
                        w.out[i].levels[k].slot \in DOMAIN w.out[1].values \cup {Null}
                 /\ \A j \in 2 .. i : w.out[j].dict

\* The Bloom filter of a column closed without error has no false negatives: it holds every value, whether it was
\* written as a value, as an index, or as an index re-encoded by a fallback.
BloomComplete == w.closed /\ ~failed => Present(written) \subseteq w.bloom

=============================================================================
