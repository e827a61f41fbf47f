----------------------------- MODULE TextReader -----------------------------
(***************************************************************************)
(* csv.Reader and array.JSONReader: readers of text rows that gather them  *)
(* into record batches, one row (chunk 0 or 1), chunk rows or the whole    *)
(* file (chunk below 0) at a time.                                         *)
(*                                                                         *)
(* A row of the file is what reading it comes to.  "good" is appended;     *)
(* "syntax" the tokenizer refuses.  "field" is a row whose tokens are fine *)
(* and a field is not: the CSV reader appends a null and notes the error,  *)
(* the JSON reader rolls the row back.  "cut" is a JSON row the input ends *)
(* in.  The rows are numbered from 1 in the file.                          *)
(***************************************************************************)
EXTENDS Integers, Sequences, SequencesExt

CONSTANTS
    Files,      \* the files, sequences of rows
    TextChunks  \* the arguments of WithChunk

VARIABLES
    conf,       \* the reader: [kind, header, infer, flaw, chunk]
    rows,       \* the file
    pos,        \* rows read from the file
    started,    \* once has run
    pending,    \* pendingRecord is set: the row read to infer the types
    rerr, rdone,    \* Reader.err, Reader.done
    rpc, n,     \* where Next is; the rows of this call
    bld,        \* rows in the record builder
    rcur,       \* Reader.cur: the numbers of the rows of the batch; None: nil
    batches,    \* record batches made and not released
    ret,        \* what Next returned last
    got         \* rows of the batches for which Next returned true

fixed    == <<conf, rows>>
textVars == <<conf, rows, pos, started, pending, rerr, rdone, rpc, n, bld, rcur, batches, ret, got>>

None == << 0 >>
EOF == "EOF"

\* conf.flaw is "width" when the rows have a number of fields other than the schema's,
\* and "zone" when a timestamp column's metadata are refused.
Confs ==
    {c \in [kind : {"csv", "json"}, header : BOOLEAN, infer : BOOLEAN,
            flaw : {"none", "width", "zone"}, chunk : TextChunks] :
        /\ c.kind = "json" => ~c.header /\ ~c.infer /\ c.flaw = "none"
        /\ c.infer => c.flaw # "width"}

Init ==
    /\ conf \in Confs
    /\ rows \in {f \in Files : \A i \in DOMAIN f : f[i] = "cut" => conf.kind = "json" /\ i = Len(f)}
    /\ pos = 0 /\ started = FALSE /\ pending = FALSE
    /\ rerr = "none" /\ rdone = FALSE
    /\ rpc = "idle" /\ n = 0
    /\ bld = << >> /\ rcur = None /\ batches = 0
    /\ ret = TRUE
    /\ got = << >>

----------------------------------------------------------------------------
(***************************************************************************)
(* The record builder.                                                     *)
(***************************************************************************)
\* A CSV row of the wrong width was read: read panics on it when it is too long, and
\* NewRecordBatch when it was appended to some of the fields only.
Ragged ==
    /\ conf.flaw = "width"
    /\ n > 0
    /\ conf.chunk < 0 => rpc = "stopped" /\ rerr # "syntax"

\* The batch of the builder's rows becomes current, and the builder is empty.
NewRecordBatch(b) ==
    /\ rcur' = b
    /\ bld' = << >>
    /\ batches' = batches + 1

Return(v) ==
    /\ ret' = v
    /\ rpc' = "idle"

----------------------------------------------------------------------------
(***************************************************************************)
(* Next: the header, the early returns, and the call of r.next.            *)
(***************************************************************************)
\* Mutant of readHeader: the row the types are inferred from is not kept.
readHeaderDrops ==
    CASE conf.kind = "json" \/ ~(conf.header \/ conf.infer) -> [p |-> 0, keep |-> FALSE, e |-> "none"]
      [] rows = << >> \/ rows[1] = "syntax" -> [p |-> 1, keep |-> FALSE, e |-> "header"]
      [] conf.flaw = "width" -> [p |-> 1, keep |-> FALSE, e |-> "mismatch"]
      [] conf.flaw = "zone" /\ conf.infer /\ conf.header -> [p |-> 1, keep |-> FALSE, e |-> "zone"]
      [] OTHER -> [p |-> 1, keep |-> FALSE, e |-> "none"]

\* readHeader reads the first row when there is a header or there are types to infer.
readHeader ==
    CASE conf.kind = "json" \/ ~(conf.header \/ conf.infer) -> [p |-> 0, keep |-> FALSE, e |-> "none"]
      [] rows = << >> \/ rows[1] = "syntax" -> [p |-> 1, keep |-> FALSE, e |-> "header"]
      [] conf.flaw = "width" -> [p |-> 1, keep |-> FALSE, e |-> "mismatch"]
      [] conf.flaw = "zone" /\ conf.infer /\ conf.header -> [p |-> 1, keep |-> FALSE, e |-> "zone"]
      [] OTHER -> [p |-> 1, keep |-> conf.infer /\ ~conf.header, e |-> "none"]

\* once.Do: the header, then the converters of a known schema.
Start ==
    LET h == readHeader
    IN  /\ started' = TRUE
        /\ pos' = h.p
        /\ pending' = h.keep
        /\ rerr' = IF h.e = "none" /\ conf.flaw = "zone" /\ ~conf.infer THEN "zone" ELSE h.e

\* Next releases the current batch and returns false after an error or the end.
CallNext ==
    /\ rpc = "idle"
    /\ \/ ~started /\ Start
       \/ started /\ UNCHANGED <<pos, started, pending, rerr>>
    /\ rcur' = None
    /\ batches' = batches - IF rcur = None THEN 0 ELSE 1
    /\ n' = 0
    /\ \/ /\ rerr' # "none" \/ rdone
          /\ Return(FALSE)
       \/ /\ rerr' = "none" /\ ~rdone
          /\ rpc' = "read"
          /\ UNCHANGED ret
    /\ UNCHANGED <<fixed, rdone, bld, got>>

----------------------------------------------------------------------------
(***************************************************************************)
(* Reading a row: readRecord and validate and read; UnmarshalOne.          *)
(***************************************************************************)
\* The number of the next row, and what reading it gives.  UnmarshalOne reports the end
\* of the input inside a row as an error other than io.EOF.
NextRow == IF pending THEN 1 ELSE pos + 1
Outcome == IF NextRow > Len(rows) THEN EOF ELSE rows[NextRow]

\* The error that is left when a row that cannot be read ends the rows.
Stops(out) ==
    IF out = EOF THEN "none"
    ELSE IF conf.kind = "json" THEN "row" ELSE "syntax"

Appends(out) == out = "good" \/ (out = "field" /\ conf.kind = "csv")

\* The error after a row was appended: validate's for an inferred schema, then that of
\* the field; the first one is kept.
ErrorAfter(out) ==
    CASE rerr # "none" -> rerr
      [] conf.flaw = "zone" -> "zone"
      [] out = "field" -> "field"
      [] OTHER -> "none"

Consume ==
    /\ pending' = FALSE
    /\ pos' = IF pending THEN pos ELSE pos + 1

\* All the chunk's rows are read, or all of the file's.
ChunkRead == conf.chunk >= 0 /\ n >= (IF conf.chunk > 1 THEN conf.chunk ELSE 1)

\* The body of the loops of next1, nextn and nextall.
ReadRow ==
    /\ rpc = "read"
    /\ ~ChunkRead
    /\ Consume
    /\ \/ /\ Appends(Outcome)
          /\ n' = n + 1
          /\ bld' = Append(bld, NextRow)
          /\ rerr' = ErrorAfter(Outcome)
          /\ UNCHANGED <<rdone, rpc>>
       \/ /\ ~Appends(Outcome)
          /\ rdone' = TRUE
          /\ rerr' = IF Stops(Outcome) = "none" THEN rerr ELSE Stops(Outcome)
          /\ rpc' = "stopped"
          /\ UNCHANGED <<n, bld>>
    /\ UNCHANGED <<fixed, started, rcur, batches, ret, got>>

----------------------------------------------------------------------------
(***************************************************************************)
(* The ends of next1, nextn and nextall.                                   *)
(***************************************************************************)
Deliver ==
    /\ NewRecordBatch(bld)
    /\ got' = got \o bld
    /\ Return(TRUE)

\* NewRecordBatch or read panics on rows of the wrong width, as Next's comment says.
Panic ==
    /\ rpc \in {"read", "stopped"}
    /\ Ragged
    /\ rpc' = "panicked"
    /\ UNCHANGED <<fixed, pos, started, pending, rerr, rdone, n, bld, rcur, batches, ret, got>>

\* A chunk is whole.  The CSV reader is done once a field has failed.
FullChunk ==
    /\ rpc = "read"
    /\ ChunkRead
    /\ ~Ragged
    /\ rdone' = (rdone \/ (conf.kind = "csv" /\ conf.chunk > 1 /\ rerr # "none"))
    /\ Deliver
    /\ UNCHANGED <<fixed, pos, started, pending, rerr, n>>

\* The rows stopped inside a chunk.  A short batch is returned if it has rows; for a
\* chunk of one there is no batch.  The CSV reader's nextall reads the whole file before
\* it builds anything: a row it cannot read leaves no batch, and no rows make an empty
\* one, for which it returns true.
LastChunk ==
    /\ rpc = "stopped"
    /\ ~Ragged
    /\ \/ /\ conf.chunk \in {0, 1}
          /\ Return(FALSE)
          /\ UNCHANGED <<bld, rcur, batches, got>>
       \/ /\ conf.chunk > 1
          /\ n = 0
          /\ IF conf.kind = "csv" THEN NewRecordBatch(<< >>)
                                  ELSE UNCHANGED <<bld, rcur, batches>>
          /\ Return(FALSE)
          /\ UNCHANGED got
       \/ conf.chunk > 1 /\ n > 0 /\ Deliver
       \/ /\ conf.chunk < 0
          /\ conf.kind = "json"
          /\ \/ n > 0 /\ Deliver
             \/ n = 0 /\ NewRecordBatch(<< >>) /\ Return(FALSE) /\ UNCHANGED got
       \/ /\ conf.chunk < 0
          /\ conf.kind = "csv"
          /\ \/ rerr # "syntax" /\ Deliver
             \/ /\ rerr = "syntax"
                /\ bld' = << >>
                /\ Return(FALSE)
                /\ UNCHANGED <<rcur, batches, got>>
    /\ UNCHANGED <<fixed, pos, started, pending, rerr, rdone, n>>

\* The last Release.
Release ==
    /\ rpc = "idle"
    /\ batches' = batches - IF rcur = None THEN 0 ELSE 1
    /\ rcur' = None
    /\ bld' = << >>
    /\ rpc' = "released"
    /\ UNCHANGED <<fixed, pos, started, pending, rerr, rdone, n, ret, got>>

----------------------------------------------------------------------------
Next == CallNext \/ ReadRow \/ FullChunk \/ LastChunk \/ Panic \/ Release

Fairness == WF_textVars(ReadRow \/ FullChunk \/ LastChunk \/ Panic)

Spec == Init /\ [][Next]_textVars /\ Fairness

----------------------------------------------------------------------------
\* The numbers of the data rows: all but the header.
DataRows == [i \in 1 .. Len(rows) - (IF conf.header /\ rows # << >> THEN 1 ELSE 0)
                |-> IF conf.header THEN i + 1 ELSE i]

\* The rows are handed out in the order of the file, once each: the row read to infer
\* the types is the first of them, a header is none of them, and what is left in the
\* builder by one call does not come back in another.
RowsInOrder == IsPrefix(got, DataRows)

\* Next returning false with Err() nil means that every row was handed out, and as it
\* was in the file: an input that ends inside a row, a row the tokenizer refuses and a
\* field that did not parse all leave an error.
FalseMeansAll ==
    rpc = "idle" /\ ~ret /\ rerr = "none" =>
        got = DataRows /\ \A i \in DOMAIN got : rows[got[i]] = "good"

\* No batch outlives the reader, the empty ones behind a false Next included.
ReleasedAll == rpc = "released" => batches = 0

\* Next returns, or panics.
CallsReturn == rpc \in {"read", "stopped"} ~> rpc \in {"idle", "panicked"}
=============================================================================
