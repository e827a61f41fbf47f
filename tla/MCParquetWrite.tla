--------------------------- MODULE MCParquetWrite ---------------------------
(***************************************************************************)
(* Writing parquet: the column writer, the file writer, the arrow writer   *)
(* on top of it, or the encoders of the pages and the decoders that read   *)
(* them back.  A behaviour picks one of them; the others stay in an        *)
(* initial state.                                                          *)
(*                                                                         *)
(* Columns: calls of up to three levels with pages and batches of two, so  *)
(* that a call ends inside a batch, a page and a row, and the dictionary   *)
(* overflows.  Files: three row groups of two columns.  Arrow: records of  *)
(* up to five rows in row groups of two, so that one fills up, overflows   *)
(* or ends where a row group does.  Pages: see PageValues; groups of two   *)
(* values, literal runs of up to two groups, repeated runs of up to five,  *)
(* miniblocks of two.                                                      *)
(***************************************************************************)
EXTENDS ColumnWriter, PageValues, SequencesExt

CONSTANTS a, b

VARIABLES
    part,
    f, broken, colFailed, aw, app,
    codec, enc, put, pages, rd, dec, at, got, top, held, scratch

\* Every sequence of one or two levels, and those of three that end in the value a.
MCInputs == {lv \in SeqOf([rep : {0, 1}, val : Vals \cup {Null}], 3) : lv # <<>> /\ (Len(lv) = 3 => lv[3].val = a)}

\* The dictionaries of dictionary arrays: in either order, or with a repetition.
MCDicts == {<<a, b>>, <<b, a>>, <<a, a>>}

Fw == INSTANCE FileWriter WITH
        NumCols <- 2, Modes <- {TRUE, FALSE}, Indexed <- TRUE, Filtered <- TRUE,
        MaxGroups <- 3, MaxRows <- 1, MaxKV <- 1
Aw == INSTANCE ArrowWriter WITH
        NumCols <- 2, Modes <- {TRUE, FALSE}, Indexed <- TRUE, Filtered <- TRUE,
        MaxGroups <- 3, MaxRows <- 1, MaxKV <- 1, MaxRowGroupLength <- 2,
        Sizes <- {0, 1, 2, 5}, ChunkSizes <- {1, 3}, MaxCalls <- 3, Mixed <- FALSE
Pg == INSTANCE PageCodec WITH
        Group <- 2, MaxGroups <- 3, MaxRun <- 5, Scratch <- 2, Block <- 3, MiniBlock <- 2, MiniBlocks <- 2,
        Narrow <- 3, Wide <- 5, Codecs <- MCCodecs, Values <- MCValues, MaxLevel <- 1, MaxPut <- MCMaxPut,
        MaxBatch <- 8, MaxRead <- MCMaxRead, PageLimit <- MCPageLimit, EmptyPages <- FALSE

cwVars == vars
fwVars == <<f, broken, colFailed>>
pgVars == <<codec, enc, put, pages, rd, dec, at, got, top, held, scratch>>
awVars == <<aw, app>>
allVars == <<part, cwVars, fwVars, awVars, pgVars>>

MCInit ==
    /\ part \in {"column", "file", "arrow", "pages"}
    /\ Init /\ Aw!ArrowInit
    /\ Pg!PageInit /\ (part # "pages" => codec = "levels")

MCNext ==
    /\ \/ part = "column" /\ Next /\ UNCHANGED <<fwVars, awVars, pgVars>>
       \/ part = "file" /\ Fw!Next /\ UNCHANGED <<cwVars, awVars, pgVars>>
       \/ part = "arrow" /\ Aw!ArrowNext /\ UNCHANGED <<cwVars, pgVars>>
       \/ part = "pages" /\ Pg!PageNext /\ UNCHANGED <<cwVars, fwVars, awVars>>
    /\ UNCHANGED part

MCSpec == MCInit /\ [][MCNext]_allVars

----------------------------------------------------------------------------
\* Every footer leads to the blocks of its row groups, and the last one after a Close
\* without error lists all row groups, the rows and the key-value metadata: Writer.Close
\* and FlushWithFooter.
FooterWhole == Fw!FooterWhole

\* A row group has as many rows in each column as its metadata says; Close refuses any
\* other.
RowsAgree == Fw!RowsAgree

\* Once a row group could not be closed, or the file writer has returned an error, no
\* footer is written any more: the file cannot be taken for a complete one.
NoFooterAfterFailure == Fw!NoFooterAfterFailure

\* A file written by pqarrow's FileWriter has the rows of its calls in their order, each in all columns and in row
\* groups within MaxRowGroupLength: all of them when no call failed, whole rows without a gap when a refused call
\* has closed the file. No sequence of calls panics, and none fails that has a right to succeed.
RecordsKept == part = "arrow" => Aw!RecordsKept

\* The values decoded from a page, however reads, spaced reads and discards cut it up, are
\* those put into it, and no read fails: the encoders of package encoding carry nothing
\* over from one page to the next, and no run or delta is lost at its limits.
PagesReadBack == Pg!PagesReadBack

\* The strings a caller got from DeltaByteArrayDecoder keep their bytes while later calls
\* decode on.
StringsKept == Pg!StringsKept
=============================================================================
