--------------------------- MODULE MCParquetRead ---------------------------
(***************************************************************************)
(* Reading parquet: a call of ReadRowGroups, the reader of one column      *)
(* chunk, the record reader over several columns, or a nested column that  *)
(* is written and read back.  A behaviour picks one of them; the others    *)
(* are off or stay in an initial state.                                    *)
(*                                                                         *)
(* Row groups: three columns, serial and parallel.  Chunks: see            *)
(* ChunkFiles.  Records: two columns and three rows in batches of two, so  *)
(* that the last batch is short, with two failing columns and two seeks at *)
(* every place.  Nested columns: see NestedArrays.                         *)
(***************************************************************************)
EXTENDS ReadRowGroups, RecordReader, ChunkFiles

VARIABLES
    reader,
    file, pgr, buf, dec, repBuf, pending, atRecStart, cpc, toSkip, want, read, out, call, calls,
    column, npc, nrow, leaf, part, info, w, nfile, bits, rows

Arr == INSTANCE NestedArrays
Ck == INSTANCE ColumnChunk WITH Files <- MCFiles, LevelBatch <- 2, BatchSizes <- {1, 2}, pc <- cpc
Nst == INSTANCE NestedColumns WITH Columns <- Arr!MCColumns, pc <- npc, row <- nrow, file <- nfile

rgVars  == vars
ckVars  == <<file, pgr, buf, dec, repBuf, pending, atRecStart, cpc, toSkip, want, read, out, call, calls>>
nstVars == <<column, npc, nrow, leaf, part, info, w, nfile, bits, rows>>
allVars == <<reader, rgVars, ckVars, recVars, nstVars>>

\* The call has returned.
GroupsOff ==
    /\ parallel = FALSE /\ parentDone = TRUE /\ cancelled = FALSE /\ fetchErr = FALSE
    /\ rdr = [c \in Readers |-> "nil"] /\ pc = "returned" /\ idx = 0 /\ err = FALSE
    /\ columns = [c \in Readers |-> FALSE] /\ refs = [c \in Readers |-> 0]
    /\ ch = << >> /\ chClosed = TRUE /\ results = << >> /\ resultsClosed = TRUE
    /\ wpc = [v \in Workers |-> "idle"] /\ job = [v \in Workers |-> NoJob] /\ outcome = "none"

NestedOff ==
    /\ column = "off" /\ npc = "off" /\ nrow = 0 /\ leaf = 0 /\ part = 0 /\ info = "off" /\ w = "off"
    /\ nfile = << >> /\ bits = FALSE /\ rows = << >>

MCInit ==
    /\ reader \in {"groups", "chunk", "records", "nested"}
    /\ IF reader = "groups" THEN Init ELSE GroupsOff
    /\ Ck!Init /\ (reader # "chunk" => file = CHOOSE x \in MCFiles : TRUE)
    /\ RecordInit /\ (reader # "records" => ~rparallel)
    /\ IF reader = "nested" THEN Nst!Init ELSE NestedOff

MCNext ==
    /\ \/ reader = "groups" /\ Next /\ UNCHANGED <<ckVars, recVars, nstVars>>
       \/ reader = "chunk" /\ Ck!Next /\ UNCHANGED <<rgVars, recVars, nstVars>>
       \/ reader = "records" /\ RecordNext /\ UNCHANGED <<rgVars, ckVars, nstVars>>
       \/ reader = "nested" /\ Nst!Next /\ UNCHANGED <<rgVars, ckVars, recVars>>
    /\ UNCHANGED reader

MCSpec ==
    /\ MCInit /\ [][MCNext]_allVars
    /\ WF_rgVars(Caller) /\ WF_rgVars(CloseResults) /\ \A v \in Workers : WF_rgVars(Worker(v))
    /\ WF_ckVars(Ck!Run) /\ WF_recVars(Internal)

----------------------------------------------------------------------------
\* LoadBatch yields the rows that follow, in order and whole, also after SeekToRow: the
\* column chunk reader with its pages, levels and row groups.
ReadsFromRow == Ck!ReadsFromRow

\* No read or seek of a sound column chunk ends in an error.
NoSpuriousFailure == Ck!NoSpuriousFailure

\* A nested column is read back as it was written: the levels of the path builder mean to
\* the struct and list readers what the array meant, and a column is refused only if a
\* null in it has list elements.
NestedReadBack == reader = "nested" => Nst!NestedReadBack

\* Every call returns: ReadRowGroups with its workers gone, though results holds only two
\* pairs; neither skipRows nor the loops of LoadBatch and ReadRecords run on; and a
\* parallel Next collects its workers, whichever of them leave early.
EveryCallReturns == CallTerminates /\ Ck!CallsReturn /\ RecordsReturn
=============================================================================
