----------------------------- MODULE MCObjects ------------------------------
(***************************************************************************)
(* The life of objects in memory: reference counts of arrays shared by     *)
(* goroutines, the builders of JSON rows with their checkpoints, and the   *)
(* sessions of a Flight server.  A behaviour picks one of them; the others *)
(* stay in an initial state.                                               *)
(*                                                                         *)
(* Counts: two goroutines, three objects and two variables.  Rows: the     *)
(* schemas of RowSchemas; blocks of two values, which fill up within a row *)
(* and within three.  Sessions: three calls of one client, so that one     *)
(* overlaps two that follow each other.                                    *)
(***************************************************************************)
EXTENDS RefCount, Sessions, RowSchemas, TLC

VARIABLES
    part,
    schema, b, accepted, failed, made

Row == INSTANCE RowBuilder WITH
         Schemas <- MCSchemas, Scalars <- {0, 1}, MaxList <- 2, BlockSize <- 2, MaxBatches <- 1

countVars == vars
rowsVars  == <<schema, b, accepted, failed, made>>
allVars   == <<part, countVars, rowsVars, sessionVars>>

MCInit ==
    /\ part \in {"counts", "rows", "sessions"}
    /\ Init
    /\ Row!RowInit /\ (part # "rows" => schema = CHOOSE s \in MCSchemas : TRUE)
    /\ SessionInit /\ (part # "sessions" => manager = "stateful")

MCNext ==
    /\ \/ part = "counts" /\ Next /\ UNCHANGED <<rowsVars, sessionVars>>
       \/ part = "rows" /\ Row!RowNext /\ UNCHANGED <<countVars, sessionVars>>
       \/ part = "sessions" /\ SessionNext /\ UNCHANGED <<countVars, rowsVars>>
    /\ UNCHANGED part

MCSpec == MCInit /\ [][MCNext]_allVars

Symmetry == Permutations(Threads) \cup Permutations(Vars) \cup Permutations(Calls)

----------------------------------------------------------------------------
\* The record holds exactly the rows UnmarshalOne accepted, in order and whatever was
\* refused between them.
RowsKept == Row!RowsKept

\* A row that UnmarshalOne refuses leaves every builder as it was: builderCheckpoint.restore.
RefusedRowUndone == Row!RefusedRowUndone
=============================================================================
