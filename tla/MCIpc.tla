------------------------------- MODULE MCIpc -------------------------------
(***************************************************************************)
(* The IPC layer: a stream from its writer to its reader, a file, and the  *)
(* pool that compresses the body of one payload.  A behaviour picks one of *)
(* them; the others do not move.                                           *)
(*                                                                         *)
(* Stream: of two dictionary fields the first may be empty, a prefix, its  *)
(* extension or a different one, so that every outcome (first, skip,       *)
(* delta, replacement) follows every other; the second is kept or          *)
(* replaced.  File: a batch may bring a new dictionary for one field only. *)
(* Pool: more buffers than workers, and enough workers that two fail while *)
(* a third still works.                                                    *)
(***************************************************************************)
EXTENDS IpcStream, CompressPool

CONSTANTS w1, w2, w3

VARIABLES
    part,
    headerStarted, closed, closeErr, mapped, fileLast, fileJob, calls, fileSent, filePos, dicts,
    recs, footer, torn

MCWorkers == {w1, w2, w3}
MCDicts == << {<< >>, <<1>>, <<1, 2>>, <<2>>}, {<<3>>, <<4>>} >>
MCFileDicts == {<<1>>, <<1, 2>>}

Fil == INSTANCE IpcFile WITH NumDicts <- 2, Dicts <- MCFileDicts, Cuts <- {0, 4, 5},
                             last <- fileLast, job <- fileJob, sent <- fileSent, pos <- filePos

filVars == <<headerStarted, closed, closeErr, mapped, fileLast, fileJob, calls, fileSent, filePos,
             dicts, recs, footer, torn>>
allVars == <<part, poolVars, vars, filVars>>

\* A payload without buffers whose compression has returned
PoolIdle ==
    /\ body = [i \in Buffers |-> "empty"] /\ freed = [i \in Buffers |-> 0]
    /\ pc = "returned" /\ idx = 0 /\ result = "ok"
    /\ wpc = [w \in Workers |-> "gone"] /\ taken = [w \in Workers |-> None]
    /\ chClosed = FALSE /\ errch = FALSE /\ cancelled = FALSE

MCInit ==
    \/ part = "stream" /\ PoolIdle /\ Init /\ Fil!Init
    \/ part = "file" /\ PoolIdle /\ Init /\ hasSchema /\ Fil!Init
    \/ part = "pool" /\ PoolInit /\ Init /\ hasSchema /\ Fil!Init

MCNext ==
    /\ \/ part = "stream" /\ Next /\ UNCHANGED <<poolVars, filVars>>
       \/ part = "file" /\ Fil!Next /\ UNCHANGED <<poolVars, vars>>
       \/ part = "pool" /\ PoolNext /\ UNCHANGED <<vars, filVars>>
    /\ UNCHANGED part

\* The fairness of IpcStream, when the stream is what moves
StreamFairness ==
    /\ WF_vars(part = "stream" /\ WriterStep)
    /\ WF_vars(part = "stream" /\ Close)
    /\ WF_vars(part = "stream" /\ ReaderStep)

MCSpec == MCInit /\ [][MCNext]_allVars /\ StreamFairness /\ PoolFairness

----------------------------------------------------------------------------
\* A stream closed without an error reaches its reader whole, and compressBodyBuffers
\* returns also when every worker has failed with buffers still to send.
EverythingEnds == (part = "stream" => AllArrives) /\ Returns

\* A file whose writes were all or nothing, and whose Close returned nil, opens and holds
\* exactly the batches whose Write returned nil, with their dictionaries, whatever failed
\* in between and was tried again; also after torn writes, what can be read at all is what
\* was written there.
FileReadsBack == Fil!ReadsBack /\ Fil!NeverWrongData
=============================================================================
