-------------------------- MODULE MCRecordReaders --------------------------
(***************************************************************************)
(* The readers that hand out rows one call at a time: the Avro file        *)
(* reader, the CSV and JSON readers, and the Rows of the SQL driver.  A    *)
(* behaviour picks one of them; the variables of the others are off.       *)
(*                                                                         *)
(* Avro: three rows and queues of one element, so that every goroutine     *)
(* blocks on every channel and a chunk of two leaves a last batch of one   *)
(* row.  Text: files of up to four rows, with every way a row can fail at  *)
(* every place, in chunks of one, of two and of the whole file.  SQL: up   *)
(* to two endpoints, of no, one, two and an empty batch, each of which may *)
(* fail before or after its batches.                                       *)
(***************************************************************************)
EXTENDS OcfReader

CONSTANTS MaxEndpoints, ChanCap, UserCancels, MaxTextRows

VARIABLES
    reader,
    conf, rows, pos, started, pending, rerr, rdone, rpc, n, bld, rcur, batches, ret, got,
    endpoints, ctxDone, streamError, spc, ep, sqlBatch, recordChan, chanClosed, spawned, once,
    qpc, current, currentRow, sqlLive, sqlDelivered, eof

MCTexts == UNION {[1 .. k -> {"good", "field", "syntax", "cut"}] : k \in 0 .. MaxTextRows}
MCTextChunks == {-1, 1, 2}
MCEndpoints ==
    {[sizes |-> s, fate |-> f] : s \in {<< >>, << 1 >>, << 0, 2 >>, << 1, 1 >>}, f \in {"ok", "mid"}}
        \cup {[sizes |-> << >>, fate |-> "get"]}

Txt == INSTANCE TextReader WITH Files <- MCTexts, TextChunks <- MCTextChunks
Sql == INSTANCE SqlRows WITH Endpoints <- MCEndpoints, batch <- sqlBatch, live <- sqlLive,
                             delivered <- sqlDelivered

ocfVars == vars
txtVars == <<conf, rows, pos, started, pending, rerr, rdone, rpc, n, bld, rcur, batches, ret, got>>
sqlVars == <<endpoints, ctxDone, streamError, spc, ep, sqlBatch, recordChan, chanClosed, spawned,
             once, qpc, current, currentRow, sqlLive, sqlDelivered, eof>>
allVars == <<reader, ocfVars, txtVars, sqlVars>>

Off == "off"

OcfOff ==
    /\ chunk = Off /\ corrupt = Off /\ odd = Off /\ files = Off /\ err = Off /\ cancelled = Off
    /\ dpc = Off /\ datum = Off /\ avroChan = Off /\ avroClosed = Off /\ fpc = Off
    /\ building = Off /\ batch = Off /\ recChan = Off /\ recClosed = Off /\ bldDone = Off
    /\ npc = Off /\ cur = Off /\ live = Off /\ delivered = << >>

TxtOff ==
    /\ conf = Off /\ rows = Off /\ pos = Off /\ started = Off /\ pending = Off /\ rerr = Off
    /\ rdone = Off /\ rpc = Off /\ n = Off /\ bld = Off /\ rcur = Off /\ batches = Off
    /\ ret = Off /\ got = Off

SqlOff ==
    /\ endpoints = Off /\ ctxDone = TRUE /\ streamError = Off /\ spc = Off /\ ep = Off
    /\ sqlBatch = Off /\ recordChan = Off /\ chanClosed = Off /\ spawned = Off /\ once = Off
    /\ qpc = Off /\ current = Off /\ currentRow = Off /\ sqlLive = Off /\ sqlDelivered = Off
    /\ eof = Off

MCInit ==
    \/ reader = "avro" /\ Init /\ TxtOff /\ SqlOff
    \/ reader = "text" /\ OcfOff /\ Txt!Init /\ SqlOff
    \/ reader = "sql" /\ OcfOff /\ TxtOff /\ Sql!Init

MCNext ==
    /\ \/ reader = "avro" /\ Next /\ UNCHANGED <<txtVars, sqlVars>>
       \/ reader = "text" /\ Txt!Next /\ UNCHANGED <<ocfVars, sqlVars>>
       \/ reader = "sql" /\ Sql!Next /\ UNCHANGED <<ocfVars, txtVars>>
    /\ UNCHANGED reader

MCSpec == MCInit /\ [][MCNext]_allVars /\ Fairness /\ Txt!Fairness /\ Sql!Fairness

----------------------------------------------------------------------------
\* Rows come in the order of the source, none twice and none left out between two
\* others: through the two queues of the Avro reader, the chunks and the inferring first
\* row of the text readers, the batches and endpoints of the SQL driver.
EveryRowInOrder ==
    /\ RowsInOrder
    /\ reader = "text" => Txt!RowsInOrder
    /\ reader = "sql" => Sql!RowsInOrder

\* The end without an error means that all rows were handed out.  Of the SQL driver's
\* io.EOF this is claimed when no endpoint fails and the context lives.
EndMeansAll ==
    /\ FalseMeansAll
    /\ reader = "text" => Txt!FalseMeansAll
    /\ reader = "sql" => Sql!EofIsEnd

\* After Close or the last Release no record batch is held, wherever it was: in a
\* goroutine, in a channel, current, or behind a Next that returned false.
NothingHeld ==
    /\ ClosedReleasesAll
    /\ reader = "text" => Txt!ReleasedAll
    /\ reader = "sql" => Sql!ClosedReleasesAll

\* Next, Close and QueryContext return: nobody waits for a goroutine that waits in turn.
EveryCallReturns == CallsReturn /\ Txt!CallsReturn /\ Sql!CallsReturn
=============================================================================
