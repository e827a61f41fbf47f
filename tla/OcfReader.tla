----------------------------- MODULE OcfReader -----------------------------
(***************************************************************************)
(* avro.OCFReader: one goroutine decodes the rows of an Avro file into the *)
(* channel avroChan, a second builds record batches from them and sends    *)
(* them on recChan, and the caller's goroutine takes them with Next until  *)
(* it returns false, closes the reader, and may reuse it for another file. *)
(*                                                                         *)
(* A row is its number, a batch the sequence of its rows.  The file may be *)
(* corrupt at a row (Decode fails there) and a row may be one the builders *)
(* refuse (loadDatum fails).                                               *)
(***************************************************************************)
EXTENDS Integers, Sequences, SequencesExt

CONSTANTS
    NumRows,        \* rows of the file
    Chunks,         \* the arguments of WithChunk
    AvroCap, RecCap,    \* WithReadCacheSize, WithRecordCacheSize
    MaxFiles        \* bound on the files read with one reader

ASSUME OcfAssumption ==
    /\ NumRows \in Nat
    /\ Chunks \subseteq Int
    /\ AvroCap \in Nat \ {0} /\ RecCap \in Nat \ {0}
    /\ MaxFiles \in Nat \ {0}

VARIABLES
    chunk,          \* OCFReader.chunk
    corrupt, odd,   \* the row Decode fails at, the row loadDatum refuses; 0: none
    files,          \* files read so far, this one included
    err,            \* OCFReader.err
    cancelled,      \* readCancel() was called
    dpc, datum,     \* decodeOCFToChan: where it is, the rows decoded
    avroChan, avroClosed,
    fpc, building, batch,   \* recordFactory: where it is, the builder, rec
    recChan, recClosed, bldDone,
    npc, cur,       \* the caller: where it is, OCFReader.cur
    live,           \* record batches made and not yet released
    delivered       \* the rows of the batches for which Next returned true

fileVars    == <<chunk, corrupt, odd, files>>
decodeVars  == <<dpc, datum>>
factoryVars == <<fpc, building, batch>>
recVars     == <<recChan, recClosed, bldDone>>
callVars    == <<npc, cur, delivered>>
vars == <<fileVars, err, cancelled, decodeVars, avroChan, avroClosed, factoryVars, recVars,
          callVars, live>>

Rows == 1 .. NumRows
Nil  == << 0 >>                 \* cur = nil

FreshFile ==
    /\ corrupt' \in 0 .. NumRows
    /\ odd' \in 0 .. NumRows

Init ==
    /\ chunk \in Chunks
    /\ corrupt \in 0 .. NumRows
    /\ odd \in 0 .. NumRows
    /\ files = 1
    /\ err = "none"
    /\ cancelled = FALSE
    /\ dpc = "decode" /\ datum = 0
    /\ avroChan = << >> /\ avroClosed = FALSE
    /\ fpc = "receive" /\ building = << >> /\ batch = << >>
    /\ recChan = << >> /\ recClosed = FALSE /\ bldDone = FALSE
    /\ npc = "idle" /\ cur = Nil
    /\ live = 0
    /\ delivered = << >>

\* setErr keeps the first error.
setErr(e) == err' = IF err = "none" THEN e ELSE err

----------------------------------------------------------------------------
(***************************************************************************)
(* decodeOCFToChan                                                         *)
(***************************************************************************)
\* Mutant of Decode: any error of the decoder is taken for the end of the file.
DecodeAnyEOF ==
    /\ dpc = "decode"
    /\ \/ cancelled /\ setErr("cancelled") /\ dpc' = "close" /\ UNCHANGED datum
       \/ /\ ~cancelled
          /\ datum < NumRows /\ datum + 1 # corrupt
          /\ datum' = datum + 1
          /\ dpc' = "send"
          /\ UNCHANGED err
       \/ /\ ~cancelled
          /\ datum = NumRows \/ datum + 1 = corrupt
          /\ dpc' = "close"
          /\ UNCHANGED <<datum, err>>
    /\ UNCHANGED <<fileVars, cancelled, avroChan, avroClosed, factoryVars, recVars, callVars,
                   live>>


Decode ==
    /\ dpc = "decode"
    /\ \/ cancelled /\ setErr("cancelled") /\ dpc' = "close" /\ UNCHANGED datum
       \/ /\ ~cancelled
          /\ \/ /\ datum < NumRows /\ datum + 1 # corrupt
                /\ datum' = datum + 1
                /\ dpc' = "send"
                /\ UNCHANGED err
             \/ /\ datum + 1 = corrupt
                /\ setErr("decode")
                /\ dpc' = "close"
                /\ UNCHANGED datum
             \/ /\ datum = NumRows
                /\ dpc' = "close"
                /\ UNCHANGED <<datum, err>>
    /\ UNCHANGED <<fileVars, cancelled, avroChan, avroClosed, factoryVars, recVars, callVars,
                   live>>

\* Mutant of SendDatum: a send that does not watch the context.
SendDatumOnly ==
    /\ dpc = "send"
    /\ Len(avroChan) < AvroCap
    /\ avroChan' = Append(avroChan, datum)
    /\ dpc' = "decode"
    /\ UNCHANGED <<fileVars, err, cancelled, datum, avroClosed, factoryVars, recVars, callVars,
                   live>>


SendDatum ==
    /\ dpc = "send"
    /\ \/ /\ Len(avroChan) < AvroCap
          /\ avroChan' = Append(avroChan, datum)
          /\ dpc' = "decode"
          /\ UNCHANGED err
       \/ /\ cancelled
          /\ setErr("cancelled")
          /\ dpc' = "close"
          /\ UNCHANGED avroChan
    /\ UNCHANGED <<fileVars, cancelled, datum, avroClosed, factoryVars, recVars, callVars,
                   live>>

\* The deferred close(avroChan)
CloseAvro ==
    /\ dpc = "close"
    /\ avroClosed' = TRUE
    /\ dpc' = "done"
    /\ UNCHANGED <<fileVars, err, cancelled, datum, avroChan, factoryVars, recVars, callVars,
                   live>>

----------------------------------------------------------------------------
(***************************************************************************)
(* recordFactory and sendRecord                                            *)
(***************************************************************************)
\* The builder holds a whole chunk.  A chunk below 1 takes in the whole file.
Full(rows) == chunk >= 1 /\ Len(rows) >= chunk

\* NewRecordBatch empties the builder.
NewBatch(rows) ==
    /\ batch' = rows
    /\ building' = << >>
    /\ live' = live + 1
    /\ fpc' = "send"

Receive ==
    /\ fpc = "receive"
    /\ avroChan # << >>
    /\ avroChan' = Tail(avroChan)
    /\ LET rows == Append(building, Head(avroChan))
       IN  \/ /\ Head(avroChan) = odd
              /\ setErr("load")
              /\ fpc' = "bldDone"
              /\ UNCHANGED <<building, batch, live>>
           \/ /\ Head(avroChan) # odd
              /\ Full(rows)
              /\ NewBatch(rows)
              /\ UNCHANGED err
           \/ /\ Head(avroChan) # odd
              /\ ~Full(rows)
              /\ building' = rows
              /\ UNCHANGED <<fpc, batch, live, err>>
    /\ UNCHANGED <<fileVars, cancelled, decodeVars, avroClosed, recVars, callVars>>

\* avroChan is closed and empty: what is left in the builder is sent, and for a chunk
\* below 1 a batch is sent even if it is empty.
ReceiveEnd ==
    /\ fpc = "receive"
    /\ avroChan = << >>
    /\ avroClosed
    /\ \/ /\ chunk < 1 \/ building # << >>
          /\ batch' = building
          /\ building' = << >>
          /\ live' = live + 1
          /\ fpc' = "sendLast"
       \/ /\ chunk >= 1
          /\ building = << >>
          /\ fpc' = "bldDone"
          /\ UNCHANGED <<building, batch, live>>
    /\ UNCHANGED <<fileVars, err, cancelled, decodeVars, avroChan, avroClosed, recVars,
                   callVars>>

SendRecord ==
    /\ fpc \in {"send", "sendLast"}
    /\ \/ /\ Len(recChan) < RecCap
          /\ recChan' = Append(recChan, batch)
          /\ fpc' = IF fpc = "send" THEN "receive" ELSE "bldDone"
          /\ UNCHANGED live
       \/ /\ cancelled
          /\ live' = live - 1
          /\ fpc' = "bldDone"
          /\ UNCHANGED recChan
    /\ UNCHANGED <<fileVars, err, cancelled, decodeVars, avroChan, avroClosed, building, batch,
                   recClosed, bldDone, callVars>>

\* The deferred close(bldDone), and then close(recChan)
CloseBldDone ==
    /\ fpc = "bldDone"
    /\ bldDone' = TRUE
    /\ fpc' = "recChan"
    /\ UNCHANGED <<fileVars, err, cancelled, decodeVars, avroChan, avroClosed, building, batch,
                   recChan, recClosed, callVars, live>>

CloseRec ==
    /\ fpc = "recChan"
    /\ recClosed' = TRUE
    /\ fpc' = "done"
    /\ UNCHANGED <<fileVars, err, cancelled, decodeVars, avroChan, avroClosed, building, batch,
                   recChan, bldDone, callVars, live>>

----------------------------------------------------------------------------
(***************************************************************************)
(* The caller: Next, Close, Reuse.                                         *)
(***************************************************************************)
ReleaseCur == live' = live - IF cur = Nil THEN 0 ELSE 1

\* Next releases the current batch and selects.
Next1 ==
    /\ npc \in {"idle", "ended"}
    /\ npc' = "select"
    /\ cur' = Nil
    /\ ReleaseCur
    /\ UNCHANGED <<fileVars, err, cancelled, decodeVars, avroChan, avroClosed, factoryVars,
                   recVars, delivered>>

\* A queued batch, from either case of the select; or none: recChan closed and empty,
\* or bldDone closed and nothing queued.
Next2 ==
    /\ npc = "select"
    /\ \/ /\ recChan # << >>
          /\ cur' = Head(recChan)
          /\ recChan' = Tail(recChan)
       \/ /\ recChan = << >>
          /\ recClosed \/ bldDone
          /\ UNCHANGED <<cur, recChan>>
    /\ npc' = "check"
    /\ UNCHANGED <<fileVars, err, cancelled, decodeVars, avroChan, avroClosed, factoryVars,
                   recClosed, bldDone, delivered, live>>

\* Next looks at Err() last: an error hides a batch that was received.
Next3 ==
    /\ npc = "check"
    /\ \/ /\ err = "none"
          /\ cur # Nil
          /\ npc' = "idle"
          /\ delivered' = delivered \o cur
       \/ /\ err # "none" \/ cur = Nil
          /\ npc' = "ended"
          /\ UNCHANGED delivered
    /\ UNCHANGED <<fileVars, err, cancelled, decodeVars, avroChan, avroClosed, factoryVars,
                   recVars, cur, live>>

\* Close, at the end of the file or before: cancel, then wait for both goroutines.
Close1 ==
    /\ npc \in {"idle", "ended"}
    /\ npc' = "closing"
    /\ cancelled' = TRUE
    /\ UNCHANGED <<fileVars, err, decodeVars, avroChan, avroClosed, factoryVars, recVars, cur,
                   delivered, live>>

\* readWG.Wait() has returned: drain recChan, release cur.
Close2 ==
    /\ npc = "closing"
    /\ dpc = "done"
    /\ fpc = "done"
    /\ setErr("cancelled")
    /\ live' = live - Len(recChan) - IF cur = Nil THEN 0 ELSE 1
    /\ recChan' = << >>
    /\ cur' = Nil
    /\ npc' = "closed"
    /\ UNCHANGED <<fileVars, cancelled, decodeVars, avroChan, avroClosed, factoryVars,
                   recClosed, bldDone, delivered>>

\* Reuse of a closed reader for another file with the same schema.
Reuse ==
    /\ npc = "closed"
    /\ files < MaxFiles
    /\ files' = files + 1
    /\ FreshFile
    /\ err' = "none"
    /\ cancelled' = FALSE
    /\ dpc' = "decode" /\ datum' = 0
    /\ avroChan' = << >> /\ avroClosed' = FALSE
    /\ fpc' = "receive" /\ building' = << >>
    /\ recChan' = << >> /\ recClosed' = FALSE /\ bldDone' = FALSE
    /\ npc' = "idle"
    /\ delivered' = << >>
    /\ UNCHANGED <<chunk, batch, cur, live>>

----------------------------------------------------------------------------
Decoder == Decode \/ SendDatum \/ CloseAvro
Factory == Receive \/ ReceiveEnd \/ SendRecord \/ CloseBldDone \/ CloseRec
InCall  == Next2 \/ Next3 \/ Close2

Next == Decoder \/ Factory \/ InCall \/ Next1 \/ Close1 \/ Reuse

\* Goroutines and calls in progress keep running; nothing obliges the caller to call.
Fairness == WF_vars(Decoder) /\ WF_vars(Factory) /\ WF_vars(InCall)

Spec == Init /\ [][Next]_vars /\ Fairness

----------------------------------------------------------------------------
\* The caller is handed the rows of the file in order, none twice and none left out,
\* and none of a batch that was cut off by an error or by Close.
RowsInOrder == delivered = [i \in 1 .. Len(delivered) |-> i]

\* Next returning false without an error means that the whole file was delivered: an
\* error of either goroutine is set before the channel close that ends the iteration.
FalseMeansAll ==
    npc = "ended" /\ err = "none" => Len(delivered) = NumRows /\ corrupt = 0 /\ odd = 0

\* Once Close has returned no record batch is left, wherever it was when the reader
\* was closed: in the factory, in the channel or current.
ClosedReleasesAll == npc = "closed" => live = 0 /\ dpc = "done" /\ fpc = "done"

\* Next and Close return: nobody waits for a goroutine that waits in turn.
CallsReturn == (npc = "select" ~> npc # "select") /\ (npc = "closing" ~> npc = "closed")
=============================================================================
