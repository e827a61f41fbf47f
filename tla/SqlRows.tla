------------------------------ MODULE SqlRows ------------------------------
(***************************************************************************)
(* driver.Rows, the result set of the Flight SQL database/sql driver.      *)
(* QueryContext starts a goroutine, streamRecordset, that reads the        *)
(* endpoints of the flight one after the other and sends their record      *)
(* batches on recordChan; the caller takes rows with Next and ends with    *)
(* Close.  The caller's context may be cancelled at any time.              *)
(*                                                                         *)
(* An endpoint is the sizes of its record batches and its fate: "ok",      *)
(* "get" (DoGet fails) or "mid" (the reader fails after those batches).  A *)
(* row is <<endpoint, batch, number>>.                                     *)
(***************************************************************************)
EXTENDS Integers, Sequences, SequencesExt

CONSTANTS
    Endpoints,      \* the endpoints a flight is made of
    MaxEndpoints,   \* bound on their number
    ChanCap,        \* recordChanBufferSizeDefault
    UserCancels     \* whether the caller's context may be cancelled

VARIABLES
    endpoints,      \* info.Endpoint of this query
    ctxDone,        \* ctx.Err() # nil
    streamError,    \* Rows.streamError
    spc, ep, batch, \* streamRecordset: where it is, the endpoint, batches read of it
    recordChan, chanClosed,
    spawned,        \* a goroutine is started that values initializedChan
    once,           \* initializeOnceOnly has run: initializedChan was received from
    qpc,            \* where the caller is
    current, currentRow,    \* Rows.currentRecord (None: nil), Rows.currentRow
    live,           \* references to batches the Rows and its goroutine hold
    delivered,      \* the rows for which Next returned nil
    eof             \* Next has returned io.EOF

streamVars == <<spc, ep, batch>>
chanVars   == <<recordChan, chanClosed>>
initVars   == <<spawned, once>>
rowVars    == <<current, currentRow, delivered, eof>>
vars == <<endpoints, ctxDone, streamError, streamVars, chanVars, initVars, qpc, rowVars, live>>

None == << >>

Size(b) == endpoints[b[1]].sizes[b[2]]
RowsOf(b) == [i \in 1 .. Size(b) |-> <<b[1], b[2], i>>]

\* Every row the endpoints give, in the order of the flight.
AllRows ==
    FlattenSeq([e \in 1 .. Len(endpoints) |->
        IF endpoints[e].fate = "get" THEN << >>
        ELSE FlattenSeq([r \in 1 .. Len(endpoints[e].sizes) |-> RowsOf(<<e, r>>)])])

Init ==
    /\ endpoints \in UNION {[1 .. n -> Endpoints] : n \in 0 .. MaxEndpoints}
    /\ ctxDone = FALSE
    /\ streamError = "none"
    /\ spc = "endpoint" /\ ep = 0 /\ batch = 0
    /\ recordChan = << >> /\ chanClosed = FALSE
    /\ spawned = FALSE /\ once = FALSE
    /\ qpc = "query"
    /\ current = None /\ currentRow = 0
    /\ live = 0
    /\ delivered = << >>
    /\ eof = FALSE

\* The context is cancelled from outside, by its owner or by its deadline.
Cancel ==
    /\ UserCancels
    /\ ~ctxDone
    /\ ctxDone' = TRUE
    /\ UNCHANGED <<endpoints, streamError, streamVars, chanVars, initVars, qpc, rowVars, live>>

----------------------------------------------------------------------------
(***************************************************************************)
(* streamRecordset                                                         *)
(***************************************************************************)
\* The head of the loop over the endpoints.
NextEndpoint ==
    /\ spc = "endpoint"
    /\ \/ /\ ep = Len(endpoints)
          /\ spc' = "init"
          /\ UNCHANGED <<ep, streamError>>
       \/ /\ ep < Len(endpoints)
          /\ ctxDone
          /\ streamError' = "context"
          /\ spc' = "init"
          /\ UNCHANGED ep
       \/ /\ ep < Len(endpoints)
          /\ ~ctxDone
          /\ ep' = ep + 1
          /\ spc' = "get"
          /\ UNCHANGED streamError
    /\ UNCHANGED <<endpoints, ctxDone, batch, chanVars, initVars, qpc, rowVars, live>>

\* DoGet.  When it fails the function literal returns, and the loop goes on.
DoGet ==
    /\ spc = "get"
    /\ \/ /\ endpoints[ep].fate = "get" \/ ctxDone
          /\ streamError' = "get"
          /\ spc' = "endpoint"
          /\ UNCHANGED batch
       \/ /\ endpoints[ep].fate # "get"
          /\ batch' = 0
          /\ spc' = "next"
          /\ UNCHANGED streamError
    /\ UNCHANGED <<endpoints, ctxDone, ep, chanVars, initVars, qpc, rowVars, live>>

\* reader.Next() returns a batch: the context is looked at, an empty batch is skipped,
\* any other is retained to be sent.
ReadBatch ==
    /\ spc = "next"
    /\ batch < Len(endpoints[ep].sizes)
    /\ batch' = batch + 1
    /\ \/ /\ ctxDone
          /\ streamError' = "context"
          /\ spc' = "endpoint"
          /\ UNCHANGED live
       \/ /\ ~ctxDone
          /\ Size(<<ep, batch + 1>>) < 1
          /\ UNCHANGED <<streamError, spc, live>>
       \/ /\ ~ctxDone
          /\ Size(<<ep, batch + 1>>) >= 1
          /\ spc' = "send"
          /\ live' = live + 1
          /\ UNCHANGED streamError
    /\ UNCHANGED <<endpoints, ctxDone, ep, chanVars, initVars, qpc, rowVars>>

\* reader.Next() returns false: the batches are read, or the context cuts the read off.
ReadEnd ==
    /\ spc = "next"
    /\ \/ /\ batch = Len(endpoints[ep].sizes)
          /\ streamError' = IF endpoints[ep].fate = "mid" THEN "read" ELSE streamError
       \/ /\ ctxDone
          /\ streamError' = "read"
    /\ spc' = "endpoint"
    /\ UNCHANGED <<endpoints, ctxDone, ep, batch, chanVars, initVars, qpc, rowVars, live>>

\* Mutant of sendRecord: the record that cannot be sent is not released.
sendRecordDrops ==
    /\ spc = "send"
    /\ \/ /\ Len(recordChan) < ChanCap
          /\ recordChan' = Append(recordChan, <<ep, batch>>)
          /\ spawned' = TRUE
          /\ spc' = "next"
       \/ /\ ctxDone
          /\ spc' = "endpoint"
          /\ UNCHANGED <<recordChan, spawned>>
    /\ UNCHANGED <<endpoints, ctxDone, streamError, ep, batch, chanClosed, once, qpc, rowVars,
                   live>>

\* The select of sendRecord; once sent, "go initializeOnceOnly.Do".
sendRecord ==
    /\ spc = "send"
    /\ \/ /\ Len(recordChan) < ChanCap
          /\ recordChan' = Append(recordChan, <<ep, batch>>)
          /\ spawned' = TRUE
          /\ spc' = "next"
          /\ UNCHANGED live
       \/ /\ ctxDone
          /\ live' = live - 1
          /\ spc' = "endpoint"
          /\ UNCHANGED <<recordChan, spawned>>
    /\ UNCHANGED <<endpoints, ctxDone, streamError, ep, batch, chanClosed, once, qpc, rowVars>>

\* The deferred initializeOnceOnly.Do waits until the channel was valued, by it or by a
\* goroutine started before.
AwaitInitialized ==
    /\ spc = "init"
    /\ once
    /\ spc' = "close"
    /\ UNCHANGED <<endpoints, ctxDone, streamError, ep, batch, chanVars, initVars, qpc, rowVars,
                   live>>

\* The deferred close(recordChan)
CloseChan ==
    /\ spc = "close"
    /\ chanClosed' = TRUE
    /\ spc' = "done"
    /\ UNCHANGED <<endpoints, ctxDone, streamError, ep, batch, recordChan, initVars, qpc, rowVars,
                   live>>

----------------------------------------------------------------------------
(***************************************************************************)
(* The caller: QueryContext, Next, Close.                                  *)
(***************************************************************************)
\* initializedChan is unbuffered: its one send meets QueryContext's receive.
Initialized ==
    /\ qpc = "query"
    /\ spawned \/ spc = "init"
    /\ ~once
    /\ once' = TRUE
    /\ qpc' = "idle"
    /\ UNCHANGED <<endpoints, ctxDone, streamError, streamVars, chanVars, spawned, rowVars, live>>

InRecord == current # None /\ currentRow < Size(current)
ReleaseCurrent == live' = live - IF current = None THEN 0 ELSE 1

\* Next inside the current record.
NextRow ==
    /\ qpc = "idle"
    /\ InRecord
    /\ delivered' = Append(delivered, RowsOf(current)[currentRow + 1])
    /\ currentRow' = currentRow + 1
    /\ UNCHANGED <<endpoints, ctxDone, streamError, streamVars, chanVars, initVars, qpc, current,
                   eof, live>>

\* Next at the end of it: an error seen now is returned, otherwise Next goes on to
\* receive, and does not look at the error again.
NextRecord ==
    /\ qpc = "idle"
    /\ ~InRecord
    /\ streamError = "none"
    /\ ReleaseCurrent
    /\ current' = None
    /\ qpc' = "receive"
    /\ UNCHANGED <<endpoints, ctxDone, streamError, streamVars, chanVars, initVars, currentRow,
                   delivered, eof>>

\* A record: its first row is delivered by the same call, unless fromArrowType refuses a
\* value of it (inside a record such a failure changes nothing).
Receive ==
    /\ qpc = "receive"
    /\ recordChan # << >>
    /\ current' = Head(recordChan)
    /\ recordChan' = Tail(recordChan)
    /\ \/ /\ currentRow' = 1
          /\ delivered' = Append(delivered, RowsOf(Head(recordChan))[1])
       \/ /\ currentRow' = 0
          /\ UNCHANGED delivered
    /\ qpc' = "idle"
    /\ UNCHANGED <<endpoints, ctxDone, streamError, streamVars, chanClosed, initVars, eof, live>>

\* The channel is closed and empty: io.EOF.
ReceiveClosed ==
    /\ qpc = "receive"
    /\ recordChan = << >>
    /\ chanClosed
    /\ eof' = TRUE
    /\ qpc' = "idle"
    /\ UNCHANGED <<endpoints, ctxDone, streamError, streamVars, chanVars, initVars, current,
                   currentRow, delivered, live>>

\* Close: cancel the stream, let go of the current record, and drain the channel.
Close ==
    /\ qpc = "idle"
    /\ ctxDone' = TRUE
    /\ currentRow' = 0
    /\ ReleaseCurrent
    /\ current' = None
    /\ qpc' = "drain"
    /\ UNCHANGED <<endpoints, streamError, streamVars, chanVars, initVars, delivered, eof>>

Drain ==
    /\ qpc = "drain"
    /\ \/ /\ recordChan # << >>
          /\ recordChan' = Tail(recordChan)
          /\ live' = live - 1
          /\ UNCHANGED qpc
       \/ /\ recordChan = << >>
          /\ chanClosed
          /\ qpc' = "closed"
          /\ UNCHANGED <<recordChan, live>>
    /\ UNCHANGED <<endpoints, ctxDone, streamError, streamVars, chanClosed, initVars, rowVars>>

----------------------------------------------------------------------------
Stream ==
    \/ NextEndpoint \/ DoGet \/ ReadBatch \/ ReadEnd \/ sendRecord
    \/ AwaitInitialized \/ CloseChan
InCall == Initialized \/ Receive \/ ReceiveClosed \/ Drain

Next == Cancel \/ Stream \/ InCall \/ NextRow \/ NextRecord \/ Close

\* Goroutines and calls in progress keep running, and the server answers.
Fairness == WF_vars(Stream) /\ WF_vars(InCall)

Spec == Init /\ [][Next]_vars /\ Fairness

----------------------------------------------------------------------------
AllAnswer == \A e \in 1 .. Len(endpoints) : endpoints[e].fate = "ok"

\* Next hands out the rows of the flight in order, none twice and none left out between
\* two others, across batches, empty batches, endpoints and endpoints that fail.
RowsInOrder == IsPrefix(delivered, AllRows)

\* When nothing fails, io.EOF comes after the last row of the last endpoint.
EofIsEnd == eof /\ AllAnswer /\ ~ctxDone => delivered = AllRows

\* "Next should return io.EOF when there are no more rows": io.EOF is not how a
\* failure of the stream ends the rows.
EofMeansEnd == eof => AllAnswer /\ delivered = AllRows

\* Once Close has returned, no batch is held: not in the goroutine, not in the channel,
\* not by the Rows; and the goroutine has ended.
ClosedReleasesAll == qpc = "closed" => live = 0 /\ chanClosed

\* QueryContext, Next and Close return, whatever the goroutine is doing.
CallsReturn ==
    /\ qpc = "query" ~> qpc # "query"
    /\ qpc = "receive" ~> qpc # "receive"
    /\ qpc = "drain" ~> qpc = "closed"
=============================================================================
