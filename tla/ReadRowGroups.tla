--------------------------- MODULE ReadRowGroups ---------------------------
(***************************************************************************)
(* pqarrow.FileReader.ReadRowGroups: one call, from the field readers it   *)
(* opens to the table or the error it returns.  With Props.Parallel the    *)
(* columns are read by one worker goroutine per field reader, fed by the   *)
(* channel ch and answering on the channel results; without it the columns *)
(* are read in order by the caller.                                        *)
(*                                                                         *)
(* Column data is abstracted to its reference count, an error to the fact  *)
(* that there is one.  The recover of a worker goroutine is left out: the  *)
(* only call the worker makes, readColumn, recovers its own panics.        *)
(***************************************************************************)
EXTENDS Integers, Sequences, FiniteSets

CONSTANT NumReaders         \* len(readers), also the number of workers np

ASSUME NumReadersAssumption == NumReaders \in Nat

VARIABLES
    parallel,       \* fr.Props.Parallel
    parentDone,     \* the caller's context is cancelled
    cancelled,      \* cancel() was called on the derived context
    rdr,            \* rdr[c]: field reader c
    fetchErr,       \* GetFieldReader failed for some field
    pc,             \* where the caller's goroutine is
    idx,            \* its loop variable
    err,            \* its err
    columns,        \* columns[c]: columns[c] holds data
    refs,           \* refs[c]: reference count of column c's chunked data
    ch, chClosed,   \* the channel of readers to read
    results, resultsClosed,  \* the channel of resultPairs
    wpc, job,       \* the workers: where each is, and the pair it holds
    outcome         \* what ReadRowGroups returned

vars == <<parallel, parentDone, cancelled, rdr, fetchErr, pc, idx, err, columns,
          refs, ch, chClosed, results, resultsClosed, wpc, job, outcome>>

fetchVars  == <<parallel, rdr, fetchErr>>
workerVars == <<wpc, job>>

Readers == 0 .. NumReaders - 1
Workers == Readers
ResultsCap == 2

\* resultPair: what a worker holds or sent.  A failed read may still carry data.
Pairs  == [idx : Readers, data : BOOLEAN, err : BOOLEAN]
NoJob  == [idx |-> 0, data |-> FALSE, err |-> FALSE]

\* ctx.Err() # nil for the context derived from the caller's
ctxDone == parentDone \/ cancelled

Init ==
    /\ parallel \in BOOLEAN
    /\ parentDone = FALSE
    /\ cancelled = FALSE
    /\ rdr = [c \in Readers |-> "nil"]
    /\ fetchErr = FALSE
    /\ pc = "fetch"
    /\ idx = 0
    /\ err = FALSE
    /\ columns = [c \in Readers |-> FALSE]
    /\ refs = [c \in Readers |-> 0]
    /\ ch = << >>
    /\ chClosed = FALSE
    /\ results = << >>
    /\ resultsClosed = FALSE
    /\ wpc = [w \in Workers |-> "idle"]
    /\ job = [w \in Workers |-> NoJob]
    /\ outcome = "none"

(***************************************************************************)
(* The caller may cancel its context at any time before the call returns.  *)
(***************************************************************************)
ParentCancel ==
    /\ pc # "returned"
    /\ ~parentDone
    /\ parentDone' = TRUE
    /\ UNCHANGED <<fetchVars, workerVars, cancelled, pc, idx, err, columns, refs,
                   ch, chClosed, results, resultsClosed, outcome>>

(***************************************************************************)
(* GetFieldReaders.  Parallel: one errgroup goroutine per field, in any    *)
(* order.  Serial: in order, stopping at the first error.                  *)
(***************************************************************************)
Unfetched == {c \in Readers : rdr[c] = "nil"}

FetchField(c) ==
    /\ pc = "fetch"
    /\ rdr[c] = "nil"
    /\ parallel \/ (~fetchErr /\ \A d \in Unfetched : c <= d)
    /\ \/ rdr' = [rdr EXCEPT ![c] = "open"] /\ UNCHANGED fetchErr
       \/ rdr' = [rdr EXCEPT ![c] = "failed"] /\ fetchErr' = TRUE
    /\ UNCHANGED <<workerVars, parallel, parentDone, cancelled, pc, idx, err, columns,
                   refs, ch, chClosed, results, resultsClosed, outcome>>

ReleaseOpen == [c \in Readers |-> IF rdr[c] = "open" THEN "released" ELSE rdr[c]]

\* g.Wait() or the end of the serial loop: the readers already open are released
\* when one failed; otherwise the reading starts, with np workers when parallel.
FetchEnd ==
    /\ pc = "fetch"
    /\ Unfetched = {} \/ (~parallel /\ fetchErr)
    /\ \/ /\ fetchErr
          /\ rdr' = ReleaseOpen
          /\ pc' = "returned"
          /\ outcome' = "error"
          /\ UNCHANGED wpc
       \/ /\ ~fetchErr
          /\ pc' = IF parallel THEN "push" ELSE "serial"
          /\ wpc' = [w \in Workers |-> IF parallel THEN "select" ELSE "idle"]
          /\ UNCHANGED <<rdr, outcome>>
    /\ UNCHANGED <<parallel, parentDone, cancelled, fetchErr, idx, err, columns, refs,
                   ch, chClosed, results, resultsClosed, job>>

(***************************************************************************)
(* The deferred calls that run when ReadRowGroups returns: releaseColumns, *)
(* the Release of every reader, cancel.  A table keeps its own reference   *)
(* to every column.                                                        *)
(***************************************************************************)
Return(out, rf) ==
    /\ pc' = "returned"
    /\ outcome' = out
    /\ refs' = [c \in Readers |-> IF columns[c] /\ out # "table" THEN rf[c] - 1 ELSE rf[c]]
    /\ rdr' = ReleaseOpen
    /\ cancelled' = TRUE

\* readColumn: a column's data with one reference, or an error with or without data
ReadOutcomes == {o \in [data : BOOLEAN, err : BOOLEAN] : o.data \/ o.err}

(***************************************************************************)
(* Serial mode.                                                            *)
(***************************************************************************)
SerialRead ==
    /\ pc = "serial"
    /\ idx < NumReaders
    /\ ~ctxDone
    /\ \E o \in ReadOutcomes :
         IF o.err
           THEN Return("error", refs) /\ UNCHANGED <<columns, idx>>
           ELSE /\ columns' = [columns EXCEPT ![idx] = TRUE]
                /\ refs' = [refs EXCEPT ![idx] = 1]
                /\ idx' = idx + 1
                /\ UNCHANGED <<pc, outcome, rdr, cancelled>>
    /\ UNCHANGED <<workerVars, parallel, parentDone, fetchErr, err, ch, chClosed,
                   results, resultsClosed>>

SerialEnd ==
    /\ pc = "serial"
    /\ \/ ctxDone /\ Return("error", refs)
       \/ ~ctxDone /\ idx = NumReaders /\ Return("table", refs)
    /\ UNCHANGED <<workerVars, parallel, parentDone, fetchErr, idx, err, columns, ch,
                   chClosed, results, resultsClosed>>

(***************************************************************************)
(* Parallel mode, the workers.                                             *)
(***************************************************************************)
workerFrame == <<fetchVars, parentDone, cancelled, pc, idx, err, columns, chClosed,
                 resultsClosed, outcome>>

\* case r, ok := <-ch
WorkerTake(w) ==
    /\ wpc[w] = "select"
    /\ ch # << >>
    /\ job' = [job EXCEPT ![w] = [NoJob EXCEPT !.idx = Head(ch)]]
    /\ ch' = Tail(ch)
    /\ wpc' = [wpc EXCEPT ![w] = "read"]
    /\ UNCHANGED <<workerFrame, refs, results>>

\* ch is closed and empty, or case <-ctx.Done()
WorkerExit(w) ==
    /\ wpc[w] = "select"
    /\ (chClosed /\ ch = << >>) \/ ctxDone
    /\ wpc' = [wpc EXCEPT ![w] = "done"]
    /\ UNCHANGED <<workerFrame, refs, ch, results, job>>

WorkerRead(w) ==
    /\ wpc[w] = "read"
    /\ \E o \in ReadOutcomes :
         /\ job' = [job EXCEPT ![w].data = o.data, ![w].err = o.err]
         /\ refs' = [refs EXCEPT ![job[w].idx] = IF o.data THEN @ + 1 ELSE @]
    /\ wpc' = [wpc EXCEPT ![w] = "send"]
    /\ UNCHANGED <<workerFrame, ch, results>>

WorkerSend(w) ==
    /\ wpc[w] = "send"
    /\ Len(results) < ResultsCap
    /\ results' = Append(results, job[w])
    /\ job' = [job EXCEPT ![w] = NoJob]
    /\ wpc' = [wpc EXCEPT ![w] = "select"]
    /\ UNCHANGED <<workerFrame, refs, ch>>

\* Mutant: close(results) when one worker is done, not after wg.Wait()
CloseResultsEarly ==
    /\ parallel
    /\ \E w \in Workers : wpc[w] = "done"
    /\ ~resultsClosed
    /\ resultsClosed' = TRUE
    /\ UNCHANGED <<fetchVars, workerVars, parentDone, cancelled, pc, idx, err, columns,
                   refs, ch, chClosed, results, outcome>>

\* the goroutine that waits for the workers: wg.Wait(); close(results)
CloseResults ==
    /\ parallel
    /\ \A w \in Workers : wpc[w] = "done"
    /\ pc # "fetch"
    /\ ~resultsClosed
    /\ resultsClosed' = TRUE
    /\ UNCHANGED <<fetchVars, workerVars, parentDone, cancelled, pc, idx, err, columns,
                   refs, ch, chClosed, results, outcome>>

(***************************************************************************)
(* Parallel mode, the caller.                                              *)
(***************************************************************************)
\* ch <- readerInfo{readers[idx], idx}: ch has room for all of them
Push ==
    /\ pc = "push"
    /\ \/ /\ idx < NumReaders
          /\ ch' = Append(ch, idx)
          /\ idx' = idx + 1
          /\ UNCHANGED <<pc, chClosed>>
       \/ /\ idx = NumReaders
          /\ chClosed' = TRUE
          /\ pc' = "collect"
          /\ UNCHANGED <<ch, idx>>
    /\ UNCHANGED <<fetchVars, workerVars, parentDone, cancelled, err, columns, refs,
                   results, resultsClosed, outcome>>

\* for data := range results: an error releases the data it carries, cancels and
\* breaks; a column is retained by NewColumn and released once.
Collect ==
    /\ pc = "collect"
    /\ results # << >>
    /\ LET data == Head(results) IN
         IF data.err
           THEN /\ refs' = [refs EXCEPT ![data.idx] = IF data.data THEN @ - 1 ELSE @]
                /\ err' = TRUE
                /\ cancelled' = TRUE
                /\ pc' = "check"
                /\ UNCHANGED columns
           ELSE /\ columns' = [columns EXCEPT ![data.idx] = TRUE]
                /\ UNCHANGED <<refs, err, cancelled, pc>>
    /\ results' = Tail(results)
    /\ UNCHANGED <<fetchVars, workerVars, parentDone, idx, ch, chClosed, resultsClosed,
                   outcome>>

CollectEnd ==
    /\ pc = "collect"
    /\ results = << >>
    /\ resultsClosed
    /\ pc' = "check"
    /\ UNCHANGED <<fetchVars, workerVars, parentDone, cancelled, idx, err, columns, refs,
                   ch, chClosed, results, resultsClosed, outcome>>

\* Mutant: ctx.Err() is not joined to err
CheckIgnoresContext ==
    /\ pc = "check"
    /\ err' = err
    /\ IF err THEN pc' = "drain" /\ UNCHANGED <<outcome, refs, rdr, cancelled>>
              ELSE Return("table", refs)
    /\ UNCHANGED <<workerVars, parallel, parentDone, fetchErr, idx, columns, ch, chClosed,
                   results, resultsClosed>>

\* Mutant: an error returns at once, without draining results
CheckNoDrain ==
    /\ pc = "check"
    /\ err' = (err \/ ctxDone)
    /\ Return(IF err' THEN "error" ELSE "table", refs)
    /\ UNCHANGED <<workerVars, parallel, parentDone, fetchErr, idx, columns, ch, chClosed,
                   results, resultsClosed>>

\* err = errors.Join(err, ctx.Err()): drain, or the table
Check ==
    /\ pc = "check"
    /\ err' = (err \/ ctxDone)
    /\ IF err' THEN pc' = "drain" /\ UNCHANGED <<outcome, refs, rdr, cancelled>>
               ELSE Return("table", refs)
    /\ UNCHANGED <<workerVars, parallel, parentDone, fetchErr, idx, columns, ch, chClosed,
                   results, resultsClosed>>

\* Mutant: the drained pairs are not released
DrainNoRelease ==
    /\ pc = "drain"
    /\ IF results # << >>
         THEN results' = Tail(results) /\ UNCHANGED <<refs, pc, outcome, rdr, cancelled>>
         ELSE resultsClosed /\ Return("error", refs) /\ UNCHANGED results
    /\ UNCHANGED <<workerVars, parallel, parentDone, fetchErr, idx, err, columns, ch,
                   chClosed, resultsClosed>>

\* the second range over results, which ends when the workers are gone
Drain ==
    /\ pc = "drain"
    /\ IF results # << >>
         THEN LET data == Head(results) IN
              /\ refs' = [refs EXCEPT ![data.idx] = IF data.data THEN @ - 1 ELSE @]
              /\ results' = Tail(results)
              /\ UNCHANGED <<pc, outcome, rdr, cancelled>>
         ELSE resultsClosed /\ Return("error", refs) /\ UNCHANGED results
    /\ UNCHANGED <<workerVars, parallel, parentDone, fetchErr, idx, err, columns, ch,
                   chClosed, resultsClosed>>

Caller == \/ \E c \in Readers : FetchField(c)
          \/ FetchEnd \/ SerialRead \/ SerialEnd
          \/ Push \/ Collect \/ CollectEnd \/ Check \/ Drain

Worker(w) == WorkerTake(w) \/ WorkerExit(w) \/ WorkerRead(w) \/ WorkerSend(w)

Next == ParentCancel \/ Caller \/ (\E w \in Workers : Worker(w)) \/ CloseResults

\* Every goroutine that can run eventually does (the Go scheduler), and a read of a
\* column ends; nothing obliges the caller to cancel.
Spec == /\ Init /\ [][Next]_vars
        /\ WF_vars(Caller) /\ WF_vars(CloseResults)
        /\ \A w \in Workers : WF_vars(Worker(w))

-----------------------------------------------------------------------------
CallerTypes ==
    /\ parallel \in BOOLEAN /\ parentDone \in BOOLEAN /\ cancelled \in BOOLEAN
    /\ rdr \in [Readers -> {"nil", "open", "failed", "released"}]
    /\ fetchErr \in BOOLEAN
    /\ pc \in {"fetch", "serial", "push", "collect", "check", "drain", "returned"}
    /\ idx \in 0 .. NumReaders
    /\ err \in BOOLEAN
    /\ columns \in [Readers -> BOOLEAN]
    /\ outcome \in {"none", "table", "error"}

SharedTypes ==
    /\ refs \in [Readers -> Int]
    /\ ch \in Seq(Readers)
    /\ results \in Seq(Pairs)
    /\ wpc \in [Workers -> {"idle", "select", "read", "send", "done"}]
    /\ job \in [Workers -> Pairs]

\* The values each variable of the caller, the channels and the workers may have;
\* in particular only indexes of readers are ever pushed to ch.
TypeOK ==
    /\ CallerTypes
    /\ SharedTypes
    /\ chClosed \in BOOLEAN
    /\ resultsClosed \in BOOLEAN

WorkersGone == \A w \in Workers : wpc[w] \in {"idle", "done"}

\* The readers are released by the deferred calls of the caller while other
\* goroutines read from them: a field reader is open whenever a worker is inside
\* readColumn with it.
ReadersInUseOpen == \A w \in Workers : wpc[w] = "read" => rdr[job[w].idx] = "open"

\* results is closed by a third goroutine: once it is closed no worker can still
\* send on it (a send on a closed channel panics, and the panic handler of the
\* worker would send again).
NoSendOnClosed == resultsClosed => WorkersGone

\* A table is only returned with every requested column in it, whatever was
\* cancelled and whichever worker read which column.
TableComplete == outcome = "table" => \A c \in Readers : columns[c] /\ refs[c] = 1

\* When the call fails, by an error of a field reader, of a column or by
\* cancellation, no column data and no reader is left allocated and no goroutine
\* of the call survives it.
FailureReleasesAll ==
    outcome = "error" =>
        /\ \A c \in Readers : refs[c] = 0 /\ rdr[c] # "open"
        /\ WorkersGone

\* The call returns and its workers exit, with results holding only two pairs and
\* whether or not a column fails or the caller cancels.
CallTerminates == <>(pc = "returned" /\ WorkersGone)

=============================================================================
