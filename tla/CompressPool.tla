---------------------------- MODULE CompressPool ----------------------------
(***************************************************************************)
(* recordEncoder.compressBodyBuffers: the body buffers of one IPC payload  *)
(* are compressed in place, by the caller or, with WithCompressConcurrency *)
(* above 1, by goroutines fed over an unbuffered channel.  The first error *)
(* cancels the rest.                                                       *)
(***************************************************************************)
EXTENDS Naturals, FiniteSets

CONSTANTS
    NumBuffers,     \* len(p.body)
    Workers,        \* the goroutines of the concurrent case; their number is compressNP
    None            \* no buffer

ASSUME PoolAssumption ==
    /\ NumBuffers \in Nat
    /\ IsFiniteSet(Workers) /\ Workers # {}
    /\ None \notin Nat

VARIABLES
    body,           \* p.body: empty (nil or no bytes), raw, or compressed
    freed,          \* freed[i]: how often the raw buffer i was released
    pc, idx,        \* the caller: where it is, its loop variable
    wpc, taken,       \* the workers: where each is, the buffer it works on
    chClosed,       \* ch is closed
    errch,          \* errch holds an error
    cancelled,      \* ctx is done
    result          \* what compressBodyBuffers returned

poolVars == <<body, freed, pc, idx, wpc, taken, chClosed, errch, cancelled, result>>

Buffers  == 0 .. NumBuffers - 1

\* With compressNP <= 1 the caller compresses, otherwise the workers do.
PoolInit ==
    /\ body \in [Buffers -> {"empty", "raw"}]
    /\ freed = [i \in Buffers |-> 0]
    /\ pc \in {"serial", "send"}
    /\ idx = 0
    /\ wpc = [w \in Workers |-> IF pc = "serial" THEN "gone" ELSE "receive"]
    /\ taken = [w \in Workers |-> None]
    /\ chClosed = FALSE
    /\ errch = FALSE
    /\ cancelled = FALSE
    /\ result = "none"

\* compress(i): an empty buffer is left alone; otherwise the compressed buffer (or the
\* raw bytes behind a length of -1) takes the place of the raw one, which is released.
\* On an error the payload is as before.
Compress(i, ok) ==
    IF ok /\ body[i] # "empty"
    THEN /\ body' = [body EXCEPT ![i] = "compressed"]
         /\ freed' = [freed EXCEPT ![i] = @ + 1]
    ELSE UNCHANGED <<body, freed>>

\* The loop of the serial case
SerialStep ==
    /\ pc = "serial"
    /\ \/ /\ idx < NumBuffers
          /\ Compress(idx, TRUE)
          /\ idx' = idx + 1
          /\ UNCHANGED <<pc, result>>
       \/ /\ idx < NumBuffers
          /\ body[idx] # "empty"
          /\ pc' = "returned"
          /\ result' = "error"
          /\ UNCHANGED <<body, freed, idx>>
       \/ /\ idx = NumBuffers
          /\ pc' = "returned"
          /\ result' = "ok"
          /\ UNCHANGED <<body, freed, idx>>
    /\ UNCHANGED <<wpc, taken, chClosed, errch, cancelled>>

\* Mutant of Send: the first buffer is sent twice.
SendTwice(w) ==
    /\ pc = "send"
    /\ idx < NumBuffers
    /\ wpc[w] = "receive"
    /\ wpc' = [wpc EXCEPT ![w] = "work"]
    /\ taken' = [taken EXCEPT ![w] = idx]
    /\ idx' = IF idx = 0 /\ \A v \in Workers : taken[v] = None THEN 0 ELSE idx + 1
    /\ UNCHANGED <<body, freed, pc, chClosed, errch, cancelled, result>>

\* ch <- idx meets a worker's receive
Send(w) ==
    /\ pc = "send"
    /\ idx < NumBuffers
    /\ wpc[w] = "receive"
    /\ wpc' = [wpc EXCEPT ![w] = "work"]
    /\ taken' = [taken EXCEPT ![w] = idx]
    /\ idx' = idx + 1
    /\ UNCHANGED <<body, freed, pc, chClosed, errch, cancelled, result>>

\* Mutant of SendEnd: the send loop does not watch the context.
SendEndOnly ==
    /\ pc = "send"
    /\ idx = NumBuffers
    /\ chClosed' = TRUE
    /\ pc' = "wait"
    /\ UNCHANGED <<body, freed, idx, wpc, taken, errch, cancelled, result>>

\* All sent, or break send; close(ch)
SendEnd ==
    /\ pc = "send"
    /\ idx = NumBuffers \/ cancelled
    /\ chClosed' = TRUE
    /\ pc' = "wait"
    /\ UNCHANGED <<body, freed, idx, wpc, taken, errch, cancelled, result>>

WorkerCompress(w) ==
    /\ wpc[w] = "work"
    /\ \/ /\ Compress(taken[w], TRUE)
          /\ wpc' = [wpc EXCEPT ![w] = "receive"]
          /\ taken' = [taken EXCEPT ![w] = None]
       \/ /\ body[taken[w]] # "empty"
          /\ wpc' = [wpc EXCEPT ![w] = "report"]
          /\ UNCHANGED <<body, freed, taken>>
    /\ UNCHANGED <<pc, idx, chClosed, errch, cancelled, result>>

\* Mutant of WorkerReport: the error is dropped.
WorkerDropsError(w) ==
    /\ wpc[w] = "report"
    /\ wpc' = [wpc EXCEPT ![w] = "cancel"]
    /\ UNCHANGED <<body, freed, pc, idx, taken, chClosed, errch, cancelled, result>>

\* The error goes to errch, unless one is there already; then the others are cancelled.
WorkerReport(w) ==
    /\ wpc[w] = "report"
    /\ errch' = TRUE
    /\ wpc' = [wpc EXCEPT ![w] = "cancel"]
    /\ UNCHANGED <<body, freed, pc, idx, taken, chClosed, cancelled, result>>

WorkerCancel(w) ==
    /\ wpc[w] = "cancel"
    /\ cancelled' = TRUE
    /\ wpc' = [wpc EXCEPT ![w] = "gone"]
    /\ UNCHANGED <<body, freed, pc, idx, taken, chClosed, errch, result>>

\* The channel is closed or the context done
WorkerExit(w) ==
    /\ wpc[w] = "receive"
    /\ chClosed \/ cancelled
    /\ wpc' = [wpc EXCEPT ![w] = "gone"]
    /\ UNCHANGED <<body, freed, pc, idx, taken, chClosed, errch, cancelled, result>>

\* Mutant of Wait: the caller does not wait once there is an error.
WaitForError ==
    /\ pc = "wait"
    /\ errch \/ \A w \in Workers : wpc[w] = "gone"
    /\ pc' = "returned"
    /\ result' = IF errch THEN "error" ELSE "ok"
    /\ UNCHANGED <<body, freed, idx, wpc, taken, chClosed, errch, cancelled>>

\* wg.Wait(), then the select on errch
Wait ==
    /\ pc = "wait"
    /\ \A w \in Workers : wpc[w] = "gone"
    /\ pc' = "returned"
    /\ result' = IF errch THEN "error" ELSE "ok"
    /\ UNCHANGED <<body, freed, idx, wpc, taken, chClosed, errch, cancelled>>

Worker(w) == WorkerCompress(w) \/ WorkerReport(w) \/ WorkerCancel(w) \/ WorkerExit(w)

Caller == SerialStep \/ (\E w \in Workers : Send(w)) \/ SendEnd \/ Wait

PoolNext == Caller \/ \E w \in Workers : Worker(w)

PoolFairness == WF_poolVars(Caller) /\ \A w \in Workers : WF_poolVars(Worker(w))

PoolSpec == PoolInit /\ [][PoolNext]_poolVars /\ PoolFairness

----------------------------------------------------------------------------
\* Every variable has the type the code gives it, and a raw buffer is released at
\* most once.
TypeOK ==
    /\ body \in [Buffers -> {"empty", "raw", "compressed"}]
    /\ freed \in [Buffers -> {0, 1}]
    /\ pc \in {"serial", "send", "wait", "returned"}
    /\ idx \in 0 .. NumBuffers
    /\ wpc \in [Workers -> {"receive", "work", "report", "cancel", "gone"}]
    /\ taken \in [Workers -> Buffers \union {None}]
    /\ chClosed \in BOOLEAN
    /\ errch \in BOOLEAN
    /\ cancelled \in BOOLEAN
    /\ result \in {"none", "ok", "error"}

\* compressBodyBuffers returns nil only when every buffer with data is compressed:
\* a cancelled send loop or a worker that left early cannot go unnoticed.
OkMeansAll == result = "ok" => \A i \in Buffers : body[i] # "raw"

\* When it returns no worker is left that could touch the payload, which the caller
\* is about to size, write or release.
WorkersGone == pc = "returned" => \A w \in Workers : wpc[w] = "gone"

\* Two workers never work on the same buffer.
Exclusive ==
    \A w1, w2 \in Workers :
        w1 # w2 /\ wpc[w1] = "work" /\ wpc[w2] = "work" => taken[w1] # taken[w2]

\* Each buffer of the payload has one goroutine at work on it, and once the call has
\* returned the payload is the caller's alone.
PayloadOwned == WorkersGone /\ Exclusive

\* The call returns, also when every worker has failed with buffers still to send.
Returns == <>(pc = "returned")
=============================================================================
