----------------------------- MODULE IpcStream -----------------------------
(***************************************************************************)
(* The Arrow IPC stream format from end to end: ipc.Writer encoding record *)
(* batches into schema, dictionary and record messages; the bytes it wrote,*)
(* as a sequence of blobs of whole messages; ipc.Reader decoding them with *)
(* the dictionaries it remembers, and resuming on the next blob with       *)
(* ContinueFrom.                                                           *)
(*                                                                         *)
(* A dictionary is a sequence of values, a batch its number and the        *)
(* dictionary of each dictionary-encoded field; everything else in a       *)
(* message is left out.  The sink may refuse a payload, or accept part of  *)
(* one and be broken from then on.  Nested dictionaries are left out.      *)
(***************************************************************************)
EXTENDS Integers, Sequences

CONSTANTS
    NumDicts,       \* dictionary fields of the schema: Mapper.NumDicts()
    Dicts,          \* the dictionaries each of them may have
    Tolerance,      \* pairs of different values array.ApproxEqual accepts
    EmitDeltas,     \* WithDictionaryDeltas
    SplitAnywhere,  \* a blob may end after any message, not only after a record
    MaxWrites, MaxBlobs     \* bounds

VARIABLES
    hasSchema, wStarted, wErr, pw,  \* Writer: schema # nil, started, err # nil, pw
    last,           \* Writer.lastWrittenDicts
    job,            \* the Writer call in progress
    sent,           \* batches whose Write returned nil
    blobs,          \* what the sink holds: blobs of messages
    broken,         \* the sink took part of a payload and takes nothing more
    rState,         \* Reader: not made, made (schema read), failed to be made
    rBlob, rPos,    \* the blob it reads and the messages of it consumed
    memo,           \* Memo.id2dict: the chunks held for each id
    nInit,          \* getInitialDicts' i
    readInitialDicts, rErr, rDone,  \* fields of Reader
    got             \* batches Next has returned

sinkVars   == <<blobs, broken>>
writerVars == <<hasSchema, wStarted, wErr, pw, last, job, sent>>
readerVars == <<rState, rBlob, rPos, memo, nInit, readInitialDicts, rErr, rDone, got>>
vars       == <<writerVars, sinkVars, readerVars>>

Ids     == 1 .. NumDicts

\* The values of dictionaries are numbered.
ASSUME StreamAssumption ==
    NumDicts \in Nat /\ MaxWrites \in Nat /\ \A id \in Ids : \A d \in Dicts[id] : d \in Seq(Nat)

\* A dictionary for each field
BatchDicts == {d \in [Ids -> UNION {Dicts[id] : id \in Ids}] : \A id \in Ids : d[id] \in Dicts[id]}
Records == [n : 1 .. MaxWrites, d : BatchDicts]

\* Messages, as the reader's messageReader tells them apart.
SchemaMsg         == [type |-> "schema"]
DictMsg(id, f, v) == [type |-> "dict", id |-> id, delta |-> f, vals |-> v]
RecordMsg(n)      == [type |-> "record", n |-> n]
EOS               == [type |-> "eos"]
CutMsg            == [type |-> "cut"]

\* No entry in lastWrittenDicts
NoDict == << -1 >>

Idle == [call |-> "none", next |-> 0, n |-> 0, d |-> << >>]

Init ==
    /\ hasSchema \in BOOLEAN
    /\ wStarted = FALSE
    /\ wErr = FALSE
    /\ pw = "open"
    /\ last = [id \in Ids |-> NoDict]
    /\ job = Idle
    /\ sent = << >>
    /\ blobs = << << >> >>
    /\ broken = FALSE
    /\ rState = "none"
    /\ rBlob = 1
    /\ rPos = 0
    /\ memo = [id \in Ids |-> << >>]
    /\ nInit = 0
    /\ readInitialDicts = FALSE
    /\ rErr = FALSE
    /\ rDone = FALSE
    /\ got = << >>

----------------------------------------------------------------------------
(***************************************************************************)
(* The sink.  Put(m) writes the payload m; Refuse is a write that failed,  *)
(* leaving nothing or a part of the payload behind.                        *)
(***************************************************************************)
Extend(m) == blobs' = [blobs EXCEPT ![Len(blobs)] = Append(@, m)]

Put(m) == ~broken /\ Extend(m) /\ UNCHANGED broken

Refuse == \/ UNCHANGED sinkVars
          \/ ~broken /\ Extend(CutMsg) /\ broken' = TRUE

\* The last message of the blob under way
Latest == LET b == blobs[Len(blobs)] IN b[Len(b)]

\* The bytes written so far are handed over and a new blob is begun.
Split ==
    /\ Len(blobs) < MaxBlobs
    /\ pw = "open"
    /\ ~broken
    /\ blobs[Len(blobs)] # << >>
    /\ SplitAnywhere \/ Latest.type = "record"
    /\ blobs' = Append(blobs, << >>)
    /\ UNCHANGED <<writerVars, broken, readerVars>>

----------------------------------------------------------------------------
(***************************************************************************)
(* ipc.Writer.  A call is a job; job.next is the payload to write: 0 the   *)
(* schema, id a dictionary, NumDicts + 1 the record or the end of stream.  *)
(***************************************************************************)
FirstPayload == IF wStarted THEN 1 ELSE 0

\* Mutant of Write: the remembered error is not looked at.
WriteForgetsError(d) ==
    /\ job = Idle
    /\ pw = "open"
    /\ Len(sent) < MaxWrites
    /\ hasSchema' = TRUE
    /\ job' = [call |-> "write", next |-> FirstPayload, n |-> Len(sent) + 1, d |-> d]
    /\ UNCHANGED <<wStarted, wErr, pw, last, sent, sinkVars, readerVars>>

\* Write with a batch of the writer's schema.
Write(d) ==
    /\ job = Idle
    /\ ~wErr
    /\ pw = "open"
    /\ Len(sent) < MaxWrites
    /\ hasSchema' = TRUE
    /\ job' = [call |-> "write", next |-> FirstPayload, n |-> Len(sent) + 1, d |-> d]
    /\ UNCHANGED <<wStarted, wErr, pw, last, sent, sinkVars, readerVars>>

\* Write with a batch of another schema than the WithSchema option: the stream is
\* started all the same, and the error returned is not remembered.
WriteMismatched ==
    /\ job = Idle
    /\ ~wErr
    /\ pw = "open"
    /\ hasSchema
    /\ ~wStarted
    /\ job' = [Idle EXCEPT !.call = "mismatched"]
    /\ UNCHANGED <<hasSchema, wStarted, wErr, pw, last, sent, sinkVars, readerVars>>

\* Write after Close: pw is nil, the panic is recovered and remembered.
WriteClosed ==
    /\ job = Idle
    /\ ~wErr
    /\ pw = "nil"
    /\ wErr' = TRUE
    /\ UNCHANGED <<hasSchema, wStarted, pw, last, job, sent, sinkVars, readerVars>>

Fail == wErr' = TRUE /\ job' = Idle /\ Refuse

\* start(): started is set before the schema payload is written.
Start ==
    /\ job.call \in {"write", "mismatched", "close"}
    /\ job.next = 0
    /\ wStarted' = TRUE
    /\ \/ /\ Put(SchemaMsg)
          /\ wErr' = wErr
          /\ job' = IF job.call = "mismatched" THEN Idle
                    ELSE [job EXCEPT !.next = IF job.call = "close" THEN NumDicts + 1 ELSE 1]
       \/ /\ wErr' = TRUE
          /\ Refuse
          /\ job' = IF job.call = "close" THEN [job EXCEPT !.next = NumDicts + 1] ELSE Idle
    /\ UNCHANGED <<hasSchema, pw, last, sent, readerVars>>

ApproxEqual(a, b) ==
    /\ Len(a) = Len(b)
    /\ \A i \in 1 .. Len(a) : a[i] = b[i] \/ <<a[i], b[i]>> \in Tolerance

\* The dictionary field `id' is skipped when the one written last is equal to it.
SkipDict(id) == last[id] # NoDict /\ ApproxEqual(last[id], job.d[id])

\* Mutant of DeltaStart: a longer dictionary is taken for an extension.
DeltaStartUnchecked(id) ==
    IF last[id] # NoDict /\ EmitDeltas /\ Len(job.d[id]) > Len(last[id])
    THEN Len(last[id]) ELSE 0

\* deltaStart: how much of the dictionary the reader is expected to have already.
DeltaStart(id) ==
    LET old == last[id]
        new == job.d[id]
    IN  IF /\ old # NoDict
           /\ EmitDeltas
           /\ Len(new) > Len(old)
           /\ ApproxEqual(old, SubSeq(new, 1, Len(old)))
        THEN Len(old) ELSE 0

\* One round of the loop of writeDictionaryPayloads.
WriteDict ==
    /\ job.call = "write"
    /\ job.next \in Ids
    /\ LET id    == job.next
           start == DeltaStart(id)
           vals  == SubSeq(job.d[id], start + 1, Len(job.d[id]))
       IN  \/ /\ SkipDict(id)
              /\ job' = [job EXCEPT !.next = @ + 1]
              /\ UNCHANGED <<last, wErr, sinkVars>>
           \/ /\ ~SkipDict(id)
              /\ Put(DictMsg(id, start > 0, vals))
              /\ last' = [last EXCEPT ![id] = job.d[id]]
              /\ job' = [job EXCEPT !.next = @ + 1]
              /\ UNCHANGED wErr
           \/ /\ ~SkipDict(id)
              /\ Fail
              /\ UNCHANGED last
    /\ UNCHANGED <<hasSchema, wStarted, pw, sent, readerVars>>

\* The record payload: encoding it, or writing it, may fail.
WriteRecord ==
    /\ job.call = "write"
    /\ job.next = NumDicts + 1
    /\ \/ /\ Put(RecordMsg(job.n))
          /\ sent' = Append(sent, [n |-> job.n, d |-> job.d])
          /\ job' = Idle
          /\ UNCHANGED wErr
       \/ Fail /\ UNCHANGED sent
    /\ UNCHANGED <<hasSchema, wStarted, pw, last, readerVars>>

\* Close starts the stream if nothing was written; without a schema it fails before
\* writing anything.
Close ==
    /\ job = Idle
    /\ pw = "open"
    /\ IF wErr \/ hasSchema
       THEN /\ job' = [Idle EXCEPT !.call = "close",
                                   !.next = IF wStarted THEN NumDicts + 1 ELSE 0]
            /\ UNCHANGED <<wErr, pw, last>>
       ELSE /\ wErr' = TRUE
            /\ pw' = "nil"
            /\ last' = [id \in Ids |-> NoDict]
            /\ UNCHANGED job
    /\ UNCHANGED <<hasSchema, wStarted, sent, sinkVars, readerVars>>

\* pw.Close() writes the end of stream, after a failure too; the dictionaries are
\* released and pw is dropped whatever came of it.
CloseEnd ==
    /\ job.call = "close"
    /\ job.next = NumDicts + 1
    /\ \/ Put(EOS) /\ UNCHANGED wErr
       \/ Refuse /\ wErr' = TRUE
    /\ pw' = "nil"
    /\ last' = [id \in Ids |-> NoDict]
    /\ job' = Idle
    /\ UNCHANGED <<hasSchema, wStarted, sent, readerVars>>

----------------------------------------------------------------------------
(***************************************************************************)
(* ipc.Reader, called by one goroutine that calls Next until it returns    *)
(* FALSE and then, if there is another blob and no error, ContinueFrom.    *)
(***************************************************************************)
Blob  == blobs[rBlob]
Avail == rPos < Len(Blob)
Msg   == Blob[rPos + 1]
\* No more bytes will come in this blob: ReadFull returns EOF, which Message wraps.
Ended == ~Avail /\ (rBlob < Len(blobs) \/ pw = "nil")
\* Part of a message and no more: ErrUnexpectedEOF, once the writer is gone.
Truncated == Avail /\ Msg = CutMsg /\ pw = "nil"

\* NewReader: readSchema
NewReader ==
    /\ rState = "none"
    /\ \/ /\ Avail
          /\ Msg = SchemaMsg
          /\ rState' = "open"
          /\ rPos' = rPos + 1
       \/ /\ Ended \/ Truncated \/ (Avail /\ Msg = EOS)
          /\ rState' = "failed"
          /\ UNCHANGED rPos
    /\ UNCHANGED <<writerVars, sinkVars, rBlob, memo, nInit, readInitialDicts, rErr,
                   rDone, got>>

InNext == rState = "open" /\ ~rErr /\ ~rDone

\* readDictionary: AddDelta, or AddOrReplace
LoadDict(m) ==
    memo' = [memo EXCEPT ![m.id] = IF m.delta THEN Append(@, m.vals) ELSE << m.vals >>]

\* The loop of getInitialDicts reads a dictionary.  A schema without dictionaries
\* has nothing to wait for.
InitialDict ==
    /\ InNext
    /\ ~readInitialDicts
    /\ nInit < NumDicts
    /\ Avail
    /\ Msg.type = "dict"
    /\ LoadDict(Msg)
    /\ rPos' = rPos + 1
    /\ nInit' = nInit + 1
    /\ readInitialDicts' = (nInit + 1 = NumDicts)
    /\ UNCHANGED <<writerVars, sinkVars, rState, rBlob, rErr, rDone, got>>

\* Mutant of InitialEnd: the end of stream between two dictionaries is an error even
\* before the first.
InitialEndStrict ==
    /\ InNext
    /\ ~readInitialDicts
    /\ nInit < NumDicts
    /\ (Avail /\ Msg = EOS) \/ Ended \/ Truncated
    /\ rErr' = TRUE
    /\ rDone' = TRUE
    /\ UNCHANGED <<writerVars, sinkVars, rState, rBlob, rPos, memo, nInit,
                   readInitialDicts, got>>

\* getInitialDicts meets the end of its source.  Only the end-of-stream message is
\* the bare io.EOF the code compares with; the loop's i starts again from 0.
InitialEnd ==
    /\ InNext
    /\ ~readInitialDicts
    /\ nInit < NumDicts
    /\ \/ Avail /\ Msg = EOS /\ rErr' = (nInit > 0) /\ rPos' = rPos + 1
       \/ (Ended \/ Truncated) /\ rErr' = TRUE /\ UNCHANGED rPos
    /\ rDone' = TRUE
    /\ nInit' = 0
    /\ UNCHANGED <<writerVars, sinkVars, rState, rBlob, memo, readInitialDicts, got>>

DictsRead == readInitialDicts \/ NumDicts = 0

\* A dictionary between records
NextDict ==
    /\ InNext
    /\ DictsRead
    /\ Avail
    /\ Msg.type = "dict"
    /\ LoadDict(Msg)
    /\ rPos' = rPos + 1
    /\ UNCHANGED <<writerVars, sinkVars, rState, rBlob, nInit, readInitialDicts, rErr,
                   rDone, got>>

\* array.Concatenate: the values of the chunks one after the other
Concatenate(chunks) ==
    LET upto[i \in 1 .. Len(chunks)] ==
            IF i = 1 THEN chunks[i] ELSE upto[i - 1] \o chunks[i]
    IN IF chunks = << >> THEN << >> ELSE upto[Len(chunks)]

\* Memo.reify: the deltas are joined to the first chunk, once and for all.
Reify(chunks) == << Concatenate(chunks) >>

\* A record: newRecordBatch resolves each dictionary field in the memo.
NextRecord ==
    /\ InNext
    /\ DictsRead
    /\ Avail
    /\ Msg.type = "record"
    /\ memo' = [id \in Ids |-> Reify(memo[id])]
    /\ got' = Append(got, [n |-> Msg.n, d |-> [id \in Ids |-> Head(memo'[id])]])
    /\ rPos' = rPos + 1
    /\ UNCHANGED <<writerVars, sinkVars, rState, rBlob, nInit, readInitialDicts, rErr,
                   rDone>>

\* Mutant of NextEnd: a truncated message is taken for the end of the source.
NextEndTruncated ==
    /\ InNext
    /\ DictsRead
    /\ (Avail /\ Msg = EOS) \/ Ended \/ Truncated
    /\ rDone' = TRUE
    /\ UNCHANGED <<writerVars, sinkVars, rState, rBlob, rPos, memo, nInit,
                   readInitialDicts, rErr, got>>

\* The end of the source: errors.Is(err, io.EOF) covers the wrapped one too.
NextEnd ==
    /\ InNext
    /\ DictsRead
    /\ \/ Avail /\ Msg = EOS /\ UNCHANGED rErr /\ rPos' = rPos + 1
       \/ Ended /\ UNCHANGED <<rErr, rPos>>
       \/ Truncated /\ rErr' = TRUE /\ UNCHANGED rPos
    /\ rDone' = TRUE
    /\ UNCHANGED <<writerVars, sinkVars, rState, rBlob, memo, nInit, readInitialDicts, got>>

\* ContinueFrom refuses a reader that failed.
ContinueFrom ==
    /\ rState = "open"
    /\ rDone
    /\ ~rErr
    /\ rBlob < Len(blobs)
    /\ rBlob' = rBlob + 1
    /\ rPos' = 0
    /\ rDone' = FALSE
    /\ UNCHANGED <<writerVars, sinkVars, rState, memo, nInit, readInitialDicts, rErr, got>>

----------------------------------------------------------------------------
WriterStep == Start \/ WriteDict \/ WriteRecord \/ CloseEnd

WriterCall ==
    \/ \E d \in BatchDicts : Write(d)
    \/ WriteMismatched
    \/ WriteClosed
    \/ Close

ReaderStep ==
    NewReader \/ InitialDict \/ InitialEnd \/ NextDict \/ NextRecord \/ NextEnd \/ ContinueFrom

Next == WriterCall \/ WriterStep \/ Split \/ ReaderStep

\* A call that was made runs to its end; the writer is closed in the end (defer
\* w.Close()), and the reading goroutine keeps reading.
Fairness == WF_vars(WriterStep) /\ WF_vars(Close) /\ WF_vars(ReaderStep)

Spec == Init /\ [][Next]_vars /\ Fairness

----------------------------------------------------------------------------
\* A reader that ends without an error at the end of the last blob of a closed
\* stream has returned every batch written, and nothing was cut short: Reader.Next
\* returning false with Err() nil means complete.
CleanEnd ==
    rDone /\ ~rErr /\ rBlob = Len(blobs) /\ pw = "nil" => got = sent /\ ~broken

\* The reader only fails on a stream whose writer failed.  In particular a stream
\* handed over as blobs, each but the last ending with a record, does no harm:
\* ContinueFrom clears what the end of a blob left and keeps the dictionaries.
NoSpuriousError == rErr => wErr

\* Once the writer has failed it writes no schema, dictionary or record any more:
\* the failure is terminal, and only Close's end of stream may follow.
FailureIsTerminal ==
    [][wErr /\ Len(blobs') = Len(blobs) /\ blobs' # blobs
         => Latest' \in {EOS, CutMsg}]_vars

\* The abstract record stream, with this module's sent, got and states of the two ends
Stream == INSTANCE RecordStream WITH Batch <- Records

\* The stream implements the abstract record stream.  What the reader returns is what was written: the batches whose
\* Write succeeded, in order, each with the dictionaries it was written with, whatever was skipped, sent as a delta,
\* replaced, or split between blobs on the way (writeDictionaryPayloads against readDictionary and Memo.reify).
ImplementsStream == Stream!Spec

\* A stream closed without an error reaches its reader whole: ContinueFrom and Next
\* never leave the reader waiting for something that is already there.
AllArrives == (pw = "nil" /\ ~wErr) ~> (got = sent)
=============================================================================
