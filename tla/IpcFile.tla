------------------------------ MODULE IpcFile ------------------------------
(***************************************************************************)
(* The Arrow IPC file format: ipc.FileWriter writing payloads and, at the  *)
(* end, a footer that lists where the dictionary and record blocks are;    *)
(* ipc.FileReader loading every dictionary of the footer and then reading  *)
(* any record.  An error of Write is not remembered: the caller may go on  *)
(* writing after it.                                                       *)
(*                                                                         *)
(* Only what the footer refers to is kept of the bytes of the file, and    *)
(* the position of the writer modulo the block alignment.                  *)
(***************************************************************************)
EXTENDS Integers, Sequences, SequencesExt

CONSTANTS
    NumDicts,       \* dictionary fields of the schema
    Dicts,          \* the dictionaries a field may have
    Cuts,           \* bytes, modulo Alignment, that a failed write leaves behind
    MaxWrites       \* bound on the calls of Write

Alignment == 8      \* IsMultipleOf8

VARIABLES
    headerStarted, closed, closeErr,    \* fields of FileWriter
    mapped,         \* start() got as far as ImportSchema
    last,           \* FileWriter.lastWrittenDicts
    job,            \* the call in progress
    calls,          \* calls of Write so far
    sent,           \* batches whose Write returned nil
    pos,            \* fileWriter.pos modulo Alignment
    dicts, recs,    \* fileWriter.dicts and recs: the blocks for the footer
    footer,         \* the footer and the magic that ends the file are written
    torn            \* some write left a part of its bytes behind

fileVars == <<pos, dicts, recs, torn>>
vars == <<headerStarted, closed, closeErr, mapped, last, job, calls, sent, fileVars, footer>>

Ids    == 1 .. NumDicts
NoDict == << -1 >>
Idle   == [call |-> "none", next |-> 0, n |-> 0, d |-> << >>]

Init ==
    /\ headerStarted = FALSE
    /\ closed = FALSE
    /\ closeErr = FALSE
    /\ mapped = FALSE
    /\ last = [id \in Ids |-> NoDict]
    /\ job = Idle
    /\ calls = 0
    /\ sent = << >>
    /\ pos = 0
    /\ dicts = << >>
    /\ recs = << >>
    /\ footer = FALSE
    /\ torn = FALSE

\* A write that failed: k bytes of it count in pos.
Refuse == \E k \in Cuts : /\ pos' = (pos + k) % Alignment
                          /\ torn' = (torn \/ k # 0)
                          /\ UNCHANGED <<dicts, recs>>

\* Payloads are padded to a multiple of Alignment, whatever pos is.
Accept == UNCHANGED <<pos, torn>>

\* Write of a batch with the writer's schema; any other is refused before anything.
Write(d) ==
    /\ job = Idle
    /\ ~closed
    /\ calls < MaxWrites
    /\ calls' = calls + 1
    /\ job' = [call |-> "write", next |-> IF headerStarted THEN 1 ELSE 0, n |-> calls + 1,
               d |-> d]
    /\ UNCHANGED <<headerStarted, closed, closeErr, mapped, last, sent, fileVars, footer>>

\* Close: only the first call does anything.
Close ==
    /\ job = Idle
    /\ ~closed
    /\ closed' = TRUE
    /\ job' = [Idle EXCEPT !.call = "close",
                           !.next = IF headerStarted THEN NumDicts + 1 ELSE 0]
    /\ UNCHANGED <<headerStarted, closeErr, mapped, last, calls, sent, fileVars, footer>>

\* The call in progress returns an error.
GiveUp ==
    /\ job' = Idle
    /\ closeErr' = (job.call = "close")
    /\ last' = IF job.call = "close" THEN [id \in Ids |-> NoDict] ELSE last

\* start(): headerStarted is set first, so that a start that failed is not tried
\* again; the magic, padded to the alignment; the schema.
Start ==
    /\ job # Idle
    /\ job.next = 0
    /\ headerStarted' = TRUE
    /\ \/ /\ mapped' = TRUE
          /\ Accept
          /\ job' = [job EXCEPT !.next = IF job.call = "close" THEN NumDicts + 1 ELSE 1]
          /\ UNCHANGED <<dicts, recs, closeErr, last>>
       \/ /\ mapped' \in BOOLEAN
          /\ Refuse
          /\ GiveUp
    /\ UNCHANGED <<closed, calls, sent, footer>>

\* Mutants of WriteDict: a dictionary is entered in lastWrittenDicts before it is
\* written; a different dictionary is passed over.
WriteDictEntersFirst ==
    /\ job.call = "write"
    /\ job.next \in Ids
    /\ mapped
    /\ LET id == job.next
       IN  /\ last[id] \in {NoDict, job.d[id]}
           /\ last' = [last EXCEPT ![id] = job.d[id]]
           /\ \/ /\ last[id] = NoDict
                 /\ Accept
                 /\ dicts' = Append(dicts, [id |-> id, vals |-> job.d[id], offset |-> pos])
                 /\ job' = [job EXCEPT !.next = @ + 1]
                 /\ UNCHANGED recs
              \/ last[id] = NoDict /\ Refuse /\ job' = Idle
              \/ last[id] # NoDict /\ UNCHANGED fileVars /\ job' = [job EXCEPT !.next = @ + 1]
    /\ UNCHANGED <<headerStarted, closed, closeErr, mapped, calls, sent, footer>>

\* writeDictionaryPayloads, for one field: equal dictionaries are passed over, a
\* different one is an error, because a file can neither replace nor extend.
WriteDict ==
    /\ job.call = "write"
    /\ job.next \in Ids
    /\ LET id == job.next
       IN  \/ /\ mapped
              /\ last[id] = job.d[id]
              /\ job' = [job EXCEPT !.next = @ + 1]
              /\ UNCHANGED <<last, closeErr, fileVars>>
           \/ /\ ~mapped \/ last[id] \notin {NoDict, job.d[id]}
              /\ GiveUp
              /\ UNCHANGED fileVars
           \/ /\ mapped
              /\ last[id] = NoDict
              /\ Accept
              /\ dicts' = Append(dicts, [id |-> id, vals |-> job.d[id], offset |-> pos])
              /\ last' = [last EXCEPT ![id] = job.d[id]]
              /\ job' = [job EXCEPT !.next = @ + 1]
              /\ UNCHANGED <<recs, closeErr>>
           \/ /\ mapped
              /\ last[id] = NoDict
              /\ Refuse
              /\ GiveUp
    /\ UNCHANGED <<headerStarted, closed, mapped, calls, sent, footer>>

\* The record: encoding it may fail, writing it may fail.
WriteRecord ==
    /\ job.call = "write"
    /\ job.next = NumDicts + 1
    /\ \/ /\ Accept
          /\ recs' = Append(recs, [n |-> job.n, offset |-> pos])
          /\ sent' = Append(sent, [n |-> job.n, d |-> job.d])
          /\ job' = Idle
          /\ UNCHANGED <<dicts, last, closeErr>>
       \/ Refuse /\ GiveUp /\ UNCHANGED sent
    /\ UNCHANGED <<headerStarted, closed, mapped, calls, footer>>

\* fileWriter.Close: end of stream, footer, footer size, magic.
CloseEnd ==
    /\ job.call = "close"
    /\ job.next = NumDicts + 1
    /\ \/ /\ footer' = TRUE
          /\ Accept
          /\ job' = Idle
          /\ last' = [id \in Ids |-> NoDict]
          /\ UNCHANGED <<dicts, recs, closeErr>>
       \/ Refuse /\ GiveUp /\ UNCHANGED footer
    /\ UNCHANGED <<headerStarted, closed, mapped, calls, sent>>

Next ==
    \/ \E d \in [Ids -> Dicts] : Write(d)
    \/ Close
    \/ Start
    \/ WriteDict
    \/ WriteRecord
    \/ CloseEnd

Spec == Init /\ [][Next]_vars

----------------------------------------------------------------------------
(***************************************************************************)
(* ipc.FileReader on the finished file.                                    *)
(***************************************************************************)
\* readSchema: the blocks listed as dictionaries must be aligned, and no dictionary
\* may be replaced by a later one.
Opens ==
    /\ footer
    /\ \A i \in 1 .. Len(dicts) : dicts[i].offset % Alignment = 0
    /\ \A i, j \in 1 .. Len(dicts) : dicts[i].id = dicts[j].id => i = j

\* RecordBatchAt(i - 1), for an i within NumRecords
RecordReadable(i) ==
    /\ recs[i].offset % Alignment = 0
    /\ \A id \in Ids : \E j \in 1 .. Len(dicts) : dicts[j].id = id

\* Memo.Dict
MemoDict(id) == dicts[CHOOSE j \in 1 .. Len(dicts) : dicts[j].id = id].vals

RecordBatchAt(i) == [n |-> recs[i].n, d |-> [id \in Ids |-> MemoDict(id)]]

----------------------------------------------------------------------------
\* A file whose writes were all or nothing, and whose Close returned nil, opens, and
\* holds exactly the batches whose Write returned nil, in order and with their
\* dictionaries, whatever failed in between and was tried again: in particular the
\* footer lists one dictionary for each field, as FileReader refuses a file with a
\* "dictionary replacement" (file_reader.go:346).
ReadsBack ==
    closed /\ job = Idle /\ ~closeErr /\ ~torn =>
        /\ Opens
        /\ Len(recs) = Len(sent)
        /\ \A i \in 1 .. Len(recs) : RecordReadable(i) /\ RecordBatchAt(i) = sent[i]

\* Also after torn writes: what can be read at all is what was written there.
NeverWrongData ==
    Opens => \A i \in 1 .. Len(recs) : RecordReadable(i) => RecordBatchAt(i) = sent[i]
=============================================================================
