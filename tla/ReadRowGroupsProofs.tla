------------------------ MODULE ReadRowGroupsProofs ------------------------
(***************************************************************************)
(* Proofs about ReadRowGroups, for any number of field readers.            *)
(***************************************************************************)
EXTENDS ReadRowGroups, TLAPS

LEMMA InitTypes == Init => TypeOK
<1> SUFFICES ASSUME Init PROVE TypeOK
    OBVIOUS
<1>1. CallerTypes
      <2>1. idx \in 0 .. NumReaders
            BY NumReadersAssumption DEF Init
      <2>2. rdr \in [Readers -> {"nil", "open", "failed", "released"}] /\ columns \in [Readers -> BOOLEAN]
            BY DEF Init
      <2> QED BY <2>1, <2>2, Zenon DEF Init, CallerTypes
<1>2. ch \in Seq(Readers) /\ results \in Seq(Pairs)
      <2>1. ch = << >> /\ results = << >>
            BY DEF Init
      <2> QED BY <2>1
<1>3. job \in [Workers -> Pairs]
      BY NumReadersAssumption DEF Init, Workers, Readers, NoJob, Pairs
<1>4. refs \in [Readers -> Int] /\ wpc \in [Workers -> {"idle", "select", "read", "send", "done"}]
      BY DEF Init
<1>5. chClosed \in BOOLEAN /\ resultsClosed \in BOOLEAN
      BY Zenon DEF Init
<1> QED BY <1>1, <1>2, <1>3, <1>4, <1>5 DEF TypeOK, SharedTypes

\* The steps of the caller and of the goroutine that closes results.
LEMMA CallerTypesStep ==
    ASSUME TypeOK, ParentCancel \/ Caller \/ CloseResults PROVE TypeOK'
<1> USE NumReadersAssumption
<1>1. CASE ParentCancel
      BY <1>1 DEF ParentCancel, TypeOK, CallerTypes, SharedTypes, fetchVars, workerVars
<1>2. ASSUME NEW c \in Readers, FetchField(c) PROVE TypeOK'
      BY <1>2, Zenon DEF FetchField, TypeOK, CallerTypes, SharedTypes, workerVars
<1>3. CASE FetchEnd
      BY <1>3 DEF FetchEnd, ReleaseOpen, TypeOK, CallerTypes, SharedTypes
<1>4. ASSUME NEW out \in {"table", "error"}, Return(out, refs)
      PROVE  /\ pc' = "returned" /\ outcome' \in {"table", "error"}
             /\ refs' \in [Readers -> Int]
             /\ rdr' \in [Readers -> {"nil", "open", "failed", "released"}]
             /\ cancelled' \in BOOLEAN
      <2>1. refs' \in [Readers -> Int]
            BY <1>4 DEF Return, TypeOK, SharedTypes
      <2>2. rdr' \in [Readers -> {"nil", "open", "failed", "released"}]
            BY <1>4 DEF Return, ReleaseOpen, TypeOK, CallerTypes
      <2> QED BY <1>4, <2>1, <2>2 DEF Return
<1>5. CASE SerialRead
      <2>1. /\ idx \in Readers /\ idx + 1 \in 0 .. NumReaders
            BY <1>5 DEF SerialRead, Readers, TypeOK, CallerTypes
      <2>2. CASE Return("error", refs) /\ UNCHANGED <<columns, idx>>
            BY <1>4, <1>5, <2>2 DEF SerialRead, TypeOK, CallerTypes, SharedTypes, workerVars
      <2>3. CASE /\ columns' = [columns EXCEPT ![idx] = TRUE]
                 /\ refs' = [refs EXCEPT ![idx] = 1]
                 /\ idx' = idx + 1
                 /\ UNCHANGED <<pc, outcome, rdr, cancelled>>
            <3>1. columns' \in [Readers -> BOOLEAN] /\ refs' \in [Readers -> Int]
                  BY <2>1, <2>3 DEF TypeOK, CallerTypes, SharedTypes
            <3> QED BY <1>5, <2>1, <2>3, <3>1 DEF SerialRead, TypeOK, CallerTypes, SharedTypes, workerVars
      <2> QED BY <1>5, <2>2, <2>3 DEF SerialRead
<1>6. CASE SerialEnd
      BY <1>4, <1>6 DEF SerialEnd, TypeOK, CallerTypes, SharedTypes, workerVars
<1>7. CASE CloseResults
      BY <1>7 DEF CloseResults, TypeOK, CallerTypes, SharedTypes, fetchVars, workerVars
<1>8. CASE Push
      <2>1. CASE idx < NumReaders
            <3>1. idx \in Readers /\ idx' \in 0 .. NumReaders
                  BY <1>8, <2>1 DEF Push, Readers, TypeOK, CallerTypes
            <3>2. ch' = Append(ch, idx) /\ UNCHANGED <<pc, chClosed>>
                  BY <1>8, <2>1, <3>1 DEF Push, Readers
            <3>3. ch' \in Seq(Readers)
                  BY <3>1, <3>2 DEF TypeOK, SharedTypes
            <3> QED BY <1>8, <3>1, <3>2, <3>3 DEF Push, TypeOK, CallerTypes, SharedTypes, fetchVars, workerVars
      <2>2. CASE idx = NumReaders
            <3>1. chClosed' = TRUE /\ pc' = "collect" /\ UNCHANGED <<ch, idx>>
                  BY <1>8, <2>2 DEF Push
            <3> QED BY <1>8, <3>1 DEF Push, TypeOK, CallerTypes, SharedTypes, fetchVars, workerVars
      <2> QED BY <1>8, <2>1, <2>2 DEF Push
<1>9. ASSUME results # << >>
      PROVE  /\ Head(results).idx \in Readers
             /\ Tail(results) \in Seq(Pairs)
      <2>1. Head(results) \in Pairs /\ Tail(results) \in Seq(Pairs)
            BY <1>9 DEF TypeOK, SharedTypes
      <2> QED BY <2>1 DEF Pairs
<1>10. CASE Collect
      <2>1. results' \in Seq(Pairs)
            BY <1>9, <1>10 DEF Collect
      <2>2. refs' \in [Readers -> Int]
            BY <1>9, <1>10 DEF Collect, TypeOK, SharedTypes
      <2>3. columns' \in [Readers -> BOOLEAN] /\ err' \in BOOLEAN /\ cancelled' \in BOOLEAN
            BY <1>9, <1>10, Zenon DEF Collect, TypeOK, CallerTypes
      <2> QED BY <1>10, <2>1, <2>2, <2>3 DEF Collect, TypeOK, CallerTypes, SharedTypes, fetchVars, workerVars
<1>11. CASE CollectEnd
      BY <1>11 DEF CollectEnd, TypeOK, CallerTypes, SharedTypes, fetchVars, workerVars
<1>12. CASE Check
      <2>1. err' \in BOOLEAN
            BY <1>12 DEF Check
      <2>2. CASE err'
            BY <1>12, <2>1, <2>2 DEF Check, TypeOK, CallerTypes, SharedTypes, workerVars
      <2>3. CASE ~err'
            BY <1>4, <1>12, <2>1, <2>3 DEF Check, TypeOK, CallerTypes, SharedTypes, workerVars
      <2> QED BY <2>1, <2>2, <2>3
<1>13. CASE Drain
      <2>1. CASE results # << >>
            <3>1. results' \in Seq(Pairs)
                  BY <1>9, <1>13, <2>1 DEF Drain
            <3>2. refs' \in [Readers -> Int]
                  BY <1>9, <1>13, <2>1 DEF Drain, TypeOK, SharedTypes
            <3> QED BY <1>13, <2>1, <3>1, <3>2 DEF Drain, TypeOK, CallerTypes, SharedTypes, workerVars
      <2>2. CASE results = << >>
            BY <1>4, <1>13, <2>2 DEF Drain, TypeOK, CallerTypes, SharedTypes, workerVars
      <2> QED BY <2>1, <2>2
<1> QED BY <1>1, <1>2, <1>3, <1>5, <1>6, <1>7, <1>8, <1>10, <1>11, <1>12, <1>13 DEF Caller

LEMMA WorkerTypesStep ==
    ASSUME TypeOK, NEW w \in Workers, Worker(w) PROVE TypeOK'
<1>1. NumReaders > 0 /\ NoJob \in Pairs
      BY NumReadersAssumption DEF Workers, Readers, NoJob, Pairs
<1>2. CASE WorkerTake(w)
      <2>1. Head(ch) \in Readers /\ Tail(ch) \in Seq(Readers)
            BY <1>2 DEF WorkerTake, TypeOK, SharedTypes
      <2>2. [NoJob EXCEPT !.idx = Head(ch)] \in Pairs
            BY <2>1, Zenon DEF NoJob, Pairs
      <2> QED BY <1>2, <2>1, <2>2 DEF WorkerTake, TypeOK, CallerTypes, SharedTypes, workerFrame, fetchVars
<1>3. CASE WorkerExit(w)
      BY <1>3 DEF WorkerExit, TypeOK, CallerTypes, SharedTypes, workerFrame, fetchVars
<1>4. CASE WorkerRead(w)
      <2>1. PICK o \in ReadOutcomes :
              /\ job' = [job EXCEPT ![w].data = o.data, ![w].err = o.err]
              /\ refs' = [refs EXCEPT ![job[w].idx] = IF o.data THEN @ + 1 ELSE @]
            BY <1>4, Zenon DEF WorkerRead
      <2>2. o.data \in BOOLEAN /\ o.err \in BOOLEAN
            BY <2>1 DEF ReadOutcomes
      <2>3. job[w] \in Pairs
            BY DEF TypeOK, SharedTypes
      <2>4. job' \in [Workers -> Pairs]
            BY <2>1, <2>2, <2>3, Zenon DEF TypeOK, SharedTypes, Pairs
      <2>5. refs' \in [Readers -> Int]
            BY <2>1, <2>3 DEF TypeOK, SharedTypes, Pairs
      <2> QED BY <1>4, <2>4, <2>5 DEF WorkerRead, TypeOK, CallerTypes, SharedTypes, workerFrame, fetchVars
<1>5. CASE WorkerSend(w)
      <2>1. Append(results, job[w]) \in Seq(Pairs)
            BY DEF TypeOK, SharedTypes
      <2> QED BY <1>1, <1>5, <2>1 DEF WorkerSend, TypeOK, CallerTypes, SharedTypes, workerFrame, fetchVars
<1> QED BY <1>2, <1>3, <1>4, <1>5 DEF Worker

LEMMA TypeStep == TypeOK /\ [Next]_vars => TypeOK'
<1> SUFFICES ASSUME TypeOK, [Next]_vars PROVE TypeOK'
    OBVIOUS
<1>1. CASE UNCHANGED vars
      BY <1>1 DEF vars, TypeOK, CallerTypes, SharedTypes
<1> QED BY <1>1, CallerTypesStep, WorkerTypesStep DEF Next

-----------------------------------------------------------------------------
\* Between the opening of the readers and the return of the call.
Reading == pc \in {"serial", "push", "collect", "check", "drain"}

\* Why the call is safe: the workers exist only while the call reads, results is
\* closed only when they are all done, and the caller leaves the first loop over
\* results without an error, and the second one at all, only once it is closed.
Lifecycle ==
    /\ pc = "fetch" => \A w \in Workers : wpc[w] = "idle"
    /\ pc \in {"serial", "returned"} => WorkersGone
    /\ (pc = "fetch" /\ ~fetchErr) => \A c \in Readers : rdr[c] \in {"nil", "open"}
    /\ Reading => \A c \in Readers : rdr[c] = "open"
    /\ pc = "fetch" => ~resultsClosed
    /\ resultsClosed => WorkersGone
    /\ (pc = "check" /\ ~err) => resultsClosed

LEMMA InitLifecycle == Init => Lifecycle
BY DEF Init, Lifecycle, Reading, WorkersGone

LEMMA LifecycleStep == TypeOK /\ Lifecycle /\ [Next]_vars => Lifecycle'
<1> SUFFICES ASSUME TypeOK, Lifecycle, [Next]_vars PROVE Lifecycle'
    OBVIOUS
<1> USE DEF Lifecycle, Reading, WorkersGone
<1>1. CASE ParentCancel
      BY <1>1 DEF ParentCancel, fetchVars, workerVars
<1>2. ASSUME NEW c \in Readers, FetchField(c) PROVE Lifecycle'
      BY <1>2 DEF FetchField, workerVars, TypeOK, CallerTypes
<1>3. CASE FetchEnd
      BY <1>3 DEF FetchEnd, Unfetched, ReleaseOpen, TypeOK, CallerTypes, SharedTypes
<1>4. CASE SerialRead
      BY <1>4 DEF SerialRead, Return, workerVars
<1>5. CASE SerialEnd
      BY <1>5 DEF SerialEnd, Return, workerVars
<1>6. CASE CloseResults
      BY <1>6 DEF CloseResults, fetchVars, workerVars
<1>7. CASE Push
      BY <1>7 DEF Push, fetchVars, workerVars
<1>8. CASE Collect
      BY <1>8 DEF Collect, fetchVars, workerVars
<1>9. CASE CollectEnd
      BY <1>9 DEF CollectEnd, fetchVars, workerVars
<1>10. CASE Check
      BY <1>10, Zenon DEF Check, Return, workerVars
<1>11. CASE Drain
      BY <1>11 DEF Drain, Return, workerVars
<1>12. ASSUME NEW w \in Workers, Worker(w) PROVE Lifecycle'
      BY <1>12 DEF Worker, WorkerTake, WorkerExit, WorkerRead, WorkerSend, workerFrame,
                   fetchVars, TypeOK, SharedTypes
<1>13. CASE UNCHANGED vars
      BY <1>13 DEF vars
<1> QED BY <1>1, <1>2, <1>3, <1>4, <1>5, <1>6, <1>7, <1>8, <1>9, <1>10, <1>11, <1>12,
           <1>13 DEF Next, Caller

-----------------------------------------------------------------------------
(***************************************************************************)
(* The accounting of column data.  While a parallel call reads, column c   *)
(* is in one place: still to be taken by a worker, with a worker, in       *)
(* results, in columns, or dropped after an error.                         *)
(***************************************************************************)
Collecting == pc \in {"push", "collect", "check", "drain"}
Taken      == idx - Len(ch)     \* the number of readers the workers have taken from ch
Holds(w)   == wpc[w] \in {"read", "send"}
Places     == 1 .. Len(results)

\* Nothing is read before the readers are open; the serial loop has read the columns before idx.
Serial ==
    pc \in {"fetch", "serial"} =>
        /\ ch = << >> /\ results = << >> /\ (pc = "fetch" => idx = 0 /\ ~chClosed)
        /\ \A c \in Readers : (columns[c] <=> c < idx) /\ refs[c] = IF c < idx THEN 1 ELSE 0

\* The readers go through ch in order, and no worker leaves before they are all taken
\* unless the context is done.
Feed ==
    /\ Taken >= 0
    /\ \A i \in 1 .. Len(ch) : ch[i] = Taken + i - 1
    /\ pc # "push" => idx = NumReaders
    /\ chClosed => pc # "push"
    /\ \A w \in Workers : wpc[w] # "idle" /\ (wpc[w] = "done" => (chClosed /\ ch = << >>) \/ ctxDone)
    /\ pc = "check" /\ ~err => results = << >>
    /\ pc = "drain" => err

\* No column is in two places, and a read has brought data or an error.
Apart ==
    /\ \A w \in Workers : Holds(w) => job[w].idx < Taken /\ ~columns[job[w].idx]
    /\ \A i \in Places : results[i].idx < Taken /\ ~columns[results[i].idx]
    /\ \A c \in Readers : columns[c] => c < Taken
    /\ \A v, w \in Workers : Holds(v) /\ Holds(w) /\ job[v].idx = job[w].idx => v = w
    /\ \A i, j \in Places : results[i].idx = results[j].idx => i = j
    /\ \A w \in Workers, i \in Places : Holds(w) => results[i].idx # job[w].idx
    /\ \A w \in Workers : wpc[w] = "send" => job[w].data \/ job[w].err
    /\ \A i \in Places : results[i].data \/ results[i].err

\* A column's data is referred to exactly while it is somewhere.
SentData(c)   == \E w \in Workers : wpc[w] = "send" /\ job[w].idx = c /\ job[w].data
ResultData(c) == \E i \in Places : results[i].idx = c /\ results[i].data
Counted ==
    \A c \in Readers : refs[c] = IF columns[c] \/ SentData(c) \/ ResultData(c) THEN 1 ELSE 0

\* Without an error no column that was taken is dropped.
Somewhere(c) ==
    \/ columns[c]
    \/ \E w \in Workers : Holds(w) /\ job[w].idx = c
    \/ \E i \in Places : results[i].idx = c
NoneLost == ~err => \A c \in Readers : c < Taken => Somewhere(c)

Ended ==
    /\ pc # "returned" <=> outcome = "none"
    /\ outcome = "table" => \A c \in Readers : columns[c] /\ refs[c] = 1
    /\ outcome = "error" => \A c \in Readers : refs[c] = 0 /\ rdr[c] # "open"

Accounts == Serial /\ (Collecting => Feed /\ Apart /\ Counted /\ NoneLost) /\ Ended

IInv == TypeOK /\ Lifecycle /\ Accounts

LEMMA InitAccounts == Init => Accounts
<1> SUFFICES ASSUME Init PROVE Accounts
    OBVIOUS
<1>1. Serial
      BY DEF Init, Serial, Readers
<1> QED BY <1>1 DEF Init, Accounts, Collecting, Ended

\* The steps before the workers and after them.
LEMMA FetchAccounts == ASSUME IInv, NEW c \in Readers, FetchField(c) PROVE Accounts'
<1> USE DEF FetchField, workerVars
<1>1. Serial'
      BY DEF IInv, Accounts, Serial
<1> QED BY <1>1 DEF IInv, Accounts, Collecting, Ended

LEMMA FetchEndAccounts == ASSUME IInv, FetchEnd PROVE Accounts'
<1> USE DEF IInv, Accounts, FetchEnd
<1>1. CASE fetchErr
      BY <1>1, NumReadersAssumption DEF Serial, Ended, Collecting, ReleaseOpen, Readers, TypeOK, CallerTypes
<1>2. CASE ~fetchErr
      <2>1. Serial'
            BY <1>2 DEF Serial
      <2>2. Ended'
            BY <1>2 DEF Ended
      <2>3. ASSUME Collecting' PROVE parallel /\ (Feed /\ Apart /\ Counted /\ NoneLost)'
            <3>1. parallel /\ pc' = "push" /\ ch' = << >> /\ results' = << >> /\ idx' = 0 /\ ~chClosed'
                  BY <1>2, <2>3 DEF Serial, Collecting
            <3>2. \A w \in Workers : wpc'[w] = "select"
                  BY <1>2, <3>1
            <3>3. \A c \in Readers : ~columns'[c] /\ refs'[c] = 0
                  BY <1>2, NumReadersAssumption DEF Serial, Readers
            <3>4. Len(ch') = 0 /\ Len(results') = 0
                  BY <3>1
            <3> QED BY <3>1, <3>2, <3>3, <3>4 DEF Feed, Apart, Counted, NoneLost, Taken, Holds, Places,
                                               SentData, ResultData, Readers
      <2> QED BY <2>1, <2>2, <2>3
<1> QED BY <1>1, <1>2

LEMMA SerialReadAccounts == ASSUME IInv, SerialRead PROVE Accounts'
<1> USE DEF IInv, Accounts, SerialRead, workerVars
<1>1. PICK o \in ReadOutcomes :
         IF o.err
           THEN Return("error", refs) /\ UNCHANGED <<columns, idx>>
           ELSE /\ columns' = [columns EXCEPT ![idx] = TRUE]
                /\ refs' = [refs EXCEPT ![idx] = 1]
                /\ idx' = idx + 1
                /\ UNCHANGED <<pc, outcome, rdr, cancelled>>
      OBVIOUS
<1>2. CASE o.err
      <2>1. /\ pc' = "returned" /\ outcome' = "error" /\ rdr' = ReleaseOpen
            /\ refs' = [c \in Readers |-> IF columns[c] /\ "error" # "table" THEN refs[c] - 1 ELSE refs[c]]
            BY <1>1, <1>2 DEF Return
      <2>2. Serial' /\ ~Collecting'
            BY <2>1 DEF Serial, Collecting
      <2>3. \A c \in Readers : refs[c] = IF columns[c] THEN 1 ELSE 0
            BY DEF Serial
      <2>4. \A c \in Readers : refs'[c] = 0
            BY <2>1, <2>3
      <2>5. \A c \in Readers : rdr'[c] # "open"
            BY <2>1 DEF ReleaseOpen
      <2> QED BY <2>1, <2>2, <2>4, <2>5 DEF Ended
<1>3. CASE ~o.err
      <2>1. idx \in Readers /\ Readers \subseteq Int
            BY NumReadersAssumption DEF Readers, TypeOK, CallerTypes
      <2>2. Serial'
            BY <1>1, <1>3, <2>1 DEF Serial, TypeOK, CallerTypes, SharedTypes
      <2> QED BY <1>1, <1>3, <2>2 DEF Collecting, Ended
<1> QED BY <1>2, <1>3

LEMMA SerialEndAccounts == ASSUME IInv, SerialEnd PROVE Accounts'
<1> USE DEF IInv, Accounts, SerialEnd, workerVars, Return
<1>1. CASE ctxDone /\ Return("error", refs)
      BY <1>1 DEF ReleaseOpen, Serial, Ended, Collecting, TypeOK, CallerTypes
<1>2. CASE ~ctxDone /\ idx = NumReaders /\ Return("table", refs)
      <2>1. \A c \in Readers : columns[c] /\ refs[c] = 1
            BY <1>2, NumReadersAssumption DEF Serial, Readers
      <2>2. refs' = [c \in Readers |-> refs[c]]
            BY <1>2
      <2> QED BY <1>2, <2>1, <2>2 DEF Serial, Ended, Collecting
<1> QED BY <1>1, <1>2, Zenon

\* What a step of the caller or of a worker that reads may use.
LEMMA CollectingFacts ==
    ASSUME IInv, Collecting
    PROVE  /\ Feed /\ Apart /\ Counted /\ NoneLost
           /\ idx \in Nat /\ Len(ch) \in Nat /\ Len(results) \in Nat /\ Taken \in Nat
           /\ Readers \subseteq Nat
           /\ \A i \in Places : results[i] \in Pairs /\ results[i].idx \in Readers
           /\ \A w \in Workers : job[w] \in Pairs /\ job[w].idx \in Readers
<1>1. Feed /\ Apart /\ Counted /\ NoneLost
      BY DEF IInv, Accounts
<1>2. idx \in Nat /\ Len(ch) \in Nat /\ Len(results) \in Nat
      BY NumReadersAssumption DEF IInv, TypeOK, CallerTypes, SharedTypes
<1>3. Taken \in Nat
      BY <1>1, <1>2 DEF Feed, Taken
<1>4. Readers \subseteq Nat
      BY NumReadersAssumption DEF Readers
<1>5. \A i \in Places : results[i] \in Pairs
      BY DEF Places, IInv, TypeOK, SharedTypes
<1>6. \A w \in Workers : job[w] \in Pairs
      BY DEF IInv, TypeOK, SharedTypes
<1> QED BY <1>1, <1>2, <1>3, <1>4, <1>5, <1>6 DEF Pairs

LEMMA PushAccounts == ASSUME IInv, Push PROVE Accounts'
<1>1. pc = "push" /\ Collecting /\ UNCHANGED <<wpc, job, parentDone, cancelled, err, columns, refs, results, outcome>>
      BY DEF Push, Collecting, workerVars
<1>2. Feed /\ Apart /\ Counted /\ NoneLost /\ idx \in Nat /\ Len(ch) \in Nat /\ Taken \in Nat
      BY <1>1, CollectingFacts
<1>3. Serial' /\ Ended' /\ Collecting'
      BY <1>1 DEF Push, IInv, Accounts, Serial, Ended, Collecting
<1>4. /\ Taken' = Taken
      /\ Feed'
      <2>1. CASE idx < NumReaders
            <3>1. ch' = Append(ch, idx) /\ idx' = idx + 1 /\ UNCHANGED <<pc, chClosed>>
                  BY <1>2, <2>1, NumReadersAssumption DEF Push
            <3>2. /\ Len(ch') = Len(ch) + 1 /\ \A i \in 1 .. Len(ch) : ch'[i] = ch[i]
                  /\ ch'[Len(ch) + 1] = idx
                  BY <3>1 DEF IInv, TypeOK, SharedTypes
            <3>3. Taken' = Taken
                  BY <1>2, <3>1, <3>2 DEF Taken
            <3>4. \A i \in 1 .. Len(ch') : ch'[i] = Taken' + i - 1
                  BY <1>2, <3>1, <3>2, <3>3 DEF Feed, Taken
            <3>5. \A w \in Workers : wpc[w] # "idle" /\ (wpc[w] = "done" => ctxDone)
                  BY <1>1, <1>2 DEF Feed
            <3> QED BY <1>1, <1>2, <3>1, <3>3, <3>4, <3>5 DEF Feed, ctxDone
      <2>2. CASE idx = NumReaders
            <3>1. chClosed' /\ pc' = "collect" /\ UNCHANGED <<ch, idx>>
                  BY <2>2, NumReadersAssumption DEF Push
            <3>2. Taken' = Taken
                  BY <3>1 DEF Taken
            <3> QED BY <1>1, <1>2, <2>2, <3>1, <3>2 DEF Feed, ctxDone
      <2> QED BY <2>1, <2>2 DEF Push
<1>5. Apart'
      BY <1>1, <1>2, <1>4 DEF Apart, Places, Holds
<1>6. Counted'
      BY <1>1, <1>2 DEF Counted, Places, SentData, ResultData
<1>7. NoneLost'
      BY <1>1, <1>2, <1>4 DEF NoneLost, Places, Holds, Somewhere
<1> QED BY <1>3, <1>4, <1>5, <1>6, <1>7 DEF Accounts

LEMMA CollectEndAccounts == ASSUME IInv, CollectEnd PROVE Accounts'
<1> USE CollectingFacts DEF Collecting, CollectEnd, workerVars, fetchVars
<1>1. Serial' /\ Ended' /\ Collecting'
      BY DEF IInv, Accounts, Serial, Ended
<1>2. Taken' = Taken
      BY DEF Taken
<1>3. Feed'
      BY <1>2 DEF Feed, ctxDone
<1>4. Apart'
      BY <1>2 DEF Apart, Places, Holds
<1>5. Counted'
      BY <1>2 DEF Counted, Places, SentData, ResultData
<1>6. NoneLost'
      BY <1>2 DEF NoneLost, Places, Holds, Somewhere
<1> QED BY <1>1, <1>3, <1>4, <1>5, <1>6 DEF Accounts

\* ParentCancel and CloseResults leave the columns alone.
LEMMA OtherAccounts == ASSUME IInv, ParentCancel \/ CloseResults PROVE Accounts'
<1>1. /\ UNCHANGED <<fetchVars, workerVars, cancelled, pc, idx, err, columns, refs, ch, chClosed, results, outcome>>
      /\ parentDone => parentDone'
      BY DEF ParentCancel, CloseResults, fetchVars, workerVars, IInv, TypeOK, CallerTypes
<1> USE <1>1 DEF fetchVars, workerVars
<1>2. Serial' /\ Ended' /\ (Collecting' <=> Collecting)
      BY DEF IInv, Accounts, Serial, Ended, Collecting
<1>3. ASSUME Collecting PROVE (Feed /\ Apart /\ Counted /\ NoneLost)'
      <2>1. Feed /\ Apart /\ Counted /\ NoneLost
            BY <1>3, CollectingFacts
      <2>2. Taken' = Taken
            BY DEF Taken
      <2>3. Feed'
            BY <2>1, <2>2, Zenon DEF Feed, ctxDone
      <2>4. Apart'
            BY <2>1, <2>2 DEF Apart, Places, Holds
      <2>5. Counted'
            BY <2>1 DEF Counted, Places, SentData, ResultData
      <2>6. NoneLost'
            BY <2>1, <2>2 DEF NoneLost, Places, Holds, Somewhere
      <2> QED BY <2>3, <2>4, <2>5, <2>6
<1> QED BY <1>2, <1>3 DEF Accounts

\* Taking the head of results, in the loop that collects and in the one that drains.
LEMMA HeadResult ==
    ASSUME IInv, Collecting, results # << >>, results' = Tail(results)
    PROVE  /\ Head(results) = results[1] /\ 1 \in Places /\ Places' \subseteq Places
           /\ \A i \in Places' : i + 1 \in Places /\ i + 1 # 1 /\ results'[i] = results[i + 1]
           /\ \A i \in Places : i = 1 \/ (i - 1 \in Places' /\ results'[i - 1] = results[i])
           /\ Len(results') \in Nat
<1>1. results \in Seq(Pairs)
      BY DEF IInv, TypeOK, SharedTypes
<1>2. Len(results) \in Nat \ {0} /\ Len(results') = Len(results) - 1
      BY <1>1
<1>3. Head(results) = results[1] /\ \A i \in 1 .. Len(results') : results'[i] = results[i + 1]
      BY <1>1, <1>2
<1> QED BY <1>2, <1>3 DEF Places

\* A result with an error, or one that comes after an error, is dropped with its data.
Dropping ==
    /\ results # << >> /\ results' = Tail(results)
    /\ UNCHANGED <<workerVars, columns, idx, ch>>
    /\ refs' = [refs EXCEPT ![Head(results).idx] = IF Head(results).data THEN @ - 1 ELSE @]

LEMMA DropResult == ASSUME IInv, Collecting, Dropping PROVE (Apart /\ Counted)'
<1> DEFINE data == Head(results)
<1>1. /\ Apart /\ Counted
      /\ \A i \in Places : results[i].idx \in Readers
      BY CollectingFacts
<1>2. /\ data = results[1] /\ 1 \in Places
      /\ \A i \in Places' : i + 1 \in Places /\ i + 1 # 1 /\ results'[i] = results[i + 1]
      /\ \A i \in Places : i = 1 \/ (i - 1 \in Places' /\ results'[i - 1] = results[i])
      BY HeadResult, Zenon DEF Dropping
<1>3. Places \subseteq Int /\ Places' \subseteq Int
      BY DEF Places
<1>4. Taken' = Taken /\ UNCHANGED <<wpc, job, columns>>
      BY DEF Taken, Dropping, workerVars
<1>5. data.idx \in Readers
      BY <1>1, <1>2
<1>6. refs' = [refs EXCEPT ![data.idx] = IF data.data THEN @ - 1 ELSE @]
      BY DEF Dropping
<1> HIDE DEF data
<1>7. Apart'
      <2>1. /\ \A i \in Places' : results'[i].idx < Taken /\ ~columns[results'[i].idx]
            /\ \A i \in Places' : results'[i].data \/ results'[i].err
            /\ \A w \in Workers, i \in Places' : Holds(w) => results'[i].idx # job[w].idx
            BY <1>1, <1>2 DEF Apart
      <2>2. \A i, j \in Places' : results'[i].idx = results'[j].idx => i = j
            <3> SUFFICES ASSUME NEW i \in Places', NEW j \in Places', results'[i].idx = results'[j].idx
                         PROVE  i = j
                OBVIOUS
            <3>1. i + 1 = j + 1
                  BY <1>1, <1>2 DEF Apart
            <3> QED BY <1>3, <3>1
      <2> QED BY <1>1, <1>4, <2>1, <2>2 DEF Apart, Holds
<1>8. Counted'
      <2> SUFFICES ASSUME NEW c \in Readers
                   PROVE  refs'[c] = IF columns'[c] \/ SentData(c)' \/ ResultData(c)' THEN 1 ELSE 0
          BY DEF Counted
      <2>1. SentData(c)' <=> SentData(c)
            BY <1>4 DEF SentData
      <2>2. CASE c = data.idx
            <3>1. ~columns[c] /\ ~SentData(c)
                  BY <1>1, <1>2, <2>2 DEF SentData, Apart, Holds
            <3>2. ASSUME NEW i \in Places', results'[i].idx = c PROVE FALSE
                  BY <1>1, <1>2, <2>2, <3>2 DEF Apart
            <3>3. ResultData(c) <=> data.data
                  BY <1>1, <1>2, <2>2 DEF ResultData, Apart
            <3>4. ~ResultData(c)'
                  BY <3>2, Zenon DEF ResultData
            <3>5. refs[c] = IF data.data THEN 1 ELSE 0
                  BY <1>1, <3>1, <3>3, Zenon DEF Counted
            <3>6. refs'[c] = IF data.data THEN refs[c] - 1 ELSE refs[c]
                  BY <1>5, <1>6, <2>2, Zenon DEF IInv, TypeOK, SharedTypes
            <3>7. refs'[c] = 0
                  BY <3>5, <3>6
            <3> QED BY <1>4, <2>1, <3>1, <3>4, <3>7, Zenon
      <2>3. CASE c # data.idx
            <3>1. ResultData(c)' => ResultData(c)
                  BY <1>2 DEF ResultData
            <3>2. ASSUME NEW i \in Places, results[i].idx = c, results[i].data PROVE ResultData(c)'
                  <4>1. i - 1 \in Places' /\ results'[i - 1] = results[i]
                        BY <1>2, <2>3, <3>2
                  <4> QED BY <3>2, <4>1 DEF ResultData
            <3> QED BY <1>1, <1>4, <1>5, <1>6, <2>1, <2>3, <3>1, <3>2, Zenon DEF Counted, ResultData, IInv, TypeOK, SharedTypes
      <2> QED BY <2>2, <2>3
<1> QED BY <1>7, <1>8

LEMMA CollectAccounts == ASSUME IInv, Collect PROVE Accounts'
<1> DEFINE data == Head(results)
<1>1. Collecting /\ results # << >> /\ results' = Tail(results) /\ UNCHANGED <<workerVars, idx, ch>>
      BY DEF Collect, Collecting
<1>2. /\ Feed /\ Apart /\ Counted /\ NoneLost
      /\ \A i \in Places : results[i].idx \in Readers
      BY <1>1, CollectingFacts
<1>3. /\ data = results[1] /\ 1 \in Places
      /\ \A i \in Places' : i + 1 \in Places /\ i + 1 # 1 /\ results'[i] = results[i + 1]
      /\ \A i \in Places : i = 1 \/ (i - 1 \in Places' /\ results'[i - 1] = results[i])
      BY <1>1, HeadResult, Zenon
<1>4. Serial' /\ Ended' /\ Collecting'
      BY DEF IInv, Accounts, Serial, Ended, Collect, Collecting, fetchVars
<1>5. Taken' = Taken
      BY <1>1 DEF Taken
<1>6. data.idx \in Readers /\ data.idx < Taken /\ ~columns[data.idx]
      BY <1>2, <1>3 DEF Apart
<1>7. CASE data.err
      <2>1. /\ refs' = [refs EXCEPT ![data.idx] = IF data.data THEN @ - 1 ELSE @]
            /\ err' /\ cancelled' /\ pc' = "check" /\ UNCHANGED <<columns, chClosed, parentDone>>
            BY <1>7 DEF Collect
      <2>2. pc = "collect"
            BY DEF Collect
      <2>3. Feed'
            BY <1>1, <1>2, <1>5, <2>1, <2>2 DEF Feed, ctxDone, workerVars
      <2>4. (Apart /\ Counted)'
            BY <1>1, <2>1, DropResult DEF Dropping
      <2>5. NoneLost'
            BY <2>1 DEF NoneLost
      <2> QED BY <1>4, <2>3, <2>4, <2>5 DEF Accounts
<1>8. CASE ~data.err
      <2>1. /\ columns' = [columns EXCEPT ![data.idx] = TRUE]
            /\ UNCHANGED <<refs, err, cancelled, pc, chClosed, parentDone>>
            BY <1>8 DEF Collect
      <2>2. pc = "collect"
            BY DEF Collect
      <2> HIDE DEF data
      <2>3. Feed'
            BY <1>1, <1>2, <1>5, <2>1, <2>2 DEF Feed, ctxDone, workerVars
      <2>4. \A c \in Readers : columns'[c] <=> c = data.idx \/ columns[c]
            BY <1>6, <2>1 DEF IInv, TypeOK, CallerTypes
      <2>5. \A w \in Workers : job[w].idx \in Readers
            BY <1>1, CollectingFacts
      <2>6. Apart'
            <3>1. /\ \A i \in Places' : results'[i].idx < Taken /\ ~columns'[results'[i].idx]
                  /\ \A i \in Places' : results'[i].data \/ results'[i].err
                  /\ \A w \in Workers, i \in Places' : Holds(w) => results'[i].idx # job[w].idx
                  BY <1>2, <1>3, <2>4 DEF Apart
            <3>2. \A i, j \in Places' : results'[i].idx = results'[j].idx => i = j
                  <4> SUFFICES ASSUME NEW i \in Places', NEW j \in Places', results'[i].idx = results'[j].idx
                               PROVE  i = j
                      OBVIOUS
                  <4>1. i + 1 = j + 1
                        BY <1>2, <1>3 DEF Apart
                  <4> QED BY <4>1 DEF Places
            <3>3. \A w \in Workers : Holds(w) => job[w].idx < Taken /\ ~columns'[job[w].idx]
                  BY <1>2, <1>3, <2>4, <2>5 DEF Apart
            <3> QED BY <1>1, <1>2, <1>5, <1>6, <2>4, <3>1, <3>2, <3>3, Zenon DEF Apart, Holds, workerVars
      <2>7. Counted'
            <3> SUFFICES ASSUME NEW c \in Readers
                         PROVE  refs'[c] = IF columns'[c] \/ SentData(c)' \/ ResultData(c)' THEN 1 ELSE 0
                BY DEF Counted
            <3>1. SentData(c)' <=> SentData(c)
                  BY <1>1 DEF SentData, workerVars
            <3>2. CASE c = data.idx
                  <4>1. ResultData(c)
                        BY <1>2, <1>3, <1>8, <3>2 DEF ResultData, Apart
                  <4> QED BY <1>2, <2>1, <2>4, <3>2, <4>1 DEF Counted
            <3>3. CASE c # data.idx
                  <4>1. ResultData(c)' => ResultData(c)
                        BY <1>3 DEF ResultData
                  <4>2. ASSUME NEW i \in Places, results[i].idx = c, results[i].data PROVE ResultData(c)'
                        <5>1. i - 1 \in Places' /\ results'[i - 1] = results[i]
                              BY <1>3, <3>3, <4>2
                        <5> QED BY <4>2, <5>1 DEF ResultData
                  <4> QED BY <1>2, <2>1, <2>4, <3>1, <3>3, <4>1, <4>2 DEF Counted, ResultData
            <3> QED BY <3>2, <3>3
      <2>8. NoneLost'
            <3> SUFFICES ASSUME ~err, NEW c \in Readers, c < Taken PROVE Somewhere(c)'
                BY <1>5, <2>1 DEF NoneLost
            <3>1. Somewhere(c)
                  BY <1>2 DEF NoneLost
            <3>2. ASSUME NEW i \in Places, results[i].idx = c PROVE Somewhere(c)'
                  BY <1>3, <2>4, <3>2 DEF Somewhere
            <3> QED BY <1>1, <2>4, <3>1, <3>2, Zenon DEF Somewhere, Holds, workerVars
      <2> QED BY <1>4, <2>3, <2>6, <2>7, <2>8 DEF Accounts
<1> QED BY <1>7, <1>8

\* The first loop has ended. Without an error and with a context that is not done every column is there.
LEMMA CheckAccounts == ASSUME IInv, Check PROVE Accounts'
<1>1. pc = "check" /\ Collecting /\ err' = (err \/ ctxDone)
      BY DEF Check, Collecting
<1>2. Feed /\ Apart /\ Counted /\ NoneLost /\ Taken \in Nat /\ idx \in Nat /\ Len(ch) \in Nat
      BY <1>1, CollectingFacts
<1>3. CASE err'
      <2>1. /\ pc' = "drain" /\ (err => err')
            /\ UNCHANGED <<workerVars, outcome, refs, rdr, cancelled, parentDone, idx, columns, ch, chClosed, results>>
            BY <1>1, <1>3 DEF Check
      <2>2. Serial' /\ Ended'
            BY <1>1, <2>1 DEF IInv, Accounts, Serial, Ended
      <2>3. Taken' = Taken
            BY <2>1 DEF Taken
      <2>4. Feed'
            BY <1>1, <1>2, <1>3, <2>1, <2>3, Zenon DEF Feed, ctxDone, workerVars
      <2>5. Apart'
            BY <1>2, <2>1, <2>3 DEF Apart, Holds, Places, workerVars
      <2>6. Counted'
            BY <1>2, <2>1 DEF Counted, SentData, ResultData, Places, workerVars
      <2>7. NoneLost'
            BY <1>3 DEF NoneLost
      <2> QED BY <2>2, <2>4, <2>5, <2>6, <2>7 DEF Accounts
<1>4. CASE ~err'
      <2>1. /\ ~err /\ ~ctxDone /\ UNCHANGED columns
            /\ pc' = "returned" /\ outcome' = "table" /\ refs' = [c \in Readers |-> refs[c]]
            BY <1>1, <1>4, Zenon DEF Check, Return
      <2>2. results = << >> /\ idx = NumReaders
            BY <1>1, <1>2, <2>1 DEF Feed
      <2>3. WorkersGone
            BY <1>1, <2>1 DEF IInv, Lifecycle
      <2>4. \A w \in Workers : ~Holds(w) /\ wpc[w] = "done"
            BY <1>2, <2>3 DEF WorkersGone, Holds, Feed
      <2>5. ASSUME NEW c \in Readers PROVE columns[c] /\ refs[c] = 1
            <3>1. ch = << >>
                  BY <1>2, <2>1, <2>4 DEF Feed, Workers
            <3>2. c < Taken
                  BY <2>2, <3>1, NumReadersAssumption DEF Taken, Readers
            <3>3. Somewhere(c)
                  BY <1>2, <2>1, <3>2 DEF NoneLost
            <3>4. columns[c]
                  BY <2>2, <2>4, <3>3 DEF Somewhere, Places
            <3> QED BY <1>2, <3>4 DEF Counted
      <2> QED BY <2>1, <2>5 DEF Accounts, Serial, Collecting, Ended
<1> QED BY <1>3, <1>4

LEMMA DrainAccounts == ASSUME IInv, Drain PROVE Accounts'
<1>1. pc = "drain" /\ Collecting
      BY DEF Drain, Collecting
<1>2. Feed /\ Apart /\ Counted /\ NoneLost
      BY <1>1, CollectingFacts
<1>3. CASE results # << >>
      <2>1. Dropping /\ UNCHANGED <<pc, err, outcome, rdr, cancelled, parentDone, wpc, idx, ch, chClosed, columns>>
            BY <1>3 DEF Drain, Dropping, workerVars
      <2>2. Serial' /\ Ended' /\ Collecting'
            <3>1. outcome = "none"
                  BY <1>1 DEF IInv, Accounts, Ended
            <3> QED BY <1>1, <2>1, <3>1 DEF Serial, Ended, Collecting
      <2>3. Taken' = Taken
            BY <2>1 DEF Taken
      <2>4. Feed'
            BY <1>1, <1>2, <2>1, <2>3 DEF Feed, ctxDone
      <2>5. (Apart /\ Counted)'
            BY <1>1, <2>1, DropResult
      <2>6. NoneLost'
            BY <1>1, <1>2, <2>1 DEF NoneLost, Feed
      <2> QED BY <2>2, <2>4, <2>5, <2>6 DEF Accounts
<1>4. CASE results = << >>
      <2>1. resultsClosed /\ Return("error", refs) /\ UNCHANGED columns
            BY <1>4 DEF Drain
      <2>2. \A w \in Workers : ~Holds(w) /\ wpc[w] # "send"
            BY <2>1 DEF IInv, Lifecycle, WorkersGone, Holds
      <2>3. \A c \in Readers : refs[c] = IF columns[c] THEN 1 ELSE 0
            BY <1>2, <1>4, <2>2 DEF Counted, SentData, ResultData, Places
      <2>4. \A c \in Readers : refs'[c] = 0 /\ rdr'[c] # "open"
            BY <2>1, <2>3 DEF Return, ReleaseOpen, IInv, TypeOK, CallerTypes
      <2> QED BY <2>1, <2>4 DEF Return, Accounts, Serial, Collecting, Ended
<1> QED BY <1>3, <1>4

LEMMA TakeAccounts == ASSUME IInv, NEW w \in Workers, WorkerTake(w) PROVE Accounts'
<1>1. Collecting
      BY DEF WorkerTake, IInv, Lifecycle, WorkersGone, Collecting, TypeOK, CallerTypes
<1>2. /\ Feed /\ Apart /\ Counted /\ NoneLost /\ idx \in Nat /\ Len(ch) \in Nat /\ Taken \in Nat
      /\ \A v \in Workers : job[v] \in Pairs /\ job[v].idx \in Readers
      /\ \A i \in Places : results[i].idx \in Readers
      BY <1>1, CollectingFacts
<1>3. /\ wpc[w] = "select" /\ ch # << >> /\ ch' = Tail(ch)
      /\ UNCHANGED <<pc, idx, err, parentDone, cancelled, chClosed, columns, refs, results, outcome, rdr>>
      /\ wpc' = [wpc EXCEPT ![w] = "read"] /\ job' = [job EXCEPT ![w] = [NoJob EXCEPT !.idx = Head(ch)]]
      BY DEF WorkerTake, workerFrame, fetchVars
<1>4. /\ Len(ch) > 0 /\ Len(ch') = Len(ch) - 1 /\ Head(ch) = ch[1]
      /\ \A i \in 1 .. Len(ch') : ch'[i] = ch[i + 1]
      BY <1>3 DEF IInv, TypeOK, SharedTypes
<1>5. Taken' = Taken + 1 /\ Head(ch) = Taken
      BY <1>2, <1>3, <1>4 DEF Taken, Feed
<1>6. /\ wpc'[w] = "read" /\ job'[w].idx = Taken
      /\ \A v \in Workers : v # w => wpc'[v] = wpc[v] /\ job'[v] = job[v]
      BY <1>3, <1>5 DEF IInv, TypeOK, SharedTypes, NoJob
<1>7. Serial' /\ Ended' /\ Collecting'
      BY <1>1, <1>3 DEF IInv, Accounts, Serial, Ended, Collecting
<1>8. Feed'
      <2>1. \A i \in 1 .. Len(ch') : ch'[i] = Taken' + i - 1
            BY <1>2, <1>4, <1>5 DEF Feed
      <2>2. \A v \in Workers : wpc'[v] # "idle" /\ (wpc'[v] = "done" => ctxDone)
            BY <1>2, <1>3, <1>6 DEF Feed
      <2> QED BY <1>2, <1>3, <1>5, <2>1, <2>2 DEF Feed, ctxDone
<1>9. Apart'
      <2>1. \A c \in Readers : c < Taken => c < Taken' /\ c # Taken
            BY <1>2, <1>5 DEF Readers
      <2>2. Taken \in Readers /\ Taken < Taken' /\ ~columns[Taken]
            BY <1>2, <1>3, <1>5 DEF IInv, TypeOK, SharedTypes, Apart
      <2>3. /\ \A v \in Workers : Holds(v)' => job'[v].idx < Taken' /\ ~columns'[job'[v].idx]
            /\ \A v \in Workers : wpc'[v] = "send" => job'[v].data \/ job'[v].err
            BY <1>2, <1>3, <1>6, <2>1, <2>2, Zenon DEF Apart, Holds
      <2>4. \A v, u \in Workers : Holds(v)' /\ Holds(u)' /\ job'[v].idx = job'[u].idx => v = u
            BY <1>2, <1>6, <2>1 DEF Apart, Holds
      <2>5. \A v \in Workers, i \in Places' : Holds(v)' => results'[i].idx # job'[v].idx
            BY <1>2, <1>3, <1>6, <2>1 DEF Apart, Holds, Places
      <2> QED BY <1>2, <1>3, <2>1, <2>3, <2>4, <2>5 DEF Apart, Places
<1>10. Counted'
      <2> SUFFICES ASSUME NEW c \in Readers PROVE SentData(c)' <=> SentData(c)
          BY <1>2, <1>3 DEF Counted, ResultData, Places
      <2> QED BY <1>3, <1>6 DEF SentData
<1>11. NoneLost'
      <2> SUFFICES ASSUME ~err, NEW c \in Readers, c < Taken' PROVE Somewhere(c)'
          BY <1>3 DEF NoneLost
      <2>1. CASE c = Taken
            BY <1>6, <2>1 DEF Somewhere, Holds
      <2>2. CASE c # Taken
            <3>1. Somewhere(c)
                  BY <1>2, <1>5, <2>2 DEF NoneLost, Readers
            <3> QED BY <1>3, <1>6, <3>1 DEF Somewhere, Holds, Places
      <2> QED BY <2>1, <2>2
<1> QED BY <1>7, <1>8, <1>9, <1>10, <1>11 DEF Accounts

LEMMA ExitAccounts == ASSUME IInv, NEW w \in Workers, WorkerExit(w) PROVE Accounts'
<1>1. Collecting
      BY DEF WorkerExit, IInv, Lifecycle, WorkersGone, Collecting, TypeOK, CallerTypes
<1>2. Feed /\ Apart /\ Counted /\ NoneLost
      BY <1>1, CollectingFacts
<1>3. /\ wpc[w] = "select" /\ ((chClosed /\ ch = << >>) \/ ctxDone)
      /\ UNCHANGED <<pc, idx, err, parentDone, cancelled, ch, chClosed, columns, refs, results, outcome, rdr, job>>
      BY DEF WorkerExit, workerFrame, fetchVars
<1>4. /\ wpc[w] = "select" /\ wpc'[w] = "done"
      /\ \A v \in Workers : v # w => wpc'[v] = wpc[v]
      BY DEF WorkerExit, IInv, TypeOK, SharedTypes
<1>5. Serial' /\ Ended' /\ Collecting'
      BY <1>1, <1>3 DEF IInv, Accounts, Serial, Ended, Collecting
<1>6. Taken' = Taken /\ \A v \in Workers : (Holds(v)' <=> Holds(v)) /\ (wpc'[v] = "send" <=> wpc[v] = "send")
      BY <1>3, <1>4 DEF Taken, Holds
<1>7. Feed'
      BY <1>2, <1>3, <1>4, <1>6, Zenon DEF Feed, ctxDone
<1>8. Apart'
      BY <1>2, <1>3, <1>6, Zenon DEF Apart, Places
<1>9. Counted'
      <2>1. \A c \in Readers : SentData(c)' <=> SentData(c)
            BY <1>3, <1>6, Zenon DEF SentData
      <2>2. \A c \in Readers : ResultData(c)' <=> ResultData(c)
            BY <1>3 DEF ResultData, Places
      <2> QED BY <1>2, <1>3, <2>1, <2>2 DEF Counted
<1>10. NoneLost'
      BY <1>2, <1>3, <1>6, Zenon DEF NoneLost, Somewhere, Places
<1> QED BY <1>5, <1>7, <1>8, <1>9, <1>10 DEF Accounts

LEMMA ReadAccounts == ASSUME IInv, NEW w \in Workers, WorkerRead(w) PROVE Accounts'
<1>1. Collecting
      BY Zenon DEF WorkerRead, IInv, Lifecycle, WorkersGone, Collecting, TypeOK, CallerTypes
<1>2. /\ Feed /\ Apart /\ Counted /\ NoneLost
      /\ \A v \in Workers : job[v] \in Pairs /\ job[v].idx \in Readers
      BY <1>1, CollectingFacts
<1>3. /\ wpc[w] = "read" /\ wpc' = [wpc EXCEPT ![w] = "send"]
      /\ UNCHANGED <<pc, idx, err, parentDone, cancelled, ch, chClosed, columns, results, outcome, rdr>>
      BY DEF WorkerRead, workerFrame, fetchVars
<1>4. PICK o \in ReadOutcomes :
         /\ job' = [job EXCEPT ![w].data = o.data, ![w].err = o.err]
         /\ refs' = [refs EXCEPT ![job[w].idx] = IF o.data THEN @ + 1 ELSE @]
      BY Zenon DEF WorkerRead
<1>5. /\ wpc'[w] = "send" /\ job'[w].idx = job[w].idx /\ job'[w].data = o.data /\ job'[w].err = o.err
      /\ \A v \in Workers : v # w => wpc'[v] = wpc[v] /\ job'[v] = job[v]
      BY <1>2, <1>3, <1>4 DEF IInv, TypeOK, SharedTypes, Pairs
<1>6. o.data \/ o.err
      BY DEF ReadOutcomes
<1>7. Serial' /\ Ended' /\ Collecting'
      BY <1>1, <1>3, Zenon DEF IInv, Accounts, Serial, Ended, Collecting
<1>8. Taken' = Taken /\ \A v \in Workers : (Holds(v)' <=> Holds(v)) /\ job'[v].idx = job[v].idx
      BY <1>3, <1>5, Zenon DEF Taken, Holds
<1>9. Feed'
      BY <1>2, <1>3, <1>5, <1>8 DEF Feed, ctxDone
<1>10. Apart'
      <2>1. \A v \in Workers : wpc'[v] = "send" => job'[v].data \/ job'[v].err
            BY <1>2, <1>5, <1>6, Zenon DEF Apart
      <2>2. /\ \A v \in Workers : Holds(v)' => job'[v].idx < Taken' /\ ~columns'[job'[v].idx]
            /\ \A v, u \in Workers : Holds(v)' /\ Holds(u)' /\ job'[v].idx = job'[u].idx => v = u
            BY <1>2, <1>3, <1>8 DEF Apart
      <2>3. Places' = Places
            BY <1>3, Zenon DEF Places
      <2>4. \A v \in Workers, i \in Places' : Holds(v)' => results'[i].idx # job'[v].idx
            <3>1. \A v \in Workers, i \in Places : Holds(v) => results[i].idx # job[v].idx
                  BY <1>2, Zenon DEF Apart
            <3> QED BY <1>3, <1>8, <2>3, <3>1, Zenon
      <2>5. /\ \A i \in Places' : results'[i].idx < Taken' /\ ~columns'[results'[i].idx]
            /\ \A i \in Places' : results'[i].data \/ results'[i].err
            /\ \A i, j \in Places' : results'[i].idx = results'[j].idx => i = j
            /\ \A c \in Readers : columns'[c] => c < Taken'
            BY <1>2, <1>3, <1>8, <2>3, Zenon DEF Apart
      <2> QED BY <2>1, <2>2, <2>4, <2>5, Zenon DEF Apart
<1>11. Counted'
      <2> SUFFICES ASSUME NEW c \in Readers
                   PROVE  refs'[c] = IF columns'[c] \/ SentData(c)' \/ ResultData(c)' THEN 1 ELSE 0
          BY DEF Counted
      <2>1. columns'[c] = columns[c] /\ (ResultData(c)' <=> ResultData(c))
            BY <1>3 DEF ResultData, Places
      <2>2. CASE c = job[w].idx
            <3>1. ~columns[c] /\ ~ResultData(c) /\ ~SentData(c)
                  BY <1>2, <1>3, <2>2, Zenon DEF Apart, Holds, ResultData, SentData
            <3>2. \A v \in Workers : wpc'[v] = "send" /\ job'[v].idx = c => v = w
                  <4> SUFFICES ASSUME NEW v \in Workers, v # w, wpc[v] = "send", job[v].idx = job[w].idx
                               PROVE  FALSE
                      BY <1>5, <2>2
                  <4>1. Holds(v) /\ Holds(w)
                        BY <1>3 DEF Holds
                  <4> QED BY <1>2, <4>1, Zenon DEF Apart
            <3>3. SentData(c)' <=> o.data
                  BY <1>5, <2>2, <3>2 DEF SentData
            <3>4. refs[c] = 0
                  BY <1>2, <3>1, Zenon DEF Counted
            <3>5. refs'[c] = IF o.data THEN refs[c] + 1 ELSE refs[c]
                  BY <1>4, <2>2, Zenon DEF IInv, TypeOK, SharedTypes
            <3>6. refs'[c] = IF o.data THEN 1 ELSE 0
                  BY <3>4, <3>5
            <3> QED BY <2>1, <3>1, <3>3, <3>6, Zenon
      <2>3. CASE c # job[w].idx
            <3>1. SentData(c)' <=> SentData(c)
                  BY <1>3, <1>5, <2>3 DEF SentData
            <3> QED BY <1>2, <1>4, <2>1, <2>3, <3>1 DEF Counted, IInv, TypeOK, SharedTypes
      <2> QED BY <2>2, <2>3
<1>12. NoneLost'
      BY <1>2, <1>3, <1>8, Zenon DEF NoneLost, Somewhere, Places
<1> QED BY <1>7, <1>9, <1>10, <1>11, <1>12 DEF Accounts

LEMMA SendAccounts == ASSUME IInv, NEW w \in Workers, WorkerSend(w) PROVE Accounts'
<1>1. Collecting
      BY DEF WorkerSend, IInv, Lifecycle, WorkersGone, Collecting, TypeOK, CallerTypes
<1>2. /\ Feed /\ Apart /\ Counted /\ NoneLost /\ Len(results) \in Nat
      /\ \A v \in Workers : job[v] \in Pairs /\ job[v].idx \in Readers
      /\ \A i \in Places : results[i].idx \in Readers
      BY <1>1, CollectingFacts
<1>3. /\ wpc[w] = "send" /\ results' = Append(results, job[w])
      /\ UNCHANGED <<pc, idx, err, parentDone, cancelled, ch, chClosed, columns, refs, outcome, rdr>>
      BY DEF WorkerSend, workerFrame, fetchVars
<1>4. /\ wpc'[w] = "select"
      /\ \A v \in Workers : v # w => wpc'[v] = wpc[v] /\ job'[v] = job[v]
      BY Zenon DEF WorkerSend, IInv, TypeOK, SharedTypes
<1> DEFINE n == Len(results) + 1
<1>5. /\ Places' = 1 .. n /\ n \in Places' /\ results'[n] = job[w]
      /\ \A i \in Places : i \in Places' /\ results'[i] = results[i]
      /\ \A i \in Places' : i = n \/ i \in Places
      BY <1>2, <1>3 DEF Places, IInv, TypeOK, SharedTypes
<1> HIDE DEF n
<1>6. Serial' /\ Ended' /\ Collecting'
      BY <1>1, <1>3 DEF IInv, Accounts, Serial, Ended, Collecting
<1>7. Taken' = Taken /\ \A v \in Workers : Holds(v)' <=> Holds(v) /\ v # w
      BY <1>3, <1>4, Zenon DEF Taken, Holds
<1>8. Feed'
      <2>1. pc = "check" /\ ~err => FALSE
            <3>1. pc = "check" /\ ~err => WorkersGone
                  BY DEF IInv, Lifecycle
            <3> QED BY <1>3, <3>1 DEF WorkersGone
      <2> QED BY <1>2, <1>3, <1>4, <1>7, <2>1 DEF Feed, ctxDone
<1>9. Apart'
      <2>1. Holds(w)
            BY <1>3 DEF Holds
      <2>2. \A v \in Workers : Holds(v)' => v # w /\ Holds(v) /\ job'[v] = job[v]
            BY <1>4, <1>7, Zenon
      <2>3. \A v \in Workers : Holds(v)' => job'[v].idx < Taken' /\ ~columns'[job'[v].idx]
            BY <1>2, <1>3, <1>7, <2>2, Zenon DEF Apart
      <2>4. \A v \in Workers : wpc'[v] = "send" => job'[v].data \/ job'[v].err
            BY <1>2, <1>4, Zenon DEF Apart
      <2>5. \A v, u \in Workers : Holds(v)' /\ Holds(u)' /\ job'[v].idx = job'[u].idx => v = u
            BY <1>2, <2>2, Zenon DEF Apart
      <2>6. job[w].idx < Taken /\ ~columns[job[w].idx] /\ (job[w].data \/ job[w].err)
            BY <1>2, <1>3, <2>1, Zenon DEF Apart
      <2>7. \A i \in Places' : results'[i].idx < Taken' /\ ~columns'[results'[i].idx]
            <3> SUFFICES ASSUME NEW i \in Places' PROVE results'[i].idx < Taken /\ ~columns[results'[i].idx]
                BY <1>3, <1>7, Zenon
            <3>1. CASE i = n
                  BY <1>5, <2>6, <3>1
            <3>2. CASE i \in Places
                  BY <1>2, <1>5, <3>2, Zenon DEF Apart
            <3> QED BY <1>5, <3>1, <3>2
      <2>8. \A i \in Places' : results'[i].data \/ results'[i].err
            BY <1>2, <1>5, <2>6 DEF Apart
      <2>9. \A i, j \in Places' : results'[i].idx = results'[j].idx => i = j
            <3>1. \A i \in Places : results[i].idx # job[w].idx
                  BY <1>2, <2>1, Zenon DEF Apart
            <3>2. \A i, j \in Places : results[i].idx = results[j].idx => i = j
                  BY <1>2, Zenon DEF Apart
            <3> QED BY <1>5, <3>1, <3>2
      <2>10. ASSUME NEW v \in Workers, NEW i \in Places', Holds(v)' PROVE results'[i].idx # job'[v].idx
            <3>1. v # w /\ Holds(v) /\ job'[v] = job[v]
                  BY <2>2, <2>10
            <3>2. CASE i = n
                  <4>1. job[v].idx # job[w].idx
                        BY <1>2, <2>1, <3>1 DEF Apart
                  <4> QED BY <1>5, <3>1, <3>2, <4>1, Zenon
            <3>3. CASE i \in Places
                  <4>1. results[i].idx # job[v].idx
                        BY <1>2, <3>1, <3>3, Zenon DEF Apart
                  <4> QED BY <1>5, <3>1, <3>3, <4>1, Zenon
            <3> QED BY <1>5, <3>2, <3>3, Zenon
      <2>11. \A c \in Readers : columns'[c] => c < Taken'
            BY <1>2, <1>3, <1>7 DEF Apart
      <2> QED BY <2>3, <2>4, <2>5, <2>7, <2>8, <2>9, <2>10, <2>11, Zenon DEF Apart
<1>10. Counted'
      <2> SUFFICES ASSUME NEW c \in Readers
                   PROVE  SentData(c)' \/ ResultData(c)' <=> SentData(c) \/ ResultData(c)
          BY <1>2, <1>3, Zenon DEF Counted
      <2>1. SentData(c)' => SentData(c)
            BY <1>4, Zenon DEF SentData
      <2>2. SentData(c) => SentData(c)' \/ ResultData(c)'
            BY <1>3, <1>4, <1>5 DEF SentData, ResultData
      <2>3. ResultData(c) => ResultData(c)'
            BY <1>5 DEF ResultData
      <2>4. ResultData(c)' => SentData(c) \/ ResultData(c)
            BY <1>3, <1>5, Zenon DEF SentData, ResultData
      <2> QED BY <2>1, <2>2, <2>3, <2>4
<1>11. NoneLost'
      <2> SUFFICES ASSUME ~err, NEW c \in Readers, c < Taken PROVE Somewhere(c)'
          BY <1>3, <1>7 DEF NoneLost
      <2>1. Somewhere(c)
            BY <1>2 DEF NoneLost
      <2>2. ASSUME NEW v \in Workers, Holds(v), job[v].idx = c PROVE Somewhere(c)'
            BY <1>4, <1>5, <1>7, <2>2 DEF Somewhere
      <2> QED BY <1>3, <1>5, <2>1, <2>2, Zenon DEF Somewhere
<1> QED BY <1>6, <1>8, <1>9, <1>10, <1>11 DEF Accounts

LEMMA StepIInv == IInv /\ [Next]_vars => IInv'
<1> SUFFICES ASSUME IInv, [Next]_vars PROVE IInv'
    OBVIOUS
<1>1. TypeOK' /\ Lifecycle'
      BY TypeStep, LifecycleStep DEF IInv
<1>2. CASE UNCHANGED vars
      <2>1. Serial' /\ Ended' /\ (Collecting' <=> Collecting)
            BY <1>2 DEF vars, IInv, Accounts, Serial, Ended, Collecting
      <2>2. ASSUME Collecting PROVE (Feed /\ Apart /\ Counted /\ NoneLost)'
            <3>1. Feed /\ Apart /\ Counted /\ NoneLost
                  BY <2>2 DEF IInv, Accounts
            <3>2. Taken' = Taken /\ Places' = Places /\ (ctxDone' <=> ctxDone)
                  BY <1>2 DEF vars, Taken, Places, ctxDone
            <3>3. \A w \in Workers : Holds(w)' <=> Holds(w)
                  BY <1>2 DEF vars, Holds
            <3>4. Feed'
                  BY <1>2, <3>1, <3>2, Zenon DEF vars, Feed
            <3>5. Apart'
                  BY <1>2, <3>1, <3>2, <3>3, Zenon DEF vars, Apart
            <3>6. \A c \in Readers : (SentData(c)' <=> SentData(c)) /\ (ResultData(c)' <=> ResultData(c))
                  BY <1>2, <3>2 DEF vars, SentData, ResultData
            <3>7. Counted'
                  BY <1>2, <3>1, <3>6, Zenon DEF vars, Counted
            <3>8. \A c \in Readers : Somewhere(c)' <=> Somewhere(c)
                  BY <1>2, <3>2, <3>3 DEF vars, Somewhere
            <3>9. NoneLost'
                  BY <1>2, <3>1, <3>2, <3>8 DEF vars, NoneLost
            <3> QED BY <3>4, <3>5, <3>7, <3>9
      <2> QED BY <1>1, <2>1, <2>2 DEF IInv, Accounts
<1>3. CASE Caller
      BY <1>1, <1>3, FetchAccounts, FetchEndAccounts, SerialReadAccounts, SerialEndAccounts, PushAccounts,
         CollectAccounts, CollectEndAccounts, CheckAccounts, DrainAccounts DEF Caller, IInv
<1>4. ASSUME NEW w \in Workers, Worker(w) PROVE IInv'
      BY <1>1, <1>4, TakeAccounts, ExitAccounts, ReadAccounts, SendAccounts DEF Worker, IInv
<1>5. CASE ParentCancel \/ CloseResults
      BY <1>1, <1>5, OtherAccounts DEF IInv
<1> QED BY <1>2, <1>3, <1>4, <1>5 DEF Next

LEMMA InitIInv == Init => IInv
BY InitTypes, InitLifecycle, InitAccounts DEF IInv

\* For any number of columns, every variable of the call keeps its type.
THEOREM TypeCorrect == Spec => []TypeOK
BY InitTypes, TypeStep, PTL DEF Spec

\* For any number of columns a field reader is open whenever a worker is inside readColumn
\* with it: the deferred releases of ReadRowGroups never overtake a read.
THEOREM ReadersOpen == Spec => []ReadersInUseOpen
<1>1. IInv => ReadersInUseOpen
      <2> SUFFICES ASSUME IInv, NEW w \in Workers, wpc[w] = "read" PROVE rdr[job[w].idx] = "open"
          BY DEF ReadersInUseOpen
      <2>1. job[w].idx \in Readers
            BY DEF IInv, TypeOK, SharedTypes, Pairs
      <2>2. Reading
            BY DEF IInv, Lifecycle, WorkersGone, Reading, TypeOK, CallerTypes
      <2> QED BY <2>1, <2>2 DEF IInv, Lifecycle
<1> QED BY <1>1, InitIInv, StepIInv, PTL DEF Spec

\* For any number of columns results is never closed while a worker can still send on it.
THEOREM ResultsOpen == Spec => []NoSendOnClosed
<1>1. IInv => NoSendOnClosed
      BY DEF IInv, Lifecycle, NoSendOnClosed
<1> QED BY <1>1, InitIInv, StepIInv, PTL DEF Spec

\* For any number of columns, serial or parallel, a table that ReadRowGroups returns has every
\* column, each with the one reference of the table.
THEOREM TableWhole == Spec => []TableComplete
<1>1. IInv => TableComplete
      BY DEF IInv, Accounts, Ended, TableComplete
<1> QED BY <1>1, InitIInv, StepIInv, PTL DEF Spec

\* For any number of columns a call of ReadRowGroups that fails, wherever it fails, leaves no column data,
\* no open reader and no goroutine behind.
THEOREM FailureClean == Spec => []FailureReleasesAll
<1>1. IInv => FailureReleasesAll
      BY DEF IInv, Accounts, Ended, Lifecycle, FailureReleasesAll, TypeOK, CallerTypes
<1> QED BY <1>1, InitIInv, StepIInv, PTL DEF Spec
=============================================================================
