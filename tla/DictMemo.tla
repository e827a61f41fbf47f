------------------------------ MODULE DictMemo ------------------------------
(***************************************************************************)
(* The dictionary memo of an ipc.FileReader, used by several goroutines    *)
(* that call RecordBatchAt: Memo.reify joins the chunks of a dictionary    *)
(* that came with deltas, replaces the chunks by the joined one and drops  *)
(* the memo's references to them, without a lock.                          *)
(*                                                                         *)
(* One dictionary id is modelled: ids do not interact.  Chunks and joined  *)
(* dictionaries are array data with a reference count; the counts are the  *)
(* only atomic objects, every other access is a step of its own.           *)
(***************************************************************************)
EXTENDS Integers, Sequences

CONSTANTS
    Threads,        \* goroutines calling RecordBatchAt
    NumChunks,      \* dictionary blocks of the file: the first and its deltas
    MaxCalls        \* bound on the calls of each

VARIABLES
    memo,           \* Memo.id2dict[id]
    refs,           \* reference count of each array data
    pc, v, dict,    \* in reify: where the goroutine is, its v and its result
    held,           \* held[t]: the dictionaries of the record batches t holds
    calls,          \* calls made by each goroutine
    closed          \* FileReader.Close has returned

vars == <<memo, refs, pc, v, dict, held, calls, closed>>

Chunks == 1 .. NumChunks
Joined == {<<t>> : t \in Threads}      \* what reify of t allocates: at most once
Data   == {<<"chunk", c>> : c \in Chunks} \union Joined
None   == << >>

Chunk(c)  == <<"chunk", c>>
Occurs(s) == {s[i] : i \in 1 .. Len(s)}

\* Retain and Release of a set of array data
Retain(S)  == [x \in Data |-> refs[x] + IF x \in S THEN 1 ELSE 0]
Release(S) == [x \in Data |-> refs[x] - IF x \in S THEN 1 ELSE 0]

\* readSchema has loaded every dictionary block of the footer: AddOrReplace for the
\* first, AddDelta for the others.
Init ==
    /\ memo = [c \in Chunks |-> Chunk(c)]
    /\ refs = [x \in Data |-> IF x \in Joined THEN 0 ELSE 1]
    /\ pc = [t \in Threads |-> "idle"]
    /\ v = [t \in Threads |-> << >>]
    /\ dict = [t \in Threads |-> None]
    /\ held = [t \in Threads |-> << >>]
    /\ calls = [t \in Threads |-> 0]
    /\ closed = FALSE

\* RecordBatchAt: reify looks the id up; a single chunk is the result.
Lookup(t) ==
    /\ pc[t] = "idle"
    /\ ~closed
    /\ calls[t] < MaxCalls
    /\ calls' = [calls EXCEPT ![t] = @ + 1]
    /\ v' = [v EXCEPT ![t] = memo]
    /\ \/ /\ Len(memo) = 1
          /\ dict' = [dict EXCEPT ![t] = memo[1]]
          /\ pc' = [pc EXCEPT ![t] = "attach"]
       \/ /\ Len(memo) > 1
          /\ pc' = [pc EXCEPT ![t] = "join"]
          /\ UNCHANGED dict
    /\ UNCHANGED <<memo, refs, held, closed>>

\* MakeFromData of each chunk, Concatenate: the joined data has the reference of the
\* new array and, after Data().Retain(), the memo's.
Join(t) ==
    /\ pc[t] = "join"
    /\ dict' = [dict EXCEPT ![t] = <<t>>]
    /\ refs' = [Retain(Occurs(v[t])) EXCEPT ![<<t>>] = 2]
    /\ pc' = [pc EXCEPT ![t] = "store"]
    /\ UNCHANGED <<memo, v, held, calls, closed>>

Store(t) ==
    /\ pc[t] = "store"
    /\ memo' = << dict[t] >>
    /\ pc' = [pc EXCEPT ![t] = "drop"]
    /\ UNCHANGED <<refs, v, dict, held, calls, closed>>

\* The deferred calls of reify: combined.Release(), and for each chunk data.Release(),
\* the memo's reference, and arr.Release(), the one of Join.
Drop(t) ==
    /\ pc[t] = "drop"
    /\ refs' = [x \in Data |-> refs[x] - (CASE x = dict[t] -> 1
                                             [] x \in Occurs(v[t]) -> 2
                                             [] OTHER -> 0)]
    /\ pc' = [pc EXCEPT ![t] = "attach"]
    /\ UNCHANGED <<memo, v, dict, held, calls, closed>>

\* ResolveFieldDict: SetDictionary retains what reify returned; the batch is returned.
Attach(t) ==
    /\ pc[t] = "attach"
    /\ refs' = Retain({dict[t]})
    /\ held' = [held EXCEPT ![t] = Append(@, dict[t])]
    /\ pc' = [pc EXCEPT ![t] = "idle"]
    /\ UNCHANGED <<memo, v, dict, calls, closed>>

\* The caller releases a record batch.
ReleaseBatch(t) ==
    /\ pc[t] = "idle"
    /\ held[t] # << >>
    /\ refs' = Release({Head(held[t])})
    /\ held' = [held EXCEPT ![t] = Tail(@)]
    /\ UNCHANGED <<memo, pc, v, dict, calls, closed>>

\* FileReader.Close: Memo.Clear, once no call is in progress.
Close ==
    /\ ~closed
    /\ \A t \in Threads : pc[t] = "idle"
    /\ closed' = TRUE
    /\ refs' = Release(Occurs(memo))
    /\ memo' = << >>
    /\ UNCHANGED <<pc, v, dict, held, calls>>

Next ==
    \/ \E t \in Threads :
         Lookup(t) \/ Join(t) \/ Store(t) \/ Drop(t) \/ Attach(t) \/ ReleaseBatch(t)
    \/ Close

Spec == Init /\ [][Next]_vars

----------------------------------------------------------------------------
\* The array data a goroutine is about to read or to retain
InUse(t) == CASE pc[t] = "join" -> Occurs(v[t])
              [] pc[t] \in {"store", "drop", "attach"} -> {dict[t]}
              [] OTHER -> {}

\* "This method is safe to call concurrently" (file_reader.go:450): whatever the memo
\* holds, a batch in the caller's hands refers to, or a RecordBatchAt in progress is
\* going to read, is alive.
NothingFreed ==
    /\ \A x \in Occurs(memo) : refs[x] > 0
    /\ \A t \in Threads : \A x \in Occurs(held[t]) \union InUse(t) : refs[x] > 0
=============================================================================
