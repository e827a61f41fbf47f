------------------------------ MODULE RefCount ------------------------------
(***************************************************************************)
(* Reference counting of Arrow's memory: a Buffer or a slice of one        *)
(* (arrow/memory/buffer.go), the Data of an array with its buffers,        *)
(* children and dictionary (arrow/array/data.go), the array over it, and   *)
(* chunked arrays and records over arrays.  All follow one protocol:       *)
(* making an object retains what it refers to, the Release that takes the  *)
(* count to zero releases it, and setters retain before they release.      *)
(*                                                                         *)
(* A place is where a counted reference can be: a slot of an object, a     *)
(* variable of a goroutine, or a slot of the call a goroutine is in.       *)
(* Buffers without an allocator are not counted and are left to the        *)
(* garbage collector; they are not modelled.  An object dismantles its     *)
(* slots in any order here, in the code in one order.                      *)
(***************************************************************************)
EXTENDS Integers, FiniteSets

CONSTANTS
    Threads,   \* goroutines
    Objs,      \* buffers, data, arrays, chunked arrays and records, each made once
    Vars,      \* local variables of a goroutine
    NumSlots,  \* references an object can hold
    Nil        \* no reference

Slots == 1 .. NumSlots

ASSUME Separate ==
    /\ IsFiniteSet(Threads) /\ IsFiniteSet(Objs) /\ IsFiniteSet(Vars) /\ NumSlots \in Nat
    /\ Threads \cap Objs = {} /\ Vars \cap Slots = {} /\ Nil \notin Objs /\ Nil \notin Threads
    /\ Nil \notin ((Objs \cup Threads) \X (Slots \cup Vars))

Nodes == Objs \cup Threads

Places == (Nodes \X Slots) \cup (Threads \X Vars)

VARIABLES
    at,     \* the object a place refers to, or Nil
    count,  \* refCount of an object
    state,  \* of an object: unborn, building, live, dying or freed
    by,     \* the goroutine that builds or dismantles the object
    src,    \* per node and slot: the place whose object is still to be retained for the slot
    rep     \* per goroutine: the slots of objects that its setter has still to replace

vars == <<at, count, state, by, src, rep>>

Init ==
    /\ at = [p \in Places |-> Nil]
    /\ count = [o \in Objs |-> 0]
    /\ state = [o \in Objs |-> "unborn"]
    /\ by = [o \in Objs |-> Nil]
    /\ src = [n \in Nodes |-> [k \in Slots |-> Nil]]
    /\ rep = [t \in Threads |-> {}]

-----------------------------------------------------------------------------
\* The goroutine is not in the middle of a call.
Idle(t) ==
    /\ \A o \in Objs : by[o] # t
    /\ \A k \in Slots : src[t][k] = Nil /\ at[<<t, k>>] = Nil
    /\ rep[t] = {}

\* Retain in an idle goroutine: variable w gets a counted reference of its own.
Retain(t, v, w) ==
    /\ Idle(t) /\ at[<<t, v>>] # Nil /\ at[<<t, w>>] = Nil
    /\ at' = [at EXCEPT ![<<t, w>>] = at[<<t, v>>]]
    /\ count' = [count EXCEPT ![at[<<t, v>>]] = @ + 1]
    /\ UNCHANGED <<state, by, src, rep>>

\* The reference is handed to another goroutine, which then has to release it.
Send(t, v, u, w) ==
    /\ Idle(t) /\ Idle(u) /\ t # u /\ at[<<t, v>>] # Nil /\ at[<<u, w>>] = Nil
    /\ at' = [at EXCEPT ![<<u, w>>] = at[<<t, v>>], ![<<t, v>>] = Nil]
    /\ UNCHANGED <<count, state, by, src, rep>>

\* refCount.Add(-1), and whoever takes it to zero dismantles the object.
Drop(t, p) ==
    LET x == at[p]
    IN /\ x # Nil
       /\ at' = [at EXCEPT ![p] = Nil]
       /\ count' = [count EXCEPT ![x] = @ - 1]
       /\ IF count[x] = 1
          THEN state' = [state EXCEPT ![x] = "dying"] /\ by' = [by EXCEPT ![x] = t]
          ELSE UNCHANGED <<state, by>>
       /\ UNCHANGED <<src, rep>>

\* Release of a reference in a variable.
Release(t, v) == Idle(t) /\ Drop(t, <<t, v>>)

\* Releasing what a dying object refers to.
Dismantle(t, o, k) == state[o] = "dying" /\ by[o] = t /\ Drop(t, <<o, k>>)

\* Mutant of Free: an object is freed with its slots unreleased.
FreeKeepsSlots(t, o) ==
    /\ state[o] = "dying" /\ by[o] = t
    /\ state' = [state EXCEPT ![o] = "freed"]
    /\ by' = [by EXCEPT ![o] = Nil]
    /\ at' = [p \in Places |-> IF p[1] = o THEN Nil ELSE at[p]]
    /\ UNCHANGED <<count, src, rep>>

\* The object refers to nothing any more: its memory is freed.
Free(t, o) ==
    /\ state[o] = "dying" /\ by[o] = t /\ \A k \in Slots : at[<<o, k>>] = Nil
    /\ state' = [state EXCEPT ![o] = "freed"]
    /\ by' = [by EXCEPT ![o] = Nil]
    /\ UNCHANGED <<at, count, src, rep>>

-----------------------------------------------------------------------------
\* What a call can be given: variables of the goroutine.
Own(t) == {p \in {t} \X Vars : at[p] # Nil}

Build(t, o, from) ==
    /\ Idle(t) /\ state[o] = "unborn" /\ \E v \in Vars : at[<<t, v>>] = Nil
    /\ state' = [state EXCEPT ![o] = "building"]
    /\ by' = [by EXCEPT ![o] = t]
    /\ src' = [src EXCEPT ![o] = from]
    /\ UNCHANGED <<at, count, rep>>

\* NewData, NewChunked, NewRecordBatch, SliceBuffer, MakeFromData; an owning Buffer is made of nothing.
New(t, o) == \E from \in [Slots -> Own(t) \cup {Nil}] : Build(t, o, from)

\* Mutant of Slice: the caller gives up its reference before the slots are copied.
SliceReleasesFirst(t, o, v) ==
    LET d == at[<<t, v>>]
    IN /\ Idle(t) /\ state[o] = "unborn" /\ d # Nil
       /\ at' = [at EXCEPT ![<<t, v>>] = Nil]
       /\ count' = [count EXCEPT ![d] = @ - 1]
       /\ state' = [state EXCEPT ![o] = "building", ![d] = IF count[d] = 1 THEN "dying" ELSE @]
       /\ by' = [by EXCEPT ![o] = t, ![d] = IF count[d] = 1 THEN t ELSE @]
       /\ src' = [src EXCEPT ![o] = [k \in Slots |-> <<d, k>>]]
       /\ UNCHANGED rep

\* NewSliceData, Copy: a new object with the references of one the goroutine holds.
Slice(t, o, v) ==
    /\ at[<<t, v>>] # Nil
    /\ Build(t, o, [k \in Slots |-> <<at[<<t, v>>], k>>])

Worker(n) == IF n \in Threads THEN n ELSE by[n]

\* Mutant of Fill: a slot is filled without Retain.
FillUncounted(t, n, k) ==
    /\ Worker(n) = t /\ src[n][k] # Nil /\ \A j \in Slots : j < k => src[n][j] = Nil
    /\ src' = [src EXCEPT ![n][k] = Nil]
    /\ at' = [at EXCEPT ![<<n, k>>] = at[src[n][k]]]
    /\ UNCHANGED <<count, state, by, rep>>

\* The next slot is retained, if it is not empty.
Fill(t, n, k) ==
    /\ Worker(n) = t /\ src[n][k] # Nil /\ \A j \in Slots : j < k => src[n][j] = Nil
    /\ src' = [src EXCEPT ![n][k] = Nil]
    /\ LET x == at[src[n][k]]
       IN /\ at' = [at EXCEPT ![<<n, k>>] = x]
          /\ count' = IF x = Nil THEN count ELSE [count EXCEPT ![x] = @ + 1]
    /\ UNCHANGED <<state, by, rep>>

\* The constructor returns the object with a count of one.
Birth(t, o, v) ==
    /\ state[o] = "building" /\ by[o] = t /\ \A k \in Slots : src[o][k] = Nil
    /\ at[<<t, v>>] = Nil
    /\ at' = [at EXCEPT ![<<t, v>>] = o]
    /\ count' = [count EXCEPT ![o] = 1]
    /\ state' = [state EXCEPT ![o] = "live"]
    /\ by' = [by EXCEPT ![o] = Nil]
    /\ UNCHANGED <<src, rep>>

\* Mutant of Replace: the old references are released before the new ones are retained.
ReplaceReleasesFirst(t, v) ==
    /\ Idle(t) /\ at[<<t, v>>] # Nil /\ count[at[<<t, v>>]] = 1
    /\ \E from \in [Slots -> Own(t) \cup {Nil}], k \in Slots :
         LET d == at[<<t, v>>]
         IN /\ from[k] # Nil /\ at[from[k]] # d /\ at[<<d, k>>] # Nil
            /\ count' = [count EXCEPT ![at[<<d, k>>]] = @ - 1]
            /\ state' = [state EXCEPT ![at[<<d, k>>]] = IF count[at[<<d, k>>]] = 1 THEN "dying" ELSE @]
            /\ by' = [by EXCEPT ![at[<<d, k>>]] = IF count[at[<<d, k>>]] = 1 THEN t ELSE @]
    /\ UNCHANGED <<at, src, rep>>

\* Data.Reset, SetDictionary, setData, of an object only this goroutine refers to: the new references of the
\* slots ks are retained before the old ones are released. (An object is not made to refer to itself.)
Replace(t, v) ==
    /\ Idle(t) /\ at[<<t, v>>] # Nil /\ count[at[<<t, v>>]] = 1
    /\ \E from \in [Slots -> Own(t) \cup {Nil}], ks \in SUBSET Slots :
         /\ \A k \in Slots : from[k] # Nil => k \in ks /\ at[from[k]] # at[<<t, v>>]
         /\ src' = [src EXCEPT ![t] = from]
         /\ rep' = [rep EXCEPT ![t] = {<<at[<<t, v>>], k>> : k \in ks}]
    /\ UNCHANGED <<at, count, state, by>>

\* All are retained: the slot gets the new reference, and the call keeps the old one to release it.
Swap(t, p) ==
    /\ p \in rep[t] /\ \A k \in Slots : src[t][k] = Nil
    /\ at' = [at EXCEPT ![p] = at[<<t, p[2]>>], ![<<t, p[2]>>] = at[p]]
    /\ rep' = [rep EXCEPT ![t] = @ \ {p}]
    /\ UNCHANGED <<count, state, by, src>>

DropOld(t, k) ==
    /\ rep[t] = {} /\ \A j \in Slots : src[t][j] = Nil
    /\ Drop(t, <<t, k>>)

-----------------------------------------------------------------------------
\* What the application calls.
Call(t) ==
    \/ \E v, w \in Vars : Retain(t, v, w)
    \/ \E v, w \in Vars, u \in Threads : Send(t, v, u, w)
    \/ \E v \in Vars : Release(t, v)
    \/ \E o \in Objs : New(t, o)
    \/ \E o \in Objs, v \in Vars : Slice(t, o, v)
    \/ \E v \in Vars : Replace(t, v)

\* How a call goes on.
Work(t) ==
    \/ \E n \in Nodes, k \in Slots : Fill(t, n, k)
    \/ \E o \in Objs, v \in Vars : Birth(t, o, v)
    \/ \E p \in Objs \X Slots : Swap(t, p)
    \/ \E k \in Slots : DropOld(t, k)
    \/ \E o \in Objs, k \in Slots : Dismantle(t, o, k)
    \/ \E o \in Objs : Free(t, o)

Next == \E t \in Threads : Call(t) \/ Work(t)

Spec == Init /\ [][Next]_vars

-----------------------------------------------------------------------------
TypeOK ==
    /\ at \in [Places -> Objs \cup {Nil}]
    /\ count \in [Objs -> Nat]
    /\ state \in [Objs -> {"unborn", "building", "live", "dying", "freed"}]
    /\ by \in [Objs -> Threads \cup {Nil}]
    /\ src \in [Nodes -> [Slots -> Places \cup {Nil}]]
    /\ rep \in [Threads -> SUBSET (Objs \X Slots)]

Refs(o) == {p \in Places : at[p] = o}

\* The count of an object is the number of places that refer to it, whatever other goroutines are doing.
CountsExact == \A o \in Objs : count[o] = Cardinality(Refs(o))

\* No variable, no live object and no call ever refers to an object whose Release has reached zero.
NoUseAfterFree == \A p \in Places : at[p] # Nil => state[at[p]] = "live"

\* A constructor never reads the slots of an object that is dismantled while it copies them.
ReadsLive ==
    \A n \in Nodes, k \in Slots :
        src[n][k] # Nil /\ src[n][k][1] \in Objs => state[src[n][k][1]] = "live"

\* When no goroutine holds a reference or is in a call, everything has been freed.
NoLeak ==
    (\A t \in Threads : Idle(t) /\ Own(t) = {}) => \A o \in Objs : state[o] \in {"unborn", "freed"}
=============================================================================
