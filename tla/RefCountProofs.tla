--------------------------- MODULE RefCountProofs ---------------------------
(***************************************************************************)
(* The counts are exact for any number of goroutines, objects and slots,   *)
(* so nothing is freed while it is referred to.  Every step moves, adds or *)
(* removes one reference, and the three counting lemmas say what that does *)
(* to the set of places that refer to an object.  The rest of the          *)
(* invariant says that the places written to were empty, and that a call   *)
(* copies or changes only objects its goroutine holds.                     *)
(***************************************************************************)
EXTENDS RefCount, FiniteSetTheorems, TLAPS

LiveCounted == \A o \in Objs : state[o] = "live" <=> count[o] > 0

\* An object is worked on by a goroutine exactly while it is built or dismantled.
Worked == \A o \in Objs : by[o] # Nil <=> state[o] \in {"building", "dying"}

\* A slot that is still to be filled is empty, and belongs to a call or to an object being built.
Fresh ==
    \A n \in Nodes, k \in Slots :
        src[n][k] # Nil => at[<<n, k>>] = Nil /\ (n \in Objs => state[n] = "building")

Hollow == \A o \in Objs, k \in Slots : state[o] \in {"unborn", "freed"} => at[<<o, k>>] = Nil

HeldBy(t, d) == \E v \in Vars : at[<<t, v>>] = d

\* What is being copied, or given new references, is held by the goroutine that does it.
CallerHolds ==
    /\ \A n \in Nodes, k \in Slots :
        src[n][k] # Nil /\ src[n][k][1] \in Objs => HeldBy(Worker(n), src[n][k][1])
    /\ \A t \in Threads : \A p \in rep[t] : HeldBy(t, p[1])

IInv == TypeOK /\ CountsExact /\ LiveCounted /\ Worked /\ Fresh /\ Hollow /\ CallerHolds

-----------------------------------------------------------------------------
LEMMA PlacesFinite == IsFiniteSet(Places)
<1>1. IsFiniteSet(Slots)
  BY Separate, FS_Interval DEF Slots
<1>2. IsFiniteSet(Nodes)
  BY Separate, FS_Union, Zenon DEF Nodes
<1>3. IsFiniteSet(Nodes \X Slots)
  BY <1>1, <1>2, FS_Product
<1>4. IsFiniteSet(Threads \X Vars)
  BY Separate, FS_Product
<1> QED
  BY <1>3, <1>4, FS_Union, Zenon DEF Places

LEMMA RefsFinite == ASSUME NEW o PROVE IsFiniteSet(Refs(o)) /\ Cardinality(Refs(o)) \in Nat
<1>1. IsFiniteSet(Refs(o))
  BY PlacesFinite, FS_Subset DEF Refs
<1> QED
  BY <1>1, FS_CardinalityType

\* An empty place gets a reference.
LEMMA AddRef ==
    ASSUME TypeOK, CountsExact, NEW p \in Places, NEW x \in Objs, at[p] = Nil,
           at' = [at EXCEPT ![p] = x], count' = [count EXCEPT ![x] = @ + 1]
    PROVE  CountsExact'
<1> SUFFICES ASSUME NEW o \in Objs PROVE count'[o] = Cardinality(Refs(o)')
  BY DEF CountsExact
<1>1. o # Nil /\ x # Nil
  BY Separate
<1>2. CASE o = x
  <2>1. Refs(o)' = Refs(o) \cup {p} /\ p \notin Refs(o)
    BY <1>1, <1>2 DEF Refs, TypeOK
  <2>2. Cardinality(Refs(o)') = Cardinality(Refs(o)) + 1
    BY <2>1, RefsFinite, FS_AddElement, Zenon
  <2> QED
    BY <1>2, <2>2 DEF TypeOK, CountsExact
<1>3. CASE o # x
  <2>1. Refs(o)' = Refs(o)
    BY <1>1, <1>3 DEF Refs, TypeOK
  <2> QED
    BY <1>3, <2>1 DEF TypeOK, CountsExact
<1> QED
  BY <1>2, <1>3

\* A place loses its reference.
LEMMA RemoveRef ==
    ASSUME TypeOK, CountsExact, NEW p \in Places, at[p] # Nil,
           at' = [at EXCEPT ![p] = Nil], count' = [count EXCEPT ![at[p]] = @ - 1]
    PROVE  CountsExact' /\ count[at[p]] > 0
<1> DEFINE x == at[p]
<1>0. x \in Objs
  BY DEF TypeOK
<1>1. p \in Refs(x)
  BY DEF Refs
<1>2. Cardinality(Refs(x) \ {p}) = Cardinality(Refs(x)) - 1
  BY <1>1, RefsFinite, FS_RemoveElement, Zenon
<1>3. Cardinality(Refs(x)) > 0
  <2>1. Refs(x) # {} BY <1>1
  <2> QED BY <2>1, RefsFinite, FS_EmptySet
<1>4. ASSUME NEW o \in Objs PROVE count'[o] = Cardinality(Refs(o)')
  <2>1. o # Nil
    BY Separate
  <2>2. CASE o = x
    <3>1. Refs(o)' = Refs(o) \ {p}
      BY <2>1, <2>2 DEF Refs, TypeOK
    <3> QED
      BY <1>2, <2>2, <3>1 DEF TypeOK, CountsExact
  <2>3. CASE o # x
    <3>1. Refs(o)' = Refs(o)
      BY <2>1, <2>3 DEF Refs, TypeOK
    <3> QED
      BY <2>3, <3>1 DEF TypeOK, CountsExact
  <2> QED
    BY <2>2, <2>3
<1> QED
  BY <1>0, <1>3, <1>4 DEF CountsExact

\* Two places exchange their references.
LEMMA SwapRefs ==
    ASSUME TypeOK, CountsExact, NEW p \in Places, NEW q \in Places, p # q,
           at' = [at EXCEPT ![p] = at[q], ![q] = at[p]], count' = count
    PROVE  CountsExact'
<1> SUFFICES ASSUME NEW o \in Objs PROVE Cardinality(Refs(o)') = Cardinality(Refs(o))
  BY DEF CountsExact
<1>0. at'[p] = at[q] /\ at'[q] = at[p] /\ \A r \in Places : r # p /\ r # q => at'[r] = at[r]
  BY DEF TypeOK
<1> DEFINE Rest == Refs(o) \ {p, q}
<1>1. IsFiniteSet(Rest) /\ p \notin Rest /\ q \notin Rest
  BY RefsFinite, FS_Subset
<1>2. CASE at[p] = o /\ at[q] = o
  BY <1>0, <1>2, Zenon DEF Refs
<1>3. CASE at[p] # o /\ at[q] # o
  BY <1>0, <1>3, Zenon DEF Refs
<1>4. Cardinality(Rest \cup {p}) = Cardinality(Rest) + 1 /\ Cardinality(Rest \cup {q}) = Cardinality(Rest) + 1
  <2> HIDE DEF Rest
  <2> QED BY <1>1, FS_AddElement, Zenon
<1>5. CASE at[p] = o /\ at[q] # o
  <2>1. Refs(o) = Rest \cup {p} /\ Refs(o)' = Rest \cup {q}
    BY <1>0, <1>5, Zenon DEF Refs
  <2> QED
    BY <1>4, <2>1
<1>6. CASE at[p] # o /\ at[q] = o
  <2>1. Refs(o) = Rest \cup {q} /\ Refs(o)' = Rest \cup {p}
    BY <1>0, <1>6, Zenon DEF Refs
  <2> QED
    BY <1>4, <2>1
<1> QED
  BY <1>2, <1>3, <1>5, <1>6

-----------------------------------------------------------------------------
LEMMA InitIInv == Init => IInv
<1> SUFFICES ASSUME Init PROVE IInv
  OBVIOUS
<1>1. TypeOK
  BY Separate DEF Init, TypeOK
<1>2. CountsExact
  <2> SUFFICES ASSUME NEW o \in Objs PROVE Cardinality(Refs(o)) = 0
    BY DEF Init, CountsExact
  <2>1. Refs(o) = {}
    BY Separate DEF Init, Refs
  <2> QED
    BY <2>1, FS_EmptySet
<1>3. LiveCounted /\ Worked
  BY DEF Init, LiveCounted, Worked
<1>4. Fresh /\ Hollow /\ CallerHolds
  BY DEF Init, Fresh, Hollow, CallerHolds, Places, Nodes
<1> QED
  BY <1>1, <1>2, <1>3, <1>4 DEF IInv

\* What a place refers to is counted, and therefore live.
LEMMA HeldIsLive ==
    ASSUME IInv, NEW p \in Places, at[p] # Nil
    PROVE  at[p] \in Objs /\ count[at[p]] > 0 /\ state[at[p]] = "live"
<1> DEFINE x == at[p]
<1>1. x \in Objs
  BY DEF IInv, TypeOK
<1>2. Refs(x) # {}
  BY DEF Refs
<1>3. Cardinality(Refs(x)) > 0
  BY <1>2, RefsFinite, FS_EmptySet
<1> QED
  BY <1>1, <1>3 DEF IInv, CountsExact, LiveCounted, TypeOK

\* The places are of three kinds.
LEMMA PlaceKinds ==
    /\ \A o \in Objs, k \in Slots : <<o, k>> \in Places /\ o \in Nodes /\ o \notin Threads
    /\ \A t \in Threads, k \in Slots : <<t, k>> \in Places /\ t \in Nodes /\ t \notin Objs
    /\ \A t \in Threads, v \in Vars : <<t, v>> \in Places /\ v \notin Slots
  BY Separate DEF Places, Nodes

\* Slots that are still to be filled belong to some goroutine's call.
LEMMA WorkerIsThread ==
    ASSUME IInv, NEW n \in Nodes, NEW k \in Slots, src[n][k] # Nil
    PROVE  Worker(n) \in Threads
<1>1. CASE n \in Threads
  BY <1>1 DEF Worker
<1>2. CASE n \notin Threads
  <2>1. n \in Objs /\ state[n] = "building"
    BY <1>2, Zenon DEF IInv, Fresh, Nodes
  <2>2. by[n] # Nil /\ by[n] \in Threads \cup {Nil}
    BY <2>1 DEF IInv, Worked, TypeOK
  <2> QED
    BY <1>2, <2>2 DEF Worker
<1> QED
  BY <1>1, <1>2

\* A step that changes variables only of idle goroutines, or empty ones, takes nothing from a call.
LEMMA KeepHolds ==
    ASSUME IInv, src' = src, rep' = rep,
           \A n \in Objs, k \in Slots : src[n][k] # Nil => by'[n] = by[n],
           \A t \in Threads, v \in Vars : at'[<<t, v>>] = at[<<t, v>>] \/ at[<<t, v>>] = Nil \/ Idle(t)
    PROVE  CallerHolds'
<1>1. ASSUME NEW n \in Nodes, NEW k \in Slots, src[n][k] # Nil, src[n][k][1] \in Objs
      PROVE  HeldBy(Worker(n), src[n][k][1])'
  <2>1. HeldBy(Worker(n), src[n][k][1])
    BY <1>1 DEF IInv, CallerHolds
  <2>2. Worker(n)' = Worker(n)
    BY <1>1 DEF Worker, Nodes
  <2>3. Worker(n) \in Threads
    BY <1>1, WorkerIsThread
  <2>4. ~ Idle(Worker(n))
    BY <1>1, <2>3, Zenon DEF Idle, Worker, Nodes
  <2>5. src[n][k][1] # Nil
    BY <1>1, Separate
  <2> QED
    BY <2>1, <2>2, <2>3, <2>4, <2>5 DEF HeldBy
<1>2. ASSUME NEW t \in Threads, NEW p \in rep[t]
      PROVE  HeldBy(t, p[1])'
  <2>1. HeldBy(t, p[1]) /\ ~ Idle(t)
    BY <1>2 DEF IInv, CallerHolds, Idle
  <2>2. p[1] # Nil
    BY <1>2, Separate DEF IInv, TypeOK
  <2> QED
    BY <2>1, <2>2 DEF HeldBy
<1> QED
  BY <1>1, <1>2 DEF CallerHolds

-----------------------------------------------------------------------------
LEMMA RetainStep ==
    ASSUME IInv, NEW t \in Threads, NEW v \in Vars, NEW w \in Vars, Retain(t, v, w)
    PROVE  IInv'
<1> DEFINE x == at[<<t, v>>]
<1>1. x \in Objs /\ count[x] > 0 /\ state[x] = "live"
  BY HeldIsLive, PlaceKinds DEF Retain
<1>2. TypeOK'
  BY <1>1, PlaceKinds DEF IInv, TypeOK, Retain
<1>3. CountsExact'
  BY <1>1, AddRef, PlaceKinds, Zenon DEF IInv, Retain
<1>4. LiveCounted' /\ Worked'
  BY <1>1 DEF IInv, TypeOK, LiveCounted, Worked, Retain
<1>5. \A n \in Nodes, k \in Slots : at'[<<n, k>>] = at[<<n, k>>]
  BY PlaceKinds, Zenon DEF IInv, TypeOK, Retain, Nodes
<1>6. Fresh' /\ Hollow'
  BY <1>5 DEF IInv, Fresh, Hollow, Retain, Nodes
<1>7. CallerHolds'
  BY KeepHolds, PlaceKinds DEF IInv, TypeOK, Retain
<1> QED
  BY <1>2, <1>3, <1>4, <1>6, <1>7 DEF IInv

LEMMA SendStep ==
    ASSUME IInv, NEW t \in Threads, NEW v \in Vars, NEW u \in Threads, NEW w \in Vars, Send(t, v, u, w)
    PROVE  IInv'
<1> DEFINE p == <<u, w>>
           q == <<t, v>>
<1>1. p # q /\ p \in Places /\ q \in Places
  BY PlaceKinds DEF Send
<1>2. TypeOK'
  BY <1>1, Zenon DEF IInv, TypeOK, Send
<1>3. at' = [at EXCEPT ![p] = at[q], ![q] = at[p]]
  BY DEF Send
<1>4. CountsExact'
  BY <1>1, <1>3, SwapRefs, Zenon DEF IInv, Send
<1>5. LiveCounted' /\ Worked'
  BY DEF IInv, LiveCounted, Worked, Send
<1>6. \A n \in Nodes, k \in Slots : at'[<<n, k>>] = at[<<n, k>>]
  BY PlaceKinds, Zenon DEF IInv, TypeOK, Send, Nodes
<1>7. Fresh' /\ Hollow'
  <2>1. src' = src /\ state' = state
    BY DEF Send
  <2>2. Fresh'
    BY <1>6, <2>1 DEF IInv, Fresh
  <2>3. Hollow'
    BY <1>6, <2>1 DEF IInv, Hollow, Nodes
  <2> QED
    BY <2>2, <2>3
<1>8. CallerHolds'
  BY KeepHolds, PlaceKinds DEF IInv, TypeOK, Send
<1> QED
  BY <1>2, <1>4, <1>5, <1>7, <1>8 DEF IInv

\* Releasing a place that no call of a busy goroutine relies on.
LEMMA DropStep ==
    ASSUME IInv, NEW t \in Threads, NEW p \in Places, Drop(t, p),
           \A u \in Threads, v \in Vars : p = <<u, v>> => Idle(u)
    PROVE  IInv'
<1> DEFINE x == at[p]
<1>1. x \in Objs /\ count[x] > 0 /\ state[x] = "live"
  BY HeldIsLive DEF Drop
<1>2. TypeOK'
  <2>1. at' \in [Places -> Objs \cup {Nil}] /\ count' \in [Objs -> Nat]
    BY <1>1 DEF IInv, TypeOK, Drop
  <2>2. state' \in [Objs -> {"unborn", "building", "live", "dying", "freed"}] /\ by' \in [Objs -> Threads \cup {Nil}]
    BY <1>1 DEF IInv, TypeOK, Drop
  <2> QED
    BY <2>1, <2>2 DEF IInv, TypeOK, Drop
<1>3. CountsExact'
  BY <1>1, RemoveRef, Zenon DEF IInv, Drop
<1>4. LiveCounted' /\ Worked'
  <2>1. CASE count[x] = 1
    BY <1>1, <2>1, Separate DEF IInv, TypeOK, LiveCounted, Worked, Drop
  <2>2. CASE count[x] # 1
    BY <1>1, <2>2 DEF IInv, TypeOK, LiveCounted, Worked, Drop
  <2> QED
    BY <2>1, <2>2
<1>5. \A q \in Places : at'[q] = at[q] \/ at'[q] = Nil
  BY DEF IInv, TypeOK, Drop
<1>6. \A o \in Objs : state'[o] = state[o] \/ (state[o] = "live" /\ state'[o] = "dying")
  BY <1>1 DEF IInv, TypeOK, Drop
<1>7. Fresh'
  BY <1>5, <1>6, PlaceKinds DEF IInv, Fresh, Drop, Nodes
<1>8. Hollow'
  BY <1>5, <1>6, PlaceKinds DEF IInv, TypeOK, Hollow
<1>9. CallerHolds'
  <2>1. ASSUME NEW n \in Objs, NEW k \in Slots, src[n][k] # Nil PROVE by'[n] = by[n]
    <3>1. n # x
      BY <1>1, <2>1, Zenon DEF IInv, Fresh, Nodes
    <3> QED
      BY <3>1, <1>1 DEF IInv, TypeOK, Drop
  <2>2. ASSUME NEW u \in Threads, NEW v \in Vars
        PROVE at'[<<u, v>>] = at[<<u, v>>] \/ Idle(u)
    BY PlaceKinds DEF IInv, TypeOK, Drop
  <2> QED
    BY <2>1, <2>2, KeepHolds DEF Drop
<1> QED
  BY <1>2, <1>3, <1>4, <1>7, <1>8, <1>9 DEF IInv

LEMMA FreeStep ==
    ASSUME IInv, NEW t \in Threads, NEW o \in Objs, Free(t, o)
    PROVE  IInv'
<1>1. TypeOK' /\ CountsExact'
  BY DEF IInv, TypeOK, CountsExact, Refs, Free
<1>2. LiveCounted' /\ Worked'
  BY DEF IInv, TypeOK, LiveCounted, Worked, Free
<1>3. Fresh'
  BY DEF IInv, TypeOK, Fresh, Free
<1>4. Hollow'
  BY DEF IInv, TypeOK, Hollow, Free
<1>5. CallerHolds'
  <2>1. \A n \in Objs, k \in Slots : src[n][k] # Nil => by'[n] = by[n]
    BY Zenon DEF IInv, TypeOK, Fresh, Free, Nodes
  <2> QED
    BY <2>1, KeepHolds DEF Free
<1> QED
  BY <1>1, <1>2, <1>3, <1>4, <1>5 DEF IInv

\* The slots of a new object are taken from variables of the goroutine, or from an object that it holds.
LEMMA BuildStep ==
    ASSUME IInv, NEW t \in Threads, NEW o \in Objs, NEW from \in [Slots -> Places \cup {Nil}], Build(t, o, from),
           \A k \in Slots : from[k] # Nil /\ from[k][1] \in Objs => HeldBy(t, from[k][1])
    PROVE  IInv'
<1>1. TypeOK' /\ CountsExact'
  <2>1. src' \in [Nodes -> [Slots -> Places \cup {Nil}]]
    BY PlaceKinds, Zenon DEF IInv, TypeOK, Build
  <2>2. TypeOK'
    BY <2>1 DEF IInv, TypeOK, Build
  <2>3. CountsExact'
    BY DEF IInv, CountsExact, Refs, Build
  <2> QED
    BY <2>2, <2>3
<1>2. LiveCounted' /\ Worked'
  BY Separate DEF IInv, TypeOK, LiveCounted, Worked, Build
<1>3. Fresh'
  BY PlaceKinds DEF IInv, TypeOK, Fresh, Hollow, Build
<1>4. Hollow'
  BY DEF IInv, TypeOK, Hollow, Build
<1>5. CallerHolds'
  <2>1. at' = at /\ rep' = rep
    BY DEF Build
  <2>2. ASSUME NEW n \in Nodes, NEW k \in Slots, src'[n][k] # Nil, src'[n][k][1] \in Objs
        PROVE  HeldBy(Worker(n), src[n][k][1])'
    <3>1. CASE n = o
      <4>1. Worker(n)' = t /\ src'[n] = from
        BY <3>1, PlaceKinds, Zenon DEF IInv, TypeOK, Worker, Build
      <4> QED
        BY <2>1, <2>2, <4>1 DEF HeldBy
    <3>2. CASE n # o
      <4>1. Worker(n)' = Worker(n) /\ src'[n] = src[n]
        BY <3>2, <2>2 DEF IInv, TypeOK, Worker, Build, Nodes
      <4>2. HeldBy(Worker(n), src[n][k][1])
        BY <2>2, <4>1 DEF IInv, CallerHolds
      <4> QED
        BY <2>1, <4>1, <4>2 DEF HeldBy
    <3> QED
      BY <3>1, <3>2
  <2>3. \A u \in Threads : \A p \in rep'[u] : HeldBy(u, p[1])'
    BY <2>1 DEF IInv, CallerHolds, HeldBy
  <2> QED
    BY <2>2, <2>3 DEF CallerHolds
<1> QED
  BY <1>1, <1>2, <1>3, <1>4, <1>5 DEF IInv

LEMMA NewStep ==
    ASSUME IInv, NEW t \in Threads, NEW o \in Objs, New(t, o)
    PROVE  IInv'
<1>1. PICK from \in [Slots -> Own(t) \cup {Nil}] : Build(t, o, from)
  BY DEF New
<1>2. from \in [Slots -> Places \cup {Nil}]
  BY PlaceKinds DEF Own
<1>3. \A k \in Slots : from[k] # Nil => from[k][1] = t
  BY DEF Own
<1>4. \A k \in Slots : from[k] # Nil /\ from[k][1] \in Objs => HeldBy(t, from[k][1])
  BY <1>3, Separate
<1> QED
  BY <1>1, <1>2, <1>4, BuildStep

LEMMA SliceStep ==
    ASSUME IInv, NEW t \in Threads, NEW o \in Objs, NEW v \in Vars, Slice(t, o, v)
    PROVE  IInv'
<1> DEFINE d == at[<<t, v>>]
           from == [k \in Slots |-> <<d, k>>]
<1>1. d \in Objs
  BY HeldIsLive, PlaceKinds DEF Slice
<1>2. from \in [Slots -> Places \cup {Nil}]
  BY <1>1, PlaceKinds
<1>3. \A k \in Slots : from[k][1] = d
  OBVIOUS
<1>4. HeldBy(t, d)
  BY DEF HeldBy
<1>5. Build(t, o, from)
  BY DEF Slice
<1> HIDE DEF from
<1> QED
  BY <1>2, <1>3, <1>4, <1>5, BuildStep

LEMMA FillStep ==
    ASSUME IInv, NEW t \in Threads, NEW n \in Nodes, NEW k \in Slots, Fill(t, n, k)
    PROVE  IInv'
<1> DEFINE x == at[src[n][k]]
           p == <<n, k>>
<1>1. p \in Places /\ at[p] = Nil /\ src[n][k] \in Places
  BY DEF IInv, TypeOK, Fresh, Fill, Places
<1>2. x \in Objs \cup {Nil}
  BY <1>1 DEF IInv, TypeOK
<1>3. x # Nil => count[x] > 0 /\ state[x] = "live"
  BY <1>1, HeldIsLive
<1>4. src' = [src EXCEPT ![n][k] = Nil] /\ state' = state /\ by' = by /\ rep' = rep
      /\ at' = [at EXCEPT ![p] = x] /\ count' = IF x = Nil THEN count ELSE [count EXCEPT ![x] = @ + 1]
  BY DEF Fill
<1>5. TypeOK'
  <2>1. at' \in [Places -> Objs \cup {Nil}]
    BY <1>1, <1>2, <1>4 DEF IInv, TypeOK
  <2>2. count' \in [Objs -> Nat]
    BY <1>2, <1>4 DEF IInv, TypeOK
  <2>3. src' \in [Nodes -> [Slots -> Places \cup {Nil}]]
    BY <1>4 DEF IInv, TypeOK
  <2> QED
    BY <1>4, <2>1, <2>2, <2>3 DEF IInv, TypeOK
<1>6. CountsExact'
  <2>1. CASE x = Nil
    <3>1. at' = at
      BY <1>1, <1>4, <2>1 DEF IInv, TypeOK
    <3> QED
      BY <1>4, <2>1, <3>1 DEF IInv, CountsExact, Refs
  <2>2. CASE x # Nil
    BY <1>1, <1>2, <1>4, <2>2, AddRef, Zenon DEF IInv
  <2> QED
    BY <2>1, <2>2
<1>7. LiveCounted' /\ Worked'
  BY <1>2, <1>3, <1>4 DEF IInv, TypeOK, LiveCounted, Worked
<1>8. \A m \in Nodes, j \in Slots : src'[m][j] # Nil => src'[m][j] = src[m][j] /\ <<m, j>> # p
  BY <1>4 DEF IInv, TypeOK
<1>9. Fresh'
  <2> SUFFICES ASSUME NEW m \in Nodes, NEW j \in Slots, src'[m][j] # Nil
               PROVE  at'[<<m, j>>] = Nil /\ (m \in Objs => state'[m] = "building")
    BY DEF Fresh
  <2>1. src[m][j] # Nil /\ <<m, j>> # p /\ <<m, j>> \in Places
    BY <1>8 DEF Places
  <2>2. at'[<<m, j>>] = at[<<m, j>>]
    BY <1>1, <1>4, <2>1 DEF IInv, TypeOK
  <2> QED
    BY <1>4, <2>1, <2>2 DEF IInv, Fresh
<1>10. Hollow'
  <2> SUFFICES ASSUME NEW o \in Objs, NEW j \in Slots, state[o] \in {"unborn", "freed"}
               PROVE  at'[<<o, j>>] = Nil
    BY <1>4 DEF Hollow
  <2>1. o # n
    BY DEF IInv, Fresh, Fill
  <2> QED
    BY <1>1, <1>4, <2>1, PlaceKinds DEF IInv, TypeOK, Hollow
<1>11. \A u \in Threads, v \in Vars : at'[<<u, v>>] = at[<<u, v>>]
  BY <1>1, <1>4, PlaceKinds, Zenon DEF IInv, TypeOK
<1>12. CallerHolds'
  <2>1. ASSUME NEW m \in Nodes, NEW j \in Slots, src'[m][j] # Nil, src'[m][j][1] \in Objs
        PROVE  HeldBy(Worker(m), src[m][j][1])'
    <3>1. HeldBy(Worker(m), src[m][j][1]) /\ src'[m][j] = src[m][j]
      BY <1>8, <2>1 DEF IInv, CallerHolds
    <3>2. Worker(m)' = Worker(m) /\ Worker(m) \in Threads
      <4>1. Worker(m)' = Worker(m)
        BY <1>4 DEF Worker
      <4>2. Worker(m) \in Threads
        BY <1>8, <2>1, WorkerIsThread
      <4> QED
        BY <4>1, <4>2
    <3> QED
      BY <1>11, <3>1, <3>2 DEF HeldBy
  <2>2. ASSUME NEW u \in Threads, NEW q \in rep'[u] PROVE HeldBy(u, q[1])'
    BY <1>4, <1>11, <2>2 DEF IInv, CallerHolds, HeldBy
  <2> QED
    BY <2>1, <2>2 DEF CallerHolds
<1> QED
  BY <1>5, <1>6, <1>7, <1>9, <1>10, <1>12 DEF IInv

LEMMA BirthStep ==
    ASSUME IInv, NEW t \in Threads, NEW o \in Objs, NEW v \in Vars, Birth(t, o, v)
    PROVE  IInv'
<1> DEFINE p == <<t, v>>
<1>1. p \in Places /\ at[p] = Nil /\ at' = [at EXCEPT ![p] = o]
  BY PlaceKinds DEF Birth
<1>2. count[o] = 0
  BY DEF IInv, TypeOK, LiveCounted, Birth
<1>3. TypeOK'
  BY <1>1, Separate DEF IInv, TypeOK, Birth
<1>4. CountsExact'
  <2>1. count' = [count EXCEPT ![o] = @ + 1]
    BY <1>2 DEF IInv, TypeOK, Birth
  <2> QED
    BY <1>1, <2>1, AddRef, Zenon DEF IInv
<1>5. LiveCounted' /\ Worked'
  BY DEF IInv, TypeOK, LiveCounted, Worked, Birth
<1>6. \A n \in Nodes, k \in Slots : at'[<<n, k>>] = at[<<n, k>>]
  BY <1>1, PlaceKinds, Zenon DEF IInv, TypeOK, Nodes
<1>7. Fresh'
  BY <1>6 DEF IInv, TypeOK, Fresh, Birth
<1>8. Hollow'
  BY <1>6 DEF IInv, TypeOK, Hollow, Birth, Nodes
<1>9. CallerHolds'
  <2>1. \A n \in Objs, k \in Slots : src[n][k] # Nil => by'[n] = by[n]
    BY DEF IInv, TypeOK, Birth
  <2>2. \A u \in Threads, w \in Vars : at'[<<u, w>>] = at[<<u, w>>] \/ at[<<u, w>>] = Nil
    BY <1>1, PlaceKinds, Zenon DEF IInv, TypeOK
  <2> QED
    BY <2>1, <2>2, KeepHolds DEF Birth
<1> QED
  BY <1>3, <1>4, <1>5, <1>7, <1>8, <1>9 DEF IInv

LEMMA ReplaceStep ==
    ASSUME IInv, NEW t \in Threads, NEW v \in Vars, Replace(t, v)
    PROVE  IInv'
<1> DEFINE d == at[<<t, v>>]
<1>1. PICK from \in [Slots -> Own(t) \cup {Nil}], ks \in SUBSET Slots :
        src' = [src EXCEPT ![t] = from] /\ rep' = [rep EXCEPT ![t] = {<<d, k>> : k \in ks}]
  BY Zenon DEF Replace
<1>2. at' = at /\ count' = count /\ state' = state /\ by' = by
  BY DEF Replace
<1>3. d \in Objs
  BY HeldIsLive, PlaceKinds DEF Replace
<1>4. from \in [Slots -> Places \cup {Nil}]
  BY PlaceKinds DEF Own
<1>5. TypeOK'
  <2>1. src' \in [Nodes -> [Slots -> Places \cup {Nil}]]
    BY <1>1, <1>4, Zenon DEF IInv, TypeOK
  <2>2. rep' \in [Threads -> SUBSET (Objs \X Slots)]
    BY <1>1, <1>3 DEF IInv, TypeOK
  <2> QED
    BY <1>2, <2>1, <2>2 DEF IInv, TypeOK
<1>6. CountsExact' /\ LiveCounted' /\ Worked' /\ Hollow'
  BY <1>2 DEF IInv, CountsExact, Refs, LiveCounted, Worked, Hollow
<1>7. Fresh'
  <2> SUFFICES ASSUME NEW m \in Nodes, NEW k \in Slots, src'[m][k] # Nil
               PROVE  at[<<m, k>>] = Nil /\ (m \in Objs => state[m] = "building")
    BY <1>2 DEF Fresh
  <2>1. CASE m = t
    BY <2>1, PlaceKinds DEF Replace, Idle
  <2>2. CASE m # t
    BY <1>1, <2>2 DEF IInv, TypeOK, Fresh
  <2> QED
    BY <2>1, <2>2
<1>8. CallerHolds'
  <2>1. ASSUME NEW m \in Nodes, NEW k \in Slots, src'[m][k] # Nil, src'[m][k][1] \in Objs
        PROVE  HeldBy(Worker(m), src[m][k][1])'
    <3>1. CASE m = t
      <4>1. src'[m] = from
        BY <1>1, <3>1, PlaceKinds DEF IInv, TypeOK
      <4>2. src'[m][k][1] = t
        BY <2>1, <4>1 DEF Own
      <4> QED
        BY <2>1, <4>2, Separate
    <3>2. CASE m # t
      <4>1. src'[m] = src[m] /\ Worker(m)' = Worker(m)
        BY <1>1, <1>2, <3>2 DEF IInv, TypeOK, Worker
      <4>2. HeldBy(Worker(m), src[m][k][1])
        BY <2>1, <4>1 DEF IInv, CallerHolds
      <4> QED
        BY <1>2, <4>1, <4>2 DEF HeldBy
    <3> QED
      BY <3>1, <3>2
  <2>2. ASSUME NEW u \in Threads, NEW q \in rep'[u] PROVE HeldBy(u, q[1])'
    <3>1. CASE u = t
      <4>1. q[1] = d
        BY <1>1, <2>2, <3>1 DEF IInv, TypeOK
      <4> QED
        BY <1>2, <3>1, <4>1 DEF HeldBy
    <3>2. CASE u # t
      <4>1. q \in rep[u]
        BY <1>1, <2>2, <3>2 DEF IInv, TypeOK
      <4>2. HeldBy(u, q[1])
        BY <4>1 DEF IInv, CallerHolds
      <4> QED
        BY <1>2, <4>2 DEF HeldBy
    <3> QED
      BY <3>1, <3>2
  <2> QED
    BY <2>1, <2>2 DEF CallerHolds
<1> QED
  BY <1>5, <1>6, <1>7, <1>8 DEF IInv

LEMMA SwapStep ==
    ASSUME IInv, NEW t \in Threads, NEW p \in Objs \X Slots, Swap(t, p)
    PROVE  IInv'
<1> DEFINE q == <<t, p[2]>>
<1>1. PICK d \in Objs, k \in Slots : p = <<d, k>>
  OBVIOUS
<1>2. p \in Places /\ q \in Places /\ p # q /\ p[1] = d /\ p[2] = k
  BY <1>1, PlaceKinds
<1>3. at' = [at EXCEPT ![p] = at[q], ![q] = at[p]] /\ rep' = [rep EXCEPT ![t] = @ \ {p}]
      /\ count' = count /\ state' = state /\ by' = by /\ src' = src
  BY DEF Swap
<1>4. TypeOK'
  BY <1>2, <1>3 DEF IInv, TypeOK
<1>5. CountsExact'
  BY <1>2, <1>3, SwapRefs, Zenon DEF IInv
<1>6. LiveCounted' /\ Worked'
  BY <1>3 DEF IInv, LiveCounted, Worked
<1>7. state[d] = "live"
  <2>1. HeldBy(t, d)
    BY <1>2 DEF IInv, CallerHolds, Swap
  <2>2. PICK v \in Vars : at[<<t, v>>] = d
    BY <2>1 DEF HeldBy
  <2> QED
    BY <2>2, HeldIsLive, PlaceKinds, Separate
<1>8. Fresh'
  <2> SUFFICES ASSUME NEW m \in Nodes, NEW j \in Slots, src[m][j] # Nil
               PROVE  at'[<<m, j>>] = Nil /\ (m \in Objs => state[m] = "building")
    BY <1>3, Zenon DEF Fresh
  <2>1. at[<<m, j>>] = Nil /\ (m \in Objs => state[m] = "building")
    BY DEF IInv, Fresh
  <2>2. m # t /\ m # d
    BY <1>7, <2>1 DEF Swap
  <2>3. at'[<<m, j>>] = at[<<m, j>>]
    BY <1>1, <1>2, <1>3, <2>2 DEF IInv, TypeOK, Places
  <2> QED
    BY <2>1, <2>3
<1>9. Hollow'
  <2> SUFFICES ASSUME NEW o \in Objs, NEW j \in Slots, state[o] \in {"unborn", "freed"}
               PROVE  at'[<<o, j>>] = Nil
    BY <1>3, Zenon DEF Hollow
  <2>1. o # d /\ o # t
    BY <1>7, PlaceKinds, Zenon
  <2>2. at'[<<o, j>>] = at[<<o, j>>]
    BY <1>1, <1>2, <1>3, <2>1, PlaceKinds DEF IInv, TypeOK
  <2> QED
    BY <2>2 DEF IInv, Hollow
<1>10. CallerHolds'
  <2>1. \A u \in Threads, v \in Vars : at'[<<u, v>>] = at[<<u, v>>]
    BY <1>1, <1>2, <1>3, PlaceKinds, Zenon DEF IInv, TypeOK
  <2>2. ASSUME NEW m \in Nodes, NEW j \in Slots, src'[m][j] # Nil, src'[m][j][1] \in Objs
        PROVE  HeldBy(Worker(m), src[m][j][1])'
    <3>1. HeldBy(Worker(m), src[m][j][1])
      BY <1>3, <2>2 DEF IInv, CallerHolds
    <3>2. Worker(m)' = Worker(m) /\ Worker(m) \in Threads
      BY <1>3, <2>2, WorkerIsThread DEF Worker
    <3> QED
      BY <1>3, <2>1, <3>1, <3>2, Zenon DEF HeldBy
  <2>3. ASSUME NEW u \in Threads, NEW r \in rep'[u] PROVE HeldBy(u, r[1])'
    <3>1. r \in rep[u]
      BY <1>3, <2>3 DEF IInv, TypeOK
    <3>2. HeldBy(u, r[1])
      BY <3>1 DEF IInv, CallerHolds
    <3> QED
      BY <2>1, <3>2 DEF HeldBy
  <2> QED
    BY <2>2, <2>3 DEF CallerHolds
<1> QED
  BY <1>4, <1>5, <1>6, <1>8, <1>9, <1>10 DEF IInv

-----------------------------------------------------------------------------
LEMMA NextIInv == IInv /\ [Next]_vars => IInv'
<1> SUFFICES ASSUME IInv, [Next]_vars PROVE IInv'
  OBVIOUS
<1>1. CASE UNCHANGED vars
  <2>1. TypeOK' /\ CountsExact'
    BY <1>1, Zenon DEF vars, IInv, TypeOK, CountsExact, Refs
  <2>2. LiveCounted' /\ Worked' /\ Fresh' /\ Hollow'
    BY <1>1 DEF vars, IInv, LiveCounted, Worked, Fresh, Hollow
  <2>3. CallerHolds'
    BY <1>1, KeepHolds DEF vars
  <2> QED
    BY <2>1, <2>2, <2>3 DEF IInv
<1>2. ASSUME NEW t \in Threads, Call(t) PROVE IInv'
  <2>1. ASSUME NEW v \in Vars, Release(t, v) PROVE IInv'
    <3>1. \A u \in Threads, w \in Vars : <<t, v>> = <<u, w>> => Idle(u)
      BY <2>1 DEF Release
    <3> QED
      BY <2>1, <3>1, DropStep, PlaceKinds DEF Release
  <2> QED
    BY <1>2, <2>1, RetainStep, SendStep, NewStep, SliceStep, ReplaceStep DEF Call
<1>3. ASSUME NEW t \in Threads, Work(t) PROVE IInv'
  <2>1. ASSUME NEW n \in Nodes, NEW k \in Slots, Drop(t, <<n, k>>) PROVE IInv'
    <3>1. <<n, k>> \in Places /\ \A u \in Threads, v \in Vars : <<n, k>> # <<u, v>>
      BY PlaceKinds DEF Places
    <3> QED
      BY <2>1, <3>1, DropStep
  <2>2. ASSUME NEW k \in Slots, DropOld(t, k) PROVE IInv'
    BY <2>1, <2>2, PlaceKinds DEF DropOld
  <2>3. ASSUME NEW o \in Objs, NEW k \in Slots, Dismantle(t, o, k) PROVE IInv'
    BY <2>1, <2>3, PlaceKinds DEF Dismantle
  <2> QED
    BY <1>3, <2>2, <2>3, FillStep, BirthStep, SwapStep, FreeStep DEF Work
<1> QED
  BY <1>1, <1>2, <1>3 DEF Next

\* The variables, counts and slots keep their types for any number of goroutines and objects.
THEOREM TypeCorrect == Spec => []TypeOK
<1>1. IInv => TypeOK
  BY DEF IInv
<1> QED
  BY <1>1, InitIInv, NextIInv, PTL DEF Spec

\* Retain and Release, called from any number of goroutines, keep the count equal to the number of references.
THEOREM CountsCorrect == Spec => []CountsExact
<1>1. IInv => CountsExact
  BY DEF IInv
<1> QED
  BY <1>1, InitIInv, NextIInv, PTL DEF Spec

\* No buffer, data or array is freed while a variable, an object or a call refers to it.
THEOREM Safe == Spec => []NoUseAfterFree
<1>1. IInv => NoUseAfterFree
  BY HeldIsLive, Zenon DEF NoUseAfterFree
<1> QED
  BY <1>1, InitIInv, NextIInv, PTL DEF Spec

\* NewSliceData and the other constructors never read the slots of a dismantled object.
THEOREM CopiesLive == Spec => []ReadsLive
<1>1. ASSUME IInv, NEW n \in Nodes, NEW k \in Slots, src[n][k] # Nil, src[n][k][1] \in Objs
      PROVE  state[src[n][k][1]] = "live"
  <2>1. Worker(n) \in Threads /\ HeldBy(Worker(n), src[n][k][1])
    BY <1>1, WorkerIsThread DEF IInv, CallerHolds
  <2>2. PICK v \in Vars : at[<<Worker(n), v>>] = src[n][k][1]
    BY <2>1 DEF HeldBy
  <2> QED
    BY <1>1, <2>1, <2>2, HeldIsLive, PlaceKinds, Separate
<1>2. IInv => ReadsLive
  BY <1>1 DEF ReadsLive
<1> QED
  BY <1>2, InitIInv, NextIInv, PTL DEF Spec

-----------------------------------------------------------------------------
(***************************************************************************)
(* Exact counts do not exclude a leak: objects that refer to one another   *)
(* in a circle would keep each other alive.  A reference is only ever      *)
(* stored in an object that no object refers to yet, so there is no        *)
(* circle.                                                                 *)
(***************************************************************************)
\* Among any objects there is one that none of them refers to.
Acyclic ==
    \A S \in SUBSET Objs : S # {} => \E x \in S : \A y \in S, k \in Slots : at[<<y, k>>] # x

\* A call copies the variables of its own goroutine.
OwnSource ==
    \A n \in Nodes, k \in Slots :
        src[n][k] # Nil /\ src[n][k][1] \in Threads => src[n][k][1] = Worker(n)

\* An object whose slots are being replaced is referred to by one variable of the goroutine that does it.
Exclusive ==
    \A t \in Threads : \A r \in rep[t] :
        /\ \E v \in Vars : Refs(r[1]) = {<<t, v>>}
        /\ \A o \in Objs : by[o] # t
        /\ \A k \in Slots : src[t][k] \notin Refs(r[1])

AInv == IInv /\ Acyclic /\ OwnSource /\ Exclusive

Unreferred(o) == \A y \in Objs, k \in Slots : at[<<y, k>>] # o

\* References may go, and may be added to objects that no object refers to.
LEMMA KeepAcyclic ==
    ASSUME Acyclic,
           \A y \in Objs, k \in Slots : at'[<<y, k>>] \in {at[<<y, k>>], Nil} \/ Unreferred(y)'
    PROVE  Acyclic'
<1> SUFFICES ASSUME NEW S \in SUBSET Objs, S # {}
             PROVE  \E x \in S : \A y \in S, k \in Slots : at'[<<y, k>>] # x
  BY DEF Acyclic
<1>1. CASE \E x \in S : Unreferred(x)'
  BY <1>1 DEF Unreferred
<1>2. CASE \A x \in S : ~ Unreferred(x)'
  <2>1. PICK x \in S : \A y \in S, k \in Slots : at[<<y, k>>] # x
    BY DEF Acyclic
  <2>2. \A y \in S, k \in Slots : at'[<<y, k>>] \in {at[<<y, k>>], Nil}
    BY <1>2, Zenon
  <2>3. x # Nil
    BY Separate
  <2> QED
    BY <2>1, <2>2, <2>3
<1> QED
  BY <1>1, <1>2

\* What is being replaced stays exclusive when no reference to it comes or goes.
LEMMA KeepExclusive ==
    ASSUME Exclusive,
           \A t \in Threads : \A r \in rep'[t] :
               /\ r \in rep[t]
               /\ Refs(r[1])' = Refs(r[1])
               /\ \A o \in Objs : by[o] # t => by'[o] # t
               /\ \A k \in Slots : src'[t][k] \in {src[t][k], Nil}
    PROVE  Exclusive'
<1> SUFFICES ASSUME NEW t \in Threads, NEW r \in rep'[t]
             PROVE  /\ \E v \in Vars : Refs(r[1])' = {<<t, v>>}
                    /\ \A o \in Objs : by'[o] # t
                    /\ \A k \in Slots : src'[t][k] \notin Refs(r[1])'
  BY DEF Exclusive
<1>1. r \in rep[t] /\ Refs(r[1])' = Refs(r[1])
  OBVIOUS
<1>2. PICK v \in Vars : Refs(r[1]) = {<<t, v>>}
  BY <1>1 DEF Exclusive
<1>3. Nil # <<t, v>>
  BY Separate
<1> QED
  BY <1>1, <1>2, <1>3 DEF Exclusive

\* A goroutine that is replacing slots is in a call, and the object is live.
LEMMA ReplacedObject ==
    ASSUME AInv, NEW t \in Threads, NEW r \in rep[t]
    PROVE  /\ r[1] \in Objs /\ state[r[1]] = "live" /\ ~ Idle(t)
           /\ \E v \in Vars : at[<<t, v>>] = r[1] /\ \A p \in Places : at[p] = r[1] => p = <<t, v>>
<1>1. r[1] \in Objs
  BY DEF AInv, IInv, TypeOK
<1>2. PICK v \in Vars : Refs(r[1]) = {<<t, v>>}
  BY DEF AInv, Exclusive
<1>3. at[<<t, v>>] = r[1] /\ \A p \in Places : at[p] = r[1] => p = <<t, v>>
  BY <1>2 DEF Refs
<1>4. state[r[1]] = "live"
  BY <1>1, <1>3, HeldIsLive, PlaceKinds, Separate, Zenon DEF AInv
<1> QED
  BY <1>1, <1>3, <1>4 DEF Idle

\* An object that is not live is referred to by nothing.
LEMMA DeadUnreferred ==
    ASSUME IInv, NEW o \in Objs, state[o] # "live"
    PROVE  \A p \in Places : at[p] # o
  BY HeldIsLive, Separate, Zenon

-----------------------------------------------------------------------------
\* A step that copies no reference: it moves or drops those of variables and calls, or drops those of objects.
LEMMA PlainStep ==
    ASSUME AInv, IInv', src' = src, rep' = rep,
           \A y \in Objs, k \in Slots : at'[<<y, k>>] \in {at[<<y, k>>], Nil},
           \A t \in Threads : \A r \in rep[t] : Refs(r[1])' = Refs(r[1]),
           \A o \in Objs, t \in Threads : by'[o] = t => by[o] = t \/ rep[t] = {},
           \A o \in Objs, k \in Slots : src[o][k] # Nil => by'[o] = by[o]
    PROVE  AInv'
<1>1. Acyclic'
  BY KeepAcyclic DEF AInv
<1>2. OwnSource'
  BY DEF AInv, OwnSource, Worker, Nodes
<1>3. Exclusive'
  <2>1. ASSUME NEW t \in Threads, NEW r \in rep'[t]
        PROVE  /\ r \in rep[t] /\ Refs(r[1])' = Refs(r[1])
               /\ \A o \in Objs : by[o] # t => by'[o] # t
               /\ \A k \in Slots : src'[t][k] \in {src[t][k], Nil}
    BY <2>1
  <2> QED
    BY <2>1, KeepExclusive DEF AInv
<1> QED
  BY <1>1, <1>2, <1>3, Zenon DEF AInv

LEMMA RetainAcyclic ==
    ASSUME AInv, IInv', NEW t \in Threads, NEW v \in Vars, NEW w \in Vars, Retain(t, v, w)
    PROVE  AInv'
<1>1. \A y \in Objs, k \in Slots : at'[<<y, k>>] = at[<<y, k>>]
  BY PlaceKinds, Zenon DEF AInv, IInv, TypeOK, Retain
<1>2. ASSUME NEW u \in Threads, NEW r \in rep[u] PROVE Refs(r[1])' = Refs(r[1])
  <2>1. PICK x \in Vars : at[<<u, x>>] = r[1] /\ \A p \in Places : at[p] = r[1] => p = <<u, x>>
    BY ReplacedObject
  <2>2. u # t /\ r[1] # Nil
    BY ReplacedObject, Separate DEF Retain
  <2>3. at[<<t, v>>] # r[1] /\ at[<<t, w>>] # r[1]
    BY <2>1, <2>2, PlaceKinds
  <2> QED
    BY <2>3 DEF AInv, IInv, TypeOK, Retain, Refs
<1> QED
  BY <1>1, <1>2, PlainStep DEF Retain

LEMMA SendAcyclic ==
    ASSUME AInv, IInv', NEW t \in Threads, NEW v \in Vars, NEW u \in Threads, NEW w \in Vars, Send(t, v, u, w)
    PROVE  AInv'
<1>1. \A y \in Objs, k \in Slots : at'[<<y, k>>] = at[<<y, k>>]
  BY PlaceKinds, ZenonT(40) DEF AInv, IInv, TypeOK, Send
<1>2. ASSUME NEW m \in Threads, NEW r \in rep[m] PROVE Refs(r[1])' = Refs(r[1])
  <2>1. PICK x \in Vars : at[<<m, x>>] = r[1] /\ \A p \in Places : at[p] = r[1] => p = <<m, x>>
    BY ReplacedObject, Zenon
  <2>2. m # t /\ m # u /\ r[1] # Nil
    BY ReplacedObject, Separate DEF Send
  <2>3. at[<<t, v>>] # r[1] /\ at[<<u, w>>] # r[1]
    BY <2>1, <2>2, PlaceKinds
  <2> QED
    BY <2>2, <2>3, Zenon DEF AInv, IInv, TypeOK, Send, Refs
<1> QED
  BY <1>1, <1>2, PlainStep, Zenon DEF Send

\* Releasing a place that is not a variable of a goroutine in a call, by one that replaces nothing.
LEMMA DropAcyclic ==
    ASSUME AInv, IInv', NEW t \in Threads, NEW p \in Places, Drop(t, p), rep[t] = {},
           \A u \in Threads, v \in Vars : p = <<u, v>> => Idle(u)
    PROVE  AInv'
<1>1. \A y \in Objs, k \in Slots : at'[<<y, k>>] \in {at[<<y, k>>], Nil}
  BY PlaceKinds DEF AInv, IInv, TypeOK, Drop
<1>2. ASSUME NEW m \in Threads, NEW r \in rep[m] PROVE Refs(r[1])' = Refs(r[1])
  <2>1. PICK x \in Vars : at[<<m, x>>] = r[1] /\ \A q \in Places : at[q] = r[1] => q = <<m, x>>
    BY ReplacedObject
  <2>2. ~ Idle(m) /\ r[1] # Nil
    BY ReplacedObject, Separate
  <2>3. at[p] # r[1]
    BY <2>1, <2>2
  <2> QED
    BY <2>2, <2>3, Zenon DEF AInv, IInv, TypeOK, Drop, Refs
<1>3. \A o \in Objs, u \in Threads : by'[o] = u => by[o] = u \/ rep[u] = {}
  BY DEF AInv, IInv, TypeOK, Drop
<1>4. ASSUME NEW o \in Objs, NEW k \in Slots, src[o][k] # Nil PROVE by'[o] = by[o]
  <2>1. at[p] \in Objs /\ state[at[p]] = "live"
    BY HeldIsLive DEF AInv, Drop
  <2>2. o # at[p]
    BY <1>4, <2>1, PlaceKinds, Zenon DEF AInv, IInv, Fresh
  <2> QED
    BY <2>2 DEF AInv, IInv, TypeOK, Drop
<1> QED
  BY <1>1, <1>2, <1>3, <1>4, PlainStep, Zenon DEF Drop

LEMMA FreeAcyclic ==
    ASSUME AInv, IInv', NEW t \in Threads, NEW o \in Objs, Free(t, o)
    PROVE  AInv'
<1>1. at' = at /\ src' = src /\ rep' = rep /\ by' = [by EXCEPT ![o] = Nil]
  BY DEF Free
<1>2. \A m \in Threads : \A r \in rep[m] : Refs(r[1])' = Refs(r[1])
  BY <1>1 DEF Refs
<1>3. \A x \in Objs, u \in Threads : by'[x] = u => by[x] = u
  BY <1>1, Separate DEF AInv, IInv, TypeOK
<1>4. \A x \in Objs, k \in Slots : src[x][k] # Nil => by'[x] = by[x]
  BY <1>1, PlaceKinds, ZenonT(40) DEF AInv, IInv, TypeOK, Fresh, Free
<1> QED
  BY <1>1, <1>2, <1>3, <1>4, PlainStep

LEMMA BirthAcyclic ==
    ASSUME AInv, IInv', NEW t \in Threads, NEW o \in Objs, NEW v \in Vars, Birth(t, o, v)
    PROVE  AInv'
<1>1. \A y \in Objs, k \in Slots : at'[<<y, k>>] = at[<<y, k>>]
  <2>1. at' = [at EXCEPT ![<<t, v>>] = o]
    BY DEF Birth
  <2> QED
    BY <2>1, PlaceKinds, Zenon DEF AInv, IInv, TypeOK
<1>2. ASSUME NEW m \in Threads, NEW r \in rep[m] PROVE Refs(r[1])' = Refs(r[1])
  <2>1. state[r[1]] = "live" /\ r[1] # Nil
    BY ReplacedObject, Separate
  <2>2. r[1] # o /\ at[<<t, v>>] # r[1]
    BY <2>1 DEF Birth
  <2> QED
    BY <2>2 DEF AInv, IInv, TypeOK, Birth, Refs
<1>3. \A x \in Objs, u \in Threads : by'[x] = u => by[x] = u
  BY Separate DEF AInv, IInv, TypeOK, Birth
<1>4. \A x \in Objs, k \in Slots : src[x][k] # Nil => by'[x] = by[x]
  BY DEF AInv, IInv, TypeOK, Birth
<1> QED
  BY <1>1, <1>2, <1>3, <1>4, PlainStep DEF Birth

-----------------------------------------------------------------------------
LEMMA BuildAcyclic ==
    ASSUME AInv, IInv', NEW t \in Threads, NEW o \in Objs, NEW from \in [Slots -> Places \cup {Nil}], Build(t, o, from),
           \A k \in Slots : from[k] # Nil /\ from[k][1] \in Threads => from[k][1] = t
    PROVE  AInv'
<1>1. at' = at /\ rep' = rep /\ by' = [by EXCEPT ![o] = t] /\ src' = [src EXCEPT ![o] = from]
  BY DEF Build
<1>2. Acyclic'
  BY <1>1 DEF AInv, Acyclic
<1>3. OwnSource'
  <2> SUFFICES ASSUME NEW n \in Nodes, NEW k \in Slots, src'[n][k] # Nil, src'[n][k][1] \in Threads
               PROVE  src'[n][k][1] = Worker(n)'
    BY DEF OwnSource
  <2>1. CASE n = o
    <3>1. src'[n] = from /\ Worker(n)' = t
      BY <1>1, <2>1, PlaceKinds, Zenon DEF AInv, IInv, TypeOK, Worker
    <3> QED
      BY <3>1
  <2>2. CASE n # o
    <3>1. src'[n] = src[n] /\ Worker(n)' = Worker(n)
      BY <1>1, <2>2 DEF AInv, IInv, TypeOK, Worker, Nodes
    <3> QED
      BY <3>1 DEF AInv, OwnSource
  <2> QED
    BY <2>1, <2>2
<1>4. Exclusive'
  <2>1. ASSUME NEW m \in Threads, NEW r \in rep'[m]
        PROVE  /\ r \in rep[m] /\ Refs(r[1])' = Refs(r[1])
               /\ \A x \in Objs : by[x] # m => by'[x] # m
               /\ \A k \in Slots : src'[m][k] \in {src[m][k], Nil}
    <3>1. r \in rep[m] /\ Refs(r[1])' = Refs(r[1])
      BY <1>1, <2>1 DEF Refs
    <3>2. m # t
      BY <3>1 DEF Build, Idle
    <3>3. m # o
      BY Separate
    <3> QED
      BY <1>1, <3>1, <3>2, <3>3 DEF AInv, IInv, TypeOK
  <2> QED
    BY <2>1, KeepExclusive DEF AInv
<1> QED
  BY <1>2, <1>3, <1>4 DEF AInv

LEMMA NewAcyclic ==
    ASSUME AInv, IInv', NEW t \in Threads, NEW o \in Objs, New(t, o)
    PROVE  AInv'
<1>1. PICK from \in [Slots -> Own(t) \cup {Nil}] : Build(t, o, from)
  BY DEF New
<1>2. from \in [Slots -> Places \cup {Nil}]
  BY PlaceKinds DEF Own
<1>3. \A k \in Slots : from[k] # Nil => from[k][1] = t
  BY DEF Own
<1> QED
  BY <1>1, <1>2, <1>3, BuildAcyclic

LEMMA SliceAcyclic ==
    ASSUME AInv, IInv', NEW t \in Threads, NEW o \in Objs, NEW v \in Vars, Slice(t, o, v)
    PROVE  AInv'
<1> DEFINE d == at[<<t, v>>]
           from == [k \in Slots |-> <<d, k>>]
<1>1. d \in Objs
  BY HeldIsLive, PlaceKinds DEF Slice, AInv
<1>2. from \in [Slots -> Places \cup {Nil}]
  BY <1>1, PlaceKinds
<1>3. \A k \in Slots : from[k][1] \notin Threads
  BY <1>1, Separate
<1>4. Build(t, o, from)
  BY DEF Slice
<1> HIDE DEF from
<1> QED
  BY <1>2, <1>3, <1>4, BuildAcyclic

\* An object that is being built is referred to by nothing, and what is being replaced is not copied.
LEMMA FillAcyclic ==
    ASSUME AInv, IInv', NEW t \in Threads, NEW n \in Nodes, NEW k \in Slots, Fill(t, n, k)
    PROVE  AInv'
<1> DEFINE x == at[src[n][k]]
           p == <<n, k>>
<1>1. p \in Places /\ src[n][k] \in Places /\ at[p] = Nil /\ (n \in Objs => state[n] = "building")
  BY SMTT(30) DEF AInv, IInv, TypeOK, Fresh, Fill, Places
<1>2. src' = [src EXCEPT ![n][k] = Nil] /\ state' = state /\ by' = by /\ rep' = rep
      /\ at' = [at EXCEPT ![p] = x]
  BY Zenon DEF Fill
<1>3. Acyclic'
  <2>1. ASSUME NEW y \in Objs, NEW j \in Slots, y # n PROVE at'[<<y, j>>] = at[<<y, j>>]
    BY <1>1, <1>2, <2>1, PlaceKinds, Zenon DEF AInv, IInv, TypeOK
  <2>2. ASSUME n \in Objs PROVE Unreferred(n)'
    <3>1. state'[n] # "live"
      BY <1>1, <1>2, <2>2
    <3>2. \A y \in Objs, j \in Slots : <<y, j>> \in Places
      BY PlaceKinds, Zenon
    <3>3. \A q \in Places : at'[q] # n
      <4>1. \A q \in Places : at[q] # n
        BY <1>1, <2>2, DeadUnreferred, Zenon DEF AInv
      <4> QED
        BY <1>1, <1>2, <4>1, Zenon DEF AInv, IInv, TypeOK
    <3> QED
      BY <3>2, <3>3, Zenon DEF Unreferred
  <2> QED
    BY <2>1, <2>2, KeepAcyclic, Zenon DEF AInv
<1>4. \A m \in Nodes, j \in Slots : src'[m][j] \in {src[m][j], Nil}
  BY <1>2, Zenon DEF AInv, IInv, TypeOK
<1>5. OwnSource'
  BY <1>2, <1>4 DEF AInv, OwnSource, Worker
<1>6. Exclusive'
  <2>1. ASSUME NEW m \in Threads, NEW r \in rep'[m]
        PROVE  /\ r \in rep[m] /\ Refs(r[1])' = Refs(r[1])
               /\ \A o \in Objs : by[o] # m => by'[o] # m
               /\ \A j \in Slots : src'[m][j] \in {src[m][j], Nil}
    <3>1. r \in rep[m]
      BY <1>2, <2>1
    <3>2. PICK v \in Vars : at[<<m, v>>] = r[1] /\ \A q \in Places : at[q] = r[1] => q = <<m, v>>
      BY <3>1, ReplacedObject
    <3>3. x # r[1]
      <4>1. SUFFICES ASSUME x = r[1] PROVE FALSE
        OBVIOUS
      <4>2. src[n][k] = <<m, v>> /\ src[n][k] # Nil
        BY <1>1, <3>2, <4>1 DEF Fill
      <4>3. Worker(n) = m
        <5>1. src[n][k][1] = m
          BY <4>2
        <5> QED
          BY <4>2, <5>1, Zenon DEF AInv, OwnSource
      <4>4. n # m
        BY <1>1, <3>1, <4>1 DEF AInv, Exclusive, Refs
      <4>5. n \in Objs /\ by[n] = m
        BY <4>3, <4>4 DEF Worker, Nodes
      <4> QED
        BY <3>1, <4>5 DEF AInv, Exclusive
    <3>4. r[1] # Nil
      BY <3>1, ReplacedObject, Separate, Zenon
    <3>5. Refs(r[1])' = Refs(r[1])
      BY <1>1, <1>2, <3>3, <3>4, Zenon DEF Refs, AInv, IInv, TypeOK
    <3> QED
      BY <1>2, <1>4, <3>1, <3>5, PlaceKinds DEF Nodes
  <2> QED
    BY <2>1, KeepExclusive DEF AInv
<1> QED
  BY <1>3, <1>5, <1>6, Zenon DEF AInv

LEMMA ReplaceAcyclic ==
    ASSUME AInv, IInv', NEW t \in Threads, NEW v \in Vars, Replace(t, v)
    PROVE  AInv'
<1> DEFINE d == at[<<t, v>>]
<1>1. PICK from \in [Slots -> Own(t) \cup {Nil}], ks \in SUBSET Slots :
        /\ \A k \in Slots : from[k] # Nil => at[from[k]] # d
        /\ src' = [src EXCEPT ![t] = from] /\ rep' = [rep EXCEPT ![t] = {<<d, k>> : k \in ks}]
  BY Zenon DEF Replace
<1>2. at' = at /\ by' = by
  BY DEF Replace
<1>3. d \in Objs /\ count[d] = 1 /\ Idle(t)
  BY HeldIsLive, PlaceKinds, Zenon DEF Replace, AInv
<1>4. Acyclic'
  BY <1>2 DEF AInv, Acyclic
<1>5. OwnSource'
  <2> SUFFICES ASSUME NEW n \in Nodes, NEW k \in Slots, src'[n][k] # Nil, src'[n][k][1] \in Threads
               PROVE  src'[n][k][1] = Worker(n)'
    BY DEF OwnSource
  <2>1. CASE n = t
    <3>1. src'[n] = from /\ Worker(n)' = t
      BY <1>1, <2>1, PlaceKinds DEF AInv, IInv, TypeOK, Worker
    <3> QED
      BY <3>1 DEF Own
  <2>2. CASE n # t
    <3>1. src'[n] = src[n] /\ Worker(n)' = Worker(n)
      BY <1>1, <1>2, <2>2, Zenon DEF AInv, IInv, TypeOK, Worker
    <3> QED
      BY <3>1 DEF AInv, OwnSource
  <2> QED
    BY <2>1, <2>2
<1>6. Refs(d) = {<<t, v>>}
  <2>1. <<t, v>> \in Refs(d)
    BY PlaceKinds DEF Refs
  <2>2. IsFiniteSet(Refs(d)) /\ Cardinality(Refs(d)) = 1
    BY <1>3, RefsFinite, Zenon DEF AInv, IInv, CountsExact
  <2>3. PICK p : Refs(d) = {p}
    BY <2>2, FS_Singleton, Zenon
  <2> QED
    BY <2>1, <2>3
<1>7. Exclusive'
  <2> SUFFICES ASSUME NEW m \in Threads, NEW r \in rep'[m]
               PROVE  /\ \E w \in Vars : Refs(r[1])' = {<<m, w>>}
                      /\ \A o \in Objs : by'[o] # m
                      /\ \A k \in Slots : src'[m][k] \notin Refs(r[1])'
    BY DEF Exclusive
  <2>1. Refs(r[1])' = Refs(r[1])
    BY <1>2 DEF Refs
  <2>2. CASE m = t
    <3>1. r[1] = d /\ src'[m] = from
      <4>1. rep'[m] = {<<d, k>> : k \in ks}
        BY <1>1, <2>2, Zenon DEF AInv, IInv, TypeOK
      <4>2. r[1] = d
        BY <4>1, SMTT(30)
      <4>3. src'[m] = from
        BY <1>1, <2>2, Zenon DEF AInv, IInv, TypeOK, Nodes
      <4> QED
        BY <4>2, <4>3
    <3>2. \A k \in Slots : from[k] \notin Refs(d)
      <4>1. Nil # <<t, v>>
        BY Separate
      <4> QED
        BY <1>1, <1>6, <4>1
    <3>3. \A o \in Objs : by'[o] # m
      BY <1>2, <1>3, <2>2, Zenon DEF Idle
    <3> QED
      BY <1>6, <2>1, <2>2, <3>1, <3>2, <3>3, Zenon
  <2>3. CASE m # t
    <3>1. r \in rep[m] /\ src'[m] = src[m]
      BY <1>1, <2>3, PlaceKinds DEF AInv, IInv, TypeOK
    <3> QED
      BY <1>2, <2>1, <3>1, SMTT(30) DEF AInv, Exclusive
  <2> QED
    BY <2>2, <2>3
<1> QED
  BY <1>4, <1>5, <1>7 DEF AInv

\* The object that gets the new reference is referred to by a variable, and so by no object.
LEMMA SwapAcyclic ==
    ASSUME AInv, IInv', NEW t \in Threads, NEW p \in Objs \X Slots, Swap(t, p)
    PROVE  AInv'
<1> DEFINE q == <<t, p[2]>>
<1>1. PICK d \in Objs, k \in Slots : p = <<d, k>>
  OBVIOUS
<1>2. p \in Places /\ q \in Places /\ p # q /\ p[1] = d /\ p[2] = k
  BY <1>1, PlaceKinds
<1>3. at' = [at EXCEPT ![p] = at[q], ![q] = at[p]] /\ rep' = [rep EXCEPT ![t] = @ \ {p}]
      /\ by' = by /\ src' = src
  BY DEF Swap
<1>4. ASSUME NEW m \in Threads, NEW r \in rep[m] PROVE Refs(r[1])' = Refs(r[1])
  <2>1. PICK v \in Vars : at[<<m, v>>] = r[1] /\ \A s \in Places : at[s] = r[1] => s = <<m, v>>
    BY <1>4, ReplacedObject
  <2>2. p # <<m, v>> /\ q # <<m, v>>
    BY <1>1, <1>2, PlaceKinds
  <2>3. at[p] # r[1] /\ at[q] # r[1]
    BY <1>2, <2>1, <2>2
  <2> QED
    BY <1>2, <1>3, <2>3, Zenon DEF Refs, AInv, IInv, TypeOK
<1>5. Acyclic'
  <2>1. ASSUME NEW y \in Objs, NEW j \in Slots, y # d PROVE at'[<<y, j>>] = at[<<y, j>>]
    BY <1>1, <1>2, <1>3, <2>1, PlaceKinds, SMTT(30) DEF AInv, IInv, TypeOK
  <2>2. Unreferred(d)'
    <3>1. p \in rep[t]
      BY Zenon DEF Swap
    <3>2. PICK v \in Vars : Refs(d) = {<<t, v>>}
      BY <1>2, <3>1, Zenon DEF AInv, Exclusive
    <3>3. Refs(d)' = {<<t, v>>}
      BY <1>2, <1>4, <3>1, <3>2
    <3>4. \A y \in Objs, j \in Slots : <<y, j>> \in Places /\ <<y, j>> # <<t, v>>
      BY PlaceKinds, Zenon
    <3>5. \A s \in Places : at'[s] = d => s = <<t, v>>
      BY <3>3 DEF Refs
    <3> QED
      BY <3>4, <3>5, Zenon DEF Unreferred
  <2> QED
    BY <2>1, <2>2, KeepAcyclic DEF AInv
<1>6. OwnSource'
  BY <1>3 DEF AInv, OwnSource, Worker
<1>7. Exclusive'
  <2>1. ASSUME NEW m \in Threads, NEW r \in rep'[m]
        PROVE  /\ r \in rep[m] /\ Refs(r[1])' = Refs(r[1])
               /\ \A o \in Objs : by[o] # m => by'[o] # m
               /\ \A j \in Slots : src'[m][j] \in {src[m][j], Nil}
    <3>1. r \in rep[m]
      BY <1>3, <2>1 DEF AInv, IInv, TypeOK
    <3> QED
      BY <1>3, <1>4, <3>1
  <2> QED
    BY <2>1, KeepExclusive DEF AInv
<1> QED
  BY <1>5, <1>6, <1>7 DEF AInv

-----------------------------------------------------------------------------
LEMMA NextAInv == AInv /\ [Next]_vars => AInv'
<1> SUFFICES ASSUME AInv, [Next]_vars PROVE AInv'
  OBVIOUS
<1>1. IInv'
  BY NextIInv DEF AInv
<1>2. CASE UNCHANGED vars
  <2>1. \A m \in Threads : \A r \in rep[m] : Refs(r[1])' = Refs(r[1])
    BY <1>2 DEF vars, Refs
  <2> QED
    BY <1>1, <1>2, <2>1, PlainStep DEF vars
<1>3. ASSUME NEW t \in Threads, Call(t) PROVE AInv'
  <2>1. ASSUME NEW v \in Vars, Release(t, v) PROVE AInv'
    <3>1. Idle(t) /\ Drop(t, <<t, v>>)
      BY <2>1 DEF Release
    <3>2. rep[t] = {} /\ <<t, v>> \in Places /\ \A u \in Threads, w \in Vars : <<t, v>> = <<u, w>> => Idle(u)
      BY <3>1, PlaceKinds DEF Idle
    <3> QED
      BY <1>1, <3>1, <3>2, DropAcyclic
  <2> QED
    BY <1>1, <1>3, <2>1, RetainAcyclic, SendAcyclic, NewAcyclic, SliceAcyclic, ReplaceAcyclic DEF Call
<1>4. ASSUME NEW t \in Threads, Work(t) PROVE AInv'
  <2>1. ASSUME NEW n \in Nodes, NEW k \in Slots, Drop(t, <<n, k>>), rep[t] = {} PROVE AInv'
    <3>1. <<n, k>> \in Places /\ \A u \in Threads, v \in Vars : <<n, k>> # <<u, v>>
      BY PlaceKinds DEF Places
    <3> QED
      BY <1>1, <2>1, <3>1, DropAcyclic
  <2>2. ASSUME NEW k \in Slots, DropOld(t, k) PROVE AInv'
    BY <2>1, <2>2, PlaceKinds DEF DropOld
  <2>3. ASSUME NEW o \in Objs, NEW k \in Slots, Dismantle(t, o, k) PROVE AInv'
    <3>1. rep[t] = {}
      BY <2>3 DEF AInv, Exclusive, Dismantle
    <3> QED
      BY <2>1, <2>3, <3>1, PlaceKinds DEF Dismantle
  <2> QED
    BY <1>1, <1>4, <2>2, <2>3, FillAcyclic, BirthAcyclic, SwapAcyclic, FreeAcyclic DEF Work
<1> QED
  BY <1>2, <1>3, <1>4 DEF Next

LEMMA InitAInv == Init => AInv
<1> SUFFICES ASSUME Init PROVE AInv
  OBVIOUS
<1>1. \A y \in Objs, k \in Slots : at[<<y, k>>] = Nil
  BY PlaceKinds, Zenon DEF Init
<1>2. Acyclic
  BY <1>1, Separate DEF Acyclic
<1>3. OwnSource /\ Exclusive
  BY DEF Init, OwnSource, Exclusive
<1> QED
  BY <1>2, <1>3, InitIInv DEF AInv

\* When every goroutine has returned from its calls and released what it held, every object has been freed:
\* the buffers, data and arrays of a dropped record are given back to the allocator, and no circle of
\* references keeps any of them.
THEOREM AllFreed == Spec => []NoLeak
<1>1. ASSUME AInv, \A t \in Threads : Idle(t) /\ Own(t) = {}
      PROVE  \A o \in Objs : state[o] \in {"unborn", "freed"}
  <2> DEFINE L == {o \in Objs : state[o] = "live"}
  <2>1. \A o \in Objs : by[o] = Nil /\ state[o] \notin {"building", "dying"}
    BY <1>1 DEF AInv, IInv, TypeOK, Worked, Idle
  <2>2. ASSUME NEW o \in L PROVE \E y \in L, k \in Slots : at[<<y, k>>] = o
    <3>1. count[o] > 0
      BY <1>1 DEF AInv, IInv, LiveCounted
    <3>2. Refs(o) # {}
      BY <1>1, <3>1, FS_EmptySet DEF AInv, IInv, CountsExact
    <3>3. PICK p \in Places : at[p] = o
      BY <3>2 DEF Refs
    <3>4. o # Nil
      BY Separate
    <3>5. ASSUME NEW t \in Threads, NEW v \in Vars PROVE p # <<t, v>>
      BY <1>1, <3>3, <3>4 DEF Own
    <3>6. ASSUME NEW t \in Threads, NEW k \in Slots PROVE p # <<t, k>>
      BY <1>1, <3>3, <3>4 DEF Idle
    <3>7. PICK y \in Objs, k \in Slots : p = <<y, k>>
      BY <3>5, <3>6 DEF Places, Nodes
    <3>8. state[y] \notin {"unborn", "freed"}
      BY <1>1, <3>3, <3>4, <3>7 DEF AInv, IInv, Hollow
    <3>9. y \in L
      BY <1>1, <2>1, <3>8 DEF AInv, IInv, TypeOK
    <3> QED
      BY <3>3, <3>7, <3>9
  <2>3. L = {}
    <3>1. L \in SUBSET Objs
      OBVIOUS
    <3> HIDE DEF L
    <3> QED
      BY <1>1, <2>2, <3>1, Zenon DEF AInv, Acyclic
  <2> QED
    BY <1>1, <2>1, <2>3 DEF AInv, IInv, TypeOK
<1>2. AInv => NoLeak
  BY <1>1 DEF NoLeak
<1> QED
  BY <1>2, InitAInv, NextAInv, PTL DEF Spec
=============================================================================
