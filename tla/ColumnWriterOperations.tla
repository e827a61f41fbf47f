------------------------ MODULE ColumnWriterOperations ------------------------
(***************************************************************************)
(* What the operations of a column writer keep, for every batch size, page *)
(* size, dictionary limit and input.                                       *)
(*                                                                         *)
(* The inductive invariant IInv has two parts.  Sound holds of every       *)
(* writer, one whose calls have failed included: the fields have their     *)
(* types, slots and references are in the dictionary, pages are numbered   *)
(* in the order they are built.  Good holds until a call fails, and ties   *)
(* the writer to the levels wr it has accepted: the dictionary page is in  *)
(* front, pages of indices precede those of values, the pages and then the *)
(* page under way hold the levels of wr one after the other (c says where  *)
(* each page ends), they begin at rows, and every value is in the Bloom    *)
(* filter or owed to it by the dictionary.  Pending and Finished say what  *)
(* is left to do before and after Close.                                   *)
(*                                                                         *)
(* An operation maps a writer to a set of writers, so every operation has  *)
(* a lemma on its fields (...Fields), one that it keeps a writer sound     *)
(* (...Sound) and one that without an error it keeps it good (...Good).    *)
(* ColumnWriterProofs has this for a batch and for the operations made of  *)
(* several others, the actions and the theorems.                           *)
(***************************************************************************)
EXTENDS ColumnWriter, WellFoundedInduction, TLAPS

Slot == [rep : Nat, slot : Vals \cup Nat \cup {Null}]

DataPage == [kind : {"data"}, dict : BOOLEAN, levels : Seq(Slot), first : Nat, seq : Nat]

DictPage == [kind : {"dictionary"}, values : Seq(Vals)]

Page == DataPage \cup DictPage

Fields ==
    {"dict", "memo", "preserved", "refd", "cur", "raw", "rows", "rowsWritten", "cut",
     "pages", "out", "dictWritten", "bloom", "bloomDone", "closed", "err"}

Typed(x) ==
    /\ DOMAIN x = Fields
    /\ x.dict \in BOOLEAN /\ x.memo \in Seq(Vals) /\ x.preserved \in Seq(Vals) \cup {Null}
    /\ x.refd \in SUBSET Nat /\ x.cur \in Seq(Slot)
    /\ x.raw \in Nat /\ x.rows \in Nat /\ x.rowsWritten \in Nat /\ x.cut \in Nat
    /\ x.pages \in Seq(DataPage) /\ x.out \in Seq(Page) /\ x.dictWritten \in BOOLEAN
    /\ x.bloom \in SUBSET Vals /\ x.bloomDone \in BOOLEAN /\ x.closed \in BOOLEAN /\ x.err \in BOOLEAN

-----------------------------------------------------------------------------
(* What holds of the writer x even after failed calls.                       *)

\* The entries of the dictionary in use exist, and so do those the current page and the preserved dictionary need.
Slotted(x) ==
    /\ x.refd \subseteq DOMAIN x.memo
    /\ ~x.dict => x.memo = <<>>
    /\ \A i \in DOMAIN x.cur :
          x.cur[i].slot \in (IF x.dict THEN DOMAIN x.memo ELSE Vals) \cup {Null}
    /\ x.preserved # Null => x.dict /\ Range(x.preserved) \subseteq Range(x.memo)
    /\ x.pages # <<>> => x.dict

\* The pages of s are numbered in their order, below n.
InOrder(s, n) ==
    /\ \A i \in 1 .. Len(s) : IsData(s[i]) => s[i].seq < n
    /\ \A i, j \in 1 .. Len(s) : i < j /\ IsData(s[i]) /\ IsData(s[j]) => s[i].seq < s[j].seq

\* Pages are numbered as they are built, and keep that order on their way out.
Numbered(x) == InOrder(x.out \o x.pages, x.cut)

Sound(x) == Typed(x) /\ Slotted(x) /\ Numbered(x)

-----------------------------------------------------------------------------
(* What holds of the writer x while no call has failed; wr is what it has accepted. *)

\* The data pages sent, behind the dictionary page if that is written, and all the data pages built.
Lead(x) == IF x.dictWritten THEN Tail(x.out) ELSE x.out

Kept(x) == Lead(x) \o x.pages

\* The dictionary the pages with indices refer to.
Lookup(x) == IF x.dictWritten THEN x.out[1].values ELSE x.memo

\* The dictionary page is the first page and the only one. Until it is written an active dictionary keeps all pages
\* back.
Fronted(x) ==
    /\ x.dictWritten => x.out # <<>> /\ x.out[1] \in DictPage
    /\ \A i \in 1 .. Len(x.out) : ~IsData(x.out[i]) => i = 1 /\ x.dictWritten
    /\ x.dict => IF x.dictWritten THEN x.out[1].values = x.memo ELSE x.out = <<>>

\* The pages K of indices precede those of values, and there are none without a dictionary.
Mixed(K, dict, dictWritten) ==
    /\ dict => \A i \in 1 .. Len(K) : K[i].dict
    /\ ~dict /\ ~dictWritten => \A i \in 1 .. Len(K) : ~K[i].dict
    /\ \A i, j \in 1 .. Len(K) : i < j /\ K[j].dict => K[i].dict

\* The slot s stands for the level l.
Reads(s, dict, dictionary, l) ==
    /\ s.rep = l.rep
    /\ IF s.slot = Null THEN l.val = Null
       ELSE IF dict THEN s.slot \in DOMAIN dictionary /\ dictionary[s.slot] = l.val
       ELSE s.slot = l.val

\* The pages K, with the dictionary D, hold the first levels of wr: c gives for every number of pages that of the levels.
Parts(K, D, wr, c) ==
    /\ c \in [0 .. Len(K) -> 0 .. Len(wr)] /\ c[0] = 0
    /\ \A n \in 1 .. Len(K) :
          /\ c[n] = c[n - 1] + Len(K[n].levels)
          /\ \A k \in 1 .. Len(K[n].levels) : Reads(K[n].levels[k], K[n].dict, D, wr[c[n - 1] + k])

\* The current page cur holds the levels of wr from the place at on.
Rest(cur, dict, D, wr, at) ==
    /\ Len(wr) = at + Len(cur)
    /\ \A k \in 1 .. Len(cur) : Reads(cur[k], dict, D, wr[at + k])

Contained(K, D, cur, dict, memo, wr) ==
    \E c \in [0 .. Len(K) -> 0 .. Len(wr)] : Parts(K, D, wr, c) /\ Rest(cur, dict, memo, wr, c[Len(K)])

\* The pages K know how many rows precede them, and n is the number of them all.
Rowed(K, n) ==
    /\ n = IF K = <<>> THEN 0 ELSE K[Len(K)].first + Rows(K[Len(K)].levels)
    /\ \A i \in 1 .. Len(K) : K[i].first = IF i = 1 THEN 0 ELSE K[i - 1].first + Rows(K[i - 1].levels)

\* Aligned pages begin with a row.
Begun(K, cur) ==
    Aligned => /\ cur # <<>> => cur[1].rep = 0
               /\ \A i \in 1 .. Len(K) : K[i].levels # <<>> /\ K[i].levels[1].rep = 0

\* Every value is in the Bloom filter or waits for it in the dictionary.
Filtered(x, wr) ==
    Present(wr) \subseteq IF x.dict /\ ~x.bloomDone THEN {x.memo[i] : i \in x.refd} ELSE x.bloom

Good(x, wr) ==
    /\ Fronted(x) /\ Mixed(Kept(x), x.dict, x.dictWritten)
    /\ Contained(Kept(x), Lookup(x), x.cur, x.dict, x.memo, wr)
    /\ x.rows = Rows(x.cur) /\ Rowed(Kept(x), x.rowsWritten) /\ Begun(Kept(x), x.cur)
    /\ Filtered(x, wr)

\* An active dictionary is neither written nor in the Bloom filter between calls.
Pending(x) == x.dict => ~x.dictWritten /\ ~x.bloomDone

\* After Close everything is with the page writer.
Finished(x) == x.cur = <<>> /\ x.pages = <<>> /\ (x.dict => x.dictWritten /\ x.bloomDone)

Right(x, wr) == Good(x, wr) /\ IF x.closed THEN Finished(x) ELSE Pending(x)

-----------------------------------------------------------------------------
Jobs ==
    /\ job \in [op : {"none", "values", "indices"}, rest : Seq(Level)]
    /\ job.op = "none" => job.rest = <<>>
    /\ job.op # "none" => job.rest # <<>> /\ ~w.closed /\ (Aligned => job.rest[1].rep = 0)
    /\ job.op = "indices" => w.dict /\ Present(job.rest) \subseteq Range(w.memo)

IInv ==
    /\ Sound(w) /\ ~w.err /\ Jobs
    /\ written \in Seq(Level) /\ failed \in BOOLEAN
    /\ w.rowsWritten + w.rows = Rows(written)
    /\ ~failed => Right(w, written)

-----------------------------------------------------------------------------
(* Sequences.                                                                *)

LEMMA SeqWider ==
    ASSUME NEW S, NEW T, NEW s \in Seq(S), S \subseteq T
    PROVE  s \in Seq(T)
OBVIOUS

LEMMA SameSeq ==
    ASSUME NEW S, NEW s \in Seq(S), NEW t \in Seq(S), Len(s) = Len(t), \A i \in 1 .. Len(s) : s[i] = t[i]
    PROVE  s = t
OBVIOUS

LEMMA SeqElems ==
    ASSUME NEW S, NEW s \in Seq(S)
    PROVE  DOMAIN s = 1 .. Len(s) /\ Len(s) \in Nat /\ \A i \in DOMAIN s : s[i] \in S
OBVIOUS

LEMMA SeqOne ==
    ASSUME NEW p
    PROVE  /\ Len(<<p>>) = 1 /\ <<p>>[1] = p /\ <<p>> # <<>> /\ Append(<<>>, p) = <<p>>
           /\ \A i \in 1 .. Len(<<p>>) : i = 1
OBVIOUS

\* A sequence before and after a place.
LEMMA SubSeqs ==
    ASSUME NEW S, NEW p \in Seq(S), NEW i \in 1 .. Len(p)
    PROVE  /\ SubSeq(p, 1, i - 1) \in Seq(S) /\ Len(SubSeq(p, 1, i - 1)) = i - 1
           /\ \A k \in 1 .. i - 1 : SubSeq(p, 1, i - 1)[k] = p[k]
           /\ SubSeq(p, i + 1, Len(p)) \in Seq(S) /\ Len(SubSeq(p, i + 1, Len(p))) = Len(p) - i
           /\ \A k \in 1 .. Len(p) - i : SubSeq(p, i + 1, Len(p))[k] = p[k + i]
<1>1. /\ SubSeq(p, 1, i - 1) \in Seq(S) /\ Len(SubSeq(p, 1, i - 1)) = i - 1
      /\ \A k \in 1 .. i - 1 : SubSeq(p, 1, i - 1)[k] = p[k]
  OBVIOUS
<1>2. /\ SubSeq(p, i + 1, Len(p)) \in Seq(S) /\ Len(SubSeq(p, i + 1, Len(p))) = Len(p) - i
      /\ \A k \in 1 .. Len(p) - i : SubSeq(p, i + 1, Len(p))[k] = p[k + i]
  OBVIOUS
<1> QED
  BY <1>1, <1>2, Zenon

LEMMA CatSeq ==
    ASSUME NEW S, NEW a \in Seq(S), NEW b \in Seq(S)
    PROVE  /\ a \o b \in Seq(S) /\ Len(a \o b) = Len(a) + Len(b)
           /\ \A i \in 1 .. Len(a) + Len(b) : (a \o b)[i] = IF i <= Len(a) THEN a[i] ELSE b[i - Len(a)]
OBVIOUS

-----------------------------------------------------------------------------
(* Induction, recursive functions, and the helpers of the model.             *)

\* A set with 0 and every successor contains the naturals: the induction the recursive functions of the model
\* (Insert, Decoded) need.
LEMMA NatSetInduction ==
    ASSUME NEW S, 0 \in S, \A n \in Nat : n \in S => n + 1 \in S
    PROVE  \A n \in Nat : n \in S
<1> DEFINE R == OpToRel(<, Nat)
           T == Nat \ S
<1>1. SUFFICES ASSUME T # {} PROVE FALSE
  OBVIOUS
<1>2. PICK x \in T : \A y \in T : ~ (<<y, x>> \in R)
  <2>1. IsWellFoundedOn(R, Nat)
    BY NatLessThanWellFounded, Zenon
  <2>2. T \subseteq Nat
    OBVIOUS
  <2> HIDE DEF R, T
  <2> QED
    BY <1>1, <2>1, <2>2, WFMin, Zenon
<1>3. x \in Nat /\ x # 0 /\ x - 1 \in Nat /\ x - 1 \in T
  OBVIOUS
<1>4. <<x - 1, x>> \in R
  BY <1>3 DEF OpToRel
<1> QED
  BY <1>2, <1>3, <1>4, Zenon

\* A nonempty set of naturals has a least element.
LEMMA NatMin ==
    ASSUME NEW S, S \subseteq Nat, S # {}
    PROVE  \E m \in S : \A y \in S : m <= y
<1> DEFINE R == OpToRel(<, Nat)
<1>1. PICK m \in S : \A y \in S : ~ (<<y, m>> \in R)
  <2>1. IsWellFoundedOn(R, Nat)
    BY NatLessThanWellFounded, Zenon
  <2> HIDE DEF R
  <2> QED
    BY <2>1, WFMin, Zenon
<1>2. \A y \in S : y < m => <<y, m>> \in R
  BY <1>1 DEF OpToRel
<1> HIDE DEF R
<1>3. \A y \in S : ~ (y < m)
  BY <1>1, <1>2, Zenon
<1> QED
  BY <1>1, <1>3

\* Min and Max, which CHOOSE an element, do choose one.
LEMMA MinIn ==
    ASSUME NEW S, S \subseteq Nat, S # {}
    PROVE  Min(S) \in S
BY NatMin, Zenon DEF Min

LEMMA MaxIn ==
    ASSUME NEW N \in Nat, NEW S, S \subseteq 0 .. N, S # {}
    PROVE  Max(S) \in S
<1> DEFINE T == {m \in 0 .. N : N - m \in S}
<1>1. T \subseteq Nat /\ T # {}
  <2>1. PICK s \in S : TRUE
    BY Zenon
  <2>2. N - s \in 0 .. N /\ N - (N - s) = s
    BY <2>1
  <2> QED
    BY <2>2
<1>2. PICK m \in T : \A y \in T : m <= y
  <2> HIDE DEF T
  <2> QED
    BY <1>1, NatMin, Zenon
<1>3. ASSUME NEW y \in S PROVE N - m >= y
  <2>1. y \in 0 .. N /\ N - y \in 0 .. N /\ N - (N - y) = y
    OBVIOUS
  <2>2. N - y \in T
    BY <2>1
  <2>3. m <= N - y
    BY <1>2, <2>2
  <2> QED
    BY <2>1, <2>3, <1>2
<1>4. N - m \in S
  BY <1>2
<1> QED
  BY <1>3, <1>4, Zenon DEF Max

\* step takes a value and a place in 1 .. N to a value.
Steps(V, N, step) == step \in [V \X (1 .. N) -> V]

Recursion(V, base, N, step, g) ==
    g \in [0 .. N -> V] /\ g[0] = base /\ \A n \in 1 .. N : g[n] = step[<<g[n - 1], n>>]

\* A function defined by recursion over 0 .. N exists: step gives its next value.
LEMMA RecursionExists ==
    ASSUME NEW V, NEW base, base \in V, NEW N, N \in Nat, NEW step, Steps(V, N, step)
    PROVE  \E g : Recursion(V, base, N, step, g)
<1> USE DEF Steps
<1> DEFINE P(m, f) == f[0] = base /\ \A n \in 1 .. m : f[n] = step[<<f[n - 1], n>>]
           S == {m \in Nat : m <= N => \E f \in [0 .. m -> V] : P(m, f)}
<1>1. 0 \in S
  <2>1. [n \in 0 .. 0 |-> base] \in [0 .. 0 -> V] /\ P(0, [n \in 0 .. 0 |-> base])
    OBVIOUS
  <2> QED
    BY <2>1, Zenon
<1>2. ASSUME NEW m \in Nat, m \in S PROVE m + 1 \in S
  <2> SUFFICES ASSUME m + 1 <= N PROVE \E f \in [0 .. m + 1 -> V] : P(m + 1, f)
    <3> HIDE DEF P
    <3> QED
      OBVIOUS
  <2>1. PICK f \in [0 .. m -> V] : P(m, f)
    BY <1>2
  <2>2. PICK g : g = [n \in 0 .. m + 1 |-> IF n <= m THEN f[n] ELSE step[<<f[m], m + 1>>]]
    BY Zenon
  <2>3. step[<<f[m], m + 1>>] \in V
    OBVIOUS
  <2>4. g \in [0 .. m + 1 -> V]
    BY <2>2, <2>3
  <2>5. g[0] = base
    BY <2>1, <2>2
  <2>6. ASSUME NEW n \in 1 .. m + 1 PROVE g[n] = step[<<g[n - 1], n>>]
    <3>1. n - 1 \in 0 .. m /\ g[n - 1] = f[n - 1]
      BY <2>2
    <3>2. CASE n <= m
      <4>1. g[n] = f[n] /\ n \in 1 .. m
        BY <2>2, <3>2
      <4> QED
        BY <4>1, <3>1, <2>1
    <3>3. CASE n = m + 1
      <4>1. g[m + 1] = step[<<f[m], m + 1>>]
        BY <2>2
      <4>2. g[m] = f[m]
        BY <2>2
      <4>3. n - 1 = m
        BY <3>3
      <4> QED
        BY <4>1, <4>2, <4>3, <3>3
    <3> QED
      BY <3>2, <3>3
  <2> QED
    BY <2>4, <2>5, <2>6
<1>3. N \in S
  <2> HIDE DEF S
  <2> QED
    BY <1>1, <1>2, NatSetInduction
<1>4. \E f \in [0 .. N -> V] : P(N, f)
  <2> HIDE DEF P
  <2> QED
    BY <1>3
<1> QED
  BY <1>4 DEF Recursion

\* The recursive function of Count.
Counting(marks, g) ==
    g = [n \in 0 .. Len(marks) |-> IF n = 0 THEN 0 ELSE IF marks[n] THEN g[n - 1] + 1 ELSE g[n - 1]]

LEMMA CountChoice ==
    ASSUME NEW marks
    PROVE  Count(marks) = (CHOOSE g : Counting(marks, g))[Len(marks)]
BY DEF Count, Counting

LEMMA CountingExists ==
    ASSUME NEW marks \in Seq(BOOLEAN)
    PROVE  \E g : Counting(marks, g)
<1> DEFINE N == Len(marks)
           St(m, n) == IF marks[n] THEN m + 1 ELSE m
<1>1. PICK step : step = [mn \in Nat \X (1 .. N) |-> St(mn[1], mn[2])]
  BY Zenon
<1>2. \A m \in Nat, n \in 1 .. N : St(m, n) \in Nat
  OBVIOUS
<1>3. Steps(Nat, N, step)
  BY <1>1, <1>2 DEF Steps
<1>4. \A m \in Nat, n \in 1 .. N : step[<<m, n>>] = St(m, n)
  BY <1>1
<1> HIDE DEF St
<1>5. 0 \in Nat /\ N \in Nat
  OBVIOUS
<1>6. PICK g : Recursion(Nat, 0, N, step, g)
  <2> HIDE DEF N
  <2> QED
    BY <1>5, <1>3, RecursionExists, Zenon
<1>7. ASSUME NEW n \in 0 .. N PROVE g[n] = IF n = 0 THEN 0 ELSE St(g[n - 1], n)
  <2>1. CASE n = 0
    BY <1>6, <2>1 DEF Recursion
  <2>2. CASE n # 0
    <3>1. n \in 1 .. N /\ n - 1 \in 0 .. N
      BY <2>2
    <3>2. g[n - 1] \in Nat
      BY <1>6, <3>1 DEF Recursion
    <3> QED
      BY <1>4, <1>6, <2>2, <3>1, <3>2, Zenon DEF Recursion
  <2> QED
    BY <2>1, <2>2
<1>8. g = [n \in 0 .. N |-> IF n = 0 THEN 0 ELSE St(g[n - 1], n)]
  BY <1>6, <1>7 DEF Recursion
<1> QED
  BY <1>8 DEF St, Counting

\* g counts the marks up to every place.
Counts(marks, g) ==
    /\ g[0] = 0
    /\ \A n \in 1 .. Len(marks) : g[n] = IF marks[n] THEN g[n - 1] + 1 ELSE g[n - 1]
    /\ \A n \in 0 .. Len(marks) : g[n] \in Nat

LEMMA CountKeeps ==
    ASSUME NEW marks \in Seq(BOOLEAN)
    PROVE  Count(marks) \in Nat /\ \E g : Counts(marks, g) /\ Count(marks) = g[Len(marks)]
<1>1. PICK g : g = CHOOSE h : Counting(marks, h)
  BY Zenon
<1>2. Counting(marks, g)
  BY <1>1, CountingExists, Zenon
<1>3. Len(marks) \in Nat
  OBVIOUS
<1>4. g[0] = 0 /\ \A n \in 1 .. Len(marks) : g[n] = IF marks[n] THEN g[n - 1] + 1 ELSE g[n - 1]
  <2>1. \A n \in 0 .. Len(marks) : g[n] = IF n = 0 THEN 0 ELSE IF marks[n] THEN g[n - 1] + 1 ELSE g[n - 1]
    BY <1>2, Zenon DEF Counting
  <2>2. 0 \in 0 .. Len(marks) /\ \A n \in 1 .. Len(marks) : n \in 0 .. Len(marks) /\ n # 0
    BY <1>3
  <2> QED
    BY <2>1, <2>2, Zenon
<1> DEFINE S == {n \in Nat : n <= Len(marks) => g[n] \in Nat}
<1>5. 0 \in S
  BY <1>4
<1>6. ASSUME NEW n \in Nat, n \in S PROVE n + 1 \in S
  <2> SUFFICES ASSUME n + 1 <= Len(marks) PROVE g[n + 1] \in Nat
    OBVIOUS
  <2>1. n + 1 \in 1 .. Len(marks) /\ g[n] \in Nat /\ (n + 1) - 1 = n
    BY <1>3, <1>6
  <2>2. g[n + 1] = IF marks[n + 1] THEN g[n] + 1 ELSE g[n]
    BY <1>4, <2>1
  <2> QED
    BY <2>1, <2>2
<1>7. \A n \in Nat : n \in S
  <2> HIDE DEF S
  <2> QED
    BY <1>5, <1>6, NatSetInduction
<1>8. \A n \in 0 .. Len(marks) : g[n] \in Nat
  BY <1>3, <1>7
<1>9. Count(marks) = g[Len(marks)]
  BY <1>1, CountChoice, Zenon
<1>10. Counts(marks, g)
  BY <1>4, <1>8 DEF Counts
<1>11. Count(marks) \in Nat
  BY <1>3, <1>8, <1>9
<1> QED
  BY <1>9, <1>10, <1>11, Zenon

\* The marks of two pieces together are those of the one and those of the other.
LEMMA CountCat ==
    ASSUME NEW a \in Seq(BOOLEAN), NEW b \in Seq(BOOLEAN)
    PROVE  Count(a \o b) = Count(a) + Count(b)
<1>1. /\ a \o b \in Seq(BOOLEAN) /\ Len(a \o b) = Len(a) + Len(b) /\ Len(a) \in Nat /\ Len(b) \in Nat
      /\ \A n \in 1 .. Len(a) : (a \o b)[n] = a[n]
      /\ \A n \in 1 .. Len(b) : (a \o b)[Len(a) + n] = b[n]
  OBVIOUS
<1>2. PICK c : c = a \o b
  BY Zenon
<1>3. PICK f : Counts(a, f) /\ Count(a) = f[Len(a)]
  BY CountKeeps, Zenon
<1>4. PICK g : Counts(b, g) /\ Count(b) = g[Len(b)]
  BY CountKeeps, Zenon
<1>5. PICK h : Counts(c, h) /\ Count(c) = h[Len(c)]
  BY <1>1, <1>2, CountKeeps, Zenon
<1> DEFINE S == {n \in Nat : n <= Len(a) => h[n] = f[n]}
           T == {n \in Nat : n <= Len(b) => h[Len(a) + n] = f[Len(a)] + g[n]}
<1>6. 0 \in S
  BY <1>3, <1>5 DEF Counts
<1>7. ASSUME NEW n \in Nat, n \in S PROVE n + 1 \in S
  <2> SUFFICES ASSUME n + 1 <= Len(a) PROVE h[n + 1] = f[n + 1]
    OBVIOUS
  <2>1. n + 1 \in 1 .. Len(a) /\ n + 1 \in 1 .. Len(c) /\ (n + 1) - 1 = n /\ h[n] = f[n] /\ c[n + 1] = a[n + 1]
    BY <1>1, <1>2, <1>7
  <2>2. h[n + 1] = IF c[n + 1] THEN h[n] + 1 ELSE h[n]
    BY <1>5, <2>1 DEF Counts
  <2>3. f[n + 1] = IF a[n + 1] THEN f[n] + 1 ELSE f[n]
    BY <1>3, <2>1 DEF Counts
  <2> QED
    BY <2>1, <2>2, <2>3
<1>8. \A n \in Nat : n \in S
  <2> HIDE DEF S
  <2> QED
    BY <1>6, <1>7, NatSetInduction
<1>9. h[Len(a)] = f[Len(a)] /\ f[Len(a)] \in Nat
  BY <1>1, <1>3, <1>8 DEF Counts
<1>10. 0 \in T
  BY <1>1, <1>4, <1>9 DEF Counts
<1>11. ASSUME NEW n \in Nat, n \in T PROVE n + 1 \in T
  <2> SUFFICES ASSUME n + 1 <= Len(b) PROVE h[Len(a) + (n + 1)] = f[Len(a)] + g[n + 1]
    OBVIOUS
  <2>1. /\ n + 1 \in 1 .. Len(b) /\ (n + 1) - 1 = n /\ n \in 0 .. Len(b)
        /\ Len(a) + (n + 1) \in 1 .. Len(c) /\ (Len(a) + (n + 1)) - 1 = Len(a) + n
        /\ h[Len(a) + n] = f[Len(a)] + g[n]
    BY <1>1, <1>2, <1>11
  <2>2. c[Len(a) + (n + 1)] = b[n + 1]
    BY <1>1, <1>2, <2>1
  <2>3. h[Len(a) + (n + 1)] = IF b[n + 1] THEN h[Len(a) + n] + 1 ELSE h[Len(a) + n]
    BY <1>5, <2>1, <2>2 DEF Counts
  <2>4. g[n + 1] = (IF b[n + 1] THEN g[n] + 1 ELSE g[n]) /\ g[n] \in Nat
    BY <1>4, <2>1 DEF Counts
  <2>5. CASE b[n + 1]
    BY <1>9, <2>1, <2>3, <2>4, <2>5
  <2>6. CASE ~b[n + 1]
    BY <1>9, <2>1, <2>3, <2>4, <2>6
  <2> QED
    BY <2>5, <2>6, Zenon
<1>12. \A n \in Nat : n \in T
  <2> HIDE DEF T
  <2> QED
    BY <1>10, <1>11, NatSetInduction
<1>13. h[Len(a) + Len(b)] = f[Len(a)] + g[Len(b)]
  BY <1>1, <1>12
<1> QED
  BY <1>1, <1>2, <1>3, <1>4, <1>5, <1>13

LEMMA FunctionSeq ==
    ASSUME NEW T, NEW n \in Nat, NEW f \in [1 .. n -> T]
    PROVE  f \in Seq(T) /\ Len(f) = n
OBVIOUS

\* The marks of the levels that begin a row.
LEMMA MarksSeq ==
    ASSUME NEW S, NEW a \in Seq(S), NEW m, m = [i \in DOMAIN a |-> a[i].rep = 0]
    PROVE  m \in Seq(BOOLEAN) /\ Len(m) = Len(a)
<1>1. DOMAIN a = 1 .. Len(a) /\ Len(a) \in Nat
  OBVIOUS
<1>2. m \in [1 .. Len(a) -> BOOLEAN]
  BY <1>1, Zenon
<1> QED
  BY <1>1, <1>2, FunctionSeq, Zenon

LEMMA RowsNat ==
    ASSUME NEW S, NEW a \in Seq(S)
    PROVE  Rows(a) \in Nat
<1>1. [i \in DOMAIN a |-> a[i].rep = 0] \in Seq(BOOLEAN)
  BY MarksSeq, Zenon
<1> QED
  BY <1>1, CountKeeps, Zenon DEF Rows

LEMMA RowsEmpty == Rows(<<>>) = 0
<1>1. [i \in DOMAIN <<>> |-> <<>>[i].rep = 0] = <<>>
  OBVIOUS
<1>2. <<>> \in Seq(BOOLEAN) /\ Len(<<>>) = 0
  OBVIOUS
<1>3. PICK g : Counts(<<>>, g) /\ Count(<<>>) = g[Len(<<>>)]
  BY <1>2, CountKeeps, Zenon
<1>4. Count(<<>>) = 0
  BY <1>2, <1>3 DEF Counts
<1> QED
  BY <1>1, <1>4, Zenon DEF Rows

LEMMA RowsSame ==
    ASSUME NEW a, NEW b, DOMAIN a = DOMAIN b, \A i \in DOMAIN a : a[i].rep = b[i].rep
    PROVE  Rows(a) = Rows(b)
<1>1. [i \in DOMAIN a |-> a[i].rep = 0] = [i \in DOMAIN b |-> b[i].rep = 0]
  OBVIOUS
<1> QED
  BY <1>1, Zenon DEF Rows

\* The rows of two pieces together are those of the one and those of the other.
LEMMA RowsCat ==
    ASSUME NEW S, NEW a \in Seq(S), NEW b \in Seq(S)
    PROVE  Rows(a \o b) = Rows(a) + Rows(b)
<1>1. PICK A : A = [i \in DOMAIN a |-> a[i].rep = 0]
  BY Zenon
<1>2. PICK B : B = [i \in DOMAIN b |-> b[i].rep = 0]
  BY Zenon
<1>3. PICK C : C = [i \in DOMAIN (a \o b) |-> (a \o b)[i].rep = 0]
  BY Zenon
<1>4. A \in Seq(BOOLEAN) /\ Len(A) = Len(a)
  BY <1>1, MarksSeq, Zenon
<1>5. B \in Seq(BOOLEAN) /\ Len(B) = Len(b)
  BY <1>2, MarksSeq, Zenon
<1>6. a \o b \in Seq(S) /\ Len(a \o b) = Len(a) + Len(b) /\ Len(a) \in Nat /\ Len(b) \in Nat
  OBVIOUS
<1>7. C \in Seq(BOOLEAN) /\ Len(C) = Len(a) + Len(b)
  BY <1>3, <1>6, MarksSeq, Zenon
<1>8. A \o B \in Seq(BOOLEAN) /\ Len(A \o B) = Len(a) + Len(b)
  BY <1>4, <1>5
<1>9. ASSUME NEW i \in 1 .. Len(a) + Len(b) PROVE C[i] = (A \o B)[i]
  <2>1. C[i] = ((a \o b)[i].rep = 0)
    BY <1>3, <1>6
  <2>2. CASE i <= Len(a)
    <3>1. (a \o b)[i] = a[i] /\ (A \o B)[i] = A[i] /\ i \in DOMAIN a
      BY <1>4, <1>5, <1>6, <2>2
    <3>2. A[i] = (a[i].rep = 0)
      BY <1>1, <3>1
    <3> QED
      BY <2>1, <3>1, <3>2, Zenon
  <2>3. CASE i > Len(a)
    <3>1. (a \o b)[i] = b[i - Len(a)] /\ (A \o B)[i] = B[i - Len(a)] /\ i - Len(a) \in DOMAIN b
      BY <1>4, <1>5, <1>6, <2>3
    <3>2. B[i - Len(a)] = (b[i - Len(a)].rep = 0)
      BY <1>2, <3>1
    <3> QED
      BY <2>1, <3>1, <3>2, Zenon
  <2>4. i <= Len(a) \/ i > Len(a)
    BY <1>6
  <2> QED
    BY <2>2, <2>3, <2>4, Zenon
<1>10. C = A \o B
  BY <1>7, <1>8, <1>9, SameSeq
<1>11. Count(A \o B) = Count(A) + Count(B)
  BY <1>4, <1>5, CountCat, Zenon
<1> QED
  BY <1>1, <1>2, <1>3, <1>10, <1>11, Zenon DEF Rows

\* The recursive function of Insert.
Inserting(memo, lv, g) ==
    g = [n \in 0 .. Len(lv) |->
            IF n = 0 THEN memo
            ELSE IF lv[n].val = Null \/ lv[n].val \in Range(g[n - 1]) THEN g[n - 1]
            ELSE Append(g[n - 1], lv[n].val)]

LEMMA InsertChoice ==
    ASSUME NEW memo, NEW lv
    PROVE  Insert(memo, lv) = (CHOOSE g : Inserting(memo, lv, g))[Len(lv)]
BY DEF Insert, Inserting

\* m has the entries of memo where they were.
Extends(memo, m) == Len(memo) <= Len(m) /\ \A k \in 1 .. Len(memo) : m[k] = memo[k]

LEMMA InsertingExists ==
    ASSUME NEW memo \in Seq(Vals), NEW lv, Len(lv) \in Nat,
           \A i \in 1 .. Len(lv) : lv[i].val \in Vals \cup {Null}
    PROVE  \E g : Inserting(memo, lv, g)
<1> DEFINE N == Len(lv)
           V == Seq(Vals)
           St(m, n) == IF lv[n].val = Null \/ lv[n].val \in Range(m) THEN m ELSE Append(m, lv[n].val)
<1>1. PICK step : step = [mn \in V \X (1 .. N) |-> St(mn[1], mn[2])]
  BY Zenon
<1>2. ASSUME NEW m \in V, NEW n \in 1 .. N PROVE St(m, n) \in V
  <2>1. lv[n].val \in Vals \cup {Null}
    OBVIOUS
  <2>2. lv[n].val # Null => Append(m, lv[n].val) \in V
    BY <2>1
  <2> QED
    BY <2>2
<1>3. Steps(V, N, step)
  BY <1>1, <1>2 DEF Steps
<1>4. \A m \in V, n \in 1 .. N : step[<<m, n>>] = St(m, n)
  BY <1>1
<1> HIDE DEF St
<1>5. memo \in V /\ N \in Nat
  OBVIOUS
<1>6. PICK g : Recursion(V, memo, N, step, g)
  <2> HIDE DEF N, V
  <2> QED
    BY <1>5, <1>3, RecursionExists, Zenon
<1>7. ASSUME NEW n \in 0 .. N PROVE g[n] = IF n = 0 THEN memo ELSE St(g[n - 1], n)
  <2>1. CASE n = 0
    BY <1>6, <2>1 DEF Recursion
  <2>2. CASE n # 0
    <3>1. n \in 1 .. N /\ n - 1 \in 0 .. N
      BY <2>2
    <3>2. g[n - 1] \in V
      BY <1>6, <3>1 DEF Recursion
    <3> QED
      BY <1>4, <1>6, <2>2, <3>1, <3>2, Zenon DEF Recursion
  <2> QED
    BY <2>1, <2>2
<1>8. g = [n \in 0 .. N |-> IF n = 0 THEN memo ELSE St(g[n - 1], n)]
  BY <1>6, <1>7 DEF Recursion
<1> QED
  BY <1>8 DEF St, Inserting

\* typedDictEncoder.Put keeps every entry of the dictionary at its index, and has an entry for every value put.
LEMMA InsertKeeps ==
    ASSUME NEW memo \in Seq(Vals), NEW lv, Len(lv) \in Nat,
           \A i \in 1 .. Len(lv) : lv[i].val \in Vals \cup {Null}
    PROVE  /\ Insert(memo, lv) \in Seq(Vals)
           /\ Extends(memo, Insert(memo, lv))
           /\ \A i \in 1 .. Len(lv) : lv[i].val # Null => lv[i].val \in Range(Insert(memo, lv))
<1>1. PICK g : g = CHOOSE h : Inserting(memo, lv, h)
  OBVIOUS
<1>2. Inserting(memo, lv, g)
  BY <1>1, InsertingExists
<1>3. Insert(memo, lv) = g[Len(lv)]
  BY <1>1, InsertChoice
<1>4. g[0] = memo
  BY <1>2 DEF Inserting
<1>5. ASSUME NEW n \in Nat, n + 1 <= Len(lv)
      PROVE  g[n + 1] = IF lv[n + 1].val = Null \/ lv[n + 1].val \in Range(g[n]) THEN g[n]
                        ELSE Append(g[n], lv[n + 1].val)
  <2>1. n + 1 \in 0 .. Len(lv) /\ n + 1 # 0 /\ (n + 1) - 1 = n
    BY <1>5
  <2> QED
    BY <1>2, <2>1, Zenon DEF Inserting
<1> DEFINE Put(n) == \A i \in 1 .. n : lv[i].val # Null => lv[i].val \in Range(g[n])
           S == {n \in Nat : n <= Len(lv) => g[n] \in Seq(Vals) /\ Extends(memo, g[n]) /\ Put(n)}
<1>6. 0 \in S
  BY <1>4 DEF Extends
<1>7. ASSUME NEW n \in Nat, n \in S PROVE n + 1 \in S
  <2> SUFFICES ASSUME n + 1 <= Len(lv)
               PROVE  g[n + 1] \in Seq(Vals) /\ Extends(memo, g[n + 1]) /\ Put(n + 1)
    OBVIOUS
  <2>1. g[n] \in Seq(Vals) /\ Extends(memo, g[n]) /\ Put(n)
    BY <1>7
  <2>2. lv[n + 1].val \in Vals \cup {Null}
    OBVIOUS
  <2>3. CASE lv[n + 1].val = Null \/ lv[n + 1].val \in Range(g[n])
    <3>1. g[n + 1] = g[n]
      BY <1>5, <2>3
    <3> QED
      BY <3>1, <2>1, <2>3
  <2>4. CASE lv[n + 1].val # Null /\ lv[n + 1].val \notin Range(g[n])
    <3>1. g[n + 1] = Append(g[n], lv[n + 1].val) /\ lv[n + 1].val \in Vals
      BY <1>5, <2>2, <2>4, Zenon
    <3>2. g[n + 1] \in Seq(Vals) /\ Len(g[n + 1]) = Len(g[n]) + 1
          /\ (\A k \in 1 .. Len(g[n]) : g[n + 1][k] = g[n][k])
          /\ g[n + 1][Len(g[n]) + 1] = lv[n + 1].val
      BY <3>1, <2>1
    <3>3. Extends(memo, g[n + 1])
      BY <3>2, <2>1 DEF Extends
    <3>4. Range(g[n]) \subseteq Range(g[n + 1]) /\ lv[n + 1].val \in Range(g[n + 1])
      <4>1. DOMAIN g[n] = 1 .. Len(g[n]) /\ DOMAIN g[n + 1] = 1 .. Len(g[n]) + 1 /\ Len(g[n]) \in Nat
        BY <3>2, <2>1
      <4>2. Len(g[n]) + 1 \in DOMAIN g[n + 1] /\ \A k \in DOMAIN g[n] : k \in DOMAIN g[n + 1]
        BY <4>1
      <4>3. \A k \in DOMAIN g[n] : g[n + 1][k] = g[n][k]
        BY <3>2, <4>1
      <4> QED
        BY <3>2, <4>2, <4>3 DEF Range
    <3> QED
      BY <3>2, <3>3, <3>4, <2>1
  <2> QED
    BY <2>3, <2>4
<1>8. Len(lv) \in S
  <2> HIDE DEF S
  <2> QED
    BY <1>6, <1>7, NatSetInduction
<1> QED
  BY <1>3, <1>8

\* A batch is not empty and ends within the levels, where a row begins if pages are aligned
\* (alignBatchToRowBoundary).
LEMMA NextBatchAligned ==
    ASSUME NEW lv \in Seq(Level), lv # <<>>
    PROVE  /\ NextBatch(lv) \in 1 .. Len(lv)
           /\ Aligned /\ NextBatch(lv) < Len(lv) => lv[NextBatch(lv) + 1].rep = 0
<1> DEFINE back == {b \in 1 .. BatchSize : lv[b + 1].rep = 0}
           on == {b \in BatchSize .. Len(lv) : b = Len(lv) \/ lv[b + 1].rep = 0}
<1>1. Len(lv) \in Nat \ {0} /\ BatchSize \in Nat \ {0}
  BY Bounds
<1>2. CASE Len(lv) <= BatchSize
  BY <1>1, <1>2 DEF NextBatch
<1>3. CASE Len(lv) > BatchSize /\ ~Aligned
  BY <1>1, <1>3 DEF NextBatch
<1>4. CASE Len(lv) > BatchSize /\ Aligned /\ back # {}
  <2>1. NextBatch(lv) = Max(back)
    BY <1>1, <1>4 DEF NextBatch, AlignBatchToRowBoundary
  <2>2. back \subseteq 0 .. BatchSize
    BY <1>1
  <2>3. Max(back) \in back
    <3> HIDE DEF back
    <3> QED
      BY <1>1, <1>4, <2>2, MaxIn, Zenon
  <2> QED
    BY <1>1, <1>4, <2>1, <2>3
<1>5. CASE Len(lv) > BatchSize /\ Aligned /\ back = {}
  <2>1. NextBatch(lv) = Min(on)
    BY <1>1, <1>5 DEF NextBatch, AlignBatchToRowBoundary
  <2>2. on \subseteq Nat /\ Len(lv) \in on
    BY <1>1, <1>5
  <2>3. Min(on) \in on
    <3> HIDE DEF on
    <3> QED
      BY <2>2, MinIn, Zenon
  <2> QED
    BY <1>1, <1>5, <2>1, <2>3
<1> QED
  BY <1>1, <1>2, <1>3, <1>4, <1>5, Columns

-----------------------------------------------------------------------------
(* What the operations do to a writer, field by field.                       *)

Same(x, y, F) == \A g \in Fields \ F : y[g] = x[g]

\* The page flushCurrentPage builds.
PageOf(x) ==
    [kind |-> "data", dict |-> x.dict, levels |-> x.cur, first |-> x.rowsWritten, seq |-> x.cut]

LEMMA PageTyped ==
    ASSUME NEW x, Typed(x)
    PROVE  PageOf(x) \in DataPage
BY DEF PageOf, DataPage, Typed

LEMMA PagesTyped ==
    ASSUME NEW x, Typed(x)
    PROVE  x.pages \in Seq(DataPage) /\ x.pages \in Seq(Page) /\ x.out \in Seq(Page)
<1>1. x.pages \in Seq(DataPage) /\ x.out \in Seq(Page)
  BY DEF Typed
<1>2. DataPage \subseteq Page
  BY DEF Page
<1> QED
  BY <1>1, <1>2, SeqWider

\* The fields of pages.
LEMMA PageFields ==
    /\ \A p \in DataPage : /\ IsData(p) /\ p.seq \in Nat /\ p.first \in Nat /\ p.dict \in BOOLEAN
                           /\ p.levels \in Seq(Slot)
    /\ \A p \in DictPage : ~IsData(p) /\ p.kind = "dictionary" /\ p.values \in Seq(Vals)
    /\ \A p \in Page : IF IsData(p) THEN p \in DataPage ELSE p \in DictPage
BY DEF DataPage, DictPage, IsData, Page

Flushed(x, y) ==
    /\ Same(x, y, {"cur", "raw", "rows", "cut", "rowsWritten", "pages", "out", "err"})
    /\ y.cur = <<>> /\ y.raw = 0 /\ y.rows = 0 /\ y.cut = x.cut + 1 /\ y.rowsWritten = x.rowsWritten + x.rows
    /\ IF x.dict
       THEN y.pages = Append(x.pages, PageOf(x)) /\ y.out = x.out /\ y.err = x.err
       ELSE y.pages = x.pages /\ \/ y.out = Append(x.out, PageOf(x)) /\ y.err = x.err
                                 \/ y.out = x.out /\ y.err = TRUE

LEMMA FlushFields ==
    ASSUME NEW x, Typed(x), NEW y, y \in FlushCurrentPage(x)
    PROVE  Typed(y) /\ Flushed(x, y)
<1> DEFINE z == [x EXCEPT !.cur = <<>>, !.raw = 0, !.rows = 0, !.cut = @ + 1, !.rowsWritten = @ + x.rows]
<1>1. PICK p : p = PageOf(x)
  OBVIOUS
<1>2. p \in DataPage
  BY <1>1, PageTyped
<1>3. Typed(z)
  BY DEF Typed, Fields
<1>4. /\ Same(x, z, {"cur", "raw", "rows", "cut", "rowsWritten"})
      /\ z.cur = <<>> /\ z.raw = 0 /\ z.rows = 0 /\ z.cut = x.cut + 1 /\ z.rowsWritten = x.rowsWritten + x.rows
  BY Zenon DEF Typed, Fields, Same
<1>5. IF x.dict THEN y = [z EXCEPT !.pages = Append(z.pages, p)]
      ELSE y = [z EXCEPT !.out = Append(z.out, p)] \/ y = [z EXCEPT !.err = TRUE]
  BY <1>1 DEF FlushCurrentPage, PageOf, Send, Failed
<1> HIDE DEF z
<1>6. CASE x.dict
  <2>1. y = [z EXCEPT !.pages = Append(z.pages, p)]
    BY <1>5, <1>6
  <2>2. Append(z.pages, p) \in Seq(DataPage)
    BY <1>2, <1>3 DEF Typed
  <2>3. Typed(y)
    BY <1>3, <2>1, <2>2, Zenon DEF Typed, Fields
  <2>4. Same(z, y, {"pages"}) /\ y.pages = Append(z.pages, p)
    BY <1>3, <2>1, Zenon DEF Same, Typed, Fields
  <2> QED
    BY <1>1, <1>4, <1>6, <2>3, <2>4 DEF Same, Flushed, Fields
<1>7. CASE ~x.dict /\ y = [z EXCEPT !.out = Append(z.out, p)]
  <2>1. Append(z.out, p) \in Seq(Page)
    BY <1>2, <1>3 DEF Typed, Page
  <2>2. Typed(y)
    BY <1>3, <1>7, <2>1, Zenon DEF Typed, Fields
  <2>3. Same(z, y, {"out"}) /\ y.out = Append(z.out, p)
    BY <1>3, <1>7, Zenon DEF Same, Typed, Fields
  <2> QED
    BY <1>1, <1>4, <1>7, <2>2, <2>3, Zenon DEF Same, Flushed, Fields
<1>8. CASE ~x.dict /\ y = [z EXCEPT !.err = TRUE]
  <2>2. Typed(y)
    BY <1>3, <1>8, Zenon DEF Typed, Fields
  <2>3. Same(z, y, {"err"}) /\ y.err = TRUE
    BY <1>3, <1>8, Zenon DEF Same, Typed, Fields
  <2> QED
    BY <1>1, <1>4, <1>8, <2>2, <2>3, Zenon DEF Same, Flushed, Fields
<1> QED
  BY <1>5, <1>6, <1>7, <1>8

Drained(x, y) ==
    /\ Same(x, y, {"pages", "out", "err"})
    /\ \/ y.out = x.out \o x.pages /\ y.pages = <<>> /\ y.err = x.err
       \/ /\ y.err = TRUE
          /\ \E i \in 1 .. Len(x.pages) : /\ y.out = x.out \o SubSeq(x.pages, 1, i - 1)
                                          /\ y.pages = SubSeq(x.pages, i + 1, Len(x.pages))

LEMMA DrainFields ==
    ASSUME NEW x, Typed(x), NEW y, y \in DrainBufferedDataPages(x)
    PROVE  Typed(y) /\ Drained(x, y)
<1>1. x.pages \in Seq(DataPage) /\ x.pages \in Seq(Page) /\ x.out \in Seq(Page)
  BY PagesTyped
<1>2. CASE y = [x EXCEPT !.out = @ \o x.pages, !.pages = <<>>]
  <2>1. PICK o : o = x.out \o x.pages
    BY Zenon
  <2>2. o \in Seq(Page)
    BY <1>1, <2>1
  <2>3. y = [x EXCEPT !.out = o, !.pages = <<>>]
    BY <1>2, <2>1
  <2>4. Typed(y)
    BY <2>2, <2>3 DEF Typed, Fields
  <2>5. Same(x, y, {"pages", "out"}) /\ y.out = o /\ y.pages = <<>>
    BY <2>3, Zenon DEF Same, Typed, Fields
  <2> QED
    BY <2>1, <2>4, <2>5, Zenon DEF Same, Drained, Fields
<1>3. ASSUME NEW i \in 1 .. Len(x.pages),
             y = Failed([x EXCEPT !.out = @ \o SubSeq(x.pages, 1, i - 1), !.pages = SubSeq(@, i + 1, Len(@))])
      PROVE  Typed(y) /\ Drained(x, y)
  <2>1. PICK o, p : o = x.out \o SubSeq(x.pages, 1, i - 1) /\ p = SubSeq(x.pages, i + 1, Len(x.pages))
    BY Zenon
  <2>2. SubSeq(x.pages, 1, i - 1) \in Seq(Page)
    BY <1>1
  <2>3. o \in Seq(Page) /\ p \in Seq(DataPage)
    BY <1>1, <2>1, <2>2
  <2>4. y = [[x EXCEPT !.out = o, !.pages = p] EXCEPT !.err = TRUE]
    BY <1>3, <2>1 DEF Failed
  <2>5. Typed(y)
    BY <2>3, <2>4 DEF Typed, Fields
  <2>6. Same(x, y, {"pages", "out", "err"}) /\ y.out = o /\ y.pages = p /\ y.err = TRUE
    BY <2>4, Zenon DEF Same, Typed, Fields
  <2> QED
    BY <2>1, <2>5, <2>6, Zenon DEF Drained
<1>4. DOMAIN x.pages = 1 .. Len(x.pages)
  BY <1>1
<1> QED
  BY <1>2, <1>3, <1>4, Zenon DEF DrainBufferedDataPages

\* The values that the Bloom filter of x is owed by the dictionary.
Owed(x) == {x.memo[i] : i \in x.refd}

Populated(x, y) ==
    /\ Same(x, y, {"bloom", "bloomDone"})
    /\ y.bloomDone = TRUE
    /\ y.bloom = IF x.bloomDone THEN x.bloom ELSE x.bloom \cup Owed(x)

LEMMA PopulateFields ==
    ASSUME NEW x, Typed(x), Slotted(x), NEW y, y = PopulateBloom(x)
    PROVE  Typed(y) /\ Populated(x, y)
<1>1. CASE x.bloomDone
  <2>1. y = x
    BY <1>1 DEF PopulateBloom
  <2> QED
    BY <1>1, <2>1, Zenon DEF Populated, Same, Typed
<1>2. CASE ~x.bloomDone
  <2>1. PICK b : b = x.bloom \cup Owed(x)
    BY Zenon
  <2>2. Owed(x) \subseteq Vals
    BY DEF Owed, Typed, Slotted
  <2>3. b \in SUBSET Vals
    BY <2>1, <2>2 DEF Typed
  <2>4. y = [x EXCEPT !.bloomDone = TRUE, !.bloom = b]
    BY <1>2, <2>1 DEF PopulateBloom, Owed
  <2>5. Typed(y)
    BY <2>3, <2>4 DEF Typed, Fields
  <2>6. Same(x, y, {"bloom", "bloomDone"}) /\ y.bloomDone = TRUE /\ y.bloom = b
    BY <2>4, Zenon DEF Same, Typed, Fields
  <2> QED
    BY <1>2, <2>1, <2>5, <2>6 DEF Populated
<1> QED
  BY <1>1, <1>2

DictPageOf(x) == [kind |-> "dictionary", values |-> x.memo]

DictSent(x, y) ==
    /\ Same(x, y, {"bloom", "bloomDone", "out", "dictWritten", "err"})
    /\ y.bloomDone = TRUE
    /\ y.bloom = IF x.bloomDone THEN x.bloom ELSE x.bloom \cup Owed(x)
    /\ \/ y.out = Append(x.out, DictPageOf(x)) /\ y.err = FALSE /\ y.dictWritten = TRUE
       \/ y.out = x.out /\ y.err = TRUE /\ y.dictWritten = FALSE

LEMMA DictFields ==
    ASSUME NEW x, Typed(x), Slotted(x), ~x.err, NEW y, y \in WriteDictionaryPage(x)
    PROVE  Typed(y) /\ DictSent(x, y)
<1>1. PICK z : z = PopulateBloom(x)
  OBVIOUS
<1>2. Typed(z) /\ Populated(x, z)
  BY <1>1, PopulateFields
<1>3. PICK p : p = DictPageOf(x)
  OBVIOUS
<1>4. p \in DictPage
  BY <1>3 DEF DictPageOf, DictPage, Typed
<1>5. PICK u : u \in {[z EXCEPT !.out = Append(z.out, p)], [z EXCEPT !.err = TRUE]} /\ y = [u EXCEPT !.dictWritten = ~u.err]
  BY <1>1, <1>3, Zenon DEF WriteDictionaryPage, Send, Failed, DictPageOf
<1>6. z.out = x.out /\ z.err = FALSE
  BY <1>2 DEF Populated, Same, Fields, Typed
<1>7. CASE u = [z EXCEPT !.out = Append(z.out, p)]
  <2>1. Append(z.out, p) \in Seq(Page)
    BY <1>2, <1>4 DEF Typed, Page
  <2>2. Typed(u)
    BY <1>2, <1>7, <2>1, Zenon DEF Typed, Fields
  <2>3. Same(z, u, {"out"}) /\ u.out = Append(z.out, p)
    BY <1>2, <1>7, Zenon DEF Same, Typed, Fields
  <2>4. u.err = FALSE
    BY <1>6, <2>3 DEF Same, Fields
  <2>5. Typed(y)
    BY <1>5, <2>2, Zenon DEF Typed, Fields
  <2>6. Same(u, y, {"dictWritten"}) /\ y.dictWritten = TRUE
    BY <1>5, <2>2, <2>4, Zenon DEF Same, Typed, Fields
  <2> QED
    BY <1>2, <1>3, <1>6, <2>3, <2>4, <2>5, <2>6 DEF Same, Populated, DictSent, Fields
<1>8. CASE u = [z EXCEPT !.err = TRUE]
  <2>1. Typed(u)
    BY <1>2, <1>8, Zenon DEF Typed, Fields
  <2>2. Same(z, u, {"err"}) /\ u.err = TRUE
    BY <1>2, <1>8, Zenon DEF Same, Typed, Fields
  <2>3. Typed(y)
    BY <1>5, <2>1, Zenon DEF Typed, Fields
  <2>4. Same(u, y, {"dictWritten"}) /\ y.dictWritten = FALSE
    BY <1>5, <2>1, <2>2 DEF Same, Typed, Fields
  <2> QED
    BY <1>2, <1>6, <2>2, <2>3, <2>4 DEF Same, Populated, DictSent, Fields
<1> QED
  BY <1>5, <1>7, <1>8

\* The current page with its indices replaced by the values they stand for.
Reencoded(x) ==
    [i \in DOMAIN x.cur |-> [rep |-> x.cur[i].rep,
        slot |-> IF x.cur[i].slot = Null THEN Null ELSE x.memo[x.cur[i].slot]]]

Plain(x, y) ==
    /\ Same(x, y, {"dict", "memo", "preserved", "refd", "raw", "cur"})
    /\ y.dict = FALSE /\ y.memo = <<>> /\ y.preserved = Null /\ y.refd = {} /\ y.raw = 0
    /\ y.cur = Reencoded(x)

LEMMA ReencodedTyped ==
    ASSUME NEW x, Typed(x), Slotted(x), x.dict
    PROVE  /\ Reencoded(x) \in Seq(Slot) /\ Len(Reencoded(x)) = Len(x.cur)
           /\ \A i \in 1 .. Len(x.cur) :
                /\ Reencoded(x)[i].rep = x.cur[i].rep
                /\ Reencoded(x)[i].slot = IF x.cur[i].slot = Null THEN Null ELSE x.memo[x.cur[i].slot]
                /\ Reencoded(x)[i].slot \in Vals \cup {Null}
<1>1. x.cur \in Seq(Slot) /\ Len(x.cur) \in Nat /\ DOMAIN x.cur = 1 .. Len(x.cur) /\ x.memo \in Seq(Vals)
  BY DEF Typed
<1>2. PICK r : r = Reencoded(x)
  OBVIOUS
<1>3. ASSUME NEW i \in 1 .. Len(x.cur)
      PROVE  /\ r[i] \in Slot /\ r[i].rep = x.cur[i].rep /\ r[i].slot \in Vals \cup {Null}
             /\ r[i].slot = IF x.cur[i].slot = Null THEN Null ELSE x.memo[x.cur[i].slot]
  <2>1. PICK s : s = IF x.cur[i].slot = Null THEN Null ELSE x.memo[x.cur[i].slot]
    OBVIOUS
  <2>2. r[i] = [rep |-> x.cur[i].rep, slot |-> s]
    BY <1>1, <1>2, <2>1 DEF Reencoded
  <2>3. x.cur[i] \in Slot /\ x.cur[i].slot \in DOMAIN x.memo \cup {Null}
    BY <1>1 DEF Slotted
  <2>4. s \in Vals \cup {Null}
    BY <1>1, <2>1, <2>3
  <2>5. x.cur[i].rep \in Nat
    BY <2>3 DEF Slot
  <2>6. r[i] \in Slot
    BY <2>2, <2>4, <2>5 DEF Slot
  <2> QED
    BY <2>1, <2>2, <2>4, <2>6
<1>4. r \in [1 .. Len(x.cur) -> Slot]
  BY <1>1, <1>2, <1>3, Zenon DEF Reencoded
<1>5. r \in Seq(Slot) /\ Len(r) = Len(x.cur)
  BY <1>1, <1>4
<1> QED
  BY <1>2, <1>3, <1>5

LEMMA PlainFields ==
    ASSUME NEW x, Typed(x), Slotted(x), x.dict, NEW y, y \in UsePlain(x)
    PROVE  Typed(y) /\ Plain(x, y)
<1>1. PICK r : r = Reencoded(x)
  OBVIOUS
<1>2. r \in Seq(Slot)
  BY <1>1, ReencodedTyped
<1>3. y = [x EXCEPT !.dict = FALSE, !.memo = <<>>, !.preserved = Null, !.refd = {}, !.raw = 0, !.cur = r]
  BY <1>1 DEF UsePlain, Reencoded
<1>4. Typed(y)
  BY <1>2, <1>3 DEF Typed, Fields
<1>5. /\ Same(x, y, {"dict", "memo", "preserved", "refd", "raw", "cur"})
      /\ y.dict = FALSE /\ y.memo = <<>> /\ y.preserved = Null /\ y.refd = {} /\ y.raw = 0 /\ y.cur = r
  BY <1>3, Zenon DEF Same, Typed, Fields
<1> QED
  BY <1>1, <1>4, <1>5 DEF Plain

LEMMA PresentIn ==
    ASSUME NEW lv \in Seq(Level)
    PROVE  /\ Present(lv) \subseteq Vals
           /\ \A i \in 1 .. Len(lv) : lv[i].val # Null => lv[i].val \in Present(lv)
           /\ \A i \in 1 .. Len(lv) : lv[i].rep \in Nat /\ lv[i].val \in Vals \cup {Null}
<1>1. DOMAIN lv = 1 .. Len(lv) /\ \A i \in 1 .. Len(lv) : lv[i] \in Level
  OBVIOUS
<1>2. \A i \in 1 .. Len(lv) : lv[i].rep \in Nat /\ lv[i].val \in Vals \cup {Null}
  BY <1>1 DEF Level
<1> QED
  BY <1>1, <1>2 DEF Present

LEMMA PresentCat ==
    ASSUME NEW a \in Seq(Level), NEW b \in Seq(Level)
    PROVE  Present(a \o b) = Present(a) \cup Present(b)
<1>1. ASSUME NEW v \in Present(a \o b) PROVE v \in Present(a) \cup Present(b)
  <2>1. PICK i \in 1 .. Len(a) + Len(b) : (a \o b)[i].val = v /\ v # Null
    BY DEF Present
  <2>2. CASE i <= Len(a)
    BY <2>1, <2>2 DEF Present
  <2>3. CASE i > Len(a)
    <3>1. i - Len(a) \in 1 .. Len(b) /\ (a \o b)[i] = b[i - Len(a)]
      BY <2>1, <2>3
    <3> QED
      BY <2>1, <3>1 DEF Present
  <2> QED
    BY <2>1, <2>2, <2>3
<1>2. ASSUME NEW i \in 1 .. Len(a) PROVE (a \o b)[i] = a[i] /\ i \in DOMAIN (a \o b)
  OBVIOUS
<1>3. ASSUME NEW i \in 1 .. Len(b) PROVE (a \o b)[i + Len(a)] = b[i] /\ i + Len(a) \in DOMAIN (a \o b)
  OBVIOUS
<1>4. ASSUME NEW v \in Present(a) PROVE v \in Present(a \o b)
  <2>1. PICK i \in 1 .. Len(a) : a[i].val = v /\ v # Null
    BY DEF Present
  <2> QED
    BY <1>2, <2>1 DEF Present
<1>5. ASSUME NEW v \in Present(b) PROVE v \in Present(a \o b)
  <2>1. PICK i \in 1 .. Len(b) : b[i].val = v /\ v # Null
    BY DEF Present
  <2> QED
    BY <1>3, <2>1 DEF Present
<1> QED
  BY <1>1, <1>4, <1>5

\* The slots new stand for the levels lv.
Stands(new, dict, memo, lv) ==
    /\ new \in Seq(Slot) /\ Len(new) = Len(lv)
    /\ \A i \in 1 .. Len(lv) :
          /\ Reads(new[i], dict, memo, lv[i])
          /\ new[i].slot \in (IF dict THEN DOMAIN memo ELSE Vals) \cup {Null}

\* The slots of a batch stand for its levels.
LEMMA SlotsRead ==
    ASSUME NEW x, Typed(x), NEW memo \in Seq(Vals), NEW lv \in Seq(Level),
           x.dict => Present(lv) \subseteq Range(memo)
    PROVE  Stands(Slots(x, memo, lv), x.dict, memo, lv)
<1> x.dict \in BOOLEAN
  BY DEF Typed
<1>1. PICK r : r = Slots(x, memo, lv)
  OBVIOUS
<1>2. ASSUME NEW i \in 1 .. Len(lv)
      PROVE  /\ r[i] \in Slot /\ Reads(r[i], x.dict, memo, lv[i])
             /\ r[i].slot \in (IF x.dict THEN DOMAIN memo ELSE Vals) \cup {Null}
  <2>1. lv[i].rep \in Nat /\ lv[i].val \in Vals \cup {Null} /\ (lv[i].val # Null => lv[i].val \in Present(lv))
    BY PresentIn
  <2>2. PICK s : s = IF lv[i].val = Null THEN Null
                     ELSE IF x.dict THEN IndexOf(memo, lv[i].val)
                     ELSE lv[i].val
    OBVIOUS
  <2>3. r[i] = [rep |-> lv[i].rep, slot |-> s]
    <3>1. i \in DOMAIN lv
      OBVIOUS
    <3> QED
      BY <1>1, <2>2, <3>1 DEF Slots
  <2>4. lv[i].val # Null /\ x.dict => s \in DOMAIN memo /\ memo[s] = lv[i].val
    BY <2>1, <2>2 DEF Range, IndexOf
  <2>5. /\ s \in (IF x.dict THEN DOMAIN memo ELSE Vals) \cup {Null}
        /\ s = Null <=> lv[i].val = Null
    BY <2>1, <2>2, <2>4, Columns
  <2>6. s \in Vals \cup Nat \cup {Null}
    BY <2>5
  <2>7. r[i] \in Slot
    BY <2>1, <2>3, <2>6 DEF Slot
  <2>8. Reads(r[i], x.dict, memo, lv[i])
    BY <2>2, <2>3, <2>4, <2>5 DEF Reads
  <2> QED
    BY <2>3, <2>5, <2>7, <2>8
<1>3. r \in [1 .. Len(lv) -> Slot]
  <2>1. DOMAIN lv = 1 .. Len(lv)
    OBVIOUS
  <2> QED
    BY <1>1, <1>2, <2>1, Zenon DEF Slots
<1>4. r \in Seq(Slot) /\ Len(r) = Len(lv)
  BY <1>3
<1> QED
  BY <1>1, <1>2, <1>4 DEF Stands

\* The dictionary entries that slots refer to.
Refs(new) == {new[i].slot : i \in DOMAIN new} \ {Null}

Wrote(x, y, lv) ==
    /\ Same(x, y, {"memo", "cur", "rows", "raw", "refd", "bloom"})
    /\ IF x.dict THEN Extends(x.memo, y.memo) /\ Present(lv) \subseteq Range(y.memo) ELSE y.memo = <<>>
    /\ y.cur = x.cur \o Slots(x, y.memo, lv)
    /\ y.rows = x.rows + Rows(lv)
    /\ y.refd = IF x.dict THEN x.refd \cup Refs(Slots(x, y.memo, lv)) ELSE x.refd
    /\ y.bloom = IF x.dict THEN x.bloom ELSE x.bloom \cup Present(lv)

LEMMA ValuesFields ==
    ASSUME NEW x, Typed(x), NEW lv \in Seq(Level), NEW y, y = WriteValues(x, lv)
    PROVE  Typed(y) /\ Wrote(x, y, lv)
<1>1. PICK memo : memo = IF x.dict THEN Insert(x.memo, lv) ELSE <<>>
  OBVIOUS
<1>2. memo \in Seq(Vals) /\ (x.dict => Extends(x.memo, memo) /\ Present(lv) \subseteq Range(memo))
  <2>1. CASE x.dict
    <3>1. \A i \in 1 .. Len(lv) : lv[i].val \in Vals \cup {Null}
      BY PresentIn
    <3>2. x.memo \in Seq(Vals) /\ Len(lv) \in Nat
      BY DEF Typed
    <3>3. /\ memo \in Seq(Vals) /\ Extends(x.memo, memo)
          /\ \A i \in 1 .. Len(lv) : lv[i].val # Null => lv[i].val \in Range(memo)
      BY <1>1, <2>1, <3>1, <3>2, InsertKeeps
    <3> QED
      BY <3>3 DEF Present
  <2>2. CASE ~x.dict
    BY <1>1, <2>2
  <2> QED
    BY <2>1, <2>2
<1>3. PICK new : new = Slots(x, memo, lv)
  OBVIOUS
<1>4. /\ new \in Seq(Slot) /\ Len(new) = Len(lv)
      /\ \A i \in 1 .. Len(lv) : new[i].slot \in (IF x.dict THEN DOMAIN memo ELSE Vals) \cup {Null}
  BY <1>2, <1>3, SlotsRead DEF Stands
<1>5. PICK raw : raw = IF x.dict THEN x.raw + NumPresent(lv) ELSE x.raw
  OBVIOUS
<1>6. raw \in Nat
  <2>1. NumPresent(lv) \in Nat
    <3>1. DOMAIN lv = 1 .. Len(lv) /\ Len(lv) \in Nat
      OBVIOUS
    <3>2. [i \in DOMAIN lv |-> lv[i].val # Null] \in [1 .. Len(lv) -> BOOLEAN]
      BY <3>1, Zenon
    <3>3. [i \in DOMAIN lv |-> lv[i].val # Null] \in Seq(BOOLEAN)
      BY <3>1, <3>2, FunctionSeq, Zenon
    <3> QED
      BY <3>3, CountKeeps, Zenon DEF NumPresent
  <2> QED
    BY <1>5, <2>1 DEF Typed
<1>7. PICK refd : refd = IF x.dict THEN x.refd \cup Refs(new) ELSE x.refd
  BY Zenon
<1>8. refd \in SUBSET Nat
  <2>1. x.dict => Refs(new) \subseteq Nat
    BY <1>2, <1>4 DEF Refs
  <2> QED
    BY <1>7, <2>1 DEF Typed
<1>9. PICK bloom : bloom = IF x.dict THEN x.bloom ELSE x.bloom \cup Present(lv)
  BY Zenon
<1>10. bloom \in SUBSET Vals
  BY <1>9, PresentIn DEF Typed
<1>11. PICK cur, rows : cur = x.cur \o new /\ rows = x.rows + Rows(lv)
  BY Zenon
<1>12. cur \in Seq(Slot) /\ rows \in Nat
  <2>1. Rows(lv) \in Nat
    BY RowsNat
  <2> QED
    BY <1>4, <1>11, <2>1, SMTT(30) DEF Typed
<1>13. y = [x EXCEPT !.memo = memo, !.cur = cur, !.rows = rows, !.raw = raw, !.refd = refd, !.bloom = bloom]
  BY <1>1, <1>3, <1>5, <1>7, <1>9, <1>11 DEF WriteValues, Refs
<1>14. Typed(y)
  BY <1>2, <1>6, <1>8, <1>10, <1>12, <1>13 DEF Typed, Fields
<1>15. /\ Same(x, y, {"memo", "cur", "rows", "raw", "refd", "bloom"})
       /\ y.memo = memo /\ y.cur = cur /\ y.rows = rows /\ y.refd = refd /\ y.bloom = bloom
  BY <1>13, Zenon DEF Same, Typed, Fields
<1> QED
  BY <1>1, <1>2, <1>3, <1>7, <1>9, <1>11, <1>14, <1>15 DEF Wrote

LEMMA IndicesFields ==
    ASSUME NEW x, Typed(x), x.dict, NEW lv \in Seq(Level), Present(lv) \subseteq Range(x.memo),
           NEW y, y = WriteIndices(x, lv)
    PROVE  Typed(y) /\ Wrote(x, y, lv) /\ y.memo = x.memo
<1>1. PICK new : new = Slots(x, x.memo, lv)
  OBVIOUS
<1>2. /\ new \in Seq(Slot) /\ Len(new) = Len(lv)
      /\ \A i \in 1 .. Len(lv) : new[i].slot \in DOMAIN x.memo \cup {Null}
  <2>1. x.memo \in Seq(Vals)
    BY DEF Typed
  <2>2. Stands(new, x.dict, x.memo, lv)
    BY <1>1, <2>1, SlotsRead, Zenon
  <2> QED
    BY <2>2, Zenon DEF Stands
<1>3. PICK refd, cur, rows : refd = x.refd \cup Refs(new) /\ cur = x.cur \o new /\ rows = x.rows + Rows(lv)
  BY Zenon
<1>4. refd \in SUBSET Nat
  <2>1. Refs(new) \subseteq DOMAIN x.memo
    BY <1>2 DEF Refs
  <2>2. DOMAIN x.memo \subseteq Nat /\ x.refd \subseteq Nat
    BY DEF Typed
  <2> QED
    BY <1>3, <2>1, <2>2
<1>5. cur \in Seq(Slot) /\ rows \in Nat
  <2>1. Rows(lv) \in Nat
    BY RowsNat
  <2> QED
    BY <1>2, <1>3, <2>1, SMTT(30) DEF Typed
<1>6. y = [x EXCEPT !.cur = cur, !.rows = rows, !.refd = refd]
  BY <1>1, <1>3 DEF WriteIndices, Refs
<1>7. Typed(y)
  BY <1>4, <1>5, <1>6, Zenon DEF Typed, Fields
<1>8. Same(x, y, {"cur", "rows", "refd"}) /\ y.cur = cur /\ y.rows = rows /\ y.refd = refd
  BY <1>6, Zenon DEF Same, Typed, Fields
<1>9. y.memo = x.memo /\ y.bloom = x.bloom
  BY <1>8 DEF Same, Fields
<1>10. Extends(x.memo, x.memo)
  BY DEF Extends, Typed
<1> QED
  BY <1>1, <1>3, <1>7, <1>8, <1>9, <1>10 DEF Wrote, Same

-----------------------------------------------------------------------------
(* Every operation keeps the writer sound, even one that fails.              *)

\* The operation leads from x to a sound writer y with as many rows.
Keeps(x, y) == Sound(y) /\ y.closed = x.closed /\ y.rowsWritten + y.rows = x.rowsWritten + x.rows

\* t has the data pages of s, or some of them, in their order: page k of t is page e[k] of s.
LEMMA InOrderSub ==
    ASSUME NEW s, NEW t, NEW n, NEW e, InOrder(s, n),
           \A k \in 1 .. Len(t) : IsData(t[k]) => e[k] \in 1 .. Len(s) /\ t[k] = s[e[k]],
           \A k, m \in 1 .. Len(t) : k < m /\ IsData(t[k]) /\ IsData(t[m]) => e[k] < e[m]
    PROVE  InOrder(t, n)
BY Zenon DEF InOrder

LEMMA InOrderAppend ==
    ASSUME NEW s \in Seq(Page), NEW p \in DataPage, p.seq \in Nat, InOrder(s, p.seq)
    PROVE  InOrder(Append(s, p), p.seq + 1)
<1>1. PICK t : t = Append(s, p)
  BY Zenon
<1>2. Len(t) = Len(s) + 1 /\ Len(s) \in Nat /\ t[Len(s) + 1] = p /\ \A k \in 1 .. Len(s) : t[k] = s[k]
  BY <1>1
<1>3. \A k \in 1 .. Len(s) : IsData(s[k]) => s[k].seq \in Nat /\ s[k].seq < p.seq
  <2>1. \A k \in 1 .. Len(s) : s[k] \in Page
    OBVIOUS
  <2> QED
    BY <2>1, PageFields DEF InOrder
<1>4. \A k \in 1 .. Len(t) : IsData(t[k]) => t[k].seq < p.seq + 1
  BY <1>2, <1>3
<1>5. \A k, m \in 1 .. Len(t) : k < m /\ IsData(t[k]) /\ IsData(t[m]) => t[k].seq < t[m].seq
  <2>1. ASSUME NEW k \in 1 .. Len(t), NEW m \in 1 .. Len(t), k < m, IsData(t[k]), IsData(t[m])
        PROVE  t[k].seq < t[m].seq
    <3>1. k \in 1 .. Len(s) /\ t[k] = s[k]
      BY <1>2, <2>1
    <3>2. CASE m \in 1 .. Len(s)
      BY <1>2, <2>1, <3>1, <3>2 DEF InOrder
    <3>3. CASE m = Len(s) + 1
      BY <1>2, <1>3, <2>1, <3>1, <3>3
    <3> QED
      BY <1>2, <3>2, <3>3
  <2> QED
    BY <2>1
<1> QED
  BY <1>1, <1>4, <1>5, Zenon DEF InOrder

LEMMA InOrderMore ==
    ASSUME NEW s \in Seq(Page), NEW n \in Nat, InOrder(s, n)
    PROVE  InOrder(s, n + 1)
<1>1. \A k \in 1 .. Len(s) : IsData(s[k]) => s[k].seq \in Nat
  <2>1. \A k \in 1 .. Len(s) : s[k] \in Page
    OBVIOUS
  <2> QED
    BY <2>1, PageFields
<1> QED
  BY <1>1 DEF InOrder

LEMMA AppendCat ==
    ASSUME NEW S, NEW a \in Seq(S), NEW b \in Seq(S), NEW e \in S
    PROVE  a \o Append(b, e) = Append(a \o b, e)
<1>1. PICK l, r : l = a \o Append(b, e) /\ r = Append(a \o b, e)
  BY Zenon
<1>2. l \in Seq(S) /\ r \in Seq(S) /\ Len(l) = Len(a) + Len(b) + 1 /\ Len(r) = Len(l)
  BY <1>1
<1>3. ASSUME NEW i \in 1 .. Len(l) PROVE l[i] = r[i]
  <2>1. CASE i <= Len(a)
    BY <1>1, <1>2, <2>1
  <2>2. CASE i > Len(a) /\ i <= Len(a) + Len(b)
    BY <1>1, <1>2, <2>2
  <2>3. CASE i = Len(a) + Len(b) + 1
    BY <1>1, <1>2, <2>3
  <2> QED
    BY <1>2, <2>1, <2>2, <2>3
<1>4. l = r
  BY <1>2, <1>3, SameSeq
<1> QED
  BY <1>1, <1>4

LEMMA FlushSound ==
    ASSUME NEW x, Sound(x), NEW y, y \in FlushCurrentPage(x)
    PROVE  Keeps(x, y)
<1>1. Typed(x) /\ Slotted(x) /\ Numbered(x)
  BY DEF Sound
<1>2. Typed(y) /\ Flushed(x, y)
  BY <1>1, FlushFields
<1>3. /\ y.dict = x.dict /\ y.memo = x.memo /\ y.refd = x.refd /\ y.preserved = x.preserved
      /\ y.cur = <<>> /\ y.cut = x.cut + 1 /\ x.cut \in Nat
  BY <1>1, <1>2 DEF Flushed, Same, Fields, Typed
<1>4. Slotted(y)
  <2>1. y.pages # <<>> => y.dict
    BY <1>1, <1>2, <1>3 DEF Flushed, Slotted
  <2> QED
    BY <1>1, <1>3, <2>1 DEF Slotted
<1>5. Numbered(y)
  <2>1. PICK p : p = PageOf(x)
    OBVIOUS
  <2>2. p \in DataPage /\ p \in Page /\ p.seq = x.cut
    BY <1>1, <2>1, PageTyped DEF PageOf, Page
  <2>3. x.pages \in Seq(Page) /\ x.out \in Seq(Page)
    BY <1>1, PagesTyped
  <2>4. PICK s : s = x.out \o x.pages
    BY Zenon
  <2>5. s \in Seq(Page) /\ InOrder(s, x.cut)
    BY <1>1, <2>3, <2>4 DEF Numbered
  <2>6. InOrder(Append(s, p), x.cut + 1) /\ InOrder(s, x.cut + 1)
    BY <1>3, <2>2, <2>5, InOrderAppend, InOrderMore
  <2>7. y.out \o y.pages = Append(s, p) \/ y.out \o y.pages = s
    <3>1. CASE x.dict
      <4>1. y.pages = Append(x.pages, p) /\ y.out = x.out
        BY <1>2, <2>1, <3>1 DEF Flushed
      <4>2. x.out \o Append(x.pages, p) = Append(x.out \o x.pages, p)
        <5>1. \A a, b \in Seq(Page), e \in Page : a \o Append(b, e) = Append(a \o b, e)
          BY AppendCat
        <5> QED
          BY <2>2, <2>3, <5>1, Zenon
      <4> QED
        BY <2>4, <4>1, <4>2
    <3>2. CASE ~x.dict
      <4>1. x.pages = <<>> /\ y.pages = <<>>
        BY <1>1, <1>2, <3>2 DEF Flushed, Slotted
      <4>2. y.out = x.out \/ y.out = Append(x.out, p)
        BY <1>2, <2>1, <3>2 DEF Flushed
      <4> QED
        BY <2>2, <2>3, <2>4, <4>1, <4>2
    <3> QED
      BY <3>1, <3>2, Zenon
  <2> QED
    BY <1>3, <2>6, <2>7, Zenon DEF Numbered
<1>6. y.rowsWritten + y.rows = x.rowsWritten + x.rows /\ y.closed = x.closed
  BY <1>1, <1>2 DEF Flushed, Typed, Same, Fields
<1> QED
  BY <1>2, <1>4, <1>5, <1>6 DEF Sound, Keeps

LEMMA DrainSound ==
    ASSUME NEW x, Sound(x), NEW y, y \in DrainBufferedDataPages(x)
    PROVE  Keeps(x, y)
<1>1. Typed(x) /\ Slotted(x) /\ Numbered(x)
  BY DEF Sound
<1>2. Typed(y) /\ Drained(x, y)
  BY <1>1, DrainFields
<1>3. /\ y.dict = x.dict /\ y.memo = x.memo /\ y.refd = x.refd /\ y.preserved = x.preserved
      /\ y.cur = x.cur /\ y.cut = x.cut /\ y.rowsWritten = x.rowsWritten /\ y.rows = x.rows /\ y.closed = x.closed
  BY <1>2 DEF Drained, Same, Fields
<1>4. PICK o, p, s : o = x.out /\ p = x.pages /\ s = x.out \o x.pages
  BY Zenon
<1>5. o \in Seq(Page) /\ p \in Seq(Page) /\ s = o \o p /\ s \in Seq(Page)
  BY <1>1, <1>4, PagesTyped
<1>6. CASE y.out = x.out \o x.pages /\ y.pages = <<>>
  <2>1. Slotted(y)
    BY <1>1, <1>3, <1>6 DEF Slotted
  <2>2. y.out \o y.pages = s
    BY <1>4, <1>5, <1>6
  <2>3. Numbered(y)
    BY <1>1, <1>3, <1>4, <2>2 DEF Numbered
  <2> QED
    BY <1>2, <1>3, <2>1, <2>3 DEF Sound, Keeps
<1>7. ASSUME NEW i \in 1 .. Len(x.pages),
             y.out = x.out \o SubSeq(x.pages, 1, i - 1), y.pages = SubSeq(x.pages, i + 1, Len(x.pages))
      PROVE  Sound(y)
  <2>1. Slotted(y)
    <3>1. x.pages # <<>>
      BY <1>4, <1>5, <1>7
    <3> QED
      BY <1>1, <1>3, <3>1 DEF Slotted
  <2>2. Numbered(y)
    <3>1. PICK a, b, t : a = SubSeq(p, 1, i - 1) /\ b = SubSeq(p, i + 1, Len(p)) /\ t = (o \o a) \o b
      BY Zenon
    <3>2. i \in 1 .. Len(p) /\ Len(p) \in Nat /\ Len(o) \in Nat
      BY <1>4, <1>5
    <3>3. a \in Seq(Page) /\ Len(a) = i - 1 /\ \A k \in 1 .. i - 1 : a[k] = p[k]
      BY <1>5, <3>1, <3>2, SubSeqs, Zenon
    <3>4. b \in Seq(Page) /\ Len(b) = Len(p) - i /\ \A k \in 1 .. Len(p) - i : b[k] = p[k + i]
      BY <1>5, <3>1, <3>2, SubSeqs, Zenon
    <3>5. /\ o \o a \in Seq(Page) /\ Len(o \o a) = Len(o) + (i - 1)
          /\ \A k \in 1 .. Len(o) + (i - 1) : (o \o a)[k] = IF k <= Len(o) THEN o[k] ELSE p[k - Len(o)]
      <4>1. /\ o \o a \in Seq(Page) /\ Len(o \o a) = Len(o) + Len(a)
            /\ \A k \in 1 .. Len(o) + Len(a) : (o \o a)[k] = IF k <= Len(o) THEN o[k] ELSE a[k - Len(o)]
        BY <1>5, <3>3, CatSeq, Zenon
      <4>2. \A k \in 1 .. Len(o) + (i - 1) : k > Len(o) => k - Len(o) \in 1 .. i - 1
        BY <3>2
      <4> QED
        BY <3>2, <3>3, <4>1, <4>2
    <3>6. /\ Len(t) = Len(o) + (i - 1) + (Len(p) - i)
          /\ \A k \in 1 .. Len(t) :
                t[k] = IF k <= Len(o) + (i - 1) THEN (o \o a)[k] ELSE b[k - (Len(o) + (i - 1))]
      <4>1. PICK oa : oa = o \o a
        BY Zenon
      <4>2. /\ Len(oa \o b) = Len(oa) + Len(b)
            /\ \A k \in 1 .. Len(oa) + Len(b) : (oa \o b)[k] = IF k <= Len(oa) THEN oa[k] ELSE b[k - Len(oa)]
        BY <3>4, <3>5, <4>1, CatSeq, Zenon
      <4> QED
        BY <3>1, <3>2, <3>4, <3>5, <4>1, <4>2, Zenon
    <3>7. Len(s) = Len(o) + Len(p) /\ \A k \in 1 .. Len(s) : s[k] = IF k <= Len(o) THEN o[k] ELSE p[k - Len(o)]
      BY <1>5
    <3>8. PICK e : e = [k \in 1 .. Len(t) |-> IF k <= Len(o) + (i - 1) THEN k ELSE k + 1]
      BY Zenon
    <3>9. ASSUME NEW k \in 1 .. Len(t) PROVE e[k] \in 1 .. Len(s) /\ t[k] = s[e[k]]
      <4>1. CASE k <= Len(o) + (i - 1)
        <5>1. e[k] = k /\ k \in 1 .. Len(s) /\ k \in 1 .. Len(o) + (i - 1)
          BY <3>2, <3>6, <3>7, <3>8, <4>1
        <5>2. t[k] = (o \o a)[k]
          BY <3>6, <4>1, Zenon
        <5>3. (o \o a)[k] = s[k]
          BY <3>5, <3>7, <5>1, Zenon
        <5> QED
          BY <5>1, <5>2, <5>3
      <4>2. CASE k > Len(o) + (i - 1)
        <5>1. PICK m : m = k - (Len(o) + (i - 1))
          OBVIOUS
        <5>2. m \in 1 .. Len(p) - i /\ t[k] = b[m]
          BY <3>2, <3>6, <4>2, <5>1
        <5>3. b[m] = p[m + i]
          BY <3>4, <5>2
        <5>4. e[k] = k + 1 /\ k + 1 \in 1 .. Len(s) /\ k + 1 > Len(o) /\ (k + 1) - Len(o) = m + i
          BY <3>2, <3>6, <3>7, <3>8, <4>2, <5>1
        <5>5. s[k + 1] = p[m + i]
          BY <3>2, <3>7, <5>4
        <5> QED
          BY <5>2, <5>3, <5>4, <5>5
      <4> QED
        BY <3>2, <3>6, <4>1, <4>2
    <3>10. \A k, m \in 1 .. Len(t) : k < m => e[k] < e[m]
      BY <3>2, <3>6, <3>8
    <3>11. InOrder(s, x.cut)
      BY <1>1, <1>4 DEF Numbered
    <3>12. InOrder(t, x.cut)
      BY <3>9, <3>10, <3>11, InOrderSub
    <3>13. y.out \o y.pages = t
      BY <1>4, <1>7, <3>1
    <3> QED
      BY <1>3, <3>12, <3>13 DEF Numbered
  <2> QED
    BY <1>2, <2>1, <2>2 DEF Sound
<1> QED
  BY <1>2, <1>3, <1>6, <1>7, Zenon DEF Drained, Keeps

LEMMA DictSound ==
    ASSUME NEW x, Sound(x), ~x.err, NEW y, y \in WriteDictionaryPage(x)
    PROVE  Keeps(x, y)
<1>1. Typed(x) /\ Slotted(x) /\ Numbered(x)
  BY DEF Sound
<1>2. Typed(y) /\ DictSent(x, y)
  BY <1>1, DictFields
<1>3. /\ y.dict = x.dict /\ y.memo = x.memo /\ y.refd = x.refd /\ y.preserved = x.preserved /\ y.pages = x.pages
      /\ y.cur = x.cur /\ y.cut = x.cut /\ y.rowsWritten = x.rowsWritten /\ y.rows = x.rows /\ y.closed = x.closed
  BY <1>2 DEF DictSent, Same, Fields
<1>4. Slotted(y)
  BY <1>1, <1>3, Zenon DEF Slotted
<1>5. Numbered(y)
  <2>1. CASE y.out = x.out
    BY <1>1, <1>3, <2>1 DEF Numbered
  <2>2. CASE y.out = Append(x.out, DictPageOf(x))
    <3>1. PICK o, g, d, s, t : o = x.out /\ g = x.pages /\ d = DictPageOf(x) /\ s = o \o g /\ t = Append(o, d) \o g
      BY Zenon
    <3>2. o \in Seq(Page) /\ g \in Seq(Page)
      BY <1>1, <3>1, PagesTyped
    <3>3. d \in Page /\ ~IsData(d)
      BY <1>1, <3>1 DEF DictPageOf, DictPage, Page, IsData, Typed
    <3>4. PICK a : a = Append(o, d)
      BY Zenon
    <3>5. a \in Seq(Page) /\ Len(a) = Len(o) + 1 /\ a[Len(o) + 1] = d /\ (\A k \in 1 .. Len(o) : a[k] = o[k]) /\ Len(o) \in Nat
      BY <3>2, <3>3, <3>4
    <3>6. Len(t) = Len(a) + Len(g) /\ \A k \in 1 .. Len(a) + Len(g) : t[k] = IF k <= Len(a) THEN a[k] ELSE g[k - Len(a)]
      <4>1. t = a \o g
        BY <3>1, <3>4
      <4> QED
        BY <3>2, <3>5, <4>1, CatSeq, Zenon
    <3>7. Len(s) = Len(o) + Len(g) /\ \A k \in 1 .. Len(o) + Len(g) : s[k] = IF k <= Len(o) THEN o[k] ELSE g[k - Len(o)]
      BY <3>1, <3>2, CatSeq, Zenon
    <3>8. PICK e : e = [k \in 1 .. Len(t) |-> IF k <= Len(o) THEN k ELSE k - 1]
      BY Zenon
    <3>9. Len(g) \in Nat
      BY <3>2
    <3>10. ASSUME NEW k \in 1 .. Len(t), IsData(t[k]) PROVE e[k] \in 1 .. Len(s) /\ t[k] = s[e[k]]
      <4>1. CASE k <= Len(o)
        BY <3>5, <3>6, <3>7, <3>8, <3>9, <4>1
      <4>2. CASE k = Len(o) + 1
        BY <3>3, <3>5, <3>6, <3>9, <3>10, <4>2
      <4>3. CASE k > Len(o) + 1
        <5>1. e[k] = k - 1 /\ k - 1 \in 1 .. Len(o) + Len(g) /\ k - 1 > Len(o) /\ (k - 1) - Len(o) = k - Len(a)
          BY <3>5, <3>6, <3>8, <3>9, <4>3
        <5>2. t[k] = g[k - Len(a)]
          BY <3>5, <3>6, <4>3
        <5>3. s[k - 1] = g[(k - 1) - Len(o)]
          BY <3>5, <3>7, <5>1
        <5> QED
          BY <3>7, <5>1, <5>2, <5>3
      <4> QED
        BY <3>5, <3>6, <3>9, <4>1, <4>2, <4>3
    <3>11. ASSUME NEW k \in 1 .. Len(t), NEW m \in 1 .. Len(t), k < m, IsData(t[k]), IsData(t[m])
           PROVE  e[k] < e[m]
      <4>1. k # Len(o) + 1
        BY <3>3, <3>5, <3>6, <3>9, <3>11
      <4>2. m # Len(o) + 1
        BY <3>3, <3>5, <3>6, <3>9, <3>11
      <4> QED
        BY <3>5, <3>6, <3>8, <3>9, <3>11, <4>1, <4>2
    <3>12. InOrder(s, x.cut)
      BY <1>1, <3>1 DEF Numbered
    <3>13. InOrder(t, x.cut)
      BY <3>10, <3>11, <3>12, InOrderSub
    <3> QED
      BY <1>3, <2>2, <3>1, <3>13 DEF Numbered
  <2> QED
    BY <1>2, <2>1, <2>2 DEF DictSent
<1> QED
  BY <1>2, <1>3, <1>4, <1>5 DEF Sound, Keeps

LEMMA PopulateSound ==
    ASSUME NEW x, Sound(x), NEW y, y = PopulateBloom(x)
    PROVE  Keeps(x, y) /\ y.err = x.err
<1>1. Typed(x) /\ Slotted(x) /\ Numbered(x)
  BY DEF Sound
<1>2. Typed(y) /\ Populated(x, y)
  BY <1>1, PopulateFields
<1>3. /\ y.dict = x.dict /\ y.memo = x.memo /\ y.refd = x.refd /\ y.preserved = x.preserved /\ y.pages = x.pages /\ y.out = x.out
      /\ y.cur = x.cur /\ y.cut = x.cut /\ y.rowsWritten = x.rowsWritten /\ y.rows = x.rows /\ y.closed = x.closed /\ y.err = x.err
  BY <1>2 DEF Populated, Same, Fields
<1> QED
  BY <1>1, <1>2, <1>3, Zenon DEF Slotted, Numbered, Sound, Keeps

LEMMA PlainSound ==
    ASSUME NEW x, Sound(x), x.dict, x.pages = <<>>, NEW y, y \in UsePlain(x)
    PROVE  Keeps(x, y)
<1>1. Typed(x) /\ Slotted(x) /\ Numbered(x)
  BY DEF Sound
<1>2. Typed(y) /\ Plain(x, y)
  BY <1>1, PlainFields
<1>3. /\ y.dict = FALSE /\ y.memo = <<>> /\ y.refd = {} /\ y.preserved = Null /\ y.pages = x.pages /\ y.out = x.out
      /\ y.cur = Reencoded(x) /\ y.cut = x.cut /\ y.rowsWritten = x.rowsWritten /\ y.rows = x.rows /\ y.closed = x.closed
  BY <1>2 DEF Plain, Same, Fields
<1>4. \A i \in DOMAIN y.cur : y.cur[i].slot \in Vals \cup {Null}
  <2>1. Len(y.cur) = Len(x.cur) /\ DOMAIN y.cur = 1 .. Len(y.cur)
    <3>1. Len(y.cur) = Len(x.cur)
      BY <1>1, <1>3, ReencodedTyped
    <3>2. y.cur \in Seq(Slot)
      BY <1>2 DEF Typed
    <3> QED
      BY <3>1, <3>2
  <2>2. \A i \in 1 .. Len(x.cur) : y.cur[i].slot \in Vals \cup {Null}
    BY <1>1, <1>3, ReencodedTyped
  <2> QED
    BY <2>1, <2>2
<1>5. Slotted(y)
  BY <1>3, <1>4 DEF Slotted
<1>6. Numbered(y)
  BY <1>1, <1>3 DEF Numbered
<1> QED
  BY <1>2, <1>3, <1>5, <1>6 DEF Sound, Keeps

\* A batch put into the encoder: the rows it begins are added.
LEMMA WroteSound ==
    ASSUME NEW x, Sound(x), NEW lv \in Seq(Level), NEW y, Typed(y), Wrote(x, y, lv)
    PROVE  Sound(y) /\ y.closed = x.closed /\ y.rowsWritten + y.rows = x.rowsWritten + x.rows + Rows(lv)
<1>1. Typed(x) /\ Slotted(x) /\ Numbered(x)
  BY DEF Sound
<1>2. /\ y.dict = x.dict /\ y.preserved = x.preserved /\ y.pages = x.pages /\ y.out = x.out /\ y.cut = x.cut
      /\ y.rowsWritten = x.rowsWritten /\ y.closed = x.closed /\ y.rows = x.rows + Rows(lv)
  BY Zenon DEF Wrote, Same, Fields
<1>3. PICK new : new = Slots(x, y.memo, lv)
  OBVIOUS
<1>4. Stands(new, x.dict, y.memo, lv)
  <2>1. y.memo \in Seq(Vals)
    BY DEF Typed
  <2>2. x.dict => Present(lv) \subseteq Range(y.memo)
    BY Zenon DEF Wrote
  <2> QED
    BY <1>1, <1>3, <2>1, <2>2, SlotsRead
<1>5. y.cur = x.cur \o new /\ y.refd = IF x.dict THEN x.refd \cup Refs(new) ELSE x.refd
  BY <1>3, Zenon DEF Wrote
<1>6. DOMAIN x.memo \subseteq DOMAIN y.memo /\ Range(x.memo) \subseteq Range(y.memo)
  <2>1. CASE x.dict
    <3>1. Extends(x.memo, y.memo)
      BY <2>1, Zenon DEF Wrote
    <3>2. x.memo \in Seq(Vals) /\ y.memo \in Seq(Vals)
      BY <1>1, Zenon DEF Typed
    <3>3. DOMAIN x.memo = 1 .. Len(x.memo) /\ DOMAIN y.memo = 1 .. Len(y.memo) /\ Len(x.memo) \in Nat /\ Len(y.memo) \in Nat
      BY <3>2
    <3> QED
      BY <3>1, <3>3 DEF Extends, Range
  <2>2. CASE ~x.dict
    BY <1>1, <2>2, Zenon DEF Slotted, Wrote
  <2> QED
    BY <2>1, <2>2
<1>7. ~y.dict => y.memo = <<>>
  BY <1>2, Zenon DEF Wrote
<1>8. y.refd \subseteq DOMAIN y.memo
  <2>1. x.dict => Refs(new) \subseteq DOMAIN y.memo
    <3>1. DOMAIN new = 1 .. Len(lv)
      BY <1>4 DEF Stands
    <3> QED
      BY <1>4, <3>1, Zenon DEF Stands, Refs
  <2>2. x.refd \subseteq DOMAIN y.memo
    BY <1>1, <1>6 DEF Slotted
  <2> QED
    BY <1>5, <2>1, <2>2
<1>9. ASSUME NEW i \in DOMAIN y.cur PROVE y.cur[i].slot \in (IF y.dict THEN DOMAIN y.memo ELSE Vals) \cup {Null}
  <2>1. x.cur \in Seq(Slot) /\ new \in Seq(Slot) /\ Len(new) = Len(lv)
    BY <1>1, <1>4, Zenon DEF Typed, Stands
  <2>2. /\ Len(y.cur) = Len(x.cur) + Len(new)
        /\ \A k \in 1 .. Len(x.cur) + Len(new) : y.cur[k] = IF k <= Len(x.cur) THEN x.cur[k] ELSE new[k - Len(x.cur)]
    <3>1. \A a, b \in Seq(Slot) :
             /\ Len(a \o b) = Len(a) + Len(b)
             /\ \A k \in 1 .. Len(a) + Len(b) : (a \o b)[k] = IF k <= Len(a) THEN a[k] ELSE b[k - Len(a)]
      BY CatSeq
    <3>2. PICK c, z : c = x.cur /\ z = y.cur
      OBVIOUS
    <3>3. c \in Seq(Slot) /\ z = c \o new
      BY <1>5, <2>1, <3>2
    <3>4. /\ Len(c \o new) = Len(c) + Len(new)
          /\ \A k \in 1 .. Len(c) + Len(new) : (c \o new)[k] = IF k <= Len(c) THEN c[k] ELSE new[k - Len(c)]
      BY <2>1, <3>1, <3>3, Zenon
    <3> QED
      BY <3>2, <3>3, <3>4, SMTT(30)
  <2>3. i \in 1 .. Len(x.cur) + Len(new) /\ Len(x.cur) \in Nat /\ Len(new) \in Nat
    <3>1. DOMAIN y.cur = 1 .. Len(y.cur)
      BY DEF Typed
    <3> QED
      BY <2>1, <2>2, <3>1
  <2>4. CASE i <= Len(x.cur)
    <3>1. i \in DOMAIN x.cur /\ y.cur[i] = x.cur[i]
      BY <2>1, <2>2, <2>3, <2>4
    <3>2. x.cur[i].slot \in (IF x.dict THEN DOMAIN x.memo ELSE Vals) \cup {Null}
      BY <1>1, <3>1 DEF Slotted
    <3> QED
      BY <1>2, <1>6, <3>1, <3>2
  <2>5. CASE i > Len(x.cur)
    <3>1. PICK k : k = i - Len(x.cur)
      OBVIOUS
    <3>2. k \in 1 .. Len(lv) /\ y.cur[i] = new[k]
      BY <2>1, <2>2, <2>3, <2>5, <3>1, SMTT(30)
    <3>3. new[k].slot \in (IF x.dict THEN DOMAIN y.memo ELSE Vals) \cup {Null}
      BY <1>4, <3>2 DEF Stands
    <3> QED
      BY <1>2, <3>2, <3>3
  <2> QED
    BY <2>3, <2>4, <2>5
<1>10. Slotted(y)
  BY <1>1, <1>2, <1>6, <1>7, <1>8, <1>9, Zenon DEF Slotted
<1>11. Numbered(y)
  BY <1>1, <1>2 DEF Numbered
<1>12. y.rowsWritten + y.rows = x.rowsWritten + x.rows + Rows(lv)
  <2>1. Rows(lv) \in Nat
    BY RowsNat
  <2> QED
    BY <1>1, <1>2, <2>1, SMTT(30) DEF Typed
<1> QED
  BY <1>2, <1>10, <1>11, <1>12 DEF Sound

LEMMA KeepsTrans ==
    ASSUME NEW x, NEW y, NEW z, Keeps(x, y), Keeps(y, z)
    PROVE  Keeps(x, z)
BY DEF Keeps

LEMMA KeepsSelf ==
    ASSUME NEW x, Sound(x)
    PROVE  Keeps(x, x)
BY DEF Keeps

\* The steps of FallbackToPlain with an active dictionary.
LEMMA FallbackSteps ==
    ASSUME NEW x, Sound(x), ~x.err, x.dict, NEW y, y \in FallbackToPlain(x)
    PROVE  \/ x.pages = <<>> /\ y \in UsePlain(PopulateBloom(x))
           \/ /\ x.pages # <<>>
              /\ \E u \in WriteDictionaryPage(x) :
                    IF u.err THEN y = u
                    ELSE \E z \in DrainBufferedDataPages(u) : IF z.err THEN y = z ELSE y \in UsePlain(z)
<1>1. CASE x.pages = <<>>
  <2>1. ~PopulateBloom(x).err
    BY PopulateSound
  <2>2. y \in Then({PopulateBloom(x)}, UsePlain)
    BY <1>1 DEF FallbackToPlain
  <2> QED
    BY <1>1, <2>1, <2>2 DEF Then
<1>2. CASE x.pages # <<>>
  <2>1. y \in Then(Then(WriteDictionaryPage(x), DrainBufferedDataPages), UsePlain)
    BY <1>2 DEF FallbackToPlain
  <2>2. PICK z : z \in Then(WriteDictionaryPage(x), DrainBufferedDataPages) /\ IF z.err THEN y = z ELSE y \in UsePlain(z)
    BY <2>1 DEF Then
  <2>3. PICK u : u \in WriteDictionaryPage(x) /\ IF u.err THEN z = u ELSE z \in DrainBufferedDataPages(u)
    BY <2>2 DEF Then
  <2> QED
    BY <1>2, <2>2, <2>3
<1> QED
  BY <1>1, <1>2

\* After the pages are drained without a failure none is left.
LEMMA DrainEmpties ==
    ASSUME NEW x, Typed(x), NEW y, y \in DrainBufferedDataPages(x), ~y.err
    PROVE  /\ Typed(y) /\ Same(x, y, {"pages", "out"})
           /\ y.out = x.out \o x.pages /\ y.pages = <<>>
<1>1. Typed(y) /\ Drained(x, y)
  BY DrainFields
<1>2. y.out = x.out \o x.pages /\ y.pages = <<>> /\ y.err = x.err
  BY <1>1, Zenon DEF Drained
<1> QED
  BY <1>1, <1>2 DEF Drained, Same

LEMMA FallbackSound ==
    ASSUME NEW x, Sound(x), ~x.err, NEW y, y \in FallbackToPlain(x)
    PROVE  Keeps(x, y) /\ (~y.err => ~y.dict)
<1>1. CASE ~x.dict
  BY <1>1, KeepsSelf DEF FallbackToPlain
<1>2. CASE x.dict /\ x.pages = <<>>
  <2>1. PICK p : p = PopulateBloom(x)
    OBVIOUS
  <2>2. Keeps(x, p) /\ Typed(x) /\ Slotted(x)
    BY <2>1, PopulateSound DEF Sound
  <2>3. Sound(p) /\ Typed(p) /\ Slotted(p)
    BY <2>2 DEF Keeps, Sound
  <2>4. p.dict /\ p.pages = <<>>
    <3>1. Populated(x, p)
      BY <2>1, <2>2, PopulateFields
    <3>2. p.dict = x.dict /\ p.pages = x.pages
      BY <3>1 DEF Populated, Same, Fields
    <3> QED
      BY <1>2, <3>2
  <2>5. y \in UsePlain(p)
    BY <1>2, <2>1, FallbackSteps
  <2>6. Keeps(p, y) /\ ~y.dict
    BY <2>3, <2>4, <2>5, PlainSound, PlainFields, Zenon DEF Plain
  <2> QED
    BY <2>2, <2>6, KeepsTrans
<1>3. CASE x.dict /\ x.pages # <<>>
  <2>1. PICK u : u \in WriteDictionaryPage(x)
             /\ IF u.err THEN y = u
                ELSE \E z \in DrainBufferedDataPages(u) : IF z.err THEN y = z ELSE y \in UsePlain(z)
    BY <1>3, FallbackSteps
  <2>2. Keeps(x, u) /\ Typed(x) /\ Slotted(x)
    BY <2>1, DictSound DEF Sound
  <2>3. Sound(u) /\ Typed(u) /\ u.dict
    <3>1. DictSent(x, u)
      BY <2>1, <2>2, DictFields
    <3>2. u.dict = x.dict
      BY <3>1 DEF DictSent, Same, Fields
    <3> QED
      BY <1>3, <2>2, <3>2 DEF Keeps, Sound
  <2>4. CASE u.err
    BY <2>1, <2>2, <2>4
  <2>5. CASE ~u.err
    <3>1. PICK z : z \in DrainBufferedDataPages(u) /\ IF z.err THEN y = z ELSE y \in UsePlain(z)
      BY <2>1, <2>5
    <3>2. Keeps(u, z)
      BY <2>3, <3>1, DrainSound
    <3>3. Keeps(x, z)
      BY <2>2, <3>2, KeepsTrans
    <3>4. CASE z.err
      BY <3>1, <3>3, <3>4
    <3>5. CASE ~z.err
      <4>1. Typed(z) /\ Same(u, z, {"pages", "out"}) /\ z.pages = <<>>
        BY <2>3, <3>1, <3>5, DrainEmpties, Zenon
      <4>2. z.dict
        BY <2>3, <4>1 DEF Same, Fields
      <4>3. Sound(z) /\ Slotted(z) /\ y \in UsePlain(z)
        BY <3>1, <3>2, <3>5 DEF Keeps, Sound
      <4>4. Keeps(z, y) /\ ~y.dict
        BY <4>1, <4>2, <4>3, PlainSound, PlainFields, Zenon DEF Plain
      <4> QED
        BY <3>3, <4>4, KeepsTrans
    <3> QED
      BY <3>4, <3>5
  <2> QED
    BY <2>4, <2>5
<1> QED
  BY <1>1, <1>2, <1>3

LEMMA CommitSound ==
    ASSUME NEW x, Sound(x), NEW y, y \in CommitWriteAndCheckPageLimit(x)
    PROVE  Keeps(x, y) /\ y.dict = x.dict /\ y.memo = x.memo
<1>1. CASE y = x
  BY <1>1, KeepsSelf
<1>2. CASE y \in FlushCurrentPage(x)
  <2>1. Typed(x)
    BY DEF Sound
  <2>2. y.dict = x.dict /\ y.memo = x.memo
    <3>1. Flushed(x, y)
      BY <1>2, <2>1, FlushFields
    <3> QED
      BY <3>1 DEF Flushed, Same, Fields
  <2> QED
    BY <1>2, <2>2, FlushSound
<1> QED
  BY <1>1, <1>2 DEF CommitWriteAndCheckPageLimit

LEMMA CheckSound ==
    ASSUME NEW x, Sound(x), ~x.err, NEW y, y \in CheckDictionarySizeLimit(x)
    PROVE  Keeps(x, y)
<1>1. y = x \/ y \in FallbackToPlain(x)
  BY DEF CheckDictionarySizeLimit
<1> QED
  BY <1>1, KeepsSelf, FallbackSound

\* The steps of WriteOne.
LEMMA OneSteps ==
    ASSUME NEW x, NEW op, NEW lv, NEW y, y \in WriteOne(x, op, lv)
    PROVE  IF op = "values"
           THEN \E u \in CommitWriteAndCheckPageLimit(WriteValues(x, lv)) :
                    IF u.err THEN y = u ELSE y \in CheckDictionarySizeLimit(u)
           ELSE y \in CommitWriteAndCheckPageLimit(WriteIndices(x, lv))
BY DEF WriteOne, Then

LEMMA OneSound ==
    ASSUME NEW x, Sound(x), ~x.err, NEW op \in {"values", "indices"}, NEW lv \in Seq(Level),
           op = "indices" => x.dict /\ Present(lv) \subseteq Range(x.memo),
           NEW y, y \in WriteOne(x, op, lv)
    PROVE  /\ Sound(y) /\ y.closed = x.closed /\ y.rowsWritten + y.rows = x.rowsWritten + x.rows + Rows(lv)
           /\ op = "indices" => y.dict = x.dict /\ y.memo = x.memo
<1>1. Typed(x)
  BY DEF Sound
<1>2. CASE op = "values"
  <2>1. PICK v : v = WriteValues(x, lv)
    OBVIOUS
  <2>2. Typed(v) /\ Wrote(x, v, lv)
    BY <1>1, <2>1, ValuesFields
  <2>3. Sound(v) /\ v.closed = x.closed /\ v.rowsWritten + v.rows = x.rowsWritten + x.rows + Rows(lv)
    BY <2>2, WroteSound
  <2>4. PICK u : u \in CommitWriteAndCheckPageLimit(v) /\ IF u.err THEN y = u ELSE y \in CheckDictionarySizeLimit(u)
    BY <1>2, <2>1, OneSteps
  <2>5. Keeps(v, u)
    BY <2>3, <2>4, CommitSound
  <2>6. Keeps(v, y)
    <3>1. CASE u.err
      BY <2>4, <2>5, <3>1
    <3>2. CASE ~u.err
      <4>1. Sound(u) /\ y \in CheckDictionarySizeLimit(u)
        BY <2>4, <2>5, <3>2 DEF Keeps
      <4>2. Keeps(u, y)
        BY <3>2, <4>1, CheckSound
      <4> QED
        BY <2>5, <4>2, KeepsTrans
    <3> QED
      BY <3>1, <3>2
  <2> QED
    BY <1>2, <2>3, <2>6 DEF Keeps
<1>3. CASE op = "indices"
  <2>1. PICK v : v = WriteIndices(x, lv)
    OBVIOUS
  <2>2. Typed(v) /\ Wrote(x, v, lv) /\ v.memo = x.memo
    BY <1>1, <1>3, <2>1, IndicesFields
  <2>3. Sound(v) /\ v.closed = x.closed /\ v.rowsWritten + v.rows = x.rowsWritten + x.rows + Rows(lv)
    BY <2>2, WroteSound
  <2>4. y \in CommitWriteAndCheckPageLimit(v)
    BY <1>3, <2>1, OneSteps
  <2>5. Keeps(v, y) /\ y.dict = v.dict /\ y.memo = v.memo
    BY <2>3, <2>4, CommitSound
  <2>6. v.dict = x.dict
    BY <2>2, Zenon DEF Wrote, Same, Fields
  <2> QED
    BY <2>2, <2>3, <2>5, <2>6 DEF Keeps
<1> QED
  BY <1>2, <1>3

\* How CloseWriter ends in y: from v with the pages to drain, from u with the current page to flush, from c.
EndsFrom(v, y) ==
    IF v.err THEN y = v
    ELSE \E z \in DrainBufferedDataPages(v) : IF z.err THEN y = z ELSE y = z \/ y = Failed(z)

FlushesTo(u, y) ==
    IF u.err THEN y = u
    ELSE \E v : (IF u.cur = <<>> THEN v = u ELSE v \in FlushCurrentPage(u)) /\ EndsFrom(v, y)

ClosesTo(c, y) ==
    \E u : (IF c.dict THEN u \in WriteDictionaryPage(c) ELSE u = c) /\ FlushesTo(u, y)

LEMMA CloseSteps ==
    ASSUME NEW x, NEW y, y \in CloseWriter(x), NEW c, c = [x EXCEPT !.closed = TRUE]
    PROVE  ClosesTo(c, y)
<1> DEFINE dict(q) == IF q.dict THEN WriteDictionaryPage(q) ELSE {q}
           flush(q) == IF q.cur = <<>> THEN {q} ELSE FlushCurrentPage(q)
           finish(q) == {q, Failed(q)}
<1>1. y \in Then(Then(Then(dict(c), flush), DrainBufferedDataPages), finish)
  BY Zenon DEF CloseWriter
<1>2. PICK z : /\ z \in Then(Then(dict(c), flush), DrainBufferedDataPages)
               /\ IF z.err THEN y = z ELSE y = z \/ y = Failed(z)
  BY <1>1, Zenon DEF Then
<1>3. PICK v : /\ v \in Then(dict(c), flush)
               /\ IF v.err THEN z = v ELSE z \in DrainBufferedDataPages(v)
  BY <1>2, Zenon DEF Then
<1>4. PICK u : /\ u \in dict(c)
               /\ IF u.err THEN v = u ELSE v \in flush(u)
  BY <1>3, Zenon DEF Then
<1>5. EndsFrom(v, y)
  BY <1>2, <1>3, Zenon DEF EndsFrom
<1>6. FlushesTo(u, y)
  BY <1>4, <1>5 DEF FlushesTo, EndsFrom
<1> QED
  BY <1>4, <1>6 DEF ClosesTo

LEMMA CloseFields ==
    ASSUME NEW x, Typed(x), NEW c, c = [x EXCEPT !.closed = TRUE]
    PROVE  Typed(c) /\ Same(x, c, {"closed"}) /\ c.closed = TRUE
BY DEF Typed, Same, Fields

LEMMA FailedFields ==
    ASSUME NEW x, Typed(x)
    PROVE  Typed(Failed(x)) /\ Same(x, Failed(x), {"err"}) /\ Failed(x).err = TRUE
BY DEF Typed, Same, Fields, Failed

\* Two writers that differ only in the fields closed and err are equally sound.
LEMMA SameSound ==
    ASSUME NEW x, Sound(x), NEW y, Typed(y), Same(x, y, {"closed", "err"})
    PROVE  Sound(y) /\ y.rowsWritten + y.rows = x.rowsWritten + x.rows
<1>1. /\ y.dict = x.dict /\ y.memo = x.memo /\ y.refd = x.refd /\ y.preserved = x.preserved /\ y.pages = x.pages /\ y.out = x.out
      /\ y.cur = x.cur /\ y.cut = x.cut /\ y.rowsWritten = x.rowsWritten /\ y.rows = x.rows
  BY DEF Same, Fields
<1> QED
  BY <1>1, Zenon DEF Sound, Slotted, Numbered

LEMMA CloseSound ==
    ASSUME NEW x, Sound(x), ~x.err, NEW y, y \in CloseWriter(x)
    PROVE  Sound(y) /\ y.closed = TRUE /\ y.rowsWritten + y.rows = x.rowsWritten + x.rows
<1>1. PICK c : c = [x EXCEPT !.closed = TRUE]
  BY Zenon
<1>2. Typed(x) /\ Typed(c) /\ Same(x, c, {"closed"}) /\ c.closed = TRUE
  BY <1>1, CloseFields, Zenon DEF Sound
<1>3. Sound(c) /\ c.rowsWritten + c.rows = x.rowsWritten + x.rows
  <2>1. Same(x, c, {"closed", "err"})
    BY <1>2 DEF Same
  <2> QED
    BY <1>2, <2>1, SameSound
<1>4. ~c.err
  BY <1>2 DEF Same, Fields
<1> SUFFICES Keeps(c, y)
  BY <1>2, <1>3 DEF Keeps
<1>5. PICK u : (IF c.dict THEN u \in WriteDictionaryPage(c) ELSE u = c) /\ FlushesTo(u, y)
  <2>1. ClosesTo(c, y)
    BY <1>1, CloseSteps
  <2> QED
    BY <2>1 DEF ClosesTo
<1>6. Keeps(c, u)
  BY <1>3, <1>4, <1>5, DictSound, KeepsSelf
<1>7. CASE u.err
  BY <1>5, <1>6, <1>7 DEF FlushesTo
<1>8. CASE ~u.err
  <2>1. PICK v : (IF u.cur = <<>> THEN v = u ELSE v \in FlushCurrentPage(u)) /\ EndsFrom(v, y)
    BY <1>5, <1>8 DEF FlushesTo
  <2>2. Sound(u)
    BY <1>6 DEF Keeps
  <2>3. Keeps(u, v)
    BY <2>1, <2>2, FlushSound, KeepsSelf
  <2>4. Keeps(c, v) /\ Sound(v)
    BY <1>6, <2>3, KeepsTrans DEF Keeps
  <2>5. CASE v.err
    BY <2>1, <2>4, <2>5 DEF EndsFrom
  <2>6. CASE ~v.err
    <3>1. PICK z \in DrainBufferedDataPages(v) : IF z.err THEN y = z ELSE y = z \/ y = Failed(z)
      BY <2>1, <2>6 DEF EndsFrom
    <3>2. Keeps(v, z)
      BY <2>4, <3>1, DrainSound
    <3>3. Keeps(c, z) /\ Sound(z) /\ Typed(z)
      BY <2>4, <3>2, KeepsTrans, Zenon DEF Keeps, Sound
    <3>4. CASE y = z
      BY <3>3, <3>4
    <3>5. CASE y = Failed(z)
      <4>1. Typed(y) /\ Same(z, y, {"err"})
        BY <3>3, <3>5, FailedFields, Zenon
      <4>2. Same(z, y, {"closed", "err"}) /\ y.closed = z.closed
        BY <4>1 DEF Same, Fields
      <4>3. Sound(y) /\ y.rowsWritten + y.rows = z.rowsWritten + z.rows
        BY <3>3, <4>1, <4>2, SameSound
      <4> QED
        BY <3>3, <4>2, <4>3 DEF Keeps
    <3> QED
      BY <3>1, <3>4, <3>5
  <2> QED
    BY <2>5, <2>6
<1> QED
  BY <1>7, <1>8

-----------------------------------------------------------------------------
(* What a page added to the pages K does.                                    *)

LEMMA AppendElems ==
    ASSUME NEW S, NEW K \in Seq(S), NEW p \in S, NEW L, L = Append(K, p)
    PROVE  /\ L \in Seq(S) /\ Len(L) = Len(K) + 1 /\ Len(K) \in Nat /\ L[Len(K) + 1] = p
           /\ \A i \in 1 .. Len(K) : L[i] = K[i]
OBVIOUS

LEMMA MixedAppend ==
    ASSUME NEW K \in Seq(DataPage), NEW p \in DataPage, NEW dict, NEW dw, Mixed(K, dict, dw), p.dict <=> dict,
           NEW L, L = Append(K, p)
    PROVE  Mixed(L, dict, dw)
<1>1. Len(L) = Len(K) + 1 /\ Len(K) \in Nat /\ L[Len(K) + 1] = p /\ \A i \in 1 .. Len(K) : L[i] = K[i]
  BY AppendElems
<1>2. \A i \in 1 .. Len(L) : i \in 1 .. Len(K) \/ i = Len(K) + 1
  BY <1>1
<1>3. dict => \A i \in 1 .. Len(L) : L[i].dict
  BY <1>1, <1>2 DEF Mixed
<1>4. ~dict /\ ~dw => \A i \in 1 .. Len(L) : ~L[i].dict
  BY <1>1, <1>2 DEF Mixed
<1>5. ASSUME NEW i \in 1 .. Len(L), NEW j \in 1 .. Len(L), i < j, L[j].dict PROVE L[i].dict
  <2>1. i \in 1 .. Len(K) /\ L[i] = K[i]
    BY <1>1, <1>5
  <2>2. CASE j \in 1 .. Len(K)
    <3>1. L[j] = K[j]
      BY <1>1, <2>2
    <3> QED
      BY <1>5, <2>1, <2>2, <3>1 DEF Mixed
  <2>3. CASE j = Len(K) + 1
    BY <1>1, <1>3, <1>5, <2>3
  <2> QED
    BY <1>2, <2>2, <2>3
<1> QED
  BY <1>3, <1>4, <1>5 DEF Mixed

LEMMA RowedAppend ==
    ASSUME NEW K \in Seq(DataPage), NEW p \in DataPage, NEW n, Rowed(K, n), p.first = n,
           NEW L, L = Append(K, p)
    PROVE  Rowed(L, n + Rows(p.levels))
<1>1. Len(L) = Len(K) + 1 /\ Len(K) \in Nat /\ L[Len(K) + 1] = p /\ \A i \in 1 .. Len(K) : L[i] = K[i]
  BY AppendElems
<1>2. L # <<>> /\ L[Len(L)] = p
  BY <1>1
<1>3. ASSUME NEW i \in 1 .. Len(L)
      PROVE  L[i].first = IF i = 1 THEN 0 ELSE L[i - 1].first + Rows(L[i - 1].levels)
  <2>1. CASE i \in 1 .. Len(K)
    <3>1. L[i] = K[i] /\ (i # 1 => i - 1 \in 1 .. Len(K) /\ L[i - 1] = K[i - 1])
      BY <1>1, <2>1
    <3> QED
      BY <2>1, <3>1 DEF Rowed
  <2>2. CASE i = Len(K) + 1 /\ K = <<>>
    BY <1>1, <2>2 DEF Rowed
  <2>3. CASE i = Len(K) + 1 /\ K # <<>>
    <3>1. Len(K) \in 1 .. Len(K) /\ i - 1 = Len(K) /\ i # 1
      BY <1>1, <2>3
    <3>2. n = K[Len(K)].first + Rows(K[Len(K)].levels)
      BY <2>3 DEF Rowed
    <3>3. L[Len(K)] = K[Len(K)]
      BY <1>1, <3>1
    <3> QED
      BY <1>1, <2>3, <3>1, <3>2, <3>3
  <2> QED
    BY <1>1, <2>1, <2>2, <2>3
<1> QED
  BY <1>2, <1>3 DEF Rowed

LEMMA BegunAppend ==
    ASSUME NEW K \in Seq(DataPage), NEW p \in DataPage, Begun(K, p.levels), p.levels # <<>>,
           NEW L, L = Append(K, p)
    PROVE  Begun(L, <<>>)
<1>1. Len(L) = Len(K) + 1 /\ Len(K) \in Nat /\ L[Len(K) + 1] = p /\ \A i \in 1 .. Len(K) : L[i] = K[i]
  BY AppendElems
<1>2. \A i \in 1 .. Len(L) : i \in 1 .. Len(K) \/ i = Len(K) + 1
  BY <1>1
<1> QED
  BY <1>1, <1>2 DEF Begun

LEMMA ReadsEither ==
    ASSUME NEW s, NEW dict, NEW D, NEW E, NEW l, Reads(s, dict, D, l), dict => D = E
    PROVE  Reads(s, dict, E, l)
BY DEF Reads

LEMMA ContainedAppend ==
    ASSUME NEW K \in Seq(DataPage), NEW p \in DataPage, NEW D, NEW memo, NEW wr \in Seq(Level),
           Contained(K, D, p.levels, p.dict, memo, wr), p.dict => memo = D,
           NEW L, L = Append(K, p), NEW dict, NEW m
    PROVE  Contained(L, D, <<>>, dict, m, wr)
<1>1. Len(L) = Len(K) + 1 /\ Len(K) \in Nat /\ L[Len(K) + 1] = p /\ \A i \in 1 .. Len(K) : L[i] = K[i]
  BY AppendElems
<1>2. PICK c : Parts(K, D, wr, c) /\ Rest(p.levels, p.dict, memo, wr, c[Len(K)])
  BY DEF Contained
<1>3. PICK e : e = [n \in 0 .. Len(L) |-> IF n <= Len(K) THEN c[n] ELSE Len(wr)]
  BY Zenon
<1>4. c \in [0 .. Len(K) -> 0 .. Len(wr)] /\ c[0] = 0 /\ Len(wr) \in Nat
  BY <1>2 DEF Parts
<1>5. e \in [0 .. Len(L) -> 0 .. Len(wr)] /\ e[0] = 0 /\ e[Len(L)] = Len(wr) /\ \A n \in 0 .. Len(K) : e[n] = c[n]
  BY <1>1, <1>3, <1>4
<1>6. ASSUME NEW n \in 1 .. Len(L)
      PROVE  /\ e[n] = e[n - 1] + Len(L[n].levels)
             /\ \A k \in 1 .. Len(L[n].levels) : Reads(L[n].levels[k], L[n].dict, D, wr[e[n - 1] + k])
  <2>1. CASE n \in 1 .. Len(K)
    <3> n \in 0 .. Len(K) /\ n - 1 \in 0 .. Len(K)
      BY <1>1, <2>1
    <3>1. L[n] = K[n] /\ e[n] = c[n] /\ e[n - 1] = c[n - 1]
      BY <1>1, <1>5, <2>1, Zenon
    <3>2. /\ c[n] = c[n - 1] + Len(K[n].levels)
          /\ \A k \in 1 .. Len(K[n].levels) : Reads(K[n].levels[k], K[n].dict, D, wr[c[n - 1] + k])
      BY <1>2, <2>1, Zenon DEF Parts
    <3> QED
      BY <3>1, <3>2, Zenon
  <2>2. CASE n = Len(K) + 1
    <3>1. L[n] = p /\ e[n] = Len(wr) /\ e[n - 1] = c[Len(K)]
      BY <1>1, <1>5, <2>2
    <3>2. /\ Len(wr) = c[Len(K)] + Len(p.levels)
          /\ \A k \in 1 .. Len(p.levels) : Reads(p.levels[k], p.dict, memo, wr[c[Len(K)] + k])
      BY <1>2 DEF Rest
    <3>3. \A k \in 1 .. Len(p.levels) : Reads(p.levels[k], p.dict, D, wr[c[Len(K)] + k])
      BY <3>2, ReadsEither
    <3> QED
      BY <3>1, <3>2, <3>3, Zenon
  <2>3. n \in 1 .. Len(K) \/ n = Len(K) + 1
    BY <1>1
  <2> QED
    BY <2>1, <2>2, <2>3, Zenon
<1>7. Parts(L, D, wr, e)
  BY <1>5, <1>6 DEF Parts
<1>8. Rest(<<>>, dict, m, wr, e[Len(L)])
  BY <1>4, <1>5 DEF Rest
<1> QED
  BY <1>5, <1>7, <1>8 DEF Contained

-----------------------------------------------------------------------------
(* The pages a writer keeps.                                                 *)

LEMMA LeadTyped ==
    ASSUME NEW x, Typed(x), Fronted(x)
    PROVE  Lead(x) \in Seq(DataPage) /\ Kept(x) \in Seq(DataPage) /\ x.pages \in Seq(DataPage)
<1>1. x.out \in Seq(Page) /\ x.pages \in Seq(DataPage) /\ x.dictWritten \in BOOLEAN
  BY PagesTyped DEF Typed
<1>2. PICK s : s = x.out
  OBVIOUS
<1>3. \A i \in 1 .. Len(s) : s[i] \in Page /\ (~IsData(s[i]) => i = 1 /\ x.dictWritten)
  BY <1>1, <1>2 DEF Fronted
<1>4. \A i \in 1 .. Len(s) : i # 1 \/ ~x.dictWritten => s[i] \in DataPage
  BY <1>3, PageFields
<1>5. CASE x.dictWritten
  <2>1. s # <<>>
    BY <1>2, <1>5 DEF Fronted
  <2>2. PICK t : t = Tail(s)
    BY Zenon
  <2>3. t \in Seq(Page) /\ Len(t) = Len(s) - 1 /\ \A i \in 1 .. Len(t) : t[i] = s[i + 1]
    BY <1>1, <1>2, <2>1, <2>2
  <2>4. \A i \in 1 .. Len(t) : t[i] \in DataPage
    BY <1>1, <1>2, <1>4, <2>3
  <2>5. t \in Seq(DataPage)
    BY <2>3, <2>4
  <2> QED
    BY <1>1, <1>2, <1>5, <2>2, <2>5 DEF Lead, Kept
<1>6. CASE ~x.dictWritten
  <2>1. s \in Seq(DataPage)
    BY <1>1, <1>2, <1>4, <1>6
  <2> QED
    BY <1>1, <1>2, <1>6, <2>1 DEF Lead, Kept
<1> QED
  BY <1>1, <1>5, <1>6

LEMMA TailAppend ==
    ASSUME NEW S, NEW a \in Seq(S), a # <<>>, NEW e \in S
    PROVE  Tail(Append(a, e)) = Append(Tail(a), e)
<1>1. PICK l, r : l = Tail(Append(a, e)) /\ r = Append(Tail(a), e)
  BY Zenon
<1>2. l \in Seq(S) /\ r \in Seq(S) /\ Len(l) = Len(a) /\ Len(r) = Len(a)
  BY <1>1
<1>3. \A i \in 1 .. Len(a) : l[i] = r[i]
  BY <1>1
<1> QED
  BY <1>1, <1>2, <1>3, SameSeq, Zenon

LEMMA CatEmpty ==
    ASSUME NEW S, NEW a \in Seq(S)
    PROVE  a \o <<>> = a /\ <<>> \o a = a
OBVIOUS

\* A page built joins the pages kept.
LEMMA FlushKept ==
    ASSUME NEW x, Typed(x), Slotted(x), Fronted(x), NEW y, Typed(y), Flushed(x, y), ~y.err
    PROVE  Kept(y) = Append(Kept(x), PageOf(x)) /\ Lookup(y) = Lookup(x) /\ Fronted(y)
<1>1. Lead(x) \in Seq(DataPage) /\ x.pages \in Seq(DataPage) /\ x.out \in Seq(Page) /\ x.dict \in BOOLEAN
  BY LeadTyped, PagesTyped, Zenon DEF Typed
<1>2. PICK p : p = PageOf(x)
  OBVIOUS
<1>3. p \in DataPage /\ p \in Page /\ IsData(p)
  BY <1>2, PageTyped, PageFields DEF Page
<1>4. /\ y.dict = x.dict /\ y.memo = x.memo /\ y.dictWritten = x.dictWritten
      /\ IF x.dict THEN y.pages = Append(x.pages, p) /\ y.out = x.out
         ELSE y.pages = x.pages /\ y.out = Append(x.out, p)
  BY <1>2 DEF Flushed, Same, Fields
<1>5. CASE x.dict
  <2>1. Lead(y) = Lead(x) /\ Lookup(y) = Lookup(x)
    BY <1>4, <1>5 DEF Lead, Lookup
  <2>2. PICK a, b : a = Lead(x) /\ b = x.pages
    OBVIOUS
  <2>3. a \o Append(b, p) = Append(a \o b, p)
    BY <1>1, <1>3, <2>2, AppendCat
  <2>4. Kept(y) = Append(Kept(x), p)
    BY <1>4, <1>5, <2>1, <2>2, <2>3, Zenon DEF Kept
  <2>5. Fronted(y)
    BY <1>4, <1>5, Zenon DEF Fronted
  <2> QED
    BY <1>2, <2>1, <2>4, <2>5
<1>6. CASE ~x.dict
  <2>1. x.pages = <<>>
    BY <1>6 DEF Slotted
  <2>2. PICK a, b, s, t : a = Lead(x) /\ b = Lead(y) /\ s = x.out /\ t = y.out
    OBVIOUS
  <2>3. /\ t = Append(s, p) /\ s \in Seq(Page) /\ a \in Seq(DataPage)
        /\ Len(t) = Len(s) + 1 /\ Len(s) \in Nat /\ t[Len(s) + 1] = p /\ \A i \in 1 .. Len(s) : t[i] = s[i]
    <3>1. t = Append(s, p) /\ s \in Seq(Page) /\ a \in Seq(DataPage)
      BY <1>1, <1>4, <1>6, <2>2
    <3> QED
      BY <1>3, <3>1, AppendElems
  <2>4. b = Append(a, p)
    <3>1. CASE x.dictWritten
      <4>1. s # <<>>
        BY <2>2, <3>1 DEF Fronted
      <4>2. Tail(Append(s, p)) = Append(Tail(s), p)
        BY <1>3, <2>3, <4>1, TailAppend
      <4> QED
        BY <1>4, <2>2, <2>3, <3>1, <4>2 DEF Lead
    <3>2. CASE ~x.dictWritten
      BY <1>4, <2>2, <2>3, <3>2 DEF Lead
    <3> QED
      BY <3>1, <3>2
  <2>5. a \o <<>> = a /\ b \o <<>> = b
    <3>1. b \in Seq(DataPage)
      BY <1>3, <2>3, <2>4, AppendElems, Zenon
    <3> QED
      BY <2>3, <3>1, CatEmpty, Zenon
  <2>6. Kept(x) = a /\ Kept(y) = b
    BY <1>4, <1>6, <2>1, <2>2, <2>5, Zenon DEF Kept
  <2>7. x.dictWritten => s # <<>> /\ s[1] \in DictPage /\ t # <<>> /\ t[1] = s[1]
    <3>1. x.dictWritten => s # <<>> /\ s[1] \in DictPage
      BY <2>2, Zenon DEF Fronted
    <3>2. t # <<>> /\ (s # <<>> => 1 \in 1 .. Len(s))
      BY <2>3
    <3> QED
      BY <2>3, <3>1, <3>2, Zenon
  <2>8. Lookup(y) = Lookup(x)
    BY <1>4, <2>2, <2>7, Zenon DEF Lookup
  <2>9. ASSUME NEW i \in 1 .. Len(t), ~IsData(t[i]) PROVE i = 1 /\ x.dictWritten
    <3>1. i # Len(s) + 1
      BY <1>3, <2>3, <2>9
    <3>2. i \in 1 .. Len(s) /\ t[i] = s[i]
      BY <2>3, <3>1
    <3> QED
      BY <2>2, <2>9, <3>2, Zenon DEF Fronted
  <2>10. Fronted(y)
    BY <1>4, <1>6, <2>2, <2>7, <2>9, Zenon DEF Fronted
  <2> QED
    BY <1>2, <2>4, <2>6, <2>8, <2>10
<1> QED
  BY <1>1, <1>5, <1>6

\* flushCurrentPage: the levels of the page under way become a page.
LEMMA FlushGood ==
    ASSUME NEW x, Sound(x), NEW wr \in Seq(Level), Good(x, wr), x.cur # <<>>,
           NEW y, y \in FlushCurrentPage(x), ~y.err
    PROVE  Good(y, wr) /\ (Pending(x) => Pending(y)) /\ y.cur = <<>>
<1>1. Typed(x) /\ Slotted(x) /\ Fronted(x)
  BY Zenon DEF Sound, Good
<1>2. Typed(y) /\ Flushed(x, y)
  BY <1>1, FlushFields
<1>3. Kept(y) = Append(Kept(x), PageOf(x)) /\ Lookup(y) = Lookup(x) /\ Fronted(y)
  BY <1>1, <1>2, FlushKept, Zenon
<1>4. /\ y.dict = x.dict /\ y.memo = x.memo /\ y.dictWritten = x.dictWritten /\ y.refd = x.refd
      /\ y.bloom = x.bloom /\ y.bloomDone = x.bloomDone
      /\ y.cur = <<>> /\ y.rows = 0 /\ y.rowsWritten = x.rowsWritten + x.rows
  BY <1>2, Zenon DEF Flushed, Same, Fields
<1>5. PICK K, L, p : K = Kept(x) /\ L = Kept(y) /\ p = PageOf(x)
  OBVIOUS
<1>6. K \in Seq(DataPage) /\ p \in DataPage /\ L = Append(K, p)
  BY <1>1, <1>3, <1>5, LeadTyped, PageTyped, Zenon
<1>7. p.dict = x.dict /\ p.levels = x.cur /\ p.first = x.rowsWritten
  BY <1>5, Zenon DEF PageOf
<1>8. x.dict \in BOOLEAN
  BY <1>1, Zenon DEF Typed
<1>9. Mixed(L, y.dict, y.dictWritten)
  <2>1. Mixed(K, x.dict, x.dictWritten) /\ (p.dict <=> x.dict)
    BY <1>5, <1>7, Zenon DEF Good
  <2>2. Mixed(L, x.dict, x.dictWritten)
    BY <1>6, <2>1, MixedAppend, Zenon
  <2> QED
    BY <1>4, <2>2
<1>10. Contained(L, Lookup(y), y.cur, y.dict, y.memo, wr)
  <2>1. Contained(K, Lookup(x), p.levels, p.dict, x.memo, wr)
    BY <1>5, <1>7, Zenon DEF Good
  <2>2. p.dict => x.memo = Lookup(x)
    BY <1>1, <1>7, Zenon DEF Fronted, Lookup
  <2>3. Contained(L, Lookup(x), <<>>, y.dict, y.memo, wr)
    BY <1>6, <2>1, <2>2, ContainedAppend, Zenon
  <2> QED
    BY <1>3, <1>4, <2>3, Zenon
<1>11. Rowed(L, y.rowsWritten)
  <2>1. Rowed(K, x.rowsWritten) /\ x.rows = Rows(p.levels)
    BY <1>5, <1>7, Zenon DEF Good
  <2>2. Rowed(L, x.rowsWritten + Rows(p.levels))
    BY <1>6, <1>7, <2>1, RowedAppend, Zenon
  <2> QED
    BY <1>4, <2>1, <2>2, Zenon
<1>12. Begun(L, y.cur)
  <2>1. Begun(K, p.levels) /\ p.levels # <<>>
    BY <1>5, <1>7, Zenon DEF Good
  <2>2. Begun(L, <<>>)
    BY <1>6, <2>1, BegunAppend, Zenon
  <2> QED
    BY <1>4, <2>2
<1>13. y.rows = Rows(y.cur)
  BY <1>4, RowsEmpty, Zenon
<1>14. Filtered(y, wr)
  BY <1>4, Zenon DEF Good, Filtered
<1> QED
  BY <1>3, <1>4, <1>5, <1>9, <1>10, <1>11, <1>12, <1>13, <1>14, Zenon DEF Good, Pending

LEMMA TailCat ==
    ASSUME NEW S, NEW a \in Seq(S), a # <<>>, NEW b \in Seq(S)
    PROVE  Tail(a \o b) = Tail(a) \o b
<1>1. PICK l, r : l = Tail(a \o b) /\ r = Tail(a) \o b
  BY Zenon
<1>2. l \in Seq(S) /\ r \in Seq(S) /\ Len(l) = Len(a) + Len(b) - 1 /\ Len(r) = Len(a) + Len(b) - 1
  BY <1>1
<1>3. \A i \in 1 .. Len(l) : l[i] = r[i]
  BY <1>1
<1> QED
  BY <1>1, <1>2, <1>3, SameSeq

LEMMA DrainKept ==
    ASSUME NEW x, Typed(x), Fronted(x), x.dict => x.dictWritten,
           NEW y, Typed(y), Same(x, y, {"pages", "out"}), y.out = x.out \o x.pages, y.pages = <<>>
    PROVE  Kept(y) = Kept(x) /\ Lookup(y) = Lookup(x) /\ Fronted(y)
<1>1. Lead(x) \in Seq(DataPage) /\ x.pages \in Seq(DataPage) /\ x.pages \in Seq(Page) /\ x.out \in Seq(Page)
  BY LeadTyped, PagesTyped
<1>2. y.dict = x.dict /\ y.memo = x.memo /\ y.dictWritten = x.dictWritten
  BY DEF Same, Fields
<1>3. PICK s, b, t : s = x.out /\ b = x.pages /\ t = y.out
  BY Zenon
<1>4. s \in Seq(Page) /\ b \in Seq(Page) /\ b \in Seq(DataPage) /\ t = s \o b
  BY <1>1, <1>3
<1>5. /\ Len(t) = Len(s) + Len(b) /\ Len(s) \in Nat /\ Len(b) \in Nat
      /\ \A i \in 1 .. Len(t) : IF i <= Len(s) THEN t[i] = s[i] ELSE i - Len(s) \in 1 .. Len(b) /\ t[i] = b[i - Len(s)]
  BY <1>4
<1>6. x.dictWritten => s # <<>> /\ s[1] \in DictPage /\ t # <<>> /\ t[1] = s[1]
  <2>1. x.dictWritten => s # <<>> /\ s[1] \in DictPage
    BY <1>3 DEF Fronted
  <2>2. s # <<>> => Len(s) >= 1 /\ Len(t) >= 1
    BY <1>4, <1>5
  <2>3. s # <<>> => t # <<>> /\ t[1] = s[1]
    BY <1>5, <2>2
  <2> QED
    BY <2>1, <2>3
<1>7. Lead(y) = Lead(x) \o b
  <2>1. CASE x.dictWritten
    <3>1. Tail(s \o b) = Tail(s) \o b
      BY <1>4, <1>6, <2>1, TailCat
    <3> QED
      BY <1>2, <1>3, <1>4, <2>1, <3>1, Zenon DEF Lead
  <2>2. CASE ~x.dictWritten
    BY <1>2, <1>3, <1>4, <2>2, Zenon DEF Lead
  <2> QED
    BY <2>1, <2>2
<1>8. Kept(y) = Kept(x)
  <2>1. PICK a : a = Lead(x) \o b
    BY Zenon
  <2>2. a \in Seq(DataPage)
    BY <1>1, <1>4, <2>1, SMTT(30)
  <2>3. a \o <<>> = a
    BY <2>2, CatEmpty
  <2> QED
    BY <1>3, <1>7, <2>1, <2>3, Zenon DEF Kept
<1>9. Lookup(y) = Lookup(x)
  BY <1>2, <1>3, <1>6, Zenon DEF Lookup
<1>10. ASSUME NEW i \in 1 .. Len(t), ~IsData(t[i]) PROVE i = 1 /\ x.dictWritten
  <2>1. CASE i <= Len(s)
    <3>1. i \in 1 .. Len(s) /\ t[i] = s[i]
      BY <1>5, <2>1
    <3> QED
      BY <1>3, <1>10, <3>1, Zenon DEF Fronted
  <2>2. CASE ~(i <= Len(s))
    <3>1. i - Len(s) \in 1 .. Len(b) /\ t[i] = b[i - Len(s)]
      BY <1>5, <2>2
    <3>2. t[i] \in DataPage
      BY <1>4, <3>1
    <3> QED
      BY <1>10, <3>2, PageFields
  <2> QED
    BY <2>1, <2>2
<1>11. Fronted(y)
  <2>1. x.dict => s[1].values = x.memo
    BY <1>3, Zenon DEF Fronted
  <2> QED
    BY <1>2, <1>3, <1>6, <1>10, <2>1, Zenon DEF Fronted
<1> QED
  BY <1>8, <1>9, <1>11, Zenon

\* drainBufferedDataPages: the pages kept back are sent, behind the dictionary page.
LEMMA DrainGood ==
    ASSUME NEW x, Sound(x), NEW wr, Good(x, wr), x.dict => x.dictWritten,
           NEW y, y \in DrainBufferedDataPages(x), ~y.err
    PROVE  Good(y, wr) /\ y.pages = <<>> /\ y.cur = x.cur /\ y.dict = x.dict
           /\ y.dictWritten = x.dictWritten /\ y.bloomDone = x.bloomDone
<1>1. Typed(x) /\ Fronted(x)
  BY DEF Sound, Good
<1>2. Typed(y) /\ Same(x, y, {"pages", "out"}) /\ y.out = x.out \o x.pages /\ y.pages = <<>>
  BY <1>1, DrainEmpties, Zenon
<1>3. Kept(y) = Kept(x) /\ Lookup(y) = Lookup(x) /\ Fronted(y)
  BY <1>1, <1>2, DrainKept, Zenon
<1>4. /\ y.dict = x.dict /\ y.memo = x.memo /\ y.dictWritten = x.dictWritten /\ y.refd = x.refd
      /\ y.bloom = x.bloom /\ y.bloomDone = x.bloomDone
      /\ y.cur = x.cur /\ y.rows = x.rows /\ y.rowsWritten = x.rowsWritten
  BY <1>2, Zenon DEF Same, Fields
<1> QED
  BY <1>2, <1>3, <1>4, Zenon DEF Good, Filtered

\* WriteDictionaryPage: the dictionary page comes before the pages kept back, and the Bloom filter gets what it is owed.
LEMMA DictGood ==
    ASSUME NEW x, Sound(x), ~x.err, NEW wr, Good(x, wr), x.dict, ~x.dictWritten,
           NEW y, y \in WriteDictionaryPage(x), ~y.err
    PROVE  Good(y, wr) /\ y.dictWritten /\ y.bloomDone /\ y.cur = x.cur /\ y.dict = x.dict
<1>1. Typed(x) /\ Slotted(x) /\ Fronted(x)
  BY DEF Sound, Good
<1>2. Typed(y) /\ DictSent(x, y)
  BY <1>1, DictFields
<1>3. /\ y.dict = x.dict /\ y.memo = x.memo /\ y.refd = x.refd /\ y.pages = x.pages
      /\ y.cur = x.cur /\ y.rows = x.rows /\ y.rowsWritten = x.rowsWritten
  BY <1>2, Zenon DEF DictSent, Same, Fields
<1>4. /\ y.out = Append(x.out, DictPageOf(x)) /\ y.dictWritten = TRUE /\ y.bloomDone = TRUE
      /\ y.bloom = IF x.bloomDone THEN x.bloom ELSE x.bloom \cup Owed(x)
  BY <1>2, Zenon DEF DictSent
<1>5. x.out = <<>>
  BY <1>1, Zenon DEF Fronted
<1>6. PICK p : p = DictPageOf(x)
  OBVIOUS
<1>7. p \in DictPage /\ p.values = x.memo
  BY <1>1, <1>6, Zenon DEF DictPageOf, DictPage, Typed
<1>8. y.out = <<p>>
  BY <1>4, <1>5, <1>6, SeqOne, Zenon
<1>9. Lead(y) = <<>> /\ Lead(x) = <<>>
  BY <1>4, <1>5, <1>8 DEF Lead
<1>10. Kept(y) = Kept(x)
  BY <1>3, <1>9 DEF Kept
<1>11. Lookup(y) = Lookup(x)
  BY <1>4, <1>7, <1>8, SMTT(30) DEF Lookup
<1>12. Fronted(y)
  <2>1. Len(y.out) = 1 /\ y.out[1] = p /\ y.out # <<>> /\ \A i \in 1 .. Len(y.out) : i = 1
    BY <1>8, SeqOne, Zenon
  <2> QED
    BY <1>3, <1>4, <1>7, <2>1, Zenon DEF Fronted
<1>13. Mixed(Kept(y), y.dict, y.dictWritten)
  BY <1>3, <1>10 DEF Good, Mixed
<1>14. Filtered(y, wr)
  BY <1>3, <1>4, Zenon DEF Good, Filtered, Owed
<1> QED
  BY <1>3, <1>4, <1>10, <1>11, <1>12, <1>13, <1>14, Zenon DEF Good

\* The Bloom filter gets what it is owed by a dictionary that no page refers to.
LEMMA PopulateGood ==
    ASSUME NEW x, Sound(x), NEW wr, Good(x, wr), x.dict, NEW y, y = PopulateBloom(x)
    PROVE  Good(y, wr) /\ y.bloomDone /\ y.pages = x.pages /\ y.dict = x.dict
<1>1. Typed(x) /\ Slotted(x)
  BY DEF Sound
<1>2. Typed(y) /\ Populated(x, y)
  BY <1>1, PopulateFields
<1>3. /\ y.dict = x.dict /\ y.memo = x.memo /\ y.refd = x.refd /\ y.pages = x.pages /\ y.out = x.out
      /\ y.cur = x.cur /\ y.rows = x.rows /\ y.rowsWritten = x.rowsWritten /\ y.dictWritten = x.dictWritten
  BY <1>2, Zenon DEF Populated, Same, Fields
<1>4. y.bloomDone = TRUE /\ y.bloom = IF x.bloomDone THEN x.bloom ELSE x.bloom \cup Owed(x)
  BY <1>2 DEF Populated
<1>5. Kept(y) = Kept(x) /\ Lookup(y) = Lookup(x) /\ (Fronted(x) => Fronted(y))
  BY <1>3, Zenon DEF Kept, Lead, Lookup, Fronted
<1>6. Filtered(y, wr)
  BY <1>3, <1>4, Zenon DEF Good, Filtered, Owed
<1> QED
  BY <1>3, <1>4, <1>5, <1>6, Zenon DEF Good

\* UsePlain: a page under way with indices becomes one with the values they stand for.
LEMMA PlainGood ==
    ASSUME NEW x, Sound(x), NEW wr, Good(x, wr), x.dict, x.pages = <<>>, x.bloomDone,
           NEW y, y \in UsePlain(x)
    PROVE  Good(y, wr) /\ Pending(y)
<1>1. Typed(x) /\ Slotted(x) /\ Fronted(x)
  BY Zenon DEF Sound, Good
<1>2. Typed(y) /\ Plain(x, y)
  BY <1>1, PlainFields, Zenon
<1>3. /\ y.dict = FALSE /\ y.memo = <<>> /\ y.pages = x.pages /\ y.out = x.out /\ y.dictWritten = x.dictWritten
      /\ y.rows = x.rows /\ y.rowsWritten = x.rowsWritten /\ y.bloom = x.bloom
  BY <1>2 DEF Plain, Same, Fields
<1>4. Kept(y) = Kept(x) /\ Kept(x) \in Seq(DataPage)
  BY <1>1, <1>3, LeadTyped, Zenon DEF Kept, Lead
<1>5. ~x.dictWritten => Kept(x) = <<>>
  BY <1>1 DEF Fronted, Lead, Kept
<1>6. x.dictWritten => Lookup(y) = Lookup(x)
  BY <1>3 DEF Lookup
<1>7. PICK K, r, cur : K = Kept(x) /\ r = y.cur /\ cur = x.cur
  OBVIOUS
<1>8. /\ cur \in Seq(Slot) /\ r \in Seq(Slot) /\ Len(r) = Len(cur)
      /\ \A i \in 1 .. Len(cur) :
           /\ r[i].rep = cur[i].rep /\ r[i].slot \in Vals \cup {Null}
           /\ r[i].slot = IF cur[i].slot = Null THEN Null ELSE x.memo[cur[i].slot]
  <2>1. r = Reencoded(x)
    BY <1>2, <1>7, Zenon DEF Plain
  <2>2. /\ Reencoded(x) \in Seq(Slot) /\ Len(Reencoded(x)) = Len(x.cur)
        /\ \A i \in 1 .. Len(x.cur) :
             /\ Reencoded(x)[i].rep = x.cur[i].rep
             /\ Reencoded(x)[i].slot = IF x.cur[i].slot = Null THEN Null ELSE x.memo[x.cur[i].slot]
             /\ Reencoded(x)[i].slot \in Vals \cup {Null}
    BY <1>1, ReencodedTyped, Zenon
  <2>3. x.cur \in Seq(Slot)
    BY <1>1, Zenon DEF Typed
  <2> QED
    BY <1>7, <2>1, <2>2, <2>3, Zenon
<1>9. \A i \in 1 .. Len(cur) : \A l : Reads(cur[i], x.dict, x.memo, l) => Reads(r[i], FALSE, <<>>, l)
  <2> SUFFICES ASSUME NEW i \in 1 .. Len(cur), NEW l, Reads(cur[i], x.dict, x.memo, l)
               PROVE  Reads(r[i], FALSE, <<>>, l)
    BY Zenon
  <2>1. CASE cur[i].slot = Null
    BY <1>8, <2>1, Zenon DEF Reads
  <2>2. CASE cur[i].slot # Null
    <3>1. cur[i].slot \in DOMAIN x.memo /\ x.memo[cur[i].slot] = l.val /\ cur[i].rep = l.rep
      BY <2>2, Zenon DEF Reads
    <3>2. x.memo[cur[i].slot] \in Vals
      <4>1. x.memo \in Seq(Vals)
        BY <1>1, Zenon DEF Typed
      <4> QED
        BY <3>1, <4>1, SeqElems, Zenon
    <3>3. r[i].slot # Null
      BY <1>8, <2>2, <3>2, Columns, Zenon
    <3> QED
      BY <1>8, <2>2, <3>1, <3>3, Zenon DEF Reads
  <2> QED
    BY <2>1, <2>2, Zenon
<1>10. Contained(K, Lookup(y), r, y.dict, y.memo, wr)
  <2>1. PICK c \in [0 .. Len(K) -> 0 .. Len(wr)] :
              Parts(K, Lookup(x), wr, c) /\ Rest(cur, x.dict, x.memo, wr, c[Len(K)])
    BY <1>7, Zenon DEF Good, Contained
  <2>2. Parts(K, Lookup(y), wr, c)
    <3>1. CASE x.dictWritten
      BY <1>6, <2>1, <3>1, Zenon
    <3>2. CASE ~x.dictWritten
      <4>1. Len(K) = 0
        BY <1>5, <1>7, <3>2
      <4>2. \A n : n \notin 1 .. Len(K)
        BY <4>1
      <4> QED
        BY <2>1, <4>2, Zenon DEF Parts
    <3> QED
      BY <3>1, <3>2, Zenon
  <2>3. Rest(r, FALSE, <<>>, wr, c[Len(K)])
    BY <1>8, <1>9, <2>1, Zenon DEF Rest
  <2> QED
    BY <1>3, <2>2, <2>3, Zenon DEF Contained
<1>11. Fronted(y)
  BY <1>1, <1>3, Zenon DEF Fronted
<1>12. Mixed(K, y.dict, y.dictWritten)
  <2>1. Mixed(K, x.dict, x.dictWritten)
    BY <1>7, Zenon DEF Good
  <2>2. ~x.dictWritten => Len(K) = 0
    BY <1>5, <1>7
  <2> QED
    BY <1>3, <2>1, <2>2, SMTT(30) DEF Mixed
<1>13. y.rows = Rows(y.cur)
  <2>1. Rows(r) = Rows(cur)
    <3>1. DOMAIN r = 1 .. Len(cur) /\ DOMAIN cur = 1 .. Len(cur)
      BY <1>8, SeqElems, Zenon
    <3> QED
      BY <1>8, <3>1, RowsSame, Zenon
  <2> QED
    BY <1>3, <1>7, <2>1, Zenon DEF Good
<1>14. Begun(K, r)
  <2>1. Begun(K, cur)
    BY <1>7, Zenon DEF Good
  <2>2. r # <<>> => cur # <<>> /\ 1 \in 1 .. Len(cur)
    BY <1>8, SMTT(30)
  <2> QED
    BY <1>8, <2>1, <2>2 DEF Begun
<1>15. Filtered(y, wr)
  BY <1>3, Zenon DEF Good, Filtered
<1>16. Rowed(K, y.rowsWritten)
  BY <1>3, <1>7, Zenon DEF Good
<1> QED
  BY <1>3, <1>4, <1>7, <1>10, <1>11, <1>12, <1>13, <1>14, <1>15, <1>16, Zenon DEF Good, Pending
===============================================================================
