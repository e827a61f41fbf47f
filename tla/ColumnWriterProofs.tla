-------------------------- MODULE ColumnWriterProofs --------------------------
(***************************************************************************)
(* The column writer reads back, keeps its pages at rows and in order, and *)
(* fills its Bloom filter, for every batch size, page size, dictionary     *)
(* limit and input.                                                        *)
(*                                                                         *)
(* IInv, of ColumnWriterOperations, holds initially and every action keeps *)
(* it (...Inv, StepInv).  It implies the four properties: a page decodes   *)
(* to the levels it was cut from (DecodePage), so by induction over the    *)
(* pages the chunk decodes to the levels accepted (InvComplete).           *)
(***************************************************************************)
EXTENDS ColumnWriterOperations

-----------------------------------------------------------------------------
(* A batch.                                                                  *)

Grows(D, E) == D \in Seq(Vals) /\ E \in Seq(Vals) /\ Extends(D, E)

LEMMA ReadsMore ==
    ASSUME NEW s, NEW dict, NEW D, NEW E, NEW l, Reads(s, dict, D, l), dict => Grows(D, E)
    PROVE  Reads(s, dict, E, l)
<1>1. dict => DOMAIN D \subseteq DOMAIN E /\ \A k \in DOMAIN D : E[k] = D[k]
  BY SMTT(30) DEF Grows, Extends
<1> QED
  BY <1>1, Zenon DEF Reads

\* Levels lv are added, as the slots new, with a dictionary that has grown.
LEMMA ContainedCat ==
    ASSUME NEW K \in Seq(DataPage), NEW D, NEW E, NEW cur \in Seq(Slot), NEW dict, NEW memo, NEW m,
           NEW wr \in Seq(Level), NEW lv \in Seq(Level), NEW new,
           Contained(K, D, cur, dict, memo, wr), Stands(new, dict, m, lv),
           \A n \in 1 .. Len(K) : K[n].dict => Grows(D, E),
           dict => Grows(memo, m)
    PROVE  Contained(K, E, cur \o new, dict, m, wr \o lv)
<1>1. PICK c \in [0 .. Len(K) -> 0 .. Len(wr)] :
            Parts(K, D, wr, c) /\ Rest(cur, dict, memo, wr, c[Len(K)])
  BY DEF Contained
<1>2. PICK t, r, at : t = wr \o lv /\ r = cur \o new /\ at = c[Len(K)]
  BY Zenon
<1>3. new \in Seq(Slot) /\ Len(new) = Len(lv) /\ \A i \in 1 .. Len(lv) : Reads(new[i], dict, m, lv[i])
  BY Zenon DEF Stands
<1>4. /\ Len(t) = Len(wr) + Len(lv) /\ Len(wr) \in Nat /\ Len(lv) \in Nat /\ Len(K) \in Nat
      /\ \A i \in 1 .. Len(wr) : t[i] = wr[i]
      /\ \A i \in 1 .. Len(lv) : t[Len(wr) + i] = lv[i]
  BY <1>2, SMTT(30)
<1>5. /\ Len(r) = Len(cur) + Len(new) /\ Len(cur) \in Nat
      /\ \A i \in 1 .. Len(cur) : r[i] = cur[i]
      /\ \A i \in 1 .. Len(new) : r[Len(cur) + i] = new[i]
  <2>1. \A a, b \in Seq(Slot) :
            /\ Len(a \o b) = Len(a) + Len(b) /\ Len(a) \in Nat
            /\ \A i \in 1 .. Len(a) : (a \o b)[i] = a[i]
            /\ \A i \in 1 .. Len(b) : (a \o b)[Len(a) + i] = b[i]
    BY SMTT(30)
  <2> QED
    BY <1>2, <1>3, <2>1, Zenon
<1>6. c \in [0 .. Len(K) -> 0 .. Len(t)] /\ c[0] = 0
  BY <1>1, <1>4, SMTT(30) DEF Parts
<1>7. ASSUME NEW n \in 1 .. Len(K)
      PROVE  /\ c[n] = c[n - 1] + Len(K[n].levels)
             /\ \A k \in 1 .. Len(K[n].levels) : Reads(K[n].levels[k], K[n].dict, E, t[c[n - 1] + k])
  <2>1. PICK p, a, b : p = K[n] /\ a = c[n - 1] /\ b = c[n]
    OBVIOUS
  <2>2. n \in 0 .. Len(K) /\ n - 1 \in 0 .. Len(K)
    BY <1>4, SMTT(30)
  <2>3. p \in DataPage /\ a \in 0 .. Len(wr) /\ b \in 0 .. Len(wr)
    <3>1. \A i \in 0 .. Len(K) : c[i] \in 0 .. Len(wr)
      BY <1>1
    <3>2. p \in DataPage
      BY <2>1
    <3> QED
      BY <2>1, <2>2, <3>1, <3>2
  <2>4. b = a + Len(p.levels) /\ \A k \in 1 .. Len(p.levels) : Reads(p.levels[k], p.dict, D, wr[a + k])
    BY <1>1, <2>1, Zenon DEF Parts
  <2>5. Len(p.levels) \in Nat
    BY <2>3, PageFields
  <2>6. \A k \in 1 .. Len(p.levels) : a + k \in 1 .. Len(wr)
    BY <1>4, <2>3, <2>4, <2>5, SMTT(30)
  <2>7. p.dict => Grows(D, E)
    BY <2>1
  <2>8. \A k \in 1 .. Len(p.levels) : Reads(p.levels[k], p.dict, E, wr[a + k])
    BY <2>4, <2>7, ReadsMore, Zenon
  <2>9. \A k \in 1 .. Len(p.levels) : t[a + k] = wr[a + k]
    BY <1>4, <2>6, Zenon
  <2> QED
    BY <2>1, <2>4, <2>8, <2>9, Zenon
<1>8. Parts(K, E, t, c)
  BY <1>6, <1>7, Zenon DEF Parts
<1>9. Len(wr) = at + Len(cur) /\ \A k \in 1 .. Len(cur) : Reads(cur[k], dict, memo, wr[at + k])
  BY <1>1, <1>2 DEF Rest
<1>10. at \in 0 .. Len(wr)
  <2>1. Len(K) \in 0 .. Len(K)
    BY <1>4, SMTT(30)
  <2> QED
    BY <1>2, <2>1, Zenon
<1>11. Len(t) = at + Len(r)
  BY <1>3, <1>4, <1>5, <1>9, <1>10, SMTT(30)
<1>12. ASSUME NEW k \in 1 .. Len(r) PROVE Reads(r[k], dict, m, t[at + k])
  <2>1. CASE k <= Len(cur)
    <3>1. k \in 1 .. Len(cur) /\ at + k \in 1 .. Len(wr)
      BY <1>4, <1>5, <1>9, <1>10, <2>1, SMTT(30)
    <3>2. r[k] = cur[k] /\ t[at + k] = wr[at + k]
      BY <1>4, <1>5, <3>1, Zenon
    <3>3. Reads(cur[k], dict, m, wr[at + k])
      BY <1>9, <3>1, ReadsMore
    <3> QED
      BY <3>2, <3>3, Zenon
  <2>2. CASE k > Len(cur)
    <3>1. PICK i : i = k - Len(cur)
      OBVIOUS
    <3>2. i \in 1 .. Len(lv) /\ i \in 1 .. Len(new) /\ k = Len(cur) + i /\ at + k = Len(wr) + i
      BY <1>3, <1>4, <1>5, <1>9, <1>10, <2>2, <3>1, SMTT(30)
    <3>3. r[k] = new[i] /\ t[at + k] = lv[i]
      BY <1>4, <1>5, <3>2, Zenon
    <3> QED
      BY <1>3, <3>2, <3>3, Zenon
  <2> QED
    BY <1>5, <2>1, <2>2, SMTT(30)
<1>13. Rest(r, dict, m, t, c[Len(K)])
  BY <1>2, <1>11, <1>12, Zenon DEF Rest
<1>14. Contained(K, E, r, dict, m, t)
  BY <1>6, <1>8, <1>13 DEF Contained
<1> QED
  BY <1>2, <1>14

\* WriteValues, WriteIndices: the levels of a batch join the page under way, and their values the Bloom filter or what
\* it is owed.
LEMMA WroteGood ==
    ASSUME NEW x, Sound(x), NEW wr \in Seq(Level), Good(x, wr), Pending(x),
           NEW lv \in Seq(Level), lv # <<>>, Aligned => lv[1].rep = 0,
           NEW y, Typed(y), Wrote(x, y, lv)
    PROVE  Good(y, wr \o lv) /\ Pending(y) /\ y.cur # <<>>
<1>1. Typed(x) /\ Slotted(x) /\ Fronted(x) /\ x.dict \in BOOLEAN
  BY Zenon DEF Sound, Good, Typed
<1>2. /\ y.dict = x.dict /\ y.pages = x.pages /\ y.out = x.out /\ y.dictWritten = x.dictWritten
      /\ y.rowsWritten = x.rowsWritten /\ y.bloomDone = x.bloomDone
  BY Zenon DEF Wrote, Same, Fields
<1>3. PICK K, new, cur, r : K = Kept(x) /\ new = Slots(x, y.memo, lv) /\ cur = x.cur /\ r = y.cur
  BY Zenon
<1>4. K \in Seq(DataPage) /\ K = Kept(y)
  BY <1>1, <1>2, <1>3, LeadTyped, Zenon DEF Kept, Lead
<1>5. /\ x.dict => Grows(x.memo, y.memo) /\ Present(lv) \subseteq Range(y.memo)
      /\ ~x.dict => y.memo = <<>> /\ x.memo = <<>>
      /\ y.memo \in Seq(Vals) /\ x.memo \in Seq(Vals)
  BY <1>1, Zenon DEF Wrote, Grows, Typed, Slotted
<1>6. r = cur \o new /\ cur \in Seq(Slot)
  BY <1>1, <1>3, Zenon DEF Wrote, Typed
<1>7. Stands(new, x.dict, y.memo, lv)
  BY <1>1, <1>3, <1>5, SlotsRead, Zenon
<1>8. new \in Seq(Slot) /\ Len(new) = Len(lv) /\ \A i \in 1 .. Len(lv) : Reads(new[i], x.dict, y.memo, lv[i])
  BY <1>7, Zenon DEF Stands
<1>9. \A n \in 1 .. Len(K) : K[n].dict => Grows(Lookup(x), Lookup(y))
  <2>1. CASE x.dict
    <3>1. ~x.dictWritten
      BY <2>1 DEF Pending
    <3> QED
      BY <1>2, <1>5, <2>1, <3>1, Zenon DEF Lookup
  <2>2. CASE ~x.dict /\ ~x.dictWritten
    <3>1. Mixed(K, x.dict, x.dictWritten)
      BY <1>3, Zenon DEF Good
    <3> QED
      BY <2>2, <3>1, Zenon DEF Mixed
  <2>3. CASE ~x.dict /\ x.dictWritten
    <3>1. PICK D : D = Lookup(x)
      BY Zenon
    <3>2. Lookup(y) = D
      BY <1>2, <2>3, <3>1, Zenon DEF Lookup
    <3>3. D \in Seq(Vals)
      BY <1>1, <2>3, <3>1, PageFields, Zenon DEF Lookup, Fronted
    <3>4. Grows(D, D)
      BY <3>3 DEF Grows, Extends
    <3> QED
      BY <3>1, <3>2, <3>4, Zenon
  <2> QED
    BY <2>1, <2>2, <2>3, Zenon
<1>10. Contained(K, Lookup(y), y.cur, y.dict, y.memo, wr \o lv)
  <2>1. Contained(K, Lookup(x), cur, x.dict, x.memo, wr)
    BY <1>3, Zenon DEF Good
  <2>2. Contained(K, Lookup(y), cur \o new, x.dict, y.memo, wr \o lv)
    BY <1>4, <1>5, <1>6, <1>7, <1>9, <2>1, ContainedCat, Zenon
  <2> QED
    BY <1>2, <1>3, <1>6, <2>2, Zenon
<1>11. Fronted(y)
  <2>1. x.dict => ~x.dictWritten
    BY DEF Pending
  <2> QED
    BY <1>1, <1>2, <2>1, Zenon DEF Fronted
<1>12. Mixed(K, y.dict, y.dictWritten) /\ Rowed(K, y.rowsWritten)
  BY <1>2, <1>3, Zenon DEF Good
<1>13. y.rows = Rows(y.cur)
  <2>1. Rows(new) = Rows(lv)
    <3>1. DOMAIN new = 1 .. Len(lv) /\ DOMAIN lv = 1 .. Len(lv)
      BY <1>8, SMTT(30)
    <3>2. \A i \in 1 .. Len(lv) : new[i].rep = lv[i].rep
      BY <1>8, Zenon DEF Reads
    <3> QED
      BY <3>1, <3>2, RowsSame, Zenon
  <2>2. Rows(cur \o new) = Rows(cur) + Rows(new)
    BY <1>6, <1>8, RowsCat, Zenon
  <2>3. x.rows = Rows(cur) /\ y.rows = x.rows + Rows(lv)
    BY <1>3, Zenon DEF Good, Wrote
  <2> QED
    BY <1>3, <1>6, <2>1, <2>2, <2>3, Zenon
<1>14. r # <<>> /\ r[1] = (IF cur # <<>> THEN cur[1] ELSE new[1]) /\ new[1].rep = lv[1].rep
  <2>1. \A a, b \in Seq(Slot) : Len(b) > 0 => a \o b # <<>> /\ (a \o b)[1] = IF a # <<>> THEN a[1] ELSE b[1]
    OBVIOUS
  <2>2. Len(lv) > 0 /\ 1 \in 1 .. Len(lv)
    OBVIOUS
  <2>3. Reads(new[1], x.dict, y.memo, lv[1])
    BY <1>8, <2>2, Zenon
  <2> QED
    BY <1>6, <1>8, <2>1, <2>2, <2>3, Zenon DEF Reads
<1>15. Begun(K, r)
  <2>1. Begun(K, cur)
    BY <1>3, Zenon DEF Good
  <2> QED
    BY <1>14, <2>1, Zenon DEF Begun
<1>16. Filtered(y, wr \o lv)
  <2>1. Present(wr \o lv) = Present(wr) \cup Present(lv)
    BY PresentCat
  <2>2. CASE ~x.dict
    <3>1. Present(wr) \subseteq x.bloom /\ y.bloom = x.bloom \cup Present(lv)
      BY <2>2, Zenon DEF Good, Filtered, Wrote
    <3> QED
      BY <1>2, <2>1, <2>2, <3>1, Zenon DEF Filtered
  <2>3. CASE x.dict
    <3>1. ~x.bloomDone
      BY <2>3 DEF Pending
    <3>2. y.refd = x.refd \cup Refs(new)
      BY <1>3, <2>3, Zenon DEF Wrote
    <3>3. ASSUME NEW v \in Present(wr) PROVE \E i \in y.refd : y.memo[i] = v
      <4>1. PICK i \in x.refd : x.memo[i] = v
        BY <2>3, <3>1, Zenon DEF Good, Filtered
      <4>2. i \in 1 .. Len(x.memo)
        BY <1>1, <1>5, SMTT(30) DEF Slotted
      <4>3. y.memo[i] = x.memo[i]
        BY <1>5, <2>3, <4>2, Zenon DEF Grows, Extends
      <4> QED
        BY <3>2, <4>1, <4>3, Zenon
    <3>4. ASSUME NEW v \in Present(lv) PROVE \E i \in y.refd : y.memo[i] = v
      <4>1. PICK k \in 1 .. Len(lv) : lv[k].val = v /\ v # Null
        BY DEF Present
      <4>2. Reads(new[k], x.dict, y.memo, lv[k])
        BY <1>8, Zenon
      <4>3. new[k].slot # Null /\ y.memo[new[k].slot] = v
        BY <2>3, <4>1, <4>2 DEF Reads
      <4>4. new[k].slot \in Refs(new)
        BY <1>8, <4>3, SMTT(30) DEF Refs
      <4> QED
        BY <3>2, <4>3, <4>4
    <3> QED
      BY <1>2, <2>1, <2>3, <3>1, <3>3, <3>4, Zenon DEF Filtered
  <2> QED
    BY <1>1, <2>2, <2>3, Zenon
<1>17. Pending(y)
  BY <1>2, Zenon DEF Pending
<1> QED
  BY <1>3, <1>4, <1>10, <1>11, <1>12, <1>13, <1>14, <1>15, <1>16, <1>17, Zenon DEF Good

-----------------------------------------------------------------------------
(* The operations made of these.                                             *)

\* FallbackToPlain: the dictionary page, the pages kept back and then the page under way, as values.
LEMMA FallbackGood ==
    ASSUME NEW x, Sound(x), ~x.err, NEW wr, Good(x, wr), Pending(x), NEW y, y \in FallbackToPlain(x), ~y.err
    PROVE  Good(y, wr) /\ Pending(y)
<1>1. CASE ~x.dict
  BY <1>1 DEF FallbackToPlain
<1>2. CASE x.dict /\ x.pages = <<>>
  <2>1. PICK u : u = PopulateBloom(x)
    OBVIOUS
  <2>2. y \in UsePlain(u)
    BY <1>2, <2>1, FallbackSteps, Zenon
  <2>3. Sound(u)
    BY <2>1, PopulateSound DEF Keeps
  <2>4. Good(u, wr) /\ u.bloomDone /\ u.pages = x.pages /\ u.dict = x.dict
    BY <1>2, <2>1, PopulateGood, Zenon
  <2> QED
    BY <1>2, <2>2, <2>3, <2>4, PlainGood, Zenon
<1>3. CASE x.dict /\ x.pages # <<>>
  <2>1. PICK u \in WriteDictionaryPage(x) :
             IF u.err THEN y = u
             ELSE \E z \in DrainBufferedDataPages(u) : IF z.err THEN y = z ELSE y \in UsePlain(z)
    BY <1>3, FallbackSteps, Zenon
  <2>2. ~u.err
    BY <2>1
  <2>3. PICK z \in DrainBufferedDataPages(u) : IF z.err THEN y = z ELSE y \in UsePlain(z)
    BY <2>1, <2>2, Zenon
  <2>4. ~z.err /\ y \in UsePlain(z)
    BY <2>3
  <2>5. ~x.dictWritten
    BY <1>3 DEF Pending
  <2>6. Good(u, wr) /\ u.dictWritten /\ u.bloomDone /\ u.dict = x.dict
    BY <1>3, <2>1, <2>2, <2>5, DictGood, Zenon
  <2>7. Sound(u)
    BY <2>1, DictSound DEF Keeps
  <2>8. Good(z, wr) /\ z.pages = <<>> /\ z.dict = u.dict /\ z.bloomDone = u.bloomDone
    <3>1. Good(u, wr) /\ (u.dict => u.dictWritten) /\ ~z.err
      BY <2>4, <2>6
    <3> QED
      BY <2>3, <2>7, <3>1, DrainGood, Zenon
  <2>9. Sound(z)
    BY <2>3, <2>7, DrainSound DEF Keeps
  <2> QED
    BY <1>3, <2>4, <2>6, <2>8, <2>9, PlainGood, Zenon
<1> QED
  BY <1>1, <1>2, <1>3, Zenon

LEMMA CommitGood ==
    ASSUME NEW x, Sound(x), NEW wr \in Seq(Level), Good(x, wr), Pending(x), x.cur # <<>>,
           NEW y, y \in CommitWriteAndCheckPageLimit(x), ~y.err
    PROVE  Good(y, wr) /\ Pending(y)
<1>1. y = x \/ y \in FlushCurrentPage(x)
  BY DEF CommitWriteAndCheckPageLimit
<1> QED
  BY <1>1, FlushGood

LEMMA CheckGood ==
    ASSUME NEW x, Sound(x), ~x.err, NEW wr, Good(x, wr), Pending(x),
           NEW y, y \in CheckDictionarySizeLimit(x), ~y.err
    PROVE  Good(y, wr) /\ Pending(y)
<1>1. y = x \/ y \in FallbackToPlain(x)
  BY DEF CheckDictionarySizeLimit
<1> QED
  BY <1>1, FallbackGood

\* A batch, with the page it may complete and the fallback it may lead to.
LEMMA OneGood ==
    ASSUME NEW x, Sound(x), ~x.err, NEW wr \in Seq(Level), Good(x, wr), Pending(x),
           NEW op \in {"values", "indices"}, NEW lv \in Seq(Level), lv # <<>>, Aligned => lv[1].rep = 0,
           op = "indices" => x.dict /\ Present(lv) \subseteq Range(x.memo),
           NEW y, y \in WriteOne(x, op, lv), ~y.err
    PROVE  Good(y, wr \o lv) /\ Pending(y)
<1>1. Typed(x) /\ wr \o lv \in Seq(Level)
  BY SMTT(30) DEF Sound
<1>2. CASE op = "values"
  <2>1. PICK v : v = WriteValues(x, lv)
    OBVIOUS
  <2>2. Typed(v) /\ Wrote(x, v, lv)
    BY <1>1, <2>1, ValuesFields, Zenon
  <2>3. Good(v, wr \o lv) /\ Pending(v) /\ v.cur # <<>>
    BY <2>2, WroteGood, Zenon
  <2>4. Sound(v)
    BY <2>2, WroteSound, Zenon
  <2>5. PICK u \in CommitWriteAndCheckPageLimit(v) : IF u.err THEN y = u ELSE y \in CheckDictionarySizeLimit(u)
    BY <1>2, <2>1, OneSteps, Zenon
  <2>6. ~u.err
    BY <2>5, Zenon
  <2>7. Good(u, wr \o lv) /\ Pending(u)
    BY <1>1, <2>3, <2>4, <2>5, <2>6, CommitGood, Zenon
  <2>8. Sound(u)
    BY <2>4, <2>5, CommitSound, Zenon DEF Keeps
  <2> QED
    BY <2>5, <2>6, <2>7, <2>8, CheckGood, Zenon
<1>3. CASE op = "indices"
  <2>1. PICK v : v = WriteIndices(x, lv)
    OBVIOUS
  <2>2. Typed(v) /\ Wrote(x, v, lv)
    BY <1>1, <1>3, <2>1, IndicesFields, Zenon
  <2>3. Good(v, wr \o lv) /\ Pending(v) /\ v.cur # <<>>
    BY <2>2, WroteGood, Zenon
  <2>4. Sound(v)
    BY <2>2, WroteSound, Zenon
  <2>5. y \in CommitWriteAndCheckPageLimit(v)
    BY <1>3, <2>1, OneSteps, Zenon
  <2> QED
    BY <1>1, <2>3, <2>4, <2>5, CommitGood, Zenon
<1> QED
  BY <1>2, <1>3

\* Good says nothing of the fields closed, err, preserved and raw.
LEMMA SameGood ==
    ASSUME NEW x, NEW wr, Good(x, wr), NEW y, Same(x, y, {"closed", "err", "preserved", "raw"})
    PROVE  Good(y, wr) /\ (Pending(y) <=> Pending(x)) /\ (Finished(y) <=> Finished(x))
<1>1. /\ y.dict = x.dict /\ y.memo = x.memo /\ y.refd = x.refd /\ y.pages = x.pages /\ y.out = x.out
      /\ y.cur = x.cur /\ y.rowsWritten = x.rowsWritten /\ y.rows = x.rows
      /\ y.dictWritten = x.dictWritten /\ y.bloom = x.bloom /\ y.bloomDone = x.bloomDone
  BY DEF Same, Fields
<1>2. Kept(y) = Kept(x) /\ Lookup(y) = Lookup(x)
  BY <1>1, Zenon DEF Kept, Lead, Lookup
<1> QED
  BY <1>1, <1>2, SMTT(30) DEF Good, Fronted, Filtered, Pending, Finished

LEMMA CloseGood ==
    ASSUME NEW x, Sound(x), ~x.err, NEW wr \in Seq(Level), Good(x, wr), Pending(x),
           NEW y, y \in CloseWriter(x), ~y.err
    PROVE  Good(y, wr) /\ Finished(y)
<1>1. PICK c : c = [x EXCEPT !.closed = TRUE]
  BY Zenon
<1>2. Typed(x) /\ Typed(c) /\ Same(x, c, {"closed"})
  BY <1>1, CloseFields, Zenon DEF Sound
<1>3. /\ Same(x, c, {"closed", "err"}) /\ Same(x, c, {"closed", "err", "preserved", "raw"})
      /\ c.err = x.err /\ c.dict = x.dict
  BY <1>2 DEF Same, Fields
<1>4. Sound(c) /\ Good(c, wr) /\ Pending(c) /\ ~c.err
  BY <1>2, <1>3, SameSound, SameGood
<1>5. PICK u : (IF c.dict THEN u \in WriteDictionaryPage(c) ELSE u = c) /\ FlushesTo(u, y)
  <2>1. ClosesTo(c, y)
    BY <1>1, CloseSteps
  <2> QED
    BY <2>1 DEF ClosesTo
<1>6. ~u.err
  BY <1>5, Zenon DEF FlushesTo
<1>7. Sound(u)
  BY <1>4, <1>5, DictSound DEF Keeps
<1>8. Good(u, wr) /\ (u.dict => u.dictWritten /\ u.bloomDone)
  <2>1. CASE c.dict
    <3>1. ~c.dictWritten
      BY <1>4, <2>1 DEF Pending
    <3> QED
      BY <1>4, <1>5, <1>6, <2>1, <3>1, DictGood
  <2>2. CASE ~c.dict
    BY <1>4, <1>5, <2>2
  <2> QED
    BY <2>1, <2>2
<1>9. PICK v : (IF u.cur = <<>> THEN v = u ELSE v \in FlushCurrentPage(u)) /\ EndsFrom(v, y)
  BY <1>5, <1>6, Zenon DEF FlushesTo
<1>10. ~v.err
  BY <1>9 DEF EndsFrom
<1>11. Sound(v)
  BY <1>7, <1>9, FlushSound, Zenon DEF Keeps
<1>12. Good(v, wr) /\ v.cur = <<>> /\ (v.dict => v.dictWritten /\ v.bloomDone)
  <2>1. CASE u.cur = <<>>
    BY <1>8, <1>9, <2>1, Zenon
  <2>2. CASE u.cur # <<>>
    <3>1. v \in FlushCurrentPage(u)
      BY <1>9, <2>2, Zenon
    <3>2. Good(v, wr) /\ v.cur = <<>>
      BY <1>7, <1>8, <1>10, <2>2, <3>1, FlushGood, Zenon
    <3>3. Flushed(u, v)
      BY <1>7, <3>1, FlushFields DEF Sound
    <3>4. v.dict = u.dict /\ v.dictWritten = u.dictWritten /\ v.bloomDone = u.bloomDone
      BY <3>3, Zenon DEF Flushed, Same, Fields
    <3> QED
      BY <1>8, <3>2, <3>4, Zenon
  <2> QED
    BY <2>1, <2>2, Zenon
<1>13. PICK z \in DrainBufferedDataPages(v) : IF z.err THEN y = z ELSE y = z \/ y = Failed(z)
  BY <1>9, <1>10, Zenon DEF EndsFrom
<1>14. ~z.err
  BY <1>13
<1>15. y = z
  <2>1. Sound(z)
    BY <1>11, <1>13, DrainSound, Zenon DEF Keeps
  <2>2. Failed(z).err = TRUE
    BY <2>1, FailedFields, Zenon DEF Sound
  <2> QED
    BY <1>13, <1>14, <2>2, Zenon
<1>16. Good(z, wr) /\ z.pages = <<>> /\ z.cur = v.cur /\ z.dict = v.dict
       /\ z.dictWritten = v.dictWritten /\ z.bloomDone = v.bloomDone
  BY <1>11, <1>12, <1>13, <1>14, DrainGood, Zenon
<1> QED
  BY <1>12, <1>15, <1>16, Zenon DEF Finished

-----------------------------------------------------------------------------
(* The actions.                                                              *)

LEMMA InitSound ==
    ASSUME NEW x, x = NewWriter
    PROVE  Sound(x) /\ Right(x, <<>>) /\ ~x.err /\ x.rowsWritten + x.rows = Rows(<<>>)
<1>1. DOMAIN x = Fields
  BY DEF NewWriter, Fields
<1>2. /\ x.dict = UseDict /\ x.memo = <<>> /\ x.preserved = Null /\ x.refd = {} /\ x.cur = <<>> /\ x.raw = 0
      /\ x.rows = 0 /\ x.rowsWritten = 0 /\ x.cut = 0 /\ x.pages = <<>> /\ x.out = <<>> /\ x.dictWritten = FALSE
      /\ x.bloom = {} /\ x.bloomDone = FALSE /\ x.closed = FALSE /\ x.err = FALSE
  BY DEF NewWriter
<1> HIDE DEF NewWriter
<1>3. Typed(x)
  <2>1. UseDict \in BOOLEAN
    BY Columns
  <2>2. <<>> \in Seq(Vals) /\ <<>> \in Seq(Slot) /\ <<>> \in Seq(DataPage) /\ <<>> \in Seq(Page)
    OBVIOUS
  <2>3. x.dict \in BOOLEAN /\ x.dictWritten \in BOOLEAN /\ x.bloomDone \in BOOLEAN /\ x.closed \in BOOLEAN /\ x.err \in BOOLEAN
    BY <1>2, <2>1, Zenon
  <2>4. x.raw \in Nat /\ x.rows \in Nat /\ x.rowsWritten \in Nat /\ x.cut \in Nat
    BY <1>2
  <2>5. x.preserved \in Seq(Vals) \cup {Null} /\ x.refd \in SUBSET Nat /\ x.bloom \in SUBSET Vals
    BY <1>2
  <2> QED
    BY <1>1, <1>2, <2>2, <2>3, <2>4, <2>5 DEF Typed
<1>4. Slotted(x)
  BY <1>2 DEF Slotted
<1>5. <<>> \o <<>> = <<>> /\ Len(<<>>) = 0 /\ 1 .. 0 = {}
  OBVIOUS
<1>6. Numbered(x)
  BY <1>2, <1>5 DEF Numbered, InOrder
<1>7. Kept(x) = <<>>
  BY <1>2, <1>5 DEF Kept, Lead
<1>8. Fronted(x) /\ Mixed(<<>>, x.dict, x.dictWritten) /\ Rowed(<<>>, x.rowsWritten) /\ Begun(<<>>, x.cur)
  BY <1>2, <1>5 DEF Fronted, Mixed, Rowed, Begun
<1>9. Contained(<<>>, Lookup(x), x.cur, x.dict, x.memo, <<>>)
  <2>1. PICK c : c = [n \in 0 .. Len(<<>>) |-> 0]
    BY Zenon
  <2>2. c \in [0 .. Len(<<>>) -> 0 .. Len(<<>>)] /\ c[0] = 0 /\ c[Len(<<>>)] = 0
    BY <1>5, <2>1
  <2>3. Parts(<<>>, Lookup(x), <<>>, c)
    BY <1>5, <2>2 DEF Parts
  <2>4. Rest(x.cur, x.dict, x.memo, <<>>, c[Len(<<>>)])
    BY <1>2, <1>5, <2>2 DEF Rest
  <2> QED
    BY <2>2, <2>3, <2>4 DEF Contained
<1>10. Filtered(x, <<>>)
  BY DEF Filtered, Present
<1>11. Pending(x)
  BY <1>2 DEF Pending
<1> QED
  BY <1>2, <1>3, <1>4, <1>6, <1>7, <1>8, <1>9, <1>10, <1>11, RowsEmpty DEF Sound, Good, Right

\* A new writer satisfies the invariant.
THEOREM InitInv == Init => IInv
<1> SUFFICES ASSUME Init PROVE IInv
  OBVIOUS
<1>1. w = NewWriter /\ job = None /\ written = <<>> /\ failed = FALSE
  BY DEF Init
<1>2. Sound(w) /\ Right(w, <<>>) /\ ~w.err /\ w.rowsWritten + w.rows = Rows(<<>>)
  BY <1>1, InitSound
<1>3. Jobs
  BY <1>1 DEF Jobs, None
<1>4. written \in Seq(Level) /\ failed \in BOOLEAN
  <2>1. written \in Seq(Level)
    BY <1>1
  <2>2. failed \in BOOLEAN
    BY <1>1, Zenon
  <2> QED
    BY <2>1, <2>2
<1>5. Right(w, written) /\ w.rowsWritten + w.rows = Rows(written)
  BY <1>1, <1>2
<1> QED
  BY <1>2, <1>3, <1>4, <1>5 DEF IInv

\* The error of a call is returned, not kept in the writer.
LEMMA Cleared ==
    ASSUME NEW x, Sound(x), NEW y, y = [x EXCEPT !.err = FALSE]
    PROVE  /\ Sound(y) /\ ~y.err /\ y.rowsWritten + y.rows = x.rowsWritten + x.rows
           /\ y.closed = x.closed /\ y.dict = x.dict /\ y.memo = x.memo
           /\ \A wr : (Good(x, wr) => Good(y, wr)) /\ (Right(x, wr) => Right(y, wr))
<1>1. Typed(y) /\ Same(x, y, {"err"}) /\ y.err = FALSE
  BY DEF Sound, Typed, Same, Fields
<1>2. /\ Same(x, y, {"closed", "err"}) /\ Same(x, y, {"closed", "err", "preserved", "raw"})
      /\ y.closed = x.closed /\ y.dict = x.dict /\ y.memo = x.memo
  BY <1>1, Zenon DEF Same, Fields
<1>3. Sound(y) /\ y.rowsWritten + y.rows = x.rowsWritten + x.rows
  BY <1>1, <1>2, SameSound
<1>4. \A wr : Good(x, wr) => Good(y, wr) /\ (Pending(y) <=> Pending(x)) /\ (Finished(y) <=> Finished(x))
  BY <1>2, SameGood
<1> QED
  BY <1>1, <1>2, <1>3, <1>4, Zenon DEF Right

Adopts(x, y, m) ==
    /\ Sound(y) /\ (y.err <=> x.err) /\ (y.closed <=> x.closed) /\ y.dict /\ y.memo = m
    /\ y.rowsWritten + y.rows = x.rowsWritten + x.rows
    /\ \A wr \in Seq(Level) : Good(x, wr) /\ Pending(x) => Good(y, wr) /\ Pending(y)

\* The writer takes the dictionary m, which has the entries of d, when it has none yet.
LEMMA MemoSet ==
    ASSUME NEW x, Sound(x), x.dict, x.memo = <<>>, NEW m \in Seq(Vals), NEW d \in Seq(Vals),
           Range(d) \subseteq Range(m), NEW y, y = [x EXCEPT !.memo = m, !.preserved = d]
    PROVE  Adopts(x, y, m)
<1>1. Typed(x) /\ Slotted(x) /\ Numbered(x)
  BY DEF Sound
<1>2. Typed(y) /\ Same(x, y, {"memo", "preserved"}) /\ y.memo = m /\ y.preserved = d
  BY <1>1, Zenon DEF Typed, Same, Fields
<1>3. /\ y.dict = x.dict /\ y.refd = x.refd /\ y.pages = x.pages /\ y.out = x.out /\ y.cut = x.cut
      /\ y.cur = x.cur /\ y.rowsWritten = x.rowsWritten /\ y.rows = x.rows /\ y.closed = x.closed
      /\ y.dictWritten = x.dictWritten /\ y.bloom = x.bloom /\ y.bloomDone = x.bloomDone /\ y.err = x.err
  BY <1>2, Zenon DEF Same, Fields
<1>4. Slotted(y)
  BY <1>1, <1>2, <1>3 DEF Slotted
<1>5. Numbered(y)
  BY <1>1, <1>3 DEF Numbered
<1>6. ASSUME NEW wr \in Seq(Level), Good(x, wr), Pending(x) PROVE Good(y, wr) /\ Pending(y)
  <2>1. ~x.dictWritten /\ ~x.bloomDone
    BY <1>6 DEF Pending
  <2>2. PICK K, cur : K = Kept(x) /\ cur = x.cur
    OBVIOUS
  <2>3. Fronted(x)
    BY <1>6 DEF Good
  <2>4. K \in Seq(DataPage) /\ Kept(y) = K /\ cur \in Seq(Slot) /\ y.cur = cur
    <3>1. K \in Seq(DataPage)
      BY <1>1, <2>2, <2>3, LeadTyped
    <3>2. Kept(y) = K
      <4>1. Lead(x) = x.out /\ Lead(y) = y.out
        BY <1>3, <2>1 DEF Lead
      <4> QED
        BY <1>3, <2>2, <4>1, Zenon DEF Kept
    <3>3. cur \in Seq(Slot)
      BY <1>1, <2>2 DEF Typed
    <3> QED
      BY <1>3, <2>2, <3>1, <3>2, <3>3
  <2>5. Lookup(x) = <<>> /\ Lookup(y) = m
    BY <1>2, <1>3, <2>1 DEF Lookup
  <2>6. Contained(K, <<>>, cur, x.dict, <<>>, wr)
    BY <1>6, <2>2, <2>5, Zenon DEF Good
  <2>7. Grows(<<>>, m)
    BY DEF Grows, Extends
  <2>8. Stands(<<>>, x.dict, m, <<>>)
    BY DEF Stands
  <2>9. <<>> \in Seq(Level) /\ cur \o <<>> = cur /\ wr \o <<>> = wr
    BY <2>4, CatEmpty
  <2>10. Contained(K, m, cur \o <<>>, x.dict, m, wr \o <<>>)
    <3>1. PICK e, dict : e = <<>> /\ dict = x.dict
      BY Zenon
    <3>2. /\ e \in Seq(Level) /\ Contained(K, e, cur, dict, e, wr) /\ Stands(e, dict, m, e)
          /\ \A n \in 1 .. Len(K) : K[n].dict => Grows(e, m)
          /\ dict => Grows(e, m)
      BY <2>6, <2>7, <2>8, <2>9, <3>1, Zenon
    <3>3. Contained(K, m, cur \o e, dict, m, wr \o e)
      BY <2>4, <3>2, ContainedCat, Zenon
    <3> QED
      BY <3>1, <3>3, Zenon
  <2>11. Contained(K, m, cur, x.dict, m, wr)
    BY <2>9, <2>10, Zenon
  <2>12. Fronted(y)
    BY <1>3, <2>1, <2>3 DEF Fronted
  <2>13. Filtered(y, wr)
    <3>1. x.refd = {}
      BY <1>1 DEF Slotted
    <3>2. Present(wr) = {}
      BY <1>6, <2>1, <3>1 DEF Good, Filtered
    <3> QED
      BY <3>2 DEF Filtered
  <2>14. Pending(y)
    BY <1>3, <2>1 DEF Pending
  <2> QED
    BY <1>2, <1>3, <1>6, <2>2, <2>4, <2>5, <2>11, <2>12, <2>13, <2>14, Zenon DEF Good
<1> QED
  BY <1>2, <1>3, <1>4, <1>5, <1>6 DEF Sound, Adopts

LEMMA Unfold ==
    ASSUME IInv
    PROVE  /\ Sound(w) /\ Typed(w) /\ ~w.err /\ Jobs /\ written \in Seq(Level) /\ failed \in BOOLEAN
           /\ w.rowsWritten + w.rows = Rows(written)
           /\ ~failed => Right(w, written) /\ Good(w, written)
           /\ ~failed /\ ~w.closed => Pending(w)
BY DEF IInv, Right, Sound

\* What a call may be left to write.
Task(op, lv) == [op |-> op, rest |-> lv]

Startable(lv) == lv \in Seq(Level) /\ lv # <<>> /\ (Aligned => lv[1].rep = 0)

LEMMA JobsNone ==
    ASSUME job' = None
    PROVE  Jobs'
BY DEF Jobs, None

LEMMA JobsTask ==
    ASSUME NEW op \in {"values", "indices"}, NEW lv, Startable(lv), job' = Task(op, lv), ~w'.closed,
           op = "indices" => w'.dict /\ Present(lv) \subseteq Range(w'.memo)
    PROVE  Jobs'
<1>1. job'.op = op /\ job'.rest = lv /\ job' \in [op : {"none", "values", "indices"}, rest : Seq(Level)]
  BY DEF Task, Startable
<1> QED
  BY <1>1 DEF Jobs, Startable

LEMMA Inputted ==
    ASSUME NEW lv \in Inputs, Acceptable(lv)
    PROVE  Startable(lv)
BY Columns DEF Acceptable, Startable

\* A call is made, and the writer stays as it is.
LEMMA SameWriter ==
    ASSUME IInv, w' = w, written' = written, Jobs', failed' = failed \/ failed' = TRUE
    PROVE  IInv'
<1>1. failed' \in BOOLEAN /\ (~failed' => ~failed)
  <2>1. failed \in BOOLEAN
    BY Unfold
  <2>2. CASE failed' = failed
    BY <2>1, <2>2
  <2>3. CASE failed' = TRUE
    BY <2>3
  <2> QED
    BY <2>2, <2>3, Zenon
<1> QED
  BY <1>1, Unfold DEF IInv

LEMMA WriteBatchInv ==
    ASSUME IInv, NEW lv \in Inputs, WriteBatch(lv)
    PROVE  IInv'
<1>1. w' = w /\ written' = written /\ failed' = failed /\ job' = Task("values", lv) /\ ~w'.closed /\ Acceptable(lv)
  BY DEF WriteBatch, Call, Task
<1>2. Jobs'
  BY <1>1, Inputted, JobsTask
<1> QED
  BY <1>1, <1>2, SameWriter

LEMMA RefuseInv ==
    ASSUME IInv, NEW lv \in Inputs, Refuse(lv)
    PROVE  IInv'
<1>1. w' = w /\ written' = written /\ failed' = failed /\ job' = None
  BY DEF Refuse, Call
<1> QED
  BY <1>1, JobsNone, SameWriter

\* The levels lv are cut into a batch a and the rest b.
CutInto(lv, a, b) ==
    /\ Startable(a) /\ b \in Seq(Level) /\ (b # <<>> => Startable(b))
    /\ Present(a) \subseteq Present(lv) /\ Present(b) \subseteq Present(lv)

\* A batch leaves the levels from the row after it on.
LEMMA Batches ==
    ASSUME NEW lv, Startable(lv), NEW n, n = NextBatch(lv),
           NEW a, a = SubSeq(lv, 1, n), NEW b, b = SubSeq(lv, n + 1, Len(lv))
    PROVE  CutInto(lv, a, b)
<1>1. lv \in Seq(Level) /\ lv # <<>> /\ Len(lv) \in Nat \ {0}
  BY DEF Startable
<1>2. n \in 1 .. Len(lv) /\ (Aligned /\ n < Len(lv) => lv[n + 1].rep = 0)
  BY <1>1, NextBatchAligned
<1>3. a \in Seq(Level) /\ Len(a) = n /\ \A i \in 1 .. n : a[i] = lv[i]
  BY <1>1, <1>2
<1>4. b \in Seq(Level) /\ Len(b) = Len(lv) - n /\ \A i \in 1 .. Len(lv) - n : b[i] = lv[n + i]
  BY <1>1, <1>2
<1>5. Startable(a)
  BY <1>2, <1>3 DEF Startable
<1>6. b # <<>> => Startable(b)
  <2> HAVE b # <<>>
  <2>1. Len(b) >= 1 /\ n < Len(lv)
    BY <1>2, <1>4
  <2>2. b[1] = lv[n + 1]
    <3>1. 1 \in 1 .. Len(lv) - n
      BY <1>1, <1>2, <2>1
    <3> QED
      BY <1>4, <3>1
  <2> QED
    BY <1>2, <1>4, <2>1, <2>2, Zenon DEF Startable
<1>7. Present(a) \subseteq Present(lv)
  BY <1>1, <1>2, <1>3 DEF Present
<1>8. Present(b) \subseteq Present(lv)
  <2> SUFFICES ASSUME NEW v \in Present(b) PROVE v \in Present(lv)
    OBVIOUS
  <2>1. PICK i \in 1 .. Len(lv) - n : b[i].val = v /\ v # Null
    BY <1>4 DEF Present
  <2>2. n + i \in 1 .. Len(lv) /\ lv[n + i].val = v
    BY <1>1, <1>2, <1>4, <2>1, SMTT(30)
  <2>3. n + i \in DOMAIN lv
    BY <1>1, <2>2
  <2> QED
    BY <2>1, <2>2, <2>3 DEF Present
<1> QED
  BY <1>4, <1>5, <1>6, <1>7, <1>8 DEF CutInto

LEMMA BatchInv ==
    ASSUME IInv, Batch
    PROVE  IInv'
<1>1. PICK lv, op, n, a, b : /\ lv = job.rest /\ op = job.op /\ n = NextBatch(lv)
                             /\ a = SubSeq(lv, 1, n) /\ b = SubSeq(lv, n + 1, Len(lv))
  BY Zenon
<1>2. Jobs /\ job # None
  BY Unfold DEF Batch
<1>3. job = [op |-> op, rest |-> lv] /\ op \in {"none", "values", "indices"}
  BY <1>1, <1>2 DEF Jobs
<1>4. op # "none"
  BY <1>1, <1>2, <1>3 DEF Jobs, None
<1>5. op \in {"values", "indices"} /\ Startable(lv) /\ ~w.closed
      /\ (op = "indices" => w.dict /\ Present(lv) \subseteq Range(w.memo))
  BY <1>1, <1>2, <1>3, <1>4 DEF Jobs, Startable
<1>6. /\ Startable(a) /\ b \in Seq(Level) /\ (b # <<>> => Startable(b))
      /\ Present(a) \subseteq Present(lv) /\ Present(b) \subseteq Present(lv)
  <2>1. Startable(lv) /\ n = NextBatch(lv) /\ a = SubSeq(lv, 1, n) /\ b = SubSeq(lv, n + 1, Len(lv))
    BY <1>1, <1>5
  <2>2. CutInto(lv, a, b)
    BY <2>1, Batches, Zenon
  <2> QED
    BY <2>2 DEF CutInto
<1>7. Outcome(WriteOne(w, op, a), b) /\ written' = written \o a
  BY <1>1 DEF Batch
<1>8. PICK x \in WriteOne(w, op, a) :
         /\ w' = [x EXCEPT !.err = FALSE] /\ failed' = (failed \/ x.err)
         /\ job' = IF x.err \/ b = <<>> THEN None ELSE [job EXCEPT !.rest = b]
  BY <1>7, Zenon DEF Outcome
<1>9. a \in Seq(Level) /\ a # <<>> /\ (Aligned => a[1].rep = 0)
  BY <1>6 DEF Startable
<1>10. op = "indices" => w.dict /\ Present(a) \subseteq Range(w.memo)
  BY <1>5, <1>6
<1>11. Sound(w) /\ ~w.err /\ written \in Seq(Level) /\ failed \in BOOLEAN /\ w.rowsWritten + w.rows = Rows(written)
  BY Unfold
<1>12. /\ Sound(x) /\ x.closed = w.closed /\ x.rowsWritten + x.rows = w.rowsWritten + w.rows + Rows(a)
       /\ op = "indices" => x.dict = w.dict /\ x.memo = w.memo
  BY <1>5, <1>8, <1>9, <1>10, <1>11, OneSound
<1>13. x.err \in BOOLEAN
  BY <1>12 DEF Sound, Typed
<1>14. ~failed /\ ~x.err => Right(x, written \o a)
  <2> HAVE ~failed /\ ~x.err
  <2>1. Good(w, written) /\ Pending(w)
    BY <1>5, Unfold
  <2>2. Good(x, written \o a) /\ Pending(x)
    BY <1>5, <1>8, <1>9, <1>10, <1>11, <2>1, OneGood
  <2> QED
    BY <1>5, <1>12, <2>2 DEF Right
<1>15. /\ Sound(w') /\ ~w'.err /\ w'.rowsWritten + w'.rows = x.rowsWritten + x.rows
       /\ w'.closed = x.closed /\ w'.dict = x.dict /\ w'.memo = x.memo
       /\ Right(x, written \o a) => Right(w', written \o a)
  BY <1>8, <1>12, Cleared
<1>16. written' \in Seq(Level) /\ Rows(written') = Rows(written) + Rows(a)
  BY <1>7, <1>9, <1>11, RowsCat
<1>17. Jobs'
  <2>1. CASE x.err \/ b = <<>>
    BY <1>8, <2>1, JobsNone
  <2>2. CASE ~(x.err \/ b = <<>>)
    <3>1. job' = Task(op, b)
      BY <1>3, <1>8, <2>2 DEF Task
    <3>2. ~w'.closed /\ (op = "indices" => w'.dict /\ Present(b) \subseteq Range(w'.memo))
      BY <1>5, <1>6, <1>12, <1>15
    <3> QED
      BY <1>5, <1>6, <2>2, <3>1, <3>2, JobsTask
  <2> QED
    BY <2>1, <2>2
<1>18. failed' \in BOOLEAN /\ (~failed' => ~failed /\ ~x.err)
  BY <1>8, <1>11, <1>13
<1>19. w'.rowsWritten + w'.rows = Rows(written')
  BY <1>11, <1>12, <1>15, <1>16
<1> QED
  BY <1>7, <1>14, <1>15, <1>16, <1>17, <1>18, <1>19 DEF IInv

LEMMA CloseInv ==
    ASSUME IInv, Close
    PROVE  IInv'
<1>1. PICK x \in CloseWriter(w) : w' = [x EXCEPT !.err = FALSE] /\ failed' = (failed \/ x.err) /\ job' = None
  BY Zenon DEF Close, Outcome
<1>2. ~w.closed /\ written' = written
  BY DEF Close
<1>3. Sound(w) /\ ~w.err /\ written \in Seq(Level) /\ failed \in BOOLEAN /\ w.rowsWritten + w.rows = Rows(written)
  BY Unfold
<1>4. Sound(x) /\ x.closed = TRUE /\ x.rowsWritten + x.rows = w.rowsWritten + w.rows
  BY <1>1, <1>3, CloseSound, Zenon
<1>5. ~failed /\ ~x.err => Right(x, written)
  <2> HAVE ~failed /\ ~x.err
  <2>1. Good(w, written) /\ Pending(w)
    BY <1>2, Unfold
  <2>2. Good(x, written) /\ Finished(x)
    BY <1>1, <1>3, <2>1, CloseGood
  <2> QED
    BY <1>4, <2>2 DEF Right
<1>6. /\ Sound(w') /\ ~w'.err /\ w'.rowsWritten + w'.rows = x.rowsWritten + x.rows
      /\ Right(x, written) => Right(w', written)
  BY <1>1, <1>4, Cleared
<1>7. x.err \in BOOLEAN
  BY <1>4 DEF Sound, Typed
<1>8. failed' \in BOOLEAN /\ (~failed' => ~failed /\ ~x.err)
  BY <1>1, <1>3, <1>7
<1>9. Jobs'
  BY <1>1, JobsNone
<1> QED
  BY <1>2, <1>3, <1>4, <1>5, <1>6, <1>8, <1>9 DEF IInv

\* The writer may end in x before the array of a call is written as values.
Ready(x) ==
    /\ Sound(x) /\ x.closed = w.closed /\ x.rowsWritten + x.rows = w.rowsWritten + w.rows
    /\ ~failed /\ ~x.err => Good(x, written) /\ Pending(x)

LEMMA DenseInv ==
    ASSUME IInv, ~w.closed, NEW S, \A x \in S : Ready(x), NEW lv, Startable(lv), Dense(S, lv), written' = written
    PROVE  IInv'
<1>1. PICK x \in S : /\ w' = [x EXCEPT !.err = FALSE] /\ failed' = (failed \/ x.err)
                     /\ job' = IF x.err THEN None ELSE [op |-> "values", rest |-> lv]
  BY Zenon DEF Dense
<1>2. /\ Sound(x) /\ x.closed = w.closed /\ x.rowsWritten + x.rows = w.rowsWritten + w.rows
      /\ ~failed /\ ~x.err => Good(x, written) /\ Pending(x)
  BY <1>1 DEF Ready
<1>3. written \in Seq(Level) /\ failed \in BOOLEAN /\ w.rowsWritten + w.rows = Rows(written)
  BY Unfold
<1>4. ~failed /\ ~x.err => Right(x, written)
  BY <1>2 DEF Right
<1>5. /\ Sound(w') /\ ~w'.err /\ w'.rowsWritten + w'.rows = x.rowsWritten + x.rows
      /\ w'.closed = x.closed /\ (Right(x, written) => Right(w', written))
  BY <1>1, <1>2, Cleared
<1>6. x.err \in BOOLEAN
  BY <1>2 DEF Sound, Typed
<1>7. failed' \in BOOLEAN /\ (~failed' => ~failed /\ ~x.err)
  BY <1>1, <1>3, <1>6
<1>8. Jobs'
  <2>1. CASE x.err
    BY <1>1, <2>1, JobsNone
  <2>2. CASE ~x.err
    <3>1. job' = Task("values", lv) /\ ~w'.closed
      BY <1>1, <1>2, <1>5, <2>2 DEF Task
    <3> QED
      BY <3>1, JobsTask
  <2> QED
    BY <2>1, <2>2
<1> QED
  BY <1>2, <1>3, <1>4, <1>5, <1>7, <1>8 DEF IInv

LEMMA FallbackReady ==
    ASSUME IInv, NEW x, Sound(x), ~x.err, x.closed = w.closed, x.rowsWritten + x.rows = w.rowsWritten + w.rows,
           ~failed => Good(x, written) /\ Pending(x), NEW y, y \in FallbackToPlain(x)
    PROVE  Ready(y)
<1>1. Keeps(x, y)
  BY FallbackSound
<1>2. ~failed /\ ~y.err => Good(y, written) /\ Pending(y)
  BY FallbackGood
<1> QED
  BY <1>1, <1>2 DEF Ready, Keeps

\* The dictionary of a dictionary array as the writer's own.
LEMMA InsertAll ==
    ASSUME NEW d \in Seq(Vals), NEW m, m = Insert(<<>>, [i \in DOMAIN d |-> [val |-> d[i]]])
    PROVE  m \in Seq(Vals) /\ Range(d) \subseteq Range(m)
<1>1. PICK e : e = [i \in DOMAIN d |-> [val |-> d[i]]]
  OBVIOUS
<1>2. Len(e) = Len(d) /\ Len(d) \in Nat /\ DOMAIN d = 1 .. Len(d)
  BY <1>1
<1>3. \A i \in 1 .. Len(e) : e[i].val = d[i] /\ d[i] \in Vals
  BY <1>1, <1>2
<1>4. <<>> \in Seq(Vals) /\ Len(e) \in Nat /\ \A i \in 1 .. Len(e) : e[i].val \in Vals \cup {Null}
  BY <1>2, <1>3
<1>5. /\ Insert(<<>>, e) \in Seq(Vals)
      /\ \A i \in 1 .. Len(e) : e[i].val # Null => e[i].val \in Range(Insert(<<>>, e))
  BY <1>4, InsertKeeps, Zenon
<1>6. m = Insert(<<>>, e)
  BY <1>1
<1>7. \A i \in 1 .. Len(d) : d[i] \in Range(m)
  BY <1>2, <1>3, <1>5, <1>6, Columns
<1> QED
  BY <1>2, <1>5, <1>6, <1>7, Zenon DEF Range

LEMMA WriteDictionaryArrowInv ==
    ASSUME IInv, NEW d \in Dicts, NEW lv \in Inputs, WriteDictionaryArrow(d, lv)
    PROVE  IInv'
<1>1. Call /\ Acceptable(lv) /\ Present(lv) \subseteq Range(d) /\ written' = written
  BY DEF WriteDictionaryArrow
<1>2. Startable(lv) /\ ~w.closed /\ job = None /\ d \in Seq(Vals)
  BY <1>1, Inputted, Columns DEF Call
<1>3. /\ Sound(w) /\ ~w.err /\ written \in Seq(Level) /\ failed \in BOOLEAN
      /\ ~failed => Good(w, written) /\ Pending(w)
  BY <1>2, Unfold
<1>4. CASE ~w.dict /\ Dense({w}, lv)
  <2>1. \A x \in {w} : Ready(x)
    BY <1>3 DEF Ready
  <2> QED
    BY <1>1, <1>2, <1>4, <2>1, DenseInv
<1>5. CASE failed' = TRUE /\ UNCHANGED <<w, job, faults>>
  <2>1. w' = w /\ job' = None
    BY <1>2, <1>5
  <2> QED
    BY <1>1, <1>5, <2>1, JobsNone, SameWriter
<1>6. CASE /\ w.dict /\ w.memo = <<>>
           /\ w' = [w EXCEPT !.memo = d, !.preserved = d]
           /\ job' = [op |-> "indices", rest |-> lv] /\ failed' = failed
  <2>1. /\ Sound(w') /\ ~w'.err /\ ~w'.closed /\ w'.dict /\ w'.memo = d
        /\ w'.rowsWritten + w'.rows = w.rowsWritten + w.rows
        /\ Good(w, written) /\ Pending(w) => Good(w', written) /\ Pending(w')
    <3>1. Adopts(w, w', d)
      BY <1>2, <1>3, <1>6, MemoSet, Zenon
    <3> QED
      BY <1>2, <1>3, <3>1 DEF Adopts
  <2>2. job' = Task("indices", lv) /\ w'.dict /\ ~w'.closed /\ Present(lv) \subseteq Range(w'.memo)
    BY <1>1, <1>2, <1>6, <2>1 DEF Task
  <2>3. Jobs'
    BY <1>2, <2>2, JobsTask
  <2>4. ~failed => Right(w', written)
    BY <1>2, <1>3, <2>1 DEF Right
  <2>5. w'.rowsWritten + w'.rows = Rows(written)
    BY <2>1, Unfold
  <2> QED
    BY <1>1, <1>3, <1>6, <2>1, <2>3, <2>4, <2>5 DEF IInv
<1>7. CASE /\ w.dict /\ w.memo = <<>>
           /\ Dense(FallbackToPlain([w EXCEPT !.memo = Insert(<<>>, [i \in DOMAIN d |-> [val |-> d[i]]]),
                                              !.preserved = d]), lv)
  <2>1. PICK m : m = Insert(<<>>, [i \in DOMAIN d |-> [val |-> d[i]]])
    OBVIOUS
  <2>2. m \in Seq(Vals) /\ Range(d) \subseteq Range(m)
    BY <1>2, <2>1, InsertAll
  <2>3. PICK x : x = [w EXCEPT !.memo = m, !.preserved = d]
    OBVIOUS
  <2>4. /\ Sound(x) /\ ~x.err /\ x.closed = w.closed
        /\ x.rowsWritten + x.rows = w.rowsWritten + w.rows
        /\ Good(w, written) /\ Pending(w) => Good(x, written) /\ Pending(x)
    <3>1. Adopts(w, x, m)
      BY <1>2, <1>3, <1>7, <2>2, <2>3, MemoSet, Zenon
    <3>2. x.closed \in BOOLEAN /\ w.closed \in BOOLEAN
      BY <1>3, <3>1 DEF Adopts, Sound, Typed
    <3> QED
      BY <1>3, <3>1, <3>2 DEF Adopts
  <2>5. \A y \in FallbackToPlain(x) : Ready(y)
    BY <1>3, <2>4, FallbackReady
  <2>6. Dense(FallbackToPlain(x), lv)
    BY <1>7, <2>1, <2>3
  <2> QED
    BY <1>1, <1>2, <2>5, <2>6, DenseInv
<1>8. CASE Dense(FallbackToPlain(w), lv)
  <2>1. \A y \in FallbackToPlain(w) : Ready(y)
    BY <1>3, FallbackReady
  <2> QED
    BY <1>1, <1>2, <1>8, <2>1, DenseInv
<1>9. CASE /\ w.dict /\ w.preserved = d
           /\ job' = [op |-> "indices", rest |-> lv] /\ UNCHANGED <<w, failed, faults>>
  <2>1. w' = w /\ failed' = failed /\ job' = Task("indices", lv)
    BY <1>9 DEF Task
  <2>2. d # Null
    BY <1>2, Columns
  <2>3. Range(d) \subseteq Range(w.memo)
    BY <1>3, <1>9, <2>2 DEF Sound, Slotted
  <2>4. w'.dict /\ ~w'.closed /\ Present(lv) \subseteq Range(w'.memo)
    BY <1>1, <1>2, <1>9, <2>1, <2>3
  <2>5. Jobs'
    BY <1>2, <2>1, <2>4, JobsTask
  <2> QED
    BY <1>1, <2>1, <2>5, SameWriter
<1> QED
  BY <1>4, <1>5, <1>6, <1>7, <1>8, <1>9, Zenon DEF WriteDictionaryArrow

\* Every step keeps the invariant.
THEOREM StepInv == IInv /\ [Next]_vars => IInv'
<1> SUFFICES ASSUME IInv, [Next]_vars PROVE IInv'
  OBVIOUS
<1>1. CASE UNCHANGED vars
  <2>1. w' = w /\ written' = written /\ failed' = failed /\ job' = job
    BY <1>1 DEF vars
  <2>2. Jobs'
    BY <2>1, Unfold DEF Jobs
  <2> QED
    BY <2>1, <2>2, SameWriter
<1>2. CASE \E lv \in Inputs : WriteBatch(lv)
  BY <1>2, WriteBatchInv
<1>3. CASE \E lv \in Inputs : Refuse(lv)
  BY <1>3, RefuseInv
<1>4. CASE \E d \in Dicts, lv \in Inputs : WriteDictionaryArrow(d, lv)
  BY <1>4, WriteDictionaryArrowInv
<1>5. CASE Batch
  BY <1>5, BatchInv
<1>6. CASE Close
  BY <1>6, CloseInv
<1> QED
  BY <1>1, <1>2, <1>3, <1>4, <1>5, <1>6 DEF Next

-----------------------------------------------------------------------------
(* What the invariant says of the pages of the chunk.                        *)

\* The number of pages before the data pages.
Before(x) == IF x.dictWritten THEN 1 ELSE 0

\* B is the pages K behind o others.
Behind(B, K, o) ==
    /\ o \in {0, 1} /\ K \in Seq(DataPage) /\ Len(K) \in Nat /\ Len(B) = Len(K) + o /\ DOMAIN B = 1 .. Len(B)
    /\ \A i \in 1 .. Len(K) : B[i + o] = K[i]
    /\ \A i \in 1 .. Len(B) : IsData(B[i]) <=> i > o

LEMMA BuiltKept ==
    ASSUME NEW x, Typed(x), Fronted(x)
    PROVE  Behind(x.out \o x.pages, Kept(x), Before(x))
<1>1. PICK s, b, B, K : s = x.out /\ b = x.pages /\ B = x.out \o x.pages /\ K = Kept(x)
  BY Zenon
<1>2. s \in Seq(Page) /\ b \in Seq(Page) /\ B = s \o b /\ K \in Seq(DataPage) /\ x.dictWritten \in BOOLEAN
  BY <1>1, LeadTyped, PagesTyped, Zenon DEF Typed
<1>3. /\ Len(B) = Len(s) + Len(b) /\ Len(s) \in Nat /\ Len(b) \in Nat /\ DOMAIN B = 1 .. Len(B)
      /\ \A i \in 1 .. Len(s) : B[i] = s[i]
      /\ \A i \in 1 .. Len(b) : B[Len(s) + i] = b[i]
  BY <1>2
<1>4. \A p \in DataPage : IsData(p)
  BY PageFields
<1>5. CASE x.dictWritten
  <2>1. s # <<>> /\ s[1] \in DictPage
    BY <1>1, <1>5 DEF Fronted
  <2>2. PICK t : t = Tail(s)
    BY Zenon
  <2>3. t \in Seq(Page) /\ Len(t) = Len(s) - 1 /\ \A i \in 1 .. Len(t) : t[i] = s[i + 1]
    BY <1>2, <2>1, <2>2
  <2>4. K = t \o b
    BY <1>1, <1>5, <2>2, Zenon DEF Kept, Lead
  <2>5. Len(K) = Len(t) + Len(b)
    <3>1. \A a, c \in Seq(Page) : Len(a \o c) = Len(a) + Len(c)
      OBVIOUS
    <3> QED
      BY <1>2, <2>3, <2>4, <3>1, Zenon
  <2>6. ASSUME NEW i \in 1 .. Len(K) PROVE B[i + 1] = K[i]
    <3>1. CASE i <= Len(t)
      <4>1. K[i] = t[i]
        BY <1>2, <1>3, <2>3, <2>4, <3>1
      <4>2. i + 1 \in 1 .. Len(s) /\ i \in 1 .. Len(t)
        BY <1>3, <2>3, <2>5, <3>1
      <4> QED
        BY <1>3, <2>3, <4>1, <4>2
    <3>2. CASE i > Len(t)
      <4>1. PICK k : k = i - Len(t)
        OBVIOUS
      <4>2. k \in 1 .. Len(b) /\ i = Len(t) + k /\ i + 1 = Len(s) + k
        BY <1>3, <2>3, <2>5, <3>2, <4>1
      <4>3. K[i] = b[k]
        BY <1>2, <2>3, <2>4, <4>2
      <4> QED
        BY <1>3, <4>2, <4>3
    <3> QED
      BY <1>3, <2>3, <3>1, <3>2
  <2>7. B[1] = s[1] /\ ~IsData(B[1])
    <3>1. 1 \in 1 .. Len(s)
      BY <1>2, <2>1
    <3> QED
      BY <1>3, <2>1, <3>1, PageFields
  <2>8. Len(B) = Len(K) + 1
    BY <1>3, <2>3, <2>5
  <2>9. ASSUME NEW i \in 1 .. Len(B), i > 1 PROVE IsData(B[i])
    <3>1. i - 1 \in 1 .. Len(K) /\ (i - 1) + 1 = i
      BY <1>3, <2>3, <2>5, <2>8, <2>9
    <3>2. B[i] = K[i - 1]
      BY <2>6, <3>1
    <3> QED
      BY <1>2, <1>4, <3>1, <3>2
  <2>10. \A i \in 1 .. Len(B) : IsData(B[i]) <=> i > 1
    BY <1>3, <2>7, <2>9
  <2>11. Len(K) \in Nat /\ Before(x) = 1
    BY <1>2, <1>5 DEF Before
  <2> QED
    BY <1>1, <1>2, <1>3, <2>6, <2>8, <2>10, <2>11, Zenon DEF Behind
<1>6. CASE ~x.dictWritten
  <2>1. K = B /\ Before(x) = 0
    BY <1>1, <1>6, Zenon DEF Kept, Lead, Before
  <2>2. Len(K) \in Nat /\ \A i \in 1 .. Len(K) : i + 0 = i /\ i > 0 /\ IsData(K[i])
    BY <1>2, <1>4
  <2>3. /\ Len(B) = Len(K) + 0 /\ \A i \in 1 .. Len(K) : B[i + 0] = K[i]
        /\ \A i \in 1 .. Len(B) : IsData(B[i]) <=> i > 0
    BY <2>1, <2>2
  <2>4. Behind(B, K, 0)
    BY <1>2, <1>3, <2>2, <2>3 DEF Behind
  <2> QED
    BY <1>1, <2>1, <2>4
<1> QED
  BY <1>2, <1>5, <1>6

LEMMA InvRowAligned ==
    ASSUME IInv
    PROVE  RowAligned
<1>1. w.rowsWritten + w.rows = Rows(written)
  BY Unfold
<1>2. ASSUME Aligned, ~failed, NEW i \in DOMAIN Built, IsData(Built[i])
      PROVE  /\ Built[i].levels[1].rep = 0
             /\ Built[i].first = IF i = 1 \/ ~IsData(Built[i - 1]) THEN 0
                                 ELSE Built[i - 1].first + Rows(Built[i - 1].levels)
  <2>1. Typed(w) /\ Good(w, written)
    BY <1>2, Unfold
  <2>2. Fronted(w)
    BY <2>1 DEF Good
  <2>3. PICK B, K, o : B = Built /\ K = Kept(w) /\ o = Before(w)
    OBVIOUS
  <2>4. Behind(B, K, o)
    BY <2>1, <2>2, <2>3, BuiltKept DEF Built
  <2>5. Begun(K, w.cur) /\ Rowed(K, w.rowsWritten)
    BY <2>1, <2>3 DEF Good
  <2>6. /\ o \in {0, 1} /\ Len(K) \in Nat /\ Len(B) = Len(K) + o /\ DOMAIN B = 1 .. Len(B)
        /\ \A j \in 1 .. Len(K) : B[j + o] = K[j]
        /\ \A j \in 1 .. Len(B) : IsData(B[j]) <=> j > o
    BY <2>4 DEF Behind
  <2>7. PICK k : k = i - o
    OBVIOUS
  <2>8. i \in 1 .. Len(B) /\ i > o
    BY <1>2, <2>3, <2>6
  <2>9. k \in 1 .. Len(K) /\ i = k + o
    BY <2>6, <2>7, <2>8
  <2>10. B[i] = K[k]
    BY <2>6, <2>9
  <2>11. B[i].levels[1].rep = 0
    BY <1>2, <2>5, <2>9, <2>10 DEF Begun
  <2>12. B[i].first = IF k = 1 THEN 0 ELSE K[k - 1].first + Rows(K[k - 1].levels)
    BY <2>5, <2>9, <2>10 DEF Rowed
  <2>13. CASE k = 1
    <3>1. i = 1 \/ (i - 1 \in 1 .. Len(B) /\ ~(i - 1 > o))
      BY <2>6, <2>8, <2>9, <2>13
    <3>2. i = 1 \/ ~IsData(B[i - 1])
      BY <2>6, <3>1
    <3> QED
      BY <2>3, <2>11, <2>12, <2>13, <3>2
  <2>14. CASE k # 1
    <3>1. i # 1 /\ i - 1 \in 1 .. Len(B) /\ i - 1 > o /\ k - 1 \in 1 .. Len(K) /\ (k - 1) + o = i - 1
      BY <2>6, <2>8, <2>9, <2>14
    <3>2. IsData(B[i - 1]) /\ B[i - 1] = K[k - 1]
      BY <2>6, <3>1
    <3> QED
      BY <2>3, <2>11, <2>12, <2>14, <3>1, <3>2
  <2> QED
    BY <2>13, <2>14
<1> QED
  BY <1>1, <1>2 DEF RowAligned

LEMMA InvBloomComplete ==
    ASSUME IInv
    PROVE  BloomComplete
<1> SUFFICES ASSUME w.closed, ~failed PROVE Present(written) \subseteq w.bloom
  BY DEF BloomComplete
<1>1. Good(w, written) /\ Finished(w)
  BY Unfold DEF Right
<1> QED
  BY <1>1 DEF Good, Filtered, Finished

LEMMA InvPagesInOrder ==
    ASSUME IInv
    PROVE  PagesInOrder
<1>1. Typed(w) /\ Numbered(w)
  BY Unfold DEF Sound
<1>2. \A i, j \in DOMAIN Built : i < j /\ IsData(Built[i]) /\ IsData(Built[j]) => Built[i].seq < Built[j].seq
  <2>1. w.out \in Seq(Page) /\ w.pages \in Seq(Page)
    BY <1>1, PagesTyped
  <2>2. DOMAIN Built = 1 .. Len(Built)
    BY <2>1 DEF Built
  <2>3. InOrder(Built, w.cut)
    BY <1>1 DEF Numbered, Built
  <2> QED
    BY <2>2, <2>3 DEF InOrder
<1>3. ASSUME ~failed, NEW i \in DOMAIN w.out
      PROVE  /\ w.out[i].kind = "dictionary" => i = 1
             /\ IsData(w.out[i]) /\ w.out[i].dict =>
                  /\ w.out[1].kind = "dictionary"
                  /\ \A k \in DOMAIN w.out[i].levels :
                         w.out[i].levels[k].slot \in DOMAIN w.out[1].values \cup {Null}
                  /\ \A j \in 2 .. i : w.out[j].dict
  <2>1. Good(w, written)
    BY <1>3, Unfold
  <2>2. Fronted(w)
    BY <2>1 DEF Good
  <2>3. PICK s, b, B, K, o : s = w.out /\ b = w.pages /\ B = w.out \o w.pages /\ K = Kept(w) /\ o = Before(w)
    BY Zenon
  <2>4. Behind(B, K, o)
    BY <1>1, <2>2, <2>3, BuiltKept
  <2>5. /\ o \in {0, 1} /\ Len(K) \in Nat /\ Len(B) = Len(K) + o /\ DOMAIN B = 1 .. Len(B) /\ K \in Seq(DataPage)
        /\ \A j \in 1 .. Len(K) : B[j + o] = K[j]
        /\ \A j \in 1 .. Len(B) : IsData(B[j]) <=> j > o
    BY <2>4 DEF Behind
  <2>6. s \in Seq(Page) /\ b \in Seq(Page) /\ B = s \o b
    BY <1>1, <2>3, PagesTyped
  <2>7. Len(s) \in Nat /\ DOMAIN s = 1 .. Len(s) /\ Len(B) >= Len(s) /\ \A j \in 1 .. Len(s) : B[j] = s[j]
    BY <2>6
  <2>8. i \in 1 .. Len(s)
    BY <1>3, <2>3, <2>7
  <2>9. s[i].kind = "dictionary" => i = 1
    <3>1. s[i].kind = "dictionary" => ~IsData(s[i])
      BY DEF IsData
    <3> QED
      BY <2>2, <2>3, <2>8, <3>1 DEF Fronted
  <2>10. ASSUME IsData(s[i]), s[i].dict
         PROVE  /\ s[1].kind = "dictionary"
                /\ \A k \in DOMAIN s[i].levels : s[i].levels[k].slot \in DOMAIN s[1].values \cup {Null}
                /\ \A j \in 2 .. i : s[j].dict
    <3>1. B[i] = s[i] /\ i \in 1 .. Len(B) /\ i > o
      BY <2>5, <2>7, <2>8, <2>10
    <3>2. PICK n : n = i - o
      OBVIOUS
    <3>3. n \in 1 .. Len(K) /\ i = n + o
      BY <2>5, <3>1, <3>2
    <3>4. K[n] = s[i] /\ K[n] \in DataPage
      BY <2>5, <3>1, <3>3
    <3>5. Mixed(K, w.dict, w.dictWritten)
      BY <2>1, <2>3 DEF Good
    <3>6. w.dictWritten
      <4>1. w.dict \/ w.dictWritten
        BY <2>10, <3>3, <3>4, <3>5 DEF Mixed
      <4>2. s # <<>>
        BY <2>6, <2>8
      <4> QED
        BY <2>2, <2>3, <4>1, <4>2 DEF Fronted
    <3>7. o = 1 /\ s[1].kind = "dictionary" /\ Lookup(w) = s[1].values
      BY <2>2, <2>3, <3>6, PageFields DEF Before, Fronted, Lookup
    <3>8. PICK c : Parts(K, Lookup(w), written, c)
      BY <2>1, <2>3 DEF Good, Contained
    <3>9. \A k \in 1 .. Len(K[n].levels) : Reads(K[n].levels[k], K[n].dict, Lookup(w), written[c[n - 1] + k])
      BY <3>3, <3>8, Zenon DEF Parts
    <3>10. DOMAIN K[n].levels = 1 .. Len(K[n].levels)
      BY <3>4, PageFields
    <3>11. \A k \in DOMAIN s[i].levels : s[i].levels[k].slot \in DOMAIN s[1].values \cup {Null}
      BY <2>10, <3>4, <3>7, <3>9, <3>10, Zenon DEF Reads
    <3>12. ASSUME NEW j \in 2 .. i PROVE s[j].dict
      <4>1. PICK m : m = j - 1
        OBVIOUS
      <4>2. m \in 1 .. Len(K) /\ j = m + o /\ j \in 1 .. Len(s) /\ (m < n \/ m = n)
        BY <2>7, <2>8, <3>3, <3>7, <4>1
      <4>3. s[j] = K[m]
        BY <2>5, <2>7, <4>2
      <4> QED
        BY <2>10, <3>3, <3>4, <3>5, <4>2, <4>3 DEF Mixed
    <3> QED
      BY <3>7, <3>11, <3>12
  <2> QED
    BY <2>3, <2>9, <2>10, Zenon
<1> QED
  BY <1>2, <1>3 DEF PagesInOrder

-----------------------------------------------------------------------------
(* What a reader makes of the pages of a closed column.                      *)

\* The recursive function of Decoded.
Decoding(g) ==
    g = [n \in 0 .. Len(w.out) |->
            IF n = 0 THEN <<>>
            ELSE IF IsData(w.out[n]) THEN g[n - 1] \o Decode(w.out[n]) ELSE g[n - 1]]

LEMMA DecodedChoice == Decoded = (CHOOSE g : Decoding(g))[Len(w.out)]
BY DEF Decoded, Decoding

LEMMA DecodingSteps ==
    ASSUME Len(w.out) \in Nat, NEW g, Decoding(g)
    PROVE  /\ g[0] = <<>>
           /\ \A n \in 1 .. Len(w.out) :
                 g[n] = IF IsData(w.out[n]) THEN g[n - 1] \o Decode(w.out[n]) ELSE g[n - 1]
<1>1. g[0] = <<>>
  BY DEF Decoding
<1>2. ASSUME NEW n \in 1 .. Len(w.out)
      PROVE  g[n] = IF IsData(w.out[n]) THEN g[n - 1] \o Decode(w.out[n]) ELSE g[n - 1]
  <2>1. n \in 0 .. Len(w.out) /\ n # 0
    OBVIOUS
  <2> QED
    BY <2>1, Zenon DEF Decoding
<1> QED
  BY <1>1, <1>2

\* Two such functions agree.
LEMMA DecodingUnique ==
    ASSUME Len(w.out) \in Nat, NEW g, Decoding(g), NEW h, Decoding(h)
    PROVE  \A n \in 0 .. Len(w.out) : g[n] = h[n]
<1>1. PICK N : N = Len(w.out)
  OBVIOUS
<1>2. /\ g[0] = h[0]
      /\ \A n \in 1 .. N : g[n] = IF IsData(w.out[n]) THEN g[n - 1] \o Decode(w.out[n]) ELSE g[n - 1]
      /\ \A n \in 1 .. N : h[n] = IF IsData(w.out[n]) THEN h[n - 1] \o Decode(w.out[n]) ELSE h[n - 1]
  BY <1>1, DecodingSteps
<1>3. PICK S : S = {n \in Nat : n <= N => g[n] = h[n]}
  BY Zenon
<1>4. 0 \in S
  BY <1>2, <1>3
<1>5. ASSUME NEW n \in Nat, n \in S PROVE n + 1 \in S
  <2> SUFFICES ASSUME n + 1 <= N PROVE g[n + 1] = h[n + 1]
    BY <1>3
  <2>1. g[n] = h[n] /\ n + 1 \in 1 .. N /\ (n + 1) - 1 = n
    BY <1>1, <1>3, <1>5
  <2> QED
    BY <1>2, <2>1
<1>6. \A n \in Nat : n \in S
  BY <1>4, <1>5, NatSetInduction
<1> QED
  BY <1>1, <1>3, <1>6

LEMMA SubSeqCat ==
    ASSUME NEW wr \in Seq(Level), NEW a \in 0 .. Len(wr), NEW b \in 0 .. Len(wr), NEW e \in Seq(Level),
           Len(e) = b - a, \A i \in 1 .. b - a : e[i] = wr[a + i]
    PROVE  SubSeq(wr, 1, b) = SubSeq(wr, 1, a) \o e
<1>1. Len(wr) \in Nat /\ b - a \in Nat
  OBVIOUS
<1>2. e \in Seq(Level) /\ Len(e) = b - a
  OBVIOUS
<1>3. PICK l, r, s : l = SubSeq(wr, 1, b) /\ r = SubSeq(wr, 1, a) \o e /\ s = SubSeq(wr, 1, a)
  BY Zenon
<1>4. l \in Seq(Level) /\ Len(l) = b /\ \A i \in 1 .. b : l[i] = wr[i]
  BY <1>1, <1>3
<1>5. s \in Seq(Level) /\ Len(s) = a /\ \A i \in 1 .. a : s[i] = wr[i]
  BY <1>1, <1>3
<1>6. r \in Seq(Level) /\ Len(r) = b
  BY <1>1, <1>2, <1>3, <1>5
<1>7. ASSUME NEW i \in 1 .. b PROVE l[i] = r[i]
  <2>1. CASE i <= a
    BY <1>1, <1>2, <1>3, <1>4, <1>5, <2>1
  <2>2. CASE i > a
    <3>1. i - a \in 1 .. b - a /\ a + (i - a) = i
      BY <1>1, <2>2
    <3>2. r[i] = e[i - a]
      BY <1>1, <1>2, <1>3, <1>5, <2>2, <3>1
    <3>3. e[i - a] = wr[a + (i - a)]
      BY <3>1
    <3> QED
      BY <1>4, <3>1, <3>2, <3>3
  <2> QED
    BY <2>1, <2>2
<1> QED
  BY <1>3, <1>4, <1>6, <1>7, SameSeq, Zenon

\* A page reads back as the levels it holds.
LEMMA DecodePage ==
    ASSUME NEW p \in DataPage, NEW wr \in Seq(Level), NEW a \in 0 .. Len(wr), NEW b \in 0 .. Len(wr), NEW D,
           b = a + Len(p.levels), \A k \in 1 .. Len(p.levels) : Reads(p.levels[k], p.dict, D, wr[a + k]),
           p.dict => D = Dictionary /\ D \in Seq(Vals)
    PROVE  Decode(p) \in Seq(Level) /\ Len(Decode(p)) = b - a /\ \A i \in 1 .. b - a : Decode(p)[i] = wr[a + i]
<1>1. PICK lv, e, E, n : lv = p.levels /\ e = Decode(p) /\ E = Dictionary /\ n = b - a
  BY Zenon
<1>2. lv \in Seq(Slot) /\ p.dict \in BOOLEAN
  BY <1>1, PageFields
<1>3. DOMAIN lv = 1 .. n /\ n \in Nat /\ Len(wr) \in Nat /\ Len(lv) = n
  BY <1>1, <1>2
<1>4. e = [i \in DOMAIN lv |-> [rep |-> lv[i].rep,
              val |-> IF p.dict /\ lv[i].slot \in DOMAIN E THEN E[lv[i].slot] ELSE lv[i].slot]]
  BY <1>1 DEF Decode
<1>5. ASSUME NEW i \in 1 .. n PROVE e[i] = wr[a + i] /\ wr[a + i] \in Level
  <2>1. PICK l : l = wr[a + i]
    OBVIOUS
  <2>2. a + i \in 1 .. Len(wr)
    BY <1>1, <1>3
  <2>3. l \in Level
    BY <2>1, <2>2
  <2>4. l = [rep |-> l.rep, val |-> l.val]
    BY <2>3 DEF Level
  <2>5. Reads(lv[i], p.dict, D, l)
    BY <1>1, <1>3, <2>1
  <2>6. lv[i].rep = l.rep
    BY <2>5 DEF Reads
  <2>7. (IF p.dict /\ lv[i].slot \in DOMAIN E THEN E[lv[i].slot] ELSE lv[i].slot) = l.val
    <3>1. CASE lv[i].slot = Null
      <4>1. l.val = Null
        BY <2>5, <3>1 DEF Reads
      <4>2. p.dict => Null \notin DOMAIN E
        <5>1. p.dict => E \in Seq(Vals)
          BY <1>1
        <5> QED
          BY <5>1, Columns
      <4> QED
        BY <3>1, <4>1, <4>2, Zenon
    <3>2. CASE lv[i].slot # Null /\ p.dict
      <4>1. lv[i].slot \in DOMAIN D /\ D[lv[i].slot] = l.val /\ D = E
        BY <1>1, <2>5, <3>2 DEF Reads
      <4> QED
        BY <3>2, <4>1
    <3>3. CASE lv[i].slot # Null /\ ~p.dict
      BY <2>5, <3>3 DEF Reads
    <3> QED
      BY <1>2, <3>1, <3>2, <3>3
  <2>8. e[i] = [rep |-> l.rep, val |-> l.val]
    BY <1>3, <1>4, <2>6, <2>7
  <2> QED
    BY <2>1, <2>3, <2>4, <2>8
<1>6. e \in [1 .. n -> Level]
  BY <1>3, <1>4, <1>5, Zenon
<1>7. e \in Seq(Level) /\ Len(e) = n
  BY <1>3, <1>6
<1> QED
  BY <1>1, <1>5, <1>7

LEMMA InvComplete ==
    ASSUME IInv
    PROVE  Complete
<1> SUFFICES ASSUME w.closed, ~failed PROVE Decoded = written
  BY DEF Complete
<1>1. Good(w, written) /\ Finished(w) /\ Typed(w) /\ written \in Seq(Level)
  BY Unfold DEF Right
<1>2. Fronted(w) /\ w.pages = <<>> /\ w.cur = <<>> /\ (w.dict => w.dictWritten)
  BY <1>1, Zenon DEF Good, Finished
<1>3. PICK s, K, o, D, wr : s = w.out /\ K = Kept(w) /\ o = Before(w) /\ D = Lookup(w) /\ wr = written
  OBVIOUS
<1>4. s \in Seq(Page) /\ Len(s) \in Nat /\ wr \in Seq(Level) /\ Len(wr) \in Nat
  BY <1>1, <1>3, PagesTyped
<1>5. Behind(s, K, o)
  <2>1. w.out \o w.pages = s
    BY <1>2, <1>3, <1>4, CatEmpty
  <2>2. Behind(w.out \o w.pages, Kept(w), Before(w))
    BY <1>1, <1>2, BuiltKept, Zenon
  <2> QED
    BY <1>3, <2>1, <2>2
<1>6. /\ o \in {0, 1} /\ Len(K) \in Nat /\ Len(s) = Len(K) + o /\ K \in Seq(DataPage)
      /\ \A j \in 1 .. Len(K) : s[j + o] = K[j]
      /\ \A j \in 1 .. Len(s) : IsData(s[j]) <=> j > o
  BY <1>5 DEF Behind
<1>7. PICK c \in [0 .. Len(K) -> 0 .. Len(wr)] : Parts(K, D, wr, c) /\ Rest(<<>>, w.dict, w.memo, wr, c[Len(K)])
  BY <1>1, <1>2, <1>3, Zenon DEF Good, Contained
<1>8. c[0] = 0 /\ c[Len(K)] = Len(wr) /\ \A n \in 0 .. Len(K) : c[n] \in 0 .. Len(wr)
  <2>1. Len(K) \in 0 .. Len(K) /\ Len(<<>>) = 0
    BY <1>6
  <2>2. c[Len(K)] \in 0 .. Len(wr)
    BY <1>7, <2>1
  <2> QED
    <3>1. c[0] = 0 /\ \A n \in 0 .. Len(K) : c[n] \in 0 .. Len(wr)
      BY <1>7 DEF Parts
    <3>2. Len(wr) = c[Len(K)] + 0
      BY <1>7, <2>1 DEF Rest
    <3> QED
      BY <1>4, <2>2, <3>1, <3>2
<1>9. ASSUME NEW n \in 1 .. Len(K)
      PROVE  SubSeq(wr, 1, c[n]) = SubSeq(wr, 1, c[n - 1]) \o Decode(K[n])
  <2>1. PICK p, a, b : p = K[n] /\ a = c[n - 1] /\ b = c[n]
    OBVIOUS
  <2>2. n \in 0 .. Len(K) /\ n - 1 \in 0 .. Len(K)
    BY <1>6
  <2>3. p \in DataPage /\ a \in 0 .. Len(wr) /\ b \in 0 .. Len(wr)
    BY <1>6, <1>8, <2>1, <2>2
  <2>4. b = a + Len(p.levels) /\ \A k \in 1 .. Len(p.levels) : Reads(p.levels[k], p.dict, D, wr[a + k])
    BY <1>7, <2>1, Zenon DEF Parts
  <2>5. p.dict => D = Dictionary /\ D \in Seq(Vals)
    <3> HAVE p.dict
    <3>1. Mixed(K, w.dict, w.dictWritten)
      BY <1>1, <1>3 DEF Good
    <3>2. w.dictWritten
      BY <1>2, <2>1, <3>1 DEF Mixed
    <3>3. w.out[1].kind = "dictionary" /\ w.out[1].values \in Seq(Vals)
      BY <1>2, <3>2, PageFields DEF Fronted
    <3> QED
      BY <1>3, <3>2, <3>3 DEF Lookup, Dictionary
  <2>6. PICK e : e = Decode(p)
    OBVIOUS
  <2>7. e \in Seq(Level) /\ Len(e) = b - a /\ \A i \in 1 .. b - a : e[i] = wr[a + i]
    BY <1>4, <2>3, <2>4, <2>5, <2>6, DecodePage, Zenon
  <2>8. SubSeq(wr, 1, b) = SubSeq(wr, 1, a) \o e
    BY <1>4, <2>3, <2>7, SubSeqCat, Zenon
  <2> QED
    BY <2>1, <2>6, <2>8, Zenon
<1>10. PICK h : h = [n \in 0 .. Len(s) |-> IF n <= o THEN <<>> ELSE SubSeq(wr, 1, c[n - o])]
  BY Zenon
<1>11. \A n \in 0 .. Len(s) : h[n] = IF n <= o THEN <<>> ELSE SubSeq(wr, 1, c[n - o])
  BY <1>10
<1>12. SubSeq(wr, 1, c[0]) = <<>>
  BY <1>4, <1>8
<1>13. ASSUME NEW n \in 1 .. Len(s)
       PROVE  h[n] = IF IsData(s[n]) THEN h[n - 1] \o Decode(s[n]) ELSE h[n - 1]
  <2>1. n \in 0 .. Len(s) /\ n - 1 \in 0 .. Len(s)
    BY <1>4
  <2>2. CASE n <= o
    BY <1>6, <1>11, <2>1, <2>2
  <2>3. CASE n > o
    <3>1. PICK k : k = n - o
      OBVIOUS
    <3>2. k \in 1 .. Len(K) /\ n = k + o /\ n - 1 - o = k - 1
      BY <1>6, <2>3, <3>1
    <3>3. IsData(s[n]) /\ s[n] = K[k]
      BY <1>6, <2>3, <3>2
    <3>4. h[n] = SubSeq(wr, 1, c[k])
      <4>1. ~(n <= o)
        BY <1>6, <2>3
      <4> QED
        BY <1>11, <2>1, <3>1, <4>1, Zenon
    <3>5. h[n - 1] = SubSeq(wr, 1, c[k - 1])
      <4>1. CASE n - 1 <= o
        <5>1. k - 1 = 0
          BY <1>6, <3>2, <4>1
        <5> QED
          BY <1>11, <1>12, <2>1, <4>1, <5>1
      <4>2. CASE n - 1 > o
        <5>1. ~(n - 1 <= o) /\ (n - 1) - o = k - 1
          BY <1>6, <3>2, <4>2
        <5> QED
          BY <1>11, <2>1, <5>1, Zenon
      <4> QED
        BY <1>6, <4>1, <4>2
    <3> QED
      BY <1>9, <3>2, <3>3, <3>4, <3>5, Zenon
  <2> QED
    BY <1>6, <2>2, <2>3
<1>14. h[0] = <<>>
  BY <1>4, <1>6, <1>11
<1>15. h = [n \in 0 .. Len(s) |-> IF n = 0 THEN <<>>
                                  ELSE IF IsData(s[n]) THEN h[n - 1] \o Decode(s[n]) ELSE h[n - 1]]
  <2>1. PICK f : f = [n \in 0 .. Len(s) |-> IF n = 0 THEN <<>>
                                           ELSE IF IsData(s[n]) THEN h[n - 1] \o Decode(s[n]) ELSE h[n - 1]]
    BY Zenon
  <2>2. ASSUME NEW n \in 0 .. Len(s) PROVE f[n] = h[n]
    <3>1. CASE n = 0
      BY <1>14, <2>1, <3>1
    <3>2. CASE n # 0
      <4>1. n \in 1 .. Len(s)
        BY <1>4, <3>2
      <4> QED
        BY <1>13, <2>1, <3>2, <4>1
    <3> QED
      BY <3>1, <3>2
  <2> QED
    BY <1>10, <2>1, <2>2, Zenon
<1>16. Decoding(h)
  BY <1>3, <1>15 DEF Decoding
<1>17. PICK g : g = CHOOSE f : Decoding(f)
  OBVIOUS
<1>18. Decoding(g)
  BY <1>16, <1>17
<1>19. Len(w.out) \in Nat /\ Len(w.out) \in 0 .. Len(w.out)
  BY <1>3, <1>4
<1>20. Decoded = h[Len(s)]
  <2>1. g[Len(w.out)] = h[Len(w.out)]
    BY <1>16, <1>18, <1>19, DecodingUnique
  <2> QED
    BY <1>3, <1>17, <2>1, DecodedChoice
<1>21. h[Len(s)] = SubSeq(wr, 1, Len(wr))
  <2>1. CASE Len(K) = 0
    BY <1>4, <1>6, <1>8, <1>11, <1>12, <2>1
  <2>2. CASE Len(K) # 0
    <3>1. ~(Len(s) <= o) /\ Len(s) - o = Len(K) /\ Len(s) \in 0 .. Len(s)
      BY <1>6, <2>2
    <3> QED
      BY <1>8, <1>11, <3>1, Zenon
  <2> QED
    BY <2>1, <2>2
<1>22. SubSeq(wr, 1, Len(wr)) = wr
  BY <1>4
<1> QED
  BY <1>3, <1>20, <1>21, <1>22

-----------------------------------------------------------------------------
\* The invariant holds throughout: no call, failed or not, leaves a writer of another shape.
THEOREM InvHolds == Spec => []IInv
BY InitInv, StepInv, PTL DEF Spec

\* A column closed without an error reads back as what was written, for every batch size, page size and dictionary
\* limit, every input and any number of calls: no cut into batches or pages, no fallback to PLAIN and no dictionary
\* array loses, repeats or changes a level (column_writer.go, WriteBatch to Close).
THEOREM ReadsBack == Spec => []Complete
BY InvHolds, InvComplete, PTL

\* Without a failed call, row-aligned pages begin with a row and know how many rows precede them; RowsWritten counts
\* the rows accepted even after failed calls (alignBatchToRowBoundary, FlushCurrentPage).
THEOREM PagesAtRows == Spec => []RowAligned
BY InvHolds, InvRowAligned, PTL

\* Pages are never reordered or repeated, even when writes to the sink fail; without a failure the dictionary page is
\* the first and the only one, and every index is in it (FallbackToPlain, drainBufferedDataPages, Close).
THEOREM PagesOrdered == Spec => []PagesInOrder
BY InvHolds, InvPagesInOrder, PTL

\* The Bloom filter of a column closed without an error has every value written, as a value, an index or re-encoded
\* (populateBloomFromDict, FallbackToPlain).
THEOREM BloomHasAll == Spec => []BloomComplete
BY InvHolds, InvBloomComplete, PTL
===============================================================================
