------------------------------ MODULE RleCodec ------------------------------
(***************************************************************************)
(* The RLE / bit-packed hybrid of src/parquet/internal/utils/rle.go, which *)
(* carries repetition and definition levels, dictionary indices and RLE    *)
(* booleans.  A stream is a sequence of tokens: a "rep" indicator with its *)
(* value, a "lit" indicator, and the bit-packed values behind a "lit".     *)
(* Tokens replace bytes because every run starts on a byte boundary.       *)
(*                                                                         *)
(* An encoder is a record with the fields of RleEncoder (ind is            *)
(* literalIndicatorOffset as an index into out, 0 for -1); a decoder has   *)
(* the fields of RleDecoder and the rest of the stream in s.               *)
(***************************************************************************)
EXTENDS Integers, Sequences, FiniteSetsExt

CONSTANTS
    Group,      \* 8: values per literal group, and the shortest repeated run
    MaxGroups,  \* 1 << 6: a literal indicator byte holds fewer groups than this
    MaxRun,     \* math.MaxInt32: the longest repeated run
    Scratch,    \* 1024: the index buffer of consumeLiterals
    Block       \* 256: the bits of one NextFourWords block

Tok(t, n, v) == [t |-> t, n |-> n, v |-> v]

TakeN(s, n) == SubSeq(s, 1, n)
DropN(s, n) == SubSeq(s, n + 1, Len(s))

\* The number of leading elements of s that equal the first.
RunLen(s) == Max({k \in 1..Len(s) : \A i \in 1..k : s[i] = s[1]})

NewRleEncoder == [buf |-> <<>>, cur |-> 0, rep |-> 0, lit |-> 0, ind |-> 0, out |-> <<>>]

-----------------------------------------------------------------------------
(* Encoder                                                                 *)

flushLiteral(e, updateIndicator) ==
    LET at == IF e.ind = 0 THEN Len(e.out) + 1 ELSE e.ind
        skipped == IF e.ind = 0 THEN Append(e.out, Tok("lit", 0, 0)) ELSE e.out
        packed == skipped \o [i \in 1..Len(e.buf) |-> Tok("val", 0, e.buf[i])]
    IN  IF updateIndicator
        THEN [e EXCEPT !.buf = <<>>, !.lit = 0, !.ind = 0,
                       !.out = [packed EXCEPT ![at].n = e.lit \div Group]]
        ELSE [e EXCEPT !.buf = <<>>, !.ind = at, !.out = packed]

flushRepeated(e) ==
    [e EXCEPT !.out = Append(@, Tok("rep", e.rep, e.cur)), !.rep = 0, !.buf = <<>>]

\* Mutant: the literal run is closed one group too late for its indicator byte.
LiteralFullLate(lit) == (lit \div Group) >= MaxGroups

\* The indicator byte that was reserved cannot count another group.
LiteralFull(lit) == (lit \div Group) + 1 >= MaxGroups

flushBuffered(e) ==
    IF e.rep >= Group
    THEN IF e.lit # 0 THEN flushLiteral([e EXCEPT !.buf = <<>>], TRUE) ELSE [e EXCEPT !.buf = <<>>]
    ELSE LET grown == [e EXCEPT !.lit = @ + Len(e.buf)]
         IN  [flushLiteral(grown, LiteralFull(grown.lit)) EXCEPT !.rep = 0]

RlePut(e, v) ==
    LET run == IF e.cur = v
               THEN [e EXCEPT !.rep = @ + 1]
               ELSE [(IF e.rep >= Group THEN flushRepeated(e) ELSE e) EXCEPT !.rep = 1, !.cur = v]
        buffered == [run EXCEPT !.buf = Append(@, v)]
    IN  IF e.cur = v /\ run.rep > Group THEN run
        ELSE IF Len(buffered.buf) = Group THEN flushBuffered(buffered) ELSE buffered

RECURSIVE RlePutAll(_, _)
RlePutAll(e, vs) == IF vs = <<>> THEN e ELSE RlePutAll(RlePut(e, Head(vs)), Tail(vs))

\* One turn of the batch loops: the encoder after it and the values it took.
\* The run that is open goes on with the equal values at the head of vs.
ExtendRun(e, vs) ==
    LET n == Min({RunLen(vs), MaxRun - e.rep})
        longer == [e EXCEPT !.rep = @ + n]
        full == longer.rep = MaxRun /\ Len(vs) > n /\ vs[n + 1] = vs[1]
    IN  [enc |-> IF full THEN flushRepeated(longer) ELSE longer, n |-> n]

\* Nothing is pending and a whole group of equal values follows: it starts a run.
StartsRun(e, vs) == e.rep = 0 /\ e.buf = <<>> /\ RunLen(vs) >= Group

StartRun(e, vs) ==
    LET closed == IF e.lit # 0
                  THEN flushLiteral([e EXCEPT !.cur = vs[1], !.rep = Group], TRUE)
                  ELSE [e EXCEPT !.cur = vs[1]]
        n == Min({RunLen(vs) - closed.rep, MaxRun - closed.rep})
    IN  [enc |-> [closed EXCEPT !.rep = @ + n], n |-> closed.rep + n]

PutOneByOne(e, vs) ==
    LET n == Min({Len(vs), Group - Len(e.buf)}) IN [enc |-> RlePutAll(e, TakeN(vs, n)), n |-> n]

putBatchIndicesLiteral(e, vs) ==
    [enc |-> flushBuffered([e EXCEPT !.buf = TakeN(vs, Group), !.cur = vs[Group]]), n |-> Group]

RECURSIVE PutBatchLevels(_, _)
PutBatchLevels(e, vs) ==
    IF vs = <<>> THEN e
    ELSE LET From(turn) == PutBatchLevels(turn.enc, DropN(vs, turn.n))
         IN  From(IF e.rep >= Group /\ e.cur = vs[1] THEN ExtendRun(e, vs)
                  ELSE IF StartsRun(e, vs) THEN StartRun(e, vs)
                  ELSE PutOneByOne(e, vs))

RECURSIVE PutBatchIndices(_, _)
PutBatchIndices(e, vs) ==
    IF vs = <<>> THEN e
    ELSE LET Turn(ready) == IF ready.rep >= Group THEN ExtendRun(ready, vs)
                            ELSE IF StartsRun(ready, vs) THEN StartRun(ready, vs)
                            ELSE IF ready.rep = 0 /\ ready.buf = <<>> /\ Len(vs) >= Group
                            THEN putBatchIndicesLiteral(ready, vs)
                            ELSE PutOneByOne(ready, vs)
             From(turn) == PutBatchIndices(turn.enc, DropN(vs, turn.n))
         IN  From(Turn(IF e.rep >= Group /\ e.cur # vs[1] THEN flushRepeated(e) ELSE e))

\* RleEncoder.Flush: what is pending goes out as one run; a last group is padded.
RleFlush(e) ==
    LET allRep == e.lit = 0 /\ (e.rep = Len(e.buf) \/ e.buf = <<>>)
        pad == IF e.buf = <<>> THEN 0 ELSE Group - Len(e.buf)
        padded == [e EXCEPT !.buf = @ \o [i \in 1..pad |-> 0]]
    IN  IF e.lit = 0 /\ e.rep = 0 /\ e.buf = <<>> THEN e
        ELSE IF e.rep > 0 /\ allRep THEN flushRepeated(e)
        ELSE [flushLiteral([padded EXCEPT !.lit = @ + Len(padded.buf)], TRUE) EXCEPT !.rep = 0]

-----------------------------------------------------------------------------
(* Decoder                                                                 *)

NewRleDecoder(stream) == [s |-> stream, cur |-> 0, rep |-> 0, lit |-> 0]

\* Is there a run to start?  An indicator byte that counts MaxGroups groups or
\* more has its continuation bit set and no longer reads as the indicator.
HasNext(d) ==
    /\ d.s # <<>>
    /\ \/ Head(d.s).t = "rep" /\ Head(d.s).n > 0
       \/ Head(d.s).t = "lit" /\ Head(d.s).n \in 1..(MaxGroups - 1)

RleNext(d) ==
    LET tok == Head(d.s)
    IN  IF tok.t = "lit" THEN [d EXCEPT !.s = Tail(@), !.lit = tok.n * Group]
        ELSE [d EXCEPT !.s = Tail(@), !.rep = tok.n, !.cur = tok.v]

\* How many bit-packed values, n at most, the stream still holds here.
Packed(s, n) ==
    Max({k \in 0..Min({n, Len(s)}) : \A i \in 1..k : s[i].t = "val"})

\* GetBatch, GetBatchLevels, GetBatchBitmap and GetBatchWithDict share this loop:
\* up to n values from the runs, fewer when the stream ends.  top counts the
\* values equal to maxLevel, a repeated run at a time.
RECURSIVE GetBatch(_, _, _)
GetBatch(d, n, maxLevel) ==
    IF n = 0 THEN [dec |-> d, out |-> <<>>, top |-> 0]
    ELSE IF d.rep > 0
    THEN LET k == Min({n, d.rep})
             rest == GetBatch([d EXCEPT !.rep = @ - k], n - k, maxLevel)
         IN  [rest EXCEPT !.out = [i \in 1..k |-> d.cur] \o @,
                          !.top = @ + IF d.cur = maxLevel THEN k ELSE 0]
    ELSE IF d.lit > 0
    THEN LET litbatch == Min({n, d.lit})
             k == Packed(d.s, litbatch)
             vals == [i \in 1..k |-> d.s[i].v]
             after == [d EXCEPT !.s = DropN(@, k), !.lit = @ - k]
             rest == IF k = litbatch THEN GetBatch(after, n - k, maxLevel)
                     ELSE [dec |-> after, out |-> <<>>, top |-> 0]
         IN  [rest EXCEPT !.out = vals \o @,
                          !.top = @ + Quantify(1..k, LAMBDA i : vals[i] = maxLevel)]
    ELSE IF HasNext(d) THEN GetBatch(RleNext(d), n, maxLevel)
    ELSE [dec |-> d, out |-> <<>>, top |-> 0]

\* RleDecoder.Discard: the decoder after it and the number of values passed over.
RECURSIVE RleDiscard(_, _)
RleDiscard(d, n) ==
    LET Pass(after, k) == LET rest == RleDiscard(after, n - k) IN [rest EXCEPT !.n = @ + k]
    IN  IF n = 0 THEN [dec |-> d, n |-> 0]
        ELSE IF d.rep > 0
        THEN LET k == Min({n, d.rep}) IN Pass([d EXCEPT !.rep = @ - k], k)
        ELSE IF d.lit > 0
        THEN LET k == Min({n, d.lit})
             IN  IF Packed(d.s, k) = k THEN Pass([d EXCEPT !.s = DropN(@, k), !.lit = @ - k], k)
                 ELSE [dec |-> d, n |-> 0]
        ELSE IF HasNext(d) THEN RleDiscard(RleNext(d), n)
        ELSE [dec |-> d, n |-> 0]

-----------------------------------------------------------------------------
(* Spaced decoding.  A BitRunReader is the rest of the validity bitmap; the *)
(* state of getspaced is the decoder, the slots filled so far (0 in a null  *)
(* slot that was zeroed), the run it is in, the bitmap behind the run and   *)
(* the number of values it still has to produce.                            *)

NextRun(bits) ==
    IF bits = <<>> THEN [set |-> FALSE, len |-> 0] ELSE [set |-> bits[1], len |-> RunLen(bits)]

Refill(st) ==
    IF st.run.len > 0 THEN st
    ELSE LET run == NextRun(st.bits) IN [st EXCEPT !.run = run, !.bits = DropN(@, run.len)]

Zeros(n) == [i \in 1..n |-> 0]

\* The repeated value goes into the null slots as well.
RECURSIVE consumeRepeatCounts(_, _)
consumeRepeatCounts(st, batchSize) ==
    IF st.dec.rep = 0 \/ Len(st.out) >= batchSize THEN st
    ELSE LET k == IF st.run.set THEN Min({st.run.len, st.dec.rep}) ELSE st.run.len
             used == IF st.run.set THEN k ELSE 0
         IN  consumeRepeatCounts(
                 Refill([st EXCEPT !.dec.rep = @ - used, !.remain = @ - used, !.run.len = @ - k,
                                   !.out = @ \o [i \in 1..k |-> st.dec.cur]]), batchSize)

\* Lays the literals buf out over the runs of the bitmap.
RECURSIVE LayOut(_, _)
LayOut(st, buf) ==
    IF buf = <<>> THEN st
    ELSE LET k == IF st.run.set THEN Min({Len(buf), st.run.len}) ELSE st.run.len
         IN  LayOut(Refill([st EXCEPT !.out = @ \o IF st.run.set THEN TakeN(buf, k) ELSE Zeros(k),
                                      !.run.len = @ - k]),
                    IF st.run.set THEN DropN(buf, k) ELSE buf)

LitBatch(st) == Min({st.remain, st.dec.lit, Scratch})

consumeLiterals(st) ==
    LET batch == LitBatch(st)
        buf == [i \in 1..batch |-> st.dec.s[i].v]
    IN  LayOut([st EXCEPT !.dec.s = DropN(@, batch), !.dec.lit = @ - batch, !.remain = @ - batch], buf)

RECURSIVE getspaced(_, _)
getspaced(st, batchSize) ==
    IF Len(st.out) >= batchSize THEN st
    ELSE LET From(r) ==
                 IF ~r.run.set
                 THEN getspaced([r EXCEPT !.out = @ \o Zeros(r.run.len), !.run.len = 0], batchSize)
                 ELSE IF r.dec.rep > 0 THEN getspaced(consumeRepeatCounts(r, batchSize), batchSize)
                 ELSE IF r.dec.lit > 0
                 THEN IF Packed(r.dec.s, LitBatch(r)) = LitBatch(r)
                      THEN getspaced(consumeLiterals(r), batchSize) ELSE r
                 ELSE IF HasNext(r.dec) THEN getspaced([r EXCEPT !.dec = RleNext(@)], batchSize)
                 ELSE r
         IN  From(Refill(st))

\* GetBatchSpaced and GetBatchWithDictSpaced: a block of the bitmap at a time, with
\* the plain loop for a block of set bits and no decoding at all for a block of nulls.
GetBlock(d, bits, popcnt) ==
    IF popcnt = Len(bits) THEN GetBatch(d, Len(bits), 0)
    ELSE IF popcnt = 0 THEN [dec |-> d, out |-> Zeros(Len(bits))]
    ELSE getspaced([dec |-> d, out |-> <<>>, remain |-> popcnt,
                    run |-> [set |-> FALSE, len |-> 0], bits |-> bits], Len(bits))

RECURSIVE GetBatchSpaced(_, _)
GetBatchSpaced(d, valid) ==
    IF valid = <<>> THEN [dec |-> d, out |-> <<>>]
    ELSE LET n == Min({Block, Len(valid)})
             After(out, rest) == [dec |-> rest.dec, out |-> out \o rest.out]
             From(got) == After(got.out, IF Len(got.out) = n
                                         THEN GetBatchSpaced(got.dec, DropN(valid, n))
                                         ELSE [dec |-> got.dec, out |-> <<>>])
         IN  From(GetBlock(d, TakeN(valid, n), Quantify(1..n, LAMBDA i : valid[i])))
=============================================================================
