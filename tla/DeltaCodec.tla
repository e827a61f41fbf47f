----------------------------- MODULE DeltaCodec -----------------------------
(***************************************************************************)
(* The delta encodings of src/parquet/internal/encoding:                   *)
(* DELTA_BINARY_PACKED (delta_bit_packing.go), DELTA_LENGTH_BYTE_ARRAY     *)
(* (delta_length_byte_array.go) and DELTA_BYTE_ARRAY (delta_byte_array.go),*)
(* and the helpers that squeeze the null slots out of a batch and open     *)
(* them again (encoder.go, decoder.go).                                    *)
(*                                                                         *)
(* An encoded page is a sequence of tokens: "head" (total value count and  *)
(* first value), "block" (minimum delta and the bit widths of the          *)
(* miniblocks), "mini" (the packed deltas of a miniblock), "raw" (one byte *)
(* of string data) and "zero" (a byte of a buffer that was never written). *)
(***************************************************************************)
EXTENDS Integers, SequencesExt

CONSTANTS
    MiniBlock,   \* 32: values per miniblock
    MiniBlocks,  \* 4: miniblocks per block
    Narrow,      \* 32: the width of an INT32 column, and of lengths
    Wide         \* 64: the width of an INT64 column, and of the coder's arithmetic

\* x as a two's complement integer of w bits.
Wrap(x, w) == ((x + 2^(w - 1)) % 2^w) - 2^(w - 1)

\* bits.Len64
BitLen(n) == CHOOSE w \in 0..Wide : n < 2^w /\ (w = 0 \/ n >= 2^(w - 1))

Part(s, from, n) == SubSeq(s, from, Min({from + n - 1, Len(s)}))
Rest(s, n) == SubSeq(s, n + 1, Len(s))

Item(t, n, v, seq) == [t |-> t, n |-> n, v |-> v, seq |-> seq]

-----------------------------------------------------------------------------
(* DELTA_BINARY_PACKED.  bits is the width of the column's type; open says *)
(* that the encoder has a bitWriter, out is what that writer counts as      *)
(* Written(), and fresh says that it was written to the sink in use.        *)

NewDeltaEncoder(bits) ==
    [bits |-> bits, total |-> 0, first |-> 0, cur |-> 0, deltas |-> <<>>, open |-> FALSE, fresh |-> FALSE, out |-> <<>>]

\* flushBlock: the deltas from the block's minimum, each miniblock at the width of its
\* largest, the last one padded; a miniblock with no delta, or of width 0, takes no bytes.
flushBlock(e) ==
    LET minDelta == Min({e.deltas[i] : i \in 1..Len(e.deltas)})
        used == (Len(e.deltas) + MiniBlock - 1) \div MiniBlock
        Mini(i) == Part(e.deltas, (i - 1) * MiniBlock + 1, MiniBlock)
        Width(i) == IF i > used THEN 0
                    ELSE LET m == Mini(i)
                         IN  BitLen((Max({m[k] : k \in 1..Len(m)}) - minDelta) % 2^Wide)
        PackedMini(i) == [k \in 1..MiniBlock |-> IF k > Len(Mini(i)) THEN 0
                                                ELSE (Mini(i)[k] - minDelta) % 2^Width(i)]
        minis == [i \in 1..used |-> Item("mini", Width(i), 0, PackedMini(i))]
    IN  IF e.deltas = <<>> THEN e
        ELSE [e EXCEPT !.deltas = <<>>,
                       !.out = @ \o <<Item("block", 0, minDelta, [i \in 1..MiniBlocks |-> Width(i)])>>
                                 \o SelectSeq(minis, LAMBDA mini : mini.n # 0)]

\* The delta at the width of the physical type.
DeltaOf(v, cur, bits) == Wrap(v - cur, bits)

RECURSIVE PutDeltas(_, _)
PutDeltas(e, in) ==
    IF in = <<>> THEN e
    ELSE LET Full(g) == IF Len(g.deltas) = MiniBlock * MiniBlocks THEN flushBlock(g) ELSE g
         IN  PutDeltas(Full([e EXCEPT !.deltas = Append(@, DeltaOf(Head(in), e.cur, e.bits)),
                                      !.cur = Head(in)]), Tail(in))

DeltaPut(e, in) ==
    IF in = <<>> THEN e
    ELSE LET started == IF e.total > 0 THEN e
                        ELSE [e EXCEPT !.first = in[1], !.cur = in[1], !.open = TRUE,
                                       !.fresh = TRUE, !.out = <<>>]
         IN  PutDeltas([started EXCEPT !.total = @ + Len(in)], IF e.total = 0 THEN Tail(in) ELSE in)

\* FlushValues: the page and the encoder after it.  totalVals is reset and the sink is
\* handed over, but the bitWriter stays and still counts what it wrote: a flush with no
\* Put since the last one copies that many bytes out of the new, empty sink.
DeltaFlush(e) ==
    LET Body(out) == IF e.fresh THEN out ELSE [i \in 1..Len(out) |-> Item("zero", 0, 0, <<>>)]
        Page(done) == [page |-> <<Item("head", e.total, e.first, <<>>)>> \o Body(done.out),
                       enc |-> [done EXCEPT !.total = 0, !.fresh = FALSE]]
    IN  Page(IF e.open THEN flushBlock(e) ELSE e)

\* A decoder after SetData; err says that a call failed.
DeltaSetData(page, bits) ==
    LET ok == page # <<>> /\ page[1].t = "head"
    IN  [bits |-> bits, s |-> IF ok THEN Tail(page) ELSE page, usedFirst |-> FALSE, block |-> 0, mini |-> 0,
         minDelta |-> 0, widths |-> <<>>, idx |-> 1, vals |-> <<>>, err |-> ~ok,
         nvals |-> IF ok THEN page[1].n ELSE 0, last |-> IF ok THEN page[1].v ELSE 0]

initBlock(d) ==
    IF d.s = <<>> \/ Head(d.s).t # "block" THEN [d EXCEPT !.err = TRUE]
    ELSE [d EXCEPT !.s = Tail(@), !.minDelta = Head(d.s).v, !.widths = Head(d.s).seq, !.idx = 1,
                   !.block = MiniBlock * MiniBlocks]

unpackNextMini(d) ==
    LET width == d.widths[d.idx]
        bad == width > d.bits \/ (width # 0 /\ (d.s = <<>> \/ Head(d.s).t # "mini"))
        deltas == IF width = 0 THEN [i \in 1..MiniBlock |-> 0] ELSE Head(d.s).seq
        sum[i \in 0..MiniBlock] ==
            IF i = 0 THEN d.last ELSE Wrap(sum[i - 1] + deltas[i] + d.minDelta, Wide)
    IN  IF bad THEN [d EXCEPT !.err = TRUE]
        ELSE [d EXCEPT !.s = IF width = 0 THEN @ ELSE Tail(@), !.idx = @ + 1, !.mini = MiniBlock,
                       !.last = sum[MiniBlock],
                       !.vals = [i \in 1..MiniBlock |-> Wrap(sum[i], d.bits)]]

\* A miniblock is at hand, unless the page is damaged.
WithMini(d) == IF d.mini = 0 /\ ~d.err THEN unpackNextMini(d) ELSE d
Unpacked(d) == WithMini(IF d.block = 0 THEN initBlock(d) ELSE d)

Before(out, rest) == [rest EXCEPT !.out = out \o @]

\* The loop shared by Decode and Discard: n more values, unpacking as they are needed.
RECURSIVE TakeDeltas(_, _)
TakeDeltas(d, n) ==
    LET Take(m, k) ==
            IF m.err THEN [dec |-> m, out |-> <<>>]
            ELSE Before(SubSeq(m.vals, MiniBlock - m.mini + 1, MiniBlock - m.mini + k),
                        TakeDeltas([m EXCEPT !.block = @ - k, !.mini = @ - k], n - k))
        From(m) == Take(m, Min({n, m.mini}))
    IN  IF n = 0 \/ d.err THEN [dec |-> d, out |-> <<>>] ELSE From(Unpacked(d))

\* The first value stands in the header of the page.
TakeFirst(d, max) == IF d.usedFirst \/ max = 0 THEN <<>> ELSE <<Wrap(d.last, d.bits)>>

DeltaDecode(d, n) ==
    LET max == Min({n, d.nvals})
        first == TakeFirst(d, max)
    IN  Before(first, TakeDeltas([d EXCEPT !.usedFirst = @ \/ max > 0, !.nvals = @ - max],
                                 max - Len(first)))

DecodeAll(d) == DeltaDecode(d, d.nvals)

DeltaDiscard(d, n) == DeltaDecode(d, n).dec

-----------------------------------------------------------------------------
(* DELTA_LENGTH_BYTE_ARRAY: the lengths, then all the bytes.  A string is  *)
(* a sequence of bytes.                                                     *)

NewLengthEncoder == [lengths |-> NewDeltaEncoder(Narrow), sink |-> <<>>]

LengthPut(e, in) ==
    [lengths |-> DeltaPut(e.lengths, [i \in 1..Len(in) |-> Len(in[i])]),
     sink |-> FoldLeft(LAMBDA acc, v : acc \o v, e.sink, in)]

LengthFlush(e) ==
    LET Join(f) == [page |-> f.page \o [i \in 1..Len(e.sink) |-> Item("raw", 0, e.sink[i], <<>>)],
                    enc |-> [lengths |-> f.enc, sink |-> <<>>]]
    IN  Join(DeltaFlush(e.lengths))

\* SetData decodes every length; the payload starts where the bit reader stopped.
LengthDecoder(got) ==
    [lengths |-> got.out, data |-> got.dec.s, nvals |-> Len(got.out),
     err |-> \/ got.dec.err
             \/ \E i \in 1..Len(got.out) : got.out[i] < 0
             \/ FoldLeft(LAMBDA acc, n : acc + n, 0, got.out) > Len(got.dec.s)]

LengthSetData(page) == LengthDecoder(DecodeAll(DeltaSetData(page, Narrow)))

\* decodeOne: the next string.
decodeOne(d) ==
    LET n == d.lengths[1]
    IN  [out |-> [i \in 1..n |-> d.data[i].v],
         dec |-> [d EXCEPT !.data = Rest(@, n), !.lengths = Tail(@), !.nvals = @ - 1]]

RECURSIVE LengthDecode(_, _)
LengthDecode(d, n) ==
    IF n = 0 \/ d.nvals = 0 THEN [dec |-> d, out |-> <<>>]
    ELSE LET From(one) == Before(<<one.out>>, LengthDecode(one.dec, n - 1))
         IN  From(decodeOne(d))

LengthDiscard(d, n) ==
    LET k == Min({n, d.nvals})
        bytes == FoldLeft(LAMBDA acc, len : acc + len, 0, SubSeq(d.lengths, 1, k))
    IN  [d EXCEPT !.data = Rest(@, bytes), !.lengths = Rest(@, k), !.nvals = @ - k]

-----------------------------------------------------------------------------
(* DELTA_BYTE_ARRAY: prefix lengths against the previous string, then the  *)
(* suffixes as DELTA_LENGTH_BYTE_ARRAY.                                     *)

NewBytesEncoder == [prefixes |-> NewDeltaEncoder(Narrow), suffixes |-> NewLengthEncoder, last |-> <<>>]

commonPrefixLength(l, r) ==
    Max({k \in 0..Min({Len(l), Len(r)}) : \A i \in 1..k : l[i] = r[i]})

BytesPut(e, in) ==
    LET Prior(i) == IF i = 1 THEN e.last ELSE in[i - 1]
        prefix == [i \in 1..Len(in) |-> commonPrefixLength(Prior(i), in[i])]
    IN  IF in = <<>> THEN e
        ELSE [suffixes |-> LengthPut(e.suffixes, [i \in 1..Len(in) |-> Rest(in[i], prefix[i])]),
              prefixes |-> DeltaPut(e.prefixes, prefix), last |-> in[Len(in)]]

BytesFlush(e) ==
    LET Join(p, s) == [page |-> p.page \o s.page,
                       enc |-> [prefixes |-> p.enc, suffixes |-> s.enc, last |-> <<>>]]
    IN  Join(DeltaFlush(e.prefixes), LengthFlush(e.suffixes))

\* last is the previous string, first that there is none yet, and shared that its bytes
\* are those of discardScratch, which the next Discard writes over.
BytesSetData(page) ==
    LET Decoder(prefixes, suffixes) ==
            [prefixes |-> prefixes.out, suffixes |-> suffixes, first |-> TRUE, last |-> <<>>,
             shared |-> FALSE, nvals |-> suffixes.nvals,
             err |-> prefixes.dec.err \/ suffixes.err \/ Len(prefixes.out) # suffixes.nvals]
        From(prefixes) == Decoder(prefixes, LengthSetData(prefixes.dec.s))
    IN  From(DecodeAll(DeltaSetData(page, Narrow)))

\* Takes one string off d: the string, and whether it is only a prefix of the last one.
NextBytes(d) ==
    LET Join(one, n, value) ==
            [bad |-> n \notin 0..Len(d.last),
             narrowed |-> ~d.first /\ one.out = <<>>,
             value |-> value,
             dec |-> [d EXCEPT !.prefixes = Tail(@), !.suffixes = one.dec, !.nvals = @ - 1,
                               !.first = FALSE, !.last = value]]
        From(one, n) == Join(one, n, SubSeq(d.last, 1, n) \o one.out)
    IN  From(decodeOne(d.suffixes), d.prefixes[1])

\* Discard rebuilds each string in discardScratch; a string with an empty suffix only
\* narrows the last one.  writes are the contents discardScratch is given, in order.
RECURSIVE BytesDiscard(_, _)
BytesDiscard(d, n) ==
    LET After(writes, rest) == [rest EXCEPT !.writes = writes \o @]
        From(nx) ==
            IF nx.bad THEN [dec |-> [d EXCEPT !.err = TRUE], writes |-> <<>>]
            ELSE After(IF nx.narrowed THEN <<>> ELSE <<nx.value>>,
                       BytesDiscard([nx.dec EXCEPT !.shared = @ \/ ~nx.narrowed], n - 1))
    IN  IF n = 0 \/ d.nvals = 0 \/ d.err THEN [dec |-> d, writes |-> <<>>] ELSE From(NextBytes(d))

\* Mutant: a prefix is handed out without looking where its bytes are.
ClonedNever(d, nx) == FALSE

\* Decode clones a prefix that would otherwise alias discardScratch.
Cloned(d, nx) == nx.narrowed /\ d.shared /\ nx.value # <<>>

\* Decode: strings out of a new arena, or a prefix of the last one when the suffix is
\* empty.  own says of each string that its bytes are not those of discardScratch.
RECURSIVE BytesDecode(_, _)
BytesDecode(d, n) ==
    LET After(value, shared, rest) == [rest EXCEPT !.out = <<value>> \o @, !.own = <<~shared>> \o @]
        From(nx) ==
            LET shared == nx.narrowed /\ d.shared /\ ~Cloned(d, nx)
            IN  IF nx.bad THEN [dec |-> [d EXCEPT !.err = TRUE], out |-> <<>>, own |-> <<>>]
                ELSE After(nx.value, shared, BytesDecode([nx.dec EXCEPT !.shared = shared], n - 1))
    IN  IF n = 0 \/ d.nvals = 0 \/ d.err THEN [dec |-> d, out |-> <<>>, own |-> <<>>]
        ELSE From(NextBytes(d))

-----------------------------------------------------------------------------
(* Null slots                                                               *)

\* spacedCompress: the slots of src that are valid, run by run.
spacedCompress(src, valid) ==
    FoldLeft(LAMBDA acc, i : IF valid[i] THEN Append(acc, src[i]) ELSE acc, <<>>,
             [i \in 1..Len(src) |-> i])

\* The last run of set bits of valid before position end, as <<first, length>>.
ReverseRun(valid, end) ==
    LET last == Max({i \in 1..end : valid[i]})
        first == Min({i \in 1..last : \A j \in i..last : valid[j]})
    IN  <<first, last - first + 1>>

\* spacedExpand, for a batch with some value, moves the decoded prefix of the buffer to the valid slots, in place and
\* from the end; it stops where the values already are in their slots.
RECURSIVE ExpandFrom(_, _, _, _)
ExpandFrom(buffer, valid, end, idxDecode) ==
    IF ~\E i \in 1..end : valid[i] THEN buffer
    ELSE LET run == ReverseRun(valid, end)
             from == idxDecode - run[2]
             moved == [i \in 1..Len(buffer) |->
                          IF i \in run[1]..(run[1] + run[2] - 1)
                          THEN buffer[from + 1 + i - run[1]] ELSE buffer[i]]
         IN  IF from + 1 = run[1] THEN buffer
             ELSE ExpandFrom(moved, valid, run[1] - 1, from)

spacedExpand(decoded, valid) ==
    LET nullCount == Quantify(1..Len(valid), LAMBDA i : ~valid[i])
        buffer == decoded \o [i \in 1..nullCount |-> Head(decoded)]
    IN  IF decoded = <<>> THEN <<>> ELSE ExpandFrom(buffer, valid, Len(valid), Len(decoded))
=============================================================================
