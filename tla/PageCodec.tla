----------------------------- MODULE PageCodec ------------------------------
(***************************************************************************)
(* One column's encoder and decoder across the pages of a chunk.           *)
(*                                                                         *)
(* The column writer puts batches of values into the encoder, flushes a    *)
(* page whenever it is full and goes on with the same encoder; the column  *)
(* reader gives the pages to one decoder, one after the other, and reads   *)
(* or skips values in batches of any size.  The codecs are the levels of   *)
(* LevelEncoder / LevelDecoder, the indices of a dictionary column, RLE    *)
(* booleans, the delta-packed integers and the two delta string encodings. *)
(*                                                                         *)
(* A page remembers, beside its encoded data, the values put into it.      *)
(***************************************************************************)
EXTENDS RleCodec, DeltaCodec

CONSTANTS
    Codecs,      \* the codecs of this instance
    Values,      \* for every codec, the values a column may hold
    MaxLevel,    \* the maximum level of the column
    MaxPut,      \* bound: values put into one page, for every codec
    MaxBatch,    \* bound: values in one call of the encoder
    MaxRead,     \* bound: values, nulls included, in one call of the decoder, for every codec
    PageLimit,   \* bound: pages of a chunk, for every codec
    EmptyPages   \* may a page hold no value at all (a page of nulls)?

VARIABLES
    codec,   \* the column's encoding
    enc,     \* the encoder
    put,     \* the values put since the last flush
    pages,   \* the pages flushed so far
    rd,      \* the page the decoder reads, 0 before the first
    dec,     \* the decoder
    at,      \* how many values of the page were read or skipped before the last call
    got,     \* what the last call gave, value by value
    top,     \* how many of them it counted as equal to the maximum level
    held,    \* the strings the caller still holds, and whether their bytes are theirs
    scratch  \* the contents of discardScratch

pageVars == <<codec, enc, put, pages, rd, dec, at, got, top, held, scratch>>

Rle == {"levels", "indices", "booleans"}

\* What the decoder gave for a value: the value in a set, the empty set for a skip.
Read(out) == [i \in 1..Len(out) |-> {out[i]}]

NoDecoder == [err |-> FALSE]

-----------------------------------------------------------------------------
(* The encoders                                                             *)

NewEncoder(c) ==
    CASE c = "levels" -> NewRleEncoder
      [] c \in {"indices", "booleans"} -> <<>>
      [] c = "int32" -> NewDeltaEncoder(Narrow)
      [] c = "int64" -> NewDeltaEncoder(Wide)
      [] c = "lengths" -> NewLengthEncoder
      [] c = "strings" -> NewBytesEncoder

\* Dictionary indices and booleans are only buffered until the flush.
PutValues(c, e, in) ==
    CASE c = "levels" -> PutBatchLevels(e, in)
      [] c \in {"indices", "booleans"} -> e \o in
      [] c \in {"int32", "int64"} -> DeltaPut(e, in)
      [] c = "lengths" -> LengthPut(e, in)
      [] c = "strings" -> BytesPut(e, in)

\* LevelEncoder.Flush and the Reset that follows it in columnWriter.reset.
FlushLevels(e) == [page |-> RleFlush(e).out, enc |-> NewRleEncoder]

\* dictEncoder.WriteIndices
WriteIndices(e) == [page |-> RleFlush(PutBatchIndices(NewRleEncoder, e)).out, enc |-> <<>>]

\* RleBooleanEncoder.FlushValues leaves bufferedValues as it is.
FlushBooleans(e) == [page |-> RleFlush(RlePutAll(NewRleEncoder, e)).out, enc |-> e]

FlushValues(c, e) ==
    CASE c = "levels" -> FlushLevels(e)
      [] c = "indices" -> WriteIndices(e)
      [] c = "booleans" -> FlushBooleans(e)
      [] c \in {"int32", "int64"} -> DeltaFlush(e)
      [] c = "lengths" -> LengthFlush(e)
      [] c = "strings" -> BytesFlush(e)

-----------------------------------------------------------------------------
(* The decoders.  A call yields the decoder after it and what it produced.  *)

NewDecoder(c, page) ==
    CASE c \in Rle -> [rle |-> NewRleDecoder(page.data), nvals |-> Len(page.vals), err |-> FALSE]
      [] c = "int32" -> DeltaSetData(page.data, Narrow)
      [] c = "int64" -> DeltaSetData(page.data, Wide)
      [] c = "lengths" -> LengthSetData(page.data)
      [] c = "strings" -> BytesSetData(page.data)

\* LevelDecoder.Decode, dictDecoder.decode and RleBooleanDecoder.Decode: a run of fewer
\* values than asked for is an unexpected end.
RleDecode(d, n) ==
    LET Got(g, want) ==
            [dec |-> [rle |-> g.dec, nvals |-> d.nvals - Len(g.out), err |-> Len(g.out) # want],
             out |-> g.out, top |-> g.top, own |-> {}]
        Batch(want) == Got(GetBatch(d.rle, want, MaxLevel), want)
    IN  Batch(Min({n, d.nvals}))

DecodeCall(c, d, n) ==
    LET Got(g) ==
            [dec |-> g.dec, out |-> g.out, top |-> 0,
             own |-> IF c = "strings" THEN {<<g.out[i], g.own[i]>> : i \in 1..Len(g.out)} ELSE {}]
    IN  CASE c \in Rle -> RleDecode(d, n)
          [] c \in {"int32", "int64"} -> Got(DeltaDecode(d, n))
          [] c = "lengths" -> Got(LengthDecode(d, n))
          [] c = "strings" -> Got(BytesDecode(d, n))

DiscardCall(c, d, n) ==
    CASE c \in Rle -> LET Passed(g, want) == [rle |-> g.dec, nvals |-> d.nvals - g.n, err |-> g.n # want]
                      IN  Passed(RleDiscard(d.rle, Min({n, d.nvals})), Min({n, d.nvals}))
      [] c \in {"int32", "int64"} -> DeltaDiscard(d, n)
      [] c = "lengths" -> LengthDiscard(d, n)
      [] c = "strings" -> BytesDiscard(d, n).dec

\* A batch with null slots: dictionary indices are decoded into their slots, the other
\* encodings decode the values together and then open the gaps.
SpacedCall(c, d, valid) ==
    LET n == Quantify(1..Len(valid), LAMBDA i : valid[i])
        Slots(g) == [dec |-> [rle |-> g.dec, nvals |-> d.nvals - n, err |-> Len(g.out) # Len(valid)],
                     slots |-> g.out, own |-> {}]
        Gaps(g) == [dec |-> g.dec, slots |-> spacedExpand(g.out, valid), own |-> g.own]
    IN  IF c = "indices" THEN Slots(GetBatchSpaced(d.rle, valid)) ELSE Gaps(DecodeCall(c, d, n))

-----------------------------------------------------------------------------
PageInit ==
    /\ codec \in Codecs
    /\ enc = NewEncoder(codec)
    /\ put = <<>> /\ pages = <<>>
    /\ rd = 0 /\ dec = NoDecoder /\ at = 0 /\ got = <<>> /\ top = 0
    /\ held = {} /\ scratch = <<>>

Batches(c, n) == UNION {[1..k -> Values[c]] : k \in 1..n}

\* WriteBatch / WriteBatchSpaced: the values of a batch that are not null are put.
Put ==
    /\ rd = 0 /\ Len(pages) < PageLimit[codec]
    /\ \E in \in Batches(codec, Min({MaxBatch, MaxPut[codec] - Len(put)})) :
         \E valid \in {[i \in 1..Len(in) |-> TRUE], [i \in 1..Len(in) |-> i % 2 = 0]} :
           LET values == spacedCompress(in, valid)
           IN  /\ enc' = PutValues(codec, enc, values)
               /\ put' = put \o values
    /\ UNCHANGED <<codec, pages, rd, dec, at, got, top, held, scratch>>

\* FlushCurrentPage
FlushPage ==
    /\ rd = 0
    /\ Len(pages) < PageLimit[codec]
    /\ put # <<>> \/ EmptyPages
    /\ \E f \in {FlushValues(codec, enc)} :
         /\ pages' = Append(pages, [data |-> f.page, vals |-> put])
         /\ enc' = f.enc
    /\ put' = <<>>
    /\ UNCHANGED <<codec, rd, dec, at, got, top, held, scratch>>

\* The next page is given to the decoder, whether or not the last was read to its end.
\* The chunk was closed before, which flushed what was left.
SetData ==
    /\ rd < Len(pages) /\ put = <<>>
    /\ rd' = rd + 1
    /\ dec' = NewDecoder(codec, pages[rd + 1])
    /\ at' = 0 /\ got' = <<>> /\ top' = 0
    /\ enc' = NewEncoder(codec)
    /\ UNCHANGED <<codec, put, pages, held, scratch>>

\* The values of the page that have not been read or skipped.
Left == Len(pages[rd].vals) - at - Len(got)

Decode ==
    /\ rd # 0 /\ ~dec.err /\ at' = at + Len(got)
    /\ \E n \in 1..Min({MaxRead[codec], Left}) :
         \E g \in {DecodeCall(codec, dec, n)} :
           /\ dec' = g.dec
           /\ got' = Read(g.out)
           /\ top' = g.top
           /\ held' = held \cup g.own
    /\ UNCHANGED <<codec, enc, put, pages, rd, scratch>>

DecodeSpaced ==
    /\ rd # 0 /\ ~dec.err /\ codec # "levels" /\ at' = at + Len(got)
    /\ \E len \in 2..MaxRead[codec] : \E valid \in [1..len -> BOOLEAN] :
         /\ Quantify(1..len, LAMBDA i : valid[i]) \in 1..Left
         /\ \E i \in 1..len : ~valid[i]
         /\ \E g \in {SpacedCall(codec, dec, valid)} :
              /\ dec' = g.dec
              /\ got' = IF g.dec.err THEN <<>> ELSE Read(spacedCompress(g.slots, valid))
              /\ held' = held \cup g.own
    /\ top' = 0
    /\ UNCHANGED <<codec, enc, put, pages, rd, scratch>>

\* A skip; a string decoder rebuilds the strings it passes in its scratch buffer.
Discard ==
    /\ rd # 0 /\ ~dec.err /\ codec # "levels" /\ at' = at + Len(got)
    /\ \E n \in 1..Min({MaxRead[codec], Left}) :
         /\ dec' = DiscardCall(codec, dec, n)
         /\ got' = [i \in 1..n |-> {}]
         /\ scratch' = IF codec # "strings" THEN scratch
                       ELSE FoldLeft(LAMBDA buf, w : w \o Rest(buf, Len(w)), scratch,
                                     BytesDiscard(dec, n).writes)
    /\ top' = 0
    /\ UNCHANGED <<codec, enc, put, pages, rd, held>>

PageNext == Put \/ FlushPage \/ SetData \/ Decode \/ DecodeSpaced \/ Discard

PageSpec == PageInit /\ [][PageNext]_pageVars

-----------------------------------------------------------------------------
\* Every page decodes to exactly the values put into it between two flushes, in
\* order, whatever the batch sizes of the writer (PutBatchLevels, PutBatchIndices, Put)
\* and of the reader (Decode, DecodeSpaced, Discard); no call fails on a page the
\* encoder wrote; and Decode of levels reports how many of them are the maximum level.
PagesReadBack ==
    rd # 0 =>
        /\ ~dec.err
        /\ \A i \in 1..Len(got) : got[i] \subseteq {pages[rd].vals[at + i]}
        /\ codec = "levels" => top = Quantify(1..Len(got), LAMBDA i : MaxLevel \in got[i])

\* A string DeltaByteArrayDecoder.Decode has handed out keeps its bytes: a later
\* Discard, which rebuilds strings in discardScratch, never writes over it.
StringsKept ==
    \A h \in held : h[2] \/ SubSeq(scratch, 1, Len(h[1])) = h[1]
=============================================================================
