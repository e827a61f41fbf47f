------------------------------ MODULE IpcProofs ------------------------------
(***************************************************************************)
(* What the IPC stream says, for every number of dictionary fields,        *)
(* batches and blobs, and the compression of a payload for every number of *)
(* workers and buffers.                                                    *)
(*                                                                         *)
(* SInv adds to WInv, of IpcStreamProofs, what the messages mean: there    *)
(* are histories D and C, the dictionaries and the number of records after *)
(* each message, and both the writer's lastWrittenDicts at the end of the  *)
(* stream and the reader's memo where it is agree with them.  This needs   *)
(* that dictionaries that compare equal are equal.                         *)
(*                                                                         *)
(* PoolInv follows the buffers of compressBodyBuffers.  One that was sent  *)
(* (its index is below idx) and is still raw is either in the hands of a   *)
(* worker or has left an error behind; the send loop stops early only when *)
(* there is an error; so when the workers are gone and there is no error,  *)
(* no buffer is raw.                                                       *)
(***************************************************************************)
EXTENDS IpcStreamProofs, CompressPool

(***************************************************************************)
(* What the stream means.  D[b][i] and C[b][i] are the dictionaries and    *)
(* the number of records that the first i messages of blob b, and the      *)
(* blobs before it, stand for.                                             *)
(***************************************************************************)
DictStates     == [Ids -> Seq(Int)]
DictHistories  == [Nat -> [Nat -> DictStates]]
CountHistories == [Nat -> [Nat -> Nat]]

\* The message m takes d0, c0 to d1, c1; a record is the batch of that number of s,
\* which has these dictionaries.
Entry(m, d0, c0, d1, c1, s) ==
    /\ \A id \in Ids : d1[id] = IF m.type = "dict" /\ m.id = id
                                THEN IF m.delta THEN Cat(d0[id], m.vals) ELSE m.vals
                                ELSE d0[id]
    /\ m.type = "dict" /\ m.delta => d0[m.id] # NoDict
    /\ m.type # "record" => c1 = c0
    /\ m.type = "record" =>
        /\ c1 = c0 + 1 /\ m.n = c1 /\ c1 \in 1 .. Len(s) /\ s[c1].n = c1
        /\ \A id \in Ids : s[c1].d[id] = d1[id]

\* What the writer remembers is what the whole stream says.
Written(D, C) ==
    /\ D[1][0] = [id \in Ids |-> NoDict] /\ C[1][0] = 0
    /\ \A b \in 1 .. Len(blobs) - 1 : D[b + 1][0] = D[b][Len(blobs[b])] /\ C[b + 1][0] = C[b][Len(blobs[b])]
    /\ \A b \in 1 .. Len(blobs) : \A i \in 1 .. Len(blobs[b]) :
        Entry(blobs[b][i], D[b][i - 1], C[b][i - 1], D[b][i], C[b][i], sent)
    /\ C[Len(blobs)][Tip] = Len(sent)
    /\ pw = "open" => last = D[Len(blobs)][Tip]

\* What the reader remembers, and has returned, is what the part of it that it has read says.
ReadOK(D, C) ==
    /\ got \in Seq(Records) /\ Len(got) = C[rBlob][rPos] /\ Len(got) <= Len(sent)
    /\ \A j \in 1 .. Len(got) : got[j] = sent[j]
    /\ \A id \in Ids : /\ memo[id] = << >> => D[rBlob][rPos][id] = NoDict
                       /\ memo[id] # << >> => D[rBlob][rPos][id] = Concatenate(memo[id])

HInv == \E D \in DictHistories, C \in CountHistories : Written(D, C) /\ ReadOK(D, C)

\* The dictionaries of the call in progress up to the one it is at.
DictsDone == job.call = "write" => \A id \in Ids : id < job.next => last[id] = job.d[id]

SInv == WInv /\ DictsDone /\ HInv

LEMMA EntryLonger ==
    ASSUME NEW m, NEW d0, NEW c0, NEW d1, NEW c1, NEW s, NEW t,
           Entry(m, d0, c0, d1, c1, s), Begins(s, t)
    PROVE  Entry(m, d0, c0, d1, c1, t)
<1>1. \A c \in 1 .. Len(s) : c \in 1 .. Len(t) /\ t[c] = s[c]
  BY DEF Begins
<1> QED
  BY <1>1, Zenon DEF Entry

\* A history can be changed at one place.
ChangedAt(K, H, b, i, v) ==
    /\ K[b][i] = v
    /\ \A c \in Nat, j \in Nat : c # b \/ j # i => K[c][j] = H[c][j]

LEMMA Overwrite ==
    ASSUME NEW S, NEW H \in [Nat -> [Nat -> S]], NEW b \in Nat, NEW i \in Nat, NEW v \in S
    PROVE  \E K \in [Nat -> [Nat -> S]] : ChangedAt(K, H, b, i, v)
<1> DEFINE K == [H EXCEPT ![b] = [H[b] EXCEPT ![i] = v]]
<1>1. H[b] \in [Nat -> S]
  OBVIOUS
<1>2. [H[b] EXCEPT ![i] = v] \in [Nat -> S]
  BY <1>1
<1>3. K \in [Nat -> [Nat -> S]]
  BY <1>2
<1>4. K[b] = [H[b] EXCEPT ![i] = v] /\ \A c \in Nat : c # b => K[c] = H[c]
  OBVIOUS
<1>5. K[b][i] = v /\ \A j \in Nat : j # i => K[b][j] = H[b][j]
  BY <1>1, <1>4
<1>6. ChangedAt(K, H, b, i, v)
  BY <1>4, <1>5 DEF ChangedAt
<1> QED
  BY <1>3, <1>6, Zenon

LEMMA HistLonger ==
    ASSUME WInv, NEW m \in Messages, Extend(m), UNCHANGED readerVars,
           NEW D, D \in DictHistories, NEW C, C \in CountHistories, Written(D, C), ReadOK(D, C),
           Begins(sent, sent'), NEW d2, d2 \in DictStates,
           Entry(m, D[Len(blobs)][Tip], C[Len(blobs)][Tip], d2, Len(sent'), sent'),
           pw' = "open" => last' = d2
    PROVE  HInv'
<1>1. PICK B : B = Len(blobs)
  OBVIOUS
<1>2. PICK T : T = Tip
  OBVIOUS
<1>3. PICK s : s = sent'
  OBVIOUS
<1>4. /\ B \in Nat /\ B \in 1 .. B /\ T \in Nat /\ Len(s) \in Nat
      /\ \A b \in 1 .. B : Len(blobs[b]) \in Nat
  BY <1>1, <1>2, <1>3, BlobFacts DEF WInv, Begins
<1>5. /\ Len(blobs') = B /\ Tip' = T + 1 /\ blobs'[B][T + 1] = m /\ Len(blobs'[B]) = T + 1
      /\ \A b \in 1 .. B : b # B => blobs'[b] = blobs[b]
      /\ \A i \in 1 .. T : blobs'[B][i] = blobs[B][i]
  BY <1>1, <1>2, ExtendFacts DEF WInv, Longer, Tip
<1>6. Len(blobs[B]) = T
  BY <1>1, <1>2 DEF Tip
<1>7. T + 1 \in Nat
  BY <1>4
<1>8. PICK D2 : D2 \in DictHistories /\ ChangedAt(D2, D, B, T + 1, d2)
  <2>1. D \in [Nat -> [Nat -> DictStates]]
    BY DEF DictHistories
  <2>2. \E K \in [Nat -> [Nat -> DictStates]] : ChangedAt(K, D, B, T + 1, d2)
    BY <1>4, <1>7, <2>1, Overwrite, Zenon
  <2> QED
    BY <2>2, Zenon DEF DictHistories
<1>9. PICK C2 : C2 \in CountHistories /\ ChangedAt(C2, C, B, T + 1, Len(s))
  <2>1. C \in [Nat -> [Nat -> Nat]]
    BY Zenon DEF CountHistories
  <2>2. \E K \in [Nat -> [Nat -> Nat]] : ChangedAt(K, C, B, T + 1, Len(s))
    BY <1>4, <1>7, <2>1, Overwrite, Zenon
  <2> QED
    BY <2>2, Zenon DEF CountHistories
<1>10. /\ D2[B][T + 1] = d2 /\ C2[B][T + 1] = Len(s)
       /\ \A b \in Nat, i \in Nat : b # B \/ i # T + 1 => D2[b][i] = D[b][i] /\ C2[b][i] = C[b][i]
  BY <1>8, <1>9 DEF ChangedAt
<1>11. \A b \in 1 .. B : \A i \in 1 .. Len(blobs[b]) : Entry(blobs[b][i], D[b][i - 1], C[b][i - 1], D[b][i], C[b][i], s)
  BY <1>1, <1>3, EntryLonger, Zenon DEF Written
<1>12. ASSUME NEW b \in 1 .. B, NEW i \in 1 .. Len(blobs'[b])
       PROVE  Entry(blobs'[b][i], D2[b][i - 1], C2[b][i - 1], D2[b][i], C2[b][i], s)
  <2>1. CASE b = B /\ i = T + 1
    <3>1. D2[b][i - 1] = D[B][T] /\ C2[b][i - 1] = C[B][T]
      <4>1. i - 1 = T /\ T # T + 1
        BY <1>4, <2>1
      <4> QED
        BY <1>4, <1>10, <2>1, <4>1
    <3>2. Entry(m, D[B][T], C[B][T], d2, Len(s), s)
      BY <1>1, <1>2, <1>3
    <3> QED
      BY <1>5, <1>10, <2>1, <3>1, <3>2
  <2>2. CASE ~(b = B /\ i = T + 1)
    <3>1. i \in 1 .. Len(blobs[b]) /\ blobs'[b][i] = blobs[b][i] /\ b \in Nat /\ i \in Nat /\ i - 1 \in Nat
      <4>1. CASE b # B
        BY <1>4, <1>5, <4>1
      <4>2. CASE b = B
        BY <1>4, <1>5, <1>6, <2>2, <4>2
      <4> QED
        BY <4>1, <4>2
    <3>2. b # B \/ (i # T + 1 /\ i - 1 # T + 1)
      BY <1>4, <1>5, <2>2
    <3>3. D2[b][i - 1] = D[b][i - 1] /\ C2[b][i - 1] = C[b][i - 1] /\ D2[b][i] = D[b][i] /\ C2[b][i] = C[b][i]
      BY <1>10, <3>1, <3>2, Zenon
    <3> QED
      BY <1>11, <3>1, <3>3
  <2> QED
    BY <2>1, <2>2
<1>13. Written(D2, C2)'
  <2>1. D2[1][0] = [id \in Ids |-> NoDict] /\ C2[1][0] = 0
    <3>1. 0 # T + 1
      BY <1>4
    <3> QED
      BY <1>10, <3>1 DEF Written
  <2>2. ASSUME NEW b \in 1 .. B - 1
        PROVE  D2[b + 1][0] = D2[b][Len(blobs'[b])] /\ C2[b + 1][0] = C2[b][Len(blobs'[b])]
    <3>1. b \in 1 .. B /\ b # B /\ 0 # T + 1 /\ b \in Nat /\ b + 1 \in Nat /\ Len(blobs[b]) \in Nat
      BY <1>4
    <3>2. D2[b + 1][0] = D[b + 1][0] /\ C2[b + 1][0] = C[b + 1][0]
      BY <1>10, <3>1, Zenon
    <3>3. D2[b][Len(blobs[b])] = D[b][Len(blobs[b])] /\ C2[b][Len(blobs[b])] = C[b][Len(blobs[b])]
      BY <1>10, <3>1
    <3>4. D[b + 1][0] = D[b][Len(blobs[b])] /\ C[b + 1][0] = C[b][Len(blobs[b])]
      BY <1>1 DEF Written
    <3> QED
      BY <1>5, <3>1, <3>2, <3>3, <3>4, Zenon
  <2>3. pw' = "open" => last' = D2[B][T + 1]
    BY <1>10
  <2> QED
    BY <1>3, <1>5, <1>10, <1>12, <2>1, <2>2, <2>3 DEF Written
<1>14. ReadOK(D2, C2)'
  <2>1. rBlob' = rBlob /\ rPos' = rPos /\ memo' = memo /\ got' = got
    BY DEF readerVars
  <2>2. rBlob \in 1 .. B /\ rPos \in Nat /\ rPos <= Len(blobs[rBlob])
    BY <1>1, AvailFacts
  <2>3. rBlob \in Nat /\ (rBlob # B \/ rPos # T + 1)
    BY <1>4, <1>6, <2>2
  <2>4. D2[rBlob][rPos] = D[rBlob][rPos] /\ C2[rBlob][rPos] = C[rBlob][rPos]
    BY <1>10, <2>2, <2>3
  <2>5. Len(got) \in Nat /\ Len(sent) \in Nat /\ Len(got) <= Len(sent) /\ Len(sent) <= Len(s)
    BY <1>3 DEF ReadOK, Begins
  <2>6. \A j \in 1 .. Len(got) : got[j] = s[j]
    BY <1>3, <2>5 DEF ReadOK, Begins
  <2>7. Len(got) <= Len(s)
    BY <1>4, <2>5
  <2> QED
    BY <1>3, <2>1, <2>4, <2>6, <2>7, Zenon DEF ReadOK
<1> QED
  BY <1>8, <1>9, <1>13, <1>14 DEF HInv

\* A step that leaves the stream, its records and the reader alone.
LEMMA HistSame ==
    ASSUME HInv, blobs' = blobs, sent' = sent, UNCHANGED readerVars,
           pw' = "open" => pw = "open" /\ last' = last
    PROVE  HInv'
<1>1. PICK D, C : D \in DictHistories /\ C \in CountHistories /\ Written(D, C) /\ ReadOK(D, C)
  BY DEF HInv
<1>2. Written(D, C)'
  BY <1>1 DEF Written, Tip
<1>3. ReadOK(D, C)'
  BY <1>1, Zenon DEF ReadOK, readerVars
<1> QED
  BY <1>1, <1>2, <1>3 DEF HInv

\* A message that is neither a dictionary nor a record.
LEMMA HistPlain ==
    ASSUME WInv, HInv, NEW m \in Messages, m.type # "dict", m.type # "record", Extend(m), sent' = sent,
           UNCHANGED readerVars, pw' = "open" => pw = "open" /\ last' = last
    PROVE  HInv'
<1>1. PICK D, C : D \in DictHistories /\ C \in CountHistories /\ Written(D, C) /\ ReadOK(D, C)
  BY DEF HInv
<1>2. PICK d : d = D[Len(blobs)][Tip]
  OBVIOUS
<1>3. d \in DictStates /\ (pw' = "open" => last' = d)
  BY <1>1, <1>2, BlobFacts, Zenon DEF WInv, DictHistories, Written
<1>4. C[Len(blobs)][Tip] = Len(sent')
  BY <1>1, Zenon DEF Written
<1>5. Entry(m, D[Len(blobs)][Tip], C[Len(blobs)][Tip], d, Len(sent'), sent')
  BY <1>2, <1>4 DEF Entry
<1>6. Begins(sent, sent')
  BY DEF WInv, StreamTypes, Begins
<1> QED
  BY <1>1, <1>3, <1>5, <1>6, HistLonger, Zenon

LEMMA HistRefuse ==
    ASSUME WInv, HInv, Refuse, sent' = sent, UNCHANGED readerVars, pw' = "open" => pw = "open" /\ last' = last
    PROVE  HInv'
<1>1. CASE UNCHANGED sinkVars
  BY <1>1, HistSame DEF sinkVars
<1>2. CASE Extend(CutMsg)
  <2>1. CutMsg \in Messages /\ CutMsg.type = "cut"
    BY MessageFacts
  <2> QED
    BY <1>2, <2>1, HistPlain
<1> QED
  BY <1>1, <1>2 DEF Refuse

LEMMA HistSplit ==
    ASSUME WInv, HInv, Split
    PROVE  HInv'
<1>1. PICK D, C : D \in DictHistories /\ C \in CountHistories /\ Written(D, C) /\ ReadOK(D, C)
  BY DEF HInv
<1>2. PICK B : B = Len(blobs)
  BY Zenon
<1>3. PICK T : T = Tip
  OBVIOUS
<1>4. /\ B \in Nat /\ B \in 1 .. B /\ T \in Nat /\ Len(blobs[B]) = T
      /\ \A b \in 1 .. B : Len(blobs[b]) \in Nat
  BY <1>2, <1>3, BlobFacts DEF WInv, Tip
<1>5. Len(blobs') = B + 1 /\ blobs'[B + 1] = << >> /\ \A b \in 1 .. B : blobs'[b] = blobs[b]
  BY <1>2 DEF Split, WInv, StreamTypes
<1>6. sent' = sent /\ pw' = pw /\ last' = last
  BY DEF Split, writerVars
<1> DEFINE F == [b \in Nat |-> [i \in Nat |-> IF b = B + 1 /\ i = 0 THEN D[B][T] ELSE D[b][i]]]
           G == [b \in Nat |-> [i \in Nat |-> IF b = B + 1 /\ i = 0 THEN C[B][T] ELSE C[b][i]]]
<1>7. PICK D2 : D2 = F
  BY Zenon
<1>8. PICK C2 : C2 = G
  BY Zenon
<1>9. D2 \in DictHistories /\ C2 \in CountHistories
  <2>1. D[B][T] \in DictStates /\ C[B][T] \in Nat
    BY <1>1, <1>4, Zenon DEF DictHistories, CountHistories
  <2>2. \A b \in Nat, i \in Nat : D[b][i] \in DictStates /\ C[b][i] \in Nat
    BY <1>1, Zenon DEF DictHistories, CountHistories
  <2> QED
    BY <1>7, <1>8, <2>1, <2>2 DEF DictHistories, CountHistories
<1>10. /\ D2[B + 1][0] = D[B][T] /\ C2[B + 1][0] = C[B][T]
       /\ \A b \in 1 .. B, i \in Nat : D2[b][i] = D[b][i] /\ C2[b][i] = C[b][i]
  BY <1>4, <1>7, <1>8
<1> HIDE DEF F, G
<1>11. Written(D2, C2)'
  <2>1. D2[1][0] = [id \in Ids |-> NoDict] /\ C2[1][0] = 0
    <3>1. 1 \in 1 .. B
      BY <1>4
    <3> QED
      BY <1>1, <1>10, <3>1 DEF Written
  <2>2. ASSUME NEW b \in 1 .. B
        PROVE  D2[b + 1][0] = D2[b][Len(blobs'[b])] /\ C2[b + 1][0] = C2[b][Len(blobs'[b])]
    <3>1. D2[b][Len(blobs'[b])] = D[b][Len(blobs[b])] /\ C2[b][Len(blobs'[b])] = C[b][Len(blobs[b])]
      BY <1>4, <1>5, <1>10
    <3>2. CASE b = B
      BY <1>4, <1>10, <3>1, <3>2
    <3>3. CASE b # B
      <4>1. b \in 1 .. B - 1 /\ b + 1 \in 1 .. B
        BY <1>4, <3>3
      <4>2. D[b + 1][0] = D[b][Len(blobs[b])] /\ C[b + 1][0] = C[b][Len(blobs[b])]
        BY <1>1, <1>2, <4>1 DEF Written
      <4> QED
        BY <1>10, <3>1, <4>1, <4>2
    <3> QED
      BY <3>2, <3>3
  <2>3. ASSUME NEW b \in 1 .. B + 1, NEW i \in 1 .. Len(blobs'[b])
        PROVE  Entry(blobs'[b][i], D2[b][i - 1], C2[b][i - 1], D2[b][i], C2[b][i], sent)
    <3>1. b # B + 1
      BY <1>5
    <3>2. b \in 1 .. B
      BY <1>4, <3>1
    <3>3. i \in 1 .. Len(blobs[b]) /\ blobs'[b][i] = blobs[b][i]
      BY <1>5, <3>2
    <3>4. i \in Nat /\ i - 1 \in Nat
      BY <1>4, <3>2, <3>3
    <3>5. Entry(blobs[b][i], D[b][i - 1], C[b][i - 1], D[b][i], C[b][i], sent)
      BY <1>1, <1>2, <3>2, <3>3 DEF Written
    <3> QED
      BY <1>10, <3>2, <3>3, <3>4, <3>5
  <2>4. Tip' = 0 /\ B + 1 - 1 = B
    BY <1>4, <1>5 DEF Tip
  <2>5. C[B][T] = Len(sent) /\ (pw = "open" => last = D[B][T])
    BY <1>1, <1>2, <1>3 DEF Written
  <2> QED
    <3>1. \A b \in 1 .. Len(blobs') - 1 :
            D2[b + 1][0] = D2[b][Len(blobs'[b])] /\ C2[b + 1][0] = C2[b][Len(blobs'[b])]
      <4>1. 1 .. Len(blobs') - 1 = 1 .. B
        BY <1>4, <1>5
      <4> QED
        BY <2>2, <4>1, Zenon
    <3>2. \A b \in 1 .. Len(blobs') : \A i \in 1 .. Len(blobs'[b]) :
            Entry(blobs'[b][i], D2[b][i - 1], C2[b][i - 1], D2[b][i], C2[b][i], sent')
      BY <1>5, <1>6, <2>3
    <3>3. C2[Len(blobs')][Tip'] = Len(sent') /\ (pw' = "open" => last' = D2[Len(blobs')][Tip'])
      BY <1>5, <1>6, <1>10, <2>4, <2>5
    <3> QED
      BY <2>1, <3>1, <3>2, <3>3, Zenon DEF Written
<1>12. ReadOK(D2, C2)'
  <2>1. rBlob' = rBlob /\ rPos' = rPos /\ memo' = memo /\ got' = got
    BY DEF readerVars, Split
  <2>2. rBlob \in 1 .. B /\ rPos \in Nat
    BY <1>2, AvailFacts
  <2>3. D2[rBlob][rPos] = D[rBlob][rPos] /\ C2[rBlob][rPos] = C[rBlob][rPos]
    BY <1>10, <2>2
  <2> QED
    BY <1>1, <1>6, <2>1, <2>3 DEF ReadOK
<1> QED
  BY <1>9, <1>11, <1>12 DEF HInv

-----------------------------------------------------------------------------
(***************************************************************************)
(* From here on two dictionaries that compare equal are equal: Tolerance   *)
(* is empty.                                                               *)
(***************************************************************************)
LEMMA EqualDicts ==
    ASSUME Tolerance = {}, NEW a \in Seq(Int), NEW b \in Seq(Int), ApproxEqual(a, b)
    PROVE  a = b
<1>1. Len(a) = Len(b) /\ \A i \in 1 .. Len(a) : a[i] = b[i]
  BY DEF ApproxEqual
<1> QED
  BY <1>1, SameSeq

\* A delta on top of the dictionary it extends.
LEMMA DeltaSeq ==
    ASSUME NEW a \in Seq(Int), NEW b \in Seq(Int), Len(a) <= Len(b), a = SubSeq(b, 1, Len(a))
    PROVE  Cat(a, SubSeq(b, Len(a) + 1, Len(b))) = b
<1>1. PICK n : n = Len(a)
  OBVIOUS
<1>2. PICK k : k = Len(b)
  OBVIOUS
<1>3. PICK c : c = SubSeq(b, n + 1, k)
  BY Zenon
<1>4. n \in Nat /\ k \in Nat /\ n <= k
  BY <1>1, <1>2
<1>5. c \in Seq(Int) /\ Len(c) = k - n /\ \A i \in 1 .. k - n : c[i] = b[n + i]
  <2>1. c \in Seq(Int) /\ Len(c) = k - n
    BY <1>2, <1>3, <1>4
  <2>2. ASSUME NEW i \in 1 .. k - n PROVE c[i] = b[n + i]
    <3>1. i \in 1 .. k - (n + 1) + 1 /\ (n + 1) + i - 1 = n + i
      BY <1>4
    <3>2. n + 1 \in Int /\ k \in Int /\ \A j \in n + 1 .. k : b[j] \in Int
      BY <1>2, <1>4
    <3>3. \A j \in 1 .. k - (n + 1) + 1 : c[j] = b[(n + 1) + j - 1]
      BY <1>3, <3>2
    <3> QED
      BY <3>1, <3>3
  <2> QED
    BY <2>1, <2>2
<1>6. \A i \in 1 .. n : a[i] = b[i]
  BY <1>1, <1>2, <1>4
<1>7. PICK e : e = a \o c
  BY Zenon
<1>8. e \in Seq(Int) /\ Len(e) = k
  BY <1>1, <1>4, <1>5, <1>7
<1>9. ASSUME NEW i \in 1 .. k PROVE e[i] = b[i]
  <2>1. CASE i <= n
    BY <1>1, <1>4, <1>5, <1>6, <1>7, <2>1
  <2>2. CASE i > n
    <3>1. i - n \in 1 .. k - n /\ n + (i - n) = i
      BY <1>4, <2>2
    <3>2. e[i] = c[i - n]
      BY <1>1, <1>4, <1>5, <1>7, <2>2
    <3> QED
      BY <1>5, <3>1, <3>2
  <2> QED
    BY <1>4, <2>1, <2>2
<1>10. e = b
  BY <1>2, <1>8, <1>9, SameSeq
<1> QED
  BY <1>1, <1>2, <1>3, <1>7, <1>10, Zenon DEF Cat

LEMMA WholeSeq ==
    ASSUME NEW b \in Seq(Int)
    PROVE  SubSeq(b, 0 + 1, Len(b)) = b
  OBVIOUS

LEMMA CallSInv ==
    ASSUME SInv, WriterCall
    PROVE  DictsDone' /\ HInv'
<1>1. ASSUME NEW d \in BatchDicts, Write(d) PROVE DictsDone' /\ HInv'
  <2>1. job'.next \in {0, 1}
    BY <1>1 DEF Write, FirstPayload
  <2>2. \A id \in Ids : ~(id < job'.next)
    BY <2>1, StreamAssumption DEF Ids
  <2>3. HInv'
    BY <1>1, HistSame DEF SInv, Write, sinkVars
  <2> QED
    BY <2>2, <2>3 DEF DictsDone
<1>2. ASSUME WriteMismatched PROVE DictsDone' /\ HInv'
  <2>1. HInv'
    BY <1>2, HistSame DEF SInv, WriteMismatched, sinkVars
  <2>2. job'.call = "mismatched"
    BY <1>2 DEF WriteMismatched, Idle
  <2> QED
    BY <2>1, <2>2 DEF DictsDone
<1>3. ASSUME WriteClosed PROVE DictsDone' /\ HInv'
  <2>1. HInv'
    BY <1>3, HistSame DEF SInv, WriteClosed, sinkVars
  <2> QED
    BY <1>3, <2>1, IdleJob DEF DictsDone, WriteClosed
<1>4. ASSUME Close PROVE DictsDone' /\ HInv'
  <2>1. HInv'
    <3>1. blobs' = blobs /\ sent' = sent /\ UNCHANGED readerVars /\ pw = "open" /\ (pw' = "open" => last' = last)
      BY <1>4 DEF Close, sinkVars
    <3> QED
      BY <3>1, HistSame DEF SInv
  <2>2. job'.call # "write"
    BY <1>4, IdleJob, Zenon DEF Close, Idle
  <2> QED
    BY <2>1, <2>2 DEF DictsDone
<1> QED
  BY <1>1, <1>2, <1>3, <1>4 DEF WriterCall

LEMMA StartSInv ==
    ASSUME SInv, Start
    PROVE  DictsDone' /\ HInv'
<1>1. /\ UNCHANGED readerVars /\ pw' = pw /\ last' = last /\ sent' = sent
      /\ job.call \in {"write", "mismatched", "close"} /\ job.next = 0
  BY DEF Start
<1>2. HInv'
  <2>1. CASE Put(SchemaMsg)
    <3>1. SchemaMsg \in Messages /\ SchemaMsg.type = "schema"
      BY MessageFacts
    <3> QED
      BY <1>1, <2>1, <3>1, HistPlain DEF SInv, Put
  <2>2. CASE Refuse
    BY <1>1, <2>2, HistRefuse DEF SInv
  <2> QED
    BY <2>1, <2>2 DEF Start
<1>3. DictsDone'
  <2>1. job \in JobTypes
    BY DEF SInv, WInv, JobOK, JobTypes
  <2>2. job'.call = "write" => job'.next = 1
    BY <1>1, <2>1, IdleJob DEF Start, JobTypes
  <2>3. \A id \in Ids : ~(id < 1)
    BY StreamAssumption DEF Ids
  <2> QED
    BY <2>2, <2>3 DEF DictsDone
<1> QED
  BY <1>2, <1>3

LEMMA CloseEndSInv ==
    ASSUME SInv, CloseEnd
    PROVE  DictsDone' /\ HInv'
<1>1. UNCHANGED readerVars /\ pw' = "nil" /\ sent' = sent /\ job' = Idle
  BY DEF CloseEnd
<1>2. HInv'
  <2>1. CASE Put(EOS)
    <3>1. EOS \in Messages /\ EOS.type = "eos"
      BY MessageFacts
    <3> QED
      BY <1>1, <2>1, <3>1, HistPlain DEF SInv, Put
  <2>2. CASE Refuse
    BY <1>1, <2>2, HistRefuse DEF SInv
  <2> QED
    BY <2>1, <2>2 DEF CloseEnd
<1> QED
  BY <1>1, <1>2, IdleJob DEF DictsDone

\* What a dictionary message does to the dictionary of its field.
LEMMA DictValues ==
    ASSUME Tolerance = {}, NEW id \in Ids, last \in [Ids -> Seq(Int)], job.d \in [Ids -> Seq(Int)]
    PROVE  LET start == DeltaStart(id)
               vals  == SubSeq(job.d[id], start + 1, Len(job.d[id]))
           IN  /\ vals \in Seq(Int) /\ start \in Nat
               /\ start > 0 => last[id] # NoDict /\ Cat(last[id], vals) = job.d[id]
               /\ ~(start > 0) => vals = job.d[id]
<1>1. PICK old : old = last[id]
  OBVIOUS
<1>2. PICK new : new = job.d[id]
  OBVIOUS
<1>3. old \in Seq(Int) /\ new \in Seq(Int) /\ Len(old) \in Nat /\ Len(new) \in Nat
  BY <1>1, <1>2
<1>4. PICK start : start = DeltaStart(id)
  BY Zenon
<1>5. CASE old # NoDict /\ EmitDeltas /\ Len(new) > Len(old) /\ ApproxEqual(old, SubSeq(new, 1, Len(old)))
  <2>1. start = Len(old)
    BY <1>1, <1>2, <1>4, <1>5, Zenon DEF DeltaStart
  <2>2. SubSeq(new, 1, Len(old)) \in Seq(Int)
    BY <1>3, <1>5
  <2>3. old = SubSeq(new, 1, Len(old))
    BY <1>3, <1>5, <2>2, EqualDicts, Zenon
  <2>4. Len(old) <= Len(new)
    BY <1>3, <1>5
  <2>5. Cat(old, SubSeq(new, start + 1, Len(new))) = new
    BY <1>3, <2>1, <2>3, <2>4, DeltaSeq, Zenon
  <2>6. start = 0 => SubSeq(new, start + 1, Len(new)) = new
    BY <1>3, WholeSeq, Zenon
  <2>7. SubSeq(new, start + 1, Len(new)) \in Seq(Int) /\ start \in Nat
    BY <1>3, <2>1
  <2> QED
    BY <1>1, <1>2, <1>4, <1>5, <2>5, <2>6, <2>7
<1>6. CASE ~(old # NoDict /\ EmitDeltas /\ Len(new) > Len(old) /\ ApproxEqual(old, SubSeq(new, 1, Len(old))))
  <2>1. start = 0
    BY <1>1, <1>2, <1>4, <1>6, Zenon DEF DeltaStart
  <2>2. SubSeq(new, start + 1, Len(new)) = new
    BY <1>3, <2>1, WholeSeq
  <2> QED
    BY <1>1, <1>2, <1>3, <1>4, <2>1, <2>2
<1> QED
  BY <1>5, <1>6, Zenon

LEMMA WriteDictSInv ==
    ASSUME Tolerance = {}, SInv, WriteDict
    PROVE  DictsDone' /\ HInv'
<1>1. /\ UNCHANGED readerVars /\ pw' = pw /\ sent' = sent /\ job.call = "write" /\ job.next \in Ids
  BY DEF WriteDict
<1>2. job \in JobTypes /\ pw = "open" /\ job.d \in [Ids -> Seq(Int)] /\ last \in [Ids -> Seq(Int)]
  BY <1>1, WriteFacts, Zenon DEF SInv, WInv, StreamTypes
<1>3. \A i \in Ids : i < job.next => last[i] = job.d[i]
  BY <1>1 DEF SInv, DictsDone
<1>4. PICK id : id = job.next
  OBVIOUS
<1>5. \A i \in Ids : i < id + 1 => i < id \/ i = id
  BY <1>1, <1>4, StreamAssumption DEF Ids
<1>6. CASE SkipDict(id) /\ job' = [job EXCEPT !.next = @ + 1] /\ UNCHANGED <<last, wErr, sinkVars>>
  <2>1. last[id] = job.d[id]
    BY <1>1, <1>2, <1>4, <1>6, EqualDicts DEF SkipDict
  <2>2. job'.next = id + 1 /\ job'.d = job.d
    BY <1>2, <1>4, <1>6 DEF JobTypes
  <2>3. DictsDone'
    BY <1>3, <1>4, <1>5, <1>6, <2>1, <2>2 DEF DictsDone
  <2> QED
    BY <1>1, <1>2, <1>6, <2>3, HistSame DEF SInv, sinkVars
<1>7. CASE /\ Put(DictMsg(id, DeltaStart(id) > 0, SubSeq(job.d[id], DeltaStart(id) + 1, Len(job.d[id]))))
           /\ last' = [last EXCEPT ![id] = job.d[id]] /\ job' = [job EXCEPT !.next = @ + 1]
  <2>1. DictsDone'
    <3>1. job'.next = id + 1 /\ job'.d = job.d
      BY <1>2, <1>4, <1>7 DEF JobTypes
    <3>2. \A i \in Ids : last'[i] = IF i = id THEN job.d[i] ELSE last[i]
      BY <1>2, <1>7
    <3> QED
      BY <1>3, <1>4, <1>5, <3>1, <3>2 DEF DictsDone
  <2>2. PICK f : f = (DeltaStart(id) > 0)
    OBVIOUS
  <2>3. PICK v : v = SubSeq(job.d[id], DeltaStart(id) + 1, Len(job.d[id]))
    BY Zenon
  <2>4. /\ f \in BOOLEAN /\ v \in Seq(Int) /\ (f => last[id] # NoDict /\ Cat(last[id], v) = job.d[id])
        /\ ~f => v = job.d[id]
    <3>1. (f <=> DeltaStart(id) > 0) /\ f \in BOOLEAN
      <4>1. (DeltaStart(id) > 0) \in BOOLEAN
        OBVIOUS
      <4> QED
        BY <2>2, <4>1, Zenon
    <3> QED
      BY <1>1, <1>2, <1>4, <2>3, <3>1, DictValues, Zenon
  <2>5. PICK m : m = DictMsg(id, f, v)
    OBVIOUS
  <2>6. m \in Messages /\ m.type = "dict" /\ m.id = id /\ m.delta = f /\ m.vals = v
    <3>1. m \in Messages
      BY <1>1, <1>4, <2>4, <2>5, MessageFacts
    <3> QED
      BY <2>5, <3>1 DEF DictMsg
  <2>7. Extend(m)
    BY <1>7, <2>2, <2>3, <2>5 DEF Put
  <2>8. PICK D, C : D \in DictHistories /\ C \in CountHistories /\ Written(D, C) /\ ReadOK(D, C)
    BY DEF SInv, HInv
  <2>9. PICK d2 : d2 = [last EXCEPT ![id] = job.d[id]]
    BY Zenon
  <2>10. d2 \in DictStates /\ last' = d2 /\ \A i \in Ids : d2[i] = IF i = id THEN job.d[i] ELSE last[i]
    BY <1>1, <1>2, <1>4, <1>7, <2>9 DEF DictStates
  <2>11. D[Len(blobs)][Tip] = last /\ C[Len(blobs)][Tip] = Len(sent')
    BY <1>1, <1>2, <2>8, Zenon DEF Written
  <2>12. Entry(m, D[Len(blobs)][Tip], C[Len(blobs)][Tip], d2, Len(sent'), sent')
    <3>1. \A i \in Ids : d2[i] = IF m.type = "dict" /\ m.id = i
                                 THEN IF m.delta THEN Cat(last[i], m.vals) ELSE m.vals
                                 ELSE last[i]
      BY <2>4, <2>6, <2>10
    <3>2. m.type = "dict" /\ m.delta => last[m.id] # NoDict
      BY <2>4, <2>6
    <3> QED
      BY <2>6, <2>11, <3>1, <3>2, Zenon DEF Entry
  <2>13. Begins(sent, sent')
    BY <1>1 DEF SInv, WInv, StreamTypes, Begins
  <2>14. HInv'
    BY <1>1, <2>6, <2>7, <2>8, <2>10, <2>12, <2>13, HistLonger, Zenon DEF SInv
  <2> QED
    BY <2>1, <2>14
<1>8. CASE Fail /\ UNCHANGED last
  BY <1>1, <1>2, <1>8, HistRefuse, IdleJob DEF SInv, Fail, DictsDone
<1> QED
  BY <1>4, <1>6, <1>7, <1>8 DEF WriteDict

LEMMA WriteRecordSInv ==
    ASSUME SInv, WriteRecord
    PROVE  DictsDone' /\ HInv'
<1>1. /\ UNCHANGED readerVars /\ pw' = pw /\ last' = last /\ job.call = "write" /\ job.next = NumDicts + 1 /\ job' = Idle
  BY DEF WriteRecord, Fail
<1>2. DictsDone'
  BY <1>1, IdleJob DEF DictsDone
<1>3. CASE Put(RecordMsg(job.n)) /\ sent' = Append(sent, [n |-> job.n, d |-> job.d])
  <2>1. PICK r : r = [n |-> job.n, d |-> job.d]
    BY Zenon
  <2>2. PICK m : m = RecordMsg(job.n)
    OBVIOUS
  <2>3. r.n = Len(sent) + 1 /\ r.d = job.d /\ r \in Records /\ Len(sent) \in Nat /\ pw = "open" /\ job.n \in Nat
    <3>1. job.n = Len(sent) + 1 /\ Len(sent) \in Nat /\ pw = "open" /\ [n |-> job.n, d |-> job.d] \in Records
      BY <1>1, WriteFacts DEF SInv
    <3>2. job.n \in Nat
      BY <3>1
    <3> QED
      BY <2>1, <3>1, <3>2
  <2>4. m \in Messages /\ m.type = "record" /\ m.n = Len(sent) + 1
    BY <2>1, <2>2, <2>3, MessageFacts, Zenon DEF RecordMsg
  <2>5. /\ Len(sent') = Len(sent) + 1 /\ sent'[Len(sent) + 1] = r
        /\ \A j \in 1 .. Len(sent) : sent'[j] = sent[j]
    BY <1>3, <2>1, <2>3 DEF SInv, WInv, StreamTypes
  <2>6. Begins(sent, sent')
    BY <2>3, <2>5 DEF Begins
  <2>7. PICK D, C : D \in DictHistories /\ C \in CountHistories /\ Written(D, C) /\ ReadOK(D, C)
    BY DEF SInv, HInv
  <2>8. D[Len(blobs)][Tip] = last /\ C[Len(blobs)][Tip] = Len(sent)
    BY <2>3, <2>7, Zenon DEF Written
  <2>9. \A id \in Ids : last[id] = r.d[id]
    BY <1>1, <2>3, StreamAssumption DEF SInv, DictsDone, Ids
  <2>10. PICK d2 : d2 = last
    OBVIOUS
  <2>11. d2 \in DictStates /\ last' = d2
    BY <1>1, <2>10 DEF SInv, WInv, StreamTypes, DictStates
  <2>12. Entry(m, D[Len(blobs)][Tip], C[Len(blobs)][Tip], d2, Len(sent'), sent')
    <3>1. Len(sent') \in 1 .. Len(sent') /\ Len(sent') = Len(sent) + 1
      BY <2>3, <2>5
    <3>2. sent'[Len(sent')].n = Len(sent') /\ \A id \in Ids : sent'[Len(sent')].d[id] = d2[id]
      BY <2>3, <2>5, <2>9, <2>10
    <3> QED
      BY <2>4, <2>8, <2>10, <3>1, <3>2 DEF Entry
  <2>13. Extend(m)
    BY <1>3, <2>2 DEF Put
  <2> QED
    BY <1>1, <1>2, <2>4, <2>6, <2>7, <2>11, <2>12, <2>13, HistLonger, Zenon DEF SInv
<1>4. CASE Fail /\ UNCHANGED sent
  <2>1. pw = "open"
    BY <1>1, WriteFacts DEF SInv
  <2> QED
    BY <1>1, <1>2, <1>4, <2>1, HistRefuse DEF SInv, Fail
<1> QED
  BY <1>3, <1>4 DEF WriteRecord

\* A step of the reader: the stream is as it was.
LEMMA HistReader ==
    ASSUME UNCHANGED writerVars, UNCHANGED sinkVars, NEW D, D \in DictHistories, NEW C, C \in CountHistories,
           Written(D, C), ReadOK(D, C)'
    PROVE  HInv'
<1>1. Written(D, C)'
  BY Zenon DEF Written, Tip, writerVars, sinkVars
<1> QED
  BY <1>1 DEF HInv

\* What the message the reader is about to read does.
LEMMA NextEntry ==
    ASSUME WInv, Avail, NEW D, NEW C, Written(D, C)
    PROVE  Entry(Msg, D[rBlob][rPos], C[rBlob][rPos], D[rBlob][rPos + 1], C[rBlob][rPos + 1], sent)
<1>1. rBlob \in 1 .. Len(blobs) /\ rPos + 1 \in 1 .. Len(blobs[rBlob]) /\ Msg = blobs[rBlob][rPos + 1] /\ rPos \in Nat
  BY AvailFacts
<1>2. rPos + 1 - 1 = rPos
  BY <1>1
<1>3. PICK i : i = rPos + 1
  OBVIOUS
<1>4. Entry(blobs[rBlob][i], D[rBlob][i - 1], C[rBlob][i - 1], D[rBlob][i], C[rBlob][i], sent)
  BY <1>1, <1>3, Zenon DEF Written
<1> QED
  BY <1>1, <1>2, <1>3, <1>4

\* A message that is neither a dictionary nor a record is read past.
LEMMA ReadPlain ==
    ASSUME WInv, HInv, Avail, Msg.type # "dict", Msg.type # "record", UNCHANGED writerVars, UNCHANGED sinkVars,
           rBlob' = rBlob, rPos' = rPos + 1, memo' = memo, got' = got
    PROVE  HInv'
<1>1. PICK D, C : D \in DictHistories /\ C \in CountHistories /\ Written(D, C) /\ ReadOK(D, C)
  BY DEF HInv
<1>2. Entry(Msg, D[rBlob][rPos], C[rBlob][rPos], D[rBlob][rPos + 1], C[rBlob][rPos + 1], sent)
  BY <1>1, NextEntry, Zenon
<1>3. C[rBlob][rPos + 1] = C[rBlob][rPos] /\ \A id \in Ids : D[rBlob][rPos + 1][id] = D[rBlob][rPos][id]
  BY <1>2, Zenon DEF Entry
<1>4. sent' = sent
  BY DEF writerVars
<1>5. ReadOK(D, C)'
  BY <1>1, <1>3, <1>4, Zenon DEF ReadOK
<1> QED
  BY <1>1, <1>5, HistReader

LEMMA ReadDict ==
    ASSUME WInv, HInv, Avail, Msg.type = "dict", LoadDict(Msg), UNCHANGED writerVars, UNCHANGED sinkVars,
           rBlob' = rBlob, rPos' = rPos + 1, got' = got
    PROVE  HInv'
<1>1. PICK D, C : D \in DictHistories /\ C \in CountHistories /\ Written(D, C) /\ ReadOK(D, C)
  BY DEF HInv
<1>2. PICK m : m = Msg
  OBVIOUS
<1>3. m.type = "dict" /\ m.id \in Ids /\ m.delta \in BOOLEAN /\ m.vals \in Seq(Int)
  BY <1>2, AvailFacts, MessageFacts
<1>4. Entry(m, D[rBlob][rPos], C[rBlob][rPos], D[rBlob][rPos + 1], C[rBlob][rPos + 1], sent)
  BY <1>1, <1>2, NextEntry, Zenon
<1>5. memo \in [Ids -> Seq(Seq(Int))]
  BY DEF WInv, StreamTypes
<1>6. PICK c : c = memo[m.id]
  BY Zenon
<1>7. c \in Seq(Seq(Int))
  BY <1>3, <1>5, <1>6
<1>8. PICK e : e = IF m.delta THEN Append(c, m.vals) ELSE << m.vals >>
  BY Zenon
<1>9. \A id \in Ids : memo'[id] = IF id = m.id THEN e ELSE memo[id]
  BY <1>2, <1>5, <1>6, <1>8, Zenon DEF LoadDict
<1>10. e # << >> /\ D[rBlob][rPos + 1][m.id] = Concatenate(e)
  <2>1. CASE m.delta
    <3>1. c # << >> /\ D[rBlob][rPos][m.id] = Concatenate(c)
      BY <1>1, <1>3, <1>4, <1>6, <2>1, Zenon DEF Entry, ReadOK
    <3>2. Concatenate(Append(c, m.vals)) = Concatenate(c) \o m.vals
      BY <1>3, <1>7, <3>1, ConcatenateAppend, Zenon
    <3>3. D[rBlob][rPos + 1][m.id] = Cat(D[rBlob][rPos][m.id], m.vals)
      BY <1>3, <1>4, <2>1, Zenon DEF Entry
    <3>4. e = Append(c, m.vals) /\ e # << >>
      BY <1>3, <1>7, <1>8, <2>1
    <3> QED
      BY <3>1, <3>2, <3>3, <3>4 DEF Cat
  <2>2. CASE ~m.delta
    <3>1. D[rBlob][rPos + 1][m.id] = m.vals
      BY <1>3, <1>4, <2>2, Zenon DEF Entry
    <3>2. Concatenate(<< m.vals >>) = m.vals
      BY <1>3, <1>7, ConcatenateAppend
    <3>3. e = << m.vals >> /\ e # << >>
      BY <1>3, <1>8, <2>2
    <3> QED
      BY <3>1, <3>2, <3>3
  <2> QED
    BY <2>1, <2>2, Zenon
<1>11. C[rBlob][rPos + 1] = C[rBlob][rPos] /\ \A id \in Ids : id # m.id => D[rBlob][rPos + 1][id] = D[rBlob][rPos][id]
  BY <1>3, <1>4, Zenon DEF Entry
<1>12. sent' = sent
  BY Zenon DEF writerVars
<1>13. ReadOK(D, C)'
  <2>1. \A id \in Ids : /\ memo'[id] = << >> => D[rBlob][rPos + 1][id] = NoDict
                        /\ memo'[id] # << >> => D[rBlob][rPos + 1][id] = Concatenate(memo'[id])
    BY <1>1, <1>9, <1>10, <1>11, Zenon DEF ReadOK
  <2>2. /\ got \in Seq(Records) /\ Len(got) = C[rBlob][rPos + 1] /\ Len(got) <= Len(sent)
        /\ \A j \in 1 .. Len(got) : got[j] = sent[j]
    BY <1>1, <1>11, Zenon DEF ReadOK
  <2> QED
    BY <1>12, <2>1, <2>2 DEF ReadOK
<1> QED
  BY <1>1, <1>13, HistReader

\* The record the reader returns is the next of those sent.
LEMMA ReadRecord ==
    ASSUME WInv, HInv, NextRecord
    PROVE  HInv' /\ Len(got) < Len(sent) /\ got' = Append(got, sent[Len(got) + 1])
<1>1. PICK D, C : D \in DictHistories /\ C \in CountHistories /\ Written(D, C) /\ ReadOK(D, C)
  BY DEF HInv
<1>2. /\ Avail /\ Msg.type = "record" /\ UNCHANGED writerVars /\ UNCHANGED sinkVars /\ rBlob' = rBlob /\ rPos' = rPos + 1
      /\ memo' = [id \in Ids |-> Reify(memo[id])]
      /\ got' = Append(got, [n |-> Msg.n, d |-> [id \in Ids |-> Head(memo'[id])]])
  BY DEF NextRecord
<1>3. Entry(Msg, D[rBlob][rPos], C[rBlob][rPos], D[rBlob][rPos + 1], C[rBlob][rPos + 1], sent)
  BY <1>1, <1>2, NextEntry, Zenon
<1>4. PICK k : k = Len(got) + 1
  BY Zenon
<1>5. /\ C[rBlob][rPos + 1] = k /\ Msg.n = k /\ k \in 1 .. Len(sent) /\ sent[k].n = k
      /\ \A id \in Ids : D[rBlob][rPos + 1][id] = D[rBlob][rPos][id] /\ sent[k].d[id] = D[rBlob][rPos][id]
  <2>1. Len(got) = C[rBlob][rPos]
    BY <1>1, Zenon DEF ReadOK
  <2>2. /\ C[rBlob][rPos + 1] = C[rBlob][rPos] + 1 /\ Msg.n = C[rBlob][rPos + 1]
        /\ C[rBlob][rPos + 1] \in 1 .. Len(sent) /\ sent[C[rBlob][rPos + 1]].n = C[rBlob][rPos + 1]
        /\ \A id \in Ids : sent[C[rBlob][rPos + 1]].d[id] = D[rBlob][rPos + 1][id]
    BY <1>2, <1>3, Zenon DEF Entry
  <2>3. \A id \in Ids : D[rBlob][rPos + 1][id] = D[rBlob][rPos][id]
    BY <1>2, <1>3, Zenon DEF Entry
  <2> QED
    BY <1>4, <2>1, <2>2, <2>3, Zenon
<1>6. sent[k] \in Records /\ Len(sent) \in Nat /\ Len(got) \in Nat
  <2>1. sent \in Seq(Records) /\ got \in Seq(Records)
    BY <1>1, Zenon DEF WInv, StreamTypes, ReadOK
  <2> QED
    BY <1>5, <2>1, SMTT(30)
<1>7. sent[k].d \in BatchDicts /\ sent[k] = [n |-> sent[k].n, d |-> sent[k].d]
  BY <1>6, Zenon DEF Records
<1>8. ASSUME NEW id \in Ids PROVE memo[id] # << >> /\ D[rBlob][rPos][id] = Concatenate(memo[id])
  <2>1. sent[k].d[id] \in Seq(Nat)
    BY <1>7, StreamAssumption DEF BatchDicts
  <2>2. \A s \in Seq(Nat) : s # NoDict
    <3> SUFFICES ASSUME NoDict \in Seq(Nat) PROVE FALSE
      OBVIOUS
    <3>1. NoDict[1] = -1 /\ Len(NoDict) = 1
      BY DEF NoDict
    <3>2. NoDict[1] \in Nat
      BY <3>1
    <3> QED
      BY <3>1, <3>2
  <2>3. sent[k].d[id] # NoDict
    BY <2>1, <2>2
  <2> QED
    BY <1>1, <1>5, <2>3, Zenon DEF ReadOK
<1>9. \A id \in Ids : memo'[id] = << Concatenate(memo[id]) >> /\ Head(memo'[id]) = Concatenate(memo[id])
  BY <1>2 DEF Reify
<1>10. [id \in Ids |-> Head(memo'[id])] = sent[k].d
  <2>1. sent[k].d = [id \in Ids |-> sent[k].d[id]]
    BY <1>7 DEF BatchDicts
  <2>2. \A id \in Ids : Head(memo'[id]) = sent[k].d[id]
    BY <1>5, <1>8, <1>9, Zenon
  <2> QED
    BY <2>1, <2>2, Zenon
<1>11. got' = Append(got, sent[k])
  BY <1>2, <1>5, <1>7, <1>10, Zenon
<1>12. Len(got) < Len(sent)
  BY <1>4, <1>5, <1>6
<1>13. sent' = sent
  BY <1>2, Zenon DEF writerVars
<1>14. ReadOK(D, C)'
  <2>1. got' \in Seq(Records) /\ Len(got') = k /\ \A j \in 1 .. Len(got') : got'[j] = sent[j]
    <3>1. got \in Seq(Records) /\ \A j \in 1 .. Len(got) : got[j] = sent[j]
      BY <1>1, Zenon DEF ReadOK
    <3>2. /\ got' \in Seq(Records) /\ Len(got') = Len(got) + 1 /\ got'[Len(got) + 1] = sent[k]
          /\ \A j \in 1 .. Len(got) : got'[j] = got[j]
      BY <1>6, <1>11, <3>1
    <3>3. \A j \in 1 .. Len(got) + 1 : j \in 1 .. Len(got) \/ j = Len(got) + 1
      BY <1>6
    <3> QED
      BY <1>4, <3>1, <3>2, <3>3, Zenon
  <2>2. \A id \in Ids : memo'[id] # << >> /\ D[rBlob][rPos + 1][id] = Concatenate(memo'[id])
    <3> SUFFICES ASSUME NEW id \in Ids PROVE memo'[id] # << >> /\ D[rBlob][rPos + 1][id] = Concatenate(memo'[id])
      OBVIOUS
    <3>1. PICK v : v = Concatenate(memo[id])
      OBVIOUS
    <3>2. v \in Seq(Int)
      BY <3>1, ConcatenateType DEF WInv, StreamTypes
    <3>3. << >> \in Seq(Seq(Int))
      OBVIOUS
    <3>4. Concatenate(<< v >>) = v
      BY <3>2, <3>3, ConcatenateAppend, Zenon
    <3>5. memo'[id] = << v >>
      BY <1>9, <3>1, Zenon
    <3> QED
      BY <1>5, <1>8, <3>1, <3>4, <3>5
  <2>3. k <= Len(sent)
    BY <1>5, <1>6, SMTT(30)
  <2> QED
    BY <1>2, <1>5, <1>13, <2>1, <2>2, <2>3, Zenon DEF ReadOK
<1>15. HInv'
  BY <1>1, <1>2, <1>14, HistReader, Zenon
<1> QED
  BY <1>4, <1>11, <1>12, <1>15, Zenon

LEMMA ReadStay ==
    ASSUME HInv, UNCHANGED writerVars, UNCHANGED sinkVars, rBlob' = rBlob, rPos' = rPos, memo' = memo, got' = got
    PROVE  HInv'
<1>1. PICK D, C : D \in DictHistories /\ C \in CountHistories /\ Written(D, C) /\ ReadOK(D, C)
  BY Zenon DEF HInv
<1>2. ReadOK(D, C)'
  BY <1>1 DEF ReadOK, writerVars
<1> QED
  BY <1>1, <1>2, HistReader

LEMMA ReaderSInv ==
    ASSUME WInv, HInv, ReaderStep
    PROVE  HInv'
<1>1. CASE NewReader
  <2>1. /\ UNCHANGED writerVars /\ UNCHANGED sinkVars /\ rBlob' = rBlob /\ memo' = memo /\ got' = got
        /\ \/ Avail /\ Msg = SchemaMsg /\ rPos' = rPos + 1
           \/ rPos' = rPos
    BY <1>1 DEF NewReader
  <2>2. Msg = SchemaMsg => Msg.type = "schema"
    BY MessageFacts
  <2> QED
    BY <2>1, <2>2, ReadPlain, ReadStay
<1>2. CASE InitialDict \/ NextDict
  <2>1. /\ UNCHANGED writerVars /\ UNCHANGED sinkVars /\ rBlob' = rBlob /\ rPos' = rPos + 1 /\ got' = got
        /\ Avail /\ Msg.type = "dict" /\ LoadDict(Msg)
    BY <1>2 DEF InitialDict, NextDict
  <2> QED
    BY <2>1, ReadDict
<1>3. CASE InitialEnd \/ NextEnd
  <2>1. /\ UNCHANGED writerVars /\ UNCHANGED sinkVars /\ rBlob' = rBlob /\ memo' = memo /\ got' = got
        /\ \/ Avail /\ Msg = EOS /\ rPos' = rPos + 1
           \/ rPos' = rPos
    BY <1>3 DEF InitialEnd, NextEnd
  <2>2. Msg = EOS => Msg.type = "eos"
    BY MessageFacts
  <2> QED
    BY <2>1, <2>2, ReadPlain, ReadStay, Zenon
<1>4. CASE NextRecord
  BY <1>4, ReadRecord
<1>5. CASE ContinueFrom
  <2>1. /\ UNCHANGED writerVars /\ UNCHANGED sinkVars /\ rBlob' = rBlob + 1 /\ rPos' = 0 /\ memo' = memo /\ got' = got
        /\ rDone /\ ~rErr /\ rBlob < Len(blobs) /\ sent' = sent
    BY <1>5 DEF ContinueFrom, writerVars
  <2>2. PICK D, C : D \in DictHistories /\ C \in CountHistories /\ Written(D, C) /\ ReadOK(D, C)
    BY DEF HInv
  <2>3. rPos = Len(blobs[rBlob])
    BY <2>1, Zenon DEF WInv, ReaderOK
  <2>4. rBlob \in 1 .. Len(blobs) - 1
    BY <2>1, AvailFacts
  <2>5. D[rBlob + 1][0] = D[rBlob][rPos] /\ C[rBlob + 1][0] = C[rBlob][rPos]
    BY <2>2, <2>3, <2>4, Zenon DEF Written
  <2>6. ReadOK(D, C)'
    BY <2>1, <2>2, <2>5 DEF ReadOK
  <2> QED
    BY <2>1, <2>2, <2>6, HistReader
<1> QED
  BY <1>1, <1>2, <1>3, <1>4, <1>5 DEF ReaderStep

LEMMA InitSInv == Init => SInv
<1> SUFFICES ASSUME Init PROVE DictsDone /\ HInv
  BY InitWInv DEF SInv
<1>1. DictsDone
  BY IdleJob DEF Init, DictsDone
<1>2. PICK D : D = [b \in Nat |-> [i \in Nat |-> [id \in Ids |-> NoDict]]]
  BY Zenon
<1>3. PICK C : C = [b \in Nat |-> [i \in Nat |-> 0]]
  BY Zenon
<1>4. D \in DictHistories /\ C \in CountHistories
  <2>1. NoDict \in Seq(Int)
    BY DEF NoDict
  <2> QED
    BY <1>2, <1>3, <2>1 DEF DictHistories, CountHistories, DictStates
<1>5. D[1][0] = [id \in Ids |-> NoDict] /\ C[1][0] = 0
  BY <1>2, <1>3
<1>6. Len(blobs) = 1 /\ blobs[1] = << >> /\ Len(blobs[1]) = 0 /\ Tip = 0
  BY DEF Init, Tip
<1>7. Written(D, C)
  <2>1. \A b \in 1 .. Len(blobs) - 1 : FALSE
    BY <1>6
  <2>2. \A b \in 1 .. Len(blobs) : \A i \in 1 .. Len(blobs[b]) : FALSE
    BY <1>6
  <2>3. Len(sent) = 0 /\ last = [id \in Ids |-> NoDict]
    BY Zenon DEF Init
  <2> QED
    BY <1>5, <1>6, <2>1, <2>2, <2>3, Zenon DEF Written
<1>8. ReadOK(D, C)
  <2>1. got \in Seq(Records) /\ Len(got) = 0 /\ Len(sent) = 0
    BY DEF Init
  <2>2. \A id \in Ids : memo[id] = << >> /\ D[1][0][id] = NoDict
    BY <1>5 DEF Init
  <2>3. rBlob = 1 /\ rPos = 0
    BY DEF Init
  <2> QED
    BY <1>5, <2>1, <2>2, <2>3, SMTT(30) DEF ReadOK
<1> QED
  BY <1>1, <1>4, <1>7, <1>8 DEF HInv

LEMMA NextSInv ==
    ASSUME Tolerance = {}, SInv, [Next]_vars
    PROVE  SInv'
<1>1. WInv'
  BY NextWInv DEF SInv
<1>2. DictsDone' /\ HInv'
  <2>1. ASSUME UNCHANGED writerVars PROVE DictsDone'
    BY <2>1 DEF SInv, DictsDone, writerVars
  <2>2. CASE UNCHANGED vars
    BY <2>1, <2>2, ReadStay DEF SInv, vars, readerVars
  <2>3. CASE WriterStep
    BY <2>3, StartSInv, WriteDictSInv, WriteRecordSInv, CloseEndSInv DEF WriterStep
  <2>4. CASE ReaderStep
    <3>1. UNCHANGED writerVars
      BY <2>4 DEF ReaderStep, NewReader, InitialDict, InitialEnd, NextDict, NextRecord, NextEnd, ContinueFrom
    <3> QED
      BY <2>1, <2>4, <3>1, ReaderSInv, Zenon DEF SInv
  <2>5. CASE Split
    BY <2>1, <2>5, HistSplit DEF SInv, Split
  <2>6. CASE WriterCall
    BY <2>6, CallSInv
  <2> QED
    BY <2>2, <2>3, <2>4, <2>5, <2>6 DEF Next
<1> QED
  BY <1>1, <1>2 DEF SInv

-----------------------------------------------------------------------------
\* Reader.Next: a reader that came to the end of a closed stream without an error has
\* returned exactly the batches that were written, whatever was split and interrupted.
THEOREM EndIsComplete ==
    ASSUME Tolerance = {}
    PROVE  Spec => []CleanEnd
<1>1. Init => SInv
  BY InitSInv
<1>2. SInv /\ [Next]_vars => SInv'
  BY NextSInv
<1>3. SInv => CleanEnd
  <2> SUFFICES ASSUME SInv, rDone, ~rErr, rBlob = Len(blobs), pw = "nil" PROVE got = sent /\ ~broken
    BY DEF CleanEnd
  <2>1. PICK D, C : D \in DictHistories /\ C \in CountHistories /\ Written(D, C) /\ ReadOK(D, C)
    BY DEF SInv, HInv
  <2>2. rPos = Tip
    BY DEF SInv, WInv, ReaderOK, Tip
  <2>3. got \in Seq(Records) /\ sent \in Seq(Records) /\ Len(got) = Len(sent) /\ \A j \in 1 .. Len(got) : got[j] = sent[j]
    BY <2>1, <2>2, Zenon DEF SInv, WInv, StreamTypes, Written, ReadOK
  <2>4. got = sent
    BY <2>3, SameSeq
  <2>5. ~broken
    <3> SUFFICES ASSUME broken PROVE FALSE
      BY Zenon
    <3>1. Tip > 0 /\ blobs[rBlob][Tip].type = "cut"
      BY Zenon DEF SInv, WInv, Shape
    <3>2. Tip \in 1 .. rPos
      BY <2>2, <3>1, BlobFacts, SMTT(30) DEF SInv, WInv
    <3> QED
      BY <3>1, <3>2, Zenon DEF SInv, WInv, ReaderOK
  <2> QED
    BY <2>4, <2>5
<1> QED
  BY <1>1, <1>2, <1>3, PTL DEF Spec

\* Writer and Reader together implement the abstract record stream: the record payload of
\* a successful Write is the abstract Put, Next returning a record the abstract Get, and
\* everything else (dictionaries, deltas, failures, blobs) is invisible in it.
THEOREM StreamRefines ==
    ASSUME Tolerance = {}
    PROVE  Spec => ImplementsStream
<1>1. Init => SInv
  BY InitSInv
<1>2. SInv /\ [Next]_vars => SInv'
  BY NextSInv
<1>3. Init => Stream!Init
  BY DEF Init, Stream!Init
<1>4. SInv /\ [Next]_vars => [Stream!Next]_(Stream!vars)
  <2> SUFFICES ASSUME SInv, [Next]_vars PROVE [Stream!Next]_(Stream!vars)
    OBVIOUS
  <2>1. CASE WriteRecord
    <3>1. got' = got
      BY <2>1 DEF WriteRecord, readerVars
    <3>2. CASE sent' = Append(sent, [n |-> job.n, d |-> job.d])
      <4>1. [n |-> job.n, d |-> job.d] \in Records
        BY <2>1, WriteFacts, Zenon DEF WriteRecord, SInv
      <4> QED
        BY <3>1, <3>2, <4>1 DEF Stream!Next, Stream!Put
    <3>3. CASE sent' = sent
      BY <3>1, <3>3 DEF Stream!vars
    <3> QED
      BY <2>1, <3>2, <3>3 DEF WriteRecord
  <2>2. CASE NextRecord
    <3>1. Len(got) < Len(sent) /\ got' = Append(got, sent[Len(got) + 1])
      BY <2>2, ReadRecord DEF SInv
    <3>2. sent' = sent
      BY <2>2 DEF NextRecord, writerVars
    <3> QED
      BY <3>1, <3>2 DEF Stream!Next, Stream!Get
  <2>3. CASE ~WriteRecord /\ ~NextRecord
    <3>1. sent' = sent /\ got' = got
      <4>1. CASE UNCHANGED vars
        BY <4>1 DEF vars, writerVars, readerVars
      <4>2. CASE WriterCall
        BY <4>2 DEF WriterCall, Write, WriteMismatched, WriteClosed, Close, readerVars
      <4>3. CASE Start \/ WriteDict \/ CloseEnd
        BY <4>3 DEF Start, WriteDict, CloseEnd, readerVars
      <4>4. CASE Split
        BY <4>4 DEF Split, writerVars, readerVars
      <4>5. CASE NewReader \/ InitialDict \/ InitialEnd \/ NextDict \/ NextEnd \/ ContinueFrom
        BY <4>5, Zenon DEF NewReader, InitialDict, InitialEnd, NextDict, NextEnd, ContinueFrom, writerVars
      <4> QED
        BY <2>3, <4>1, <4>2, <4>3, <4>4, <4>5, Zenon DEF Next, WriterStep, ReaderStep
    <3> QED
      BY <3>1 DEF Stream!vars
  <2> QED
    BY <2>1, <2>2, <2>3
<1> QED
  BY <1>1, <1>2, <1>3, <1>4, PTL DEF Spec, ImplementsStream, Stream!Spec

-----------------------------------------------------------------------------
(* The pool that compresses the body of a payload.                           *)

PoolTypes ==
    /\ body \in [Buffers -> {"empty", "raw", "compressed"}]
    /\ freed \in [Buffers -> Nat]
    /\ pc \in {"serial", "send", "wait", "returned"}
    /\ idx \in 0 .. NumBuffers
    /\ wpc \in [Workers -> {"receive", "work", "report", "cancel", "gone"}]
    /\ taken \in [Workers -> Buffers \union {None}]

PoolFlags ==
    /\ chClosed \in BOOLEAN
    /\ errch \in BOOLEAN
    /\ cancelled \in BOOLEAN
    /\ result \in {"none", "ok", "error"}

\* A buffer at or beyond idx was not touched, and a buffer is released when it is
\* compressed.
Progress ==
    \A i \in Buffers :
        /\ freed[i] = IF body[i] = "compressed" THEN 1 ELSE 0
        /\ i >= idx => body[i] # "compressed"

\* A worker at work holds a buffer that was sent, is not compressed and is nobody else's.
Hands ==
    /\ \A w \in Workers : wpc[w] \in {"work", "report"} => taken[w] \in Buffers /\ taken[w] < idx
    /\ \A w \in Workers : wpc[w] = "work" => body[taken[w]] # "compressed"
    /\ Exclusive

\* What became of the buffers that were sent.
Accounted ==
    \A i \in Buffers : i < idx /\ body[i] = "raw" =>
        \/ errch
        \/ result = "error"
        \/ \E w \in Workers : wpc[w] \in {"work", "report"} /\ taken[w] = i

Errors ==
    /\ cancelled => errch
    /\ \A w \in Workers : wpc[w] = "cancel" => errch

Control ==
    /\ pc = "serial" => result = "none" /\ ~errch /\ \A w \in Workers : wpc[w] = "gone"
    /\ pc = "send" => result = "none"
    /\ pc = "wait" => result = "none" /\ (idx = NumBuffers \/ errch)
    /\ pc = "returned" => \A w \in Workers : wpc[w] = "gone"
    /\ result = "ok" => ~errch /\ idx = NumBuffers

PoolInv == PoolTypes /\ PoolFlags /\ Progress /\ Hands /\ Accounted /\ Errors /\ Control

LEMMA InitPool == PoolInit => PoolInv
<1> SUFFICES ASSUME PoolInit PROVE PoolInv
  OBVIOUS
<1> USE PoolAssumption
<1>1. PoolTypes
  BY DEF PoolInit, PoolTypes, Buffers
<1>2. PoolFlags
  BY Zenon DEF PoolInit, PoolFlags
<1>3. Progress
  BY DEF PoolInit, Progress
<1>4. Hands
  BY DEF PoolInit, Hands, Exclusive
<1>5. Accounted
  BY DEF PoolInit, Accounted, Buffers
<1>6. Errors
  BY DEF PoolInit, Errors
<1>7. Control
  BY DEF PoolInit, Control
<1> QED
  BY <1>1, <1>2, <1>3, <1>4, <1>5, <1>6, <1>7 DEF PoolInv

LEMMA StepPool == PoolInv /\ [PoolNext]_poolVars => PoolInv'
<1> SUFFICES ASSUME PoolInv, [PoolNext]_poolVars PROVE PoolInv'
  OBVIOUS
<1> USE PoolAssumption DEF PoolInv
<1>1. CASE SerialStep
  <2>1. CASE idx < NumBuffers /\ Compress(idx, TRUE) /\ idx' = idx + 1 /\ UNCHANGED <<pc, result>>
    <3> USE <1>1, <2>1 DEF SerialStep, Compress, Buffers
    <3>a. idx \in Buffers /\ idx' \in 0 .. NumBuffers
      BY DEF PoolTypes
    <3>b. body' \in [Buffers -> {"empty", "raw", "compressed"}] /\ freed' \in [Buffers -> Nat]
      <4>1. body \in [Buffers -> {"empty", "raw", "compressed"}] /\ freed \in [Buffers -> Nat]
        BY DEF PoolTypes
      <4>2. CASE body[idx] = "empty"
        BY <4>1, <4>2
      <4>3. CASE body[idx] # "empty"
        <5>1. freed[idx] + 1 \in Nat
          BY <3>a, <4>1
        <5> QED
          BY <4>1, <4>3, <5>1, Zenon
      <4> QED
        BY <4>2, <4>3, Zenon
    <3>1. PoolTypes' /\ PoolFlags'
      BY <3>a, <3>b, Zenon DEF PoolTypes, PoolFlags
    <3>2. Progress'
      BY DEF PoolTypes, Progress
    <3>3. Hands' /\ Errors' /\ Control'
      BY Zenon DEF PoolTypes, Hands, Exclusive, Errors, Control
    <3>4. Accounted'
      BY SMTT(30) DEF PoolTypes, Accounted, Control
    <3> QED
      BY <3>1, <3>2, <3>3, <3>4, Zenon
  <2>2. CASE pc' = "returned" /\ result' = "error" /\ UNCHANGED <<body, freed, idx>>
    <3> USE <1>1, <2>2 DEF SerialStep
    <3>1. PoolTypes' /\ PoolFlags'
      BY DEF PoolTypes, PoolFlags
    <3>2. Progress'
      BY Zenon DEF PoolTypes, Progress
    <3>3. Hands'
      BY Zenon DEF PoolTypes, Hands, Exclusive
    <3>4. Accounted'
      BY Zenon DEF PoolTypes, Accounted, Hands, Control
    <3>5. Errors' /\ Control'
      BY DEF PoolTypes, Errors, Control
    <3> QED
      BY <3>1, <3>2, <3>3, <3>4, <3>5, Zenon
  <2>3. CASE idx = NumBuffers /\ pc' = "returned" /\ result' = "ok" /\ UNCHANGED <<body, freed, idx>>
    <3> USE <1>1, <2>3 DEF SerialStep
    <3>1. PoolTypes' /\ PoolFlags'
      BY Zenon DEF PoolTypes, PoolFlags
    <3>2. Progress'
      BY Zenon DEF PoolTypes, Progress
    <3>3. Hands'
      BY Zenon DEF PoolTypes, Hands, Exclusive
    <3>4. Accounted'
      BY Zenon DEF PoolTypes, Accounted, Hands, Control
    <3>5. Errors' /\ Control'
      BY DEF PoolTypes, Errors, Control
    <3> QED
      BY <3>1, <3>2, <3>3, <3>4, <3>5, Zenon
  <2> QED
    BY <1>1, <2>1, <2>2, <2>3, Zenon DEF SerialStep
<1>2. ASSUME NEW w \in Workers, Send(w) PROVE PoolInv'
  <2> USE <1>2 DEF Send
  <2>1. PoolTypes' /\ PoolFlags' /\ Progress' /\ Errors' /\ Control'
    BY SMTT(30) DEF PoolTypes, PoolFlags, Progress, Errors, Control, Buffers
  <2>2. Hands'
    BY DEF PoolTypes, Hands, Exclusive, Progress, Buffers
  <2>3. Accounted'
    BY DEF PoolTypes, Accounted, Buffers
  <2> QED
    BY <2>1, <2>2, <2>3, Zenon
<1>3. CASE SendEnd
  <2> USE <1>3 DEF SendEnd
  <2>1. PoolTypes' /\ PoolFlags'
    BY DEF PoolTypes, PoolFlags
  <2>2. Progress'
    BY Zenon DEF PoolTypes, Progress
  <2>3. Hands'
    BY Zenon DEF PoolTypes, Hands, Exclusive
  <2>4. Accounted'
    BY Zenon DEF PoolTypes, Accounted, Hands, Control
  <2>5. Errors' /\ Control'
    BY DEF PoolTypes, Errors, Control
  <2> QED
    BY <2>1, <2>2, <2>3, <2>4, <2>5, Zenon
<1>4. ASSUME NEW w \in Workers, WorkerCompress(w) PROVE PoolInv'
  <2>1. CASE Compress(taken[w], TRUE) /\ wpc' = [wpc EXCEPT ![w] = "receive"]
               /\ taken' = [taken EXCEPT ![w] = None]
    <3> USE <1>4, <2>1 DEF WorkerCompress, Compress
    <3>1. PoolTypes' /\ PoolFlags' /\ Errors' /\ Control'
      BY SMTT(30) DEF PoolTypes, PoolFlags, Errors, Control, Hands
    <3>2. Progress'
      <4>1. /\ taken[w] \in Buffers /\ ~(taken[w] >= idx) /\ idx' = idx
            /\ body[taken[w]] # "compressed"
        BY DEF PoolTypes, Hands, Buffers
      <4>2. freed[taken[w]] = 0 /\ \A i \in Buffers : i >= idx => body[i] # "compressed"
        BY <4>1, Zenon DEF Progress
      <4>3. CASE body[taken[w]] = "empty"
        BY <4>1, <4>3, Zenon DEF Progress
      <4>4. CASE body[taken[w]] # "empty"
        <5>1. freed'[taken[w]] = freed[taken[w]] + 1
          BY <4>1, <4>4, Zenon DEF PoolTypes
        <5>2. freed'[taken[w]] = 1
          BY ONLY <4>2, <5>1
        <5>3. /\ body'[taken[w]] = "compressed"
              /\ \A i \in Buffers : i # taken[w] => body'[i] = body[i] /\ freed'[i] = freed[i]
          BY <4>1, <4>4, Zenon DEF PoolTypes
        <5> QED
          BY <4>1, <4>2, <5>2, <5>3, Zenon DEF Progress
      <4> QED
        BY <4>3, <4>4, Zenon
    <3>3. Hands'
      BY Zenon DEF PoolTypes, Hands, Exclusive
    <3>4. Accounted'
      BY SMTT(30) DEF PoolTypes, Accounted, Hands, Control
    <3> QED
      BY <3>1, <3>2, <3>3, <3>4, Zenon
  <2>2. CASE wpc' = [wpc EXCEPT ![w] = "report"] /\ UNCHANGED <<body, freed, taken>>
    <3> USE <1>4, <2>2 DEF WorkerCompress
    <3>1. PoolTypes' /\ PoolFlags' /\ Progress' /\ Errors' /\ Control'
      BY Zenon DEF PoolTypes, PoolFlags, Progress, Errors, Control
    <3>2. Hands' /\ Accounted'
      BY SMTT(30) DEF PoolTypes, Hands, Exclusive, Accounted
    <3> QED
      BY <3>1, <3>2, Zenon
  <2> QED
    BY <1>4, <2>1, <2>2, Zenon DEF WorkerCompress
<1>5. ASSUME NEW w \in Workers, WorkerReport(w) PROVE PoolInv'
  <2> USE <1>5 DEF WorkerReport
  <2>1. PoolTypes' /\ PoolFlags'
    BY DEF PoolTypes, PoolFlags
  <2>2. Progress'
    BY Zenon DEF PoolTypes, Progress
  <2>3. Hands'
    BY Zenon DEF PoolTypes, Hands, Exclusive
  <2>4. Accounted'
    BY Zenon DEF PoolTypes, Accounted, Hands, Control
  <2>5. Errors' /\ Control'
    BY DEF PoolTypes, Errors, Control
  <2> QED
    BY <2>1, <2>2, <2>3, <2>4, <2>5, Zenon
<1>6. ASSUME NEW w \in Workers, WorkerCancel(w) PROVE PoolInv'
  <2> USE <1>6 DEF WorkerCancel
  <2>1. PoolTypes' /\ PoolFlags'
    BY DEF PoolTypes, PoolFlags
  <2>2. Progress'
    BY Zenon DEF PoolTypes, Progress
  <2>3. Hands'
    BY Zenon DEF PoolTypes, Hands, Exclusive
  <2>4. Accounted'
    BY Zenon DEF PoolTypes, Accounted, Hands, Control
  <2>5. Errors' /\ Control'
    BY DEF PoolTypes, Errors, Control
  <2> QED
    BY <2>1, <2>2, <2>3, <2>4, <2>5, Zenon
<1>7. ASSUME NEW w \in Workers, WorkerExit(w) PROVE PoolInv'
  <2> USE <1>7 DEF WorkerExit
  <2>1. PoolTypes' /\ PoolFlags'
    BY DEF PoolTypes, PoolFlags
  <2>2. Progress'
    BY Zenon DEF PoolTypes, Progress
  <2>3. Hands'
    BY Zenon DEF PoolTypes, Hands, Exclusive
  <2>4. Accounted'
    BY Zenon DEF PoolTypes, Accounted, Hands, Control
  <2>5. Errors' /\ Control'
    BY DEF PoolTypes, Errors, Control
  <2> QED
    BY <2>1, <2>2, <2>3, <2>4, <2>5, Zenon
<1>8. CASE Wait
  <2> USE <1>8 DEF Wait
  <2>1. PoolTypes' /\ PoolFlags'
    BY DEF PoolTypes, PoolFlags
  <2>2. Progress'
    BY Zenon DEF PoolTypes, Progress
  <2>3. Hands'
    BY DEF PoolTypes, Hands, Exclusive
  <2>4. Accounted'
    BY DEF PoolTypes, Accounted, Hands, Control
  <2>5. Errors' /\ Control'
    BY DEF PoolTypes, Errors, Control
  <2> QED
    BY <2>1, <2>2, <2>3, <2>4, <2>5, Zenon
<1>9. CASE UNCHANGED poolVars
  <2> USE <1>9 DEF poolVars
  <2>1. PoolTypes' /\ PoolFlags'
    BY DEF PoolTypes, PoolFlags
  <2>2. Progress'
    BY DEF PoolTypes, Progress
  <2>3. Hands'
    BY Zenon DEF PoolTypes, Hands, Exclusive
  <2>4. Accounted'
    BY DEF PoolTypes, Accounted, Hands, Control
  <2>5. Errors' /\ Control'
    BY DEF PoolTypes, Errors, Control
  <2> QED
    BY <2>1, <2>2, <2>3, <2>4, <2>5, Zenon
<1> QED
  BY <1>1, <1>2, <1>3, <1>4, <1>5, <1>6, <1>7, <1>8, <1>9, Zenon DEF PoolNext, Caller, Worker

LEMMA PoolConsequences == PoolInv => TypeOK /\ OkMeansAll /\ PayloadOwned
<1> SUFFICES ASSUME PoolInv PROVE TypeOK /\ OkMeansAll /\ PayloadOwned
  OBVIOUS
<1> USE DEF PoolInv
<1>1. TypeOK
  BY DEF TypeOK, PoolTypes, PoolFlags, Progress
<1>2. PayloadOwned
  BY Zenon DEF PayloadOwned, WorkersGone, Control, Hands
<1>3. OkMeansAll
  BY PoolAssumption DEF OkMeansAll, Accounted, Control, PoolTypes, Buffers
<1> QED
  BY <1>1, <1>2, <1>3

\* Every variable has its type, and compress releases each raw buffer at most once,
\* whatever the number of workers and buffers.
THEOREM PoolTypeCorrect == PoolSpec => []TypeOK
<1>1. PoolInv => TypeOK
  BY PoolConsequences
<1> QED
  BY InitPool, StepPool, <1>1, PTL DEF PoolSpec

\* compressBodyBuffers returns nil only when every buffer with data is compressed, for any
\* number of workers and buffers: no worker leaves early unnoticed.
THEOREM OkCompressed == PoolSpec => []OkMeansAll
<1>1. PoolInv => OkMeansAll
  BY PoolConsequences
<1> QED
  BY InitPool, StepPool, <1>1, PTL DEF PoolSpec

\* compressBodyBuffers leaves no worker behind and never has two workers on one buffer.
THEOREM PayloadOwnedByOne == PoolSpec => []PayloadOwned
<1>1. PoolInv => PayloadOwned
  BY PoolConsequences
<1> QED
  BY InitPool, StepPool, <1>1, PTL DEF PoolSpec
==============================================================================
