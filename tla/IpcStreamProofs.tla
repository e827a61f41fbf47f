--------------------------- MODULE IpcStreamProofs ---------------------------
(***************************************************************************)
(* The shape of the IPC stream, for every number of dictionary fields,     *)
(* batches and blobs.                                                      *)
(*                                                                         *)
(* WInv says where an end of stream or a torn message can be, which call   *)
(* of the writer is in progress, how far the reader is and why.  It holds  *)
(* for any comparison of dictionaries, and is enough for two theorems: an  *)
(* error of the reader is one of the writer, and a failed writer stays     *)
(* failed.  IpcProofs has what the messages mean.                          *)
(***************************************************************************)
EXTENDS IpcStream, WellFoundedInduction, TLAPS

\* What the messages of a stream can be.
Messages ==
    {SchemaMsg, EOS, CutMsg} \cup {RecordMsg(n) : n \in Nat}
    \cup {DictMsg(id, f, v) : id \in Ids, f \in BOOLEAN, v \in Seq(Int)}

StreamTypes ==
    /\ hasSchema \in BOOLEAN /\ wStarted \in BOOLEAN /\ wErr \in BOOLEAN /\ broken \in BOOLEAN
    /\ pw \in {"open", "nil"}
    /\ last \in [Ids -> Seq(Int)]
    /\ sent \in Seq(Records)
    /\ blobs \in Seq(Seq(Messages)) /\ Len(blobs) > 0
    /\ rState \in {"none", "open", "failed"}
    /\ rBlob \in 1 .. Len(blobs) /\ rPos \in 0 .. Len(blobs[rBlob])
    /\ memo \in [Ids -> Seq(Seq(Int))]
    /\ nInit \in Nat
    /\ readInitialDicts \in BOOLEAN /\ rErr \in BOOLEAN /\ rDone \in BOOLEAN

JobTypes ==
    [call : {"none", "write", "mismatched", "close"}, next : 0 .. NumDicts + 1, n : Nat, d : BatchDicts \cup {<< >>}]

\* The call in progress.  None but Close goes on after a failure, and only to the end of stream.
JobOK ==
    /\ job \in JobTypes
    /\ job.call # "none" => pw = "open"
    /\ wErr /\ job.call # "none" => job.call = "close" /\ job.next = NumDicts + 1
    /\ job.call = "write" => job.n = Len(sent) + 1 /\ job.n <= MaxWrites /\ job.d \in BatchDicts

\* A torn payload is a failure; the stream was started when one happens, and before any other payload.
WriterOK ==
    /\ broken => wErr
    /\ wErr /\ pw = "open" => wStarted
    /\ job.call # "none" /\ job.next # 0 => wStarted

\* The place where the next message goes.
Tip == Len(blobs[Len(blobs)])

Shape ==
    /\ \A b \in 1 .. Len(blobs) : \A i \in 1 .. Len(blobs[b]) :
        /\ blobs[b][i].type = "eos" => b = Len(blobs) /\ i = Len(blobs[b]) /\ pw = "nil" /\ ~broken
        /\ blobs[b][i].type = "cut" => b = Len(blobs) /\ i = Len(blobs[b]) /\ broken
        /\ blobs[b][i].type = "eos" /\ i > 1 /\ ~wErr => blobs[b][i - 1].type # "dict"
    /\ broken => Tip > 0 /\ blobs[Len(blobs)][Tip].type = "cut"
    /\ pw = "nil" /\ ~wErr => Tip > 0 /\ blobs[Len(blobs)][Tip].type = "eos"
    /\ ~wErr /\ Tip > 0 /\ blobs[Len(blobs)][Tip].type = "dict" => job.call = "write"
    /\ ~SplitAnywhere =>
        \A b \in 1 .. Len(blobs) - 1 : Len(blobs[b]) > 0 /\ blobs[b][Len(blobs[b])].type = "record"

ReaderOK ==
    /\ rState # "open" => nInit = 0 /\ ~rDone /\ ~rErr /\ ~readInitialDicts /\ rPos = 0
    /\ \A i \in 1 .. rPos :
        /\ blobs[rBlob][i].type # "cut"
        /\ blobs[rBlob][i].type = "eos" => rDone
        /\ ~DictsRead => blobs[rBlob][i].type # "record"
    /\ rDone /\ ~rErr => rPos = Len(blobs[rBlob]) /\ (rBlob < Len(blobs) \/ pw = "nil")
    /\ rDone /\ ~rErr /\ ~DictsRead => rBlob = Len(blobs) /\ pw = "nil"
    /\ ~DictsRead /\ ~rDone /\ nInit > 0 => rPos > 0 /\ blobs[rBlob][rPos].type = "dict"
    /\ rErr => rDone
    /\ ~SplitAnywhere /\ rErr => wErr


WInv == StreamTypes /\ JobOK /\ WriterOK /\ Shape /\ ReaderOK

-----------------------------------------------------------------------------
LEMMA MessageFacts ==
    /\ SchemaMsg \in Messages /\ EOS \in Messages /\ CutMsg \in Messages
    /\ \A n \in Nat : RecordMsg(n) \in Messages
    /\ \A id \in Ids, f \in BOOLEAN, v \in Seq(Int) : DictMsg(id, f, v) \in Messages
    /\ \A m \in Messages :
        /\ m.type \in {"schema", "dict", "record", "eos", "cut"}
        /\ m = SchemaMsg <=> m.type = "schema"
        /\ m = EOS <=> m.type = "eos"
        /\ m = CutMsg <=> m.type = "cut"
        /\ m.type = "dict" => m.id \in Ids /\ m.delta \in BOOLEAN /\ m.vals \in Seq(Int)
        /\ m.type = "record" => m.n \in Nat
<1>1. /\ SchemaMsg \in Messages /\ EOS \in Messages /\ CutMsg \in Messages
      /\ \A n \in Nat : RecordMsg(n) \in Messages
      /\ \A id \in Ids, f \in BOOLEAN, v \in Seq(Int) : DictMsg(id, f, v) \in Messages
  BY DEF Messages
<1>2. ASSUME NEW m \in Messages
      PROVE  /\ m.type \in {"schema", "dict", "record", "eos", "cut"}
             /\ m = SchemaMsg <=> m.type = "schema"
             /\ m = EOS <=> m.type = "eos"
             /\ m = CutMsg <=> m.type = "cut"
             /\ m.type = "dict" => m.id \in Ids /\ m.delta \in BOOLEAN /\ m.vals \in Seq(Int)
             /\ m.type = "record" => m.n \in Nat
  <2>1. SchemaMsg.type = "schema" /\ EOS.type = "eos" /\ CutMsg.type = "cut"
    BY DEF SchemaMsg, EOS, CutMsg
  <2>2. CASE m \in {SchemaMsg, EOS, CutMsg}
    BY <2>1, <2>2
  <2>3. ASSUME NEW n \in Nat, m = RecordMsg(n) PROVE m.type = "record" /\ m.n = n
    BY <2>3 DEF RecordMsg
  <2>4. ASSUME NEW id \in Ids, NEW f \in BOOLEAN, NEW v \in Seq(Int), m = DictMsg(id, f, v)
        PROVE  m.type = "dict" /\ m.id = id /\ m.delta = f /\ m.vals = v
    BY <2>4 DEF DictMsg
  <2>5. CASE \E n \in Nat : m = RecordMsg(n)
    BY <2>1, <2>3, <2>5
  <2>6. CASE \E id \in Ids, f \in BOOLEAN, v \in Seq(Int) : m = DictMsg(id, f, v)
    BY <2>1, <2>4, <2>6
  <2> QED
    BY <2>2, <2>5, <2>6 DEF Messages
<1> QED
  BY <1>1, <1>2

\* The last blob has the message m more, and nothing else has changed.
Longer(m) ==
    /\ Len(blobs') = Len(blobs)
    /\ \A b \in 1 .. Len(blobs) : b # Len(blobs) => blobs'[b] = blobs[b]
    /\ Len(blobs'[Len(blobs)]) = Tip + 1
    /\ \A i \in 1 .. Tip : blobs'[Len(blobs)][i] = blobs[Len(blobs)][i]
    /\ blobs'[Len(blobs)][Tip + 1] = m

LEMMA BlobFacts ==
    ASSUME StreamTypes
    PROVE  /\ Len(blobs) \in Nat /\ Len(blobs) \in 1 .. Len(blobs) /\ Tip \in Nat
           /\ \A b \in 1 .. Len(blobs) :
                /\ blobs[b] \in Seq(Messages) /\ Len(blobs[b]) \in Nat
                /\ \A i \in 1 .. Len(blobs[b]) : blobs[b][i] \in Messages
<1>1. Len(blobs) \in Nat /\ Len(blobs) \in 1 .. Len(blobs)
  BY DEF StreamTypes
<1>2. ASSUME NEW b \in 1 .. Len(blobs)
      PROVE  /\ blobs[b] \in Seq(Messages) /\ Len(blobs[b]) \in Nat
             /\ \A i \in 1 .. Len(blobs[b]) : blobs[b][i] \in Messages
  <2>1. blobs[b] \in Seq(Messages)
    BY DEF StreamTypes
  <2> QED
    BY <2>1
<1> QED
  BY <1>1, <1>2 DEF Tip

LEMMA ExtendFacts ==
    ASSUME StreamTypes, NEW m \in Messages, Extend(m)
    PROVE  blobs' \in Seq(Seq(Messages)) /\ Longer(m)
<1> DEFINE B == Len(blobs)
           old == blobs[B]
           new == Append(old, m)
<1>1. B \in 1 .. Len(blobs) /\ old \in Seq(Messages) /\ blobs \in Seq(Seq(Messages))
  BY BlobFacts DEF StreamTypes
<1>2. new \in Seq(Messages) /\ Len(new) = Len(old) + 1 /\ new[Len(old) + 1] = m
      /\ \A i \in 1 .. Len(old) : new[i] = old[i]
  BY <1>1
<1>3. blobs' = [blobs EXCEPT ![B] = new]
  BY DEF Extend
<1> HIDE DEF new
<1>4. blobs' \in Seq(Seq(Messages)) /\ Len(blobs') = Len(blobs) /\ blobs'[B] = new
      /\ \A b \in 1 .. Len(blobs) : b # Len(blobs) => blobs'[b] = blobs[b]
  BY <1>1, <1>2, <1>3
<1> QED
  BY <1>2, <1>4 DEF Longer, Tip

-----------------------------------------------------------------------------
\* What the writer's own variables can hold.
WriterTypes ==
    /\ hasSchema \in BOOLEAN /\ wStarted \in BOOLEAN /\ wErr \in BOOLEAN
    /\ pw \in {"open", "nil"} /\ last \in [Ids -> Seq(Int)] /\ sent \in Seq(Records)

\* A step of the writer that leaves the sink alone.
LEMMA QuietStep ==
    ASSUME WInv, UNCHANGED sinkVars, UNCHANGED readerVars, WriterTypes', JobOK', WriterOK',
           wErr => wErr', pw = "nil" => pw' = "nil", pw' = "nil" /\ ~wErr' => pw = "nil",
           ~wErr' /\ job.call = "write" => job'.call = "write"
    PROVE  WInv'
<1>1. blobs' = blobs /\ broken' = broken /\ rState' = rState /\ rBlob' = rBlob /\ rPos' = rPos /\ memo' = memo
      /\ nInit' = nInit /\ readInitialDicts' = readInitialDicts /\ rErr' = rErr /\ rDone' = rDone
  BY DEF sinkVars, readerVars
<1>2. StreamTypes'
  BY <1>1 DEF WInv, StreamTypes, WriterTypes
<1>3. Shape'
  BY <1>1 DEF WInv, Shape, Tip, WriterTypes, StreamTypes
<1>4. ReaderOK'
  BY <1>1 DEF WInv, ReaderOK, DictsRead, WriterTypes, StreamTypes
<1> QED
  BY <1>2, <1>3, <1>4 DEF WInv

\* A step of the writer that adds a message.
LEMMA LongerStep ==
    ASSUME WInv, NEW m \in Messages, Extend(m), pw = "open", ~broken, UNCHANGED readerVars,
           WriterTypes', broken' \in BOOLEAN, JobOK', WriterOK', wErr => wErr',
           m.type = "eos" => pw' = "nil" /\ (~wErr' => job.call # "write"),
           m.type = "cut" <=> broken',
           pw' = "nil" /\ ~wErr' => m.type = "eos",
           m.type = "dict" /\ ~wErr' => job'.call = "write"
    PROVE  WInv'
<1> DEFINE B == Len(blobs)
<1>1. rState' = rState /\ rBlob' = rBlob /\ rPos' = rPos /\ memo' = memo
      /\ nInit' = nInit /\ readInitialDicts' = readInitialDicts /\ rErr' = rErr /\ rDone' = rDone
  BY DEF readerVars
<1>2. blobs' \in Seq(Seq(Messages)) /\ Longer(m)
  BY ExtendFacts DEF WInv
<1>3. /\ B \in Nat /\ B \in 1 .. B /\ Tip \in Nat
      /\ \A b \in 1 .. B : Len(blobs[b]) \in Nat
  BY BlobFacts DEF WInv
<1>4. rBlob \in 1 .. B /\ rPos \in 0 .. Len(blobs[rBlob])
  BY DEF WInv, StreamTypes
<1>5. StreamTypes'
  <2>1. rPos \in 0 .. Len(blobs'[rBlob])
    <3>1. CASE rBlob = B
      BY <1>2, <1>3, <1>4, <3>1 DEF Longer, Tip
    <3>2. CASE rBlob # B
      BY <1>2, <1>3, <1>4, <3>2 DEF Longer
    <3> QED
      BY <3>1, <3>2
  <2>2. Len(blobs') = B /\ rBlob \in 1 .. B /\ B > 0
    BY <1>2, <1>4 DEF Longer
  <2> QED
    BY <1>1, <1>2, <2>1, <2>2 DEF WInv, StreamTypes, WriterTypes
<1>6. Len(blobs') = B /\ Tip' = Tip + 1 /\ blobs'[B][Tip + 1].type = m.type
  BY <1>2 DEF Longer, Tip
<1>7. \A b \in 1 .. B, i \in Nat : b # B \/ (i > 0 /\ i <= Tip) => blobs'[b][i] = blobs[b][i]
  BY <1>2, <1>3 DEF Longer
<1>8. \A b \in 1 .. B : b # B => Len(blobs'[b]) = Len(blobs[b])
  BY <1>2 DEF Longer
<1>9. Len(blobs'[B]) = Tip + 1
  BY <1>2 DEF Longer
<1>10. \A b \in 1 .. B : \A i \in 1 .. Len(blobs[b]) : blobs[b][i].type # "eos" /\ blobs[b][i].type # "cut"
  BY DEF WInv, Shape
<1>11. Shape'
  <2>1. ASSUME NEW b \in 1 .. Len(blobs'), NEW i \in 1 .. Len(blobs'[b])
        PROVE  /\ blobs'[b][i].type = "eos" => b = Len(blobs') /\ i = Len(blobs'[b]) /\ pw' = "nil" /\ ~broken'
               /\ blobs'[b][i].type = "cut" => b = Len(blobs') /\ i = Len(blobs'[b]) /\ broken'
               /\ blobs'[b][i].type = "eos" /\ i > 1 /\ ~wErr' => blobs'[b][i - 1].type # "dict"
    <3>1. CASE b # B \/ i # Tip + 1
      <4>1. b \in 1 .. B /\ i \in 1 .. Len(blobs[b]) /\ (b # B \/ i <= Tip)
        BY <1>3, <1>6, <1>8, <1>9, <3>1 DEF Tip
      <4>2. blobs'[b][i].type # "eos" /\ blobs'[b][i].type # "cut"
        BY <1>7, <1>10, <4>1
      <4> QED
        BY <4>2
    <3>2. CASE b = B /\ i = Tip + 1
      <4>1. blobs'[b][i].type = "eos" <=> m.type = "eos"
        BY <1>6, <3>2
      <4>2. blobs'[b][i].type = "cut" <=> m.type = "cut"
        BY <1>6, <3>2
      <4>3. ASSUME m.type = "eos", i > 1, ~wErr' PROVE blobs'[b][i - 1].type # "dict"
        <5>1. Tip > 0 /\ i - 1 = Tip
          BY <1>3, <3>2, <4>3
        <5>2. blobs[B][Tip].type # "dict"
          BY <4>3, <5>1 DEF WInv, Shape
        <5>3. blobs'[B][Tip] = blobs[B][Tip]
          BY <1>3, <1>7, <5>1
        <5> QED
          BY <3>2, <5>1, <5>2, <5>3
      <4> QED
        BY <1>6, <1>9, <3>2, <4>1, <4>2, <4>3
    <3> QED
      BY <3>1, <3>2
  <2>2. Tip' > 0
    BY <1>3, <1>6
  <2>3. blobs'[Len(blobs')][Tip'].type = m.type
    BY <1>6
  <2>4. ~SplitAnywhere => \A b \in 1 .. B - 1 : Len(blobs'[b]) > 0 /\ blobs'[b][Len(blobs'[b])].type = "record"
    <3>1. \A b \in 1 .. B - 1 : b \in 1 .. B /\ b # B
      BY <1>3
    <3>2. \A b \in 1 .. B - 1 : blobs'[b] = blobs[b]
      BY <1>2, <3>1 DEF Longer
    <3> QED
      BY <3>2 DEF WInv, Shape
  <2> QED
    BY <1>6, <2>1, <2>2, <2>3, <2>4 DEF Shape
<1>12. ReaderOK'
  <2>1. \A i \in 1 .. rPos : blobs'[rBlob][i] = blobs[rBlob][i]
    BY <1>3, <1>4, <1>7, SMTT(30) DEF Tip
  <2>2. rDone /\ ~rErr => rBlob # B
    BY <1>4 DEF WInv, ReaderOK, StreamTypes
  <2>3. rPos > 0 => rPos \in 1 .. rPos
    BY <1>4
  <2> QED
    BY <1>1, <1>4, <1>6, <1>8, <2>1, <2>2, <2>3 DEF WInv, ReaderOK, DictsRead
<1> QED
  BY <1>5, <1>11, <1>12 DEF WInv

LEMMA SplitStep ==
    ASSUME WInv, Split
    PROVE  WInv'
<1> DEFINE B == Len(blobs)
<1>1. /\ blobs' = Append(blobs, << >>) /\ pw = "open" /\ ~broken
      /\ UNCHANGED writerVars /\ UNCHANGED broken /\ UNCHANGED readerVars
      /\ blobs[B] # << >> /\ (SplitAnywhere \/ Latest.type = "record")
  BY DEF Split
<1>2. /\ B \in Nat /\ B \in 1 .. B /\ Tip \in Nat
      /\ \A b \in 1 .. B : Len(blobs[b]) \in Nat
  BY BlobFacts DEF WInv
<1>3. Tip > 0 /\ (SplitAnywhere \/ blobs[B][Tip].type = "record")
  <2>1. Latest = blobs[B][Tip] /\ blobs[B] \in Seq(Messages)
    BY <1>2, BlobFacts DEF WInv, Latest, Tip
  <2> QED
    BY <1>1, <2>1 DEF Tip
<1>4. blobs' \in Seq(Seq(Messages)) /\ Len(blobs') = B + 1 /\ blobs'[B + 1] = << >> /\ Tip' = 0
      /\ \A b \in 1 .. B : blobs'[b] = blobs[b]
  <2>1. blobs \in Seq(Seq(Messages)) /\ << >> \in Seq(Messages)
    BY DEF WInv, StreamTypes
  <2>2. blobs' \in Seq(Seq(Messages)) /\ Len(blobs') = B + 1 /\ blobs'[B + 1] = << >>
      /\ \A b \in 1 .. B : blobs'[b] = blobs[b]
    BY <1>1, <2>1
  <2> QED
    BY <2>2 DEF Tip
<1>5. rBlob \in 1 .. B /\ rPos \in 0 .. Len(blobs[rBlob])
  BY DEF WInv, StreamTypes
<1>6. StreamTypes'
  <2>1. rBlob \in 1 .. B + 1 /\ rPos \in 0 .. Len(blobs'[rBlob]) /\ B + 1 > 0
    BY <1>2, <1>4, <1>5
  <2> QED
    BY <1>1, <1>4, <2>1 DEF WInv, StreamTypes, writerVars, readerVars
<1>7. JobOK' /\ WriterOK'
  BY <1>1 DEF WInv, JobOK, WriterOK, writerVars
<1>8. \A b \in 1 .. B : blobs'[b] = blobs[b]
  BY <1>4
<1>9. Shape'
  <2>1. ASSUME NEW b \in 1 .. B + 1, NEW i \in 1 .. Len(blobs'[b])
        PROVE  blobs'[b][i].type # "eos" /\ blobs'[b][i].type # "cut"
    <3>1. b # B + 1
      BY <1>4
    <3>2. b \in 1 .. B /\ i \in 1 .. Len(blobs[b])
      BY <1>2, <1>4, <3>1, SMTT(30)
    <3>3. blobs[b][i].type # "eos" /\ blobs[b][i].type # "cut"
      BY <1>1, <3>2 DEF WInv, Shape
    <3> QED
      BY <1>8, <3>2, <3>3
  <2>2. ASSUME ~SplitAnywhere, NEW b \in 1 .. B
        PROVE  Len(blobs'[b]) > 0 /\ blobs'[b][Len(blobs'[b])].type = "record"
    <3>1. CASE b = B
      BY <1>3, <1>4, <1>8, <2>2, <3>1 DEF Tip
    <3>2. CASE b # B
      <4>1. b \in 1 .. B - 1
        BY <1>2, <3>2
      <4> QED
        BY <1>4, <1>8, <2>2, <4>1, Zenon DEF WInv, Shape
    <3> QED
      BY <3>1, <3>2
  <2>3. B + 1 - 1 = B /\ pw' = "open" /\ ~broken'
    BY <1>1, <1>2 DEF writerVars
  <2> QED
    BY <1>4, <2>1, <2>2, <2>3 DEF Shape
<1>10. ReaderOK'
  <2>1. rDone /\ ~rErr => DictsRead
    BY <1>1 DEF WInv, ReaderOK, StreamTypes
  <2>2. rBlob < B + 1
    BY <1>2, <1>5
  <2> QED
    BY <1>1, <1>4, <1>5, <1>8, <2>1, <2>2 DEF WInv, ReaderOK, DictsRead, readerVars, writerVars
<1> QED
  BY <1>6, <1>7, <1>9, <1>10 DEF WInv

-----------------------------------------------------------------------------
LEMMA InitWInv == Init => WInv
<1> SUFFICES ASSUME Init PROVE WInv
  OBVIOUS
<1>1. blobs = << << >> >> /\ blobs \in Seq(Seq(Messages)) /\ Len(blobs) = 1 /\ blobs[1] = << >> /\ Tip = 0
  <2>1. << >> \in Seq(Messages)
    OBVIOUS
  <2>2. blobs = << << >> >> /\ blobs \in Seq(Seq(Messages)) /\ Len(blobs) = 1 /\ blobs[1] = << >>
    BY <2>1 DEF Init
  <2> QED
    BY <2>2 DEF Tip
<1>2. StreamTypes
  <2>1. NoDict \in Seq(Int)
    BY DEF NoDict
  <2>2. rBlob \in 1 .. Len(blobs) /\ rPos \in 0 .. Len(blobs[rBlob])
    BY <1>1 DEF Init
  <2>3. last \in [Ids -> Seq(Int)] /\ memo \in [Ids -> Seq(Seq(Int))]
    BY <2>1 DEF Init
  <2>4. sent \in Seq(Records)
    BY DEF Init
  <2>5. /\ hasSchema \in BOOLEAN /\ wStarted \in BOOLEAN /\ wErr \in BOOLEAN /\ broken \in BOOLEAN
        /\ pw \in {"open", "nil"} /\ rState \in {"none", "open", "failed"} /\ nInit \in Nat
        /\ readInitialDicts \in BOOLEAN /\ rErr \in BOOLEAN /\ rDone \in BOOLEAN
    BY Zenon DEF Init
  <2>6. blobs \in Seq(Seq(Messages)) /\ Len(blobs) > 0
    BY <1>1
  <2> QED
    BY <2>2, <2>3, <2>4, <2>5, <2>6 DEF StreamTypes
<1>3. JobOK /\ WriterOK
  <2>1. job.call = "none"
    BY DEF Init, Idle
  <2>2. job \in JobTypes
    BY StreamAssumption DEF Init, Idle, JobTypes
  <2> QED
    BY <2>1, <2>2 DEF Init, JobOK, WriterOK
<1>4. Shape /\ ReaderOK
  <2>1. \A b \in 1 .. Len(blobs) : ~ \E i \in 1 .. Len(blobs[b]) : TRUE
    BY <1>1
  <2>2. \A b \in 1 .. Len(blobs) - 1 : FALSE
    BY <1>1
  <2>3. pw = "open" /\ ~broken
    BY DEF Init
  <2>4. Shape
    BY <1>1, <2>1, <2>2, <2>3 DEF Shape
  <2>5. ReaderOK
    BY DEF Init, ReaderOK
  <2> QED
    BY <2>4, <2>5
<1> QED
  BY <1>2, <1>3, <1>4 DEF WInv

\* The calls that only begin.
LEMMA CallStep ==
    ASSUME WInv, WriterCall
    PROVE  WInv'
<1>1. ASSUME NEW d \in BatchDicts, Write(d) PROVE WInv'
  <2>1. /\ UNCHANGED sinkVars /\ UNCHANGED readerVars /\ hasSchema' = TRUE /\ pw = "open" /\ ~wErr
        /\ wStarted' = wStarted /\ wErr' = wErr /\ pw' = pw /\ last' = last /\ sent' = sent
        /\ job' = [call |-> "write", next |-> FirstPayload, n |-> Len(sent) + 1, d |-> d] /\ Len(sent) < MaxWrites
    BY <1>1 DEF Write
  <2>2. WriterTypes'
    BY <2>1 DEF WInv, StreamTypes, WriterTypes
  <2>3. FirstPayload \in 0 .. NumDicts + 1 /\ Len(sent) \in Nat
    BY StreamAssumption DEF FirstPayload, WInv, StreamTypes
  <2>4. JobOK'
    <3>1. job' \in JobTypes
      BY <2>1, <2>3 DEF JobTypes
    <3>2. job'.call = "write" /\ job'.n = Len(sent) + 1 /\ job'.d = d
      BY <2>1
    <3> QED
      BY <2>1, <2>3, <3>1, <3>2, StreamAssumption DEF JobOK
  <2>5. WriterOK' /\ job'.call = "write"
    BY <2>1 DEF WInv, WriterOK, sinkVars, FirstPayload
  <2> QED
    BY <2>1, <2>2, <2>4, <2>5, QuietStep
<1>2. ASSUME WriteMismatched PROVE WInv'
  <2>1. /\ UNCHANGED sinkVars /\ UNCHANGED readerVars /\ hasSchema' = hasSchema /\ pw = "open" /\ ~wErr
        /\ wStarted' = wStarted /\ wErr' = wErr /\ pw' = pw /\ last' = last /\ sent' = sent
        /\ job = Idle /\ job' = [Idle EXCEPT !.call = "mismatched"]
    BY <1>2 DEF WriteMismatched
  <2>2. WriterTypes'
    BY <2>1 DEF WInv, StreamTypes, WriterTypes
  <2>3. job' = [call |-> "mismatched", next |-> 0, n |-> 0, d |-> << >>]
    BY <2>1 DEF Idle
  <2>4. JobOK'
    <3>1. job' \in JobTypes
      BY <2>3, StreamAssumption DEF JobTypes
    <3> QED
      BY <2>1, <2>3, <3>1 DEF JobOK
  <2>5. WriterOK' /\ job.call = "none"
    BY <2>1, <2>3 DEF WInv, WriterOK, sinkVars, Idle
  <2> QED
    BY <2>1, <2>2, <2>4, <2>5, QuietStep
<1>3. ASSUME WriteClosed PROVE WInv'
  <2>1. /\ UNCHANGED sinkVars /\ UNCHANGED readerVars /\ hasSchema' = hasSchema /\ pw = "nil"
        /\ wStarted' = wStarted /\ wErr' = TRUE /\ pw' = pw /\ last' = last /\ sent' = sent
        /\ job = Idle /\ job' = job
    BY <1>3 DEF WriteClosed
  <2>2. WriterTypes' /\ job.call = "none"
    BY <2>1 DEF WInv, StreamTypes, WriterTypes, Idle
  <2>3. JobOK' /\ WriterOK'
    BY <2>1, <2>2 DEF WInv, JobOK, WriterOK, sinkVars
  <2> QED
    BY <2>1, <2>2, <2>3, QuietStep
<1>4. ASSUME Close PROVE WInv'
  <2>1. /\ UNCHANGED sinkVars /\ UNCHANGED readerVars /\ hasSchema' = hasSchema /\ pw = "open"
        /\ wStarted' = wStarted /\ sent' = sent /\ job = Idle
    BY <1>4 DEF Close
  <2>2. job.call = "none"
    BY <2>1 DEF Idle
  <2>3. CASE wErr \/ hasSchema
    <3>1. /\ wErr' = wErr /\ pw' = pw /\ last' = last
          /\ job' = [Idle EXCEPT !.call = "close", !.next = IF wStarted THEN NumDicts + 1 ELSE 0]
      BY <1>4, <2>3 DEF Close
    <3>2. WriterTypes'
      BY <2>1, <3>1 DEF WInv, StreamTypes, WriterTypes
    <3>3. job' = [call |-> "close", next |-> IF wStarted THEN NumDicts + 1 ELSE 0, n |-> 0, d |-> << >>]
      BY <3>1, Zenon DEF Idle
    <3>7. WriterOK'
      BY <2>1, <3>1, <3>3 DEF WInv, WriterOK, sinkVars
    <3>4. job' \in JobTypes
      BY <3>3, StreamAssumption DEF JobTypes
    <3>5. wErr => wStarted
      BY <2>1 DEF WInv, WriterOK
    <3>6. JobOK'
      BY <2>1, <3>1, <3>3, <3>4, <3>5 DEF JobOK
    <3> QED
      BY <2>1, <2>2, <3>1, <3>2, <3>6, <3>7, QuietStep
  <2>4. CASE ~(wErr \/ hasSchema)
    <3>1. wErr' = TRUE /\ pw' = "nil" /\ job' = job /\ last' = [id \in Ids |-> NoDict]
      BY <1>4, <2>4 DEF Close
    <3>2. NoDict \in Seq(Int)
      BY DEF NoDict
    <3>3. WriterTypes' /\ WriterOK' /\ JobOK'
      BY <2>1, <2>2, <3>1, <3>2 DEF WInv, StreamTypes, WriterTypes, WriterOK, JobOK, sinkVars
    <3> QED
      BY <2>1, <2>2, <3>1, <3>3, QuietStep
  <2> QED
    BY <2>3, <2>4
<1> QED
  BY <1>1, <1>2, <1>3, <1>4 DEF WriterCall

-----------------------------------------------------------------------------
LEMMA SameSeq ==
    ASSUME NEW S, NEW s \in Seq(S), NEW t \in Seq(S), Len(s) = Len(t), \A i \in 1 .. Len(s) : s[i] = t[i]
    PROVE  s = t
OBVIOUS

LEMMA NatSetInduction ==
    ASSUME NEW S, 0 \in S, \A n \in Nat : n \in S => n + 1 \in S
    PROVE  \A n \in Nat : n \in S
<1> DEFINE R == OpToRel(<, Nat)
           T == Nat \ S
<1>1. SUFFICES ASSUME T # {} PROVE FALSE
  OBVIOUS
<1>2. PICK x \in T : \A y \in T : ~ (<<y, x>> \in R)
  <2>1. IsWellFoundedOn(R, Nat)
    BY NatLessThanWellFounded, Zenon
  <2>2. T \subseteq Nat
    OBVIOUS
  <2> HIDE DEF R, T
  <2> QED
    BY <1>1, <2>1, <2>2, WFMin, Zenon
<1>3. x \in Nat /\ x # 0 /\ x - 1 \in Nat /\ x - 1 \in T
  OBVIOUS
<1>4. <<x - 1, x>> \in R
  BY <1>3 DEF OpToRel
<1> QED
  BY <1>2, <1>3, <1>4, Zenon

Cat(a, b) == a \o b

\* f[i] joins the first i chunks.
Joins(c, f) == f = [i \in 1 .. Len(c) |-> IF i = 1 THEN c[i] ELSE Cat(f[i - 1], c[i])]

LEMMA JoinsExists ==
    ASSUME NEW V, NEW c \in Seq(Seq(V))
    PROVE  \E f \in [1 .. Len(c) -> Seq(V)] : Joins(c, f)
<1> DEFINE Upto(n, f) == \A i \in 1 .. n : f[i] = IF i = 1 THEN c[i] ELSE Cat(f[i - 1], c[i])
           S == {n \in Nat : n <= Len(c) => \E f \in [1 .. n -> Seq(V)] : Upto(n, f)}
<1>1. 0 \in S
  <2>1. [i \in 1 .. 0 |-> << >>] \in [1 .. 0 -> Seq(V)] /\ Upto(0, [i \in 1 .. 0 |-> << >>])
    OBVIOUS
  <2> QED
    BY <2>1, Zenon
<1>2. ASSUME NEW n \in Nat, n \in S PROVE n + 1 \in S
  <2> SUFFICES ASSUME n + 1 <= Len(c) PROVE \E f \in [1 .. n + 1 -> Seq(V)] : Upto(n + 1, f)
    <3> HIDE DEF Upto
    <3> QED
      OBVIOUS
  <2>1. PICK f \in [1 .. n -> Seq(V)] : Upto(n, f)
    <3>1. n <= Len(c)
      OBVIOUS
    <3> HIDE DEF Upto
    <3> QED
      BY <1>2, <3>1
  <2> DEFINE g == [i \in 1 .. n + 1 |-> IF i <= n THEN f[i] ELSE IF i = 1 THEN c[i] ELSE Cat(f[i - 1], c[i])]
  <2>2. \A i \in 1 .. n + 1 : c[i] \in Seq(V)
    OBVIOUS
  <2>3. g \in [1 .. n + 1 -> Seq(V)]
    <3>1. ASSUME NEW i \in 1 .. n + 1 PROVE g[i] \in Seq(V)
      <4>1. CASE i <= n
        BY <4>1
      <4>2. CASE i = n + 1 /\ i # 1
        <5>1. i - 1 \in 1 .. n
          BY <4>2
        <5>2. f[i - 1] \in Seq(V)
          BY <5>1
        <5>3. g[i] = Cat(f[i - 1], c[i])
          BY <4>2
        <5> QED
          BY <2>2, <5>2, <5>3 DEF Cat
      <4>3. CASE i = n + 1 /\ i = 1
        BY <2>2, <4>3
      <4> QED
        BY <4>1, <4>2, <4>3
    <3> QED
      BY <3>1
  <2>4. Upto(n + 1, g)
    <3> SUFFICES ASSUME NEW i \in 1 .. n + 1
                 PROVE  g[i] = IF i = 1 THEN c[i] ELSE Cat(g[i - 1], c[i])
      BY Zenon
    <3>1. CASE i = 1
      <4>1. n >= 1 => f[1] = c[1]
        BY <2>1
      <4> QED
        BY <3>1, <4>1
    <3>2. CASE i # 1
      <4>1. i - 1 \in 1 .. n
        BY <3>2
      <4>2. g[i - 1] = f[i - 1]
        BY <4>1
      <4>3. i <= n => f[i] = Cat(f[i - 1], c[i])
        BY <2>1, <3>2
      <4> QED
        BY <3>2, <4>2, <4>3
    <3> QED
      BY <3>1, <3>2
  <2> HIDE DEF Upto, g
  <2> QED
    BY <2>3, <2>4
<1>3. Len(c) \in S
  <2> HIDE DEF S
  <2> QED
    BY <1>1, <1>2, NatSetInduction
<1>4. PICK f \in [1 .. Len(c) -> Seq(V)] : Upto(Len(c), f)
  BY <1>3
<1> QED
  BY <1>4, Zenon DEF Joins

Begins(c, d) ==
    Len(c) \in Nat /\ Len(d) \in Nat /\ Len(c) <= Len(d) /\ \A i \in 1 .. Len(c) : c[i] = d[i]

LEMMA JoinsUnique ==
    ASSUME NEW c, NEW d, NEW f, NEW g, Begins(c, d), Joins(c, f), Joins(d, g)
    PROVE  \A i \in 1 .. Len(c) : f[i] = g[i]
<1> USE DEF Begins
<1> DEFINE S == {n \in Nat : n \in 1 .. Len(c) => f[n] = g[n]}
<1>1. 0 \in S
  OBVIOUS
<1>2. ASSUME NEW n \in Nat, n \in S PROVE n + 1 \in S
  <2> SUFFICES ASSUME n + 1 \in 1 .. Len(c) PROVE f[n + 1] = g[n + 1]
    OBVIOUS
  <2>1. f[n + 1] = IF n + 1 = 1 THEN c[n + 1] ELSE Cat(f[n], c[n + 1])
    BY DEF Joins
  <2>2. g[n + 1] = IF n + 1 = 1 THEN d[n + 1] ELSE Cat(g[n], d[n + 1])
    <3>1. n + 1 \in 1 .. Len(d)
      OBVIOUS
    <3> QED
      BY <3>1 DEF Joins
  <2>3. n + 1 # 1 => f[n] = g[n]
    BY <1>2
  <2>4. c[n + 1] = d[n + 1]
    OBVIOUS
  <2> QED
    BY <2>1, <2>2, <2>3, <2>4
<1>3. \A n \in Nat : n \in S
  <2> HIDE DEF S
  <2> QED
    BY <1>1, <1>2, NatSetInduction
<1> QED
  BY <1>3

LEMMA ConcatenateChoice ==
    ASSUME NEW c, Len(c) # 0
    PROVE  Concatenate(c) = (CHOOSE f : Joins(c, f))[Len(c)]
  BY DEF Concatenate, Joins, Cat

LEMMA ConcatenateJoins ==
    ASSUME NEW V, NEW c \in Seq(Seq(V)), Len(c) # 0
    PROVE  \E f \in [1 .. Len(c) -> Seq(V)] : Joins(c, f) /\ Concatenate(c) = f[Len(c)]
<1>1. PICK f : f \in [1 .. Len(c) -> Seq(V)] /\ Joins(c, f)
  BY JoinsExists
<1>2. PICK g : g = CHOOSE h : Joins(c, h)
  OBVIOUS
<1>3. Joins(c, g)
  BY <1>1, <1>2
<1>4. Concatenate(c) = g[Len(c)]
  BY <1>2, ConcatenateChoice
<1>5. Len(c) \in Nat /\ Len(c) \in 1 .. Len(c)
  OBVIOUS
<1>6. \A i \in 1 .. Len(c) : f[i] = g[i]
  <2>1. Begins(c, c)
    BY <1>5 DEF Begins
  <2>2. Joins(c, f) /\ Joins(c, g)
    BY <1>1, <1>3
  <2> QED
    BY <2>1, <2>2, JoinsUnique
<1> QED
  BY <1>1, <1>4, <1>5, <1>6

\* Reading a delta appends its values to the dictionary.
LEMMA ConcatenateAppend ==
    ASSUME NEW V, NEW c \in Seq(Seq(V)), NEW v \in Seq(V)
    PROVE  /\ Concatenate(<< v >>) = v
           /\ c # << >> => Concatenate(c) \in Seq(V) /\ Concatenate(Append(c, v)) = Concatenate(c) \o v
<1>1. Concatenate(<< v >>) = v
  <2>1. PICK e : e = << v >>
    BY Zenon
  <2>2. e \in Seq(Seq(V)) /\ Len(e) = 1 /\ e[1] = v
    BY <2>1
  <2>3. PICK f \in [1 .. Len(e) -> Seq(V)] : Joins(e, f) /\ Concatenate(e) = f[Len(e)]
    BY <2>2, ConcatenateJoins
  <2>4. f[1] = v
    BY <2>2, <2>3 DEF Joins
  <2> QED
    BY <2>1, <2>2, <2>3, <2>4
<1>2. ASSUME c # << >> PROVE Concatenate(c) \in Seq(V) /\ Concatenate(Append(c, v)) = Concatenate(c) \o v
  <2>1. PICK e : e = Append(c, v)
    BY Zenon
  <2>2. PICK n : n = Len(c)
    OBVIOUS
  <2>3. e \in Seq(Seq(V)) /\ Len(e) = n + 1 /\ n \in Nat /\ n # 0 /\ e[n + 1] = v /\ \A i \in 1 .. n : c[i] = e[i]
    BY <1>2, <2>1, <2>2
  <2>4. PICK f : f \in [1 .. n -> Seq(V)] /\ Joins(c, f) /\ Concatenate(c) = f[n]
    BY <2>2, <2>3, ConcatenateJoins
  <2>5. PICK g : g \in [1 .. n + 1 -> Seq(V)] /\ Joins(e, g) /\ Concatenate(e) = g[n + 1]
    <3>1. Len(e) # 0
      BY <2>3
    <3>2. PICK g \in [1 .. Len(e) -> Seq(V)] : Joins(e, g) /\ Concatenate(e) = g[Len(e)]
      BY <2>3, <3>1, ConcatenateJoins, Zenon
    <3> QED
      BY <2>3, <3>2
  <2>6. f[n] = g[n] /\ f[n] \in Seq(V)
    <3>1. \A i \in 1 .. n : f[i] = g[i]
      <4>1. Begins(c, e)
        BY <2>2, <2>3 DEF Begins
      <4>2. Joins(c, f) /\ Joins(e, g)
        BY <2>4, <2>5
      <4>3. \A i \in 1 .. Len(c) : f[i] = g[i]
        BY <4>1, <4>2, JoinsUnique
      <4> QED
        BY <2>2, <4>3
    <3> QED
      BY <2>3, <2>4, <3>1
  <2>7. g[n + 1] = Cat(g[n], e[n + 1])
    <3>1. n + 1 \in 1 .. Len(e) /\ n + 1 # 1 /\ (n + 1) - 1 = n
      <4>1. n \in Nat /\ n # 0 /\ Len(e) = n + 1
        BY <2>3
      <4> QED
        BY <4>1
    <3>2. g[n + 1] = Cat(g[(n + 1) - 1], e[n + 1])
      BY <2>5, <3>1, Zenon DEF Joins
    <3> QED
      BY <3>1, <3>2
  <2> QED
    BY <2>1, <2>3, <2>4, <2>5, <2>6, <2>7 DEF Cat
<1> QED
  BY <1>1, <1>2

LEMMA ConcatenateType ==
    ASSUME NEW V, NEW c \in Seq(Seq(V))
    PROVE  Concatenate(c) \in Seq(V)
<1>1. CASE c = << >>
  <2>1. Concatenate(c) = c
    BY <1>1 DEF Concatenate
  <2>2. << >> \in Seq(V)
    OBVIOUS
  <2> QED
    BY <1>1, <2>1, <2>2, Zenon
<1>2. CASE c # << >>
  <2>1. Len(c) # 0 /\ Len(c) \in 1 .. Len(c)
    BY <1>2
  <2>2. PICK f : f \in [1 .. Len(c) -> Seq(V)] /\ Concatenate(c) = f[Len(c)]
    BY <2>1, ConcatenateJoins
  <2> QED
    BY <2>1, <2>2
<1> QED
  BY <1>1, <1>2

-----------------------------------------------------------------------------
\* A payload that is refused, wholly or after a part of it.
LEMMA RefuseStep ==
    ASSUME WInv, pw = "open", Refuse, UNCHANGED readerVars, wErr' = TRUE, WriterTypes', JobOK', WriterOK'
    PROVE  WInv'
<1>1. CASE UNCHANGED sinkVars
  BY <1>1, QuietStep
<1>2. CASE ~broken /\ Extend(CutMsg) /\ broken' = TRUE
  <2>1. CutMsg \in Messages /\ CutMsg.type = "cut"
    BY MessageFacts
  <2> QED
    BY <1>2, <2>1, LongerStep
<1> QED
  BY <1>1, <1>2, Zenon DEF Refuse

LEMMA IdleJob == Idle \in JobTypes /\ Idle.call = "none"
  BY StreamAssumption DEF Idle, JobTypes

LEMMA WriteFacts ==
    ASSUME WInv, job.call = "write"
    PROVE  /\ job \in JobTypes /\ pw = "open" /\ ~wErr
           /\ job.n = Len(sent) + 1 /\ job.n <= MaxWrites /\ Len(sent) \in Nat
           /\ job.d \in [Ids -> Seq(Int)] /\ \A id \in Ids : job.d[id] \in Dicts[id] /\ job.d[id] \in Seq(Nat)
           /\ [n |-> job.n, d |-> job.d] \in Records
<1>1. job \in JobTypes /\ pw = "open" /\ ~wErr /\ job.n = Len(sent) + 1 /\ job.n <= MaxWrites /\ job.d \in BatchDicts
  BY DEF WInv, JobOK, JobTypes
<1>2. Len(sent) \in Nat
  BY DEF WInv, StreamTypes
<1>3. job.n \in 1 .. MaxWrites
  BY <1>1, <1>2, StreamAssumption
<1>4. \A id \in Ids : job.d[id] \in Dicts[id] /\ job.d[id] \in Seq(Nat)
  BY <1>1, StreamAssumption DEF BatchDicts
<1>5. \A s \in Seq(Nat) : s \in Seq(Int)
  OBVIOUS
<1>7. job.d \in [Ids -> Seq(Int)]
  <2>1. job.d \in [Ids -> UNION {Dicts[id] : id \in Ids}]
    BY <1>1 DEF BatchDicts
  <2> QED
    BY <1>4, <1>5, <2>1
<1> QED
  BY <1>1, <1>2, <1>3, <1>4, <1>7 DEF Records

LEMMA StartStep ==
    ASSUME WInv, Start
    PROVE  WInv'
<1>1. /\ UNCHANGED readerVars /\ hasSchema' = hasSchema /\ pw' = pw /\ last' = last /\ sent' = sent
      /\ wStarted' = TRUE /\ job.call \in {"write", "mismatched", "close"} /\ job.next = 0
  BY DEF Start
<1>2. job \in JobTypes /\ pw = "open" /\ ~wErr
  <2>1. NumDicts + 1 # 0
    BY StreamAssumption
  <2> QED
    BY <1>1, <2>1 DEF WInv, JobOK, JobTypes
<1>3. 1 \in 0 .. NumDicts + 1 /\ NumDicts + 1 \in 0 .. NumDicts + 1
  BY StreamAssumption
<1>4. CASE /\ Put(SchemaMsg) /\ wErr' = wErr
           /\ job' = IF job.call = "mismatched" THEN Idle
                     ELSE [job EXCEPT !.next = IF job.call = "close" THEN NumDicts + 1 ELSE 1]
  <2>1. ~broken /\ Extend(SchemaMsg) /\ broken' = broken
    BY <1>4 DEF Put
  <2>2. WriterTypes' /\ WriterOK' /\ broken' \in BOOLEAN
    BY <1>1, <1>2, <1>4, <2>1 DEF WInv, StreamTypes, WriterTypes, WriterOK
  <2>3. JobOK'
    <3>1. CASE job.call = "mismatched"
      BY <1>1, <1>2, <1>4, <3>1, IdleJob DEF JobOK, JobTypes
    <3>2. CASE job.call # "mismatched"
      <4>1. job' = [job EXCEPT !.next = IF job.call = "close" THEN NumDicts + 1 ELSE 1]
        BY <1>4, <3>2
      <4>2. job' \in JobTypes /\ job'.call = job.call /\ job'.n = job.n /\ job'.d = job.d
        BY <1>2, <1>3, <4>1 DEF JobTypes
      <4> QED
        BY <1>1, <1>2, <1>4, <4>2 DEF WInv, JobOK, JobTypes
    <3> QED
      BY <3>1, <3>2
  <2>4. SchemaMsg \in Messages /\ SchemaMsg.type = "schema"
    BY MessageFacts
  <2> QED
    BY <1>1, <1>2, <1>4, <2>1, <2>2, <2>3, <2>4, LongerStep
<1>5. CASE /\ wErr' = TRUE /\ Refuse
           /\ job' = IF job.call = "close" THEN [job EXCEPT !.next = NumDicts + 1] ELSE Idle
  <2>1. WriterTypes' /\ WriterOK'
    BY <1>1, <1>5 DEF WInv, StreamTypes, WriterTypes, WriterOK
  <2>2. JobOK'
    <3>1. CASE job.call = "close"
      <4>1. job' \in JobTypes /\ job'.call = "close" /\ job'.next = NumDicts + 1
        BY <1>2, <1>3, <1>5, <3>1 DEF JobTypes
      <4> QED
        BY <1>1, <1>2, <1>5, <4>1 DEF JobOK, JobTypes
    <3>2. CASE job.call # "close"
      BY <1>1, <1>2, <1>5, <3>2, IdleJob DEF JobOK, JobTypes
    <3> QED
      BY <3>1, <3>2
  <2> QED
    BY <1>1, <1>2, <1>5, <2>1, <2>2, RefuseStep
<1> QED
  BY <1>4, <1>5, Zenon DEF Start

LEMMA WriteDictStep ==
    ASSUME WInv, WriteDict
    PROVE  WInv'
<1> DEFINE id == job.next
           start == DeltaStart(id)
           vals == SubSeq(job.d[id], start + 1, Len(job.d[id]))
<1>1. /\ UNCHANGED readerVars /\ hasSchema' = hasSchema /\ pw' = pw /\ sent' = sent /\ wStarted' = wStarted
      /\ job.call = "write" /\ job.next \in Ids
  BY DEF WriteDict
<1>2. /\ job \in JobTypes /\ pw = "open" /\ ~wErr /\ job.d \in [Ids -> Seq(Int)]
  BY <1>1, WriteFacts
<1>3. id + 1 \in 0 .. NumDicts + 1
  BY <1>1, StreamAssumption DEF Ids
<1>4. start \in Nat /\ vals \in Seq(Int)
  <2>1. job.d[id] \in Seq(Int) /\ Len(job.d[id]) \in Nat /\ last[id] \in Seq(Int)
    BY <1>1, <1>2 DEF WInv, StreamTypes
  <2>2. start \in Nat
    BY <2>1 DEF DeltaStart
  <2> HIDE DEF start
  <2> QED
    BY <2>1, <2>2
<1>5. ASSUME job' = [job EXCEPT !.next = @ + 1], wErr' = wErr PROVE JobOK' /\ job'.call = "write"
  <2>1. job' \in JobTypes /\ job'.call = "write" /\ job'.n = job.n /\ job'.d = job.d
    BY <1>1, <1>2, <1>3, <1>5 DEF JobTypes
  <2> QED
    BY <1>1, <1>2, <1>5, <2>1 DEF WInv, JobOK, JobTypes
<1>6. wStarted /\ (wErr' = TRUE \/ (wErr' = wErr /\ broken' = broken) => WriterOK')
  <2>1. wStarted
    BY <1>1, StreamAssumption DEF WInv, WriterOK, Ids
  <2> QED
    BY <1>1, <2>1 DEF WInv, WriterOK
<1>7. CASE /\ job' = [job EXCEPT !.next = @ + 1] /\ UNCHANGED <<last, wErr, sinkVars>>
  <2>1. WriterTypes' /\ WriterOK'
    BY <1>1, <1>7, <1>6 DEF WInv, StreamTypes, WriterTypes, sinkVars
  <2> QED
    BY <1>1, <1>5, <1>7, <2>1, QuietStep
<1>8. CASE /\ Put(DictMsg(id, start > 0, vals)) /\ last' = [last EXCEPT ![id] = job.d[id]]
           /\ job' = [job EXCEPT !.next = @ + 1] /\ UNCHANGED wErr
  <2> DEFINE f == start > 0
             m == DictMsg(id, f, vals)
  <2>1. ~broken /\ Extend(m) /\ broken' = broken
    BY <1>8 DEF Put
  <2>2. WriterTypes' /\ WriterOK' /\ broken' \in BOOLEAN
    BY <1>1, <1>2, <1>8, <1>6, <2>1 DEF WInv, StreamTypes, WriterTypes
  <2>3. m \in Messages /\ m.type = "dict"
    <3>1. m \in Messages
      <4>1. f \in BOOLEAN
        OBVIOUS
      <4> HIDE DEF f, vals
      <4> QED
        BY <1>1, <1>4, <4>1, MessageFacts
    <3>2. m.type = "dict"
      BY DEF DictMsg
    <3> QED
      BY <3>1, <3>2
  <2> HIDE DEF m
  <2> QED
    BY <1>1, <1>2, <1>5, <1>8, <2>1, <2>2, <2>3, LongerStep
<1>9. CASE Fail /\ UNCHANGED last
  <2>1. wErr' = TRUE /\ job' = Idle /\ Refuse
    BY <1>9 DEF Fail
  <2>2. WriterTypes' /\ JobOK'
    BY <1>1, <1>9, <2>1, IdleJob DEF WInv, StreamTypes, WriterTypes, JobOK, JobTypes
  <2> QED
    BY <1>1, <1>2, <1>6, <2>1, <2>2, RefuseStep
<1> QED
  BY <1>7, <1>8, <1>9 DEF WriteDict

LEMMA WriteRecordStep ==
    ASSUME WInv, WriteRecord
    PROVE  WInv'
<1>1. /\ UNCHANGED readerVars /\ hasSchema' = hasSchema /\ pw' = pw /\ last' = last /\ wStarted' = wStarted
      /\ job.call = "write" /\ job.next = NumDicts + 1
  BY DEF WriteRecord
<1>2. /\ pw = "open" /\ ~wErr /\ job.n \in Nat /\ [n |-> job.n, d |-> job.d] \in Records
  BY <1>1, WriteFacts
<1>3. wStarted
  BY <1>1, StreamAssumption DEF WInv, WriterOK
<1>4. CASE /\ Put(RecordMsg(job.n)) /\ sent' = Append(sent, [n |-> job.n, d |-> job.d])
           /\ job' = Idle /\ UNCHANGED wErr
  <2>1. ~broken /\ Extend(RecordMsg(job.n)) /\ broken' = broken
    BY <1>4 DEF Put
  <2>2. sent' \in Seq(Records)
    BY <1>2, <1>4 DEF WInv, StreamTypes
  <2>3. WriterTypes' /\ WriterOK' /\ broken' \in BOOLEAN
    BY <1>1, <1>3, <1>4, <2>1, <2>2 DEF WInv, StreamTypes, WriterTypes, WriterOK
  <2>4. JobOK'
    BY <1>2, <1>4, IdleJob DEF JobOK, JobTypes
  <2>5. RecordMsg(job.n) \in Messages /\ RecordMsg(job.n).type = "record"
    BY <1>2, MessageFacts DEF RecordMsg
  <2> QED
    BY <1>1, <1>2, <1>4, <2>1, <2>3, <2>4, <2>5, LongerStep
<1>5. CASE Fail /\ UNCHANGED sent
  <2>1. wErr' = TRUE /\ job' = Idle /\ Refuse
    BY <1>5 DEF Fail
  <2>2. WriterTypes' /\ JobOK' /\ WriterOK'
    BY <1>1, <1>3, <1>5, <2>1, IdleJob DEF WInv, StreamTypes, WriterTypes, JobOK, JobTypes, WriterOK
  <2> QED
    BY <1>1, <1>2, <2>1, <2>2, RefuseStep
<1> QED
  BY <1>4, <1>5 DEF WriteRecord

LEMMA CloseEndStep ==
    ASSUME WInv, CloseEnd
    PROVE  WInv'
<1>1. /\ UNCHANGED readerVars /\ hasSchema' = hasSchema /\ pw' = "nil" /\ wStarted' = wStarted /\ sent' = sent
      /\ last' = [id \in Ids |-> NoDict] /\ job' = Idle /\ job.call = "close"
  BY DEF CloseEnd
<1>2. pw = "open" /\ (wErr' = TRUE \/ wErr' = wErr => WriterTypes')
  <2>1. NoDict \in Seq(Int)
    BY DEF NoDict
  <2>2. pw = "open"
    BY <1>1 DEF WInv, JobOK
  <2> QED
    BY <1>1, <2>1, <2>2, Zenon DEF WInv, StreamTypes, WriterTypes
<1>3. JobOK'
  BY <1>1, IdleJob DEF JobOK, JobTypes
<1>4. CASE Put(EOS) /\ UNCHANGED wErr
  <2>1. ~broken /\ Extend(EOS) /\ broken' = broken
    BY <1>4 DEF Put
  <2>2. WriterOK' /\ broken' \in BOOLEAN
    BY <1>1, <1>4, <2>1, IdleJob DEF WInv, StreamTypes, WriterOK
  <2>3. EOS \in Messages /\ EOS.type = "eos"
    BY MessageFacts
  <2> QED
    BY <1>1, <1>2, <1>3, <1>4, <2>1, <2>2, <2>3, LongerStep
<1>5. CASE Refuse /\ wErr' = TRUE
  <2>1. WriterOK'
    BY <1>1, <1>5, IdleJob DEF WriterOK
  <2> QED
    BY <1>1, <1>2, <1>3, <1>5, <2>1, RefuseStep
<1> QED
  BY <1>4, <1>5, Zenon DEF CloseEnd

-----------------------------------------------------------------------------
\* What the reader's own variables can hold.
ReaderTypes ==
    /\ rState \in {"none", "open", "failed"} /\ rBlob \in 1 .. Len(blobs) /\ rPos \in 0 .. Len(blobs[rBlob])
    /\ memo \in [Ids -> Seq(Seq(Int))] /\ nInit \in Nat
    /\ readInitialDicts \in BOOLEAN /\ rErr \in BOOLEAN /\ rDone \in BOOLEAN

LEMMA ReaderFrame ==
    ASSUME WInv, UNCHANGED writerVars, UNCHANGED sinkVars, ReaderTypes', ReaderOK'
    PROVE  WInv'
<1>1. /\ hasSchema' = hasSchema /\ wStarted' = wStarted /\ wErr' = wErr /\ pw' = pw /\ last' = last /\ job' = job
      /\ sent' = sent /\ blobs' = blobs /\ broken' = broken
  BY DEF writerVars, sinkVars
<1>2. StreamTypes'
  BY <1>1 DEF WInv, StreamTypes, ReaderTypes
<1>3. JobOK' /\ WriterOK' /\ Shape'
  BY <1>1, Zenon DEF WInv, JobOK, WriterOK, Shape, Tip
<1> QED
  BY <1>2, <1>3 DEF WInv

\* Where the reader is, and the message it is about to read.
LEMMA AvailFacts ==
    ASSUME WInv
    PROVE  /\ rBlob \in 1 .. Len(blobs) /\ rPos \in Nat /\ Len(blobs) \in Nat /\ Len(blobs[rBlob]) \in Nat
           /\ rPos <= Len(blobs[rBlob])
           /\ Avail => /\ rPos + 1 \in 1 .. Len(blobs[rBlob]) /\ Msg = blobs[rBlob][rPos + 1] /\ Msg \in Messages
                       /\ rPos + 1 \in 0 .. Len(blobs[rBlob])
           /\ ~Avail => rPos = Len(blobs[rBlob])
           /\ \A i \in 1 .. rPos + 1 : i \in 1 .. rPos \/ i = rPos + 1
<1>1. rBlob \in 1 .. Len(blobs) /\ rPos \in 0 .. Len(blobs[rBlob])
  BY DEF WInv, StreamTypes
<1>2. Len(blobs) \in Nat /\ Len(blobs[rBlob]) \in Nat
      /\ \A i \in 1 .. Len(blobs[rBlob]) : blobs[rBlob][i] \in Messages
  BY <1>1, BlobFacts DEF WInv
<1> QED
  BY <1>1, <1>2 DEF Avail, Msg, Blob

LEMMA LoadFacts ==
    ASSUME WInv, Avail, Msg.type = "dict", LoadDict(Msg)
    PROVE  memo' \in [Ids -> Seq(Seq(Int))]
<1>1. Msg.id \in Ids /\ Msg.vals \in Seq(Int)
  BY AvailFacts, MessageFacts
<1>2. memo \in [Ids -> Seq(Seq(Int))]
  BY DEF WInv, StreamTypes
<1>3. memo[Msg.id] \in Seq(Seq(Int))
  BY <1>1, <1>2
<1>4. Append(memo[Msg.id], Msg.vals) \in Seq(Seq(Int)) /\ << Msg.vals >> \in Seq(Seq(Int))
  BY <1>1, <1>3
<1> QED
  BY <1>1, <1>2, <1>4 DEF LoadDict

LEMMA NewReaderStep ==
    ASSUME WInv, NewReader
    PROVE  WInv'
<1>1. /\ rState = "none" /\ UNCHANGED writerVars /\ UNCHANGED sinkVars /\ rBlob' = rBlob /\ memo' = memo /\ nInit' = nInit
      /\ readInitialDicts' = readInitialDicts /\ rErr' = rErr /\ rDone' = rDone
  BY DEF NewReader
<1>2. nInit = 0 /\ ~rDone /\ ~rErr /\ ~readInitialDicts /\ rPos = 0
  BY <1>1 DEF WInv, ReaderOK
<1>3. blobs' = blobs /\ pw' = pw /\ wErr' = wErr
  BY <1>1 DEF writerVars, sinkVars
<1>4. CASE Avail /\ Msg = SchemaMsg /\ rState' = "open" /\ rPos' = rPos + 1
  <2>1. ReaderTypes'
    BY <1>1, <1>3, <1>4, AvailFacts DEF WInv, StreamTypes, ReaderTypes
  <2>2. blobs[rBlob][1].type = "schema"
    BY <1>2, <1>4, AvailFacts, MessageFacts
  <2>3. ReaderOK'
    BY <1>1, <1>2, <1>3, <1>4, <2>2 DEF ReaderOK, DictsRead
  <2> QED
    BY <1>1, <2>1, <2>3, ReaderFrame
<1>5. CASE rState' = "failed" /\ UNCHANGED rPos
  <2>1. ReaderTypes'
    BY <1>1, <1>3, <1>5 DEF WInv, StreamTypes, ReaderTypes
  <2>2. ReaderOK'
    BY <1>1, <1>2, <1>3, <1>5 DEF ReaderOK, DictsRead
  <2> QED
    BY <1>1, <2>1, <2>2, ReaderFrame
<1> QED
  BY <1>4, <1>5 DEF NewReader

LEMMA DictStep ==
    ASSUME WInv, InitialDict \/ NextDict
    PROVE  WInv'
<1>1. /\ UNCHANGED writerVars /\ UNCHANGED sinkVars /\ rState' = rState /\ rBlob' = rBlob /\ rErr' = rErr /\ rDone' = rDone
      /\ rState = "open" /\ ~rErr /\ ~rDone /\ Avail /\ Msg.type = "dict" /\ LoadDict(Msg) /\ rPos' = rPos + 1
  BY DEF InitialDict, NextDict, InNext
<1>2. blobs' = blobs /\ pw' = pw /\ wErr' = wErr
  BY <1>1 DEF writerVars, sinkVars
<1>3. nInit' \in Nat /\ readInitialDicts' \in BOOLEAN /\ (DictsRead => DictsRead')
  <2>1. nInit \in Nat /\ readInitialDicts \in BOOLEAN
    BY DEF WInv, StreamTypes
  <2>2. CASE InitialDict
    <3>1. nInit' = nInit + 1 /\ (readInitialDicts' <=> nInit + 1 = NumDicts) /\ readInitialDicts' \in BOOLEAN /\ ~readInitialDicts
      BY <2>2, Zenon DEF InitialDict
    <3>2. nInit < NumDicts
      BY <2>2 DEF InitialDict
    <3>3. NumDicts # 0
      BY <2>1, <3>2, StreamAssumption
    <3> QED
      BY <2>1, <3>1, <3>3 DEF DictsRead
  <2>3. CASE NextDict
    BY <2>1, <2>3 DEF NextDict, DictsRead
  <2> QED
    BY <2>2, <2>3
<1>4. ReaderTypes'
  BY <1>1, <1>2, <1>3, AvailFacts, LoadFacts DEF WInv, StreamTypes, ReaderTypes
<1>5. blobs[rBlob][rPos + 1].type = "dict"
  BY <1>1, AvailFacts
<1>6. rPos + 1 > 0
  BY AvailFacts
<1>7. \A i \in 1 .. rPos + 1 : i \in 1 .. rPos \/ i = rPos + 1
  BY AvailFacts
<1>8. \A i \in 1 .. rPos + 1 :
        /\ blobs[rBlob][i].type # "cut"
        /\ blobs[rBlob][i].type = "eos" => rDone
        /\ ~DictsRead' => blobs[rBlob][i].type # "record"
  BY <1>3, <1>5, <1>7 DEF WInv, ReaderOK
<1>9. ReaderOK'
  BY <1>1, <1>2, <1>5, <1>6, <1>8 DEF ReaderOK
<1> QED
  BY <1>1, <1>4, <1>9, ReaderFrame

LEMMA NextRecordStep ==
    ASSUME WInv, NextRecord
    PROVE  WInv'
<1>1. /\ UNCHANGED writerVars /\ UNCHANGED sinkVars /\ rState' = rState /\ rBlob' = rBlob /\ rErr' = rErr /\ rDone' = rDone
      /\ rState = "open" /\ ~rErr /\ ~rDone /\ Avail /\ Msg.type = "record" /\ rPos' = rPos + 1 /\ DictsRead
      /\ nInit' = nInit /\ readInitialDicts' = readInitialDicts /\ memo' = [id \in Ids |-> Reify(memo[id])]
  BY DEF NextRecord, InNext
<1>2. blobs' = blobs /\ pw' = pw /\ wErr' = wErr
  BY <1>1 DEF writerVars, sinkVars
<1>3. memo' \in [Ids -> Seq(Seq(Int))]
  <2>1. \A id \in Ids : Concatenate(memo[id]) \in Seq(Int)
    BY ConcatenateType DEF WInv, StreamTypes
  <2> QED
    BY <1>1, <2>1 DEF Reify
<1>4. ReaderTypes'
  BY <1>1, <1>2, <1>3, AvailFacts, Zenon DEF WInv, StreamTypes, ReaderTypes
<1>5. blobs[rBlob][rPos + 1].type = "record"
  BY <1>1, AvailFacts, Zenon
<1>6. DictsRead'
  BY <1>1 DEF DictsRead
<1>7. \A i \in 1 .. rPos + 1 : blobs[rBlob][i].type # "cut" /\ (blobs[rBlob][i].type = "eos" => rDone)
  BY <1>5, AvailFacts, Zenon DEF WInv, ReaderOK
<1>8. ReaderOK'
  BY <1>1, <1>2, <1>6, <1>7 DEF ReaderOK
<1> QED
  BY <1>1, <1>4, <1>8, ReaderFrame

\* A reader whose source ends, or is cut, where it can have no more messages: either all
\* that the blob holds was read, or the writer has failed.
LEMMA EndFacts ==
    ASSUME WInv, InNext
    PROVE  /\ Truncated => wErr
           /\ Ended /\ rBlob = Len(blobs) => wErr
           /\ Ended /\ ~DictsRead /\ ~SplitAnywhere => wErr
           /\ Avail /\ Msg = EOS => /\ rBlob = Len(blobs) /\ rPos + 1 = Len(blobs[rBlob]) /\ pw = "nil"
                                    /\ ~DictsRead /\ nInit > 0 => wErr
<1>1. Truncated => wErr
  BY AvailFacts, MessageFacts, SMTT(30) DEF WInv, Truncated, Shape, WriterOK
<1>2. Ended /\ rBlob = Len(blobs) => wErr
  <2> SUFFICES ASSUME Ended, rBlob = Len(blobs), ~wErr PROVE FALSE
    BY DEF WInv, StreamTypes
  <2>1. pw = "nil" /\ rPos = Tip /\ rPos \in Nat
    BY AvailFacts DEF Ended, Tip
  <2>2. Tip > 0 /\ blobs[Len(blobs)][Tip].type = "eos"
    BY <2>1 DEF WInv, Shape
  <2>3. rPos \in 1 .. rPos
    BY <2>1, <2>2
  <2> QED
    BY <2>1, <2>2, <2>3 DEF WInv, ReaderOK, InNext
<1>3. Ended /\ ~DictsRead /\ ~SplitAnywhere => wErr
  <2> SUFFICES ASSUME Ended, ~DictsRead, ~SplitAnywhere, rBlob # Len(blobs) PROVE FALSE
    BY <1>2
  <2>1. rPos = Len(blobs[rBlob]) /\ rBlob \in 1 .. Len(blobs) - 1 /\ rPos \in Nat
    BY AvailFacts DEF Ended
  <2>2. Len(blobs[rBlob]) > 0 /\ blobs[rBlob][Len(blobs[rBlob])].type = "record"
    BY <2>1 DEF WInv, Shape
  <2>3. rPos \in 1 .. rPos
    BY <2>1, <2>2
  <2> QED
    BY <2>1, <2>2, <2>3 DEF WInv, ReaderOK
<1>4. ASSUME Avail, Msg = EOS
      PROVE  /\ rBlob = Len(blobs) /\ rPos + 1 = Len(blobs[rBlob]) /\ pw = "nil"
             /\ ~DictsRead /\ nInit > 0 => wErr
  <2>1. blobs[rBlob][rPos + 1].type = "eos" /\ rPos + 1 \in 1 .. Len(blobs[rBlob]) /\ rBlob \in 1 .. Len(blobs)
        /\ rPos \in Nat
    BY <1>4, AvailFacts, MessageFacts
  <2>2. rBlob = Len(blobs) /\ rPos + 1 = Len(blobs[rBlob]) /\ pw = "nil"
    BY <2>1 DEF WInv, Shape
  <2>3. ASSUME ~DictsRead, nInit > 0 PROVE wErr
    <3>1. rPos > 0 /\ blobs[rBlob][rPos].type = "dict"
      BY <2>3 DEF WInv, ReaderOK, InNext
    <3>2. rPos + 1 > 1 /\ rPos + 1 - 1 = rPos
      BY <2>1, <3>1
    <3> QED
      BY <2>1, <3>1, <3>2 DEF WInv, Shape, StreamTypes
  <2> QED
    BY <2>2, <2>3
<1> QED
  BY <1>1, <1>2, <1>3, <1>4

LEMMA EndStep ==
    ASSUME WInv, InitialEnd \/ NextEnd
    PROVE  WInv'
<1>1. /\ UNCHANGED writerVars /\ UNCHANGED sinkVars /\ rState' = rState /\ rBlob' = rBlob /\ memo' = memo
      /\ readInitialDicts' = readInitialDicts /\ rState = "open" /\ ~rErr /\ ~rDone /\ rDone' = TRUE /\ InNext
  BY DEF InitialEnd, NextEnd, InNext
<1>2. blobs' = blobs /\ pw' = pw /\ wErr' = wErr
  BY <1>1 DEF writerVars, sinkVars
<1>3. /\ nInit' \in Nat /\ rErr' \in BOOLEAN /\ nInit \in Nat
      /\ InitialEnd => ~DictsRead
      /\ DictsRead' <=> DictsRead
  <2>1. nInit \in Nat /\ rErr \in BOOLEAN
    BY DEF WInv, StreamTypes
  <2>2. CASE InitialEnd
    <3>1. nInit' = 0 /\ ~readInitialDicts /\ nInit < NumDicts
      BY <2>2 DEF InitialEnd
    <3>2. NumDicts # 0
      BY <2>1, <3>1, StreamAssumption
    <3>3. rErr' \in BOOLEAN
      <4>1. (nInit > 0) \in BOOLEAN
        OBVIOUS
      <4> QED
        BY <2>2, <4>1, Zenon DEF InitialEnd
    <3> QED
      BY <1>1, <2>1, <3>1, <3>2, <3>3 DEF DictsRead
  <2>3. CASE NextEnd
    <3>1. nInit' = nInit /\ DictsRead
      BY <2>3 DEF NextEnd
    <3>2. rErr' \in BOOLEAN
      BY <2>1, <2>3, Zenon DEF NextEnd
    <3>3. ~InitialEnd
      BY <2>1, <3>1, StreamAssumption DEF InitialEnd, DictsRead
    <3> QED
      BY <1>1, <2>1, <3>1, <3>2, <3>3 DEF DictsRead
  <2> QED
    BY <2>2, <2>3
<1>4. \/ Avail /\ Msg = EOS /\ rPos' = rPos + 1 /\ (rErr' => ~DictsRead /\ nInit > 0)
      \/ /\ rPos' = rPos /\ Ended /\ (rErr' <=> ~DictsRead)
      \/ rPos' = rPos /\ Truncated /\ rErr'
  BY <1>1, <1>3 DEF InitialEnd, NextEnd, WInv, StreamTypes
<1>5. ReaderTypes'
  <2>1. rPos' \in 0 .. Len(blobs[rBlob])
    BY <1>4, AvailFacts
  <2> QED
    BY <1>1, <1>2, <1>3, <2>1 DEF WInv, StreamTypes, ReaderTypes
<1>6. \A i \in 1 .. rPos' : blobs[rBlob][i].type # "cut" /\ (~DictsRead => blobs[rBlob][i].type # "record")
  <2>1. Avail /\ Msg = EOS => blobs[rBlob][rPos + 1].type = "eos"
    BY AvailFacts, MessageFacts
  <2> QED
    BY <1>4, <2>1, AvailFacts DEF WInv, ReaderOK
<1>7. ~rErr' => rPos' = Len(blobs[rBlob]) /\ (rBlob < Len(blobs) \/ pw = "nil") /\ (~DictsRead => rBlob = Len(blobs) /\ pw = "nil")
  BY <1>1, <1>4, AvailFacts, EndFacts, SMTT(30) DEF Ended
<1>8. ~SplitAnywhere /\ rErr' => wErr
  BY <1>1, <1>4, EndFacts
<1>9. ReaderOK'
  BY <1>1, <1>2, <1>3, <1>6, <1>7, <1>8 DEF ReaderOK
<1> QED
  BY <1>1, <1>5, <1>9, ReaderFrame

LEMMA ContinueStep ==
    ASSUME WInv, ContinueFrom
    PROVE  WInv'
<1>1. /\ UNCHANGED writerVars /\ UNCHANGED sinkVars /\ rState' = rState /\ rBlob' = rBlob + 1 /\ rPos' = 0 /\ memo' = memo
      /\ readInitialDicts' = readInitialDicts /\ nInit' = nInit /\ rErr' = rErr /\ rDone' = FALSE /\ rState = "open"
      /\ rDone /\ ~rErr /\ rBlob < Len(blobs)
  BY DEF ContinueFrom
<1>2. blobs' = blobs /\ pw' = pw /\ wErr' = wErr
  BY <1>1 DEF writerVars, sinkVars
<1>3. DictsRead /\ DictsRead'
  <2>1. DictsRead
    BY <1>1, AvailFacts DEF WInv, ReaderOK
  <2> QED
    BY <1>1, <2>1 DEF DictsRead
<1>4. ReaderTypes'
  <2>1. rBlob + 1 \in 1 .. Len(blobs)
    BY <1>1, AvailFacts
  <2>2. Len(blobs[rBlob + 1]) \in Nat
    BY <2>1, BlobFacts DEF WInv
  <2>3. 0 \in 0 .. Len(blobs[rBlob + 1])
    BY <2>2
  <2> QED
    BY <1>1, <1>2, <2>1, <2>3, Zenon DEF WInv, StreamTypes, ReaderTypes
<1>5. ReaderOK'
  BY <1>1, <1>2, <1>3 DEF ReaderOK
<1> QED
  BY <1>1, <1>4, <1>5, ReaderFrame

LEMMA NextWInv ==
    ASSUME WInv, [Next]_vars
    PROVE  WInv'
<1>1. CASE UNCHANGED vars
  <2>1. UNCHANGED writerVars /\ UNCHANGED sinkVars /\ UNCHANGED readerVars
    BY <1>1 DEF vars, writerVars, sinkVars, readerVars
  <2>2. WriterTypes' /\ JobOK' /\ WriterOK'
    BY <2>1 DEF WInv, StreamTypes, WriterTypes, JobOK, WriterOK, writerVars, sinkVars
  <2> QED
    BY <2>1, <2>2, QuietStep DEF writerVars
<1>2. CASE WriterStep
  BY <1>2, StartStep, WriteDictStep, WriteRecordStep, CloseEndStep DEF WriterStep
<1>3. CASE ReaderStep
  BY <1>3, NewReaderStep, DictStep, EndStep, NextRecordStep, ContinueStep DEF ReaderStep
<1> QED
  BY <1>1, <1>2, <1>3, CallStep, SplitStep DEF Next

-----------------------------------------------------------------------------
\* Reader.Err: whatever the writer's sink, the splitting of the stream into blobs and
\* the interleaving of the two ends, a reader of blobs that end with records only fails
\* on a stream whose writer failed.
THEOREM ErrorsAreTheWriters ==
    ASSUME SplitAnywhere = FALSE
    PROVE  Spec => []NoSpuriousError
<1>1. Init => WInv
  BY InitWInv
<1>2. WInv /\ [Next]_vars => WInv'
  BY NextWInv
<1>3. WInv => NoSpuriousError
  BY DEF WInv, ReaderOK, NoSpuriousError
<1> QED
  BY <1>1, <1>2, <1>3, PTL DEF Spec

\* Writer.fail: once wErr is set no schema, dictionary or record is written, whatever
\* calls follow; only the end of stream of Close, or a part of it.
THEOREM FailureSticks == Spec => FailureIsTerminal
<1> DEFINE A == wErr /\ Len(blobs') = Len(blobs) /\ blobs' # blobs => Latest' \in {EOS, CutMsg}
<1>1. Init => WInv
  BY InitWInv
<1>2. WInv /\ [Next]_vars => WInv'
  BY NextWInv
<1>3. WInv /\ [Next]_vars => [A]_vars
  <2> SUFFICES ASSUME WInv, [Next]_vars, wErr, Len(blobs') = Len(blobs), blobs' # blobs
               PROVE  Latest' \in {EOS, CutMsg}
    OBVIOUS
  <2>1. ASSUME NEW m \in Messages, Extend(m) PROVE Latest' = m
    BY <2>1, ExtendFacts, BlobFacts, Zenon DEF WInv, Longer, Latest
  <2>2. ~(UNCHANGED sinkVars)
    BY DEF sinkVars
  <2>3. ~(UNCHANGED vars) /\ ~WriterCall /\ ~ReaderStep
    BY <2>2, Zenon DEF vars, WriterCall, Write, WriteMismatched, WriteClosed, Close, ReaderStep, NewReader, InitialDict,
                InitialEnd, NextDict, NextRecord, NextEnd, ContinueFrom
  <2>4. ~Split
    <3>1. blobs \in Seq(Seq(Messages)) /\ << >> \in Seq(Messages)
      BY DEF WInv, StreamTypes
    <3>2. Len(Append(blobs, << >>)) = Len(blobs) + 1 /\ Len(blobs) \in Nat
      BY <3>1
    <3>3. Len(Append(blobs, << >>)) # Len(blobs)
      BY <3>2
    <3> QED
      BY <3>3 DEF Split
  <2>5. ~Start /\ ~WriteDict /\ ~WriteRecord
    <3>1. job.call # "none" => job.call = "close" /\ job.next = NumDicts + 1
      BY DEF WInv, JobOK
    <3>2. NumDicts + 1 # 0
      BY StreamAssumption
    <3> QED
      BY <3>1, <3>2, Zenon DEF Start, WriteDict, WriteRecord
  <2>6. CloseEnd
    BY <2>3, <2>4, <2>5 DEF Next, WriterStep
  <2>7. Extend(EOS) \/ Extend(CutMsg)
    BY <2>2, <2>6, Zenon DEF CloseEnd, Put, Refuse
  <2> QED
    BY <2>1, <2>7, MessageFacts
<1>4. FailureIsTerminal <=> [][A]_vars
  BY DEF FailureIsTerminal
<1> QED
  BY <1>1, <1>2, <1>3, <1>4, PTL DEF Spec
==============================================================================
