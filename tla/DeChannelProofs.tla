-------------------------- MODULE DeChannelProofs --------------------------
(***************************************************************************)
(* Proofs about a record passed through a double-ended buffer: for every   *)
(* length of the slice, every alphabet and every set of chunks, whatever   *)
(* was laid at the two ends comes out of them, in any interleaving of the  *)
(* calls.  The writer's part rests on the refinement of TwoEndedStore      *)
(* proved in DeBytesWriterProofs.                                          *)
(***************************************************************************)
EXTENDS DeChannel, DataFacts

P == INSTANCE DeBytesWriterProofs

\* What the proofs about the writer say of its data.
Data == P!Mapped

\* While the record is laid, the data of the writer is what the history says;
\* once it was handed over, what was taken and what remains is the record.
Laying ==
  /\ final = W!Open
  /\ W!FrontData = FlattenSeq(sentHead)
  /\ W!BackData = FromEnd(sentTail)
  /\ rest = << >> /\ gotHead = << >> /\ gotTail = << >>

\* A reply of is_complete tells whether anything remains.
AnswerIsCurrent ==
  reply.call = "is_complete" => (reply.err = "Ok" <=> rest = << >>)

Types ==
  /\ rest \in Seq(Byte)
  /\ reading \in BOOLEAN
  /\ sentHead \in Seq(Seq(Byte)) /\ sentTail \in Seq(Seq(Byte))
  /\ gotHead \in Seq(Seq(Byte)) /\ gotTail \in Seq(Seq(Byte))
  /\ asked \in 0..MaxRead

\* The inductive invariant of the writer, and that of the channel around it.
WInv == W!TypeOK /\ W!EndsNeverCross

CInv ==
  /\ Types
  /\ ~reading => Laying
  /\ RecordConserved
  /\ AnswerIsCurrent

-----------------------------------------------------------------------------

(* The writer inside the channel.                                          *)

\* A step of the channel is a step of the writer, or leaves it alone.
LEMMA WriterSteps == [Next]_vars => [P!Next]_(P!vars)
<1> SUFFICES ASSUME [Next]_vars PROVE [P!Next]_(P!vars)
  OBVIOUS
<1>1. ASSUME NEW v \in Chunk, Put(v) PROVE P!Next
  <2>1. P!Write(v) \/ P!WriteTail(v)
    BY <1>1 DEF Put, P!Write, W!Write, P!WriteTail, W!WriteTail, P!CopyInto, W!CopyInto,
                P!Reply, W!Reply
  <2>2. QED
    BY <2>1 DEF P!Next
<1>2. CASE HandOver
  <2>1. P!Finalize
    BY <1>2 DEF HandOver, P!Finalize, W!Finalize, P!CollapseGap, W!CollapseGap,
                P!Reply, W!Reply, P!Keep, W!Keep, P!Open, W!Open
  <2>2. QED
    BY <2>1 DEF P!Next
<1>3. CASE Take
  BY <1>3 DEF Take, writer, P!vars
<1>4. CASE UNCHANGED vars
  BY <1>4 DEF vars, writer, P!vars
<1>5. QED
  BY <1>1, <1>2, <1>3, <1>4 DEF Next

\* The writer starts with its invariant.
LEMMA WriterInit == Init => WInv
BY ChannelAssumption
   DEF Init, WInv, W!Init, W!TypeOK, W!EndsNeverCross, W!Reply, W!Open

\* Whatever the channel does, the writer keeps its invariant.
LEMMA WriterStep == WInv /\ [Next]_vars => WInv'
<1> SUFFICES ASSUME WInv, [Next]_vars PROVE WInv'
  OBVIOUS
<1>1. P!IInv
  BY DEF WInv, P!IInv, P!TypeOK, P!EndsNeverCross, W!TypeOK, W!EndsNeverCross,
         W!Open, P!Open
<1>2. P!IInv'
  BY <1>1, ChannelAssumption, WriterSteps, P!StepIInv DEF P!WriterAssumption
<1>3. QED
  BY <1>2 DEF WInv, P!IInv, P!TypeOK, P!EndsNeverCross, W!TypeOK, W!EndsNeverCross,
              W!Open, P!Open

\* What a write adds to the data of an open writer.
LEMMA WriteAdds ==
  ASSUME W!TypeOK, W!EndsNeverCross, P!Mapped, P!Mapped', final = W!Open,
         NEW v \in Chunk, W!Write(v)
  PROVE  /\ final' = W!Open
         /\ W!BackData' = W!BackData
         /\ IF ret'.err = "Ok" THEN W!FrontData' = W!FrontData \o v
                               ELSE W!FrontData' = W!FrontData
<1>1. P!IInv
  BY DEF P!IInv, P!TypeOK, P!EndsNeverCross, W!TypeOK, W!EndsNeverCross, W!Open, P!Open
<1>2. P!Write(v)
  BY DEF P!Write, W!Write, P!CopyInto, W!CopyInto, P!Reply, W!Reply
<1>3. P!Store!PutFront(v) \/ P!Store!Refuse("write", v)
  BY <1>1, <1>2, ChannelAssumption, P!StoreWrite DEF P!WriterAssumption
<1>4. /\ final' = W!Open
      /\ P!BackData' = P!BackData
      /\ IF ret'.err = "Ok" THEN P!FrontData' = P!FrontData \o v
                            ELSE P!FrontData' = P!FrontData
  BY <1>3, <1>2 DEF P!Store!PutFront, P!Store!Refuse, P!Store!Reply, P!Write
<1>5. QED
  BY <1>4 DEF P!FrontData, P!BackData, W!FrontData, W!BackData, W!Open, P!Open

\* What a write at the end adds.
LEMMA WriteTailAdds ==
  ASSUME W!TypeOK, W!EndsNeverCross, P!Mapped, P!Mapped', final = W!Open,
         NEW v \in Chunk, W!WriteTail(v)
  PROVE  /\ final' = W!Open
         /\ W!FrontData' = W!FrontData
         /\ IF ret'.err = "Ok" THEN W!BackData' = v \o W!BackData
                               ELSE W!BackData' = W!BackData
<1>1. P!IInv
  BY DEF P!IInv, P!TypeOK, P!EndsNeverCross, W!TypeOK, W!EndsNeverCross, W!Open, P!Open
<1>2. P!WriteTail(v)
  BY DEF P!WriteTail, W!WriteTail, P!CopyInto, W!CopyInto, P!Reply, W!Reply
<1>3. P!Store!PutBack(v) \/ P!Store!Refuse("write_tail", v)
  BY <1>1, <1>2, ChannelAssumption, P!StoreWriteTail DEF P!WriterAssumption
<1>4. /\ final' = W!Open
      /\ P!FrontData' = P!FrontData
      /\ IF ret'.err = "Ok" THEN P!BackData' = v \o P!BackData
                            ELSE P!BackData' = P!BackData
  BY <1>3, <1>2 DEF P!Store!PutBack, P!Store!Refuse, P!Store!Reply, P!WriteTail
<1>5. QED
  BY <1>4 DEF P!FrontData, P!BackData, W!FrontData, W!BackData, W!Open, P!Open

\* What finalize of an open writer hands over: the first ret.len bytes of the
\* slice are the two ends joined.
LEMMA FinalizeHands ==
  ASSUME W!TypeOK, W!EndsNeverCross, P!Mapped, P!Mapped', final = W!Open, W!Finalize
  PROVE  SubSeq(buf', 1, ret'.len) = W!FrontData \o W!BackData
<1>1. P!IInv
  BY DEF P!IInv, P!TypeOK, P!EndsNeverCross, W!TypeOK, W!EndsNeverCross, W!Open, P!Open
<1>2. P!Finalize
  BY DEF P!Finalize, W!Finalize, P!CollapseGap, W!CollapseGap, P!Reply, W!Reply,
         P!Keep, W!Keep, P!Open, W!Open
<1>3. P!Store!Join \/ P!Store!Rejoin
  BY <1>1, <1>2, ChannelAssumption, P!StoreFinalize DEF P!WriterAssumption
<1>4. P!Store!Join
  BY <1>3 DEF P!Store!Rejoin, P!Open, W!Open
<1>5. /\ P!FrontData' = P!FrontData \o P!BackData
      /\ final' # P!Open
  BY <1>4 DEF P!Store!Join
<1>6. final' = ret'.len
  BY DEF W!Finalize, W!Keep, W!Reply, W!Open
<1>7. P!FrontData' = SubSeq(buf', 1, final')
  BY <1>5 DEF P!FrontData
<1>8. QED
  BY <1>5, <1>6, <1>7 DEF P!FrontData, P!BackData, W!FrontData, W!BackData, W!Open, P!Open

-----------------------------------------------------------------------------

(* The reader: what is left and what was taken make up what was there.      *)

\* A call at the start consumes all it asked for and reports it, or nothing.
LEMMA HeadTaken ==
  ASSUME rest \in Seq(Byte), NEW n \in 0..MaxRead, TakeHead(n)
  PROVE  \/ rest' = rest /\ gotHead' = gotHead
         \/ /\ reply'.err = "Ok"
            /\ rest' \in Seq(Byte) /\ reply'.bytes \in Seq(Byte)
            /\ Len(rest) = Len(rest') + Len(reply'.bytes)
            /\ rest = reply'.bytes \o rest'
            /\ gotHead' = Append(gotHead, reply'.bytes)
<1>1. Len(rest) \in Nat /\ n \in Nat
  BY LenProperties, ChannelAssumption
<1>2. ASSUME NEW m \in 0..Len(rest), rest' = R!DropFirst(m), reply'.err = "Ok",
             reply'.bytes = R!FirstBytes(m)
      PROVE  /\ rest' \in Seq(Byte) /\ reply'.bytes \in Seq(Byte)
             /\ Len(rest) = Len(rest') + Len(reply'.bytes)
             /\ rest = reply'.bytes \o rest'
  <2>1. /\ reply'.bytes \in Seq(Byte) /\ rest' \in Seq(Byte)
        /\ Len(reply'.bytes) = m /\ Len(rest') = Len(rest) - m
        /\ reply'.bytes \o rest' = rest
    BY <1>2, CutSeq DEF R!DropFirst, R!FirstBytes
  <2>2. QED
    BY <1>1, <2>1
<1>3. \/ rest' = rest
      \/ \E m \in 0..Len(rest) : /\ rest' = R!DropFirst(m) /\ reply'.err = "Ok"
                                 /\ reply'.bytes = R!FirstBytes(m)
  <2>1. CASE R!Read(n)
    BY <1>1, <2>1 DEF R!Read, R!ReadAt, R!Answer
  <2>2. CASE R!Advance(n)
    BY <1>1, <2>2 DEF R!Advance, R!Answer
  <2>3. CASE R!IoRead(n)
    <3> DEFINE m == IF n <= Len(rest) THEN n ELSE Len(rest)
    <3>1. m \in 0..Len(rest)
      BY <1>1
    <3> HIDE DEF m
    <3>2. rest' = R!DropFirst(m) /\ reply' = R!Answer("io_read", "Ok", R!FirstBytes(m))
      BY <2>3 DEF R!IoRead, m
    <3>3. reply'.err = "Ok" /\ reply'.bytes = R!FirstBytes(m)
      BY <3>2 DEF R!Answer
    <3>4. QED
      BY <3>1, <3>2, <3>3
  <2>4. QED
    BY <2>1, <2>2, <2>3 DEF TakeHead
<1>4. CASE rest' = rest
  BY <1>4 DEF TakeHead
<1>5. CASE rest' # rest
  BY <1>2, <1>3, <1>5 DEF TakeHead
<1>6. QED
  BY <1>4, <1>5

\* A call at the end consumes all it asked for and reports it, or nothing.
LEMMA TailTaken ==
  ASSUME rest \in Seq(Byte), NEW n \in 0..MaxRead, TakeTail(n)
  PROVE  \/ rest' = rest /\ gotTail' = gotTail
         \/ /\ reply'.err = "Ok"
            /\ rest' \in Seq(Byte) /\ reply'.bytes \in Seq(Byte)
            /\ Len(rest) = Len(rest') + Len(reply'.bytes)
            /\ rest = rest' \o reply'.bytes
            /\ gotTail' = Append(gotTail, reply'.bytes)
<1>1. Len(rest) \in Nat /\ n \in Nat
  BY LenProperties, ChannelAssumption
<1>2. ASSUME n <= Len(rest), rest' = R!DropLast(n), reply'.err = "Ok",
             reply'.bytes = R!LastBytes(n)
      PROVE  /\ rest' \in Seq(Byte) /\ reply'.bytes \in Seq(Byte)
             /\ Len(rest) = Len(rest') + Len(reply'.bytes)
             /\ rest = rest' \o reply'.bytes
  <2> DEFINE m == Len(rest) - n
  <2>1. m \in 0..Len(rest)
    BY <1>1, <1>2
  <2>2. /\ rest' = SubSeq(rest, 1, m)
        /\ reply'.bytes = SubSeq(rest, m + 1, Len(rest))
    BY <1>2 DEF R!DropLast, R!LastBytes
  <2> HIDE DEF m
  <2>3. /\ reply'.bytes \in Seq(Byte) /\ rest' \in Seq(Byte)
        /\ Len(rest') = m /\ Len(reply'.bytes) = Len(rest) - m
        /\ rest' \o reply'.bytes = rest
    BY <2>1, <2>2, CutSeq
  <2>4. QED
    BY <1>1, <2>1, <2>3
<1>3. \/ rest' = rest
      \/ /\ n <= Len(rest) /\ rest' = R!DropLast(n) /\ reply'.err = "Ok"
         /\ reply'.bytes = R!LastBytes(n)
  <2>1. CASE R!ReadTail(n)
    BY <2>1 DEF R!ReadTail, R!ReadAt, R!Answer
  <2>2. CASE R!AdvanceTail(n)
    BY <2>2 DEF R!AdvanceTail, R!Answer
  <2>3. QED
    BY <2>1, <2>2 DEF TakeTail
<1>4. CASE rest' = rest
  BY <1>4 DEF TakeTail
<1>5. CASE rest' # rest
  BY <1>2, <1>3, <1>5 DEF TakeTail
<1>6. QED
  BY <1>4, <1>5

\* Taking a piece from the start moves it from what is left to what was taken.
LEMMA HeadMoves ==
  ASSUME Types, NEW n \in 0..MaxRead, TakeHead(n)
  PROVE  /\ rest' \in Seq(Byte) /\ gotHead' \in Seq(Seq(Byte))
         /\ FlattenSeq(gotHead') \o rest' = FlattenSeq(gotHead) \o rest
<1>1. /\ rest \in Seq(Byte) /\ gotHead \in Seq(Seq(Byte))
      /\ FlattenSeq(gotHead) \in Seq(Byte)
  BY FlattenType DEF Types
<1>2. CASE rest' = rest /\ gotHead' = gotHead
  BY <1>1, <1>2
<1>3. CASE /\ rest' \in Seq(Byte) /\ reply'.bytes \in Seq(Byte)
           /\ rest = reply'.bytes \o rest'
           /\ gotHead' = Append(gotHead, reply'.bytes)
  <2>1. gotHead' \in Seq(Seq(Byte))
    BY <1>1, <1>3, AppendProperties
  <2>2. FlattenSeq(gotHead') = FlattenSeq(gotHead) \o reply'.bytes
    BY <1>1, <1>3, FlattenAppend
  <2>3. (FlattenSeq(gotHead) \o reply'.bytes) \o rest'
        = FlattenSeq(gotHead) \o (reply'.bytes \o rest')
    <3>1. reply'.bytes \in Seq(Byte) /\ rest' \in Seq(Byte) /\ FlattenSeq(gotHead) \in Seq(Byte)
      BY <1>1, <1>3
    <3>2. Associates(FlattenSeq(gotHead), reply'.bytes, rest')
      BY <3>1, Association, Zenon
    <3>3. QED
      BY <3>2 DEF Associates
  <2>4. QED
    BY <1>3, <2>1, <2>2, <2>3
<1>4. QED
  BY <1>1, <1>2, <1>3, HeadTaken

\* So does taking a piece from the end.
LEMMA TailMoves ==
  ASSUME Types, NEW n \in 0..MaxRead, TakeTail(n)
  PROVE  /\ rest' \in Seq(Byte) /\ gotTail' \in Seq(Seq(Byte))
         /\ rest' \o FromEnd(gotTail') = rest \o FromEnd(gotTail)
<1>1. /\ rest \in Seq(Byte) /\ gotTail \in Seq(Seq(Byte))
      /\ FromEnd(gotTail) \in Seq(Byte)
  BY FromEndAppend, EmptySeq DEF Types, FromEnd
<1>2. CASE rest' = rest /\ gotTail' = gotTail
  BY <1>1, <1>2 DEF FromEnd
<1>3. CASE /\ rest' \in Seq(Byte) /\ reply'.bytes \in Seq(Byte)
           /\ rest = rest' \o reply'.bytes
           /\ gotTail' = Append(gotTail, reply'.bytes)
  <2>1. gotTail' \in Seq(Seq(Byte))
    BY <1>1, <1>3, AppendProperties
  <2>2. FromEnd(gotTail') = reply'.bytes \o FromEnd(gotTail)
    BY <1>1, <1>3, FromEndAppend DEF FromEnd
  <2>3. (rest' \o reply'.bytes) \o FromEnd(gotTail)
        = rest' \o (reply'.bytes \o FromEnd(gotTail))
    <3>1. reply'.bytes \in Seq(Byte) /\ rest' \in Seq(Byte) /\ FromEnd(gotTail) \in Seq(Byte)
      BY <1>1, <1>3
    <3>2. Associates(rest', reply'.bytes, FromEnd(gotTail))
      BY <3>1, Association, Zenon
    <3>3. QED
      BY <3>2 DEF Associates
  <2>4. QED
    BY <1>3, <2>1, <2>2, <2>3
<1>4. QED
  BY <1>1, <1>2, <1>3, TailTaken

-----------------------------------------------------------------------------

(* The inductive invariant.                                                *)

\* The channel starts with nothing written and nothing taken.
LEMMA ChannelInit == Init => CInv
<1> SUFFICES ASSUME Init PROVE CInv
  OBVIOUS
<1>1. /\ << >> \in Seq(Byte) /\ << >> \in Seq(Seq(Byte))
      /\ FlattenSeq(<< >>) = << >> /\ FromEnd(<< >>) = << >>
  BY FlattenEmpty, ReverseEmpty, EmptySeq DEF FromEnd
<1>2. Types
  <2>1. 0 \in 0..MaxRead
    BY ChannelAssumption
  <2>2. QED
    BY <1>1, <2>1 DEF Init, Types
<1>3. W!FrontData = << >> /\ W!BackData = << >>
  <2>1. /\ N \in Int /\ 0 < 1 /\ N < N + 1
    BY ChannelAssumption
  <2>2. SubSeq(buf, 1, 0) = << >> /\ SubSeq(buf, N + 1, N) = << >>
    BY <2>1, SubSeqEmpty
  <2>3. QED
    BY <2>2 DEF Init, W!Init, W!FrontData, W!BackData
<1>4. Laying
  BY <1>1, <1>3 DEF Init, W!Init, Laying
<1>5. RecordConserved /\ AnswerIsCurrent
  BY DEF Init, RecordConserved, AnswerIsCurrent, R!Answer
<1>6. QED
  BY <1>2, <1>4, <1>5 DEF CInv

\* A write adds to the history of its end what it adds to the data there, and
\* a refused one adds to neither.
LEMMA PutKeeps ==
  ASSUME WInv, CInv, P!Mapped, P!Mapped', NEW v \in Chunk, Put(v)
  PROVE  CInv'
<1>1. /\ W!TypeOK /\ W!EndsNeverCross /\ Types /\ Laying /\ ~reading
  BY DEF WInv, CInv, Put
<1>2. /\ v \in Seq(Byte)
      /\ FlattenSeq(sentHead) \in Seq(Byte) /\ FromEnd(sentTail) \in Seq(Byte)
  BY <1>1, ChannelAssumption, FlattenType, FromEndAppend, EmptySeq DEF Types, FromEnd
<1>3. CASE W!Write(v) /\ sentTail' = sentTail
           /\ sentHead' = IF ret'.err = "Ok" THEN Append(sentHead, v) ELSE sentHead
  <2>1. /\ final' = W!Open /\ W!BackData' = W!BackData
        /\ IF ret'.err = "Ok" THEN W!FrontData' = W!FrontData \o v
                              ELSE W!FrontData' = W!FrontData
    BY <1>1, <1>3, WriteAdds DEF Laying
  <2>2. sentHead' \in Seq(Seq(Byte)) /\ W!FrontData' = FlattenSeq(sentHead')
    <3>1. CASE ret'.err = "Ok"
      <4>1. sentHead' = Append(sentHead, v)
        BY <1>3, <3>1
      <4>2. FlattenSeq(sentHead') = FlattenSeq(sentHead) \o v
        BY <1>1, <1>2, <4>1, FlattenAppend DEF Types
      <4>3. sentHead' \in Seq(Seq(Byte))
        BY <1>1, <1>2, <4>1, AppendProperties DEF Types
      <4>4. QED
        BY <1>1, <2>1, <3>1, <4>2, <4>3 DEF Laying
    <3>2. CASE ret'.err # "Ok"
      BY <1>1, <1>3, <2>1, <3>2 DEF Types, Laying
    <3>3. QED
      BY <3>1, <3>2
  <2>3. Types'
    BY <1>1, <1>3, <2>2 DEF Types, Put, reader
  <2>4. Laying'
    BY <1>1, <1>3, <2>1, <2>2 DEF Laying, Put, reader, FromEnd
  <2>5. QED
    BY <1>1, <2>3, <2>4 DEF CInv, Put, reader, RecordConserved, AnswerIsCurrent
<1>4. CASE W!WriteTail(v) /\ sentHead' = sentHead
           /\ sentTail' = IF ret'.err = "Ok" THEN Append(sentTail, v) ELSE sentTail
  <2>1. /\ final' = W!Open /\ W!FrontData' = W!FrontData
        /\ IF ret'.err = "Ok" THEN W!BackData' = v \o W!BackData
                              ELSE W!BackData' = W!BackData
    BY <1>1, <1>4, WriteTailAdds DEF Laying
  <2>2. sentTail' \in Seq(Seq(Byte)) /\ W!BackData' = FromEnd(sentTail')
    <3>1. CASE ret'.err = "Ok"
      <4>1. sentTail' = Append(sentTail, v)
        BY <1>4, <3>1
      <4>2. FromEnd(sentTail') = v \o FromEnd(sentTail)
        BY <1>1, <1>2, <4>1, FromEndAppend DEF Types, FromEnd
      <4>3. sentTail' \in Seq(Seq(Byte))
        BY <1>1, <1>2, <4>1, AppendProperties DEF Types
      <4>4. QED
        BY <1>1, <2>1, <3>1, <4>2, <4>3 DEF Laying
    <3>2. CASE ret'.err # "Ok"
      BY <1>1, <1>4, <2>1, <3>2 DEF Types, Laying, FromEnd
    <3>3. QED
      BY <3>1, <3>2
  <2>3. Types'
    BY <1>1, <1>4, <2>2 DEF Types, Put, reader
  <2>4. Laying'
    BY <1>1, <1>4, <2>1, <2>2 DEF Laying, Put, reader
  <2>5. QED
    BY <1>1, <2>3, <2>4 DEF CInv, Put, reader, RecordConserved, AnswerIsCurrent
<1>5. QED
  BY <1>3, <1>4 DEF Put

\* finalize hands over the two ends joined, which is all that was accepted.
LEMMA HandOverKeeps ==
  ASSUME WInv, CInv, P!Mapped, P!Mapped', HandOver
  PROVE  CInv'
<1>1. /\ W!TypeOK /\ W!EndsNeverCross /\ Types /\ Laying /\ W!Finalize
  BY DEF WInv, CInv, HandOver
<1>2. rest' = FlattenSeq(sentHead) \o FromEnd(sentTail)
  BY <1>1, FinalizeHands DEF HandOver, Laying
<1>3. FlattenSeq(sentHead) \in Seq(Byte) /\ FromEnd(sentTail) \in Seq(Byte)
  BY <1>1, FlattenType, FromEndAppend, EmptySeq DEF Types, FromEnd
<1>4. rest' \in Seq(Byte)
  BY <1>2, <1>3, ConcatProperties
<1>5. Types'
  BY <1>1, <1>4 DEF Types, HandOver, history
<1>6. RecordConserved'
  <2>1. << >> \o rest' \o << >> = rest'
    BY <1>4, ConcatEmptySeq
  <2>2. FlattenSeq(gotHead') = << >> /\ FromEnd(gotTail') = << >>
    BY <1>1, FlattenEmpty, ReverseEmpty DEF HandOver, history, Laying, FromEnd
  <2>3. sentHead' = sentHead /\ sentTail' = sentTail
    BY DEF HandOver, history
  <2>4. FlattenSeq(gotHead') \o rest' \o FromEnd(gotTail')
        = FlattenSeq(sentHead') \o FromEnd(sentTail')
    BY <1>2, <2>1, <2>2, <2>3
  <2>5. QED
    BY <2>4 DEF RecordConserved, FromEnd
<1>7. AnswerIsCurrent' /\ reading'
  BY DEF HandOver, AnswerIsCurrent, R!Answer
<1>8. QED
  BY <1>5, <1>6, <1>7 DEF CInv

\* After any call of the reader, an answer of is_complete is about what is left.
LEMMA AnswerKept ==
  ASSUME AnswerIsCurrent, Take
  PROVE  AnswerIsCurrent'
<1>1. CASE Look
  BY <1>1 DEF Look, R!IsComplete, R!Peek, R!PeekTail, R!PeekAt, R!Answer, AnswerIsCurrent
<1>2. ASSUME NEW n \in 0..MaxRead, TakeHead(n)
      PROVE  reply'.call # "is_complete"
  BY <1>2 DEF TakeHead, R!Read, R!Advance, R!IoRead, R!ReadAt, R!Answer
<1>3. ASSUME NEW n \in 0..MaxRead, TakeTail(n)
      PROVE  reply'.call # "is_complete"
  BY <1>3 DEF TakeTail, R!ReadTail, R!AdvanceTail, R!ReadAt, R!Answer
<1>4. QED
  BY <1>1, <1>2, <1>3 DEF Take, AnswerIsCurrent

\* The reader moves bytes from what is left to what was taken at an end.
LEMMA TakeKeeps ==
  ASSUME CInv, Take
  PROVE  CInv'
<1>1. /\ Types /\ RecordConserved /\ AnswerIsCurrent
      /\ reading /\ reading' = reading
      /\ sentHead' = sentHead /\ sentTail' = sentTail
  BY DEF CInv, Take
<1>2. Types' /\ RecordConserved'
  <2> DEFINE sent == FlattenSeq(sentHead) \o FromEnd(sentTail)
             fh == FlattenSeq(gotHead)
             fh1 == FlattenSeq(gotHead')
             ft == FromEnd(gotTail)
             ft1 == FromEnd(gotTail')
  <2>1. fh \o rest \o ft = sent
    BY <1>1 DEF RecordConserved
  <2>2. SUFFICES Types' /\ fh1 \o rest' \o ft1 = sent
    BY <1>1 DEF RecordConserved, FromEnd
  <2>3. rest \in Seq(Byte) /\ fh \in Seq(Byte) /\ ft \in Seq(Byte)
    BY <1>1, FlattenType, FromEndAppend, EmptySeq DEF Types, FromEnd
  <2>4. CASE Look
    <3>1. /\ rest' = rest /\ gotHead' = gotHead /\ gotTail' = gotTail
          /\ asked' \in 0..MaxRead
      BY <2>4, ChannelAssumption DEF Look, R!IsComplete, R!Peek, R!PeekTail, R!PeekAt
    <3>2. QED
      BY <1>1, <2>1, <3>1 DEF Types, FromEnd
  <2>5. ASSUME NEW n \in 0..MaxRead, TakeHead(n)
        PROVE  Types' /\ fh1 \o rest' \o ft1 = sent
    <3>1. /\ rest' \in Seq(Byte) /\ gotHead' \in Seq(Seq(Byte))
          /\ fh1 \o rest' = fh \o rest
      BY <1>1, <2>5, HeadMoves
    <3>2. gotTail' = gotTail /\ ft1 = ft /\ asked' = n
      BY <2>5 DEF TakeHead, FromEnd
    <3>3. Types'
      BY <1>1, <3>1, <3>2 DEF Types
    <3>4. QED
      BY <2>1, <3>1, <3>2, <3>3
  <2>6. ASSUME NEW n \in 0..MaxRead, TakeTail(n)
        PROVE  Types' /\ fh1 \o rest' \o ft1 = sent
    <3>1. /\ rest' \in Seq(Byte) /\ gotTail' \in Seq(Seq(Byte))
          /\ rest' \o ft1 = rest \o ft
      BY <1>1, <2>6, TailMoves
    <3>2. gotHead' = gotHead /\ asked' = n
      BY <2>6 DEF TakeTail
    <3>3. Types'
      BY <1>1, <3>1, <3>2 DEF Types
    <3>4. ft1 \in Seq(Byte)
      BY <3>1, FromEndAppend, EmptySeq DEF FromEnd
    <3>5. (fh \o rest') \o ft1 = fh \o (rest' \o ft1)
      <4>1. Associates(fh, rest', ft1)
        BY <2>3, <3>1, <3>4, Association, Zenon
      <4>2. QED
        BY <4>1 DEF Associates
    <3>6. (fh \o rest) \o ft = fh \o (rest \o ft)
      <4>1. Associates(fh, rest, ft)
        BY <2>3, Association, Zenon
      <4>2. QED
        BY <4>1 DEF Associates
    <3>7. QED
      BY <2>1, <3>1, <3>2, <3>3, <3>5, <3>6
  <2>7. QED
    BY <2>4, <2>5, <2>6 DEF Take
<1>3. QED
  BY <1>1, <1>2, AnswerKept DEF CInv

\* Every step of the channel keeps its invariant.
LEMMA ChannelStep == WInv /\ CInv /\ Data /\ Data' /\ [Next]_vars => CInv'
<1> SUFFICES ASSUME WInv, CInv, P!Mapped, P!Mapped', [Next]_vars
             PROVE  CInv'
  BY DEF Data
<1>1. ASSUME NEW v \in Chunk, Put(v) PROVE CInv'
  BY <1>1, PutKeeps
<1>2. CASE HandOver
  BY <1>2, HandOverKeeps
<1>3. CASE Take
  BY <1>3, TakeKeeps
<1>4. CASE UNCHANGED vars
  <2>1. UNCHANGED <<buf, head, tail, final, ret, rest, reply, reading,
                    sentHead, sentTail, gotHead, gotTail, asked>>
    BY <1>4 DEF vars, writer, reader, history
  <2>2. Types' /\ AnswerIsCurrent'
    BY <2>1 DEF CInv, Types, AnswerIsCurrent
  <2>3. RecordConserved'
    BY <2>1 DEF CInv, RecordConserved, FromEnd
  <2>4. ~reading' => Laying'
    BY <2>1 DEF CInv, Laying, FromEnd, W!FrontData, W!BackData
  <2>5. QED
    BY <2>2, <2>3, <2>4 DEF CInv
<1>5. QED
  BY <1>1, <1>2, <1>3, <1>4 DEF Next

\* The writer's invariant holds whatever the channel does with it; the data of
\* the writer is then what the refinement of the store says, and the channel's
\* own invariant follows.
LEMMA ChannelInvariant == Spec => [](WInv /\ CInv)
<1>1. WInv => Data
  <2>1. WInv => P!IInv
    BY DEF WInv, P!IInv, P!TypeOK, P!EndsNeverCross, W!TypeOK, W!EndsNeverCross,
           W!Open, P!Open
  <2>2. P!IInv => P!Mapped
    BY ChannelAssumption, P!MappedData DEF P!WriterAssumption
  <2>3. QED
    BY <2>1, <2>2 DEF Data
<1>2. QED
  BY WriterInit, WriterStep, ChannelInit, <1>1, ChannelStep, PTL DEF Spec

-----------------------------------------------------------------------------

(* The properties of the channel.                                          *)

\* Every value in the channel stays well typed, in particular both offsets of
\* the writer and what a reader of src/src/buf.rs has left.
THEOREM ChannelTypeCorrect == Spec => []TypeOK
<1>1. WInv /\ CInv => TypeOK
  BY DEF WInv, CInv, Types, TypeOK
<1>2. QED
  BY <1>1, ChannelInvariant, PTL

\* No byte is lost, invented or moved between writing at the two ends, the gap
\* finalize closes, and reading at the two ends in any interleaving.
THEOREM Conservation == Spec => []RecordConserved
<1>1. CInv => RecordConserved
  BY DEF CInv
<1>2. QED
  BY <1>1, ChannelInvariant, PTL

\* The tail of a record is a queue: reading at the end the lengths that were
\* written there gives the chunks in the order they were written, whatever is
\* read from the start in between.
THEOREM TailQueue == Spec => []TailIsQueue
<1>1. CInv => TailIsQueue
  <2> SUFFICES ASSUME CInv, NEW k \in 1..Len(gotTail),
                      k <= Len(sentTail),
                      \A j \in 1..k : Len(gotTail[j]) = Len(sentTail[j])
               PROVE  gotTail[k] = sentTail[k]
    BY DEF TailIsQueue
  <2>1. reading
    <3>1. SUFFICES ASSUME ~reading PROVE FALSE
      OBVIOUS
    <3>2. Len(gotTail) = 0
      BY <3>1, EmptySeq DEF CInv, Laying
    <3>3. QED
      BY <3>2
  <2>2. /\ rest \in Seq(Byte)
        /\ gotTail \in Seq(Seq(Byte)) /\ sentTail \in Seq(Seq(Byte))
        /\ FlattenSeq(gotHead) \in Seq(Byte) /\ FlattenSeq(sentHead) \in Seq(Byte)
    BY FlattenType DEF CInv, Types
  <2> DEFINE c == FlattenSeq(gotHead) \o rest
             d == FlattenSeq(sentHead)
  <2>3. c \in Seq(Byte) /\ d \in Seq(Byte)
    BY <2>2, ConcatProperties
  <2>4. c \o FlattenSeq(Reverse(gotTail)) = d \o FlattenSeq(Reverse(sentTail))
    BY <2>1 DEF CInv, RecordConserved, FromEnd
  <2> HIDE DEF c, d
  <2>5. k \in Nat /\ k >= 1 /\ k <= Len(gotTail) /\ k <= Len(sentTail)
    BY <2>2, LenProperties
  <2>6. SameAt(k, Byte)
    BY <2>5, SamePieces
  <2>7. QED
    BY <2>2, <2>3, <2>4, <2>5, <2>6, Zenon DEF SameAt
<1>2. QED
  BY <1>1, ChannelInvariant, PTL

\* is_complete says Ok exactly when as many bytes were taken as were written.
THEOREM CompleteIsExact == Spec => []CompleteMeansAllTaken
<1>1. CInv => CompleteMeansAllTaken
  <2> SUFFICES ASSUME CInv, reading, reply.call = "is_complete"
               PROVE  reply.err = "Ok" <=>
                        Len(FlattenSeq(gotHead)) + Len(FlattenSeq(gotTail))
                        = Len(FlattenSeq(sentHead)) + Len(FlattenSeq(sentTail))
    BY DEF CompleteMeansAllTaken
  <2> DEFINE gh == FlattenSeq(gotHead)
             gt == FromEnd(gotTail)
             sh == FlattenSeq(sentHead)
             st == FromEnd(sentTail)
  <2>1. /\ rest \in Seq(Byte) /\ gh \in Seq(Byte) /\ sh \in Seq(Byte)
        /\ gt \in Seq(Byte) /\ st \in Seq(Byte)
    BY FlattenType, FromEndAppend, EmptySeq DEF CInv, Types, FromEnd
  <2>2. Len(gt) = Len(FlattenSeq(gotTail)) /\ Len(st) = Len(FlattenSeq(sentTail))
    BY FromEndLen DEF CInv, Types, FromEnd
  <2>3. (gh \o rest) \o gt = sh \o st
    BY DEF CInv, RecordConserved
  <2> HIDE DEF gh, gt, sh, st
  <2>4. gh \o rest \in Seq(Byte) /\ Len(gh \o rest) = Len(gh) + Len(rest)
    BY <2>1, ConcatProperties, Zenon
  <2>5. Len((gh \o rest) \o gt) = Len(gh \o rest) + Len(gt)
    BY <2>1, <2>4, ConcatProperties, Zenon
  <2>6. Len(sh \o st) = Len(sh) + Len(st)
    BY <2>1, ConcatProperties, Zenon
  <2>7. Len(gh) + Len(rest) + Len(gt) = Len(sh) + Len(st)
    BY <2>3, <2>4, <2>5, <2>6, Zenon
  <2>8. /\ Len(gh) \in Nat /\ Len(rest) \in Nat /\ Len(gt) \in Nat
        /\ Len(sh) \in Nat /\ Len(st) \in Nat
    BY <2>1, LenProperties, Zenon
  <2>9. reply.err = "Ok" <=> Len(rest) = 0
    BY <2>1, EmptySeq DEF CInv, AnswerIsCurrent
  <2>10. reply.err = "Ok" <=> Len(gh) + Len(gt) = Len(sh) + Len(st)
    BY <2>7, <2>8, <2>9
  <2>11. QED
    BY <2>2, <2>10 DEF gh, sh
<1>2. QED
  BY <1>1, ChannelInvariant, PTL

\* A call at the start takes all it asked for or nothing; only std::io::Read
\* takes less, and then all there is.
LEMMA HeadAllOrNone ==
  ASSUME rest \in Seq(Byte), NEW n \in 0..MaxRead, TakeHead(n)
  PROVE  AllOrNone
<1>1. Len(rest) \in Nat /\ n \in Nat /\ asked' = n
  BY LenProperties, ChannelAssumption DEF TakeHead
<1>2. ASSUME NEW call, NEW m \in 0..Len(rest), m = Due(call, n),
             call \notin {"peek", "peek_tail", "is_complete"},
             rest' = R!DropFirst(m), reply' = R!Answer(call, "Ok", R!FirstBytes(m))
      PROVE  AllOrNone
  <2>1. /\ reply'.call = call /\ reply'.err = "Ok"
        /\ reply'.bytes = SubSeq(rest, 1, m) /\ rest' = SubSeq(rest, m + 1, Len(rest))
    BY <1>2 DEF R!Answer, R!DropFirst, R!FirstBytes
  <2>2. Len(reply'.bytes) = m /\ Len(rest') = Len(rest) - m
    BY <2>1, CutSeq
  <2>3. QED
    BY <1>1, <1>2, <2>1, <2>2 DEF AllOrNone
<1>3. CASE R!Read(n)
  <2>1. CASE n <= Len(rest) /\ rest' = R!DropFirst(n)
             /\ reply' = R!Answer("read", "Ok", R!FirstBytes(n))
    <3>1. n = Due("read", n) /\ n \in 0..Len(rest)
      BY <1>1, <2>1 DEF Due
    <3>2. QED
      BY <1>2, <2>1, <3>1
  <2>2. CASE n > Len(rest) /\ rest' = rest
             /\ reply' = R!Answer("read", "PrematureEndOfInput", << >>)
    BY <1>1, <2>2 DEF AllOrNone, R!Answer
  <2>3. CASE rest' = rest /\ reply' = R!Answer("read", "CallbackError", << >>)
    BY <2>3 DEF AllOrNone, R!Answer
  <2>4. QED
    BY <1>3, <2>1, <2>2, <2>3 DEF R!Read, R!ReadAt
<1>4. CASE R!Advance(n)
  <2>1. n = Due("advance", n) /\ n \in 0..Len(rest)
    BY <1>1, <1>4 DEF Due, R!Advance
  <2>2. QED
    BY <1>2, <1>4, <2>1 DEF R!Advance
<1>5. CASE R!IoRead(n)
  <2> DEFINE m == IF n <= Len(rest) THEN n ELSE Len(rest)
  <2>1. m = Due("io_read", n) /\ m \in 0..Len(rest)
    BY <1>1 DEF Due
  <2>2. rest' = R!DropFirst(m) /\ reply' = R!Answer("io_read", "Ok", R!FirstBytes(m))
    BY <1>5 DEF R!IoRead
  <2> HIDE DEF m
  <2>3. QED
    BY <1>2, <2>1, <2>2
<1>6. QED
  BY <1>3, <1>4, <1>5 DEF TakeHead

\* A call at the end takes all it asked for or nothing.
LEMMA TailAllOrNone ==
  ASSUME rest \in Seq(Byte), NEW n \in 0..MaxRead, TakeTail(n)
  PROVE  AllOrNone
<1>1. Len(rest) \in Nat /\ n \in Nat /\ asked' = n
  BY LenProperties, ChannelAssumption DEF TakeTail
<1>2. ASSUME NEW call, call \in {"read_tail", "advance_tail"}, n <= Len(rest),
             rest' = R!DropLast(n), reply' = R!Answer(call, "Ok", R!LastBytes(n))
      PROVE  AllOrNone
  <2> DEFINE m == Len(rest) - n
  <2>1. m \in 0..Len(rest)
    BY <1>1, <1>2
  <2>2. /\ reply'.call = call /\ reply'.err = "Ok"
        /\ reply'.bytes = SubSeq(rest, m + 1, Len(rest)) /\ rest' = SubSeq(rest, 1, m)
    BY <1>2 DEF R!Answer, R!DropLast, R!LastBytes
  <2> HIDE DEF m
  <2>3. Len(reply'.bytes) = Len(rest) - m /\ Len(rest') = m
    BY <2>1, <2>2, CutSeq
  <2>4. Len(rest) - m = n /\ Due(call, n) = n
    BY <1>1, <1>2 DEF m, Due
  <2>5. Len(rest) = Len(rest') + n
    BY <1>1, <2>1, <2>3, <2>4
  <2>6. QED
    BY <1>1, <1>2, <2>2, <2>3, <2>4, <2>5 DEF AllOrNone
<1>3. CASE R!ReadTail(n)
  <2>1. CASE n <= Len(rest) /\ rest' = R!DropLast(n)
             /\ reply' = R!Answer("read_tail", "Ok", R!LastBytes(n))
    BY <1>2, <2>1
  <2>2. CASE n > Len(rest) /\ rest' = rest
             /\ reply' = R!Answer("read_tail", "PrematureEndOfInput", << >>)
    BY <1>1, <2>2 DEF AllOrNone, R!Answer
  <2>3. CASE rest' = rest /\ reply' = R!Answer("read_tail", "CallbackError", << >>)
    BY <2>3 DEF AllOrNone, R!Answer
  <2>4. QED
    BY <1>3, <2>1, <2>2, <2>3 DEF R!ReadTail, R!ReadAt
<1>4. CASE R!AdvanceTail(n)
  BY <1>2, <1>4 DEF R!AdvanceTail
<1>5. QED
  BY <1>3, <1>4 DEF TakeTail

\* A call that only looks takes nothing, and is refused only for more than is
\* left.
LEMMA LookAllOrNone ==
  ASSUME rest \in Seq(Byte), Look
  PROVE  AllOrNone
<1>1. CASE R!IsComplete
  BY <1>1 DEF R!IsComplete, R!Answer, AllOrNone
<1>2. ASSUME NEW n \in 0..MaxRead, NEW call \in {"peek", "peek_tail"}, NEW seen,
             R!PeekAt(call, n, seen), asked' = n
      PROVE  AllOrNone
  <2>1. Len(rest) \in Nat /\ n \in Nat
    BY LenProperties, ChannelAssumption
  <2>2. QED
    BY <1>2, <2>1 DEF R!PeekAt, R!Answer, AllOrNone
<1>3. QED
  BY <1>1, <1>2 DEF Look, R!Peek, R!PeekTail

\* Every call of the reader takes all the bytes it asked for (std::io::Read all
\* that are left, when it asked for more) or takes none: a callback that fails
\* leaves the buffer where it was, and a buffer that is too short is refused as
\* a whole.
THEOREM AllOrNothing == Spec => ReadsAllOrNothing
<1>1. CInv /\ [Next]_vars => [reading => AllOrNone]_vars
  <2> SUFFICES ASSUME CInv, Next, reading PROVE AllOrNone
    OBVIOUS
  <2>1. rest \in Seq(Byte) /\ Take
    BY DEF CInv, Types, Next, Put, HandOver
  <2>2. QED
    BY <2>1, HeadAllOrNone, TailAllOrNone, LookAllOrNone DEF Take
<1>2. QED
  BY <1>1, ChannelInvariant, PTL DEF Spec, ReadsAllOrNothing

=============================================================================
