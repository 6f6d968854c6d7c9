------------------------ MODULE DeBytesWriterProofs ------------------------
(***************************************************************************)
(* Theorems about DeBytesWriter for every slice length, every set of byte  *)
(* values and every set of chunks: type correctness, the order of the two  *)
(* ends, stability of the accepted bytes, and the refinement of            *)
(* TwoEndedStore.                                                          *)
(***************************************************************************)
EXTENDS DeBytesWriter, SequenceTheorems, TLAPS

\* The inductive invariant.  Neither part is inductive alone: the offsets stay
\* in 0..N only because the ends do not cross, and a sealed writer stays full
\* only because its ends are equal.
IInv == TypeOK /\ EndsNeverCross

-----------------------------------------------------------------------------

(* Facts about the operators.                                              *)

\* A chunk is a byte string.
LEMMA ChunkFacts ==
  ASSUME NEW v \in Chunk
  PROVE  /\ v \in Seq(Byte)
         /\ Len(v) \in Nat
         /\ \A i \in 1..Len(v) : v[i] \in Byte
<1>1. v \in Seq(Byte)
  BY WriterAssumption
<1>2. QED
  BY <1>1, LenProperties, ElementOfSeq

\* What SubSeq yields on a slice, empty windows included.
LEMMA Window ==
  ASSUME NEW b \in [1..N -> Byte], NEW lo \in 1..N + 1, NEW hi \in lo - 1..N
  PROVE  /\ SubSeq(b, lo, hi) \in Seq(Byte)
         /\ Len(SubSeq(b, lo, hi)) = hi - lo + 1
         /\ \A i \in 1..hi - lo + 1 : SubSeq(b, lo, hi)[i] = b[lo + i - 1]
<1>1. lo \in Int /\ hi \in Int /\ \A i \in lo..hi : b[i] \in Byte
  BY WriterAssumption
<1>2. QED
  BY <1>1, SubSeqProperties, WriterAssumption

\* Copying a chunk into the slice leaves a slice.
LEMMA CopyIntoType ==
  ASSUME buf \in [1..N -> Byte], NEW v \in Chunk, NEW at \in 0..N,
         at + Len(v) <= N
  PROVE  CopyInto(at, v) \in [1..N -> Byte]
<1>1. ASSUME NEW i \in 1..N, i \in at + 1..at + Len(v)
      PROVE  v[i - at] \in Byte
  BY <1>1, ChunkFacts, WriterAssumption
<1>2. QED
  BY <1>1 DEF CopyInto

\* Copying an empty chunk changes nothing.
LEMMA CopyNothing ==
  ASSUME buf \in [1..N -> Byte], NEW v \in Chunk, NEW at \in 0..N, Len(v) = 0
  PROVE  CopyInto(at, v) = buf
<1>1. \A i \in 1..N : i \notin at + 1..at + Len(v)
  BY WriterAssumption
<1>2. QED
  BY <1>1 DEF CopyInto

-----------------------------------------------------------------------------

(* The inductive invariant.                                                *)

\* A new writer satisfies the invariant.
LEMMA InitIInv == Init => IInv
BY WriterAssumption DEF Init, IInv, TypeOK, EndsNeverCross, Reply, Open

\* Every call of the writer keeps it.
LEMMA StepIInv == IInv /\ [Next]_vars => IInv'
<1> SUFFICES ASSUME IInv, [Next]_vars
             PROVE  IInv'
  OBVIOUS
<1> USE WriterAssumption DEF IInv, TypeOK, EndsNeverCross, Reply, Open
<1>1. ASSUME NEW v \in Chunk, Write(v)
      PROVE  IInv'
  <2>1. CASE head + Len(v) > tail
    BY <1>1, <2>1, ChunkFacts DEF Write
  <2>2. CASE head + Len(v) <= tail
    <3>1. CopyInto(head, v) \in [1..N -> Byte]
      BY <2>2, CopyIntoType, ChunkFacts
    <3>2. QED
      BY <1>1, <2>2, <3>1, ChunkFacts DEF Write
  <2>3. QED
    BY <2>1, <2>2, ChunkFacts
<1>2. ASSUME NEW v \in Chunk, WriteTail(v)
      PROVE  IInv'
  <2>1. CASE head + Len(v) > tail
    BY <1>2, <2>1, ChunkFacts DEF WriteTail
  <2>2. CASE head + Len(v) <= tail
    <3>1. tail - Len(v) \in 0..N
      BY <2>2, ChunkFacts
    <3>2. CopyInto(tail - Len(v), v) \in [1..N -> Byte]
      BY <2>2, <3>1, CopyIntoType, ChunkFacts
    <3>3. QED
      BY <1>2, <2>2, <3>1, <3>2, ChunkFacts DEF WriteTail
  <2>3. QED
    BY <2>1, <2>2, ChunkFacts
<1>3. CASE Finalize
  <2>1. head # tail => CollapseGap \in [1..N -> Byte]
    BY DEF CollapseGap
  <2>2. QED
    BY <1>3, <2>1 DEF Finalize, Keep
<1>4. CASE IsComplete
  BY <1>4 DEF IsComplete
<1>5. CASE UNCHANGED vars
  BY <1>5 DEF vars
<1>6. QED
  BY <1>1, <1>2, <1>3, <1>4, <1>5 DEF Next

\* So it holds of every behaviour.
LEMMA InductiveInvariant == Spec => []IInv
BY InitIInv, StepIInv, PTL DEF Spec

\* Every reachable state of the writer is well typed: in particular both
\* offsets stay inside the slice in any sequence of calls.
THEOREM TypeCorrect == Spec => []TypeOK
<1>1. IInv => TypeOK
  BY DEF IInv
<1>2. QED
  BY <1>1, InductiveInvariant, PTL

\* The ends of the buffer never cross, and finalize leaves no room behind.
THEOREM EndsOrdered == Spec => []EndsNeverCross
<1>1. IInv => EndsNeverCross
  BY DEF IInv
<1>2. QED
  BY <1>1, InductiveInvariant, PTL

-----------------------------------------------------------------------------

(* Stability of the accepted bytes.                                        *)

\* Once accepted, a byte is never overwritten: not by the other end while the
\* writer is open, not by anything once it is finalized.
THEOREM BytesStay == Spec => AcceptedBytesStay
<1> DEFINE Stay == /\ final' = Open =>
                        \A i \in 1..N : i <= head \/ i > tail => buf'[i] = buf[i]
                   /\ final # Open => \A i \in 1..final : buf'[i] = buf[i]
<1>1. IInv /\ [Next]_vars => [Stay]_vars
  <2> SUFFICES ASSUME IInv, Next
               PROVE  Stay
    OBVIOUS
  <2> USE WriterAssumption DEF IInv, TypeOK, EndsNeverCross, Open
  <2>1. ASSUME NEW v \in Chunk, Write(v)
        PROVE  Stay
    <3>1. CASE head + Len(v) > tail
      BY <2>1, <3>1, ChunkFacts DEF Write
    <3>2. CASE head + Len(v) <= tail
      <4>1. \A i \in 1..N : i <= head \/ i > tail => buf'[i] = buf[i]
        BY <2>1, <3>2, ChunkFacts DEF Write, CopyInto
      <4>2. final # Open => Len(v) = 0
        BY <3>2, ChunkFacts
      <4>3. final # Open => buf' = buf
        BY <2>1, <3>2, <4>2, ChunkFacts, CopyNothing DEF Write
      <4>4. QED
        BY <4>1, <4>3
    <3>3. QED
      BY <3>1, <3>2, ChunkFacts
  <2>2. ASSUME NEW v \in Chunk, WriteTail(v)
        PROVE  Stay
    <3>1. CASE head + Len(v) > tail
      BY <2>2, <3>1, ChunkFacts DEF WriteTail
    <3>2. CASE head + Len(v) <= tail
      <4>1. \A i \in 1..N : i <= head \/ i > tail => buf'[i] = buf[i]
        BY <2>2, <3>2, ChunkFacts DEF WriteTail, CopyInto
      <4>2. final # Open => Len(v) = 0
        BY <3>2, ChunkFacts
      <4>3. final # Open => buf' = buf
        BY <2>2, <3>2, <4>2, ChunkFacts, CopyNothing DEF WriteTail
      <4>4. QED
        BY <4>1, <4>3
    <3>3. QED
      BY <3>1, <3>2, ChunkFacts
  <2>3. CASE Finalize
    BY <2>3 DEF Finalize, Keep
  <2>4. CASE IsComplete
    BY <2>4 DEF IsComplete
  <2>5. QED
    BY <2>1, <2>2, <2>3, <2>4 DEF Next
<1>2. QED
  BY <1>1, InductiveInvariant, PTL DEF Spec, AcceptedBytesStay

-----------------------------------------------------------------------------

(* Refinement of TwoEndedStore.                                            *)

\* The refinement mapping, element by element.
Mapped ==
  /\ FrontData \in Seq(Byte) /\ BackData \in Seq(Byte)
  /\ final = Open => Len(FrontData) = head /\ Len(BackData) = N - tail
  /\ final # Open => Len(FrontData) = final /\ Len(BackData) = 0
  /\ \A i \in 1..Len(FrontData) : FrontData[i] = buf[i]
  /\ \A i \in 1..Len(BackData) : BackData[i] = buf[tail + i]

\* The two byte strings of the store are what is at either end of the buffer.
LEMMA MappedData == IInv => Mapped
<1> SUFFICES ASSUME IInv PROVE Mapped
  OBVIOUS
<1> USE WriterAssumption DEF IInv, TypeOK, EndsNeverCross, Open
<1>1. CASE final = Open
  <2>1. /\ SubSeq(buf, 1, head) \in Seq(Byte)
        /\ Len(SubSeq(buf, 1, head)) = head
        /\ \A i \in 1..head : SubSeq(buf, 1, head)[i] = buf[i]
    BY Window
  <2>2. /\ SubSeq(buf, tail + 1, N) \in Seq(Byte)
        /\ Len(SubSeq(buf, tail + 1, N)) = N - tail
        /\ \A i \in 1..N - tail : SubSeq(buf, tail + 1, N)[i] = buf[tail + i]
    <3>1. tail + 1 \in 1..N + 1 /\ N \in (tail + 1) - 1..N
      OBVIOUS
    <3>2. QED
      BY <3>1, Window
  <2>3. QED
    BY <1>1, <2>1, <2>2 DEF FrontData, BackData, Mapped
<1>2. CASE final # Open
  <2>1. /\ SubSeq(buf, 1, final) \in Seq(Byte)
        /\ Len(SubSeq(buf, 1, final)) = final
        /\ \A i \in 1..final : SubSeq(buf, 1, final)[i] = buf[i]
    BY <1>2, Window
  <2>2. QED
    BY <1>2, <2>1, EmptySeq DEF FrontData, BackData, Mapped
<1>3. QED
  BY <1>1, <1>2

\* The room of the mapped store is the gap between the ends.
LEMMA MappedRoom ==
  ASSUME IInv
  PROVE  Store!Room = tail - head
<1>1. /\ N \in Nat /\ head \in 0..N /\ tail \in 0..N
      /\ final # Open => head = tail
  BY WriterAssumption DEF IInv, TypeOK, EndsNeverCross
<1>2. final = Open => Len(FrontData) = head /\ Len(BackData) = N - tail
  BY MappedData DEF Mapped
<1>3. CASE final = Open
  <2>1. N - head - (N - tail) = tail - head
    BY <1>1
  <2>2. Store!Room = N - Len(FrontData) - Len(BackData)
    BY <1>3 DEF Store!Room
  <2>3. QED
    BY <1>2, <1>3, <2>1, <2>2
<1>4. CASE final # Open
  BY <1>1, <1>4 DEF Store!Room
<1>5. QED
  BY <1>3, <1>4

\* Sequences over Byte with the same elements are the same mapped data.
LEMMA SameBytes ==
  ASSUME NEW s \in Seq(Byte), NEW t \in Seq(Byte), Len(s) = Len(t),
         \A i \in 1..Len(s) : s[i] = t[i]
  PROVE  s = t
BY SeqEqual

\* Concatenation, element by element.
LEMMA Concat ==
  ASSUME NEW s \in Seq(Byte), NEW t \in Seq(Byte)
  PROVE  /\ s \o t \in Seq(Byte)
         /\ Len(s \o t) = Len(s) + Len(t)
         /\ \A i \in 1..Len(s) : (s \o t)[i] = s[i]
         /\ \A i \in 1..Len(t) : (s \o t)[Len(s) + i] = t[i]
<1>1. Len(s) \in Nat /\ Len(t) \in Nat
  BY LenProperties
<1>2. QED
  BY <1>1, ConcatProperties

\* A sequence that splits into the elements of s and then of t is s \o t.
LEMMA IsConcat ==
  ASSUME NEW r \in Seq(Byte), NEW s \in Seq(Byte), NEW t \in Seq(Byte),
         Len(r) = Len(s) + Len(t),
         \A i \in 1..Len(s) : r[i] = s[i],
         \A i \in 1..Len(t) : r[Len(s) + i] = t[i]
  PROVE  r = s \o t
<1>1. Len(s) \in Nat /\ Len(t) \in Nat
  BY LenProperties
<1>2. \A i \in 1..Len(r) : r[i] = (s \o t)[i]
  <2>1. SUFFICES ASSUME NEW i \in 1..Len(r) PROVE r[i] = (s \o t)[i]
    OBVIOUS
  <2>2. CASE i \in 1..Len(s)
    BY <2>2, Concat
  <2>3. CASE i - Len(s) \in 1..Len(t)
    <3>1. i = Len(s) + (i - Len(s))
      BY <1>1
    <3>2. QED
      BY <2>3, <3>1, Concat
  <2>4. QED
    BY <1>1, <2>2, <2>3
<1>3. QED
  BY <1>2, Concat, SameBytes

\* A call that leaves slice, offsets and phase alone leaves the data alone.
LEMMA UnchangedData ==
  ASSUME UNCHANGED <<buf, head, tail, final>>
  PROVE  UNCHANGED <<FrontData, BackData, final # Open>>
BY DEF FrontData, BackData

\* Writing an empty chunk adds nothing to either end.
LEMMA WriteNothing ==
  ASSUME IInv, NEW v \in Chunk, Len(v) = 0
  PROVE  FrontData \o v = FrontData /\ v \o BackData = BackData
<1>1. v = << >>
  BY ChunkFacts, EmptySeq
<1>2. QED
  BY <1>1, MappedData, ConcatEmptySeq DEF Mapped

\* A write of the writer is a write of the store, or refused by it.
LEMMA StoreWrite ==
  ASSUME IInv, Mapped, Mapped', NEW v \in Chunk, Write(v)
  PROVE  Store!PutFront(v) \/ Store!Refuse("write", v)
<1>1. Store!Room = tail - head
  BY MappedRoom
<1>2. /\ N \in Nat /\ head \in 0..N /\ tail \in 0..N /\ head <= tail
      /\ final # Open => head = tail
      /\ buf \in [1..N -> Byte]
      /\ Len(v) \in Nat /\ v \in Seq(Byte)
  BY WriterAssumption, ChunkFacts DEF IInv, TypeOK, EndsNeverCross
<1>3. CASE head + Len(v) > tail
  BY <1>1, <1>2, <1>3, UnchangedData DEF Write, Store!Refuse, Store!Reply, Reply
<1>4. CASE head + Len(v) <= tail
  <2>1. /\ buf' = CopyInto(head, v) /\ head' = head + Len(v)
        /\ tail' = tail /\ final' = final /\ ret' = Reply("write", "Ok", 0)
    BY <1>2, <1>4 DEF Write
  <2>2. CASE final = Open
    <3>1. /\ Len(FrontData) = head /\ Len(FrontData') = head + Len(v)
          /\ Len(BackData) = N - tail /\ Len(BackData') = N - tail
      BY <2>1, <2>2 DEF Mapped
    <3>2. FrontData' = FrontData \o v
      <4>1. \A i \in 1..Len(FrontData) : FrontData'[i] = FrontData[i]
        <5>1. SUFFICES ASSUME NEW i \in 1..head PROVE FrontData'[i] = FrontData[i]
          BY <3>1
        <5>2. FrontData'[i] = buf'[i] /\ FrontData[i] = buf[i]
          BY <1>2, <3>1 DEF Mapped
        <5>3. buf'[i] = buf[i]
          BY <1>2, <2>1 DEF CopyInto
        <5>4. QED
          BY <5>2, <5>3
      <4>2. \A i \in 1..Len(v) : FrontData'[Len(FrontData) + i] = v[i]
        <5>1. SUFFICES ASSUME NEW i \in 1..Len(v) PROVE FrontData'[head + i] = v[i]
          BY <3>1
        <5>2. FrontData'[head + i] = buf'[head + i]
          BY <1>2, <3>1 DEF Mapped
        <5>3. buf'[head + i] = v[i]
          <6>1. head + i \in 1..N /\ head + i \in head + 1..head + Len(v)
                /\ (head + i) - head = i
            BY <1>2, <1>4
          <6>2. QED
            BY <2>1, <6>1 DEF CopyInto
        <5>4. QED
          BY <5>2, <5>3
      <4>3. QED
        BY <1>2, <3>1, <4>1, <4>2, IsConcat DEF Mapped
    <3>3. BackData' = BackData
      <4>1. \A i \in 1..Len(BackData') : BackData'[i] = BackData[i]
        <5>1. SUFFICES ASSUME NEW i \in 1..N - tail PROVE BackData'[i] = BackData[i]
          BY <3>1
        <5>2. BackData'[i] = buf'[tail + i] /\ BackData[i] = buf[tail + i]
          BY <1>2, <2>1, <3>1 DEF Mapped
        <5>3. buf'[tail + i] = buf[tail + i]
          BY <1>2, <1>4, <2>1 DEF CopyInto
        <5>4. QED
          BY <5>2, <5>3
      <4>2. QED
        BY <3>1, <4>1, SameBytes DEF Mapped
    <3>4. QED
      BY <1>1, <1>2, <1>4, <2>1, <3>2, <3>3 DEF Store!PutFront, Store!Reply, Reply
  <2>3. CASE final # Open
    <3>1. Len(v) = 0
      BY <1>2, <1>4, <2>3
    <3>2. UNCHANGED <<buf, head, tail, final>>
      BY <1>2, <2>1, <3>1, CopyNothing
    <3>3. QED
      BY <1>1, <1>2, <1>4, <2>1, <3>1, <3>2, UnchangedData, WriteNothing
         DEF Store!PutFront, Store!Reply, Reply
  <2>4. QED
    BY <2>2, <2>3
<1>5. QED
  BY <1>2, <1>3, <1>4

\* So is a write at the tail.
LEMMA StoreWriteTail ==
  ASSUME IInv, Mapped, Mapped', NEW v \in Chunk, WriteTail(v)
  PROVE  Store!PutBack(v) \/ Store!Refuse("write_tail", v)
<1>1. Store!Room = tail - head
  BY MappedRoom
<1>2. /\ N \in Nat /\ head \in 0..N /\ tail \in 0..N /\ head <= tail
      /\ final # Open => head = tail
      /\ buf \in [1..N -> Byte]
      /\ Len(v) \in Nat /\ v \in Seq(Byte)
  BY WriterAssumption, ChunkFacts DEF IInv, TypeOK, EndsNeverCross
<1>3. CASE head + Len(v) > tail
  BY <1>1, <1>2, <1>3, UnchangedData DEF WriteTail, Store!Refuse, Store!Reply, Reply
<1>4. CASE head + Len(v) <= tail
  <2>1. /\ buf' = CopyInto(tail - Len(v), v) /\ head' = head
        /\ tail' = tail - Len(v) /\ final' = final
        /\ ret' = Reply("write_tail", "Ok", 0)
    BY <1>2, <1>4 DEF WriteTail
  <2>2. CASE final = Open
    <3>1. /\ Len(FrontData) = head /\ Len(FrontData') = head
          /\ Len(BackData) = N - tail /\ Len(BackData') = N - tail + Len(v)
      BY <1>2, <1>4, <2>1, <2>2 DEF Mapped
    <3>2. BackData' = v \o BackData
      <4>1. \A i \in 1..Len(v) : BackData'[i] = v[i]
        <5>1. SUFFICES ASSUME NEW i \in 1..Len(v) PROVE BackData'[i] = v[i]
          OBVIOUS
        <5>2. BackData'[i] = buf'[tail' + i]
          BY <1>2, <3>1 DEF Mapped
        <5>3. buf'[tail - Len(v) + i] = v[i]
          <6>1. /\ tail - Len(v) + i \in 1..N
                /\ tail - Len(v) + i \in (tail - Len(v)) + 1..(tail - Len(v)) + Len(v)
                /\ (tail - Len(v) + i) - (tail - Len(v)) = i
            BY <1>2, <1>4
          <6>2. QED
            BY <2>1, <6>1 DEF CopyInto
        <5>4. QED
          BY <2>1, <5>2, <5>3
      <4>2. \A i \in 1..Len(BackData) : BackData'[Len(v) + i] = BackData[i]
        <5>1. SUFFICES ASSUME NEW i \in 1..N - tail
                       PROVE  BackData'[Len(v) + i] = BackData[i]
          BY <3>1
        <5>2. Len(v) + i \in 1..N - tail + Len(v)
          BY <1>2
        <5>3. BackData'[Len(v) + i] = buf'[tail' + (Len(v) + i)]
          BY <3>1, <5>2 DEF Mapped
        <5>4. tail' + (Len(v) + i) = tail + i
          BY <1>2, <2>1
        <5>5. buf'[tail + i] = buf[tail + i]
          BY <1>2, <1>4, <2>1 DEF CopyInto
        <5>6. BackData[i] = buf[tail + i]
          BY <3>1 DEF Mapped
        <5>7. QED
          BY <5>3, <5>4, <5>5, <5>6
      <4>3. Len(BackData') = Len(v) + Len(BackData)
        BY <1>2, <3>1
      <4>4. QED
        BY <1>2, <4>1, <4>2, <4>3, IsConcat DEF Mapped
    <3>3. FrontData' = FrontData
      <4>1. \A i \in 1..Len(FrontData') : FrontData'[i] = FrontData[i]
        <5>1. SUFFICES ASSUME NEW i \in 1..head PROVE FrontData'[i] = FrontData[i]
          BY <3>1
        <5>2. FrontData'[i] = buf'[i] /\ FrontData[i] = buf[i]
          BY <3>1 DEF Mapped
        <5>3. buf'[i] = buf[i]
          BY <1>2, <1>4, <2>1 DEF CopyInto
        <5>4. QED
          BY <5>2, <5>3
      <4>2. QED
        BY <3>1, <4>1, SameBytes DEF Mapped
    <3>4. QED
      BY <1>1, <1>2, <1>4, <2>1, <3>2, <3>3 DEF Store!PutBack, Store!Reply, Reply
  <2>3. CASE final # Open
    <3>1. Len(v) = 0
      BY <1>2, <1>4, <2>3
    <3>2. UNCHANGED <<buf, head, tail, final>>
      BY <1>2, <2>1, <3>1, CopyNothing
    <3>3. QED
      BY <1>1, <1>2, <1>4, <2>1, <3>1, <3>2, UnchangedData, WriteNothing
         DEF Store!PutBack, Store!Reply, Reply
  <2>4. QED
    BY <2>2, <2>3
<1>5. QED
  BY <1>2, <1>3, <1>4

\* The first finalize joins the two ends, and a later one joins nothing.
LEMMA StoreFinalize ==
  ASSUME IInv, Mapped, Mapped', Finalize
  PROVE  Store!Join \/ Store!Rejoin
<1>1. /\ N \in Nat /\ head \in 0..N /\ tail \in 0..N /\ head <= tail
      /\ final # Open => head = tail
      /\ final = Open \/ final \in 0..N
      /\ buf \in [1..N -> Byte] /\ Open \notin 0..N
  BY WriterAssumption DEF IInv, TypeOK, EndsNeverCross, Open
<1>2. CASE final # Open
  <2>1. UNCHANGED <<buf, head, tail, final>> /\ ret' = Reply("finalize", "Ok", N)
    BY <1>1, <1>2 DEF Finalize, Keep
  <2>2. QED
    BY <1>2, <2>1, UnchangedData DEF Store!Rejoin, Store!Reply, Reply
<1>3. CASE final = Open
  <2>1. /\ final' = N - (tail - head) /\ tail' = tail
        /\ ret' = Reply("finalize", "Ok", N - (tail - head))
    BY <1>1, <1>3 DEF Finalize, Keep
  <2>2. final' # Open
    BY <1>1, <2>1
  <2>3. /\ Len(FrontData) = head /\ Len(BackData) = N - tail
        /\ Len(FrontData') = N - (tail - head) /\ Len(BackData') = 0
    BY <1>3, <2>1, <2>2 DEF Mapped
  <2>4. Len(FrontData') = Len(FrontData) + Len(BackData)
    BY <1>1, <2>3
  <2>5. /\ \A i \in 1..head : buf'[i] = buf[i]
        /\ \A i \in 1..N - tail : buf'[head + i] = buf[tail + i]
    <3>1. CASE head = tail
      BY <1>1, <3>1 DEF Finalize
    <3>2. CASE head # tail
      <4>1. buf' = CollapseGap
        BY <3>2 DEF Finalize
      <4>2. ASSUME NEW i \in 1..head PROVE buf'[i] = buf[i]
        BY <1>1, <4>1 DEF CollapseGap
      <4>3. ASSUME NEW i \in 1..N - tail PROVE buf'[head + i] = buf[tail + i]
        <5>1. /\ head + i \in 1..N /\ head + i \in head + 1..head + (N - tail)
              /\ (head + i) + (tail - head) = tail + i
          BY <1>1
        <5>2. QED
          BY <4>1, <5>1 DEF CollapseGap
      <4>4. QED
        BY <4>2, <4>3
    <3>3. QED
      BY <3>1, <3>2
  <2>6. \A i \in 1..Len(FrontData) : FrontData'[i] = FrontData[i]
    <3>1. SUFFICES ASSUME NEW i \in 1..head PROVE FrontData'[i] = FrontData[i]
      BY <2>3
    <3>2. i \in 1..N - (tail - head)
      BY <1>1
    <3>3. FrontData'[i] = buf'[i] /\ FrontData[i] = buf[i]
      BY <2>3, <3>2 DEF Mapped
    <3>4. QED
      BY <2>5, <3>3
  <2>7. \A i \in 1..Len(BackData) : FrontData'[Len(FrontData) + i] = BackData[i]
    <3>1. SUFFICES ASSUME NEW i \in 1..N - tail
                   PROVE  FrontData'[head + i] = BackData[i]
      BY <2>3
    <3>2. head + i \in 1..N - (tail - head)
      BY <1>1
    <3>3. FrontData'[head + i] = buf'[head + i] /\ BackData[i] = buf[tail + i]
      BY <2>3, <3>2 DEF Mapped
    <3>4. QED
      BY <2>5, <3>3
  <2>8. FrontData' = FrontData \o BackData
    BY <2>4, <2>6, <2>7, IsConcat DEF Mapped
  <2>9. BackData' = << >>
    BY <2>2 DEF BackData
  <2>10. N - (tail - head) = Len(FrontData) + Len(BackData)
    BY <1>1, <2>3
  <2>11. QED
    BY <1>3, <2>1, <2>2, <2>8, <2>9, <2>10 DEF Store!Join, Store!Reply, Reply
<1>4. QED
  BY <1>2, <1>3

\* is_complete asks the store whether it is full.
LEMMA StoreIsComplete ==
  ASSUME IInv, IsComplete
  PROVE  Store!AskComplete
<1>1. Store!Room = tail - head /\ head \in Int /\ tail \in Int
  BY MappedRoom, WriterAssumption DEF IInv, TypeOK
<1>2. Store!Room = 0 <=> head = tail
  BY <1>1
<1>3. QED
  BY <1>2, UnchangedData DEF IsComplete, Store!AskComplete, Store!Reply, Reply

\* A new writer is an empty store.
LEMMA StoreInit == Init => Store!Init
<1> SUFFICES ASSUME Init PROVE Store!Init
  OBVIOUS
<1>1. IInv /\ head = 0 /\ tail = N /\ final = Open
  BY InitIInv DEF Init
<1>2. /\ FrontData \in Seq(Byte) /\ BackData \in Seq(Byte)
      /\ Len(FrontData) = 0 /\ Len(BackData) = 0
  BY <1>1, MappedData, WriterAssumption DEF Mapped
<1>3. FrontData = << >> /\ BackData = << >>
  BY <1>2, EmptySeq
<1>4. QED
  BY <1>1, <1>3, WriterAssumption DEF Init, Store!Init, Store!Reply, Reply

\* DeBytesWriter implements the two-ended store: whatever the caller does, the
\* replies and the data it gets are those of TwoEndedStore.
THEOREM Refinement == Spec => ImplementsStore
<1>1. IInv /\ Mapped /\ Mapped' /\ [Next]_vars => [Store!Next]_(Store!vars)
  <2> SUFFICES ASSUME IInv, Mapped, Mapped', [Next]_vars
               PROVE  [Store!Next]_(Store!vars)
    OBVIOUS
  <2>1. ASSUME NEW v \in Chunk, Write(v)
        PROVE  Store!Next
    BY <2>1, StoreWrite DEF Store!Next
  <2>2. ASSUME NEW v \in Chunk, WriteTail(v)
        PROVE  Store!Next
    BY <2>2, StoreWriteTail DEF Store!Next
  <2>3. CASE Finalize
    BY <2>3, StoreFinalize DEF Store!Next
  <2>4. CASE IsComplete
    BY <2>4, StoreIsComplete DEF Store!Next
  <2>5. CASE UNCHANGED vars
    BY <2>5, UnchangedData DEF vars, Store!vars
  <2>6. QED
    BY <2>1, <2>2, <2>3, <2>4, <2>5 DEF Next
<1>2. QED
  BY <1>1, StoreInit, MappedData, InductiveInvariant, PTL DEF Spec, Store!Spec, ImplementsStore

=============================================================================
