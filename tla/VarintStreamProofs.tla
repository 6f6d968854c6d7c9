-------------------------- MODULE VarintStreamProofs --------------------------
(***************************************************************************)
(* What the integers of VarintStream keep, for every set of values, of     *)
(* followers and of raw inputs.                                            *)
(***************************************************************************)
EXTENDS VarintStream, DataFacts

\* The two calls of write that an encoding is made of.
FirstWrite == Writes(wtype, value)[1]
SecondWrite == Writes(wtype, value)[2]

Types ==
  /\ pc \in {"start", "writing", "written", "refused", "sliced", "reading",
             "rest", "done"}
  /\ wtype \in Type /\ rtype \in Type /\ debug \in BOOLEAN
  /\ value \in Word(wtype)
  /\ wire \in Seq(BitByte) /\ given \in Seq(BitByte) /\ slice \in Seq(BitByte)
  /\ input \in Seq(BitByte) /\ follow \in Seq(BitByte)

\* The buffer has taken none, one or both of the writes.
Taken ==
  \/ wire = << >> /\ pend = << >>
  \/ wire = << >> /\ pend = <<FirstWrite, SecondWrite>>
  \/ wire = FirstWrite /\ pend = <<SecondWrite>>
  \/ wire = Encoding(wtype, value) /\ pend = << >>

Progress ==
  /\ pc \in {"start", "sliced"} => wire = << >> /\ pend = << >>
  /\ pc = "writing" => pend # << >>
  /\ pc = "written" => wire = Encoding(wtype, value) /\ pend = << >>
  /\ pc \notin {"rest", "done"} => used = 0
  /\ pc # "done" => got = Failed("none")

\* The reader's first byte, when it has one, is the writer's.
SameFirst ==
  pc \in {"reading", "rest", "done"} /\ wire # << >> /\ input # << >> =>
    input[1] = Encoding(wtype, value)[1]

Reads ==
  /\ pc = "rest" =>
       input # << >> /\ used = 1 /\ LenAccepted(rtype, DecodedLen(input[1]))
  /\ pc = "done" =>
       /\ got = FromSlice(rtype, input, debug)
       /\ used = IF got.err = "Ok" THEN DecodedLen(input[1])
                 ELSE IF input = << >> THEN 0 ELSE 1

Slices ==
  pc = "sliced" /\ slice # << >> =>
    SliceFits(wtype, value, Len(given)) /\ slice = ToSlice(wtype, value, given)

VInv == Types /\ Taken /\ Progress /\ SameFirst /\ Reads /\ Slices

-----------------------------------------------------------------------------

\* varu_to_slice leaves bytes, whatever the slice held.
LEMMA ToSliceType ==
  ASSUME NEW u \in Type, NEW v \in Word(u), NEW g \in Seq(BitByte),
         SliceFits(u, v, Len(g))
  PROVE  ToSlice(u, v, g) \in Seq(BitByte)
<1>1. /\ u.bytes \in 4..8 /\ FullLen(u) = u.bytes + 1 /\ Len(g) \in Nat
      /\ EncodedLen(u, v) \in 1..FullLen(u)
  BY TypeSizes, LenProperties, Shortest DEF Sizes
<1>2. CASE EncodedLen(u, v) = FullLen(u)
  <2> DEFINE first == IF u = U32 THEN ByteOf(240) ELSE g[1]
             f == <<first>>
             b == LeBytes(u, v)
  <2>1. ToSlice(u, v, g) = f \o b
    BY <1>2 DEF ToSlice
  <2>2. 1 \in 1..Len(g)
    BY <1>1, <1>2 DEF SliceFits
  <2>3. first \in BitByte
    BY <2>2, ElementOfSeq, ByteBits
  <2> HIDE DEF first
  <2>4. f \in Seq(BitByte) /\ b \in Seq(BitByte)
    BY <2>3, LeBytesType
  <2> HIDE DEF f, b
  <2>5. f \o b \in Seq(BitByte)
    BY <2>4, ConcatProperties, Zenon
  <2>6. QED
    BY <2>1, <2>5
<1>3. CASE EncodedLen(u, v) # FullLen(u)
  <2> DEFINE b == LeBytes(u, Tagged(u, v, EncodedLen(u, v)))
             r == SubSeq(g, u.bytes + 1, Len(g))
  <2>1. ToSlice(u, v, g) = b \o r
    BY <1>3 DEF ToSlice
  <2>2. EncodedLen(u, v) \in 1..u.bytes /\ u.bytes <= Len(g) /\ u.bytes \in Nat
    BY <1>1, <1>3 DEF SliceFits
  <2>3. b \in Seq(BitByte) /\ r \in Seq(BitByte)
    BY <1>1, <2>2, TaggedType, LeBytesType, CutSeq
  <2> HIDE DEF b, r
  <2>4. b \o r \in Seq(BitByte)
    BY <2>3, ConcatProperties, Zenon
  <2>5. QED
    BY <2>1, <2>4
<1>4. QED
  BY <1>2, <1>3

\* The two calls of write, and what they make up together.
LEMMA TwoWrites ==
  ASSUME NEW u \in Type, NEW v \in Word(u)
  PROVE  LET w1 == Writes(u, v)[1]
             w2 == Writes(u, v)[2]
         IN /\ Writes(u, v) = <<w1, w2>> /\ Encoding(u, v) = w1 \o w2
            /\ w1 \in Seq(BitByte) /\ w2 \in Seq(BitByte) /\ Encoding(u, v) \in Seq(BitByte)
            /\ w1 # << >> /\ Encoding(u, v) # << >>
            /\ w1[1] = Encoding(u, v)[1]
            /\ Len(Encoding(u, v)) = EncodedLen(u, v)
<1>1. Writes(u, v) = <<Writes(u, v)[1], Writes(u, v)[2]>>
  BY DEF Writes
<1>2. Encoding(u, v) = Writes(u, v)[1] \o Writes(u, v)[2]
  BY DEF Encoding
<1>3. /\ Begins(Encoding(u, v), u, v) /\ Len(Encoding(u, v)) = EncodedLen(u, v)
      /\ Writes(u, v)[1] \in Seq(BitByte) /\ Writes(u, v)[2] \in Seq(BitByte)
      /\ Len(Writes(u, v)[1]) = 1
      /\ Writes(u, v)[1][1] = Encoding(u, v)[1]
  BY EncodingBegins
<1>4. Encoding(u, v) # << >>
  BY <1>3, BeginsFirst
<1>5. Encoding(u, v) \in Seq(BitByte)
  BY <1>3 DEF Begins
<1>6. Writes(u, v)[1] # << >>
  BY <1>3, EmptySeq
<1>7. QED
  BY <1>1, <1>2, <1>3, <1>4, <1>5, <1>6

\* Nothing is written or read at first.
LEMMA VarintInit == Init => VInv
<1> SUFFICES ASSUME Init PROVE VInv
  OBVIOUS
<1>1. U64 \in Type /\ [i \in 0..63 |-> 0] \in Word(U64)
  BY DEF Type, U64, Word, Width, Bit
<1>2. Types
  BY <1>1 DEF Init, Types
<1>3. QED
  BY <1>2 DEF Init, VInv, Taken, Progress, SameFirst, Reads, Slices

\* varu_to_writer sets out to make its two writes.
LEMMA EncodeKeeps ==
  ASSUME VInv, Encode
  PROVE  VInv'
<1>1. PICK u \in Type : \E v \in Value(u) :
        wtype' = u /\ value' = v /\ pend' = Writes(u, v)
  BY DEF Encode
<1>2. PICK v \in Value(u) : wtype' = u /\ value' = v /\ pend' = Writes(u, v)
  BY <1>1
<1>3. v \in Word(u)
  BY <1>2, ValueAssumption
<1>4. /\ pc = "start" /\ pc' = "writing"
      /\ wire' = wire /\ given' = given /\ slice' = slice
      /\ rtype' = rtype /\ debug' = debug /\ follow' = follow /\ input' = input
      /\ used' = used /\ got' = got
  BY DEF Encode, sliceVars, readerVars
<1>5. Types'
  BY <1>2, <1>3, <1>4 DEF VInv, Types
<1>6. /\ wire' = << >> /\ used' = 0 /\ got' = Failed("none")
  BY <1>4 DEF VInv, Progress
<1>7. pend' = <<FirstWrite', SecondWrite'>>
  BY <1>2, <1>3, TwoWrites DEF FirstWrite, SecondWrite
<1>8. pend' # << >>
  BY <1>7
<1>9. QED
  BY <1>4, <1>5, <1>6, <1>7, <1>8 DEF VInv, Taken, Progress, SameFirst, Reads, Slices

\* A write is taken whole and in order, or refused.
LEMMA WriteOneKeeps ==
  ASSUME VInv, WriteOne
  PROVE  VInv'
<1>1. /\ pc = "writing" /\ pend # << >>
      /\ wtype' = wtype /\ value' = value /\ given' = given /\ slice' = slice
      /\ rtype' = rtype /\ debug' = debug /\ follow' = follow /\ input' = input
      /\ used' = used /\ got' = got
  BY DEF WriteOne, sliceVars, readerVars
<1>2. FirstWrite' = FirstWrite /\ SecondWrite' = SecondWrite
  BY <1>1 DEF FirstWrite, SecondWrite
<1>3. /\ Encoding(wtype, value) = FirstWrite \o SecondWrite
      /\ FirstWrite \in Seq(BitByte) /\ Encoding(wtype, value) \in Seq(BitByte)
  BY TwoWrites DEF VInv, Types, FirstWrite, SecondWrite
<1>4. used' = 0 /\ got' = Failed("none")
  BY <1>1 DEF VInv, Progress
<1>5. /\ Types' <=> pc' \in {"written", "writing", "refused"} /\ wire' \in Seq(BitByte)
      /\ Taken' <=>
           \/ wire' = << >> /\ pend' = << >>
           \/ wire' = << >> /\ pend' = <<FirstWrite, SecondWrite>>
           \/ wire' = FirstWrite /\ pend' = <<SecondWrite>>
           \/ wire' = Encoding(wtype, value) /\ pend' = << >>
  <2>1. pc' \in {"written", "writing", "refused"}
    BY DEF WriteOne
  <2>2. QED
    BY <1>1, <1>2, <2>1 DEF VInv, Types, Taken
<1>6. CASE wire = << >> /\ pend = <<FirstWrite, SecondWrite>>
  <2>1. Head(pend) = FirstWrite /\ Tail(pend) = <<SecondWrite>> /\ Len(pend) = 2
    BY <1>6
  <2>2. << >> \o FirstWrite = FirstWrite
    BY <1>3, ConcatEmptySeq
  <2>3. \/ wire' = FirstWrite /\ pend' = <<SecondWrite>> /\ pc' = "writing"
        \/ wire' = wire /\ pend' = pend /\ pc' = "refused"
    BY <1>6, <2>1, <2>2 DEF WriteOne
  <2>4. Types' /\ Taken'
    BY <1>3, <1>5, <1>6, <2>3 DEF VInv, Types
  <2>5. QED
    BY <1>4, <2>3, <2>4 DEF VInv, Progress, SameFirst, Reads, Slices
<1>7. CASE wire = FirstWrite /\ pend = <<SecondWrite>>
  <2>1. Head(pend) = SecondWrite /\ Tail(pend) = << >> /\ Len(pend) = 1
    BY <1>7
  <2>2. \/ wire' = Encoding(wtype, value) /\ pend' = << >> /\ pc' = "written"
        \/ wire' = wire /\ pend' = pend /\ pc' = "refused"
    BY <1>3, <1>7, <2>1 DEF WriteOne
  <2>3. Types' /\ Taken'
    BY <1>3, <1>5, <1>7, <2>2 DEF VInv, Types
  <2>4. Encoding(wtype, value)' = Encoding(wtype, value)
    BY <1>1
  <2>5. QED
    BY <1>4, <2>2, <2>3, <2>4 DEF VInv, Progress, SameFirst, Reads, Slices
<1>8. QED
  BY <1>1, <1>6, <1>7 DEF VInv, Taken

\* varu_to_slice leaves what ToSlice says or panics.
LEMMA EncodeToSliceKeeps ==
  ASSUME VInv, EncodeToSlice
  PROVE  VInv'
<1> DEFINE Made(u, v, n, fill) ==
             /\ wtype' = u /\ value' = v
             /\ given' = [j \in 1..n |-> fill]
             /\ slice' = IF SliceFits(u, v, n) THEN ToSlice(u, v, given') ELSE << >>
<1>1. PICK u \in Type : \E v \in Value(u), n \in 0..FullLen(u), fill \in {Zero, ByteOf(255)} :
        Made(u, v, n, fill)
  BY DEF EncodeToSlice
<1>2. PICK v \in Value(u), n \in 0..FullLen(u), fill \in {Zero, ByteOf(255)} :
        Made(u, v, n, fill)
  BY <1>1
<1>3. v \in Word(u) /\ FullLen(u) \in Nat /\ n \in Nat
  BY <1>2, ValueAssumption, TypeSizes DEF Sizes
<1>4. given' \in Seq(BitByte) /\ Len(given') = n
  <2>1. fill \in BitByte
    BY ByteBits
  <2>2. given' \in [1..n -> BitByte]
    BY <1>2, <2>1
  <2>3. QED
    BY <1>2, <1>3, <2>2
<1>5. /\ pc = "start" /\ pc' = "sliced"
      /\ wire' = wire /\ pend' = pend
      /\ rtype' = rtype /\ debug' = debug /\ follow' = follow /\ input' = input
      /\ used' = used /\ got' = got
  BY DEF EncodeToSlice, readerVars
<1>6. slice' \in Seq(BitByte)
  BY <1>2, <1>3, <1>4, ToSliceType
<1>7. Types'
  BY <1>2, <1>3, <1>4, <1>5, <1>6 DEF VInv, Types
<1>8. wire' = << >> /\ pend' = << >> /\ used' = 0 /\ got' = Failed("none")
  BY <1>5 DEF VInv, Progress
<1>9. Slices'
  BY <1>2, <1>4 DEF Slices
<1>10. QED
  BY <1>5, <1>7, <1>8, <1>9 DEF VInv, Taken, Progress, SameFirst, Reads

\* What is delivered, cut off or followed by more, starts as what was written.
LEMMA DeliverKeeps ==
  ASSUME VInv, Deliver
  PROVE  VInv'
<1>1. /\ pc \in {"written", "refused"} /\ pc' = "reading"
      /\ wtype' = wtype /\ value' = value /\ given' = given /\ slice' = slice
      /\ wire' = wire /\ pend' = pend
      /\ rtype' \in Type /\ debug' \in BOOLEAN
      /\ used' = used /\ got' = got
  BY DEF Deliver, writerVars, sliceVars
<1>2. wire # << >> => wire[1] = Encoding(wtype, value)[1]
  BY TwoWrites DEF VInv, Types, Taken, FirstWrite, SecondWrite
<1>3. wire \in Seq(BitByte) /\ Len(wire) \in Nat
  BY LenProperties DEF VInv, Types
<1>4. /\ input' \in Seq(BitByte) /\ follow' \in Seq(BitByte)
      /\ wire # << >> /\ input' # << >> => input'[1] = wire[1]
  <2>1. CASE follow' \in Follower /\ input' = wire \o follow'
    <3>1. follow' \in Seq(BitByte)
      BY <2>1, ValueAssumption
    <3>2. /\ input' \in Seq(BitByte)
          /\ \A i \in 1..Len(wire) + Len(follow') :
               input'[i] = IF i <= Len(wire) THEN wire[i] ELSE follow'[i - Len(wire)]
      BY <1>3, <2>1, <3>1, ConcatProperties
    <3>3. Len(follow') \in Nat
      BY <3>1, LenProperties
    <3>4. wire # << >> => input'[1] = wire[1]
      <4>1. wire # << >> => Len(wire) # 0
        BY <1>3, EmptySeq
      <4>2. wire # << >> => 1 \in 1..Len(wire) + Len(follow') /\ 1 <= Len(wire)
        BY <1>3, <3>3, <4>1
      <4>3. QED
        BY <3>2, <4>2
    <3>5. QED
      BY <3>1, <3>2, <3>4
  <2>2. CASE \E n \in 0..Len(wire) - 1 : input' = SubSeq(wire, 1, n) /\ follow' = << >>
    <3>1. PICK n \in 0..Len(wire) - 1 : input' = SubSeq(wire, 1, n) /\ follow' = << >>
      BY <2>2
    <3> DEFINE m == Len(wire)
    <3>2. \A i \in 1..m : wire[i] \in BitByte
      BY <1>3, ElementOfSeq
    <3>3. m \in Nat /\ n \in 0..m - 1
      BY <1>3
    <3> HIDE DEF m
    <3>4. \A i \in 1..n : wire[i] \in BitByte
      BY <3>2, <3>3
    <3>5. /\ input' \in Seq(BitByte)
          /\ Len(input') = IF 1 <= n THEN n - 1 + 1 ELSE 0
          /\ \A i \in 1..n - 1 + 1 : input'[i] = wire[1 + i - 1]
      BY <3>1, <3>3, <3>4, SubSeqProperties
    <3>6. CASE n = 0
      <4>1. input' = << >>
        BY <3>5, <3>6, EmptySeq
      <4>2. QED
        BY <3>1, <3>5, <4>1
    <3>7. CASE n # 0
      <4>1. 1 \in 1..n - 1 + 1 /\ 1 + 1 - 1 = 1
        BY <3>3, <3>7
      <4>2. QED
        BY <3>1, <3>5, <4>1
    <3>8. QED
      BY <3>6, <3>7
  <2>3. QED
    BY <2>1, <2>2 DEF Deliver
<1>5. Types'
  BY <1>1, <1>4 DEF VInv, Types
<1>6. Taken'
  BY <1>1 DEF VInv, Taken, FirstWrite, SecondWrite
<1>7. used' = 0 /\ got' = Failed("none")
  BY <1>1 DEF VInv, Progress
<1>8. SameFirst'
  BY <1>1, <1>2, <1>4 DEF SameFirst
<1>9. QED
  BY <1>1, <1>5, <1>6, <1>7, <1>8 DEF VInv, Progress, Reads, Slices

\* Bytes that no writer produced come from no write.
LEMMA CorruptKeeps ==
  ASSUME VInv, Corrupt
  PROVE  VInv'
<1>1. /\ pc = "start" /\ pc' = "reading"
      /\ wtype' = wtype /\ value' = value /\ given' = given /\ slice' = slice
      /\ wire' = wire /\ pend' = pend /\ follow' = follow
      /\ input' \in RawInput /\ rtype' \in Type /\ debug' \in BOOLEAN
      /\ used' = used /\ got' = got
  BY DEF Corrupt, writerVars, sliceVars
<1>2. Types'
  BY <1>1, ValueAssumption DEF VInv, Types
<1>3. wire' = << >> /\ pend' = << >> /\ used' = 0 /\ got' = Failed("none")
  BY <1>1 DEF VInv, Progress
<1>4. QED
  BY <1>1, <1>2, <1>3 DEF VInv, Taken, Progress, SameFirst, Reads, Slices

\* The first read answers at once only as varu_from_slice would.
LEMMA ReadFirstKeeps ==
  ASSUME VInv, ReadFirst
  PROVE  VInv'
<1>1. /\ pc = "reading" /\ pc' \in {"rest", "done"}
      /\ wtype' = wtype /\ value' = value /\ given' = given /\ slice' = slice
      /\ wire' = wire /\ pend' = pend /\ follow' = follow
      /\ input' = input /\ rtype' = rtype /\ debug' = debug
  BY DEF ReadFirst, writerVars, sliceVars
<1>2. Types'
  BY <1>1 DEF VInv, Types
<1>3. Taken' /\ SameFirst'
  BY <1>1 DEF VInv, Taken, FirstWrite, SecondWrite, SameFirst
<1>4. used = 0 /\ got = Failed("none")
  BY <1>1 DEF VInv, Progress
<1>5. CASE input = << >>
  <2>1. got' = Failed("PrematureEndOfInput") /\ pc' = "done" /\ used' = 0
    BY <1>4, <1>5 DEF ReadFirst
  <2>2. got' = FromSlice(rtype, input, debug) /\ got'.err # "Ok"
    BY <1>5, <2>1 DEF FromSlice, Failed, Decoded
  <2>3. QED
    BY <1>1, <1>2, <1>3, <1>5, <2>1, <2>2 DEF VInv, Progress, Reads, Slices
<1>6. CASE input # << >> /\ LenAccepted(rtype, DecodedLen(input[1]))
  <2>1. pc' = "rest" /\ used' = 1 /\ got' = got
    BY <1>6 DEF ReadFirst
  <2>2. QED
    BY <1>1, <1>2, <1>3, <1>4, <1>6, <2>1 DEF VInv, Progress, Reads, Slices
<1>7. CASE input # << >> /\ ~LenAccepted(rtype, DecodedLen(input[1]))
  <2>1. pc' = "done" /\ used' = 1 /\ got' = Failed("InvalidVarintEncoding")
    BY <1>7 DEF ReadFirst
  <2>2. got' = FromSlice(rtype, input, debug)
    BY <1>7, <2>1 DEF FromSlice
  <2>3. got'.err # "Ok"
    BY <2>1 DEF Failed, Decoded
  <2>4. QED
    BY <1>1, <1>2, <1>3, <1>7, <2>1, <2>2, <2>3 DEF VInv, Progress, Reads, Slices
<1>8. QED
  BY <1>5, <1>6, <1>7

\* Reading the rest alone or reading the whole slice is the same.
LEMMA RestIsSlice ==
  ASSUME NEW r \in Type, NEW s \in Seq(BitByte), s # << >>, NEW d \in BOOLEAN,
         LenAccepted(r, DecodedLen(s[1]))
  PROVE  LET len == DecodedLen(s[1])
         IN FromSlice(r, s, d) =
              IF Len(s) < len THEN Failed("PrematureEndOfInput")
              ELSE Decode(r, len, s[1], SubSeq(s, 2, len), d)
<1> DEFINE len == DecodedLen(s[1])
           n == Len(s)
           all == SubSeq(s, 2, n)
           rest == SubSeq(s, 2, len)
           first == s[1]
<1>1. /\ all \in Seq(BitByte) /\ Len(all) = n - 1 /\ n - 1 \in Nat
      /\ \A i \in 1..n - 1 : all[i] = s[i + 1]
      /\ first \in BitByte /\ n \in Nat
  BY AfterFirst, LenProperties
<1>2. r.bytes \in 4..8 /\ FullLen(r) = r.bytes + 1 /\ len \in 1..9 /\ len <= FullLen(r)
  BY <1>1, TypeSizes, FirstByte DEF Sizes, LenAccepted
<1>3. FromSlice(r, s, d) = Decode(r, len, first, all, d)
  BY DEF FromSlice
<1>4. CASE n < len
  <2> HIDE DEF all, len, n
  <2>1. Len(all) + 1 < len
    BY <1>1, <1>4
  <2>2. Decode(r, len, first, all, d) = Failed("PrematureEndOfInput")
    BY <2>1 DEF Decode
  <2>3. QED
    BY <1>3, <1>4, <2>2 DEF n, len
<1>5. CASE ~(n < len)
  <2> HIDE DEF all, first
  <2>1. \A i \in 2..len : s[i] \in BitByte
    BY <1>1, <1>2, <1>5, ElementOfSeq
  <2> HIDE DEF len
  <2>2. /\ rest \in Seq(BitByte) /\ Len(rest) = IF 2 <= len THEN len - 2 + 1 ELSE 0
        /\ \A i \in 1..len - 2 + 1 : rest[i] = s[2 + i - 1]
    BY <1>2, <2>1, SubSeqProperties
  <2> HIDE DEF rest, n
  <2>3. Len(rest) = len - 1 /\ \A i \in 1..len - 1 : rest[i] = s[i + 1]
    <3>1. /\ (IF 2 <= len THEN len - 2 + 1 ELSE 0) = len - 1
          /\ \A i \in 1..len - 1 : i \in 1..len - 2 + 1 /\ 2 + i - 1 = i + 1
      BY <1>2
    <3>2. QED
      BY <2>2, <3>1
  <2>4. /\ len \in 1..FullLen(r) /\ Len(all) \in Nat /\ Len(rest) \in Nat
        /\ len <= Len(all) + 1 /\ len <= Len(rest) + 1
        /\ \A i \in 1..len - 1 : i \in 1..n - 1
    BY <1>1, <1>2, <1>5, <2>3
  <2>5. \A i \in 1..len - 1 : all[i] = rest[i]
    BY <1>1, <2>3, <2>4
  <2>6. Decode(r, len, first, all, d) = Decode(r, len, first, rest, d)
    BY <2>4, <2>5, DecodeSame
  <2>7. QED
    BY <1>3, <1>5, <2>6 DEF rest, n, len, first
<1>6. QED
  BY <1>4, <1>5

\* The second read answers as varu_from_slice would, and consumes only then.
LEMMA ReadRestKeeps ==
  ASSUME VInv, ReadRest
  PROVE  VInv'
<1>1. /\ pc = "rest" /\ pc' = "done"
      /\ wtype' = wtype /\ value' = value /\ given' = given /\ slice' = slice
      /\ wire' = wire /\ pend' = pend /\ follow' = follow
      /\ input' = input /\ rtype' = rtype /\ debug' = debug
  BY DEF ReadRest, writerVars, sliceVars
<1>2. Types'
  BY <1>1 DEF VInv, Types
<1>3. Taken' /\ SameFirst'
  BY <1>1 DEF VInv, Taken, FirstWrite, SecondWrite, SameFirst
<1>4. /\ input # << >> /\ LenAccepted(rtype, DecodedLen(input[1]))
      /\ rtype \in Type /\ input \in Seq(BitByte) /\ debug \in BOOLEAN
  BY <1>1 DEF VInv, Reads, Types
<1>5. got' = FromSlice(rtype, input, debug)
  BY <1>4, RestIsSlice DEF ReadRest
<1>6. used' = IF got'.err = "Ok" THEN DecodedLen(input[1]) ELSE 1
  BY DEF ReadRest
<1>7. QED
  BY <1>1, <1>2, <1>3, <1>4, <1>5, <1>6 DEF VInv, Progress, Reads, Slices

\* VInv holds in every state of the stream.
LEMMA VarintInvariant == Spec => []VInv
<1>1. ASSUME VInv, [Next]_vars
      PROVE  VInv'
  <2>1. CASE Encode
    BY <1>1, <2>1, EncodeKeeps
  <2>2. CASE WriteOne
    BY <1>1, <2>2, WriteOneKeeps
  <2>3. CASE EncodeToSlice
    BY <1>1, <2>3, EncodeToSliceKeeps
  <2>4. CASE Deliver
    BY <1>1, <2>4, DeliverKeeps
  <2>5. CASE Corrupt
    BY <1>1, <2>5, CorruptKeeps
  <2>6. CASE ReadFirst
    BY <1>1, <2>6, ReadFirstKeeps
  <2>7. CASE ReadRest
    BY <1>1, <2>7, ReadRestKeeps
  <2>8. CASE UNCHANGED vars
    BY <1>1, <2>8 DEF VInv, Types, Taken, Progress, SameFirst, Reads, Slices,
         FirstWrite, SecondWrite, vars, writerVars, readerVars, sliceVars
  <2>9. QED
    BY <1>1, <2>1, <2>2, <2>3, <2>4, <2>5, <2>6, <2>7, <2>8 DEF Next
<1>2. QED
  BY <1>1, VarintInit, PTL DEF Spec
-----------------------------------------------------------------------------

\* A whole encoding in front of the reader begins its input.
LEMMA IntactBegins ==
  ASSUME VInv, Intact
  PROVE  /\ Begins(input, wtype, value) /\ wire = Encoding(wtype, value)
         /\ Len(wire) = EncodedLen(wtype, value)
<1>1. wire = Encoding(wtype, value)
  BY DEF VInv, Taken, Intact
<1>2. /\ wtype \in Type /\ value \in Word(wtype) /\ input \in Seq(BitByte)
      /\ wire \in Seq(BitByte) /\ follow \in Seq(BitByte) /\ input = wire \o follow
  BY DEF VInv, Types, Intact
<1>3. Begins(wire, wtype, value) /\ Len(wire) = EncodedLen(wtype, value)
  BY <1>1, <1>2, EncodingBegins
<1>4. /\ wtype.bytes \in 4..8 /\ FullLen(wtype) = wtype.bytes + 1
      /\ EncodedLen(wtype, value) \in 1..FullLen(wtype)
  BY <1>2, TypeSizes, Shortest DEF Sizes
<1>5. /\ Len(input) = Len(wire) + Len(follow) /\ Len(follow) \in Nat
      /\ \A i \in 1..Len(wire) + Len(follow) :
           input[i] = IF i <= Len(wire) THEN wire[i] ELSE follow[i - Len(wire)]
  BY <1>2, ConcatProperties, LenProperties
<1> DEFINE len == EncodedLen(wtype, value)
<1> HIDE DEF len
<1>6. Len(wire) = len /\ len \in 1..FullLen(wtype)
  BY <1>3, <1>4 DEF len
<1>7. \A i \in 1..len : input[i] = wire[i]
  BY <1>4, <1>5, <1>6
<1>8. Len(input) >= len
  BY <1>4, <1>5, <1>6
<1>9. CASE len = FullLen(wtype)
  <2>1. 1 \in 1..len /\ \A j \in 1..wtype.bytes : j + 1 \in 1..len
    BY <1>4, <1>9
  <2>2. /\ DecodedLen(input[1]) = FullLen(wtype)
        /\ \A j \in 1..wtype.bytes : input[j + 1] = LeBytes(wtype, value)[j]
    BY <1>3, <1>7, <1>9, <2>1 DEF Begins, len
  <2>3. QED
    BY <1>1, <1>2, <1>3, <1>8, <1>9, <2>2 DEF Begins, len
<1>10. CASE len # FullLen(wtype)
  <2>1. \A j \in 1..len : wire[j] = LeBytes(wtype, Tagged(wtype, value, len))[j]
    BY <1>3, <1>10 DEF Begins, len
  <2>2. \A j \in 1..len : input[j] = LeBytes(wtype, Tagged(wtype, value, len))[j]
    BY <1>7, <2>1
  <2>3. QED
    BY <1>1, <1>2, <1>3, <1>8, <1>10, <2>2 DEF Begins, len
<1>11. QED
  BY <1>9, <1>10

\* The type invariant, from the varu_to_writer of any value to the
\* varu_from_reader of any input.
THEOREM VarintTypeCorrect == Spec => []TypeOK
<1>1. ASSUME VInv PROVE TypeOK
  <2>1. /\ input \in Seq(BitByte) /\ Len(input) \in Nat /\ rtype \in Type /\ debug \in BOOLEAN
    BY <1>1, LenProperties DEF VInv, Types
  <2>2. input # << >> => 1 <= Len(input)
    <3>1. input # << >> => Len(input) # 0
      BY <2>1, EmptySeq
    <3>2. QED
      BY <2>1, <3>1
  <2>3. /\ used \in 0..Len(input)
        /\ got.err \in {"none", "PrematureEndOfInput", "InvalidVarintEncoding", "Ok"}
        /\ got.err = "Ok" => got.val \in Word(rtype)
    <3>1. CASE pc = "done"
      <4>1. /\ got = FromSlice(rtype, input, debug)
            /\ used = IF got.err = "Ok" THEN DecodedLen(input[1])
                      ELSE IF input = << >> THEN 0 ELSE 1
        BY <1>1, <3>1 DEF VInv, Reads
      <4>2. /\ got.err \in {"PrematureEndOfInput", "InvalidVarintEncoding", "Ok"}
            /\ got.err = "Ok" =>
                 /\ DecodedLen(input[1]) \in 1..FullLen(rtype)
                 /\ DecodedLen(input[1]) <= Len(input)
                 /\ got.val \in Word(rtype)
        BY <2>1, <4>1, FromSliceType
      <4>3. FullLen(rtype) \in Nat
        BY <2>1, TypeSizes DEF Sizes
      <4>4. used \in 0..Len(input)
        BY <2>1, <2>2, <4>1, <4>2, <4>3
      <4>5. QED
        BY <4>2, <4>4
    <3>2. CASE pc # "done"
      <4>1. got.err = "none"
        BY <1>1, <3>2 DEF VInv, Progress, Failed, Decoded
      <4>2. used \in 0..Len(input)
        <5>1. CASE pc = "rest"
          BY <1>1, <2>1, <2>2, <5>1 DEF VInv, Reads
        <5>2. CASE pc # "rest"
          BY <1>1, <2>1, <3>2, <5>2 DEF VInv, Progress
        <5>3. QED
          BY <5>1, <5>2
      <4>3. QED
        BY <4>1, <4>2
    <3>3. QED
      BY <3>1, <3>2
  <2>4. QED
    BY <1>1, <2>3 DEF VInv, Types, TypeOK
<1>2. QED
  BY <1>1, VarintInvariant, PTL

\* A value that varu_to_writer wrote whole is read back by varu_from_reader,
\* which stops exactly behind it, whatever follows.
THEOREM ReadsBack == Spec => []RoundTrip
<1>1. ASSUME VInv PROVE RoundTrip
  <2>1. SUFFICES ASSUME pc = "done", Intact, rtype = wtype
                 PROVE  got = Decoded("Ok", value) /\ used = Len(wire)
    BY DEF RoundTrip
  <2>2. Begins(input, wtype, value) /\ Len(wire) = EncodedLen(wtype, value)
    BY <1>1, <2>1, IntactBegins
  <2>3. wtype \in Type /\ value \in Word(wtype) /\ debug \in BOOLEAN
    BY <1>1 DEF VInv, Types
  <2>4. FromSlice(wtype, input, debug) = Decoded("Ok", value)
    BY <2>2, <2>3, FromSliceBegins
  <2>5. DecodedLen(input[1]) = EncodedLen(wtype, value)
    BY <2>2, <2>3, BeginsFirst
  <2>6. /\ got = FromSlice(rtype, input, debug)
        /\ used = IF got.err = "Ok" THEN DecodedLen(input[1])
                  ELSE IF input = << >> THEN 0 ELSE 1
    BY <1>1, <2>1 DEF VInv, Reads
  <2>7. got = Decoded("Ok", value)
    BY <2>1, <2>4, <2>6
  <2>8. got.err = "Ok"
    BY <2>7 DEF Decoded
  <2>9. QED
    BY <2>2, <2>5, <2>6, <2>7, <2>8
<1>2. QED
  BY <1>1, VarintInvariant, PTL

\* What varu_to_writer leaves in the buffer has the length that the table
\* gives, and no byte fewer would hold the bits of the value.
THEOREM WritesShortest == Spec => []ShortestForm
<1>1. ASSUME VInv PROVE ShortestForm
  <2>1. SUFFICES ASSUME pc = "written"
                 PROVE  /\ Len(wire) = EncodedLen(wtype, value)
                        /\ \A n \in 1..FullLen(wtype) - 1 :
                             Len(wire) <= n <=> \A i \in 7 * n..Width(wtype) - 1 : value[i] = 0
    BY DEF ShortestForm
  <2>2. wtype \in Type /\ value \in Word(wtype) /\ wire = Encoding(wtype, value)
    BY <1>1, <2>1 DEF VInv, Types, Progress
  <2>3. Len(wire) = EncodedLen(wtype, value)
    BY <2>2, TwoWrites
  <2>4. \A n \in 1..wtype.bytes : EncodedLen(wtype, value) <= n <=> Below(value, 7 * n, Width(wtype))
    BY <2>2, Shortest
  <2>5. FullLen(wtype) - 1 = wtype.bytes
    BY <2>2, TypeSizes DEF Sizes
  <2>6. QED
    BY <2>3, <2>4, <2>5 DEF Below
<1>2. QED
  BY <1>1, VarintInvariant, PTL

\* Of a value that was torn between the two writes or cut off anywhere the
\* reader says that the input ended, never that there is another value.
THEOREM RefusesTorn == Spec => []TornIsRefused
<1>1. ASSUME VInv PROVE TornIsRefused
  <2>1. SUFFICES ASSUME pc = "done", wire # << >>, rtype = wtype,
                        Len(input) < EncodedLen(wtype, value)
                 PROVE  got.err = "PrematureEndOfInput"
    BY DEF TornIsRefused
  <2>2. /\ wtype \in Type /\ value \in Word(wtype) /\ debug \in BOOLEAN
        /\ input \in Seq(BitByte)
    BY <1>1 DEF VInv, Types
  <2>3. CASE input = << >>
    <3>1. FromSlice(wtype, input, debug) = Failed("PrematureEndOfInput")
      BY <2>3 DEF FromSlice
    <3>2. QED
      BY <1>1, <2>1, <3>1 DEF VInv, Reads, Failed, Decoded
  <2>4. CASE input # << >>
    <3>1. input[1] = Encoding(wtype, value)[1]
      BY <1>1, <2>1, <2>4 DEF VInv, SameFirst
    <3>2. DecodedLen(input[1]) = EncodedLen(wtype, value)
      BY <2>2, <3>1, EncodingBegins, BeginsFirst
    <3>3. LenAccepted(wtype, DecodedLen(input[1]))
      <4>1. EncodedLen(wtype, value) \in 1..FullLen(wtype) /\ FullLen(wtype) \in Nat
        BY <2>2, Shortest, TypeSizes DEF Sizes
      <4>2. QED
        BY <3>2, <4>1 DEF LenAccepted
    <3>4. FromSlice(wtype, input, debug) = Failed("PrematureEndOfInput")
      BY <2>1, <2>2, <2>4, <3>2, <3>3, RestIsSlice
    <3>5. got = Failed("PrematureEndOfInput")
      BY <1>1, <2>1, <3>4 DEF VInv, Reads
    <3>6. QED
      BY <3>5 DEF Failed, Decoded
  <2>5. QED
    BY <2>3, <2>4
<1>2. QED
  BY <1>1, VarintInvariant, PTL

\* Reader and writer of different widths agree on every form of at most four
\* bytes: the bits that both words have are those of the value.
THEOREM WidthsAgree == Spec => []ShortFormsAgree
<1>1. ASSUME VInv PROVE ShortFormsAgree
  <2>1. SUFFICES ASSUME pc = "done", Intact, Len(wire) <= 4
                 PROVE  /\ got.err = "Ok" /\ used = Len(wire)
                        /\ \A i \in 0..31 : got.val[i] = value[i]
    BY DEF ShortFormsAgree
  <2> DEFINE len == EncodedLen(wtype, value)
  <2>2. Begins(input, wtype, value) /\ Len(wire) = len
    BY <1>1, <2>1, IntactBegins
  <2>3. /\ wtype \in Type /\ rtype \in Type /\ value \in Word(wtype) /\ debug \in BOOLEAN
    BY <1>1 DEF VInv, Types
  <2>4. /\ wtype.bytes \in 4..8 /\ rtype.bytes \in 4..8
        /\ Width(rtype) = 8 * rtype.bytes /\ Width(wtype) = 8 * wtype.bytes
        /\ FullLen(wtype) = wtype.bytes + 1
        /\ len \in 1..FullLen(wtype)
    BY <2>3, TypeSizes, Shortest DEF Sizes
  <2>5. len <= wtype.bytes /\ len <= rtype.bytes /\ len \in 1..wtype.bytes
    BY <2>1, <2>2, <2>4
  <2>6. FromSlice(rtype, input, debug) = Decoded("Ok", Resized(rtype, value, len))
    BY <2>2, <2>3, <2>5, FromSliceOther
  <2>7. DecodedLen(input[1]) = len
    BY <2>2, <2>3, BeginsFirst
  <2>8. Below(value, 7 * len, Width(wtype))
    <3>1. EncodedLen(wtype, value) <= len
      BY <2>4
    <3>2. QED
      BY <2>3, <2>5, <3>1, Shortest
  <2> HIDE DEF len
  <2>9. ASSUME NEW i \in 0..31
        PROVE  Resized(rtype, value, len)[i] = value[i]
    <3>1. i \in 0..Width(rtype) - 1 /\ i \in 0..Width(wtype) - 1
      BY <2>4
    <3>2. Resized(rtype, value, len)[i] = IF i < 7 * len THEN value[i] ELSE 0
      BY <3>1 DEF Resized
    <3>3. ~(i < 7 * len) => value[i] = 0
      BY <2>4, <2>8, <3>1 DEF Below
    <3>4. QED
      BY <3>2, <3>3
  <2>10. /\ got = FromSlice(rtype, input, debug)
         /\ used = IF got.err = "Ok" THEN DecodedLen(input[1])
                   ELSE IF input = << >> THEN 0 ELSE 1
    BY <1>1, <2>1 DEF VInv, Reads
  <2>11. got = Decoded("Ok", Resized(rtype, value, len))
    BY <2>6, <2>10
  <2>12. got.err = "Ok" /\ got.val = Resized(rtype, value, len)
    <3> DEFINE w == Resized(rtype, value, len)
    <3>1. got = Decoded("Ok", w)
      BY <2>11
    <3> HIDE DEF w
    <3>2. got.err = "Ok" /\ got.val = w
      BY <3>1 DEF Decoded
    <3>3. QED
      BY <3>2 DEF w
  <2>13. QED
    BY <2>2, <2>7, <2>9, <2>10, <2>12
<1>2. QED
  BY <1>1, VarintInvariant, PTL

\* With debug assertions the u64 reader accepts, of all byte strings, only the
\* one its writer would have produced for the value.
THEOREM DebugIsCanonical == Spec => []DebugReaderIsCanonical
<1>1. ASSUME VInv PROVE DebugReaderIsCanonical
  <2>1. SUFFICES ASSUME pc = "done", got.err = "Ok", rtype = U64, debug
                 PROVE  SubSeq(input, 1, used) = Encoding(U64, got.val)
    BY DEF DebugReaderIsCanonical
  <2>2. input \in Seq(BitByte) /\ debug = TRUE /\ U64 \in Type
    BY <1>1, <2>1 DEF VInv, Types, Type
  <2>3. got = FromSlice(U64, input, TRUE) /\ used = DecodedLen(input[1])
    BY <1>1, <2>1, <2>2 DEF VInv, Reads
  <2>4. got = Decoded("Ok", got.val)
    BY <2>1, <2>2, <2>3, FromSliceType
  <2>5. /\ got.val \in Word(U64) /\ Begins(input, U64, got.val)
        /\ DecodedLen(input[1]) = EncodedLen(U64, got.val)
    BY <2>2, <2>3, <2>4, AcceptedBegins
  <2>6. ~(U64 = U32 /\ EncodedLen(U64, got.val) = FullLen(U64))
    BY DEF U64, U32
  <2>7. QED
    BY <2>2, <2>3, <2>5, <2>6, BeginsSame
<1>2. QED
  BY <1>1, VarintInvariant, PTL

\* varu_from_reader, which reads twice, answers as varu_from_slice does.
THEOREM ReadersAgree == Spec => []SliceReaderAgrees
<1>1. ASSUME VInv PROVE SliceReaderAgrees
  BY <1>1 DEF VInv, Reads, SliceReaderAgrees
<1>2. QED
  BY <1>1, VarintInvariant, PTL

\* What varu_to_slice leaves in a slice it fits is read back from there.
THEOREM SlicesReadBack == Spec => []SliceReadsBack
<1>1. ASSUME VInv PROVE SliceReadsBack
  <2>1. SUFFICES ASSUME pc = "sliced", slice # << >>,
                        wtype = U64 /\ EncodedLen(U64, value) = FullLen(U64) => given[1] = Zero,
                        NEW d \in BOOLEAN
                 PROVE  FromSlice(wtype, slice, d) = Decoded("Ok", value)
    BY DEF SliceReadsBack
  <2>2. wtype \in Type /\ value \in Word(wtype) /\ given \in Seq(BitByte)
    BY <1>1 DEF VInv, Types
  <2>3. SliceFits(wtype, value, Len(given)) /\ slice = ToSlice(wtype, value, given)
    BY <1>1, <2>1 DEF VInv, Slices
  <2>4. wtype = U64 /\ EncodedLen(wtype, value) = FullLen(wtype) => given[1] = Zero
    BY <2>1
  <2>5. Begins(slice, wtype, value)
    BY <2>2, <2>3, <2>4, ToSliceBegins
  <2>6. QED
    BY <2>2, <2>5, FromSliceBegins
<1>2. QED
  BY <1>1, VarintInvariant, PTL

=============================================================================
