-------------------------- MODULE SerializerProofs --------------------------
(***************************************************************************)
(* Proofs about Serializer, for every set of values, every type of lengths *)
(* and every room: what a call is sized at is what it writes, the vector   *)
(* is neither too small nor too large, and the entry points implement      *)
(* SerializeApi.                                                           *)
(***************************************************************************)
EXTENDS Serializer, DataFacts

(* The abstract specification has its own instance of the format.          *)

\* The numbers, words and bytes of the abstract specification are those of the
\* model: each instance of the format has its own copy of the operators.
LEMMA ApiNumbers ==
  /\ \A n : Api!ByteOf(n) = ByteOf(n)
  /\ \A u, n : Api!WordOf(u, n) = WordOf(u, n)
  /\ \A u : Api!Width(u) = Width(u) /\ Api!FullLen(u) = FullLen(u)
  /\ Api!U32 = U32 /\ Api!Zero = Zero /\ Api!BitByte = BitByte
<1>1. \A n : Api!ByteOf(n) = ByteOf(n)
  BY DEF Api!ByteOf, ByteOf, Api!Weight, Weight
<1>2. \A u : Api!Width(u) = Width(u) /\ Api!FullLen(u) = FullLen(u)
  BY DEF Api!Width, Width, Api!FullLen, FullLen
<1>3. \A u, n : Api!WordOf(u, n) = WordOf(u, n)
  BY <1>1, <1>2 DEF Api!WordOf, WordOf, Api!Place, Place
<1>4. Api!U32 = U32 /\ Api!Zero = Zero /\ Api!BitByte = BitByte
  BY <1>1 DEF Api!U32, U32, Api!LENGTHS32, LENGTHS32, Api!Zero, Zero, Api!BitByte, BitByte, Api!Bit, Bit
<1>5. QED
  BY <1>1, <1>2, <1>3, <1>4

\* So are the varints.
LEMMA ApiEncoding == \A u, v : Api!Encoding(u, v) = Encoding(u, v)
<1>1. \A u, v : Api!EncodedLen(u, v) = EncodedLen(u, v)
  BY DEF Api!EncodedLen, EncodedLen, Api!LeadingZeros, LeadingZeros, Api!Width, Width, Api!Max, Max
<1>2. \A u, v, n : Api!Tagged(u, v, n) = Tagged(u, v, n)
  BY DEF Api!Tagged, Tagged, Api!Width, Width
<1>3. \A u, v : Api!LeBytes(u, v) = LeBytes(u, v)
  BY DEF Api!LeBytes, LeBytes
<1>4. ASSUME NEW u, NEW v, NEW s
      PROVE  Api!ToSlice(u, v, s) = ToSlice(u, v, s)
  <2>1. Api!ToSlice(u, v, s) =
          IF EncodedLen(u, v) = FullLen(u)
          THEN <<IF u = U32 THEN ByteOf(240) ELSE s[1]>> \o LeBytes(u, v)
          ELSE LeBytes(u, Tagged(u, v, EncodedLen(u, v))) \o SubSeq(s, u.bytes + 1, Len(s))
    BY <1>1, <1>2, <1>3, ApiNumbers, Zenon DEF Api!ToSlice
  <2>2. QED
    BY <2>1, Zenon DEF ToSlice
<1>5. ASSUME NEW u, NEW v PROVE Api!Writes(u, v) = Writes(u, v)
  BY <1>1, <1>4, ApiNumbers DEF Api!Writes, Writes
<1>6. QED
  BY <1>5 DEF Api!Encoding, Encoding

\* So is what a call contributes to either end.
LEMMA ApiParts ==
  ASSUME NEW e, NEW c
  PROVE  Api!FrontPart(e, c) = FrontPart(e, c) /\ Api!BackPart(e, c) = BackPart(e, c)
<1>1. \A end, n : Api!LenAt(e, end, n) = LenAt(e, end, n)
  BY ApiNumbers, ApiEncoding DEF Api!LenAt, LenAt
<1>2. Api!FrontPart(e, c) = FrontPart(e, c)
  BY <1>1, ApiNumbers, ApiEncoding DEF Api!FrontPart, FrontPart
<1>3. Api!BackPart(e, c) = BackPart(e, c)
  BY <1>1 DEF Api!BackPart, BackPart
<1>4. QED
  BY <1>2, <1>3

\* The functions of the record in the abstract specification are those of the
\* model.
LEMMA ApiRecord ==
  /\ \A e, calls : Api!RecordOf(e, calls) = RecordOf(e, calls)
  /\ \A s : Api!ComplementBytes(s) = ComplementBytes(s)
<1>1. \A s : Api!FlattenSeq(s) = FlattenSeq(s)
  BY DEF Api!FlattenSeq, FlattenSeq
<1>2. \A s : Api!Reverse(s) = Reverse(s)
  BY DEF Api!Reverse, Reverse
<1>3. \A e, calls : Api!FrontOf(e, calls) = FrontOf(e, calls)
  BY <1>1, ApiParts DEF Api!FrontOf, FrontOf
<1>4. \A e, calls : Api!BackOf(e, calls) = BackOf(e, calls)
  BY <1>1, <1>2, ApiParts DEF Api!BackOf, BackOf
<1>5. \A s : Api!ComplementBytes(s) = ComplementBytes(s)
  BY DEF Api!ComplementBytes, ComplementBytes, Api!ComplementByte, ComplementByte
<1>6. QED
  BY <1>3, <1>4, <1>5 DEF Api!RecordOf, RecordOf

\* So are the calls before the one that fails, and its error.
LEMMA ApiFailing ==
  ASSUME NEW calls
  PROVE  /\ Api!BeforeFail(calls) = BeforeFail(calls)
         /\ Api!Fails(calls) = Fails(calls) /\ Api!Failure(calls) = Failure(calls)
<1>1. Api!BeforeFail(calls) = BeforeFail(calls)
  BY DEF Api!BeforeFail, BeforeFail, Api!SelectInSeq, SelectInSeq, Api!Min, Min
<1>2. QED
  BY <1>1 DEF Api!Fails, Fails, Api!Failure, Failure

-----------------------------------------------------------------------------

(* Sums along a sequence.                                                   *)

\* f has the partial sums of w.
Sums(f, n, w) == f[0] = 0 /\ \A k \in 1..n : f[k] = f[k - 1] + w[k]

\* There is one.
LEMMA SumExists ==
  ASSUME NEW n \in Nat, NEW w, \A k \in 1..n : w[k] \in Nat
  PROVE  \E f \in [0..n -> Nat] : Sums(f, n, w)
<1> DEFINE step == [k \in 1..n |-> [v \in Nat |-> v + w[k]]]
<1>1. Steps(Nat, n, step)
  BY DEF Steps
<1>2. \A k \in 1..n : \A v \in Nat : step[k][v] = v + w[k]
  OBVIOUS
<1> HIDE DEF step
<1>3. 0 \in Nat
  OBVIOUS
<1>4. PICK f : Recursive(f, Nat, n, 0, step)
  BY <1>1, <1>3, Recursion
<1>5. f \in [0..n -> Nat] /\ f[0] = 0 /\ \A k \in 1..n : f[k] = step[k][f[k - 1]]
  BY <1>4 DEF Recursive
<1>6. ASSUME NEW k \in 1..n PROVE f[k] = f[k - 1] + w[k]
  <2>1. k - 1 \in 0..n
    OBVIOUS
  <2>2. f[k - 1] \in Nat
    BY <1>5, <2>1
  <2>3. QED
    BY <1>2, <1>5, <2>2
<1>7. QED
  BY <1>5, <1>6 DEF Sums

\* The lengths of pieces at two ends.
Lengths(w, F, B) == \A k \in 1..Len(F) : w[k] = Len(F[k]) + Len(B[k])

\* They add up to the length of the whole.
LEMMA SumIs ==
  ASSUME NEW S, NEW F \in Seq(Seq(S)), NEW B \in Seq(Seq(S)), Len(B) = Len(F),
         NEW w, Lengths(w, F, B), NEW f, Sums(f, Len(F), w)
  PROVE  f[Len(F)] = Len(FlattenSeq(F)) + Len(FlattenSeq(Reverse(B)))
<1> DEFINE n == Len(F)
           T == {k \in Nat : k <= n => f[k] = Len(FlattenSeq(SubSeq(F, 1, k)))
                                                + Len(FlattenSeq(SubSeq(B, 1, k)))}
<1>1. n \in Nat
  BY LenProperties
<1>2. 0 \in T
  <2>1. SubSeq(F, 1, 0) = << >> /\ SubSeq(B, 1, 0) = << >>
    OBVIOUS
  <2>2. Len(FlattenSeq(<< >>)) = 0
    BY FlattenEmpty
  <2>3. f[0] = 0
    BY DEF Sums
  <2>4. Len(FlattenSeq(SubSeq(F, 1, 0))) = 0 /\ Len(FlattenSeq(SubSeq(B, 1, 0))) = 0
    BY <2>1, <2>2, Zenon
  <2>5. f[0] = Len(FlattenSeq(SubSeq(F, 1, 0))) + Len(FlattenSeq(SubSeq(B, 1, 0)))
    BY <2>3, <2>4
  <2>6. QED
    BY <2>5
<1>3. ASSUME NEW k \in Nat, k \in T PROVE k + 1 \in T
  <2>1. SUFFICES ASSUME k + 1 <= n
                 PROVE  f[k + 1] = Len(FlattenSeq(SubSeq(F, 1, k + 1)))
                                     + Len(FlattenSeq(SubSeq(B, 1, k + 1)))
    OBVIOUS
  <2> DEFINE a == SubSeq(F, 1, k)
             b == SubSeq(B, 1, k)
             x == F[k + 1]
             y == B[k + 1]
  <2>2. /\ x \in Seq(S) /\ a \in Seq(Seq(S)) /\ SubSeq(F, 1, k + 1) = Append(a, x)
    <3>1. k < Len(F)
      BY <1>1, <2>1
    <3>2. QED
      BY <3>1, GrowFront
  <2>3. /\ y \in Seq(S) /\ b \in Seq(Seq(S)) /\ SubSeq(B, 1, k + 1) = Append(b, y)
    <3>1. k < Len(B)
      BY <1>1, <2>1
    <3>2. QED
      BY <3>1, GrowFront
  <2>4. f[k] = Len(FlattenSeq(a)) + Len(FlattenSeq(b))
    BY <1>1, <1>3, <2>1
  <2>5. f[k + 1] = f[k] + (Len(x) + Len(y))
    <3>1. k + 1 \in 1..n /\ (k + 1) - 1 = k
      BY <1>1, <2>1
    <3>2. f[k + 1] = f[(k + 1) - 1] + w[k + 1]
      BY <3>1 DEF Sums
    <3>3. w[k + 1] = Len(x) + Len(y)
      BY <3>1 DEF Lengths
    <3>4. QED
      BY <3>1, <3>2, <3>3
  <2> HIDE DEF a, b, x, y
  <2>6. /\ FlattenSeq(Append(a, x)) = FlattenSeq(a) \o x /\ FlattenSeq(a) \in Seq(S)
        /\ FlattenSeq(Append(b, y)) = FlattenSeq(b) \o y /\ FlattenSeq(b) \in Seq(S)
    BY <2>2, <2>3, FlattenAppend, FlattenType
  <2>7. /\ Len(FlattenSeq(a) \o x) = Len(FlattenSeq(a)) + Len(x)
        /\ Len(FlattenSeq(b) \o y) = Len(FlattenSeq(b)) + Len(y)
    BY <2>2, <2>3, <2>6, ConcatProperties
  <2>8. /\ Len(FlattenSeq(a)) \in Nat /\ Len(FlattenSeq(b)) \in Nat
        /\ Len(x) \in Nat /\ Len(y) \in Nat
    BY <2>2, <2>3, <2>6, LenProperties
  <2>9. /\ Len(FlattenSeq(SubSeq(F, 1, k + 1))) = Len(FlattenSeq(a)) + Len(x)
        /\ Len(FlattenSeq(SubSeq(B, 1, k + 1))) = Len(FlattenSeq(b)) + Len(y)
    <3>1. /\ FlattenSeq(SubSeq(F, 1, k + 1)) = FlattenSeq(a) \o x
          /\ FlattenSeq(SubSeq(B, 1, k + 1)) = FlattenSeq(b) \o y
      BY <2>2, <2>3, <2>6, Zenon
    <3>2. QED
      BY <2>7, <3>1, Zenon
  <2>10. \A p, q, r, s \in Nat : (p + q) + (r + s) = (p + r) + (q + s)
    OBVIOUS
  <2>11. (Len(FlattenSeq(a)) + Len(FlattenSeq(b))) + (Len(x) + Len(y)) =
           (Len(FlattenSeq(a)) + Len(x)) + (Len(FlattenSeq(b)) + Len(y))
    BY <2>8, <2>10
  <2>12. QED
    BY <2>4, <2>5, <2>9, <2>11, Zenon
<1>4. n \in T
  <2> HIDE DEF T
  <2>1. QED
    BY <1>1, <1>2, <1>3, Induction
<1>5. SubSeq(F, 1, n) = F /\ SubSeq(B, 1, n) = B
  BY WholeFront
<1>6. Len(FlattenSeq(Reverse(B))) = Len(FlattenSeq(B))
  BY FromEndLen
<1>7. f[n] = Len(FlattenSeq(SubSeq(F, 1, n))) + Len(FlattenSeq(SubSeq(B, 1, n)))
  BY <1>1, <1>4
<1> HIDE DEF T, n
<1>8. f[n] = Len(FlattenSeq(F)) + Len(FlattenSeq(Reverse(B)))
  BY <1>5, <1>6, <1>7, Zenon
<1>9. QED
  BY <1>8 DEF n

\* SizeOfCalls is the last of the partial sums of the sizes.
LEMMA SizeOfCallsIs ==
  ASSUME NEW calls, Len(calls) \in Nat, NEW w, \A k \in 1..Len(calls) : w[k] = Size(calls[k]),
         \A k \in 1..Len(calls) : w[k] \in Nat
  PROVE  \E f : Sums(f, Len(calls), w) /\ SizeOfCalls(calls) = f[Len(calls)]
<1> DEFINE n == Len(calls)
           Eqn(h) == h = [k \in 0..n |-> IF k = 0 THEN 0 ELSE h[k - 1] + Size(calls[k])]
           g == CHOOSE h : Eqn(h)
<1>1. PICK f \in [0..n -> Nat] : Sums(f, n, w)
  BY SumExists
<1>2. Eqn(f)
  <2>1. ASSUME NEW k \in 0..n
        PROVE  f[k] = IF k = 0 THEN 0 ELSE f[k - 1] + Size(calls[k])
    <3>1. CASE k = 0
      BY <1>1, <3>1 DEF Sums
    <3>2. CASE k # 0
      <4>1. k \in 1..n
        BY <3>2
      <4>2. QED
        BY <1>1, <3>2, <4>1 DEF Sums
    <3>3. QED
      BY <3>1, <3>2
  <2>2. QED
    BY <2>1
<1>3. Eqn(g)
  <2> HIDE DEF Eqn
  <2>1. QED BY <1>2, Zenon
<1>4. SizeOfCalls(calls) = g[n]
  BY DEF SizeOfCalls
<1> HIDE DEF g
<1>5. \A k \in 0..n : g[k] = IF k = 0 THEN 0 ELSE g[k - 1] + Size(calls[k])
  BY <1>3
<1>6. Sums(g, n, w)
  <2>1. g[0] = 0
    BY <1>5
  <2>2. ASSUME NEW k \in 1..n PROVE g[k] = g[k - 1] + w[k]
    <3>1. k \in 0..n /\ k # 0
      OBVIOUS
    <3>2. QED
      BY <1>5, <3>1
  <2>3. QED
    BY <2>1, <2>2 DEF Sums
<1>7. QED
  BY <1>4, <1>6

\* SizeOfPieces is the last of the partial sums of the lengths.
LEMMA SizeOfPiecesIs ==
  ASSUME NEW pieces, Len(pieces) \in Nat, NEW w,
         \A k \in 1..Len(pieces) : w[k] = Len(pieces[k].bytes),
         \A k \in 1..Len(pieces) : w[k] \in Nat
  PROVE  \E f : Sums(f, Len(pieces), w) /\ SizeOfPieces(pieces) = f[Len(pieces)]
<1> DEFINE n == Len(pieces)
           Eqn(h) == h = [k \in 0..n |-> IF k = 0 THEN 0 ELSE h[k - 1] + Len(pieces[k].bytes)]
           g == CHOOSE h : Eqn(h)
<1>1. PICK f \in [0..n -> Nat] : Sums(f, n, w)
  BY SumExists
<1>2. Eqn(f)
  <2>1. ASSUME NEW k \in 0..n
        PROVE  f[k] = IF k = 0 THEN 0 ELSE f[k - 1] + Len(pieces[k].bytes)
    <3>1. CASE k = 0
      BY <1>1, <3>1 DEF Sums
    <3>2. CASE k # 0
      <4>1. k \in 1..n
        BY <3>2
      <4>2. QED
        BY <1>1, <3>2, <4>1 DEF Sums
    <3>3. QED
      BY <3>1, <3>2
  <2>2. QED
    BY <2>1
<1>3. Eqn(g)
  <2> HIDE DEF Eqn
  <2>1. QED BY <1>2, Zenon
<1>4. SizeOfPieces(pieces) = g[n]
  BY DEF SizeOfPieces
<1> HIDE DEF g
<1>5. \A k \in 0..n : g[k] = IF k = 0 THEN 0 ELSE g[k - 1] + Len(pieces[k].bytes)
  BY <1>3
<1>6. Sums(g, n, w)
  <2>1. g[0] = 0
    BY <1>5
  <2>2. ASSUME NEW k \in 1..n PROVE g[k] = g[k - 1] + w[k]
    <3>1. k \in 0..n /\ k # 0
      OBVIOUS
    <3>2. QED
      BY <1>5, <3>1
  <2>3. QED
    BY <2>1, <2>2 DEF Sums
<1>7. QED
  BY <1>4, <1>6

-----------------------------------------------------------------------------

(* What one call writes.                                                    *)

\* The calls of all values, and those of them that do not fail.
CallSet == UNION {{v[i] : i \in DOMAIN v} : v \in Value \cup Unstable}
Good    == {c \in CallSet : c.op # "fail"}

\* The kinds of calls.
LEMMA CallCases ==
  ASSUME NEW c \in CallSet
  PROVE  \/ c.op \in {"prim", "bytes"} /\ c.bytes \in Seq(BitByte)
         \/ c.op \in {"variant", "seq"} /\ c.n \in Nat
         \/ c.op \in {"none", "some", "compound"}
         \/ c.op = "fail" /\ c.err \in {NoLength, Custom}
<1>1. IsCall(c)
  BY SerializerAssumption DEF CallSet
<1>2. None.op = "none" /\ Some.op = "some" /\ Compound.op = "compound"
  BY DEF None, Some, Compound
<1>3. CASE c.op \in {"prim", "bytes"}
  BY <1>1, <1>3 DEF IsCall
<1>4. CASE c.op \in {"variant", "seq"}
  BY <1>1, <1>4 DEF IsCall
<1>5. CASE c.op = "fail"
  BY <1>1, <1>5 DEF IsCall
<1>6. CASE c.op \notin {"prim", "bytes", "variant", "seq", "fail"}
  <2>1. c \in {None, Some, Compound}
    BY <1>1, <1>6 DEF IsCall
  <2>2. QED
    BY <1>2, <2>1
<1>7. QED
  BY <1>3, <1>4, <1>5, <1>6

\* WordOf gives words.
LEMMA WordType ==
  ASSUME NEW u \in Type, NEW n \in Nat
  PROVE  WordOf(u, n) \in Word(u)
<1>1. \A j \in 0..3 : Place[j + 1] \in Nat \ {0}
  BY DEF Place
<1>2. \A m \in Nat, k \in 0..7 : ByteOf(m)[k] \in Bit
  <2>1. \A k \in 0..7 : Weight[k + 1] \in Nat \ {0}
    BY DEF Weight
  <2>2. ASSUME NEW m \in Nat, NEW k \in 0..7 PROVE ByteOf(m)[k] \in Bit
    <3>1. m \div Weight[k + 1] \in Nat
      BY <2>1
    <3>2. (m \div Weight[k + 1]) % 2 \in {0, 1}
      BY <3>1
    <3>3. QED
      BY <3>2 DEF ByteOf, Bit
  <2>3. QED
    BY <2>2
<1>3. ASSUME NEW i \in 0..Width(u) - 1
      PROVE  (IF i < 32 THEN ByteOf((n \div Place[i \div 8 + 1]) % 256)[i % 8] ELSE 0) \in Bit
  <2>1. CASE i < 32
    <3> DEFINE j == i \div 8
               k == i % 8
               m == n \div Place[j + 1]
    <3>1. j \in 0..3 /\ k \in 0..7
      BY <2>1
    <3> HIDE DEF j, k
    <3>2. m \in Nat
      BY <1>1, <3>1
    <3> HIDE DEF m
    <3>3. m % 256 \in Nat
      BY <3>2
    <3>4. ByteOf(m % 256)[k] \in Bit
      BY <1>2, <3>1, <3>3
    <3>5. QED
      BY <2>1, <3>4 DEF m, j, k
  <2>2. CASE ~(i < 32)
    BY <2>2 DEF Bit
  <2>3. QED
    BY <2>1, <2>2
<1>4. QED
  BY <1>3 DEF WordOf, Word

\* The two writes of a varint, and what they are together at either end.
Written(u, n, p, q) ==
  /\ p = Writes(u, WordOf(u, n))[1] /\ q = Writes(u, WordOf(u, n))[2]
  /\ p \in Seq(BitByte) /\ q \in Seq(BitByte)
  /\ Encoding(u, WordOf(u, n)) = p \o q
  /\ p \o q \in Seq(BitByte) /\ q \o p \in Seq(BitByte)
  /\ Tail(p \o q) \o <<Head(p \o q)>> = q \o p
  /\ EncodedLen(u, WordOf(u, n)) = Len(p \o q) /\ EncodedLen(u, WordOf(u, n)) = Len(q \o p)
  /\ EncodedLen(u, WordOf(u, n)) \in Nat

\* Such writes are made for every number.
LEMMA VarintWritten ==
  ASSUME NEW u \in Type, NEW n \in Nat
  PROVE  \E p, q : Written(u, n, p, q)
<1> DEFINE v == WordOf(u, n)
           p == Writes(u, v)[1]
           q == Writes(u, v)[2]
<1>1. v \in Word(u)
  BY WordType
<1> HIDE DEF v
<1>2. /\ p \in Seq(BitByte) /\ q \in Seq(BitByte) /\ Len(p) = 1
      /\ Len(Encoding(u, v)) = EncodedLen(u, v)
  BY <1>1, EncodingBegins
<1>3. Encoding(u, v) = p \o q
  BY DEF Encoding
<1> HIDE DEF p, q
<1>4. p[1] \in BitByte /\ p = <<p[1]>>
  <2>1. 1 \in 1..Len(p)
    BY <1>2
  <2>2. p[1] \in BitByte
    BY <1>2, <2>1, ElementOfSeq
  <2>3. p = <<p[1]>>
    BY <1>2
  <2>4. QED
    BY <2>2, <2>3
<1> DEFINE b == p[1]
<1> HIDE DEF b
<1>5. /\ <<b>> \o q \in Seq(BitByte) /\ <<b>> \o q # << >>
      /\ Head(<<b>> \o q) = b /\ Tail(<<b>> \o q) = q
  BY <1>2, <1>4 DEF b
<1>6. /\ p \o q \in Seq(BitByte) /\ q \o p \in Seq(BitByte)
      /\ Len(p \o q) = Len(p) + Len(q) /\ Len(q \o p) = Len(q) + Len(p)
  BY <1>2, ConcatProperties
<1>7. Len(p) \in Nat /\ Len(q) \in Nat
  BY <1>2, LenProperties
<1>8. Tail(p \o q) \o <<Head(p \o q)>> = q \o p
  <2>1. p = <<b>>
    BY <1>4 DEF b
  <2>2. QED
    BY <1>5, <2>1, Zenon
<1>9. EncodedLen(u, v) = Len(p \o q) /\ Len(p \o q) = Len(q \o p) /\ Len(p \o q) \in Nat
  BY <1>2, <1>3, <1>6, <1>7
<1>10. Written(u, n, p, q)
  <2>1. p = Writes(u, v)[1] /\ q = Writes(u, v)[2]
    BY DEF p, q
  <2>2. QED
    BY <1>2, <1>3, <1>6, <1>8, <1>9, <2>1 DEF Written, v
<1>11. QED
  BY <1>10

-----------------------------------------------------------------------------

(* What pieces are together, for a writer without a tail (h) and with one.   *)

PieceSet == [end : {"front", "back"}, bytes : Seq(BitByte)]

AtFront(h, p) == IF h \/ p.end = "front" THEN p.bytes ELSE << >>
AtBack(h, p)  == IF h \/ p.end = "front" THEN << >> ELSE p.bytes

Fronts(h, pieces) == [k \in 1..Len(pieces) |-> AtFront(h, pieces[k])]
Backs(h, pieces)  == [k \in 1..Len(pieces) |-> AtBack(h, pieces[k])]

FrontBytes(h, pieces) == FlattenSeq(Fronts(h, pieces))
BackBytes(h, pieces)  == FlattenSeq(Reverse(Backs(h, pieces)))

\* What pieces add to both ends has as many bytes as the pieces.
PiecesAre(h, pieces) ==
  /\ Fronts(h, pieces) \in Seq(Seq(BitByte)) /\ Len(Fronts(h, pieces)) = Len(pieces)
  /\ Backs(h, pieces) \in Seq(Seq(BitByte)) /\ Len(Backs(h, pieces)) = Len(pieces)
  /\ FrontBytes(h, pieces) \in Seq(BitByte) /\ BackBytes(h, pieces) \in Seq(BitByte)
  /\ SizeOfPieces(pieces) = Len(FrontBytes(h, pieces)) + Len(BackBytes(h, pieces))

\* PiecesAre holds of all pieces.
LEMMA PiecesType ==
  ASSUME NEW h \in BOOLEAN, NEW pieces \in Seq(PieceSet)
  PROVE  PiecesAre(h, pieces)
<1> DEFINE n == Len(pieces)
           F == Fronts(h, pieces)
           B == Backs(h, pieces)
           w == [k \in 1..n |-> Len(pieces[k].bytes)]
<1>1. n \in Nat /\ \A k \in 1..n : pieces[k] \in PieceSet
  BY LenProperties, ElementOfSeq
<1>2. \A k \in 1..n : pieces[k].bytes \in Seq(BitByte) /\ pieces[k].end \in {"front", "back"}
  BY <1>1 DEF PieceSet
<1>3. << >> \in Seq(BitByte) /\ Len(<< >>) = 0
  BY EmptySeq
<1>4. \A k \in 1..n : /\ AtFront(h, pieces[k]) \in Seq(BitByte)
                      /\ AtBack(h, pieces[k]) \in Seq(BitByte)
  BY <1>2, <1>3 DEF AtFront, AtBack
<1>5. F \in [1..n -> Seq(BitByte)] /\ B \in [1..n -> Seq(BitByte)]
  BY <1>4 DEF Fronts, Backs
<1>6. F \in Seq(Seq(BitByte)) /\ Len(F) = n /\ B \in Seq(Seq(BitByte)) /\ Len(B) = n
  BY <1>1, <1>5
<1>7. /\ \A k \in 1..n : w[k] = Len(pieces[k].bytes)
      /\ \A k \in 1..n : w[k] \in Nat
      /\ \A k \in 1..n : F[k] = AtFront(h, pieces[k]) /\ B[k] = AtBack(h, pieces[k])
  <2>1. \A k \in 1..n : Len(pieces[k].bytes) \in Nat
    BY <1>2, LenProperties
  <2>2. QED
    BY <2>1 DEF Fronts, Backs
<1> HIDE DEF F, B, w
<1>8. ASSUME NEW k \in 1..n PROVE w[k] = Len(F[k]) + Len(B[k])
  <2>1. \/ F[k] = pieces[k].bytes /\ B[k] = << >>
        \/ F[k] = << >> /\ B[k] = pieces[k].bytes
    BY <1>7 DEF AtFront, AtBack
  <2>2. w[k] \in Nat /\ w[k] = Len(pieces[k].bytes)
    BY <1>7
  <2>3. CASE F[k] = pieces[k].bytes /\ B[k] = << >>
    <3>1. Len(F[k]) = w[k] /\ Len(B[k]) = 0
      BY <1>3, <2>2, <2>3, Zenon
    <3>2. QED
      BY <2>2, <3>1
  <2>4. CASE F[k] = << >> /\ B[k] = pieces[k].bytes
    <3>1. Len(F[k]) = 0 /\ Len(B[k]) = w[k]
      BY <1>3, <2>2, <2>4, Zenon
    <3>2. QED
      BY <2>2, <3>1
  <2>5. QED
    BY <2>1, <2>3, <2>4, Zenon
<1>9. PICK f : Sums(f, n, w) /\ SizeOfPieces(pieces) = f[n]
  BY <1>1, <1>7, SizeOfPiecesIs
<1>10. Lengths(w, F, B) /\ Sums(f, Len(F), w) /\ Len(B) = Len(F)
  BY <1>6, <1>8, <1>9 DEF Lengths
<1>11. f[Len(F)] = Len(FlattenSeq(F)) + Len(FlattenSeq(Reverse(B)))
  BY <1>6, <1>10, SumIs
<1>12. FlattenSeq(F) \in Seq(BitByte) /\ FlattenSeq(Reverse(B)) \in Seq(BitByte)
  <2>1. Reverse(B) \in Seq(Seq(BitByte))
    BY <1>6, ReverseElements
  <2>2. QED
    BY <1>6, <2>1, FlattenType
<1>13. SizeOfPieces(pieces) = Len(FlattenSeq(F)) + Len(FlattenSeq(Reverse(B)))
  BY <1>6, <1>9, <1>11, Zenon
<1>14. QED
  BY <1>6, <1>12, <1>13, Zenon DEF PiecesAre, FrontBytes, BackBytes, F, B, n

\* No pieces, no bytes.
LEMMA PiecesEmpty ==
  ASSUME NEW h \in BOOLEAN
  PROVE  FrontBytes(h, << >>) = << >> /\ BackBytes(h, << >>) = << >>
<1>1. << >> \in Seq(PieceSet)
  BY EmptySeq
<1>2. /\ Fronts(h, << >>) \in Seq(Seq(BitByte)) /\ Len(Fronts(h, << >>)) = 0
      /\ Backs(h, << >>) \in Seq(Seq(BitByte)) /\ Len(Backs(h, << >>)) = 0
  <2>1. PiecesAre(h, << >>) /\ Len(<< >>) = 0
    BY <1>1, PiecesType
  <2>2. QED
    BY <2>1 DEF PiecesAre
<1>3. Fronts(h, << >>) = << >> /\ Backs(h, << >>) = << >>
  BY <1>2, EmptySeq
<1>4. QED
  BY <1>3, FlattenEmpty, ReverseEmpty, Zenon DEF FrontBytes, BackBytes

\* The first piece comes first at the front and last at the back.
FirstPiece(h, pieces) ==
  LET p == Head(pieces)
      t == Tail(pieces)
  IN /\ p \in PieceSet /\ t \in Seq(PieceSet)
     /\ AtFront(h, p) \in Seq(BitByte) /\ AtBack(h, p) \in Seq(BitByte)
     /\ FrontBytes(h, pieces) = AtFront(h, p) \o FrontBytes(h, t)
     /\ BackBytes(h, pieces) = BackBytes(h, t) \o AtBack(h, p)

\* FirstPiece holds of all pieces.
LEMMA PiecesFirst ==
  ASSUME NEW h \in BOOLEAN, NEW pieces \in Seq(PieceSet), pieces # << >>
  PROVE  FirstPiece(h, pieces)
<1> DEFINE p == Head(pieces)
           t == Tail(pieces)
           n == Len(pieces)
<1>1. p \in PieceSet /\ t \in Seq(PieceSet)
  BY HeadAndTail
<1>2. /\ n \in Nat /\ n >= 1 /\ Len(t) = n - 1 /\ p = pieces[1]
      /\ \A k \in 1..n - 1 : t[k] = pieces[k + 1]
  OBVIOUS
<1>3. PiecesAre(h, pieces) /\ PiecesAre(h, t)
  BY <1>1, PiecesType
<1> DEFINE F == Fronts(h, pieces)
           G == Fronts(h, t)
           B == Backs(h, pieces)
           C == Backs(h, t)
           x == AtFront(h, p)
           y == AtBack(h, p)
<1>4. /\ F \in Seq(Seq(BitByte)) /\ Len(F) = n /\ G \in Seq(Seq(BitByte)) /\ Len(G) = n - 1
      /\ B \in Seq(Seq(BitByte)) /\ Len(B) = n /\ C \in Seq(Seq(BitByte)) /\ Len(C) = n - 1
  BY <1>2, <1>3 DEF PiecesAre
<1>5. /\ F[1] = x /\ \A k \in 1..n - 1 : F[k + 1] = G[k]
      /\ B[1] = y /\ \A k \in 1..n - 1 : B[k + 1] = C[k]
  <2>1. 1 \in 1..n /\ \A k \in 1..n - 1 : k \in 1..Len(t) /\ k + 1 \in 1..n
    BY <1>2
  <2>2. /\ \A k \in 1..n : F[k] = AtFront(h, pieces[k]) /\ B[k] = AtBack(h, pieces[k])
        /\ \A k \in 1..Len(t) : G[k] = AtFront(h, t[k]) /\ C[k] = AtBack(h, t[k])
    BY DEF Fronts, Backs
  <2>3. QED
    BY <1>2, <2>1, <2>2
<1> HIDE DEF F, G, B, C, p, t, x, y
<1>6. F # << >> /\ B # << >>
  BY <1>2, <1>4
<1>7. Head(F) = x /\ Tail(F) = G /\ Head(B) = y /\ Tail(B) = C
  <2>1. Head(F) = F[1] /\ Head(B) = B[1]
    BY <1>4, <1>6, HeadTailProperties
  <2>2. ASSUME NEW X \in Seq(Seq(BitByte)), NEW Y \in Seq(Seq(BitByte)),
               Len(X) = n, Len(Y) = n - 1, \A k \in 1..n - 1 : X[k + 1] = Y[k]
        PROVE  Tail(X) = Y
    <3>1. X # << >>
      BY <1>2, <2>2
    <3>2. /\ Tail(X) \in Seq(Seq(BitByte)) /\ Len(Tail(X)) = n - 1
          /\ \A k \in 1..n - 1 : Tail(X)[k] = X[k + 1]
      BY <1>2, <2>2, <3>1, HeadTailProperties
    <3>3. QED
      BY <2>2, <3>2, SeqEqual
  <2>3. QED
    BY <1>4, <1>5, <2>1, <2>2
<1>8. x \in Seq(BitByte) /\ y \in Seq(BitByte)
  BY <1>4, <1>6, <1>7, HeadAndTail
<1>9. F = <<x>> \o G
  BY <1>4, <1>6, <1>7, HeadAndTail
<1>10. FlattenSeq(F) = x \o FlattenSeq(G)
  BY <1>4, <1>8, <1>9, FlattenPrepend
<1>11. FlattenSeq(Reverse(B)) = FlattenSeq(Reverse(C)) \o y
  BY <1>4, <1>6, <1>7, FromEndPrepend
<1>12. QED
  <2>1. /\ FrontBytes(h, pieces) = FlattenSeq(F) /\ FrontBytes(h, t) = FlattenSeq(G)
        /\ BackBytes(h, pieces) = FlattenSeq(Reverse(B))
        /\ BackBytes(h, t) = FlattenSeq(Reverse(C))
    BY DEF FrontBytes, BackBytes, F, G, B, C
  <2>2. /\ FrontBytes(h, pieces) = x \o FrontBytes(h, t)
        /\ BackBytes(h, pieces) = BackBytes(h, t) \o y
    BY <1>10, <1>11, <2>1, Zenon
  <2>3. QED
    BY <1>1, <1>8, <2>2 DEF FirstPiece, p, t, x, y

\* One piece.
LEMMA PiecesOne ==
  ASSUME NEW h \in BOOLEAN, NEW a \in PieceSet
  PROVE  /\ <<a>> \in Seq(PieceSet)
         /\ FrontBytes(h, <<a>>) = AtFront(h, a) /\ BackBytes(h, <<a>>) = AtBack(h, a)
<1>1. /\ <<a>> \in Seq(PieceSet) /\ <<a>> # << >> /\ Head(<<a>>) = a /\ Tail(<<a>>) = << >>
  OBVIOUS
<1>2. FirstPiece(h, <<a>>)
  BY <1>1, PiecesFirst
<1>3. /\ AtFront(h, a) \in Seq(BitByte) /\ AtBack(h, a) \in Seq(BitByte)
      /\ FrontBytes(h, <<a>>) = AtFront(h, a) \o FrontBytes(h, << >>)
      /\ BackBytes(h, <<a>>) = BackBytes(h, << >>) \o AtBack(h, a)
  BY <1>1, <1>2, Zenon DEF FirstPiece
<1>4. FrontBytes(h, << >>) = << >> /\ BackBytes(h, << >>) = << >>
  BY PiecesEmpty
<1>5. AtFront(h, a) \o << >> = AtFront(h, a) /\ << >> \o AtBack(h, a) = AtBack(h, a)
  BY <1>3, ConcatEmptySeq
<1>6. QED
  BY <1>1, <1>3, <1>4, <1>5, Zenon

\* Two pieces: the second follows at the front, and comes before at the back.
LEMMA PiecesTwo ==
  ASSUME NEW h \in BOOLEAN, NEW a \in PieceSet, NEW b \in PieceSet
  PROVE  /\ <<a, b>> \in Seq(PieceSet)
         /\ FrontBytes(h, <<a, b>>) = AtFront(h, a) \o AtFront(h, b)
         /\ BackBytes(h, <<a, b>>) = AtBack(h, b) \o AtBack(h, a)
<1>1. /\ <<a, b>> \in Seq(PieceSet) /\ <<a, b>> # << >>
      /\ Head(<<a, b>>) = a /\ Tail(<<a, b>>) = <<b>>
  OBVIOUS
<1>2. FirstPiece(h, <<a, b>>)
  BY <1>1, PiecesFirst
<1>3. /\ FrontBytes(h, <<a, b>>) = AtFront(h, a) \o FrontBytes(h, <<b>>)
      /\ BackBytes(h, <<a, b>>) = BackBytes(h, <<b>>) \o AtBack(h, a)
  BY <1>1, <1>2, Zenon DEF FirstPiece
<1>4. FrontBytes(h, <<b>>) = AtFront(h, b) /\ BackBytes(h, <<b>>) = AtBack(h, b)
  BY PiecesOne
<1>5. QED
  BY <1>1, <1>3, <1>4, Zenon

\* Three pieces, likewise.
LEMMA PiecesThree ==
  ASSUME NEW h \in BOOLEAN, NEW a \in PieceSet, NEW b \in PieceSet, NEW c \in PieceSet
  PROVE  /\ <<a, b, c>> \in Seq(PieceSet)
         /\ FrontBytes(h, <<a, b, c>>) = AtFront(h, a) \o (AtFront(h, b) \o AtFront(h, c))
         /\ BackBytes(h, <<a, b, c>>) = (AtBack(h, c) \o AtBack(h, b)) \o AtBack(h, a)
<1>1. /\ <<a, b, c>> \in Seq(PieceSet) /\ <<a, b, c>> # << >>
      /\ Head(<<a, b, c>>) = a /\ Tail(<<a, b, c>>) = <<b, c>>
  OBVIOUS
<1>2. FirstPiece(h, <<a, b, c>>)
  BY <1>1, PiecesFirst
<1>3. /\ FrontBytes(h, <<a, b, c>>) = AtFront(h, a) \o FrontBytes(h, <<b, c>>)
      /\ BackBytes(h, <<a, b, c>>) = BackBytes(h, <<b, c>>) \o AtBack(h, a)
  BY <1>1, <1>2, Zenon DEF FirstPiece
<1>4. /\ FrontBytes(h, <<b, c>>) = AtFront(h, b) \o AtFront(h, c)
      /\ BackBytes(h, <<b, c>>) = AtBack(h, c) \o AtBack(h, b)
  BY PiecesTwo
<1>5. QED
  BY <1>1, <1>3, <1>4, Zenon

\* The end that takes lengths when the writer has a tail, and when not.
EndFor(h) == IF h THEN "front" ELSE LenEnd

\* Two writes at end, as bytes of a call that adds front and back.
TwoWrites(h, p, q, end, front0, back0) ==
  LET a == Piece(end, p)
      b == Piece(end, q)
  IN /\ a \in PieceSet /\ b \in PieceSet
     /\ AtFront(h, a) \in Seq(BitByte) /\ AtFront(h, b) \in Seq(BitByte)
     /\ AtBack(h, a) \in Seq(BitByte) /\ AtBack(h, b) \in Seq(BitByte)
     /\ AtFront(h, a) \o AtFront(h, b) = front0
     /\ AtBack(h, b) \o AtBack(h, a) = back0

\* Writes at the front, and at the back of a writer with a tail.
LEMMA TwoWritesAre ==
  ASSUME NEW h \in BOOLEAN, NEW p \in Seq(BitByte), NEW q \in Seq(BitByte), NEW end \in {"front", "back"}
  PROVE  IF h \/ end = "front" THEN TwoWrites(h, p, q, end, p \o q, << >>)
                               ELSE TwoWrites(h, p, q, end, << >>, q \o p)
<1> DEFINE a == Piece(end, p)
           b == Piece(end, q)
<1>1. /\ a \in PieceSet /\ a.end = end /\ a.bytes = p
      /\ b \in PieceSet /\ b.end = end /\ b.bytes = q
  BY DEF Piece, PieceSet
<1> HIDE DEF a, b
<1>2. << >> \in Seq(BitByte) /\ << >> \o << >> = << >>
  BY EmptySeq, ConcatEmptySeq
<1>3. CASE h \/ end = "front"
  <2>1. AtFront(h, a) = p /\ AtFront(h, b) = q /\ AtBack(h, a) = << >> /\ AtBack(h, b) = << >>
    BY <1>1, <1>3 DEF AtFront, AtBack
  <2>2. TwoWrites(h, p, q, end, p \o q, << >>)
    BY <1>1, <1>2, <2>1, Zenon DEF TwoWrites, a, b
  <2>3. QED
    BY <1>3, <2>2
<1>4. CASE ~(h \/ end = "front")
  <2>1. AtFront(h, a) = << >> /\ AtFront(h, b) = << >> /\ AtBack(h, a) = p /\ AtBack(h, b) = q
    BY <1>1, <1>4 DEF AtFront, AtBack
  <2>2. TwoWrites(h, p, q, end, << >>, q \o p)
    BY <1>1, <1>2, <2>1, Zenon DEF TwoWrites, a, b
  <2>3. QED
    BY <1>4, <2>2
<1>5. QED
  BY <1>3, <1>4

\* The pieces of a length are what it adds to the two ends of the record.
LengthIs(h, n, a, b) ==
  LET f == LenAt(EndFor(h), "front", n)
      r == LenAt(EndFor(h), "back", n)
  IN /\ LenPieces(LenEnd, n) = <<a, b>> /\ a \in PieceSet /\ b \in PieceSet
     /\ AtFront(h, a) \in Seq(BitByte) /\ AtFront(h, b) \in Seq(BitByte)
     /\ AtBack(h, a) \in Seq(BitByte) /\ AtBack(h, b) \in Seq(BitByte)
     /\ AtFront(h, a) \o AtFront(h, b) = f /\ f \in Seq(BitByte)
     /\ AtBack(h, b) \o AtBack(h, a) = r /\ r \in Seq(BitByte)
     /\ LenSize(n) = Len(f) + Len(r) /\ LenSize(n) \in Nat

\* LengthIs holds of every length.
LEMMA LengthPieces ==
  ASSUME NEW h \in BOOLEAN, NEW n \in Nat
  PROVE  \E a, b : LengthIs(h, n, a, b)
<1>1. LenType \in Type /\ LenEnd \in {"front", "back"}
  BY SerializerAssumption
<1>2. PICK p, q : Written(LenType, n, p, q)
  BY <1>1, VarintWritten
<1> DEFINE a == Piece(LenEnd, p)
           b == Piece(LenEnd, q)
           f == LenAt(EndFor(h), "front", n)
           r == LenAt(EndFor(h), "back", n)
<1>3. LenPieces(LenEnd, n) = <<a, b>>
  BY <1>2 DEF LenPieces, VarintPieces, Written
<1>4. /\ p \in Seq(BitByte) /\ q \in Seq(BitByte)
      /\ p \o q \in Seq(BitByte) /\ q \o p \in Seq(BitByte)
      /\ LenSize(n) = Len(p \o q) /\ LenSize(n) = Len(q \o p) /\ LenSize(n) \in Nat
  BY <1>2 DEF Written, LenSize
<1>5. << >> \in Seq(BitByte) /\ Len(<< >>) = 0
  BY EmptySeq
<1>6. CASE h \/ LenEnd = "front"
  <2>1. EndFor(h) = "front"
    BY <1>6 DEF EndFor
  <2>2. f = p \o q /\ r = << >>
    BY <1>2, <2>1 DEF LenAt, Written
  <2>3. TwoWrites(h, p, q, LenEnd, p \o q, << >>)
    BY <1>1, <1>4, <1>6, TwoWritesAre
  <2>4. LenSize(n) = Len(f) + Len(r)
    <3>1. Len(f) = LenSize(n) /\ Len(r) = 0
      BY <1>4, <1>5, <2>2, Zenon
    <3> HIDE DEF f, r
    <3>2. QED
      BY <1>4, <3>1
  <2>5. LengthIs(h, n, a, b)
    BY <1>3, <1>4, <1>5, <2>2, <2>3, <2>4, Zenon DEF LengthIs, TwoWrites
  <2>6. QED
    BY <2>5
<1>7. CASE ~(h \/ LenEnd = "front")
  <2>1. EndFor(h) = "back"
    BY <1>1, <1>7 DEF EndFor
  <2>2. f = << >> /\ r = q \o p
    <3>1. r = Tail(p \o q) \o <<Head(p \o q)>> /\ f = << >>
      BY <1>2, <2>1 DEF LenAt, Written
    <3>2. QED
      BY <1>2, <3>1 DEF Written
  <2>3. TwoWrites(h, p, q, LenEnd, << >>, q \o p)
    BY <1>1, <1>4, <1>7, TwoWritesAre
  <2>4. LenSize(n) = Len(f) + Len(r)
    <3>1. Len(r) = LenSize(n) /\ Len(f) = 0
      BY <1>4, <1>5, <2>2, Zenon
    <3> HIDE DEF f, r
    <3>2. QED
      BY <1>4, <3>1
  <2>5. LengthIs(h, n, a, b)
    BY <1>3, <1>4, <1>5, <2>2, <2>3, <2>4, Zenon DEF LengthIs, TwoWrites
  <2>6. QED
    BY <2>5
<1>8. QED
  BY <1>6, <1>7

-----------------------------------------------------------------------------

\* The writes of a call are its part of the record, and SizeCalc counts them.
CallIs(h, c) ==
  /\ Pieces(LenEnd, c) \in Seq(PieceSet)
  /\ FrontBytes(h, Pieces(LenEnd, c)) = FrontPart(EndFor(h), c)
  /\ BackBytes(h, Pieces(LenEnd, c)) = BackPart(EndFor(h), c)
  /\ FrontPart(EndFor(h), c) \in Seq(BitByte) /\ BackPart(EndFor(h), c) \in Seq(BitByte)
  /\ Size(c) = Len(FrontPart(EndFor(h), c)) + Len(BackPart(EndFor(h), c))
  /\ Size(c) \in Nat

\* A call that is one write at the front.
OneWrite(c, bytes) ==
  /\ bytes \in Seq(BitByte)
  /\ Pieces(LenEnd, c) = <<Piece("front", bytes)>>
  /\ \A e : FrontPart(e, c) = bytes /\ BackPart(e, c) = << >>
  /\ Size(c) = Len(bytes)

\* CallIs holds of such a call.
LEMMA OneWriteIs ==
  ASSUME NEW h \in BOOLEAN, NEW c, NEW bytes, OneWrite(c, bytes)
  PROVE  CallIs(h, c)
<1> DEFINE a == Piece("front", bytes)
<1>1. a \in PieceSet /\ AtFront(h, a) = bytes /\ AtBack(h, a) = << >>
  BY DEF OneWrite, PieceSet, Piece, AtFront, AtBack
<1>2. <<a>> \in Seq(PieceSet) /\ FrontBytes(h, <<a>>) = bytes /\ BackBytes(h, <<a>>) = << >>
  BY <1>1, PiecesOne
<1>3. << >> \in Seq(BitByte) /\ Len(<< >>) = 0 /\ Len(bytes) \in Nat
  BY EmptySeq, LenProperties DEF OneWrite
<1> HIDE DEF a
<1>4. Pieces(LenEnd, c) = <<a>>
  BY DEF OneWrite, a
<1>5. Size(c) = Len(bytes) + Len(<< >>)
  BY <1>3 DEF OneWrite
<1>6. QED
  BY <1>2, <1>3, <1>4, <1>5 DEF OneWrite, CallIs

\* CallIs holds of every call that does not fail.
LEMMA CallPieces ==
  ASSUME NEW h \in BOOLEAN, NEW c \in Good
  PROVE  CallIs(h, c)
<1> DEFINE e == EndFor(h)
<1>1. << >> \in Seq(BitByte) /\ Len(<< >>) = 0
  BY EmptySeq
<1>2. /\ <<ByteOf(0)>> \in Seq(BitByte) /\ Len(<<ByteOf(0)>>) = 1
      /\ <<ByteOf(1)>> \in Seq(BitByte) /\ Len(<<ByteOf(1)>>) = 1
  <2>1. ByteOf(0) \in BitByte /\ ByteOf(1) \in BitByte
    BY DEF ByteOf, Weight, BitByte, Bit
  <2>2. QED
    BY <2>1, Single
<1>3. CASE c.op = "prim"
  <2>1. OneWrite(c, c.bytes)
    BY <1>3, CallCases DEF Good, OneWrite, Pieces, FrontPart, BackPart, Size
  <2>2. QED
    BY <2>1, OneWriteIs
<1>4. CASE c.op = "none"
  <2>1. OneWrite(c, <<ByteOf(0)>>)
    BY <1>2, <1>4 DEF OneWrite, Pieces, FrontPart, BackPart, Size
  <2>2. QED
    BY <2>1, OneWriteIs
<1>5. CASE c.op = "some"
  <2>1. OneWrite(c, <<ByteOf(1)>>)
    BY <1>2, <1>5 DEF OneWrite, Pieces, FrontPart, BackPart, Size
  <2>2. QED
    BY <2>1, OneWriteIs
<1>6. CASE c.op = "compound"
  <2>1. /\ Pieces(LenEnd, c) = << >> /\ FrontPart(e, c) = << >> /\ BackPart(e, c) = << >>
        /\ Size(c) = 0
    BY <1>6 DEF Pieces, FrontPart, BackPart, Size
  <2>2. FrontBytes(h, << >>) = << >> /\ BackBytes(h, << >>) = << >> /\ << >> \in Seq(PieceSet)
    BY PiecesEmpty, EmptySeq
  <2>3. Size(c) = Len(<< >>) + Len(<< >>) /\ Size(c) \in Nat
    BY <1>1, <2>1
  <2>4. QED
    BY <1>1, <2>1, <2>2, <2>3 DEF CallIs
<1>7. CASE c.op = "variant"
  <2>1. c.n \in Nat /\ U32 \in Type
    BY <1>7, CallCases DEF Good, Type
  <2>2. PICK p, q : Written(U32, c.n, p, q)
    BY <2>1, VarintWritten
  <2> DEFINE a == Piece("front", p)
             b == Piece("front", q)
  <2>3. Pieces(LenEnd, c) = <<a, b>>
    BY <1>7, <2>2 DEF Pieces, DiscrPieces, VarintPieces, Written
  <2>4. /\ p \in Seq(BitByte) /\ q \in Seq(BitByte) /\ p \o q \in Seq(BitByte)
        /\ DiscrSize(c.n) = Len(p \o q) /\ DiscrSize(c.n) \in Nat
    BY <2>2 DEF Written, DiscrSize
  <2>5. FrontPart(e, c) = p \o q /\ BackPart(e, c) = << >> /\ Size(c) = DiscrSize(c.n)
    BY <1>7, <2>2 DEF FrontPart, BackPart, Size, Written
  <2>6. TwoWrites(h, p, q, "front", p \o q, << >>)
    BY <2>4, TwoWritesAre
  <2>7. a \in PieceSet /\ b \in PieceSet
    BY <2>6 DEF TwoWrites
  <2>8. /\ AtFront(h, a) \o AtFront(h, b) = p \o q
        /\ AtBack(h, b) \o AtBack(h, a) = << >>
    BY <2>6, Zenon DEF TwoWrites
  <2> HIDE DEF a, b
  <2>9. /\ <<a, b>> \in Seq(PieceSet)
        /\ FrontBytes(h, <<a, b>>) = p \o q /\ BackBytes(h, <<a, b>>) = << >>
    <3>1. /\ <<a, b>> \in Seq(PieceSet)
          /\ FrontBytes(h, <<a, b>>) = AtFront(h, a) \o AtFront(h, b)
          /\ BackBytes(h, <<a, b>>) = AtBack(h, b) \o AtBack(h, a)
      BY <2>7, PiecesTwo
    <3>2. QED
      BY <2>8, <3>1, Zenon
  <2>10. Size(c) = Len(p \o q) + Len(<< >>) /\ Size(c) \in Nat
    BY <1>1, <2>4, <2>5
  <2>11. QED
    BY <1>1, <2>3, <2>4, <2>5, <2>9, <2>10, Zenon DEF CallIs
<1>8. CASE c.op = "seq"
  <2>1. c.n \in Nat
    BY <1>8, CallCases DEF Good
  <2>2. PICK a, b : LengthIs(h, c.n, a, b)
    BY <2>1, LengthPieces
  <2>3. a \in PieceSet /\ b \in PieceSet
    BY <2>2 DEF LengthIs
  <2>4. /\ Pieces(LenEnd, c) = LenPieces(LenEnd, c.n) /\ Size(c) = LenSize(c.n)
        /\ FrontPart(e, c) = LenAt(e, "front", c.n) /\ BackPart(e, c) = LenAt(e, "back", c.n)
    BY <1>8 DEF Pieces, FrontPart, BackPart, Size
  <2>5. /\ <<a, b>> \in Seq(PieceSet)
        /\ FrontBytes(h, <<a, b>>) = AtFront(h, a) \o AtFront(h, b)
        /\ BackBytes(h, <<a, b>>) = AtBack(h, b) \o AtBack(h, a)
    BY <2>3, PiecesTwo
  <2>6. /\ LenPieces(LenEnd, c.n) = <<a, b>>
        /\ AtFront(h, a) \o AtFront(h, b) = LenAt(e, "front", c.n)
        /\ AtBack(h, b) \o AtBack(h, a) = LenAt(e, "back", c.n)
        /\ LenAt(e, "front", c.n) \in Seq(BitByte) /\ LenAt(e, "back", c.n) \in Seq(BitByte)
        /\ LenSize(c.n) = Len(LenAt(e, "front", c.n)) + Len(LenAt(e, "back", c.n))
        /\ LenSize(c.n) \in Nat
    BY <2>2, Zenon DEF LengthIs
  <2>7. QED
    BY <2>4, <2>5, <2>6, Zenon DEF CallIs
<1>9. CASE c.op = "bytes"
  <2> DEFINE n == Len(c.bytes)
             d == Piece("front", c.bytes)
             f == LenAt(e, "front", n)
             r == LenAt(e, "back", n)
  <2>1. c.bytes \in Seq(BitByte) /\ n \in Nat
    BY <1>9, CallCases, LenProperties DEF Good
  <2>2. PICK a, b : LengthIs(h, n, a, b)
    BY <2>1, LengthPieces
  <2>3. a \in PieceSet /\ b \in PieceSet /\ d \in PieceSet
    BY <2>1, <2>2 DEF LengthIs, Piece, PieceSet
  <2>4. AtFront(h, d) = c.bytes /\ AtBack(h, d) = << >>
    BY DEF AtFront, AtBack, Piece
  <2>5. /\ Pieces(LenEnd, c) = Append(LenPieces(LenEnd, n), d)
        /\ Size(c) = LenSize(n) + n
        /\ FrontPart(e, c) = f \o c.bytes /\ BackPart(e, c) = r
    BY <1>9 DEF Pieces, FrontPart, BackPart, Size
  <2> HIDE DEF d
  <2>6. Append(<<a, b>>, d) = <<a, b, d>>
    <3>1. /\ Append(<<a, b>>, d) \in Seq(PieceSet) /\ <<a, b, d>> \in Seq(PieceSet)
          /\ Len(Append(<<a, b>>, d)) = 3 /\ Len(<<a, b, d>>) = 3
          /\ \A i \in 1..3 : Append(<<a, b>>, d)[i] = <<a, b, d>>[i]
      BY <2>3
    <3>2. QED
      BY <3>1, SeqEqual
  <2>7. /\ <<a, b, d>> \in Seq(PieceSet)
        /\ FrontBytes(h, <<a, b, d>>) = AtFront(h, a) \o (AtFront(h, b) \o AtFront(h, d))
        /\ BackBytes(h, <<a, b, d>>) = (AtBack(h, d) \o AtBack(h, b)) \o AtBack(h, a)
    BY <2>3, PiecesThree
  <2>8. /\ LenPieces(LenEnd, n) = <<a, b>>
        /\ AtFront(h, a) \in Seq(BitByte) /\ AtFront(h, b) \in Seq(BitByte)
        /\ AtBack(h, a) \in Seq(BitByte) /\ AtBack(h, b) \in Seq(BitByte)
        /\ AtFront(h, a) \o AtFront(h, b) = f /\ f \in Seq(BitByte)
        /\ AtBack(h, b) \o AtBack(h, a) = r /\ r \in Seq(BitByte)
        /\ LenSize(n) = Len(f) + Len(r) /\ LenSize(n) \in Nat
    BY <2>2, Zenon DEF LengthIs
  <2> HIDE DEF f, r
  <2>9. AtFront(h, a) \o (AtFront(h, b) \o c.bytes) = f \o c.bytes
    <3>1. Associates(AtFront(h, a), AtFront(h, b), c.bytes)
      BY <2>1, <2>8, Association
    <3>2. QED
      BY <2>8, <3>1, Zenon DEF Associates
  <2>10. << >> \o AtBack(h, b) = AtBack(h, b)
    BY <2>8, ConcatEmptySeq
  <2>11. f \o c.bytes \in Seq(BitByte) /\ Len(f \o c.bytes) = Len(f) + n
    BY <2>1, <2>8, ConcatProperties
  <2>12. Size(c) = Len(f \o c.bytes) + Len(r) /\ Size(c) \in Nat
    <3>1. Len(f) \in Nat /\ Len(r) \in Nat
      BY <2>8, LenProperties
    <3> HIDE DEF n
    <3>2. QED
      BY <2>1, <2>5, <2>8, <2>11, <3>1
  <2>13. /\ Pieces(LenEnd, c) = <<a, b, d>>
         /\ FrontBytes(h, <<a, b, d>>) = FrontPart(e, c)
         /\ BackBytes(h, <<a, b, d>>) = BackPart(e, c)
    BY <2>4, <2>5, <2>6, <2>7, <2>8, <2>9, <2>10, Zenon
  <2>14. QED
    BY <2>5, <2>7, <2>8, <2>11, <2>12, <2>13, Zenon DEF CallIs
<1>10. QED
  BY <1>3, <1>4, <1>5, <1>6, <1>7, <1>8, <1>9, CallCases DEF Good

-----------------------------------------------------------------------------

(* The record of a sequence of calls.                                       *)

\* The pieces of it at either end.
RecordFronts(e, calls) == [k \in DOMAIN calls |-> FrontPart(e, calls[k])]
RecordBacks(e, calls)  == [k \in DOMAIN calls |-> BackPart(e, calls[k])]

RecordIs(h, calls) ==
  LET e == EndFor(h)
  IN /\ RecordFronts(e, calls) \in Seq(Seq(BitByte)) /\ Len(RecordFronts(e, calls)) = Len(calls)
     /\ RecordBacks(e, calls) \in Seq(Seq(BitByte)) /\ Len(RecordBacks(e, calls)) = Len(calls)
     /\ FrontOf(e, calls) \in Seq(BitByte) /\ BackOf(e, calls) \in Seq(BitByte)
     /\ RecordOf(e, calls) \in Seq(BitByte)
     /\ Len(RecordOf(e, calls)) = Len(FrontOf(e, calls)) + Len(BackOf(e, calls))
     /\ SizeOfCalls(calls) = Len(RecordOf(e, calls)) /\ SizeOfCalls(calls) \in Nat

\* The size calculated in advance is the length of the record, with either end
\* for the lengths, whatever the value.
THEOREM SizeOfRecord ==
  ASSUME NEW h \in BOOLEAN, NEW calls \in Seq(Good)
  PROVE  RecordIs(h, calls)
<1> DEFINE e == EndFor(h)
           n == Len(calls)
           F == RecordFronts(e, calls)
           B == RecordBacks(e, calls)
           w == [k \in 1..n |-> Size(calls[k])]
<1>1. n \in Nat /\ DOMAIN calls = 1..n /\ \A k \in 1..n : calls[k] \in Good
  BY LenProperties, ElementOfSeq
<1>2. \A k \in 1..n : /\ FrontPart(e, calls[k]) \in Seq(BitByte)
                      /\ BackPart(e, calls[k]) \in Seq(BitByte)
                      /\ Size(calls[k]) = Len(FrontPart(e, calls[k])) + Len(BackPart(e, calls[k]))
                      /\ Size(calls[k]) \in Nat
  BY <1>1, CallPieces DEF CallIs
<1>3. F \in [1..n -> Seq(BitByte)] /\ B \in [1..n -> Seq(BitByte)]
  BY <1>1, <1>2 DEF RecordFronts, RecordBacks
<1>4. F \in Seq(Seq(BitByte)) /\ Len(F) = n /\ B \in Seq(Seq(BitByte)) /\ Len(B) = n
  BY <1>1, <1>3
<1>5. /\ \A k \in 1..n : w[k] = Size(calls[k]) /\ w[k] \in Nat
      /\ \A k \in 1..n : w[k] = Len(F[k]) + Len(B[k])
  BY <1>1, <1>2 DEF RecordFronts, RecordBacks
<1>6. FrontOf(e, calls) = FlattenSeq(F) /\ BackOf(e, calls) = FlattenSeq(Reverse(B))
  BY DEF FrontOf, BackOf, RecordFronts, RecordBacks
<1> HIDE DEF F, B, w
<1>7. PICK f : Sums(f, n, w) /\ SizeOfCalls(calls) = f[n]
  BY <1>1, <1>5, SizeOfCallsIs
<1>8. Lengths(w, F, B) /\ Sums(f, Len(F), w) /\ Len(B) = Len(F)
  BY <1>4, <1>5, <1>7 DEF Lengths
<1>9. f[Len(F)] = Len(FlattenSeq(F)) + Len(FlattenSeq(Reverse(B)))
  BY <1>4, <1>8, SumIs
<1>10. FlattenSeq(F) \in Seq(BitByte) /\ FlattenSeq(Reverse(B)) \in Seq(BitByte)
  <2>1. Reverse(B) \in Seq(Seq(BitByte))
    BY <1>4, ReverseElements
  <2>2. QED
    BY <1>4, <2>1, FlattenType
<1>11. SizeOfCalls(calls) = Len(FrontOf(e, calls)) + Len(BackOf(e, calls))
  BY <1>4, <1>6, <1>7, <1>9, Zenon
<1>12. /\ RecordOf(e, calls) \in Seq(BitByte)
       /\ Len(RecordOf(e, calls)) = Len(FrontOf(e, calls)) + Len(BackOf(e, calls))
  BY <1>6, <1>10, ConcatProperties DEF RecordOf
<1>13. SizeOfCalls(calls) \in Nat
  <2>1. Len(FrontOf(e, calls)) \in Nat /\ Len(BackOf(e, calls)) \in Nat
    BY <1>6, <1>10, LenProperties
  <2>2. QED
    BY <1>11, <2>1
<1>14. /\ F \in Seq(Seq(BitByte)) /\ Len(F) = n /\ B \in Seq(Seq(BitByte)) /\ Len(B) = n
       /\ FrontOf(e, calls) \in Seq(BitByte) /\ BackOf(e, calls) \in Seq(BitByte)
       /\ SizeOfCalls(calls) = Len(RecordOf(e, calls))
  BY <1>4, <1>6, <1>10, <1>11, <1>12, Zenon
<1>15. QED
  BY <1>12, <1>13, <1>14, Zenon DEF RecordIs, F, B, n

\* Nothing is the record of no calls.
LEMMA RecordEmpty ==
  ASSUME NEW h \in BOOLEAN
  PROVE  /\ << >> \in Seq(Good)
         /\ FrontOf(EndFor(h), << >>) = << >> /\ BackOf(EndFor(h), << >>) = << >>
         /\ RecordOf(EndFor(h), << >>) = << >>
<1> DEFINE e == EndFor(h)
<1>1. << >> \in Seq(Good) /\ Len(<< >>) = 0
  BY EmptySeq
<1>2. RecordFronts(e, << >>) = << >> /\ RecordBacks(e, << >>) = << >>
  BY DEF RecordFronts, RecordBacks
<1>3. FrontOf(e, << >>) = FlattenSeq(<< >>) /\ BackOf(e, << >>) = FlattenSeq(Reverse(<< >>))
  BY <1>2 DEF FrontOf, BackOf, RecordFronts, RecordBacks
<1>4. FrontOf(e, << >>) = << >> /\ BackOf(e, << >>) = << >>
  BY <1>3, FlattenEmpty, ReverseEmpty, Zenon
<1>5. << >> \o << >> = << >>
  OBVIOUS
<1>6. QED
  BY <1>1, <1>4, <1>5, Zenon DEF RecordOf

\* One call more.
Grows(e, calls, c) ==
  /\ FrontOf(e, Append(calls, c)) = FrontOf(e, calls) \o FrontPart(e, c)
  /\ BackOf(e, Append(calls, c)) = BackPart(e, c) \o BackOf(e, calls)

\* A call more grows the record by its parts, at the inner side of both ends.
LEMMA RecordAppend ==
  ASSUME NEW h \in BOOLEAN, NEW calls \in Seq(Good), NEW c \in Good
  PROVE  Append(calls, c) \in Seq(Good) /\ Grows(EndFor(h), calls, c)
<1> DEFINE e == EndFor(h)
           n == Len(calls)
           more == Append(calls, c)
           F == RecordFronts(e, calls)
           B == RecordBacks(e, calls)
           G == RecordFronts(e, more)
           C == RecordBacks(e, more)
           x == FrontPart(e, c)
           y == BackPart(e, c)
<1>1. /\ more \in Seq(Good) /\ Len(more) = n + 1 /\ n \in Nat /\ DOMAIN more = 1..n + 1
      /\ more[n + 1] = c /\ \A k \in 1..n : more[k] = calls[k]
      /\ DOMAIN calls = 1..n
  BY AppendProperties, LenProperties
<1>2. x \in Seq(BitByte) /\ y \in Seq(BitByte)
  BY CallPieces DEF CallIs
<1> HIDE DEF more
<1>3. /\ F \in Seq(Seq(BitByte)) /\ Len(F) = n /\ B \in Seq(Seq(BitByte)) /\ Len(B) = n
      /\ G \in Seq(Seq(BitByte)) /\ Len(G) = n + 1 /\ C \in Seq(Seq(BitByte)) /\ Len(C) = n + 1
  BY <1>1, SizeOfRecord DEF RecordIs
<1>4. /\ G[n + 1] = x /\ \A k \in 1..n : G[k] = F[k]
      /\ C[n + 1] = y /\ \A k \in 1..n : C[k] = B[k]
  <2>1. n + 1 \in 1..n + 1 /\ \A k \in 1..n : k \in 1..n + 1
    BY <1>1
  <2>2. QED
    BY <1>1, <2>1 DEF RecordFronts, RecordBacks
<1> HIDE DEF F, B, G, C, x, y
<1>5. G = Append(F, x) /\ C = Append(B, y)
  <2>1. ASSUME NEW X \in Seq(Seq(BitByte)), NEW Y \in Seq(Seq(BitByte)), NEW z \in Seq(BitByte),
               Len(X) = n + 1, Len(Y) = n, X[n + 1] = z, \A k \in 1..n : X[k] = Y[k]
        PROVE  X = Append(Y, z)
    <3>1. /\ Append(Y, z) \in Seq(Seq(BitByte)) /\ Len(Append(Y, z)) = n + 1
          /\ Append(Y, z)[n + 1] = z /\ \A k \in 1..n : Append(Y, z)[k] = Y[k]
      BY <2>1, AppendProperties
    <3>2. \A k \in 1..n + 1 : k = n + 1 \/ k \in 1..n
      BY <1>1
    <3>3. \A k \in 1..n + 1 : X[k] = Append(Y, z)[k]
      BY <2>1, <3>1, <3>2
    <3>4. QED
      BY <2>1, <3>1, <3>3, SeqEqual
  <2>2. QED
    BY <1>2, <1>3, <1>4, <2>1
<1>6. FlattenSeq(Append(F, x)) = FlattenSeq(F) \o x
  BY <1>2, <1>3, FlattenAppend
<1>7. FlattenSeq(Reverse(Append(B, y))) = y \o FlattenSeq(Reverse(B))
  BY <1>2, <1>3, FromEndAppend
<1>8. /\ FrontOf(e, calls) = FlattenSeq(F) /\ BackOf(e, calls) = FlattenSeq(Reverse(B))
      /\ FrontOf(e, more) = FlattenSeq(G) /\ BackOf(e, more) = FlattenSeq(Reverse(C))
  BY DEF FrontOf, BackOf, RecordFronts, RecordBacks, F, B, G, C
<1>9. /\ FrontOf(e, more) = FrontOf(e, calls) \o x
      /\ BackOf(e, more) = y \o BackOf(e, calls)
  BY <1>5, <1>6, <1>7, <1>8, Zenon
<1>10. QED
  BY <1>1, <1>9 DEF Grows, more, x, y

\* One call more adds its size.
LEMMA SizeAppend ==
  ASSUME NEW s \in Seq(Good), NEW c \in Good
  PROVE  SizeOfCalls(Append(s, c)) = SizeOfCalls(s) + Size(c) /\ Size(c) \in Nat
<1> DEFINE e == EndFor(FALSE)
           x == FrontPart(e, c)
           y == BackPart(e, c)
           f == FrontOf(e, s)
           r == BackOf(e, s)
<1>1. Append(s, c) \in Seq(Good) /\ Grows(e, s, c) /\ FALSE \in BOOLEAN
  BY RecordAppend
<1>2. CallIs(FALSE, c)
  BY CallPieces
<1>3. RecordIs(FALSE, s) /\ RecordIs(FALSE, Append(s, c))
  BY <1>1, SizeOfRecord
<1>4. /\ x \in Seq(BitByte) /\ y \in Seq(BitByte) /\ Size(c) = Len(x) + Len(y)
      /\ Size(c) \in Nat
  BY <1>2 DEF CallIs
<1>5. /\ f \in Seq(BitByte) /\ r \in Seq(BitByte) /\ SizeOfCalls(s) = Len(f) + Len(r)
  BY <1>3, Zenon DEF RecordIs
<1>6. SizeOfCalls(Append(s, c)) = Len(f \o x) + Len(y \o r)
  <2>1. FrontOf(e, Append(s, c)) = f \o x /\ BackOf(e, Append(s, c)) = y \o r
    BY <1>1 DEF Grows
  <2>2. QED
    BY <1>3, <2>1, Zenon DEF RecordIs
<1> HIDE DEF x, y, f, r
<1>7. Len(f \o x) = Len(f) + Len(x) /\ Len(y \o r) = Len(y) + Len(r)
  BY <1>4, <1>5, ConcatProperties
<1>8. Len(f) \in Nat /\ Len(r) \in Nat /\ Len(x) \in Nat /\ Len(y) \in Nat
  BY <1>4, <1>5, LenProperties
<1>9. QED
  BY <1>4, <1>5, <1>6, <1>7, <1>8

\* The sizes of a part of the calls and of the rest add up.
LEMMA SizesAdd ==
  ASSUME NEW a \in Seq(Good), NEW b \in Seq(Good)
  PROVE  a \o b \in Seq(Good) /\ SizeOfCalls(a \o b) = SizeOfCalls(a) + SizeOfCalls(b)
<1> DEFINE T == {s \in Seq(Good) : SizeOfCalls(a \o s) = SizeOfCalls(a) + SizeOfCalls(s)}
<1>1. ASSUME NEW s \in Seq(Good), NEW c \in Good
      PROVE  SizeOfCalls(Append(s, c)) = SizeOfCalls(s) + Size(c) /\ Size(c) \in Nat
  BY SizeAppend
<1>2. << >> \in T
  <2>1. a \o << >> = a /\ << >> \in Seq(Good)
    BY ConcatEmptySeq, EmptySeq
  <2>2. RecordIs(FALSE, << >>) /\ RecordIs(FALSE, a) /\ FALSE \in BOOLEAN
    BY <2>1, SizeOfRecord
  <2>3. RecordOf(EndFor(FALSE), << >>) = << >>
    BY RecordEmpty
  <2>4. SizeOfCalls(<< >>) = 0 /\ SizeOfCalls(a) \in Nat
    BY <2>2, <2>3 DEF RecordIs
  <2>5. SizeOfCalls(a \o << >>) = SizeOfCalls(a) + SizeOfCalls(<< >>)
    BY <2>1, <2>4
  <2>6. QED
    BY <2>1, <2>5
<1>3. ASSUME NEW s \in Seq(Good), NEW c \in Good, s \in T
      PROVE  Append(s, c) \in T
  <2>1. a \o Append(s, c) = Append(a \o s, c) /\ a \o s \in Seq(Good) /\ Append(s, c) \in Seq(Good)
    BY ConcatAppend, ConcatProperties, AppendProperties
  <2>2. SizeOfCalls(Append(a \o s, c)) = SizeOfCalls(a \o s) + Size(c)
    BY <1>1, <2>1
  <2>3. SizeOfCalls(Append(s, c)) = SizeOfCalls(s) + Size(c) /\ Size(c) \in Nat
    BY <1>1
  <2>4. RecordIs(FALSE, s) /\ RecordIs(FALSE, a)
    BY SizeOfRecord
  <2>5. SizeOfCalls(s) \in Nat /\ SizeOfCalls(a) \in Nat
    BY <2>4 DEF RecordIs
  <2>6. SizeOfCalls(a \o s) = SizeOfCalls(a) + SizeOfCalls(s)
    BY <1>3
  <2>7. SizeOfCalls(a \o Append(s, c)) = SizeOfCalls(a) + SizeOfCalls(Append(s, c))
    BY <2>1, <2>2, <2>3, <2>5, <2>6
  <2>8. QED
    BY <2>1, <2>7
<1>4. b \in T
  <2> HIDE DEF T
  <2>1. QED
    BY <1>2, <1>3, AppendInduction
<1>5. a \o b \in Seq(Good)
  BY ConcatProperties
<1>6. QED
  BY <1>4, <1>5

-----------------------------------------------------------------------------

(* Values that fail, requests and what they come to.                        *)

\* The values are sequences of calls.
LEMMA ValueIsCalls ==
  ASSUME NEW v \in Value \cup Unstable
  PROVE  v \in Seq(CallSet)
<1>1. v \in Seq({v[i] : i \in DOMAIN v})
  BY SerializerAssumption
<1>2. {v[i] : i \in DOMAIN v} \subseteq CallSet
  BY DEF CallSet
<1>3. QED
  BY <1>1, <1>2

\* A value is serialized up to its m-th call.
Stops(calls, m) ==
  /\ m \in 0..Len(calls)
  /\ BeforeFail(calls) = SubSeq(calls, 1, m) /\ BeforeFail(calls) \in Seq(Good)
  /\ Len(BeforeFail(calls)) = m /\ \A i \in 1..m : calls[i].op # "fail"
  /\ m = Len(calls) => ~Fails(calls) /\ BeforeFail(calls) = calls
  /\ m # Len(calls) => /\ Fails(calls) /\ m + 1 \in 1..Len(calls)
                       /\ calls[m + 1].op = "fail" /\ Failure(calls) = calls[m + 1].err

\* A call before the first that fails is good.
LEMMA GoodFront ==
  ASSUME NEW calls \in Seq(CallSet), NEW m \in 0..Len(calls),
         \A i \in 1..m : calls[i].op # "fail"
  PROVE  SubSeq(calls, 1, m) \in Seq(Good) /\ Len(SubSeq(calls, 1, m)) = m
<1>1. /\ SubSeq(calls, 1, m) \in Seq(CallSet) /\ Len(SubSeq(calls, 1, m)) = m
      /\ \A i \in 1..m : SubSeq(calls, 1, m)[i] = calls[i]
  BY CutElements
<1>2. \A i \in 1..m : SubSeq(calls, 1, m)[i] \in Good
  <2>1. \A i \in 1..m : SubSeq(calls, 1, m)[i] \in CallSet
    BY <1>1, ElementOfSeq
  <2>2. QED
    BY <1>1, <2>1 DEF Good
<1> DEFINE s == SubSeq(calls, 1, m)
<1> HIDE DEF s
<1>3. s \in Seq(CallSet) /\ Len(s) = m /\ \A i \in 1..m : s[i] \in Good
  BY <1>1, <1>2 DEF s
<1>4. s \in Seq(Good)
  BY <1>3
<1>5. QED
  BY <1>3, <1>4 DEF s

\* Every value stops somewhere.
LEMMA StopsAt ==
  ASSUME NEW calls \in Seq(CallSet)
  PROVE  \E m : Stops(calls, m)
<1> DEFINE n == Len(calls)
           I == {i \in 1..n : calls[i].op = "fail"}
<1>1. n \in Nat /\ DOMAIN calls = 1..n /\ SubSeq(calls, 1, n) = calls
  BY LenProperties, WholeFront
<1>2. CASE I = {}
  <2>1. \A i \in 1..n : calls[i].op # "fail"
    BY <1>2
  <2>2. BeforeFail(calls) = calls
    BY <1>1, <2>1 DEF BeforeFail
  <2>3. n \in 0..Len(calls)
    BY <1>1
  <2>4. calls \in Seq(Good)
    <3>1. SubSeq(calls, 1, n) \in Seq(Good)
      BY <2>1, <2>3, GoodFront
    <3>2. QED
      BY <1>1, <3>1
  <2>5. ~Fails(calls)
    BY <2>2 DEF Fails
  <2>6. Stops(calls, n)
    BY <1>1, <2>1, <2>2, <2>3, <2>4, <2>5 DEF Stops
  <2>7. QED
    BY <2>6
<1>3. CASE I # {}
  <2> DEFINE k == Min(I)
             m == k - 1
  <2>1. I \in SUBSET Nat
    BY <1>1
  <2>2. k \in I /\ \A i \in I : k <= i
    BY <1>3, <2>1, MinOf
  <2>3. BeforeFail(calls) = SubSeq(calls, 1, k - 1)
    <3>1. \E i \in DOMAIN calls : calls[i].op = "fail"
      BY <1>1, <1>3
    <3>2. QED
      BY <1>3, <3>1 DEF BeforeFail, SelectInSeq
  <2> HIDE DEF k
  <2>4. k \in 1..n /\ calls[k].op = "fail" /\ m \in 0..n /\ m + 1 = k /\ m # n
    BY <1>1, <2>2
  <2>5. \A i \in 1..m : calls[i].op # "fail"
    <3>1. ASSUME NEW i \in 1..m PROVE i \in 1..n /\ ~(k <= i)
      BY <2>4
    <3>2. QED
      BY <2>2, <3>1
  <2>6. BeforeFail(calls) \in Seq(Good) /\ Len(BeforeFail(calls)) = m
    <3>1. m \in 0..Len(calls)
      BY <2>4
    <3> HIDE DEF m
    <3>2. SubSeq(calls, 1, m) \in Seq(Good) /\ Len(SubSeq(calls, 1, m)) = m
      BY <2>5, <3>1, GoodFront
    <3>3. QED
      BY <2>3, <3>2 DEF m
  <2>7. Fails(calls)
    <3>1. BeforeFail(calls) # calls
      BY <2>4, <2>6
    <3>2. QED
      BY <3>1 DEF Fails
  <2>8. Failure(calls) = calls[k].err
    BY <2>4, <2>6 DEF Failure
  <2> HIDE DEF m, I
  <2>9. BeforeFail(calls) = SubSeq(calls, 1, m)
    BY <2>3 DEF m
  <2>10. Stops(calls, m)
    BY <2>4, <2>5, <2>6, <2>7, <2>8, <2>9 DEF Stops
  <2>11. QED
    BY <2>10
<1>4. QED
  BY <1>2, <1>3

\* What has been taken of a value, and what is to come.
Divided(calls, taken, rest) ==
  /\ taken \in Seq(Good) /\ rest \in Seq(CallSet) /\ calls = taken \o rest

\* A value that has been taken in part: it stops later, or now.
Goes(calls, taken, rest) ==
  /\ calls \in Seq(CallSet) /\ BeforeFail(calls) \in Seq(Good)
  /\ \E z \in Seq(Good) : BeforeFail(calls) = taken \o z
  /\ rest = << >> => ~Fails(calls) /\ calls = taken /\ BeforeFail(calls) = calls
  /\ rest # << >> /\ Head(rest).op = "fail" =>
       Fails(calls) /\ BeforeFail(calls) = taken /\ Failure(calls) = Head(rest).err
  /\ ~Fails(calls) => BeforeFail(calls) = calls /\ rest \in Seq(Good)

\* Goes holds of every value taken in part.
LEMMA GoesOn ==
  ASSUME NEW calls, NEW taken, NEW rest, Divided(calls, taken, rest)
  PROVE  Goes(calls, taken, rest)
<1> DEFINE n == Len(taken)
           l == Len(rest)
<1>1. taken \in Seq(Good) /\ rest \in Seq(CallSet) /\ calls = taken \o rest
  BY DEF Divided
<1>2. taken \in Seq(CallSet) /\ n \in Nat /\ l \in Nat
  <2>1. Good \subseteq CallSet
    BY DEF Good
  <2>2. QED
    BY <1>1, <2>1, LenProperties
<1>3. Joined(taken, rest, CallSet)
  BY <1>1, <1>2, Join
<1>4. /\ calls \in Seq(CallSet) /\ Len(calls) = n + l
      /\ \A i \in 1..n : calls[i] = taken[i]
      /\ \A i \in 1..l : calls[n + i] = rest[i]
  BY <1>1, <1>3 DEF Joined
<1>5. \A i \in 1..n : calls[i].op # "fail"
  <2>1. \A i \in 1..n : taken[i] \in Good
    BY <1>1, ElementOfSeq
  <2>2. QED
    BY <1>4, <2>1 DEF Good
<1>6. PICK m : Stops(calls, m)
  BY <1>4, StopsAt
<1>7. /\ m \in 0..n + l /\ BeforeFail(calls) = SubSeq(calls, 1, m)
      /\ BeforeFail(calls) \in Seq(Good) /\ Len(BeforeFail(calls)) = m
      /\ \A i \in 1..m : calls[i].op # "fail"
      /\ m = n + l => ~Fails(calls) /\ BeforeFail(calls) = calls
      /\ m # n + l => /\ Fails(calls) /\ m + 1 \in 1..n + l
                      /\ calls[m + 1].op = "fail" /\ Failure(calls) = calls[m + 1].err
  BY <1>4, <1>6 DEF Stops
<1>8. n <= m
  <2>1. ASSUME m < n PROVE FALSE
    <3>1. m + 1 \in 1..n /\ m # n + l
      BY <1>2, <1>7, <2>1
    <3>2. QED
      BY <1>5, <1>7, <3>1
  <2>2. QED
    BY <1>2, <1>7, <2>1
<1>9. SubSeq(calls, 1, n) = taken
  <2>1. n \in 0..Len(calls)
    BY <1>2, <1>4
  <2>2. /\ SubSeq(calls, 1, n) \in Seq(CallSet) /\ Len(SubSeq(calls, 1, n)) = n
        /\ \A i \in 1..n : SubSeq(calls, 1, n)[i] = calls[i]
    BY <1>4, <2>1, CutElements
  <2>3. \A i \in 1..n : SubSeq(calls, 1, n)[i] = taken[i]
    BY <1>4, <2>2
  <2> HIDE DEF n
  <2>4. Len(taken) = n
    BY DEF n
  <2>5. QED
    BY <1>2, <2>2, <2>3, <2>4, SeqEqual
<1>10. \E z \in Seq(Good) : BeforeFail(calls) = taken \o z
  <2> DEFINE z == SubSeq(calls, n + 1, m)
             d == m - n
  <2>1. d \in Nat /\ n + d = m /\ n + d <= Len(calls)
    BY <1>2, <1>4, <1>7, <1>8
  <2>2. SubSeq(calls, 1, n) \o SubSeq(calls, n + 1, n + d) = SubSeq(calls, 1, n + d)
    BY <1>2, <1>4, <2>1, FrontGrows
  <2>3. BeforeFail(calls) = taken \o z
    BY <1>7, <1>9, <2>1, <2>2, Zenon
  <2>4. /\ SubSeq(calls, n + 1, n + d) \in Seq(CallSet) /\ Len(SubSeq(calls, n + 1, n + d)) = d
        /\ \A i \in 1..d : SubSeq(calls, n + 1, n + d)[i] = calls[n + i]
    BY <1>2, <1>4, <2>1, PieceElements
  <2>5. z \in Seq(CallSet) /\ Len(z) = d /\ \A i \in 1..d : z[i] = calls[n + i]
    BY <2>1, <2>4, Zenon
  <2> HIDE DEF z, d
  <2>6. \A i \in 1..d : z[i] \in Good
    <3>1. \A i \in 1..d : z[i] \in CallSet
      BY <2>5, ElementOfSeq
    <3>2. \A i \in 1..d : n + i \in 1..m
      BY <1>2, <2>1
    <3>3. QED
      BY <1>7, <2>5, <3>1, <3>2 DEF Good
  <2>7. z \in Seq(Good)
    BY <2>5, <2>6
  <2>8. QED
    BY <2>3, <2>7
<1>11. rest = << >> => ~Fails(calls) /\ calls = taken /\ BeforeFail(calls) = calls
  <2>1. SUFFICES ASSUME rest = << >>
                 PROVE  ~Fails(calls) /\ calls = taken /\ BeforeFail(calls) = calls
    OBVIOUS
  <2>2. l = 0
    BY <2>1
  <2>3. calls = taken
    <3>1. taken \o << >> = taken
      BY <1>2, ConcatEmptySeq
    <3>2. QED
      BY <1>1, <2>1, <3>1, Zenon
  <2>4. m = n + l
    BY <1>2, <1>7, <1>8, <2>2
  <2>5. QED
    BY <1>7, <2>3, <2>4
<1>12. rest # << >> /\ Head(rest).op = "fail" =>
         Fails(calls) /\ BeforeFail(calls) = taken /\ Failure(calls) = Head(rest).err
  <2>1. SUFFICES ASSUME rest # << >>, Head(rest).op = "fail"
                 PROVE  Fails(calls) /\ BeforeFail(calls) = taken
                        /\ Failure(calls) = Head(rest).err
    OBVIOUS
  <2>2. l >= 1 /\ Head(rest) = rest[1]
    BY <1>1, <1>2, <2>1, EmptySeq
  <2>3. calls[n + 1] = Head(rest) /\ n + 1 \in 1..n + l
    <3>1. 1 \in 1..l
      BY <1>2, <2>2
    <3>2. QED
      BY <1>2, <1>4, <2>2, <3>1
  <2>4. ~(n + 1 \in 1..m)
    BY <1>7, <2>1, <2>3
  <2>5. m = n
    BY <1>2, <1>7, <1>8, <2>4
  <2>6. m # n + l
    BY <1>2, <2>2, <2>5
  <2>7. QED
    BY <1>7, <1>9, <2>3, <2>5, <2>6
<1>13. ~Fails(calls) => BeforeFail(calls) = calls /\ rest \in Seq(Good)
  <2>1. SUFFICES ASSUME ~Fails(calls)
                 PROVE  BeforeFail(calls) = calls /\ rest \in Seq(Good)
    OBVIOUS
  <2>2. m = n + l /\ BeforeFail(calls) = calls
    BY <1>7, <2>1
  <2>3. \A i \in 1..l : rest[i] \in Good
    <3>1. \A i \in 1..l : n + i \in 1..m /\ rest[i] \in CallSet
      BY <1>1, <1>2, <2>2, ElementOfSeq
    <3>2. QED
      BY <1>4, <1>7, <3>1 DEF Good
  <2>4. rest \in Seq(Good)
    BY <1>1, <2>3
  <2>5. QED
    BY <2>2, <2>4
<1>14. QED
  BY <1>4, <1>7, <1>10, <1>11, <1>12, <1>13 DEF Goes

-----------------------------------------------------------------------------

\* What is known of a request.
RequestIs(r) ==
  /\ r.api \in {"vec", "buf", "exact", "head", "size", "grow"}
  /\ r.order \in {"Ascending", "Descending"}
  /\ r.first \in Seq(CallSet) /\ r.calls \in Seq(CallSet) /\ r.room \in Nat
  /\ r.api # "vec" => r.first = r.calls
  /\ r.order = "Descending" => r.api \in {"vec", "buf"}

\* RequestIs holds of every request.
LEMMA RequestType ==
  ASSUME NEW r \in Api!Request
  PROVE  RequestIs(r)
<1> DEFINE One == UNION {Api!Once(c) : c \in Value}
<1>1. \A p \in One : p.first \in Value /\ p.first = p.calls
  <2>1. \A c : \A p \in Api!Once(c) : p.first = c /\ p.calls = c
    BY DEF Api!Once
  <2>2. QED
    BY <2>1
<1>2. \A p \in Api!Passes : p.first \in Value /\ p.calls \in Value \cup Unstable
  <2>1. Api!Passes = One \cup [first : Value, calls : Unstable]
    BY DEF Api!Passes
  <2>2. QED
    BY <1>1, <2>1
<1>3. \A v \in Value \cup Unstable : v \in Seq(CallSet)
  BY ValueIsCalls
<1>4. MaxRoom \in Nat /\ \A n \in 0..MaxRoom : n \in Nat
  BY SerializerAssumption
<1> HIDE DEF One
<1>5. \A p \in One : RequestIs(Api!On("exact", "Ascending", p, 0)) /\ p.first = p.calls
  BY <1>1, <1>3 DEF RequestIs, Api!On
<1>6. CASE r \in {Api!On("vec", order, p, 0) : order \in {"Ascending", "Descending"}, p \in Api!Passes}
  BY <1>2, <1>3, <1>6 DEF RequestIs, Api!On
<1>7. CASE r \in {Api!On("buf", order, p, n) : order \in {"Ascending", "Descending"},
                                               p \in One, n \in 0..MaxRoom}
  BY <1>1, <1>3, <1>4, <1>7 DEF RequestIs, Api!On
<1>8. CASE r \in {Api!On("exact", "Ascending", p, n) : p \in One, n \in 0..MaxRoom}
  BY <1>1, <1>3, <1>4, <1>8 DEF RequestIs, Api!On
<1>9. CASE r \in {Api!On("head", "Ascending", p, n) : p \in One, n \in 0..MaxRoom}
  BY <1>1, <1>3, <1>4, <1>9 DEF RequestIs, Api!On
<1>10. CASE r \in {Api!On(api, "Ascending", p, 0) : api \in {"size", "grow"}, p \in One}
  BY <1>1, <1>3, <1>10 DEF RequestIs, Api!On
<1>11. QED
  BY <1>6, <1>7, <1>8, <1>9, <1>10 DEF Api!Request, One

\* The record a request is for, and the room there is for it.
HeadedOf(r) == r.api \in Api!Headed
Record(r)   == RecordOf(EndFor(HeadedOf(r)), BeforeFail(r.calls))
RoomFor(r)  ==
  CASE r.api = "vec"              -> Len(RecordOf(LenEnd, BeforeFail(r.first)))
    [] r.api \in {"size", "grow"} -> Len(Record(r))
    [] OTHER                      -> r.room

\* The answer with a record.
AnswerWith(r, record) ==
  Api!Answer("Ok", IF r.api = "size" THEN << >>
                   ELSE IF r.order = "Descending" THEN ComplementBytes(record) ELSE record,
             IF r.api \in Api!Measured THEN Len(record) ELSE 0)

OutcomeIs(r) ==
  LET len  == Len(Record(r))
      room == RoomFor(r)
  IN /\ Record(r) \in Seq(BitByte) /\ len \in Nat /\ room \in Nat
     /\ r.api = "vec" /\ Fails(r.first) => Api!Outcome(r) = Api!Error(Failure(r.first))
     /\ ~(r.api = "vec" /\ Fails(r.first)) =>
          /\ len > room => Api!Outcome(r) = Api!Error("BufferOverflow")
          /\ len <= room /\ Fails(r.calls) => Api!Outcome(r) = Api!Error(Failure(r.calls))
          /\ len <= room /\ ~Fails(r.calls) =>
               /\ r.api \in Api!Exact /\ len # room => Api!Outcome(r) = Api!Error("BufferUnderflow")
               /\ r.api \in Api!Exact => len = room \/ len < room
               /\ ~(r.api \in Api!Exact /\ len # room) => Api!Outcome(r) = AnswerWith(r, Record(r))

\* A value stops in the record of it.
LEMMA StopsWithin ==
  ASSUME NEW calls \in Seq(CallSet)
  PROVE  BeforeFail(calls) \in Seq(Good)
BY StopsAt DEF Stops

\* The answer to a request, case by case.
LEMMA OutcomeCases ==
  ASSUME NEW r, RequestIs(r)
  PROVE  OutcomeIs(r)
<1> DEFINE e == IF r.api \in Api!Headed THEN "front" ELSE LenEnd
           record == RecordOf(e, BeforeFail(r.calls))
           room == CASE r.api = "vec"              -> Len(RecordOf(LenEnd, BeforeFail(r.first)))
                     [] r.api \in {"size", "grow"} -> Len(record)
                     [] OTHER                      -> r.room
<1>1. e = EndFor(HeadedOf(r)) /\ HeadedOf(r) \in BOOLEAN
  BY DEF EndFor, HeadedOf
<1>2. record = Record(r) /\ room = RoomFor(r)
  BY <1>1 DEF Record, RoomFor
<1>3. record \in Seq(BitByte) /\ Len(record) \in Nat
  <2>1. BeforeFail(r.calls) \in Seq(Good)
    BY StopsWithin DEF RequestIs
  <2>2. RecordIs(HeadedOf(r), BeforeFail(r.calls))
    BY <1>1, <2>1, SizeOfRecord
  <2>3. record \in Seq(BitByte)
    BY <1>1, <2>2 DEF RecordIs
  <2>4. QED
    BY <2>3, LenProperties
<1>4. Len(RecordOf(LenEnd, BeforeFail(r.first))) \in Nat
  <2>1. BeforeFail(r.first) \in Seq(Good) /\ FALSE \in BOOLEAN
    BY StopsWithin DEF RequestIs
  <2>2. RecordIs(FALSE, BeforeFail(r.first))
    BY <2>1, SizeOfRecord
  <2>3. RecordOf(LenEnd, BeforeFail(r.first)) \in Seq(BitByte)
    BY <2>2 DEF RecordIs, EndFor
  <2>4. QED
    BY <2>3, LenProperties
<1>5. room \in Nat
  BY <1>3, <1>4 DEF RequestIs
<1>6. Api!Outcome(r) =
        IF r.api = "vec" /\ Fails(r.first) THEN Api!Error(Failure(r.first))
        ELSE CASE Len(record) > room -> Api!Error("BufferOverflow")
               [] Len(record) <= room /\ Fails(r.calls) -> Api!Error(Failure(r.calls))
               [] r.api \in Api!Exact /\ Len(record) < room /\ ~Fails(r.calls)
                    -> Api!Error("BufferUnderflow")
               [] OTHER -> Api!Answer("Ok",
                             CASE r.api = "size"         -> << >>
                               [] r.order = "Descending" -> ComplementBytes(record)
                               [] OTHER                  -> record,
                             IF r.api \in Api!Measured THEN Len(record) ELSE 0)
  BY ApiRecord, ApiFailing DEF Api!Outcome
<1> HIDE DEF record, room, e
<1>7. r.api \in Api!Exact /\ Len(record) <= room => Len(record) = room \/ Len(record) < room
  BY <1>3, <1>5
<1>8. ~(Len(record) <= room /\ Len(record) > room)
  BY <1>3, <1>5
<1>9. ASSUME ~(r.api = "vec" /\ Fails(r.first)), Len(record) > room
      PROVE  Api!Outcome(r) = Api!Error("BufferOverflow")
  <2>1. ~(Len(record) <= room) /\ ~(Len(record) < room)
    BY <1>3, <1>5, <1>9
  <2>2. QED
    BY <1>6, <1>9, <2>1
<1>10. ASSUME ~(r.api = "vec" /\ Fails(r.first)), Len(record) <= room, Fails(r.calls)
       PROVE  Api!Outcome(r) = Api!Error(Failure(r.calls))
  BY <1>6, <1>8, <1>10
<1>11. ASSUME ~(r.api = "vec" /\ Fails(r.first)), Len(record) <= room, ~Fails(r.calls),
              r.api \in Api!Exact, Len(record) # room
       PROVE  Api!Outcome(r) = Api!Error("BufferUnderflow")
  BY <1>6, <1>7, <1>8, <1>11
<1>12. ASSUME ~(r.api = "vec" /\ Fails(r.first)), Len(record) <= room, ~Fails(r.calls),
              ~(r.api \in Api!Exact /\ Len(record) # room)
       PROVE  Api!Outcome(r) = AnswerWith(r, record)
  <2>1. ~(r.api \in Api!Exact /\ Len(record) < room /\ ~Fails(r.calls))
    BY <1>3, <1>5, <1>12
  <2>2. Api!Outcome(r) = Api!Answer("Ok",
                             CASE r.api = "size"         -> << >>
                               [] r.order = "Descending" -> ComplementBytes(record)
                               [] OTHER                  -> record,
                             IF r.api \in Api!Measured THEN Len(record) ELSE 0)
    BY <1>6, <1>8, <1>12, <2>1
  <2>3. (CASE r.api = "size"         -> << >>
           [] r.order = "Descending" -> ComplementBytes(record)
           [] OTHER                  -> record) =
        IF r.api = "size" THEN << >>
        ELSE IF r.order = "Descending" THEN ComplementBytes(record) ELSE record
    <3>1. ~(r.api = "size" /\ r.order = "Descending")
      BY DEF RequestIs
    <3>2. QED
      BY <3>1
  <2>4. QED
    BY <2>2, <2>3 DEF AnswerWith
<1>13. r.api = "vec" /\ Fails(r.first) => Api!Outcome(r) = Api!Error(Failure(r.first))
  BY <1>6
<1>14. QED
  BY <1>2, <1>3, <1>5, <1>7, <1>9, <1>10, <1>11, <1>12, <1>13 DEF OutcomeIs

-----------------------------------------------------------------------------

(* The inductive invariant.                                                 *)

\* The writer of the request has no tail.
headed == HeadedOf(request)

\* The calls of this pass that have been taken.
Taken(calls) == SubSeq(calls, 1, Len(calls) - Len(todo))

\* The buffer is two byte strings that fit into it.
Types ==
  /\ pc \in {"idle", "sizing", "serializing", "ordering", "done"}
  /\ size \in Nat /\ cap \in Nat /\ sealed \in BOOLEAN
  /\ front \in Seq(BitByte) /\ back \in Seq(BitByte)
  /\ Len(front) + Len(back) <= cap

Asked ==
  /\ pc = "idle" => request = Api!NoRequest
  /\ pc # "idle" => request \in Api!Request

\* The answer is the one the format and the room call for.
Answered ==
  /\ pc # "done" => answer = Api!NoAnswer
  /\ pc = "done" => answer = Api!Outcome(request)

\* Nothing is written before the size is known.
Fresh ==
  pc \in {"idle", "sizing"} =>
    /\ pend = << >> /\ front = << >> /\ back = << >> /\ sealed = FALSE
    /\ pc = "idle" => size = 0

\* The size so far is that of the calls taken.
Sizing ==
  pc = "sizing" =>
    /\ request.api \in {"vec", "size"}
    /\ Divided(request.first, Taken(request.first), todo)
    /\ size = SizeOfCalls(Taken(request.first))

\* The buffer has the size that was calculated, or that the caller gave.
Entered ==
  pc \in {"serializing", "ordering"} =>
    /\ request.api # "size"
    /\ request.api = "vec" => ~Fails(request.first)
    /\ request.api # "grow" => cap = RoomFor(request)

\* With the writes to come, the two ends are those of the record of the calls
\* taken.
Serializing ==
  pc = "serializing" =>
    /\ Divided(request.calls, Taken(request.calls), todo)
    /\ sealed = FALSE
    /\ pend \in Seq(PieceSet)
    /\ front \o FrontBytes(headed, pend) = FrontOf(EndFor(headed), Taken(request.calls))
    /\ BackBytes(headed, pend) \o back = BackOf(EndFor(headed), Taken(request.calls))

\* The record is whole, and where it must fill the buffer it does.
Ordering ==
  pc = "ordering" =>
    /\ ~Fails(request.calls)
    /\ front \o back = RecordOf(EndFor(headed), request.calls)
    /\ request.api \in Api!Exact => Len(front \o back) = cap
    /\ request.api \in {"buf", "head"} => ret.len = Len(front \o back)

Inv ==
  /\ Types /\ Asked /\ Answered /\ Fresh
  /\ Sizing /\ Entered /\ Serializing /\ Ordering

-----------------------------------------------------------------------------

\* What is in front of the rest is what has been taken.
LEMMA TakenIs ==
  ASSUME NEW calls, NEW taken, NEW rest, Divided(calls, taken, rest)
  PROVE  SubSeq(calls, 1, Len(calls) - Len(rest)) = taken
<1>1. taken \in Seq(CallSet) /\ rest \in Seq(CallSet) /\ calls = taken \o rest
  BY DEF Divided, Good
<1> DEFINE n == Len(taken)
           l == Len(rest)
<1>2. n \in Nat /\ l \in Nat
  BY <1>1, LenProperties
<1>3. Joined(taken, rest, CallSet)
  BY <1>1, Join
<1>4. /\ calls \in Seq(CallSet) /\ Len(calls) = n + l
      /\ \A i \in 1..n : calls[i] = taken[i]
  BY <1>1, <1>3 DEF Joined
<1>5. Len(calls) - l = n /\ n \in 0..Len(calls)
  BY <1>2, <1>4
<1>6. /\ SubSeq(calls, 1, n) \in Seq(CallSet) /\ Len(SubSeq(calls, 1, n)) = n
      /\ \A i \in 1..n : SubSeq(calls, 1, n)[i] = calls[i]
  BY <1>4, <1>5, CutElements
<1>7. SubSeq(calls, 1, n) = taken
  <2>1. \A i \in 1..n : SubSeq(calls, 1, n)[i] = taken[i]
    BY <1>4, <1>6
  <2> HIDE DEF n
  <2>2. Len(taken) = n
    BY DEF n
  <2>3. QED
    BY <1>1, <1>6, <2>1, <2>2, SeqEqual
<1>8. QED
  BY <1>5, <1>7, Zenon

\* A call that does not fail is taken.
LEMMA TakeNext ==
  ASSUME NEW calls, NEW taken, NEW rest, Divided(calls, taken, rest), rest # << >>
  PROVE  /\ Head(rest) \in CallSet
         /\ Head(rest).op # "fail" => /\ Head(rest) \in Good
                                      /\ Divided(calls, Append(taken, Head(rest)), Tail(rest))
<1> DEFINE c == Head(rest)
           t == Tail(rest)
<1>1. taken \in Seq(Good) /\ rest \in Seq(CallSet) /\ calls = taken \o rest
  BY DEF Divided
<1>2. c \in CallSet /\ t \in Seq(CallSet) /\ rest = <<c>> \o t
  BY <1>1, HeadAndTail
<1> HIDE DEF c, t
<1>3. ASSUME c.op # "fail"
      PROVE  c \in Good /\ Divided(calls, Append(taken, c), t)
  <2>1. c \in Good
    BY <1>2, <1>3 DEF Good
  <2>2. Append(taken, c) \in Seq(Good) /\ Append(taken, c) = taken \o <<c>>
    BY <1>1, <2>1, AppendProperties
  <2>3. taken \in Seq(CallSet) /\ <<c>> \in Seq(CallSet)
    BY <1>1, <1>2, Single DEF Good
  <2>4. Associates(taken, <<c>>, t)
    BY <1>2, <2>3, Association
  <2>5. calls = Append(taken, c) \o t
    BY <1>1, <1>2, <2>2, <2>4, Zenon DEF Associates
  <2>6. QED
    BY <1>2, <2>1, <2>2, <2>5 DEF Divided
<1>4. QED
  BY <1>2, <1>3 DEF c, t

\* Nothing has been taken at first.
LEMMA TakeNone ==
  ASSUME NEW calls \in Seq(CallSet)
  PROVE  Divided(calls, << >>, calls) /\ SubSeq(calls, 1, Len(calls) - Len(calls)) = << >>
<1>1. << >> \o calls = calls /\ << >> \in Seq(Good)
  BY ConcatEmptySeq, EmptySeq
<1>2. Divided(calls, << >>, calls)
  BY <1>1 DEF Divided
<1>3. QED
  BY <1>2, TakenIs

\* Nothing fits into no room.
LEMMA NothingFits ==
  /\ << >> \in Seq(BitByte) /\ \A n \in Nat : Len(<< >>) + Len(<< >>) <= n
<1>1. << >> \in Seq(BitByte) /\ Len(<< >>) = 0
  BY EmptySeq
<1>2. \A n \in Nat : 0 + 0 <= n
  OBVIOUS
<1>3. QED
  BY <1>1, <1>2, Zenon

\* Nothing has been asked for at first.
LEMMA InvInit == Init => Inv
<1> SUFFICES ASSUME Init PROVE Inv
  OBVIOUS
<1>1. << >> \in Seq(BitByte) /\ Len(<< >>) + Len(<< >>) <= 0
  <2>1. 0 \in Nat
    OBVIOUS
  <2>2. QED
    BY <2>1, NothingFits
<1>2. /\ pc = "idle" /\ todo = << >> /\ pend = << >> /\ size = 0 /\ cap = 0
      /\ front = << >> /\ back = << >> /\ sealed = FALSE
      /\ request = Api!NoRequest /\ answer = Api!NoAnswer
  BY DEF Init, Api!Init
<1>3. Types
  <2>1. 0 \in Nat /\ FALSE \in BOOLEAN /\ "idle" \in {"idle", "sizing", "serializing", "ordering", "done"}
    OBVIOUS
  <2>2. QED
    BY <1>1, <1>2, <2>1, Zenon DEF Types
<1>4. QED
  BY <1>2, <1>3 DEF Inv, Asked, Answered, Fresh, Sizing, Entered, Serializing, Ordering

\* A step that ends the call with the right answer.
LEMMA InvDone ==
  ASSUME Types', pc' = "done", request' = request, request \in Api!Request,
         answer' = Api!Outcome(request)
  PROVE  Inv'
BY DEF Inv, Asked, Answered, Fresh, Sizing, Entered, Serializing, Ordering

\* The invariant when writing begins, with nothing written.
LEMMA StartsSerializing ==
  ASSUME NEW r \in Api!Request, request' = r, pc' = "serializing", todo' = r.calls,
         pend' = << >>, front' = << >>, back' = << >>, sealed' = FALSE
  PROVE  Serializing'
<1>1. RequestIs(r)
  <2>1. r \in Api!Request
    OBVIOUS
  <2>2. QED
    BY <2>1, RequestType
<1>2. r.calls \in Seq(CallSet)
  BY <1>1 DEF RequestIs
<1>3. /\ Divided(r.calls, << >>, todo')
      /\ SubSeq(r.calls, 1, Len(r.calls) - Len(todo')) = << >>
  BY <1>2, TakeNone
<1>4. SUFFICES /\ Divided(r.calls, SubSeq(r.calls, 1, Len(r.calls) - Len(todo')), todo')
               /\ sealed' = FALSE
               /\ pend' \in Seq(PieceSet)
               /\ front' \o FrontBytes(HeadedOf(r), pend') =
                    FrontOf(EndFor(HeadedOf(r)), SubSeq(r.calls, 1, Len(r.calls) - Len(todo')))
               /\ BackBytes(HeadedOf(r), pend') \o back' =
                    BackOf(EndFor(HeadedOf(r)), SubSeq(r.calls, 1, Len(r.calls) - Len(todo')))
  BY DEF Serializing, Taken, headed
<1>5. HeadedOf(r) \in BOOLEAN
  BY DEF HeadedOf
<1>6. /\ FrontBytes(HeadedOf(r), << >>) = << >> /\ BackBytes(HeadedOf(r), << >>) = << >>
      /\ FrontOf(EndFor(HeadedOf(r)), << >>) = << >>
      /\ BackOf(EndFor(HeadedOf(r)), << >>) = << >>
  BY <1>5, PiecesEmpty, RecordEmpty
<1>7. << >> \o << >> = << >> /\ << >> \in Seq(PieceSet)
  BY EmptySeq
<1>8. QED
  BY <1>3, <1>6, <1>7, Zenon

\* An entry point begins with all calls to come.
LEMMA InvCall ==
  ASSUME Inv, Call
  PROVE  Inv'
<1> DEFINE r == request'
<1>1. /\ pc = "idle" /\ r \in Api!Request /\ answer' = answer /\ todo' = r.first
      /\ pc' = IF r.api \in {"vec", "size"} THEN "sizing" ELSE "serializing"
      /\ cap' = r.room /\ pend' = pend /\ size' = size /\ front' = front /\ back' = back
      /\ sealed' = sealed
  BY DEF Call, Api!Ask
<1>2. RequestIs(r)
  BY <1>1, RequestType
<1>3. /\ pend = << >> /\ front = << >> /\ back = << >> /\ sealed = FALSE /\ size = 0
      /\ answer = Api!NoAnswer
  BY <1>1 DEF Inv, Fresh, Answered
<1>4. Types'
  <2>1. r.room \in Nat
    BY <1>2 DEF RequestIs
  <2>2. << >> \in Seq(BitByte) /\ Len(<< >>) + Len(<< >>) <= r.room
    BY <2>1, NothingFits
  <2>3. /\ pc' \in {"idle", "sizing", "serializing", "ordering", "done"}
        /\ size' \in Nat /\ sealed' \in BOOLEAN
    BY <1>1, <1>3
  <2>4. front' = << >> /\ back' = << >> /\ cap' = r.room
    BY <1>1, <1>3
  <2>5. QED
    BY <2>1, <2>2, <2>3, <2>4, Zenon DEF Types
<1>5. Asked' /\ Answered' /\ Fresh' /\ Ordering'
  BY <1>1, <1>3 DEF Asked, Answered, Fresh, Ordering
<1>6. r.first \in Seq(CallSet)
  BY <1>2 DEF RequestIs
<1>7. Divided(r.first, << >>, r.first) /\ SubSeq(r.first, 1, Len(r.first) - Len(r.first)) = << >>
  BY <1>6, TakeNone
<1>8. Sizing'
  <2>1. SizeOfCalls(<< >>) = 0
    <3>1. FALSE \in BOOLEAN
      OBVIOUS
    <3>2. << >> \in Seq(Good) /\ RecordOf(EndFor(FALSE), << >>) = << >>
      BY <3>1, RecordEmpty
    <3>3. RecordIs(FALSE, << >>)
      BY <3>1, <3>2, SizeOfRecord
    <3>4. SizeOfCalls(<< >>) = Len(RecordOf(EndFor(FALSE), << >>))
      BY <3>3 DEF RecordIs
    <3>5. Len(<< >>) = 0
      OBVIOUS
    <3>6. QED
      BY <3>2, <3>4, <3>5, Zenon
  <2>2. SubSeq(r.first, 1, Len(r.first) - Len(todo')) = << >>
    BY <1>1, <1>7, Zenon
  <2>3. pc' = "sizing" => r.api \in {"vec", "size"}
    BY <1>1
  <2>4. Divided(r.first, SubSeq(r.first, 1, Len(r.first) - Len(todo')), todo')
    BY <1>1, <1>7, <2>2, Zenon
  <2>5. size' = SizeOfCalls(SubSeq(r.first, 1, Len(r.first) - Len(todo')))
    BY <1>1, <1>3, <2>1, <2>2, Zenon
  <2>6. QED
    BY <2>3, <2>4, <2>5, Zenon DEF Sizing, Taken
<1>9. Entered'
  <2>1. pc' \in {"serializing", "ordering"} =>
          r.api \in {"buf", "exact", "head", "grow"}
    BY <1>1, <1>2 DEF RequestIs
  <2>2. r.api \in {"buf", "exact", "head"} => RoomFor(r) = r.room
    BY DEF RoomFor
  <2>3. QED
    BY <1>1, <2>1, <2>2 DEF Entered
<1>10. Serializing'
  <2>1. SUFFICES ASSUME pc' = "serializing" PROVE Serializing'
    BY DEF Serializing
  <2>2. r.first = r.calls
    BY <1>1, <1>2, <2>1 DEF RequestIs
  <2>3. request' = r /\ todo' = r.calls
    BY <1>1, <2>2, Zenon
  <2> HIDE DEF r
  <2>4. QED
    BY <1>1, <1>3, <2>1, <2>3, StartsSerializing
<1>11. QED
  BY <1>4, <1>5, <1>8, <1>9, <1>10 DEF Inv

-----------------------------------------------------------------------------

(* While the value is written.                                              *)

\* What the invariant says then of the request and of the room.
Filling ==
  LET taken == Taken(request.calls)
      used  == Len(front) + Len(back)
  IN /\ request \in Api!Request /\ RequestIs(request) /\ OutcomeIs(request)
     /\ ~(request.api = "vec" /\ Fails(request.first)) /\ headed \in BOOLEAN
     /\ Divided(request.calls, taken, todo) /\ Goes(request.calls, taken, todo)
     /\ taken \in Seq(Good) /\ RecordIs(headed, taken) /\ PiecesAre(headed, pend)
     /\ used \in Nat /\ SizeOfPieces(pend) \in Nat /\ SizeOfCalls(taken) \in Nat
     /\ used + SizeOfPieces(pend) = SizeOfCalls(taken)
     /\ SizeOfCalls(taken) <= Len(Record(request))
     /\ BeforeFail(request.calls) = taken => SizeOfCalls(taken) = Len(Record(request))

\* The room the record takes is that of the calls before the one that fails.
LEMMA RecordSize ==
  ASSUME NEW r, RequestIs(r)
  PROVE  /\ Len(Record(r)) = SizeOfCalls(BeforeFail(r.calls)) /\ Len(Record(r)) \in Nat
         /\ r.api = "vec" => RoomFor(r) = SizeOfCalls(BeforeFail(r.first))
<1>1. BeforeFail(r.calls) \in Seq(Good) /\ BeforeFail(r.first) \in Seq(Good)
  BY StopsWithin DEF RequestIs
<1>2. HeadedOf(r) \in BOOLEAN /\ FALSE \in BOOLEAN /\ EndFor(FALSE) = LenEnd
  BY DEF HeadedOf, EndFor
<1>3. RecordIs(HeadedOf(r), BeforeFail(r.calls)) /\ RecordIs(FALSE, BeforeFail(r.first))
  BY <1>1, <1>2, SizeOfRecord
<1>4. Len(Record(r)) = SizeOfCalls(BeforeFail(r.calls)) /\ Len(Record(r)) \in Nat
  BY <1>3, Zenon DEF RecordIs, Record
<1>5. Len(RecordOf(LenEnd, BeforeFail(r.first))) = SizeOfCalls(BeforeFail(r.first))
  BY <1>2, <1>3, Zenon DEF RecordIs
<1>6. QED
  BY <1>4, <1>5 DEF RoomFor

\* It follows from the invariant.
LEMMA InvFilling ==
  ASSUME Inv, pc = "serializing"
  PROVE  Filling
<1> DEFINE taken == Taken(request.calls)
           e == EndFor(headed)
           f == FrontBytes(headed, pend)
           b == BackBytes(headed, pend)
           F == FrontOf(e, taken)
           B == BackOf(e, taken)
<1>1. request \in Api!Request
  BY DEF Inv, Asked
<1>2. RequestIs(request)
  BY <1>1, RequestType
<1>3. OutcomeIs(request)
  BY <1>2, OutcomeCases
<1>4. /\ Divided(request.calls, taken, todo) /\ pend \in Seq(PieceSet)
      /\ front \o f = F /\ b \o back = B
  BY DEF Inv, Serializing
<1>5. headed \in BOOLEAN
  BY DEF headed, HeadedOf
<1>6. ~(request.api = "vec" /\ Fails(request.first))
  BY DEF Inv, Entered
<1> HIDE DEF taken
<1>7. Goes(request.calls, taken, todo) /\ taken \in Seq(Good)
  BY <1>4, GoesOn DEF Divided
<1>8. RecordIs(headed, taken)
  BY <1>5, <1>7, SizeOfRecord
<1>9. PiecesAre(headed, pend)
  BY <1>4, <1>5, PiecesType
<1>10. f \in Seq(BitByte) /\ b \in Seq(BitByte) /\ SizeOfPieces(pend) = Len(f) + Len(b)
  BY <1>9 DEF PiecesAre
<1>11. SizeOfCalls(taken) = Len(F) + Len(B) /\ SizeOfCalls(taken) \in Nat
  BY <1>8, Zenon DEF RecordIs
<1>12. front \in Seq(BitByte) /\ back \in Seq(BitByte)
  BY DEF Inv, Types
<1> HIDE DEF f, b, F, B
<1>13. Len(front \o f) = Len(front) + Len(f) /\ Len(b \o back) = Len(b) + Len(back)
  BY <1>10, <1>12, ConcatProperties
<1>14. Len(front) \in Nat /\ Len(back) \in Nat /\ Len(f) \in Nat /\ Len(b) \in Nat
  BY <1>10, <1>12, LenProperties
<1>15. /\ Len(front) + Len(back) \in Nat /\ SizeOfPieces(pend) \in Nat
       /\ (Len(front) + Len(back)) + SizeOfPieces(pend) = SizeOfCalls(taken)
  <2>1. Len(F) = Len(front) + Len(f) /\ Len(B) = Len(b) + Len(back)
    BY <1>4, <1>13, Zenon
  <2>2. QED
    BY <1>10, <1>11, <1>14, <2>1
<1>16. SizeOfCalls(taken) <= Len(Record(request))
  <2>1. PICK z \in Seq(Good) : BeforeFail(request.calls) = taken \o z
    BY <1>7 DEF Goes
  <2>2. SizeOfCalls(taken \o z) = SizeOfCalls(taken) + SizeOfCalls(z)
    BY <1>7, SizesAdd
  <2>3. RecordIs(headed, z)
    BY <1>5, SizeOfRecord
  <2>4. SizeOfCalls(z) \in Nat
    BY <2>3, Zenon DEF RecordIs
  <2>5. Len(Record(request)) = SizeOfCalls(taken) + SizeOfCalls(z)
    BY <1>2, <2>1, <2>2, RecordSize
  <2>6. QED
    BY <1>11, <2>4, <2>5
<1>17. BeforeFail(request.calls) = taken => SizeOfCalls(taken) = Len(Record(request))
  BY <1>2, RecordSize
<1>18. QED
  BY <1>1, <1>2, <1>3, <1>4, <1>5, <1>6, <1>7, <1>8, <1>9, <1>11, <1>15, <1>16, <1>17, Zenon
     DEF Filling, taken

\* An error ends the call with the buffer as it is.
LEMMA FailsWith ==
  ASSUME Inv, NEW err, FinishWith(err), UNCHANGED <<request, store, size>>,
         request \in Api!Request, Api!Outcome(request) = Api!Error(err)
  PROVE  Inv'
<1>1. answer' = Api!Outcome(request) /\ pc' = "done"
  BY DEF FinishWith, Finish, Api!Error
<1>2. Types'
  BY <1>1 DEF Inv, Types, store
<1>3. QED
  BY <1>1, <1>2, InvDone

-----------------------------------------------------------------------------

(* The steps of the entry points.                                           *)

\* The size calculation takes a call.
LEMMA InvSizeCall ==
  ASSUME Inv, SizeCall
  PROVE  Inv'
<1> DEFINE r == request
           c == Head(todo)
           taken == Taken(r.first)
<1>1. /\ pc = "sizing" /\ todo # << >> /\ todo' = Tail(todo) /\ request' = request
      /\ pend' = pend /\ store' = store
      /\ \/ c.op = "fail" /\ FinishWith(c.err) /\ size' = size
         \/ c.op # "fail" /\ size' = size + Size(c) /\ pc' = pc /\ answer' = answer
  BY DEF SizeCall
<1>2. /\ r \in Api!Request /\ r.api \in {"vec", "size"} /\ Divided(r.first, taken, todo)
      /\ size = SizeOfCalls(taken) /\ Types
  BY <1>1 DEF Inv, Asked, Sizing
<1> HIDE DEF taken
<1>3. RequestIs(r) /\ Goes(r.first, taken, todo)
  BY <1>2, RequestType, GoesOn
<1>4. OutcomeIs(r)
  BY <1>3, OutcomeCases
<1>5. CASE c.op = "fail"
  <2>1. FinishWith(c.err) /\ size' = size
    BY <1>1, <1>5
  <2>2. Fails(r.first) /\ Failure(r.first) = c.err
    BY <1>1, <1>3, <1>5 DEF Goes
  <2>3. r.api = "vec" => Api!Outcome(r) = Api!Error(c.err)
    BY <1>4, <2>2 DEF OutcomeIs
  <2>4. r.api = "size" => Api!Outcome(r) = Api!Error(c.err)
    <3>1. SUFFICES ASSUME r.api = "size" PROVE Api!Outcome(r) = Api!Error(c.err)
      OBVIOUS
    <3>2. r.first = r.calls
      BY <1>3, <3>1 DEF RequestIs
    <3>3. RoomFor(r) = Len(Record(r))
      BY <3>1 DEF RoomFor
    <3>4. Len(Record(r)) \in Nat
      BY <1>4 DEF OutcomeIs
    <3>5. Len(Record(r)) <= RoomFor(r)
      BY <3>3, <3>4
    <3>6. Fails(r.calls) /\ Failure(r.calls) = c.err
      BY <2>2, <3>2, Zenon
    <3>7. QED
      BY <1>4, <3>1, <3>5, <3>6 DEF OutcomeIs
  <2>5. Api!Outcome(r) = Api!Error(c.err)
    BY <1>2, <2>3, <2>4
  <2>6. QED
    BY <1>1, <1>2, <2>1, <2>5, FailsWith
<1>6. CASE c.op # "fail"
  <2>1. size' = size + Size(c) /\ pc' = pc /\ answer' = answer
    BY <1>1, <1>6
  <2>2. c \in Good /\ Divided(r.first, Append(taken, c), todo')
    BY <1>1, <1>2, <1>6, TakeNext
  <2>3. SubSeq(r.first, 1, Len(r.first) - Len(todo')) = Append(taken, c)
    BY <2>2, TakenIs
  <2>4. taken \in Seq(Good)
    BY <1>2 DEF Divided
  <2>5. SizeOfCalls(Append(taken, c)) = SizeOfCalls(taken) + Size(c) /\ Size(c) \in Nat
    BY <2>2, <2>4, SizeAppend
  <2>6. size' = SizeOfCalls(Append(taken, c)) /\ size' \in Nat
    <3>1. size \in Nat
      BY <1>2 DEF Types
    <3>2. QED
      BY <1>2, <2>1, <2>5, <3>1
  <2>7. Types'
    BY <1>1, <1>2, <2>1, <2>6 DEF Types, store
  <2>8. Sizing'
    <3>1. Divided(r.first, SubSeq(r.first, 1, Len(r.first) - Len(todo')), todo')
      BY <2>2, <2>3, Zenon
    <3>2. size' = SizeOfCalls(SubSeq(r.first, 1, Len(r.first) - Len(todo')))
      BY <2>3, <2>6, Zenon
    <3>3. QED
      BY <1>1, <1>2, <3>1, <3>2 DEF Sizing, Taken
  <2>9. Asked' /\ Answered' /\ Fresh' /\ Entered' /\ Serializing' /\ Ordering'
    BY <1>1, <2>1 DEF Inv, Asked, Answered, Fresh, Entered, Serializing, Ordering, store
  <2>10. QED
    BY <2>7, <2>8, <2>9 DEF Inv
<1>7. QED
  BY <1>5, <1>6

\* When all calls have been taken the size is that of the value.
LEMMA SizeKnown ==
  ASSUME Inv, pc = "sizing", todo = << >>
  PROVE  /\ request \in Api!Request /\ RequestIs(request) /\ OutcomeIs(request)
         /\ ~Fails(request.first) /\ BeforeFail(request.first) = request.first
         /\ size = SizeOfCalls(request.first) /\ size \in Nat
<1> DEFINE r == request
           taken == Taken(r.first)
<1>1. /\ r \in Api!Request /\ Divided(r.first, taken, todo)
      /\ size = SizeOfCalls(taken) /\ size \in Nat
  BY DEF Inv, Asked, Sizing, Types
<1> HIDE DEF taken
<1>2. RequestIs(r) /\ Goes(r.first, taken, todo)
  BY <1>1, RequestType, GoesOn
<1>3. OutcomeIs(r)
  BY <1>2, OutcomeCases
<1>4. ~Fails(r.first) /\ BeforeFail(r.first) = r.first /\ r.first = taken
  BY <1>2 DEF Goes
<1>5. size = SizeOfCalls(r.first)
  BY <1>1, <1>4, Zenon
<1>6. QED
  BY <1>1, <1>2, <1>3, <1>4, <1>5

\* calc_size is answered.
LEMMA InvMeasure ==
  ASSUME Inv, Measure
  PROVE  Inv'
<1> DEFINE r == request
<1>1. /\ pc = "sizing" /\ todo = << >> /\ r.api = "size" /\ Finish("Ok", << >>, size)
      /\ request' = request /\ size' = size /\ store' = store
  BY DEF Measure
<1>2. /\ r \in Api!Request /\ RequestIs(r) /\ OutcomeIs(r)
      /\ ~Fails(r.first) /\ BeforeFail(r.first) = r.first /\ size = SizeOfCalls(r.first)
  BY <1>1, SizeKnown
<1>3. r.first = r.calls
  BY <1>1, <1>2 DEF RequestIs
<1>4. Len(Record(r)) = size /\ Len(Record(r)) \in Nat
  <2>1. Len(Record(r)) = SizeOfCalls(BeforeFail(r.calls)) /\ Len(Record(r)) \in Nat
    BY <1>2, RecordSize
  <2>2. SizeOfCalls(BeforeFail(r.calls)) = size
    BY <1>2, <1>3, Zenon
  <2>3. QED
    BY <2>1, <2>2, Zenon
<1>5. RoomFor(r) = Len(Record(r))
  BY <1>1 DEF RoomFor
<1>6. Len(Record(r)) <= RoomFor(r) /\ ~Fails(r.calls) /\ ~(r.api \in Api!Exact)
  BY <1>1, <1>2, <1>3, <1>4, <1>5 DEF Api!Exact
<1>7. Api!Outcome(r) = AnswerWith(r, Record(r))
  BY <1>1, <1>2, <1>6 DEF OutcomeIs
<1>8. AnswerWith(r, Record(r)) = Api!Answer("Ok", << >>, size)
  BY <1>1, <1>4, Zenon DEF AnswerWith, Api!Measured
<1>9. answer' = Api!Outcome(r) /\ pc' = "done"
  BY <1>1, <1>7, <1>8 DEF Finish
<1>10. Types'
  BY <1>1, <1>9 DEF Inv, Types, store
<1>11. QED
  BY <1>1, <1>2, <1>9, <1>10, InvDone

\* The vector is allocated.
LEMMA InvAllocate ==
  ASSUME Inv, Allocate
  PROVE  Inv'
<1> DEFINE r == request
<1>1. /\ pc = "sizing" /\ todo = << >> /\ r.api = "vec" /\ cap' = size /\ todo' = r.calls
      /\ pc' = "serializing" /\ request' = request /\ pend' = pend /\ size' = size
      /\ front' = front /\ back' = back /\ sealed' = sealed /\ answer' = answer
  BY DEF Allocate
<1>2. /\ r \in Api!Request /\ RequestIs(r) /\ ~Fails(r.first)
      /\ BeforeFail(r.first) = r.first /\ size = SizeOfCalls(r.first) /\ size \in Nat
  BY <1>1, SizeKnown
<1>3. /\ pend = << >> /\ front = << >> /\ back = << >> /\ sealed = FALSE
      /\ answer = Api!NoAnswer
  BY <1>1 DEF Inv, Fresh, Answered
<1>4. RoomFor(r) = size
  <2>1. RoomFor(r) = SizeOfCalls(BeforeFail(r.first))
    BY <1>1, <1>2, RecordSize
  <2>2. QED
    BY <1>2, <2>1, Zenon
<1>5. Types'
  <2>1. << >> \in Seq(BitByte) /\ Len(<< >>) + Len(<< >>) <= size
    BY <1>2, NothingFits
  <2>2. /\ pc' \in {"idle", "sizing", "serializing", "ordering", "done"}
        /\ size' \in Nat /\ sealed' \in BOOLEAN /\ cap' \in Nat
    BY <1>1, <1>2, <1>3
  <2>3. front' = << >> /\ back' = << >> /\ cap' = size
    BY <1>1, <1>3
  <2>4. QED
    BY <2>1, <2>2, <2>3, Zenon DEF Types
<1>6. Asked' /\ Answered' /\ Fresh' /\ Sizing' /\ Ordering'
  BY <1>1, <1>2, <1>3 DEF Asked, Answered, Fresh, Sizing, Ordering
<1>7. Entered'
  BY <1>1, <1>2, <1>4 DEF Entered
<1>8. Serializing'
  BY <1>1, <1>2, <1>3, StartsSerializing
<1>9. QED
  BY <1>5, <1>6, <1>7, <1>8 DEF Inv

\* An error while the value is written that leaves the buffer as it is is the
\* answer where it is that of the request.
LEMMA InvFails ==
  ASSUME Inv, Filling, NEW err, FinishWith(err), request' = request,
         cap' = cap, front' = front, back' = back, sealed' = sealed, size' = size,
         Api!Outcome(request) = Api!Error(err)
  PROVE  Inv'
<1>1. answer' = Api!Outcome(request) /\ pc' = "done"
  BY DEF FinishWith, Finish, Api!Error
<1>2. Types'
  BY <1>1 DEF Inv, Types
<1>3. request \in Api!Request
  BY DEF Filling
<1>4. QED
  BY <1>1, <1>2, <1>3, InvDone

\* The room of a request that is not for a vector that grows is that of the
\* buffer.
LEMMA RoomIsCap ==
  ASSUME Inv, pc = "serializing"
  PROVE  /\ cap \in Nat /\ Len(front) + Len(back) <= cap
         /\ request.api # "grow" => RoomFor(request) = cap
         /\ request.api = "grow" => RoomFor(request) = Len(Record(request))
<1>1. cap \in Nat /\ Len(front) + Len(back) <= cap
  BY DEF Inv, Types
<1>2. request.api # "grow" => RoomFor(request) = cap
  BY DEF Inv, Entered
<1>3. request.api = "grow" => RoomFor(request) = Len(Record(request))
  BY DEF RoomFor
<1>4. QED
  BY <1>1, <1>2, <1>3

\* A call hands over its writes, or fails.
LEMMA InvSerializeCall ==
  ASSUME Inv, SerializeCall
  PROVE  Inv'
<1> DEFINE r == request
           c == Head(todo)
           taken == Taken(r.calls)
           e == EndFor(headed)
<1>1. /\ pc = "serializing" /\ pend = << >> /\ todo # << >> /\ todo' = Tail(todo)
      /\ request' = request /\ size' = size /\ store' = store
      /\ \/ c.op = "fail" /\ FinishWith(c.err) /\ pend' = pend
         \/ c.op # "fail" /\ pend' = Pieces(LenEnd, c) /\ pc' = pc /\ answer' = answer
  BY DEF SerializeCall
<1>2. /\ cap' = cap /\ front' = front /\ back' = back /\ sealed' = sealed /\ ret' = ret
  BY <1>1 DEF store
<1>3. Filling
  BY <1>1, InvFilling
<1>4. /\ r \in Api!Request /\ RequestIs(r) /\ OutcomeIs(r)
      /\ ~(r.api = "vec" /\ Fails(r.first)) /\ headed \in BOOLEAN
      /\ Divided(r.calls, taken, todo) /\ Goes(r.calls, taken, todo) /\ taken \in Seq(Good)
  BY <1>3, Zenon DEF Filling
<1>5. /\ front \o FrontBytes(headed, pend) = FrontOf(e, taken)
      /\ BackBytes(headed, pend) \o back = BackOf(e, taken)
      /\ sealed = FALSE /\ front \in Seq(BitByte) /\ back \in Seq(BitByte)
  BY <1>1, Zenon DEF Inv, Serializing, Types
<1>6. front = FrontOf(e, taken) /\ back = BackOf(e, taken)
  <2>1. FrontBytes(headed, pend) = << >> /\ BackBytes(headed, pend) = << >>
    BY <1>1, <1>4, PiecesEmpty
  <2>2. front \o << >> = front /\ << >> \o back = back
    BY <1>5, ConcatEmptySeq
  <2>3. QED
    BY <1>5, <2>1, <2>2, Zenon
<1>7. CASE c.op = "fail"
  <2>1. Fails(r.calls) /\ BeforeFail(r.calls) = taken /\ Failure(r.calls) = c.err
    BY <1>1, <1>4, <1>7 DEF Goes
  <2>2. SizeOfCalls(taken) = Len(Record(r))
    BY <1>3, <2>1 DEF Filling
  <2>3. Len(front) + Len(back) = Len(Record(r))
    <3>1. SizeOfCalls(taken) = Len(FrontOf(e, taken)) + Len(BackOf(e, taken))
      <4>1. RecordIs(headed, taken)
        BY <1>3 DEF Filling
      <4>2. QED
        BY <4>1, Zenon DEF RecordIs
    <3>2. QED
      BY <1>6, <2>2, <3>1, Zenon
  <2>4. Len(Record(r)) <= RoomFor(r)
    <3>1. Len(Record(r)) \in Nat
      BY <1>4 DEF OutcomeIs
    <3>2. QED
      BY <1>1, <2>3, <3>1, RoomIsCap
  <2>5. Api!Outcome(r) = Api!Error(c.err)
    <3>1. Api!Outcome(r) = Api!Error(Failure(r.calls))
      BY <1>4, <2>1, <2>4 DEF OutcomeIs
    <3>2. QED
      BY <2>1, <3>1, Zenon
  <2>6. FinishWith(c.err)
    BY <1>1, <1>7
  <2>7. QED
    BY <1>1, <1>2, <1>3, <2>5, <2>6, InvFails
<1>8. CASE c.op # "fail"
  <2> DEFINE more == Append(taken, c)
             ps == Pieces(LenEnd, c)
  <2>1. pend' = ps /\ pc' = pc /\ answer' = answer
    BY <1>1, <1>8
  <2>2. c \in Good /\ Divided(r.calls, more, todo')
    BY <1>1, <1>4, <1>8, TakeNext
  <2>3. SubSeq(r.calls, 1, Len(r.calls) - Len(todo')) = more
    BY <2>2, TakenIs
  <2>4. Grows(e, taken, c)
    BY <1>4, <2>2, RecordAppend
  <2>5. CallIs(headed, c)
    BY <1>4, <2>2, CallPieces
  <2>6. ps \in Seq(PieceSet)
    BY <2>5 DEF CallIs
  <2>7. front \o FrontBytes(headed, ps) = FrontOf(e, more)
    BY <1>6, <2>4, <2>5, Zenon DEF CallIs, Grows
  <2>8. BackBytes(headed, ps) \o back = BackOf(e, more)
    BY <1>6, <2>4, <2>5, Zenon DEF CallIs, Grows
  <2>9. HeadedOf(request') = headed
    BY <1>1 DEF headed
  <2> HIDE DEF ps, more
  <2>10. Serializing'
    <3>1. SUFFICES /\ Divided(r.calls, SubSeq(r.calls, 1, Len(r.calls) - Len(todo')), todo')
                   /\ sealed' = FALSE
                   /\ pend' \in Seq(PieceSet)
                   /\ front' \o FrontBytes(headed, pend') =
                        FrontOf(e, SubSeq(r.calls, 1, Len(r.calls) - Len(todo')))
                   /\ BackBytes(headed, pend') \o back' =
                        BackOf(e, SubSeq(r.calls, 1, Len(r.calls) - Len(todo')))
      BY <1>1 DEF Serializing, Taken, headed
    <3>2. QED
      BY <1>2, <1>5, <2>1, <2>2, <2>3, <2>6, <2>7, <2>8, Zenon
  <2>11. Types' /\ Asked' /\ Answered' /\ Fresh' /\ Sizing' /\ Entered' /\ Ordering'
    BY <1>1, <1>2, <2>1
       DEF Inv, Types, Asked, Answered, Fresh, Sizing, Entered, Ordering
  <2>12. QED
    BY <2>10, <2>11 DEF Inv
<1>9. QED
  BY <1>7, <1>8

\* A step that adds bytes to the front and to the back, and leaves the rest of
\* the call to be written.
Adds(x, y) ==
  /\ pc = "serializing" /\ pend # << >>
  /\ x = AtFront(headed, Head(pend)) /\ y = AtBack(headed, Head(pend))
  /\ front' = front \o x /\ back' = y \o back /\ pend' = Tail(pend)
  /\ Len(front \o x) + Len(y \o back) <= cap' /\ cap' \in Nat
  /\ request.api # "grow" => cap' = cap
  /\ sealed' = sealed
  /\ UNCHANGED <<request, pc, todo, size, answer>>

\* A write that is taken keeps the invariant.
LEMMA InvAdds ==
  ASSUME Inv, NEW x, NEW y, Adds(x, y)
  PROVE  Inv'
<1> DEFINE r == request
           p == Head(pend)
           t == Tail(pend)
           taken == Taken(r.calls)
           e == EndFor(headed)
<1>1. /\ pc = "serializing" /\ pend # << >> /\ pend' = t
      /\ x = AtFront(headed, p) /\ y = AtBack(headed, p)
      /\ front' = front \o x /\ back' = y \o back
      /\ Len(front \o x) + Len(y \o back) <= cap' /\ cap' \in Nat
      /\ r.api # "grow" => cap' = cap
      /\ sealed' = sealed /\ request' = request /\ pc' = pc /\ todo' = todo /\ size' = size
      /\ answer' = answer
  BY DEF Adds
<1>2. /\ Divided(r.calls, taken, todo) /\ pend \in Seq(PieceSet) /\ sealed = FALSE
      /\ front \o FrontBytes(headed, pend) = FrontOf(e, taken)
      /\ BackBytes(headed, pend) \o back = BackOf(e, taken)
      /\ front \in Seq(BitByte) /\ back \in Seq(BitByte)
  BY <1>1, Zenon DEF Inv, Serializing, Types
<1>3. headed \in BOOLEAN
  BY DEF headed, HeadedOf
<1>4. FirstPiece(headed, pend)
  BY <1>1, <1>2, <1>3, PiecesFirst
<1>5. /\ t \in Seq(PieceSet) /\ x \in Seq(BitByte) /\ y \in Seq(BitByte)
      /\ FrontBytes(headed, pend) = x \o FrontBytes(headed, t)
      /\ BackBytes(headed, pend) = BackBytes(headed, t) \o y
  BY <1>1, <1>4 DEF FirstPiece
<1> HIDE DEF p, t, taken
<1>6. PiecesAre(headed, t)
  BY <1>3, <1>5, PiecesType
<1>7. FrontBytes(headed, t) \in Seq(BitByte) /\ BackBytes(headed, t) \in Seq(BitByte)
  BY <1>6 DEF PiecesAre
<1>8. (front \o x) \o FrontBytes(headed, t) = FrontOf(e, taken)
  <2>1. Associates(front, x, FrontBytes(headed, t))
    BY <1>2, <1>5, <1>7, Association
  <2>2. QED
    BY <1>2, <1>5, <2>1, Zenon DEF Associates
<1>9. BackBytes(headed, t) \o (y \o back) = BackOf(e, taken)
  <2>1. Associates(BackBytes(headed, t), y, back)
    BY <1>2, <1>5, <1>7, Association
  <2>2. QED
    BY <1>2, <1>5, <2>1, Zenon DEF Associates
<1>10. front \o x \in Seq(BitByte) /\ y \o back \in Seq(BitByte)
  BY <1>2, <1>5, ConcatProperties
<1>11. Types'
  <2>1. pc' \in {"idle", "sizing", "serializing", "ordering", "done"}
    BY <1>1
  <2>2. size' \in Nat /\ sealed' \in BOOLEAN
    BY <1>1 DEF Inv, Types
  <2>3. QED
    BY <1>1, <1>10, <2>1, <2>2, Zenon DEF Types
<1>12. Serializing'
  <2>1. SUFFICES /\ Divided(r.calls, SubSeq(r.calls, 1, Len(r.calls) - Len(todo')), todo')
                 /\ sealed' = FALSE
                 /\ pend' \in Seq(PieceSet)
                 /\ front' \o FrontBytes(headed, pend') =
                      FrontOf(e, SubSeq(r.calls, 1, Len(r.calls) - Len(todo')))
                 /\ BackBytes(headed, pend') \o back' =
                      BackOf(e, SubSeq(r.calls, 1, Len(r.calls) - Len(todo')))
    BY <1>1 DEF Serializing, Taken, headed
  <2>2. SubSeq(r.calls, 1, Len(r.calls) - Len(todo')) = taken
    BY <1>1 DEF taken, Taken
  <2>3. QED
    BY <1>1, <1>2, <1>5, <1>8, <1>9, <2>2, Zenon
<1>13. Asked' /\ Answered' /\ Fresh' /\ Sizing' /\ Ordering'
  BY <1>1 DEF Inv, Asked, Answered, Fresh, Sizing, Ordering
<1>14. Entered'
  BY <1>1 DEF Inv, Entered, RoomFor, Record, HeadedOf
<1>15. QED
  BY <1>11, <1>12, <1>13, <1>14 DEF Inv

\* A piece goes to the front or to the back.
LEMMA PieceGoes ==
  ASSUME NEW p \in PieceSet
  PROVE  /\ p.bytes \in Seq(BitByte)
         /\ EndOf(p) = "front" => AtFront(headed, p) = p.bytes /\ AtBack(headed, p) = << >>
         /\ EndOf(p) # "front" => AtFront(headed, p) = << >> /\ AtBack(headed, p) = p.bytes
         /\ request.api = "grow" => EndOf(p) = "front"
<1>1. p.bytes \in Seq(BitByte)
  BY DEF PieceSet
<1>2. headed <=> request.api \in Api!Headed
  BY DEF headed, HeadedOf
<1>3. EndOf(p) = "front" <=> headed \/ p.end = "front"
  BY <1>2 DEF EndOf
<1>4. request.api = "grow" => EndOf(p) = "front"
  BY DEF EndOf, Api!Headed
<1>5. QED
  BY <1>1, <1>3, <1>4 DEF AtFront, AtBack

\* A piece is part of what is pending.
LEMMA PiecesRoom ==
  ASSUME NEW h \in BOOLEAN, NEW pieces \in Seq(PieceSet), pieces # << >>
  PROVE  /\ Len(Head(pieces).bytes) \in Nat /\ SizeOfPieces(pieces) \in Nat
         /\ Len(Head(pieces).bytes) <= SizeOfPieces(pieces)
<1> DEFINE p == Head(pieces)
           t == Tail(pieces)
           x == AtFront(h, p)
           y == AtBack(h, p)
           f == FrontBytes(h, t)
           b == BackBytes(h, t)
<1>1. FirstPiece(h, pieces)
  BY PiecesFirst
<1>2. /\ p \in PieceSet /\ t \in Seq(PieceSet) /\ x \in Seq(BitByte) /\ y \in Seq(BitByte)
      /\ FrontBytes(h, pieces) = x \o f /\ BackBytes(h, pieces) = b \o y
  BY <1>1 DEF FirstPiece
<1>3. PiecesAre(h, pieces) /\ PiecesAre(h, t)
  BY <1>2, PiecesType
<1>4. /\ f \in Seq(BitByte) /\ b \in Seq(BitByte)
      /\ SizeOfPieces(pieces) = Len(x \o f) + Len(b \o y)
  BY <1>2, <1>3 DEF PiecesAre
<1>5. p.bytes \in Seq(BitByte) /\ (x = p.bytes \/ y = p.bytes)
  BY <1>2 DEF PieceSet, AtFront, AtBack
<1> HIDE DEF p, t, x, y, f, b
<1>6. Len(x \o f) = Len(x) + Len(f) /\ Len(b \o y) = Len(b) + Len(y)
  BY <1>2, <1>4, ConcatProperties
<1>7. /\ Len(x) \in Nat /\ Len(y) \in Nat /\ Len(f) \in Nat /\ Len(b) \in Nat
      /\ Len(p.bytes) \in Nat
  BY <1>2, <1>4, <1>5, LenProperties
<1>8. Len(p.bytes) = Len(x) \/ Len(p.bytes) = Len(y)
  BY <1>5
<1>9. Len(p.bytes) <= SizeOfPieces(pieces) /\ SizeOfPieces(pieces) \in Nat
  BY <1>4, <1>6, <1>7, <1>8
<1>10. QED
  BY <1>7, <1>9 DEF p

\* The buffer takes a piece.
LEMMA InvTake ==
  ASSUME Inv, pc = "serializing", pend # << >>, Take(Head(pend)), pend' = Tail(pend),
         UNCHANGED <<request, pc, todo, size, answer>>
  PROVE  Inv'
<1> DEFINE p == Head(pend)
<1>1. /\ pend \in Seq(PieceSet) /\ sealed = FALSE /\ cap \in Nat
      /\ front \in Seq(BitByte) /\ back \in Seq(BitByte)
      /\ Len(front) + Len(back) <= cap
  BY Zenon DEF Inv, Serializing, Types
<1>2. p \in PieceSet
  BY <1>1, HeadAndTail
<1>3. /\ p.bytes \in Seq(BitByte)
      /\ EndOf(p) = "front" => AtFront(headed, p) = p.bytes /\ AtBack(headed, p) = << >>
      /\ EndOf(p) # "front" => AtFront(headed, p) = << >> /\ AtBack(headed, p) = p.bytes
      /\ request.api = "grow" => EndOf(p) = "front"
  BY <1>2, PieceGoes
<1>4. front \o << >> = front /\ << >> \o back = back
  BY <1>1, ConcatEmptySeq
<1>5. /\ Len(front) \in Nat /\ Len(back) \in Nat /\ Len(p.bytes) \in Nat
  BY <1>1, <1>3, LenProperties
<1> HIDE DEF p
<1>6. /\ Len(front \o p.bytes) = Len(front) + Len(p.bytes)
      /\ Len(p.bytes \o back) = Len(p.bytes) + Len(back)
  BY <1>1, <1>3, ConcatProperties
<1>7. CASE request.api # "grow" /\ EndOf(p) = "front"
  <2>1. Store!PutFront(p.bytes)
    BY <1>7 DEF Take, p
  <2>2. /\ Len(p.bytes) <= cap - Len(front) - Len(back)
        /\ front' = front \o p.bytes /\ back' = back /\ cap' = cap /\ sealed' = sealed
    BY <1>1, <2>1 DEF Store!PutFront, Store!Room
  <2>3. Len(front \o p.bytes) + Len(back) <= cap
    BY <1>1, <1>5, <1>6, <2>2
  <2>4. Adds(p.bytes, << >>)
    BY <1>1, <1>3, <1>4, <1>7, <2>2, <2>3 DEF Adds, p
  <2>5. QED
    BY <2>4, InvAdds
<1>8. CASE request.api # "grow" /\ EndOf(p) # "front"
  <2>1. Store!PutBack(p.bytes)
    BY <1>8 DEF Take, p
  <2>2. /\ Len(p.bytes) <= cap - Len(front) - Len(back)
        /\ front' = front /\ back' = p.bytes \o back /\ cap' = cap /\ sealed' = sealed
    BY <1>1, <2>1 DEF Store!PutBack, Store!Room
  <2>3. Len(front) + Len(p.bytes \o back) <= cap
    BY <1>1, <1>5, <1>6, <2>2
  <2>4. Adds(<< >>, p.bytes)
    BY <1>1, <1>3, <1>4, <1>8, <2>2, <2>3 DEF Adds, p
  <2>5. QED
    BY <2>4, InvAdds
<1>9. CASE request.api = "grow"
  <2>1. /\ front' = front \o p.bytes /\ cap' = cap + Len(p.bytes) /\ back' = back
        /\ sealed' = sealed
    BY <1>9 DEF Take, p
  <2>2. Len(front \o p.bytes) + Len(back) <= cap' /\ cap' \in Nat
    BY <1>1, <1>5, <1>6, <2>1
  <2>3. Adds(p.bytes, << >>)
    BY <1>3, <1>4, <1>9, <2>1, <2>2 DEF Adds, p
  <2>4. QED
    BY <2>3, InvAdds
<1>10. QED
  BY <1>7, <1>8, <1>9

\* A write is taken, or refused for lack of room.
LEMMA InvWritePiece ==
  ASSUME Inv, WritePiece
  PROVE  Inv'
<1> DEFINE r == request
           p == Head(pend)
<1>1. /\ pc = "serializing" /\ pend # << >> /\ request' = request /\ todo' = todo
      /\ size' = size
      /\ \/ Take(p) /\ pend' = Tail(pend) /\ pc' = pc /\ answer' = answer
         \/ Decline(p) /\ FinishWith(ret'.err) /\ pend' = pend
  BY DEF WritePiece
<1>2. CASE Take(p) /\ pend' = Tail(pend) /\ pc' = pc /\ answer' = answer
  BY <1>1, <1>2, InvTake
<1>3. CASE Decline(p) /\ FinishWith(ret'.err) /\ pend' = pend
  <2>1. Filling /\ pend \in Seq(PieceSet) /\ sealed = FALSE
    BY <1>1, InvFilling DEF Inv, Serializing
  <2>2. /\ r.api # "grow" /\ Len(p.bytes) > cap - Len(front) - Len(back)
        /\ ret'.err = "BufferOverflow"
        /\ cap' = cap /\ front' = front /\ back' = back /\ sealed' = sealed
    <3>1. r.api # "grow" /\ Store!Refuse(IF EndOf(p) = "front" THEN "write" ELSE "write_tail", p.bytes)
      BY <1>3 DEF Decline
    <3>2. QED
      BY <2>1, <3>1 DEF Store!Refuse, Store!Room, Store!Reply
  <2>3. headed \in BOOLEAN /\ OutcomeIs(r) /\ ~(r.api = "vec" /\ Fails(r.first))
    BY <2>1, Zenon DEF Filling
  <2>4. Len(p.bytes) \in Nat /\ Len(p.bytes) <= SizeOfPieces(pend)
    BY <1>1, <2>1, <2>3, PiecesRoom
  <2>5. /\ Len(front) + Len(back) \in Nat /\ SizeOfPieces(pend) \in Nat
        /\ (Len(front) + Len(back)) + SizeOfPieces(pend) <= Len(Record(r))
    BY <2>1, Zenon DEF Filling
  <2>6. Len(Record(r)) > RoomFor(r)
    <3>1. RoomFor(r) = cap /\ cap \in Nat
      BY <1>1, <2>2, RoomIsCap
    <3>2. Len(front) \in Nat /\ Len(back) \in Nat /\ Len(Record(r)) \in Nat
      <4>1. front \in Seq(BitByte) /\ back \in Seq(BitByte)
        BY DEF Inv, Types
      <4>2. Len(Record(r)) \in Nat
        BY <2>3 DEF OutcomeIs
      <4>3. QED
        BY <4>1, <4>2, LenProperties
    <3> HIDE DEF p, r
    <3>3. QED
      BY <2>2, <2>4, <2>5, <3>1, <3>2
  <2>7. Api!Outcome(r) = Api!Error("BufferOverflow")
    BY <2>3, <2>6 DEF OutcomeIs
  <2>8. FinishWith("BufferOverflow")
    BY <1>3, <2>2
  <2>9. QED
    BY <1>1, <2>1, <2>2, <2>7, <2>8, InvFails
<1>4. QED
  BY <1>1, <1>2, <1>3

\* When the value is written the buffer holds the record of it.
LEMMA WrittenWhole ==
  ASSUME Inv, pc = "serializing", pend = << >>, todo = << >>
  PROVE  /\ request \in Api!Request /\ RequestIs(request) /\ OutcomeIs(request)
         /\ ~(request.api = "vec" /\ Fails(request.first)) /\ ~Fails(request.calls)
         /\ front \o back = RecordOf(EndFor(headed), request.calls)
         /\ Record(request) = front \o back
         /\ front \in Seq(BitByte) /\ back \in Seq(BitByte)
         /\ Len(front \o back) = Len(front) + Len(back)
         /\ Len(front) \in Nat /\ Len(back) \in Nat
<1> DEFINE r == request
           taken == Taken(r.calls)
           e == EndFor(headed)
<1>1. Filling
  BY InvFilling
<1>2. /\ r \in Api!Request /\ RequestIs(r) /\ OutcomeIs(r)
      /\ ~(r.api = "vec" /\ Fails(r.first)) /\ headed \in BOOLEAN
      /\ Goes(r.calls, taken, todo)
  BY <1>1, Zenon DEF Filling
<1>3. /\ front \o FrontBytes(headed, pend) = FrontOf(e, taken)
      /\ BackBytes(headed, pend) \o back = BackOf(e, taken)
      /\ front \in Seq(BitByte) /\ back \in Seq(BitByte)
  BY Zenon DEF Inv, Serializing, Types
<1>4. front = FrontOf(e, taken) /\ back = BackOf(e, taken)
  <2>1. FrontBytes(headed, pend) = << >> /\ BackBytes(headed, pend) = << >>
    BY <1>2, PiecesEmpty
  <2>2. front \o << >> = front /\ << >> \o back = back
    BY <1>3, ConcatEmptySeq
  <2>3. QED
    BY <1>3, <2>1, <2>2, Zenon
<1>5. ~Fails(r.calls) /\ r.calls = taken /\ BeforeFail(r.calls) = r.calls
  BY <1>2 DEF Goes
<1>6. front \o back = RecordOf(e, r.calls)
  BY <1>4, <1>5, Zenon DEF RecordOf
<1>7. Record(r) = front \o back
  BY <1>5, <1>6, Zenon DEF Record, headed
<1>8. /\ Len(front \o back) = Len(front) + Len(back)
      /\ Len(front) \in Nat /\ Len(back) \in Nat
  BY <1>3, ConcatProperties, LenProperties
<1>9. QED
  BY <1>2, <1>3, <1>5, <1>6, <1>7, <1>8, Zenon

\* The value is written: what is left to do is its order.
LEMMA InvWhole ==
  ASSUME Inv, pc = "serializing", pend = << >>, todo = << >>, pc' = "ordering",
         front' \in Seq(BitByte), back' \in Seq(BitByte), front' \o back' = front \o back,
         Len(front') + Len(back') <= cap, sealed' \in BOOLEAN, cap' = cap,
         request.api \in Api!Exact => Len(front \o back) = cap,
         request.api \in {"buf", "head"} => ret'.len = Len(front \o back),
         UNCHANGED <<request, todo, pend, size, answer>>
  PROVE  Inv'
<1> DEFINE r == request
<1>1. /\ r \in Api!Request /\ ~Fails(r.calls)
      /\ front \o back = RecordOf(EndFor(headed), r.calls)
  BY WrittenWhole
<1>2. Types'
  <2>1. size \in Nat /\ cap \in Nat
    BY DEF Inv, Types
  <2>2. QED
    BY <2>1 DEF Types
<1>3. Ordering'
  BY <1>1 DEF Ordering, headed
<1>4. Asked' /\ Answered' /\ Fresh' /\ Sizing' /\ Serializing'
  BY <1>1 DEF Inv, Asked, Answered, Fresh, Sizing, Serializing
<1>5. Entered'
  BY DEF Inv, Entered, RoomFor, Record, HeadedOf
<1>6. QED
  BY <1>2, <1>3, <1>4, <1>5 DEF Inv

\* finalize, or is_complete, or neither.
LEMMA InvClose ==
  ASSUME Inv, Close
  PROVE  Inv'
<1> DEFINE r == request
<1>1. /\ pc = "serializing" /\ pend = << >> /\ todo = << >>
      /\ UNCHANGED <<request, todo, pend, size>>
  BY DEF Close
<1>2. /\ r \in Api!Request /\ RequestIs(r) /\ OutcomeIs(r)
      /\ ~(r.api = "vec" /\ Fails(r.first)) /\ ~Fails(r.calls)
      /\ Record(r) = front \o back
      /\ front \in Seq(BitByte) /\ back \in Seq(BitByte)
      /\ Len(front \o back) = Len(front) + Len(back)
      /\ Len(front) \in Nat /\ Len(back) \in Nat
  BY <1>1, WrittenWhole
<1>3. /\ cap \in Nat /\ Len(front) + Len(back) <= cap /\ sealed = FALSE
      /\ r.api # "grow" => RoomFor(r) = cap
  BY <1>1, RoomIsCap DEF Inv, Serializing
<1>4. CASE r.api \in {"buf", "head"} /\ Store!Join /\ pc' = "ordering" /\ answer' = answer
  <2>1. /\ front' = front \o back /\ back' = << >> /\ sealed' = TRUE /\ cap' = cap
        /\ ret'.len = Len(front) + Len(back)
    BY <1>4 DEF Store!Join, Store!Reply
  <2>2. front \o back \in Seq(BitByte) /\ << >> \in Seq(BitByte) /\ Len(<< >>) = 0
    BY <1>2, ConcatProperties, EmptySeq
  <2>3. front' \o back' = front \o back
    <3>1. (front \o back) \o << >> = front \o back
      BY <2>2, ConcatEmptySeq
    <3>2. QED
      BY <2>1, <3>1, Zenon
  <2>4. Len(front') + Len(back') <= cap
    <3>1. Len(front') = Len(front) + Len(back) /\ Len(back') = 0
      BY <1>2, <2>1, <2>2, Zenon
    <3>2. QED
      BY <1>2, <1>3, <3>1
  <2>5. ~(r.api \in Api!Exact) /\ ret'.len = Len(front \o back)
    BY <1>2, <1>4, <2>1 DEF Api!Exact
  <2>6. front' \in Seq(BitByte) /\ back' \in Seq(BitByte) /\ sealed' \in BOOLEAN
    BY <2>1, <2>2
  <2>7. QED
    BY <1>1, <1>4, <2>1, <2>3, <2>4, <2>5, <2>6, InvWhole
<1>5. CASE /\ r.api \in Api!Exact /\ Store!AskComplete
           /\ IF ret'.err = "Ok" THEN pc' = "ordering" /\ UNCHANGED answer
              ELSE FinishWith(ret'.err)
  <2>1. /\ front' = front /\ back' = back /\ sealed' = sealed /\ cap' = cap
        /\ ret'.err = IF cap - Len(front) - Len(back) = 0 THEN "Ok" ELSE "BufferUnderflow"
    BY <1>3, <1>5 DEF Store!AskComplete, Store!Reply, Store!Room
  <2>2. r.api # "grow" /\ ~(r.api \in {"buf", "head"})
    BY <1>5 DEF Api!Exact
  <2>3. CASE cap - Len(front) - Len(back) = 0
    <3>1. Len(front \o back) = cap
      BY <1>2, <1>3, <2>3
    <3>2. pc' = "ordering" /\ answer' = answer
      BY <1>5, <2>1, <2>3
    <3>3. sealed' \in BOOLEAN
      BY <1>3, <2>1
    <3>4. QED
      BY <1>1, <1>2, <1>3, <2>1, <2>2, <3>1, <3>2, <3>3, InvWhole
  <2>4. CASE cap - Len(front) - Len(back) # 0
    <3>1. FinishWith("BufferUnderflow")
      BY <1>5, <2>1, <2>4
    <3>2. Len(Record(r)) <= RoomFor(r) /\ Len(Record(r)) # RoomFor(r)
      <4>1. Len(Record(r)) = Len(front) + Len(back) /\ RoomFor(r) = cap
        BY <1>2, <1>3, <2>2, Zenon
      <4> HIDE DEF r
      <4>2. QED
        BY <1>2, <1>3, <2>4, <4>1
    <3>3. Api!Outcome(r) = Api!Error("BufferUnderflow")
      BY <1>2, <1>5, <3>2 DEF OutcomeIs
    <3>4. Filling
      BY <1>1, InvFilling
    <3>5. QED
      BY <1>1, <2>1, <3>1, <3>3, <3>4, InvFails
  <2>5. QED
    BY <2>3, <2>4
<1>6. CASE r.api = "grow" /\ pc' = "ordering" /\ answer' = answer /\ store' = store
  <2>1. /\ front' = front /\ back' = back /\ sealed' = sealed /\ cap' = cap
    BY <1>6 DEF store
  <2>2. ~(r.api \in Api!Exact) /\ ~(r.api \in {"buf", "head"})
    BY <1>6 DEF Api!Exact
  <2>3. sealed' \in BOOLEAN
    BY <1>3, <2>1
  <2>4. QED
    BY <1>1, <1>2, <1>3, <1>6, <2>1, <2>2, <2>3, InvWhole
<1>7. QED
  BY <1>4, <1>5, <1>6 DEF Close

\* The record is answered in the order that was asked for.
LEMMA InvOrder ==
  ASSUME Inv, Order
  PROVE  Inv'
<1> DEFINE r == request
           n == IF r.api \in {"buf", "head"} THEN ret.len ELSE 0
           d == IF r.order = "Descending" THEN ComplementBytes(front \o back) ELSE front \o back
<1>1. /\ pc = "ordering" /\ Finish("Ok", d, n)
      /\ UNCHANGED <<request, todo, pend, size, store>>
  BY DEF Order
<1>2. /\ r \in Api!Request /\ ~Fails(r.calls) /\ Types /\ r.api # "size"
      /\ front \o back = RecordOf(EndFor(headed), r.calls)
      /\ r.api \in Api!Exact => Len(front \o back) = cap
      /\ r.api \in {"buf", "head"} => ret.len = Len(front \o back)
      /\ ~(r.api = "vec" /\ Fails(r.first))
      /\ r.api # "grow" => cap = RoomFor(r)
  BY <1>1 DEF Inv, Asked, Ordering, Entered
<1>3. RequestIs(r)
  BY <1>2, RequestType
<1>4. OutcomeIs(r)
  BY <1>3, OutcomeCases
<1>5. Record(r) = front \o back
  <2>1. BeforeFail(r.calls) = r.calls
    BY <1>2 DEF Fails
  <2>2. QED
    BY <1>2, <2>1, Zenon DEF Record, headed
<1>6. /\ Len(Record(r)) = Len(front) + Len(back) /\ Len(Record(r)) \in Nat
      /\ Len(front) + Len(back) <= cap
  <2>1. front \in Seq(BitByte) /\ back \in Seq(BitByte) /\ Len(front) + Len(back) <= cap
    BY <1>2 DEF Types
  <2>2. Len(front \o back) = Len(front) + Len(back)
    BY <2>1, ConcatProperties
  <2>3. Len(front) \in Nat /\ Len(back) \in Nat
    BY <2>1, LenProperties
  <2>4. Len(Record(r)) = Len(front) + Len(back)
    BY <1>5, <2>2, Zenon
  <2>5. QED
    BY <2>1, <2>3, <2>4
<1>7. Len(Record(r)) <= RoomFor(r)
  <2>1. CASE r.api # "grow"
    BY <1>2, <1>6, <2>1
  <2>2. CASE r.api = "grow"
    <3>1. RoomFor(r) = Len(Record(r))
      BY <2>2 DEF RoomFor
    <3>2. QED
      BY <1>6, <3>1
  <2>3. QED
    BY <2>1, <2>2
<1>8. ~(r.api \in Api!Exact /\ Len(Record(r)) # RoomFor(r))
  <2>1. SUFFICES ASSUME r.api \in Api!Exact PROVE Len(Record(r)) = RoomFor(r)
    OBVIOUS
  <2>2. r.api # "grow"
    BY <2>1 DEF Api!Exact
  <2>3. Len(front \o back) = RoomFor(r)
    BY <1>2, <2>1, <2>2
  <2>4. QED
    BY <1>5, <2>3, Zenon
<1>9. Api!Outcome(r) = AnswerWith(r, Record(r))
  BY <1>2, <1>4, <1>7, <1>8 DEF OutcomeIs
<1>10. AnswerWith(r, Record(r)) = Api!Answer("Ok", d, n)
  <2>1. n = IF r.api \in Api!Measured THEN Len(Record(r)) ELSE 0
    <3>1. r.api \in Api!Measured <=> r.api \in {"buf", "head"}
      BY <1>2 DEF Api!Measured
    <3>2. r.api \in {"buf", "head"} => ret.len = Len(Record(r))
      BY <1>2, <1>5, Zenon
    <3>3. QED
      BY <3>1, <3>2
  <2>2. d = IF r.api = "size" THEN << >>
            ELSE IF r.order = "Descending" THEN ComplementBytes(Record(r)) ELSE Record(r)
    BY <1>2, <1>5
  <2> HIDE DEF n, d
  <2>3. QED
    BY <2>1, <2>2, Zenon DEF AnswerWith
<1>11. answer' = Api!Outcome(r) /\ pc' = "done"
  BY <1>1, <1>9, <1>10 DEF Finish
<1>12. Types'
  BY <1>1, <1>2, <1>11 DEF Types, store
<1>13. QED
  BY <1>1, <1>2, <1>11, <1>12, InvDone

\* A step that changes nothing keeps the invariant.
LEMMA InvUnchanged ==
  ASSUME Inv, UNCHANGED vars
  PROVE  Inv'
<1>1. /\ request' = request /\ pc' = pc /\ todo' = todo /\ pend' = pend /\ size' = size
      /\ cap' = cap /\ front' = front /\ back' = back /\ sealed' = sealed /\ ret' = ret
      /\ answer' = answer
  BY DEF vars, store
<1>2. Types' /\ Asked' /\ Answered' /\ Fresh'
  BY <1>1 DEF Inv, Types, Asked, Answered, Fresh
<1>3. Sizing' /\ Serializing' /\ Ordering'
  BY <1>1 DEF Inv, Sizing, Serializing, Ordering, Taken, headed, HeadedOf
<1>4. Entered'
  BY <1>1 DEF Inv, Entered, RoomFor, Record, HeadedOf
<1>5. QED
  BY <1>2, <1>3, <1>4 DEF Inv

\* Every step keeps the invariant.
LEMMA InvNext == Inv /\ [Next]_vars => Inv'
<1> SUFFICES ASSUME Inv, [Next]_vars PROVE Inv'
  OBVIOUS
<1>1. CASE Call
  BY <1>1, InvCall
<1>2. CASE SizeCall
  BY <1>2, InvSizeCall
<1>3. CASE Measure
  BY <1>3, InvMeasure
<1>4. CASE Allocate
  BY <1>4, InvAllocate
<1>5. CASE SerializeCall
  BY <1>5, InvSerializeCall
<1>6. CASE WritePiece
  BY <1>6, InvWritePiece
<1>7. CASE Close
  BY <1>7, InvClose
<1>8. CASE Order
  BY <1>8, InvOrder
<1>9. CASE UNCHANGED vars
  BY <1>9, InvUnchanged
<1>10. QED
  BY <1>1, <1>2, <1>3, <1>4, <1>5, <1>6, <1>7, <1>8, <1>9 DEF Next, Step

-----------------------------------------------------------------------------

(* What follows from the invariant.                                         *)

\* Complemented bytes are bytes.
LEMMA ComplementType ==
  ASSUME NEW s \in Seq(BitByte)
  PROVE  ComplementBytes(s) \in Seq(BitByte)
<1>1. Len(s) \in Nat /\ DOMAIN s = 1..Len(s) /\ \A i \in 1..Len(s) : s[i] \in BitByte
  BY LenProperties, ElementOfSeq
<1>2. ASSUME NEW b \in BitByte PROVE ComplementByte(b) \in BitByte
  <2>1. \A k \in 0..7 : b[k] \in Bit
    BY <1>2 DEF BitByte
  <2>2. \A k \in 0..7 : 1 - b[k] \in Bit
    BY <2>1 DEF Bit
  <2>3. QED
    BY <2>2 DEF ComplementByte, BitByte
<1>3. ComplementBytes(s) \in [1..Len(s) -> BitByte]
  BY <1>1, <1>2 DEF ComplementBytes
<1>4. QED
  BY <1>1, <1>3

\* The error of a value that fails is one of a call.
LEMMA FailureType ==
  ASSUME NEW calls \in Seq(CallSet), Fails(calls)
  PROVE  Failure(calls) \in {NoLength, Custom}
<1>1. PICK m : Stops(calls, m)
  BY StopsAt
<1>2. Fails(calls) => /\ m + 1 \in 1..Len(calls) /\ calls[m + 1].op = "fail"
                      /\ Failure(calls) = calls[m + 1].err
  BY <1>1 DEF Stops
<1>3. calls[m + 1] \in CallSet
  BY <1>2, ElementOfSeq
<1>4. calls[m + 1].op \notin {"prim", "bytes", "variant", "seq", "none", "some", "compound"}
  BY <1>2
<1>5. calls[m + 1].err \in {NoLength, Custom}
  BY <1>3, <1>4, CallCases
<1>6. QED
  BY <1>2, <1>5

\* An answer is a record, the complement of one, or nothing.
LEMMA OutcomeType ==
  ASSUME NEW r, RequestIs(r), OutcomeIs(r)
  PROVE  Api!Outcome(r).data \in Seq(BitByte)
<1>1. << >> \in Seq(BitByte)
  BY EmptySeq
<1>2. Record(r) \in Seq(BitByte) /\ Len(Record(r)) \in Nat /\ RoomFor(r) \in Nat
  BY DEF OutcomeIs
<1>3. ComplementBytes(Record(r)) \in Seq(BitByte)
  BY <1>2, ComplementType
<1>4. \A err : Api!Error(err).data \in Seq(BitByte)
  BY <1>1 DEF Api!Error, Api!Answer
<1>5. AnswerWith(r, Record(r)).data \in Seq(BitByte)
  BY <1>1, <1>2, <1>3 DEF AnswerWith, Api!Answer
<1>6. \/ \E err : Api!Outcome(r) = Api!Error(err)
      \/ Api!Outcome(r) = AnswerWith(r, Record(r))
  <2>1. CASE r.api = "vec" /\ Fails(r.first)
    BY <2>1 DEF OutcomeIs
  <2>2. CASE ~(r.api = "vec" /\ Fails(r.first))
    <3>1. Len(Record(r)) > RoomFor(r) \/ Len(Record(r)) <= RoomFor(r)
      BY <1>2
    <3>2. QED
      BY <2>2, <3>1 DEF OutcomeIs
  <2>3. QED
    BY <2>1, <2>2
<1>7. QED
  BY <1>4, <1>5, <1>6

\* The invariant holds of every behaviour.
THEOREM Invariance == Spec => []Inv
BY InvInit, InvNext, PTL DEF Spec

\* Type correctness: the buffer holds bytes, and never more than it has room
\* for, whatever the values and the room.
THEOREM TypeCorrect == Spec => []TypeOK
<1>1. Inv => TypeOK
  <2>1. SUFFICES ASSUME Inv PROVE TypeOK
    OBVIOUS
  <2>2. answer.data \in Seq(BitByte)
    <3>1. CASE pc = "done"
      <4>1. request \in Api!Request /\ answer = Api!Outcome(request)
        BY <2>1, <3>1 DEF Inv, Asked, Answered
      <4>2. RequestIs(request)
        BY <4>1, RequestType
      <4>3. OutcomeIs(request)
        BY <4>2, OutcomeCases
      <4>4. Api!Outcome(request).data \in Seq(BitByte)
        BY <4>2, <4>3, OutcomeType
      <4>5. QED
        BY <4>1, <4>4
    <3>2. CASE pc # "done"
      <4>1. answer = Api!Error("none")
        BY <2>1, <3>2 DEF Inv, Answered, Api!NoAnswer
      <4>2. answer.data = << >>
        BY <4>1 DEF Api!Error, Api!Answer
      <4>3. QED
        BY <4>2, EmptySeq
    <3>3. QED
      BY <3>1, <3>2
  <2>3. request \in Api!Request \cup {Api!NoRequest}
    BY <2>1 DEF Inv, Asked
  <2>4. QED
    BY <2>1, <2>2, <2>3 DEF Inv, Types, TypeOK
<1>2. QED
  BY Invariance, <1>1, PTL

\* ser_to_vec_ordered neither overflows nor underfills the vector it allocated
\* for a value that makes the same calls twice.
THEOREM SizesAreExact == Spec => []SizeIsExact
<1>1. Inv => SizeIsExact
  <2>1. SUFFICES ASSUME Inv, request.api = "vec", request.first = request.calls
                 PROVE  answer.err \notin {"BufferOverflow", "BufferUnderflow"}
    BY DEF SizeIsExact
  <2>2. CASE pc # "done"
    BY <2>1, <2>2 DEF Inv, Answered, Api!NoAnswer, Api!Error, Api!Answer
  <2>3. CASE pc = "done"
    <3>1. request \in Api!Request /\ answer = Api!Outcome(request)
      BY <2>1, <2>3 DEF Inv, Asked, Answered
    <3>2. RequestIs(request)
      BY <3>1, RequestType
    <3>3. OutcomeIs(request)
      BY <3>2, OutcomeCases
    <3>4. CASE Fails(request.first)
      <4>1. Failure(request.first) \in {NoLength, Custom}
        BY <3>2, <3>4, FailureType DEF RequestIs
      <4>2. answer = Api!Error(Failure(request.first))
        BY <2>1, <3>1, <3>3, <3>4 DEF OutcomeIs
      <4>3. QED
        BY <4>1, <4>2 DEF Api!Error, Api!Answer, NoLength, Custom
    <3>5. CASE ~Fails(request.first)
      <4>1. ~Fails(request.calls)
        BY <2>1, <3>5, Zenon
      <4>2. /\ Len(Record(request)) = SizeOfCalls(BeforeFail(request.calls))
            /\ Len(Record(request)) \in Nat
            /\ RoomFor(request) = SizeOfCalls(BeforeFail(request.first))
        BY <2>1, <3>2, RecordSize
      <4>3. Len(Record(request)) = RoomFor(request)
        BY <2>1, <4>2, Zenon
      <4>4. Len(Record(request)) <= RoomFor(request)
        BY <4>2, <4>3
      <4>5. answer = AnswerWith(request, Record(request))
        BY <3>1, <3>3, <3>5, <4>1, <4>3, <4>4 DEF OutcomeIs
      <4>6. QED
        BY <4>5 DEF AnswerWith, Api!Answer
    <3>6. QED
      BY <3>4, <3>5
  <2>4. QED
    BY <2>2, <2>3
<1>2. QED
  BY Invariance, <1>1, PTL

\* While a vector is filled the bytes in it, those of the current call and those
\* of the calls to come add up to the size that was allocated.
THEOREM RoomIsKept == Spec => []RoomIsBalanced
<1>1. Inv => RoomIsBalanced
  <2>1. SUFFICES ASSUME Inv, pc = "serializing", request.api = "vec",
                        request.first = request.calls
                 PROVE  Len(front) + Len(back) + SizeOfPieces(pend) + SizeOfCalls(todo) = cap
    BY DEF RoomIsBalanced
  <2> DEFINE taken == Taken(request.calls)
  <2>2. Filling
    BY <2>1, InvFilling
  <2>3. /\ RequestIs(request) /\ ~(request.api = "vec" /\ Fails(request.first))
        /\ headed \in BOOLEAN
        /\ Divided(request.calls, taken, todo) /\ Goes(request.calls, taken, todo)
        /\ taken \in Seq(Good) /\ SizeOfCalls(taken) \in Nat
        /\ (Len(front) + Len(back)) + SizeOfPieces(pend) = SizeOfCalls(taken)
    BY <2>2, Zenon DEF Filling
  <2> HIDE DEF taken
  <2>4. ~Fails(request.calls)
    BY <2>1, <2>3, Zenon
  <2>5. BeforeFail(request.calls) = request.calls /\ todo \in Seq(Good)
        /\ request.calls = taken \o todo
    BY <2>3, <2>4 DEF Goes, Divided
  <2>6. SizeOfCalls(taken \o todo) = SizeOfCalls(taken) + SizeOfCalls(todo)
    BY <2>3, <2>5, SizesAdd
  <2>7. cap = SizeOfCalls(taken) + SizeOfCalls(todo)
    <3>1. RoomFor(request) = SizeOfCalls(BeforeFail(request.first))
      BY <2>1, <2>3, RecordSize
    <3>2. RoomFor(request) = cap
      BY <2>1, RoomIsCap
    <3>3. QED
      BY <2>1, <2>5, <2>6, <3>1, <3>2, Zenon
  <2>8. QED
    BY <2>3, <2>7
<1>2. QED
  BY Invariance, <1>1, PTL

-----------------------------------------------------------------------------

(* The entry points implement what SerializeApi promises.                   *)

\* A step of an entry point that has been called changes nothing the caller
\* sees, or returns.
LEMMA StepReturns ==
  ASSUME Inv, Inv', pc # "idle", pc # "done", request' = request,
         answer' = answer \/ pc' = "done"
  PROVE  [Api!Next]_(Api!vars)
<1>1. answer = Api!NoAnswer /\ request \in Api!Request
  BY DEF Inv, Asked, Answered
<1>2. request # Api!NoRequest
  <2>1. RequestIs(request)
    BY <1>1, RequestType
  <2>2. QED
    BY <2>1 DEF RequestIs, Api!NoRequest
<1>3. CASE answer' = answer
  BY <1>3 DEF Api!vars
<1>4. CASE pc' = "done"
  <2>1. answer' = Api!Outcome(request)
    <3>1. (pc = "done" => answer = Api!Outcome(request))'
      BY DEF Inv, Answered
    <3>2. Api!Outcome(request)' = Api!Outcome(request)
      BY DEF Api!Outcome
    <3>3. QED
      BY <1>4, <3>1, <3>2
  <2>2. QED
    BY <1>1, <1>2, <2>1 DEF Api!Next, Api!Return
<1>5. QED
  BY <1>3, <1>4

\* Each entry point gives the caller the record of the format, or the one error
\* the format and the room call for: it implements SerializeApi.
THEOREM Refinement == Spec => ImplementsApi
<1>1. Init => Api!Init
  BY DEF Init
<1>2. Inv /\ Inv' /\ [Next]_vars => [Api!Next]_(Api!vars)
  <2> SUFFICES ASSUME Inv, Inv', [Next]_vars
               PROVE  [Api!Next]_(Api!vars)
    OBVIOUS
  <2>1. CASE Call
    BY <2>1 DEF Call, Api!Next
  <2>2. CASE SizeCall
    <3>1. pc = "sizing" /\ request' = request
          /\ (answer' = answer \/ pc' = "done")
      BY <2>2 DEF SizeCall, FinishWith, Finish
    <3>2. QED
      BY <3>1, StepReturns
  <2>3. CASE Measure
    <3>1. pc = "sizing" /\ request' = request /\ pc' = "done"
      BY <2>3 DEF Measure, Finish
    <3>2. QED
      BY <3>1, StepReturns
  <2>4. CASE Allocate
    <3>1. pc = "sizing" /\ request' = request /\ answer' = answer
      BY <2>4 DEF Allocate
    <3>2. QED
      BY <3>1, StepReturns
  <2>5. CASE SerializeCall
    <3>1. pc = "serializing" /\ request' = request
          /\ (answer' = answer \/ pc' = "done")
      BY <2>5 DEF SerializeCall, FinishWith, Finish
    <3>2. QED
      BY <3>1, StepReturns
  <2>6. CASE WritePiece
    <3>1. pc = "serializing" /\ request' = request
          /\ (answer' = answer \/ pc' = "done")
      BY <2>6 DEF WritePiece, FinishWith, Finish
    <3>2. QED
      BY <3>1, StepReturns
  <2>7. CASE Close
    <3>1. pc = "serializing" /\ request' = request
          /\ (answer' = answer \/ pc' = "done")
      BY <2>7 DEF Close, FinishWith, Finish
    <3>2. QED
      BY <3>1, StepReturns
  <2>8. CASE Order
    <3>1. pc = "ordering" /\ request' = request /\ pc' = "done"
      BY <2>8 DEF Order, Finish
    <3>2. QED
      BY <3>1, StepReturns
  <2>9. CASE UNCHANGED vars
    BY <2>9 DEF vars, Api!vars
  <2>10. QED
    BY <2>1, <2>2, <2>3, <2>4, <2>5, <2>6, <2>7, <2>8, <2>9 DEF Next, Step
<1>3. QED
  BY Invariance, <1>1, <1>2, PTL DEF Spec, ImplementsApi, Api!Spec

=============================================================================
