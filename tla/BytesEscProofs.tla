--------------------------- MODULE BytesEscProofs ---------------------------
(***************************************************************************)
(* Proofs about the byte strings of BytesEsc, for every set of strings,    *)
(* followers and raw inputs: the escaped form is prefix-free and keeps the *)
(* order, what was written is read back, and what is accepted is what a    *)
(* writer would have written.                                              *)
(***************************************************************************)
EXTENDS BytesEsc, DataFacts

(* The escaped form as an operator on the order and the string.            *)

Esc(ord) == IF ord = "Descending" THEN EscapeDesc ELSE EscapeAsc

Flip(ord, b) == IF ord = "Descending" THEN Complement(b) ELSE b
FlipAll(ord, s) == [i \in DOMAIN s |-> Flip(ord, s[i])]

\* What a byte of the string becomes, and the end of the string.
PieceOf(ord, b) ==
  IF b = EscapeAsc.start THEN <<Esc(ord).start, Esc(ord).esc>> ELSE <<Flip(ord, b)>>
Terminator(ord) == <<Esc(ord).start, Esc(ord).term>>

Pieces(ord, t) == [i \in DOMAIN t |-> PieceOf(ord, t[i])]
Body(ord, t)   == FlattenSeq(Pieces(ord, t))
Coded(ord, t)  == Body(ord, t) \o Terminator(ord)

-----------------------------------------------------------------------------

\* The bytes that mean something differ, in either order.
LEMMA EscapeBytes ==
  ASSUME NEW ord
  PROVE  /\ Esc(ord).start \in Byte /\ Esc(ord).esc \in Byte /\ Esc(ord).term \in Byte
         /\ Esc(ord).esc # Esc(ord).term /\ Esc(ord).start # Esc(ord).term
         /\ EscapeAsc.start \in Byte
         /\ \A b \in Byte : /\ Flip(ord, b) \in Byte /\ Flip(ord, Flip(ord, b)) = b
                            /\ Flip(ord, b) = Esc(ord).start <=> b = EscapeAsc.start
<1>1. EscapeAsc.start = 248 /\ EscapeAsc.esc = 255 /\ EscapeAsc.term = 1
  BY DEF EscapeAsc
<1>2. EscapeDesc.start = 7 /\ EscapeDesc.esc = 0 /\ EscapeDesc.term = 254
  BY <1>1 DEF EscapeDesc, Complement
<1>3. CASE ord = "Descending"
  <2>1. Esc(ord).start = 7 /\ Esc(ord).esc = 0 /\ Esc(ord).term = 254
    BY <1>2, <1>3 DEF Esc
  <2>2. \A b : Flip(ord, b) = 255 - b
    BY <1>3 DEF Flip, Complement
  <2>3. \A b \in Byte : /\ 255 - b \in Byte
                        /\ 255 - (255 - b) = b
                        /\ (255 - b = 7) <=> (b = 248)
    BY DEF Byte
  <2>4. 7 \in Byte /\ 0 \in Byte /\ 254 \in Byte /\ 248 \in Byte
    BY DEF Byte
  <2>5. ASSUME NEW b \in Byte
        PROVE  /\ Flip(ord, b) \in Byte
               /\ Flip(ord, Flip(ord, b)) = b
               /\ (Flip(ord, b) = 7) <=> (b = 248)
    BY <2>2, <2>3
  <2>6. QED
    BY <1>1, <2>1, <2>4, <2>5
<1>4. CASE ord # "Descending"
  <2>1. Esc(ord).start = 248 /\ Esc(ord).esc = 255 /\ Esc(ord).term = 1
    BY <1>1, <1>4 DEF Esc
  <2>2. \A b : Flip(ord, b) = b
    BY <1>4 DEF Flip
  <2>3. 248 \in Byte /\ 255 \in Byte /\ 1 \in Byte
    BY DEF Byte
  <2>4. \A b \in Byte : /\ Flip(ord, b) \in Byte /\ Flip(ord, Flip(ord, b)) = b
                        /\ Flip(ord, b) = 248 <=> b = 248
    BY <2>2
  <2>5. QED
    BY <1>1, <2>1, <2>3, <2>4
<1>5. QED
  BY <1>3, <1>4

\* A byte becomes one byte or two, the first of which is the byte in its order.
LEMMA PieceIs ==
  ASSUME NEW ord, NEW b \in Byte
  PROVE  /\ PieceOf(ord, b) \in Seq(Byte) /\ Len(PieceOf(ord, b)) \in {1, 2}
         /\ PieceOf(ord, b)[1] = Flip(ord, b)
         /\ b = EscapeAsc.start =>
              /\ Len(PieceOf(ord, b)) = 2 /\ PieceOf(ord, b)[2] = Esc(ord).esc
              /\ PieceOf(ord, b) = <<Esc(ord).start, Esc(ord).esc>>
         /\ b # EscapeAsc.start =>
              /\ Len(PieceOf(ord, b)) = 1 /\ Flip(ord, b) # Esc(ord).start
              /\ PieceOf(ord, b) = <<Flip(ord, b)>>
<1>1. CASE b = EscapeAsc.start
  <2>1. PieceOf(ord, b) = <<Esc(ord).start, Esc(ord).esc>>
    BY <1>1 DEF PieceOf
  <2>2. Esc(ord).start \in Byte /\ Esc(ord).esc \in Byte /\ Flip(ord, b) = Esc(ord).start
    BY <1>1, EscapeBytes
  <2> DEFINE x == Esc(ord).start
             y == Esc(ord).esc
  <2>3. x \in Byte /\ y \in Byte
    BY <2>2
  <2> HIDE DEF x, y
  <2>4. <<x, y>> \in Seq(Byte) /\ Len(<<x, y>>) = 2 /\ <<x, y>>[1] = x /\ <<x, y>>[2] = y
    BY <2>3, Double
  <2>5. QED
    BY <1>1, <2>1, <2>2, <2>4 DEF x, y
<1>2. CASE b # EscapeAsc.start
  <2>1. PieceOf(ord, b) = <<Flip(ord, b)>>
    BY <1>2 DEF PieceOf
  <2>2. Flip(ord, b) \in Byte /\ Flip(ord, b) # Esc(ord).start
    BY <1>2, EscapeBytes
  <2> DEFINE x == Flip(ord, b)
  <2>3. x \in Byte
    BY <2>2
  <2> HIDE DEF x
  <2>4. <<x>> \in Seq(Byte) /\ Len(<<x>>) = 1 /\ <<x>>[1] = x
    BY <2>3, Single
  <2>5. QED
    BY <1>2, <2>1, <2>2, <2>4 DEF x
<1>3. QED
  BY <1>1, <1>2

\* The terminator is two bytes, the first of which is the escape byte.
LEMMA TerminatorIs ==
  ASSUME NEW ord
  PROVE  /\ Terminator(ord) \in Seq(Byte) /\ Len(Terminator(ord)) = 2
         /\ Terminator(ord)[1] = Esc(ord).start /\ Terminator(ord)[2] = Esc(ord).term
<1> DEFINE x == Esc(ord).start
           y == Esc(ord).term
<1>1. x \in Byte /\ y \in Byte
  BY EscapeBytes
<1>2. Terminator(ord) = <<x, y>>
  BY DEF Terminator
<1> HIDE DEF x, y
<1>3. QED
  BY <1>1, <1>2, Double DEF x, y

\* The string with its bytes in order.
LEMMA FlipAllIs ==
  ASSUME NEW ord, NEW s \in Seq(Byte)
  PROVE  /\ FlipAll(ord, s) \in Seq(Byte) /\ Len(FlipAll(ord, s)) = Len(s)
         /\ \A i \in 1..Len(s) : FlipAll(ord, s)[i] = Flip(ord, s[i])
         /\ FlipAll(ord, FlipAll(ord, s)) = s
<1>1. Len(s) \in Nat /\ DOMAIN s = 1..Len(s) /\ \A i \in 1..Len(s) : s[i] \in Byte
  BY LenProperties, ElementOfSeq
<1> DEFINE n == Len(s)
           f == FlipAll(ord, s)
<1>2. f = [i \in 1..n |-> Flip(ord, s[i])]
  BY <1>1 DEF FlipAll
<1>3. \A i \in 1..n : Flip(ord, s[i]) \in Byte /\ Flip(ord, Flip(ord, s[i])) = s[i]
  BY <1>1, EscapeBytes
<1>4. n \in Nat
  BY <1>1
<1> HIDE DEF f, n
<1>5. f \in Seq(Byte) /\ Len(f) = n /\ DOMAIN f = 1..n /\ \A i \in 1..n : f[i] = Flip(ord, s[i])
  <2>1. f \in [1..n -> Byte]
    BY <1>2, <1>3
  <2>2. QED
    BY <1>2, <1>4, <2>1
<1>6. FlipAll(ord, f) = s
  <2>1. FlipAll(ord, f) = [i \in 1..n |-> Flip(ord, f[i])]
    BY <1>5 DEF FlipAll
  <2>2. FlipAll(ord, f) = [i \in 1..n |-> s[i]]
    BY <1>3, <1>5, <2>1
  <2>3. s = [i \in 1..n |-> s[i]]
    BY <1>1 DEF n
  <2>4. QED
    BY <2>2, <2>3
<1>7. QED
  BY <1>5, <1>6 DEF f, n

\* The pieces are byte strings, one for each byte.
LEMMA PiecesIs ==
  ASSUME NEW ord, NEW t \in Seq(Byte)
  PROVE  /\ Pieces(ord, t) \in Seq(Seq(Byte)) /\ Len(Pieces(ord, t)) = Len(t)
         /\ \A i \in 1..Len(t) : Pieces(ord, t)[i] = PieceOf(ord, t[i])
<1>1. Len(t) \in Nat /\ DOMAIN t = 1..Len(t) /\ \A i \in 1..Len(t) : t[i] \in Byte
  BY LenProperties, ElementOfSeq
<1> DEFINE n == Len(t)
<1>2. Pieces(ord, t) = [i \in 1..n |-> PieceOf(ord, t[i])]
  BY <1>1 DEF Pieces
<1>3. \A i \in 1..n : PieceOf(ord, t[i]) \in Seq(Byte)
  BY <1>1, PieceIs
<1>4. n \in Nat
  BY <1>1
<1> HIDE DEF n
<1>5. Pieces(ord, t) \in [1..n -> Seq(Byte)]
  BY <1>2, <1>3
<1> DEFINE p == Pieces(ord, t)
<1>6. p = [i \in 1..n |-> PieceOf(ord, t[i])] /\ p \in [1..n -> Seq(Byte)]
  BY <1>2, <1>5
<1> HIDE DEF p
<1>7. p \in Seq(Seq(Byte)) /\ Len(p) = n /\ \A i \in 1..n : p[i] = PieceOf(ord, t[i])
  BY <1>4, <1>6
<1>8. QED
  BY <1>7 DEF p, n

\* The escaped form of a string that grows at its end.
LEMMA BodyAppend ==
  ASSUME NEW ord, NEW t \in Seq(Byte), NEW b \in Byte
  PROVE  /\ Body(ord, t) \in Seq(Byte)
         /\ Body(ord, Append(t, b)) = Body(ord, t) \o PieceOf(ord, b)
<1> DEFINE u == Append(t, b)
           p == Pieces(ord, t)
           q == Pieces(ord, u)
           w == PieceOf(ord, b)
           n == Len(t)
<1>1. /\ u \in Seq(Byte) /\ Len(u) = n + 1 /\ n \in Nat
      /\ \A i \in 1..n : u[i] = t[i]
      /\ u[n + 1] = b
  BY AppendProperties, LenProperties
<1>2. /\ p \in Seq(Seq(Byte)) /\ Len(p) = n
      /\ \A i \in 1..n : p[i] = PieceOf(ord, t[i])
  BY PiecesIs
<1>3. w \in Seq(Byte)
  BY PieceIs
<1> HIDE DEF u
<1>4. /\ q \in Seq(Seq(Byte)) /\ Len(q) = n + 1
      /\ \A i \in 1..n + 1 : q[i] = PieceOf(ord, u[i])
  BY <1>1, PiecesIs
<1> HIDE DEF p, w
<1>5. /\ Append(p, w) \in Seq(Seq(Byte)) /\ Len(Append(p, w)) = n + 1
      /\ \A i \in 1..n : Append(p, w)[i] = p[i]
      /\ Append(p, w)[n + 1] = w
  <2> DEFINE S == Seq(Byte)
  <2>1. p \in Seq(S) /\ w \in S
    BY <1>2, <1>3
  <2> HIDE DEF S
  <2>2. /\ Append(p, w) \in Seq(S) /\ Len(Append(p, w)) = Len(p) + 1
        /\ \A i \in 1..Len(p) : Append(p, w)[i] = p[i]
        /\ Append(p, w)[Len(p) + 1] = w
    BY <2>1, AppendProperties
  <2>3. QED
    BY <1>2, <2>2 DEF S
<1>6. \A i \in 1..n + 1 : Append(p, w)[i] = q[i]
  <2>1. \A i \in 1..n : q[i] = PieceOf(ord, t[i])
    BY <1>1, <1>4
  <2>2. q[n + 1] = w
    BY <1>1, <1>4 DEF w
  <2>3. \A i \in 1..n + 1 : i \in 1..n \/ i = n + 1
    BY <1>1
  <2>4. QED
    BY <1>2, <1>5, <2>1, <2>2, <2>3
<1> HIDE DEF p, q, w, n
<1>7. Append(p, w) = q
  BY <1>4, <1>5, <1>6, SeqEqual
<1>8. FlattenSeq(q) = FlattenSeq(p) \o w /\ FlattenSeq(p) \in Seq(Byte)
  BY <1>2, <1>3, <1>7, FlattenAppend, FlattenType
<1>9. QED
  BY <1>8 DEF Body, p, q, w, u

\* Nothing of the string, nothing of the form.
LEMMA BodyEmpty ==
  ASSUME NEW ord
  PROVE  Body(ord, << >>) = << >>
<1>1. << >> \in Seq(Byte)
  BY EmptySeq
<1>2. /\ Pieces(ord, << >>) \in Seq(Seq(Byte))
      /\ Len(Pieces(ord, << >>)) = Len(<< >>)
  BY <1>1, PiecesIs
<1>3. Pieces(ord, << >>) = << >>
  BY <1>2, EmptySeq
<1>4. QED
  BY <1>3, FlattenEmpty DEF Body

\* The form of two strings one behind the other.
LEMMA BodyConcat ==
  ASSUME NEW ord, NEW s \in Seq(Byte), NEW t \in Seq(Byte)
  PROVE  Body(ord, s \o t) = Body(ord, s) \o Body(ord, t)
<1> DEFINE T == {x \in Seq(Byte) : Body(ord, s \o x) = Body(ord, s) \o Body(ord, x)}
<1>1. \A x \in Seq(Byte) : Body(ord, x) \in Seq(Byte)
  <2>1. EscapeAsc.start \in Byte
    BY EscapeBytes
  <2>2. QED
    BY <2>1, BodyAppend
<1>2. << >> \in T
  <2>1. s \o << >> = s /\ Body(ord, s) \o << >> = Body(ord, s)
    BY <1>1, ConcatEmptySeq
  <2>2. QED
    BY <2>1, BodyEmpty, EmptySeq
<1>3. ASSUME NEW x \in Seq(Byte), NEW b \in Byte, x \in T
      PROVE  Append(x, b) \in T
  <2>1. Append(x, b) \in Seq(Byte)
    BY AppendProperties
  <2>2. s \o x \in Seq(Byte)
    BY ConcatProperties, Zenon
  <2>3. s \o Append(x, b) = Append(s \o x, b)
    <3> DEFINE c == <<b>>
    <3>1. c \in Seq(Byte)
      OBVIOUS
    <3>2. Append(x, b) = x \o c /\ Append(s \o x, b) = (s \o x) \o c
      BY <2>2, AppendIsConcat
    <3> HIDE DEF c
    <3>3. Associates(s, x, c)
      BY <3>1, Association
    <3>4. QED
      BY <3>2, <3>3 DEF Associates
  <2>4. Body(ord, Append(s \o x, b)) = Body(ord, s \o x) \o PieceOf(ord, b)
    BY <2>2, BodyAppend
  <2>5. Body(ord, Append(x, b)) = Body(ord, x) \o PieceOf(ord, b)
    BY BodyAppend
  <2> DEFINE f == Body(ord, s)
             g == Body(ord, x)
             h == PieceOf(ord, b)
  <2>6. f \in Seq(Byte) /\ g \in Seq(Byte) /\ h \in Seq(Byte)
    BY <1>1, PieceIs
  <2>7. Body(ord, s \o x) = f \o g
    BY <1>3
  <2> HIDE DEF f, g, h
  <2>8. Associates(f, g, h)
    BY <2>6, Association
  <2>9. Body(ord, s \o Append(x, b)) = f \o (g \o h)
    BY <2>3, <2>4, <2>7, <2>8 DEF Associates, h
  <2>10. QED
    BY <2>1, <2>5, <2>9 DEF f, g, h
<1> HIDE DEF T
<1>4. Seq(Byte) \subseteq T
  BY <1>2, <1>3, AppendInduction
<1>5. QED
  BY <1>4 DEF T

\* Body gives bytes.
LEMMA BodyType ==
  ASSUME NEW ord, NEW t \in Seq(Byte)
  PROVE  /\ Body(ord, t) \in Seq(Byte) /\ Coded(ord, t) \in Seq(Byte)
         /\ Len(Coded(ord, t)) = Len(Body(ord, t)) + 2
<1>1. Body(ord, t) \in Seq(Byte)
  BY EscapeBytes, BodyAppend
<1>2. Terminator(ord) \in Seq(Byte) /\ Len(Terminator(ord)) = 2
  BY TerminatorIs
<1>3. Joined(Body(ord, t), Terminator(ord), Byte)
  BY <1>1, <1>2, Join
<1>4. QED
  BY <1>1, <1>2, <1>3 DEF Joined, Coded

\* The form of a string that grows at its start.
LEMMA BodyPrepend ==
  ASSUME NEW ord, NEW t \in Seq(Byte), NEW b \in Byte
  PROVE  /\ Body(ord, <<b>>) = PieceOf(ord, b)
         /\ Body(ord, <<b>> \o t) = PieceOf(ord, b) \o Body(ord, t)
         /\ Coded(ord, <<b>> \o t) = PieceOf(ord, b) \o Coded(ord, t)
<1>1. Body(ord, <<b>>) = PieceOf(ord, b)
  <2>1. << >> \in Seq(Byte) /\ Append(<< >>, b) = <<b>>
    BY EmptySeq
  <2>2. Body(ord, Append(<< >>, b)) = << >> \o PieceOf(ord, b)
    <3>1. Body(ord, Append(<< >>, b)) = Body(ord, << >>) \o PieceOf(ord, b)
      BY <2>1, BodyAppend
    <3>2. QED
      BY <3>1, BodyEmpty
  <2>3. PieceOf(ord, b) \in Seq(Byte)
    BY PieceIs
  <2> DEFINE w == PieceOf(ord, b)
  <2>4. w \in Seq(Byte)
    BY <2>3
  <2> HIDE DEF w
  <2>5. << >> \o w = w
    BY <2>4, ConcatEmptySeq
  <2>6. QED
    BY <2>1, <2>2, <2>5 DEF w
<1>2. Body(ord, <<b>> \o t) = PieceOf(ord, b) \o Body(ord, t)
  <2> DEFINE c == <<b>>
  <2>1. c \in Seq(Byte)
    BY Single
  <2>2. Body(ord, c) = PieceOf(ord, b)
    BY <1>1
  <2> HIDE DEF c
  <2>3. Body(ord, c \o t) = Body(ord, c) \o Body(ord, t)
    BY <2>1, BodyConcat
  <2>4. QED
    BY <2>2, <2>3 DEF c
<1>3. Associates(PieceOf(ord, b), Body(ord, t), Terminator(ord))
  BY PieceIs, BodyType, TerminatorIs, Association
<1>4. QED
  BY <1>1, <1>2, <1>3 DEF Coded, Associates

\* No form is shorter than its string.
LEMMA BodyLen ==
  ASSUME NEW ord, NEW t \in Seq(Byte)
  PROVE  Len(t) <= Len(Body(ord, t))
<1> DEFINE T == {x \in Seq(Byte) : Len(x) <= Len(Body(ord, x))}
<1>1. << >> \in T
  BY BodyEmpty, EmptySeq
<1>2. ASSUME NEW x \in Seq(Byte), NEW b \in Byte, x \in T
      PROVE  Append(x, b) \in T
  <2>1. Append(x, b) \in Seq(Byte) /\ Len(Append(x, b)) = Len(x) + 1 /\ Len(x) \in Nat
    BY AppendProperties, LenProperties
  <2>2. /\ Body(ord, x) \in Seq(Byte) /\ PieceOf(ord, b) \in Seq(Byte)
        /\ Body(ord, Append(x, b)) = Body(ord, x) \o PieceOf(ord, b)
    BY BodyAppend, PieceIs
  <2>3. Joined(Body(ord, x), PieceOf(ord, b), Byte)
    BY <2>2, Join
  <2>4. Len(PieceOf(ord, b)) \in {1, 2} /\ Len(Body(ord, x)) \in Nat
    BY <2>2, PieceIs, LenProperties
  <2>5. Len(Body(ord, Append(x, b))) = Len(Body(ord, x)) + Len(PieceOf(ord, b))
    BY <2>2, <2>3 DEF Joined
  <2>6. Len(x) <= Len(Body(ord, x))
    BY <1>2
  <2>7. Len(Append(x, b)) <= Len(Body(ord, Append(x, b)))
    <3> DEFINE m == Len(x)
               n == Len(Body(ord, x))
               k == Len(PieceOf(ord, b))
    <3>1. m \in Nat /\ n \in Nat /\ k \in {1, 2} /\ m <= n
      BY <2>1, <2>4, <2>6
    <3>2. Len(Append(x, b)) = m + 1 /\ Len(Body(ord, Append(x, b))) = n + k
      BY <2>1, <2>5
    <3> HIDE DEF m, n, k
    <3>3. m + 1 <= n + k
      BY <3>1
    <3>4. QED
      BY <3>2, <3>3
  <2>8. QED
    BY <2>1, <2>7
<1> HIDE DEF T
<1>3. Seq(Byte) \subseteq T
  BY <1>1, <1>2, AppendInduction
<1>4. QED
  BY <1>3 DEF T

\* A concatenation with its bytes in order.
LEMMA FlipConcat ==
  ASSUME NEW ord, NEW s \in Seq(Byte), NEW t \in Seq(Byte)
  PROVE  FlipAll(ord, s \o t) = FlipAll(ord, s) \o FlipAll(ord, t)
<1> DEFINE c == s \o t
           f == FlipAll(ord, s)
           g == FlipAll(ord, t)
           h == FlipAll(ord, c)
           m == Len(s)
           n == Len(t)
<1>1. Joined(s, t, Byte) /\ m \in Nat /\ n \in Nat
  BY Join, LenProperties
<1>2. /\ c \in Seq(Byte) /\ Len(c) = m + n
      /\ \A i \in 1..m : c[i] = s[i]
      /\ \A i \in 1..n : c[m + i] = t[i]
  BY <1>1 DEF Joined
<1>3. /\ f \in Seq(Byte) /\ Len(f) = m /\ \A i \in 1..m : f[i] = Flip(ord, s[i])
      /\ g \in Seq(Byte) /\ Len(g) = n /\ \A i \in 1..n : g[i] = Flip(ord, t[i])
  BY FlipAllIs
<1> HIDE DEF c
<1>4. /\ h \in Seq(Byte) /\ Len(h) = m + n /\ \A i \in 1..m + n : h[i] = Flip(ord, c[i])
  <2>1. c \in Seq(Byte)
    BY <1>2
  <2>2. /\ h \in Seq(Byte) /\ Len(h) = Len(c) /\ \A i \in 1..Len(c) : h[i] = Flip(ord, c[i])
    BY <2>1, FlipAllIs
  <2> HIDE DEF h
  <2>3. QED
    BY <1>2, <2>2
<1> HIDE DEF f, g, h, m, n
<1>5. Joined(f, g, Byte)
  BY <1>3, Join
<1>6. /\ f \o g \in Seq(Byte) /\ Len(f \o g) = m + n
      /\ \A i \in 1..m : (f \o g)[i] = f[i]
      /\ \A i \in 1..n : (f \o g)[m + i] = g[i]
  BY <1>3, <1>5 DEF Joined
<1>7. ASSUME NEW i \in 1..m + n
      PROVE  (f \o g)[i] = h[i]
  <2>1. CASE i \in 1..m
    BY <1>2, <1>3, <1>4, <1>6, <2>1
  <2>2. CASE i \notin 1..m
    <3>1. i - m \in 1..n /\ m + (i - m) = i
      BY <1>1, <2>2
    <3>2. (f \o g)[m + (i - m)] = Flip(ord, t[i - m]) /\ c[m + (i - m)] = t[i - m]
      BY <1>2, <1>3, <1>6, <3>1
    <3>3. QED
      BY <1>4, <3>1, <3>2
  <2>3. QED
    BY <2>1, <2>2
<1>8. f \o g = h
  BY <1>4, <1>6, <1>7, SeqEqual
<1>9. QED
  BY <1>8 DEF f, g, h, c

\* A string without an escape byte becomes itself, its bytes in order.
LEMMA BodyPlain ==
  ASSUME NEW ord, NEW t \in Seq(Byte), \A i \in 1..Len(t) : t[i] # EscapeAsc.start
  PROVE  Body(ord, t) = FlipAll(ord, t)
<1> DEFINE Free(x) == \A i \in 1..Len(x) : x[i] # EscapeAsc.start
           T == {x \in Seq(Byte) : Free(x) => Body(ord, x) = FlipAll(ord, x)}
<1>1. << >> \in T
  <2>1. << >> \in Seq(Byte) /\ FlipAll(ord, << >>) = << >>
    BY EmptySeq, FlipAllIs
  <2>2. QED
    BY <2>1, BodyEmpty
<1>2. ASSUME NEW x \in Seq(Byte), NEW b \in Byte, x \in T
      PROVE  Append(x, b) \in T
  <2>1. /\ Append(x, b) \in Seq(Byte) /\ Len(Append(x, b)) = Len(x) + 1 /\ Len(x) \in Nat
        /\ \A i \in 1..Len(x) : Append(x, b)[i] = x[i]
        /\ Append(x, b)[Len(x) + 1] = b
    BY AppendProperties, LenProperties
  <2>2. SUFFICES ASSUME Free(Append(x, b))
                 PROVE  Body(ord, Append(x, b)) = FlipAll(ord, Append(x, b))
    BY <2>1
  <2>3. b # EscapeAsc.start /\ Free(x)
    <3>1. Len(x) + 1 \in 1..Len(Append(x, b)) /\ \A i \in 1..Len(x) : i \in 1..Len(Append(x, b))
      BY <2>1
    <3>2. QED
      BY <2>1, <2>2, <3>1
  <2> DEFINE c == <<b>>
  <2>4. c \in Seq(Byte) /\ Len(c) = 1 /\ c[1] = b
    BY Single
  <2>5. Append(x, b) = x \o c
    BY AppendIsConcat
  <2>6. Body(ord, Append(x, b)) = Body(ord, x) \o <<Flip(ord, b)>>
    <3>1. PieceOf(ord, b) = <<Flip(ord, b)>>
      BY <2>3 DEF PieceOf
    <3>2. QED
      BY <3>1, BodyAppend
  <2>7. FlipAll(ord, c) = <<Flip(ord, b)>>
    BY DEF FlipAll
  <2> HIDE DEF c
  <2>8. FlipAll(ord, x \o c) = FlipAll(ord, x) \o FlipAll(ord, c)
    BY <2>4, FlipConcat
  <2>9. Body(ord, x) = FlipAll(ord, x)
    BY <1>2, <2>3
  <2>10. QED
    BY <2>5, <2>6, <2>7, <2>8, <2>9
<1> HIDE DEF T
<1>3. Seq(Byte) \subseteq T
  BY <1>1, <1>2, AppendInduction
<1>4. QED
  BY <1>3 DEF T

\* The documented encoding is the body and the terminator, in either order.
LEMMA EscapedIs ==
  ASSUME NEW ord, NEW t \in Seq(Byte)
  PROVE  Escaped(ord, t) = Coded(ord, t)
<1> DEFINE asc == Body("Ascending", t) \o Terminator("Ascending")
<1>1. Escaped(ord, t) = IF ord = "Descending" THEN ComplementAll(asc) ELSE asc
  <2>1. /\ Terminator("Ascending") = <<EscapeAsc.start, EscapeAsc.term>>
        /\ Pieces("Ascending", t) = [i \in DOMAIN t |->
               IF t[i] = EscapeAsc.start THEN <<EscapeAsc.start, EscapeAsc.esc>>
               ELSE <<t[i]>>]
    BY DEF Terminator, Pieces, PieceOf, Esc, Flip
  <2>2. QED
    BY <2>1 DEF Escaped, Body
<1>2. CASE ord # "Descending"
  <2>1. Esc(ord) = Esc("Ascending")
    BY <1>2 DEF Esc
  <2>2. \A b : Flip(ord, b) = Flip("Ascending", b)
    BY <1>2 DEF Flip
  <2>3. Terminator(ord) = Terminator("Ascending")
    BY <2>1 DEF Terminator
  <2>4. \A b : PieceOf(ord, b) = PieceOf("Ascending", b)
    BY <2>1, <2>2 DEF PieceOf
  <2>5. Pieces(ord, t) = Pieces("Ascending", t)
    BY <2>4 DEF Pieces
  <2>6. QED
    BY <1>1, <1>2, <2>3, <2>5 DEF Coded, Body
<1>3. CASE ord = "Descending"
  <2> DEFINE T == {x \in Seq(Byte) : FlipAll(ord, Body("Ascending", x)) = Body(ord, x)}
  <2>1. << >> \in T
    <3>1. << >> \in Seq(Byte) /\ FlipAll(ord, << >>) = << >>
      BY EmptySeq, FlipAllIs
    <3>2. QED
      BY <3>1, BodyEmpty
  <2>2. ASSUME NEW x \in Seq(Byte), NEW b \in Byte, x \in T
        PROVE  Append(x, b) \in T
    <3>1. Append(x, b) \in Seq(Byte)
      BY AppendProperties
    <3> DEFINE f == Body("Ascending", x)
               w == PieceOf("Ascending", b)
    <3>2. f \in Seq(Byte) /\ w \in Seq(Byte) /\ Body("Ascending", Append(x, b)) = f \o w
      BY BodyAppend, PieceIs
    <3>3. FlipAll(ord, w) = PieceOf(ord, b)
      <4>1. CASE b = EscapeAsc.start
        <5>1. /\ w = <<EscapeAsc.start, EscapeAsc.esc>>
              /\ PieceOf(ord, b) = <<EscapeDesc.start, EscapeDesc.esc>>
          BY <1>3, <4>1 DEF PieceOf, Esc
        <5>2. FlipAll(ord, w) = <<Flip(ord, EscapeAsc.start), Flip(ord, EscapeAsc.esc)>>
          BY <5>1 DEF FlipAll
        <5>3. QED
          BY <1>3, <5>1, <5>2 DEF Flip, EscapeDesc
      <4>2. CASE b # EscapeAsc.start
        <5>1. w = <<b>> /\ PieceOf(ord, b) = <<Flip(ord, b)>>
          BY <4>2 DEF PieceOf, Flip
        <5>2. FlipAll(ord, w) = <<Flip(ord, b)>>
          BY <5>1 DEF FlipAll
        <5>3. QED
          BY <5>1, <5>2
      <4>3. QED
        BY <4>1, <4>2
    <3> HIDE DEF f, w
    <3>4. FlipAll(ord, f \o w) = FlipAll(ord, f) \o FlipAll(ord, w)
      BY <3>2, FlipConcat
    <3>5. FlipAll(ord, f) = Body(ord, x)
      BY <2>2 DEF f
    <3>6. Body(ord, Append(x, b)) = Body(ord, x) \o PieceOf(ord, b)
      BY BodyAppend
    <3>7. QED
      BY <3>1, <3>2, <3>3, <3>4, <3>5, <3>6
  <2> HIDE DEF T
  <2>3. Seq(Byte) \subseteq T
    BY <2>1, <2>2, AppendInduction
  <2>4. FlipAll(ord, Body("Ascending", t)) = Body(ord, t)
    BY <2>3 DEF T
  <2>5. FlipAll(ord, Terminator("Ascending")) = Terminator(ord)
    <3>1. /\ Terminator("Ascending") = <<EscapeAsc.start, EscapeAsc.term>>
          /\ Terminator(ord) = <<EscapeDesc.start, EscapeDesc.term>>
      BY <1>3 DEF Terminator, Esc
    <3>2. FlipAll(ord, Terminator("Ascending"))
          = <<Flip(ord, EscapeAsc.start), Flip(ord, EscapeAsc.term)>>
      BY <3>1 DEF FlipAll
    <3>3. QED
      BY <1>3, <3>1, <3>2 DEF Flip, EscapeDesc
  <2>6. FlipAll(ord, asc) = FlipAll(ord, Body("Ascending", t)) \o FlipAll(ord, Terminator("Ascending"))
    BY BodyType, TerminatorIs, FlipConcat
  <2>7. ComplementAll(asc) = FlipAll(ord, asc)
    BY <1>3 DEF ComplementAll, FlipAll, Flip
  <2>8. QED
    BY <1>1, <1>3, <2>4, <2>5, <2>6, <2>7 DEF Coded
<1>4. QED
  BY <1>2, <1>3


-----------------------------------------------------------------------------

(* The escaped form is prefix-free.                                        *)

\* p is the first escape in e, and what follows it is one of the two bytes that may.
EscapeFirst(ord, e, p) ==
  /\ p \in 1..Len(e) - 1
  /\ e[p] = Esc(ord).start /\ e[p + 1] \in {Esc(ord).esc, Esc(ord).term}
  /\ \A j \in 1..p - 1 : e[j] # Esc(ord).start

\* Every escaped form has a first escape that a reader can follow.
LEMMA FirstEscape ==
  ASSUME NEW ord, NEW t \in Seq(Byte)
  PROVE  \E p \in Nat : EscapeFirst(ord, Coded(ord, t), p)
<1> DEFINE T == {x \in Seq(Byte) : \E p \in Nat : EscapeFirst(ord, Coded(ord, x), p)}
<1>1. << >> \in T
  <2>1. Coded(ord, << >>) = Terminator(ord)
    BY BodyEmpty, TerminatorIs, ConcatEmptySeq DEF Coded
  <2>2. /\ Len(Terminator(ord)) = 2 /\ Terminator(ord)[1] = Esc(ord).start
        /\ Terminator(ord)[2] = Esc(ord).term
    BY TerminatorIs
  <2>3. EscapeFirst(ord, Terminator(ord), 1)
    BY <2>2 DEF EscapeFirst
  <2>4. QED
    BY <2>1, <2>3, EmptySeq
<1>2. ASSUME NEW x \in Seq(Byte), NEW b \in Byte, x \in T
      PROVE  <<b>> \o x \in T
  <2> DEFINE e == Coded(ord, x)
             w == PieceOf(ord, b)
             c == <<b>>
             x1 == Esc(ord).start
             n == Len(e)
  <2>1. /\ e \in Seq(Byte) /\ w \in Seq(Byte) /\ Coded(ord, c \o x) = w \o e
        /\ c \in Seq(Byte) /\ n \in Nat
    BY BodyType, BodyPrepend, PieceIs, Single, LenProperties
  <2>2. c \o x \in Seq(Byte)
    BY <2>1, ConcatProperties, Zenon
  <2>3. PICK p \in Nat : EscapeFirst(ord, e, p)
    BY <1>2
  <2>4. Joined(w, e, Byte)
    BY <2>1, Join
  <2>5. \E q \in Nat : EscapeFirst(ord, w \o e, q)
    <3>1. CASE b = EscapeAsc.start
      <4>1. Len(w) = 2 /\ w[1] = x1 /\ w[2] = Esc(ord).esc
        BY <3>1, PieceIs, EscapeBytes
      <4>2. Len(w \o e) = 2 + n /\ (w \o e)[1] = w[1] /\ (w \o e)[2] = w[2]
        BY <2>4, <4>1 DEF Joined
      <4>3. EscapeFirst(ord, w \o e, 1)
        <5> HIDE DEF w, e, n
        <5>1. QED
          BY <2>1, <4>1, <4>2 DEF EscapeFirst
      <4>4. QED
        BY <4>3
    <3>2. CASE b # EscapeAsc.start
      <4>1. Len(w) = 1 /\ w[1] # x1
        BY <3>2, PieceIs
      <4>2. Len(w \o e) = n + 1 /\ (w \o e)[1] = w[1] /\ \A i \in 1..n : (w \o e)[i + 1] = e[i]
        <5> DEFINE we == w \o e
        <5>1. /\ Len(we) = 1 + n /\ we[1] = w[1]
              /\ \A i \in 1..n : we[1 + i] = e[i]
          BY <2>4, <4>1 DEF Joined
        <5> HIDE DEF we, e, w, n
        <5>2. Len(we) = n + 1 /\ we[1] = w[1] /\ \A i \in 1..n : we[i + 1] = e[i]
          BY <2>1, <5>1
        <5>3. QED
          BY <5>2 DEF we
      <4>3. EscapeFirst(ord, w \o e, p + 1)
        <5> DEFINE we == w \o e
        <5>1. /\ Len(we) = n + 1 /\ we[1] # x1
              /\ \A i \in 1..n : we[i + 1] = e[i]
          BY <4>1, <4>2
        <5>2. /\ p \in 1..n - 1 /\ e[p] = x1 /\ e[p + 1] \in {Esc(ord).esc, Esc(ord).term}
              /\ \A j \in 1..p - 1 : e[j] # x1
          BY <2>3 DEF EscapeFirst
        <5> HIDE DEF we, e, n
        <5>3. p + 1 \in 1..Len(we) - 1 /\ p \in 1..n /\ p + 1 \in 1..n
          BY <2>1, <5>1, <5>2
        <5>4. we[p + 1] = x1 /\ we[(p + 1) + 1] = e[p + 1]
          BY <5>1, <5>2, <5>3
        <5>5. ASSUME NEW j \in 1..(p + 1) - 1 PROVE we[j] # x1
          <6>1. CASE j = 1
            BY <5>1, <6>1
          <6>2. CASE j # 1
            <7>1. j - 1 \in 1..p - 1 /\ j - 1 \in 1..n /\ (j - 1) + 1 = j
              BY <2>1, <5>2, <6>2
            <7>2. QED
              BY <5>1, <5>2, <7>1
          <6>3. QED
            BY <6>1, <6>2
        <5>6. QED
          BY <5>2, <5>3, <5>4, <5>5 DEF EscapeFirst, we
      <4>4. QED
        BY <4>3
    <3>3. QED
      BY <3>1, <3>2
  <2>6. QED
    BY <2>1, <2>2, <2>5
<1> HIDE DEF T
<1>3. Seq(Byte) \subseteq T
  BY <1>1, <1>2, PrependInduction
<1>4. QED
  BY <1>3 DEF T

\* What the two readers of the same bytes are told apart by, in a form that is
\* instantiated by its name: bytes that begin with a body and with an escaped
\* form begin with the body's string, and its form goes on with the rest.
Continues(ord, v, t, r, f) ==
  Body(ord, v) \o r = Coded(ord, t) \o f =>
    \E u \in Seq(Byte) : t = v \o u /\ r = Coded(ord, u) \o f

\* The first byte of a form tells the first byte of its string, or its end.
Starts(ord, b, t, r, f) ==
  PieceOf(ord, b) \o r = Coded(ord, t) \o f =>
    \E u \in Seq(Byte) : t = <<b>> \o u /\ r = Coded(ord, u) \o f

\* Starts holds of all byte strings.
LEMMA HeadOfForm ==
  ASSUME NEW ord, NEW b \in Byte, NEW t \in Seq(Byte), NEW r \in Seq(Byte), NEW f \in Seq(Byte)
  PROVE  Starts(ord, b, t, r, f)
<1> SUFFICES ASSUME PieceOf(ord, b) \o r = Coded(ord, t) \o f
             PROVE  \E u \in Seq(Byte) : t = <<b>> \o u /\ r = Coded(ord, u) \o f
  BY DEF Starts
<1> DEFINE w == PieceOf(ord, b)
           term == Terminator(ord)
<1>1. w \in Seq(Byte) /\ term \in Seq(Byte) /\ Len(w) \in {1, 2} /\ w[1] = Flip(ord, b)
  BY PieceIs, TerminatorIs
<1>2. Len(term) = 2 /\ term[1] = Esc(ord).start /\ term[2] = Esc(ord).term
  BY TerminatorIs
<1>3. CASE t = << >>
  <2>1. Coded(ord, t) = term
    BY <1>3, BodyEmpty, TerminatorIs, ConcatEmptySeq DEF Coded
  <2>2. w \o r = term \o f
    BY <2>1
  <2> HIDE DEF w, term
  <2>3. Joined(w, r, Byte) /\ Joined(term, f, Byte)
    BY <1>1, Join
  <2>4. w[1] = term[1]
    BY <1>1, <1>2, <2>2, <2>3 DEF Joined
  <2>5. Flip(ord, b) = Esc(ord).start
    BY <1>1, <1>2, <2>4
  <2>6. b = EscapeAsc.start
    BY <2>5, EscapeBytes
  <2>7. Len(w) = 2 /\ w[2] = Esc(ord).esc
    BY <2>6, PieceIs DEF w
  <2>8. w[2] = term[2]
    BY <1>2, <2>2, <2>3, <2>7 DEF Joined
  <2>9. QED
    BY <1>2, <2>7, <2>8, EscapeBytes
<1>4. CASE t # << >>
  <2> DEFINE c == Head(t)
             u == Tail(t)
             z == PieceOf(ord, c)
             e == Coded(ord, u)
  <2>1. c \in Byte /\ u \in Seq(Byte) /\ t = <<c>> \o u
    BY <1>4, HeadAndTail
  <2>2. Coded(ord, t) = z \o e /\ z \in Seq(Byte) /\ e \in Seq(Byte)
    <3>1. Coded(ord, <<c>> \o u) = z \o e
      BY <2>1, BodyPrepend
    <3>2. QED
      BY <2>1, <3>1, PieceIs, BodyType
  <2>3. Len(z) \in {1, 2} /\ z[1] = Flip(ord, c)
    BY <2>1, PieceIs
  <2> HIDE DEF c, u
  <2>4. w \o r = z \o (e \o f) /\ e \o f \in Seq(Byte)
    <3>1. Associates(z, e, f)
      BY <2>2, Association
    <3>2. w \o r = (z \o e) \o f
      BY <2>2
    <3> HIDE DEF w, z, e
    <3>3. e \o f \in Seq(Byte)
      BY <2>2, ConcatProperties, Zenon
    <3>4. QED
      BY <3>1, <3>2, <3>3 DEF Associates
  <2>5. b = c
    <3> DEFINE ef == e \o f
    <3>1. ef \in Seq(Byte) /\ w \o r = z \o ef
      BY <2>4
    <3> HIDE DEF w, z, ef
    <3>2. FirstAgrees(w, r, z, ef)
      BY <1>1, <2>2, <3>1, FirstOf
    <3>3. Len(w) >= 1 /\ Len(z) >= 1
      BY <1>1, <2>3
    <3>4. Flip(ord, b) = Flip(ord, c)
      BY <1>1, <2>3, <3>1, <3>2, <3>3 DEF FirstAgrees
    <3>5. Flip(ord, Flip(ord, b)) = b /\ Flip(ord, Flip(ord, c)) = c
      BY <2>1, EscapeBytes
    <3>6. QED
      BY <3>4, <3>5
  <2>6. r = e \o f
    <3> DEFINE ef == e \o f
    <3>1. ef \in Seq(Byte) /\ w \o r = w \o ef
      BY <2>4, <2>5
    <3> HIDE DEF w, ef
    <3>2. SplitsFront(w, r, w, ef)
      BY <1>1, <3>1, SplitFront
    <3>3. QED
      BY <3>1, <3>2 DEF SplitsFront, ef
  <2>7. QED
    BY <2>1, <2>5, <2>6 DEF e
<1>5. QED
  BY <1>3, <1>4

\* Continues holds of all byte strings: a form has no other beginnings than the
\* bodies of its string's.
LEMMA Unique ==
  ASSUME NEW ord, NEW v \in Seq(Byte), NEW t \in Seq(Byte), NEW r \in Seq(Byte), NEW f \in Seq(Byte)
  PROVE  Continues(ord, v, t, r, f)
<1> DEFINE T == {x \in Seq(Byte) : \A tt, rr, ff \in Seq(Byte) : Continues(ord, x, tt, rr, ff)}
<1>1. << >> \in T
  <2>1. ASSUME NEW tt \in Seq(Byte), NEW rr \in Seq(Byte), NEW ff \in Seq(Byte),
               Body(ord, << >>) \o rr = Coded(ord, tt) \o ff
        PROVE  \E u \in Seq(Byte) : tt = << >> \o u /\ rr = Coded(ord, u) \o ff
    <3>1. << >> \o tt = tt /\ << >> \o rr = rr
      BY ConcatEmptySeq
    <3>2. QED
      BY <2>1, <3>1, BodyEmpty
  <2>2. \A tt, rr, ff \in Seq(Byte) : Continues(ord, << >>, tt, rr, ff)
    BY <2>1 DEF Continues
  <2>3. QED
    BY <2>2, EmptySeq
<1>2. ASSUME NEW x \in Seq(Byte), NEW b \in Byte, x \in T
      PROVE  <<b>> \o x \in T
  <2> DEFINE c == <<b>>
  <2>1. c \in Seq(Byte)
    BY Single
  <2>2. c \o x \in Seq(Byte)
    BY <2>1, ConcatProperties, Zenon
  <2>3. ASSUME NEW tt \in Seq(Byte), NEW rr \in Seq(Byte), NEW ff \in Seq(Byte),
               Body(ord, c \o x) \o rr = Coded(ord, tt) \o ff
        PROVE  \E u \in Seq(Byte) : tt = (c \o x) \o u /\ rr = Coded(ord, u) \o ff
    <3> DEFINE w == PieceOf(ord, b)
               g == Body(ord, x)
    <3>1. w \in Seq(Byte) /\ g \in Seq(Byte) /\ Body(ord, c \o x) = w \o g
      BY PieceIs, BodyType, BodyPrepend
    <3>2. g \o rr \in Seq(Byte) /\ w \o (g \o rr) = Coded(ord, tt) \o ff
      <4>1. (w \o g) \o rr = Coded(ord, tt) \o ff
        BY <2>3, <3>1
      <4> HIDE DEF w, g
      <4>2. Associates(w, g, rr)
        BY <3>1, Association
      <4>3. g \o rr \in Seq(Byte)
        BY <3>1, ConcatProperties, Zenon
      <4>4. QED
        BY <4>1, <4>2, <4>3 DEF Associates
    <3>3. PICK u \in Seq(Byte) : tt = c \o u /\ g \o rr = Coded(ord, u) \o ff
      <4> DEFINE gr == g \o rr
      <4>1. gr \in Seq(Byte) /\ PieceOf(ord, b) \o gr = Coded(ord, tt) \o ff
        BY <3>2
      <4> HIDE DEF gr, g, w, c
      <4>2. Starts(ord, b, tt, gr, ff)
        BY <4>1, HeadOfForm
      <4>3. QED
        BY <4>1, <4>2 DEF gr, c, Starts
    <3>4. Continues(ord, x, u, rr, ff)
      BY <1>2
    <3>5. PICK z \in Seq(Byte) : u = x \o z /\ rr = Coded(ord, z) \o ff
      BY <3>3, <3>4 DEF Continues
    <3> HIDE DEF c
    <3>6. Associates(c, x, z)
      BY <2>1, Association
    <3>7. tt = (c \o x) \o z
      BY <3>3, <3>5, <3>6 DEF Associates
    <3>8. QED
      BY <3>5, <3>7
  <2>4. \A tt, rr, ff \in Seq(Byte) : Continues(ord, c \o x, tt, rr, ff)
    <3> HIDE DEF c
    <3>1. QED
      BY <2>3, Zenon DEF Continues
  <2>5. QED
    BY <2>2, <2>4
<1> HIDE DEF T
<1>3. Seq(Byte) \subseteq T
  BY <1>1, <1>2, PrependInduction
<1>4. QED
  BY <1>3 DEF T

\* No escaped form begins another, in a form that is instantiated by its name.
Distinct(ord, a, b, f, g) == Coded(ord, a) \o f = Coded(ord, b) \o g => a = b /\ f = g

\* Distinct holds of all byte strings.
LEMMA PrefixFree ==
  ASSUME NEW ord, NEW a \in Seq(Byte), NEW b \in Seq(Byte), NEW f \in Seq(Byte), NEW g \in Seq(Byte)
  PROVE  Distinct(ord, a, b, f, g)
<1> SUFFICES ASSUME Coded(ord, a) \o f = Coded(ord, b) \o g
             PROVE  a = b /\ f = g
  BY DEF Distinct
<1> DEFINE term == Terminator(ord)
           body == Body(ord, a)
<1>1. term \in Seq(Byte) /\ body \in Seq(Byte) /\ Coded(ord, a) = body \o term
  BY TerminatorIs, BodyType DEF Coded
<1>2. Len(term) = 2 /\ term[1] = Esc(ord).start /\ term[2] = Esc(ord).term
  BY TerminatorIs
<1>3. term \o f \in Seq(Byte) /\ body \o (term \o f) = Coded(ord, b) \o g
  <2>1. (body \o term) \o f = Coded(ord, b) \o g
    BY <1>1
  <2> HIDE DEF term, body
  <2>2. Associates(body, term, f) /\ term \o f \in Seq(Byte)
    <3>1. term \o f \in Seq(Byte)
      BY <1>1, ConcatProperties, Zenon
    <3>2. QED
      BY <1>1, <3>1, Association
  <2>3. QED
    BY <2>1, <2>2 DEF Associates
<1>4. PICK u \in Seq(Byte) : b = a \o u /\ term \o f = Coded(ord, u) \o g
  <2> DEFINE tf == term \o f
  <2>1. tf \in Seq(Byte) /\ Body(ord, a) \o tf = Coded(ord, b) \o g
    BY <1>3
  <2> HIDE DEF tf, term, body
  <2>2. Continues(ord, a, b, tf, g)
    BY <2>1, Unique
  <2>3. \E u \in Seq(Byte) : b = a \o u /\ tf = Coded(ord, u) \o g
    BY <2>1, <2>2 DEF Continues
  <2>4. QED
    BY <2>3 DEF tf
<1>5. CASE u = << >>
  <2>1. Coded(ord, u) = term
    BY <1>5, BodyEmpty, TerminatorIs, ConcatEmptySeq DEF Coded
  <2>2. a \o u = a
    BY <1>5, ConcatEmptySeq
  <2>3. term \o f = term \o g
    BY <1>4, <2>1
  <2> HIDE DEF term
  <2>4. SplitsFront(term, f, term, g)
    BY <1>1, SplitFront
  <2>5. QED
    BY <1>4, <2>2, <2>3, <2>4 DEF SplitsFront
<1>6. CASE u # << >>
  <2> DEFINE c == Head(u)
             y == Tail(u)
             z == PieceOf(ord, c)
             e == Coded(ord, y)
  <2>1. c \in Byte /\ y \in Seq(Byte) /\ u = <<c>> \o y
    BY <1>6, HeadAndTail
  <2>2. Coded(ord, u) = z \o e /\ z \in Seq(Byte) /\ e \in Seq(Byte)
    <3>1. Coded(ord, <<c>> \o y) = z \o e
      BY <2>1, BodyPrepend
    <3>2. QED
      BY <2>1, <3>1, PieceIs, BodyType
  <2>3. /\ Len(z) \in {1, 2} /\ z[1] = Flip(ord, c)
        /\ c = EscapeAsc.start => Len(z) = 2 /\ z[2] = Esc(ord).esc
    BY <2>1, PieceIs
  <2> HIDE DEF c, y, term
  <2>4. term \o f = z \o (e \o g) /\ e \o g \in Seq(Byte)
    <3>1. Associates(z, e, g)
      BY <2>2, Association
    <3>2. term \o f = (z \o e) \o g
      BY <1>4, <2>2
    <3> HIDE DEF z, e
    <3>3. e \o g \in Seq(Byte)
      BY <2>2, ConcatProperties, Zenon
    <3>4. QED
      BY <3>1, <3>2, <3>3 DEF Associates
  <2> DEFINE eg == e \o g
  <2>5. eg \in Seq(Byte) /\ term \o f = z \o eg
    BY <2>4
  <2> HIDE DEF z, e, eg
  <2>6. Joined(term, f, Byte) /\ Joined(z, eg, Byte)
    BY <1>1, <2>2, <2>5, Join
  <2>7. term[1] = z[1]
    <3>1. FirstAgrees(term, f, z, eg)
      BY <1>1, <2>2, <2>5, FirstOf
    <3>2. Len(z) >= 1 /\ Len(term) >= 1
      BY <1>2, <2>3
    <3>3. QED
      BY <2>5, <3>1, <3>2 DEF FirstAgrees
  <2>8. c = EscapeAsc.start
    <3>1. Flip(ord, c) = Esc(ord).start
      BY <1>2, <2>3, <2>7
    <3>2. QED
      BY <2>1, <3>1, EscapeBytes
  <2>9. term[2] = z[2]
    BY <1>2, <2>3, <2>5, <2>6, <2>8 DEF Joined
  <2>10. QED
    BY <1>2, <2>3, <2>8, <2>9, EscapeBytes
<1>7. QED
  BY <1>5, <1>6

-----------------------------------------------------------------------------

(* One round of a reader's loop.                                           *)

\* What a reader finds up to the first escape of the bytes u, which is at k, in a
\* form that is instantiated by its name: the body of what it copies, or the form.
Scans(ord, u, k) ==
  LET scanned == SubSeq(u, 1, k)
      behind  == SubSeq(u, k + 2, Len(u))
  IN /\ scanned \in Seq(Byte) /\ Len(scanned) = k
     /\ Front(scanned) \in Seq(Byte) /\ Len(Front(scanned)) = k - 1
     /\ behind \in Seq(Byte)
     /\ u[k + 1] = Esc(ord).esc => u = Body(ord, FlipAll(ord, scanned)) \o behind
     /\ u[k + 1] = Esc(ord).term => u = Coded(ord, FlipAll(ord, Front(scanned))) \o behind

\* Scans holds wherever there is a first escape with a byte behind it.
LEMMA Round ==
  ASSUME NEW ord, NEW u \in Seq(Byte), NEW k \in Nat, k \in 1..Len(u) - 1,
         u[k] = Esc(ord).start, \A j \in 1..k - 1 : u[j] # Esc(ord).start
  PROVE  Scans(ord, u, k)
<1> DEFINE n == Len(u)
           x == Esc(ord).start
           a == SubSeq(u, 1, k + 1)
           f == SubSeq(u, 1, k - 1)
           s == SubSeq(u, 1, k)
           r == SubSeq(u, k + 2, n)
           g == FlipAll(ord, f)
<1>1. n \in Nat /\ k \in 1..n - 1 /\ k + 1 \in 0..n /\ k - 1 \in 0..n /\ k \in 0..n
      /\ (k + 1) + 1 = k + 2
  BY LenProperties
<1>2. /\ a \in Seq(Byte) /\ Len(a) = k + 1 /\ \A i \in 1..k + 1 : a[i] = u[i]
      /\ r \in Seq(Byte) /\ u = a \o r
  <2>1. /\ a \in Seq(Byte) /\ Len(a) = k + 1 /\ \A i \in 1..k + 1 : a[i] = u[i]
    BY <1>1, CutElements
  <2>2. SubSeq(u, (k + 1) + 1, n) \in Seq(Byte) /\ a \o SubSeq(u, (k + 1) + 1, n) = u
    BY <1>1, CutSeq
  <2>3. QED
    BY <1>1, <2>1, <2>2
<1>3. f \in Seq(Byte) /\ Len(f) = k - 1 /\ \A i \in 1..k - 1 : f[i] = u[i]
  BY <1>1, CutElements
<1>4. s \in Seq(Byte) /\ Len(s) = k /\ \A i \in 1..k : s[i] = u[i]
  BY <1>1, CutElements
<1>5. /\ g \in Seq(Byte) /\ Len(g) = k - 1 /\ \A i \in 1..k - 1 : g[i] = Flip(ord, f[i])
      /\ FlipAll(ord, g) = f
  <2> HIDE DEF f
  <2>1. /\ g \in Seq(Byte) /\ Len(g) = Len(f) /\ \A i \in 1..Len(f) : g[i] = Flip(ord, f[i])
        /\ FlipAll(ord, g) = f
    BY <1>3, FlipAllIs
  <2> HIDE DEF g
  <2>2. QED
    BY <1>3, <2>1
<1>6. u[k] = x /\ u[k + 1] \in Byte /\ x \in Byte
  <2>1. k + 1 \in 1..n
    BY <1>1
  <2>2. QED
    BY <2>1, ElementOfSeq, EscapeBytes
<1>7. Body(ord, g) = f
  <2>1. ASSUME NEW i \in 1..Len(g) PROVE g[i] # EscapeAsc.start
    <3>1. i \in 1..k - 1
      BY <1>5
    <3>2. f[i] \in Byte /\ f[i] # x
      BY <1>3, <3>1, ElementOfSeq
    <3>3. Flip(ord, g[i]) = f[i] /\ g[i] \in Byte
      BY <1>5, <3>1, <3>2, EscapeBytes
    <3>4. QED
      BY <3>2, <3>3, EscapeBytes
  <2> HIDE DEF g
  <2>2. g \in Seq(Byte)
    BY <1>5
  <2>3. Body(ord, g) = FlipAll(ord, g)
    BY <2>1, <2>2, BodyPlain
  <2>4. QED
    BY <1>5, <2>3
<1>8. Front(s) = f
  <2> HIDE DEF s, f
  <2>1. k - 1 \in 0..Len(s) /\ Front(s) = SubSeq(s, 1, k - 1)
    BY <1>1, <1>4 DEF Front
  <2>2. /\ Front(s) \in Seq(Byte) /\ Len(Front(s)) = k - 1
        /\ \A i \in 1..k - 1 : Front(s)[i] = s[i]
    BY <1>4, <2>1, CutElements
  <2>3. \A i \in 1..k - 1 : Front(s)[i] = f[i]
    <3>1. \A i \in 1..k - 1 : i \in 1..k
      BY <1>1
    <3>2. QED
      BY <1>3, <1>4, <2>2, <3>1
  <2>4. QED
    BY <1>3, <2>2, <2>3, SeqEqual
<1>9. s = Append(f, x)
  <2> HIDE DEF s, f
  <2>1. /\ Append(f, x) \in Seq(Byte) /\ Len(Append(f, x)) = (k - 1) + 1
        /\ \A i \in 1..k - 1 : Append(f, x)[i] = f[i]
        /\ Append(f, x)[(k - 1) + 1] = x
    BY <1>3, <1>6, AppendProperties
  <2>2. (k - 1) + 1 = k /\ \A i \in 1..k : i \in 1..k - 1 \/ i = k
    BY <1>1
  <2>3. \A i \in 1..k : Append(f, x)[i] = s[i]
    BY <1>3, <1>4, <1>6, <2>1, <2>2
  <2>4. QED
    BY <1>4, <2>1, <2>2, <2>3, SeqEqual
<1>10. a = f \o <<x, u[k + 1]>>
  <2> DEFINE d == <<x, u[k + 1]>>
  <2>1. d \in Seq(Byte) /\ Len(d) = 2 /\ d[1] = x /\ d[2] = u[k + 1]
    BY <1>6, Double
  <2> HIDE DEF d, f, a
  <2>2. Joined(f, d, Byte)
    BY <1>3, <2>1, Join
  <2> DEFINE c == f \o d
  <2>3. /\ c \in Seq(Byte) /\ Len(c) = (k - 1) + 2 /\ \A i \in 1..k - 1 : c[i] = f[i]
        /\ c[(k - 1) + 1] = d[1] /\ c[(k - 1) + 2] = d[2]
    BY <1>3, <2>1, <2>2 DEF Joined
  <2>4. (k - 1) + 2 = k + 1 /\ (k - 1) + 1 = k /\ \A i \in 1..k + 1 : i \in 1..k - 1 \/ i = k \/ i = k + 1
    BY <1>1
  <2> HIDE DEF c
  <2>5. \A i \in 1..k - 1 : c[i] = a[i]
    BY <1>1, <1>2, <1>3, <2>3
  <2>6. c[k] = a[k] /\ c[k + 1] = a[k + 1]
    <3>1. k \in 1..k + 1 /\ k + 1 \in 1..k + 1
      BY <1>1
    <3>2. a[k] = x /\ a[k + 1] = u[k + 1]
      BY <1>2, <1>6, <3>1
    <3>3. QED
      BY <2>1, <2>3, <2>4, <3>2
  <2>7. \A i \in 1..k + 1 : c[i] = a[i]
    BY <2>4, <2>5, <2>6
  <2>8. Len(c) = k + 1
    BY <2>3, <2>4
  <2>9. c = a
    BY <1>2, <2>3, <2>7, <2>8, SeqEqual
  <2>10. QED
    BY <2>9 DEF c, d
<1>11. ASSUME u[k + 1] = Esc(ord).esc
       PROVE  u = Body(ord, FlipAll(ord, s)) \o r
  <2>1. FlipAll(ord, s) = Append(g, EscapeAsc.start)
    <3> DEFINE c == <<x>>
    <3>1. c \in Seq(Byte)
      BY <1>6, Single
    <3>2. s = f \o c
      BY <1>3, <1>6, <1>9, AppendIsConcat
    <3>3. FlipAll(ord, c) = <<EscapeAsc.start>>
      <4>1. Flip(ord, x) = EscapeAsc.start
        BY EscapeBytes
      <4>2. FlipAll(ord, c) = <<Flip(ord, x)>>
        BY DEF FlipAll
      <4>3. QED
        BY <4>1, <4>2
    <3> HIDE DEF c, f, s
    <3>4. FlipAll(ord, f \o c) = FlipAll(ord, f) \o FlipAll(ord, c)
      BY <1>3, <3>1, FlipConcat
    <3>5. g \o <<EscapeAsc.start>> = Append(g, EscapeAsc.start)
      <4> HIDE DEF g
      <4>1. g \in Seq(Byte) /\ EscapeAsc.start \in Byte
        BY <1>5, EscapeBytes
      <4>2. QED
        BY <4>1, AppendIsConcat
    <3>6. QED
      BY <3>2, <3>3, <3>4, <3>5
  <2>2. PieceOf(ord, EscapeAsc.start) = <<x, u[k + 1]>>
    BY <1>11 DEF PieceOf
  <2> HIDE DEF g, f, a, s, r, x
  <2>3. Body(ord, Append(g, EscapeAsc.start)) = Body(ord, g) \o PieceOf(ord, EscapeAsc.start)
    BY <1>5, EscapeBytes, BodyAppend
  <2>4. QED
    BY <1>2, <1>7, <1>10, <2>1, <2>2, <2>3
<1>12. ASSUME u[k + 1] = Esc(ord).term
       PROVE  u = Coded(ord, FlipAll(ord, Front(s))) \o r
  <2>1. Terminator(ord) = <<x, u[k + 1]>>
    BY <1>12 DEF Terminator
  <2>2. FlipAll(ord, Front(s)) = g
    BY <1>8
  <2> HIDE DEF g, f, a, s, r, x
  <2>3. QED
    BY <1>2, <1>7, <1>10, <2>1, <2>2 DEF Coded
<1>13. QED
  BY <1>2, <1>3, <1>4, <1>8, <1>11, <1>12 DEF Scans

\* The first escape of u, with a byte behind it, is at k.
First(ord, u, k) ==
  /\ k \in 1..Len(u) - 1 /\ u[k] = Esc(ord).start
  /\ \A j \in 1..k - 1 : u[j] # Esc(ord).start

\* A reader that has found the body of v in front of offset o goes on behind the
\* escape at k of the rest: it has found the body of more, or a whole form.
Advances(ord, in, o, v, k) ==
  LET u  == SubSeq(in, o + 1, Len(in))
      s  == SubSeq(u, 1, k)
      o2 == o + k + 1
      r  == SubSeq(in, o2 + 1, Len(in))
      x  == FlipAll(ord, s)
      y  == FlipAll(ord, Front(s))
  IN /\ o2 \in 0..Len(in) /\ r \in Seq(Byte)
     /\ s \in Seq(Byte) /\ Len(s) = k /\ Front(s) \in Seq(Byte) /\ Len(Front(s)) = k - 1
     /\ x \in Seq(Byte) /\ Len(x) = k /\ v \o x \in Seq(Byte)
     /\ y \in Seq(Byte) /\ Len(y) = k - 1 /\ v \o y \in Seq(Byte)
     /\ u[k + 1] = Esc(ord).esc => in = Body(ord, v \o x) \o r
     /\ u[k + 1] = Esc(ord).term => in = Coded(ord, v \o y) \o r /\ SubSeq(in, 1, o2) = Coded(ord, v \o y)

\* Advances holds of every buffer.
LEMMA Advance ==
  ASSUME NEW ord, NEW in \in Seq(Byte), NEW o \in 0..Len(in), NEW v \in Seq(Byte), NEW k \in Nat,
         in = Body(ord, v) \o SubSeq(in, o + 1, Len(in)),
         First(ord, SubSeq(in, o + 1, Len(in)), k)
  PROVE  Advances(ord, in, o, v, k)
<1> DEFINE n  == Len(in)
           u  == SubSeq(in, o + 1, n)
           s  == SubSeq(u, 1, k)
           o2 == o + k + 1
           r  == SubSeq(in, o2 + 1, n)
           x  == FlipAll(ord, s)
           y  == FlipAll(ord, Front(s))
<1>1. n \in Nat /\ o \in Nat /\ u \in Seq(Byte) /\ Len(u) = n - o
  BY LenProperties, CutElements
<1>2. k \in 1..Len(u) - 1
  BY DEF First
<1>3. o2 \in 0..n /\ o + (k + 1) = o2 /\ k + 1 \in Nat /\ o + (k + 1) <= n
  <2> HIDE DEF u, n
  <2>1. QED
    BY <1>1, <1>2
<1>4. r \in Seq(Byte) /\ SubSeq(u, k + 2, Len(u)) = r
  <2>1. r \in Seq(Byte)
    BY <1>3, CutElements
  <2>2. SubSeq(u, (k + 1) + 1, Len(u)) = SubSeq(in, (o + (k + 1)) + 1, n)
    BY <1>1, <1>3, DropTwice
  <2>3. (k + 1) + 1 = k + 2
    OBVIOUS
  <2>4. QED
    BY <1>3, <2>1, <2>2, <2>3
<1>5. Scans(ord, u, k)
  <2>1. u[k] = Esc(ord).start /\ \A j \in 1..k - 1 : u[j] # Esc(ord).start
    BY DEF First
  <2> HIDE DEF u
  <2>2. QED
    BY <1>1, <1>2, <2>1, Round
<1>6. /\ s \in Seq(Byte) /\ Len(s) = k /\ Front(s) \in Seq(Byte) /\ Len(Front(s)) = k - 1
      /\ u[k + 1] = Esc(ord).esc => u = Body(ord, x) \o r
      /\ u[k + 1] = Esc(ord).term => u = Coded(ord, y) \o r
  BY <1>4, <1>5 DEF Scans
<1>7. in = Body(ord, v) \o u
  OBVIOUS
<1> HIDE DEF u, s, r
<1>8. x \in Seq(Byte) /\ Len(x) = k /\ y \in Seq(Byte) /\ Len(y) = k - 1
  <2>1. x \in Seq(Byte) /\ Len(x) = Len(s)
    BY <1>6, FlipAllIs
  <2>2. y \in Seq(Byte) /\ Len(y) = Len(Front(s))
    BY <1>6, FlipAllIs
  <2>3. QED
    BY <1>6, <2>1, <2>2
<1> HIDE DEF x, y
<1>9. v \o x \in Seq(Byte) /\ v \o y \in Seq(Byte)
  BY <1>8, ConcatProperties, Zenon
<1>10. ASSUME u[k + 1] = Esc(ord).esc
       PROVE  in = Body(ord, v \o x) \o r
  <2>1. u = Body(ord, x) \o r
    BY <1>6, <1>10
  <2>2. Body(ord, v \o x) = Body(ord, v) \o Body(ord, x)
    BY <1>8, BodyConcat
  <2> DEFINE f == Body(ord, v)
             g == Body(ord, x)
  <2>3. f \in Seq(Byte) /\ g \in Seq(Byte)
    BY <1>8, BodyType
  <2>4. in = f \o (g \o r) /\ Body(ord, v \o x) = f \o g
    BY <1>7, <2>1, <2>2
  <2> HIDE DEF f, g
  <2>5. Associates(f, g, r)
    BY <1>4, <2>3, Association
  <2>6. QED
    BY <2>4, <2>5 DEF Associates
<1>11. ASSUME u[k + 1] = Esc(ord).term
       PROVE  in = Coded(ord, v \o y) \o r /\ SubSeq(in, 1, o2) = Coded(ord, v \o y)
  <2> DEFINE f == Body(ord, v)
             g == Body(ord, y)
             t == Terminator(ord)
             e == Coded(ord, v \o y)
  <2>1. u = Coded(ord, y) \o r
    BY <1>6, <1>11
  <2>2. f \in Seq(Byte) /\ g \in Seq(Byte) /\ t \in Seq(Byte) /\ e \in Seq(Byte)
    <3>1. Body(ord, v) \in Seq(Byte) /\ Body(ord, y) \in Seq(Byte)
      BY <1>8, BodyType
    <3>2. Coded(ord, v \o y) \in Seq(Byte)
      BY <1>9, BodyType
    <3>3. QED
      BY <3>1, <3>2, TerminatorIs
  <2>3. e = (f \o g) \o t /\ Coded(ord, y) = g \o t
    <3>1. Body(ord, v \o y) = f \o g
      BY <1>8, BodyConcat
    <3>2. QED
      BY <3>1 DEF Coded
  <2>4. in = f \o ((g \o t) \o r)
    BY <1>7, <2>1, <2>3
  <2> HIDE DEF f, g, t, e
  <2>5. in = e \o r
    <3>1. g \o t \in Seq(Byte)
      BY <2>2, ConcatProperties, Zenon
    <3> DEFINE gt == g \o t
    <3>2. gt \in Seq(Byte) /\ in = f \o (gt \o r)
      BY <2>4, <3>1
    <3>3. Associates(f, g, t)
      BY <2>2, Association
    <3>4. e = f \o gt
      BY <2>3, <3>3 DEF Associates
    <3> HIDE DEF gt
    <3>5. Associates(f, gt, r)
      BY <1>4, <2>2, <3>2, Association
    <3>6. QED
      BY <3>2, <3>4, <3>5 DEF Associates
  <2>6. SubSeq(in, 1, o2) = e
    <3> DEFINE a == SubSeq(in, 1, o2)
    <3>1. a \in Seq(Byte) /\ a \o r = in
      <4>1. a \in Seq(Byte) /\ a \o SubSeq(in, o2 + 1, Len(in)) = in
        BY <1>3, CutSeq
      <4>2. QED
        BY <4>1 DEF r
    <3> HIDE DEF a
    <3>2. a \o r = e \o r
      BY <2>5, <3>1
    <3>3. a = e
      <4>1. r \in Seq(Byte) /\ e \in Seq(Byte) /\ a \in Seq(Byte) /\ Len(r) = Len(r)
        BY <1>4, <2>2, <3>1
      <4>2. QED
        BY <3>2, <4>1, SplitEnd, Zenon
    <3>4. QED
      BY <3>3 DEF a
  <2>7. QED
    BY <2>5, <2>6 DEF e
<1>12. QED
  BY <1>3, <1>4, <1>6, <1>8, <1>9, <1>10, <1>11 DEF Advances, u, s, r, x, y

\* The bytes u, of which g may have been cut off, are what is left of a form: a
\* first escape can be followed, and is there unless something was cut off.
Guided(ord, u, g, t, f) ==
  u \o g = Coded(ord, t) \o f =>
    /\ \A k \in Nat : First(ord, u, k) => u[k + 1] \in {Esc(ord).esc, Esc(ord).term}
    /\ g = << >> => \E k \in Nat : First(ord, u, k)

\* Guided holds of all byte strings.
LEMMA Guide ==
  ASSUME NEW ord, NEW u \in Seq(Byte), NEW g \in Seq(Byte), NEW t \in Seq(Byte), NEW f \in Seq(Byte)
  PROVE  Guided(ord, u, g, t, f)
<1> SUFFICES ASSUME u \o g = Coded(ord, t) \o f
             PROVE  /\ \A k \in Nat : First(ord, u, k) => u[k + 1] \in {Esc(ord).esc, Esc(ord).term}
                    /\ g = << >> => \E k \in Nat : First(ord, u, k)
  BY DEF Guided
<1> DEFINE e == Coded(ord, t)
           x == Esc(ord).start
           c == u \o g
           codes == {Esc(ord).esc, Esc(ord).term}
<1>1. e \in Seq(Byte)
  BY BodyType
<1>2. PICK p \in Nat : EscapeFirst(ord, e, p)
  BY FirstEscape
<1>3. p \in 1..Len(e) - 1 /\ e[p] = x /\ e[p + 1] \in codes /\ \A j \in 1..p - 1 : e[j] # x
  BY <1>2 DEF EscapeFirst
<1>4. c = e \o f
  OBVIOUS
<1> HIDE DEF e, x, codes
<1>5. Joined(u, g, Byte) /\ Joined(e, f, Byte)
  BY <1>1, Join
<1>6. Len(u) \in Nat /\ Len(g) \in Nat /\ Len(e) \in Nat /\ Len(f) \in Nat
  BY <1>1, LenProperties
<1>7. \A i \in 1..Len(u) : c[i] = u[i]
  BY <1>5 DEF Joined
<1>8. \A i \in 1..Len(e) : c[i] = e[i]
  BY <1>4, <1>5, Zenon DEF Joined
<1>9. ASSUME NEW k \in Nat, First(ord, u, k)
      PROVE  u[k + 1] \in codes
  <2>1. k \in 1..Len(u) - 1 /\ u[k] = x /\ \A j \in 1..k - 1 : u[j] # x
    BY <1>9 DEF First, x
  <2> HIDE DEF c
  <2>2. ~(k < p)
    <3>1. SUFFICES ASSUME k < p PROVE FALSE
      OBVIOUS
    <3>2. k \in 1..p - 1 /\ k \in 1..Len(e) /\ k \in 1..Len(u)
      BY <1>3, <1>6, <2>1, <3>1
    <3>3. QED
      BY <1>3, <1>7, <1>8, <2>1, <3>2
  <2>3. ~(p < k)
    <3>1. SUFFICES ASSUME p < k PROVE FALSE
      OBVIOUS
    <3>2. p \in 1..k - 1 /\ p \in 1..Len(e) /\ p \in 1..Len(u)
      BY <1>3, <1>6, <2>1, <3>1
    <3>3. QED
      BY <1>3, <1>7, <1>8, <2>1, <3>2
  <2>4. k = p
    BY <2>2, <2>3
  <2>5. k + 1 \in 1..Len(u) /\ k + 1 \in 1..Len(e)
    BY <1>3, <1>6, <2>1, <2>4
  <2>6. u[k + 1] = e[k + 1]
    BY <1>7, <1>8, <2>5
  <2>7. QED
    BY <1>3, <2>4, <2>6
<1>10. ASSUME g = << >>
       PROVE  First(ord, u, p)
  <2>1. c = u
    BY <1>10, ConcatEmptySeq
  <2>2. Len(c) = Len(e) + Len(f)
    BY <1>4, <1>5 DEF Joined
  <2> HIDE DEF c
  <2>3. p \in 1..Len(u) - 1 /\ p \in 1..Len(e) /\ \A j \in 1..p - 1 : j \in 1..Len(e)
    BY <1>3, <1>6, <2>1, <2>2
  <2>4. u[p] = x /\ \A j \in 1..p - 1 : u[j] # x
    BY <1>3, <1>8, <2>1, <2>3
  <2>5. QED
    BY <2>3, <2>4 DEF First, x
<1>11. QED
  BY <1>9, <1>10 DEF codes

-----------------------------------------------------------------------------

(* The encodings sort like the strings.                                    *)

\* No byte is less than itself.
LEMMA Irreflexive ==
  ASSUME NEW x \in 0..255
  PROVE  ~(x < x)
OBVIOUS

\* Where two byte strings part decides which is less.
Decides(c, s, t) == Less(c \o s, c \o t) <=> s[1] < t[1]

\* Decides holds of any two endings that begin differently.
LEMMA LessAtParting ==
  ASSUME NEW c \in Seq(Byte), NEW s \in Seq(Byte), NEW t \in Seq(Byte),
         s # << >>, t # << >>, s[1] # t[1]
  PROVE  Decides(c, s, t)
<1> DEFINE a == c \o s
           b == c \o t
           m == Len(c) + 1
<1>1. Joined(c, s, Byte) /\ Joined(c, t, Byte)
  BY Join
<1>2. Len(c) \in Nat /\ Len(s) \in Nat /\ Len(t) \in Nat /\ Len(s) # 0 /\ Len(t) # 0
  BY LenProperties, EmptySeq
<1>3. 1 \in 1..Len(s) /\ 1 \in 1..Len(t)
  BY <1>2
<1>4. s[1] \in Byte /\ t[1] \in Byte
  BY <1>3, ElementOfSeq
<1>5. /\ a \in Seq(Byte) /\ Len(a) = Len(c) + Len(s) /\ \A i \in 1..Len(c) : a[i] = c[i]
      /\ a[m] = s[1]
  BY <1>1, <1>3 DEF Joined
<1>6. /\ b \in Seq(Byte) /\ Len(b) = Len(c) + Len(t) /\ \A i \in 1..Len(c) : b[i] = c[i]
      /\ b[m] = t[1]
  BY <1>1, <1>3 DEF Joined
<1> HIDE DEF a, b
<1>7. /\ m \in 1..Len(a) /\ m \in 1..Len(b) /\ \A j \in 1..m - 1 : a[j] = b[j]
  BY <1>2, <1>5, <1>6
<1>8. DOMAIN a = 1..Len(a) /\ DOMAIN b = 1..Len(b) /\ Len(a) \in Nat /\ Len(b) \in Nat
  BY <1>5, <1>6, LenProperties
<1>9. ASSUME s[1] < t[1]
      PROVE  Less(a, b)
  <2>1. m \in DOMAIN a \cap DOMAIN b /\ a[m] < b[m]
    BY <1>5, <1>6, <1>7, <1>8, <1>9
  <2>2. QED
    BY <1>7, <2>1 DEF Less
<1>10. ASSUME IsStrictPrefix(a, b)
       PROVE  FALSE
  <2>1. Len(a) <= Len(b) /\ SubSeq(a, 1, Len(a)) = SubSeq(b, 1, Len(a))
    BY <1>10 DEF IsStrictPrefix, IsPrefix
  <2>2. Len(a) \in 0..Len(a) /\ Len(a) \in 0..Len(b)
    BY <1>8, <2>1
  <2>3. SubSeq(a, 1, Len(a))[m] = a[m]
    BY <1>5, <1>7, <2>2, CutElements
  <2>4. SubSeq(b, 1, Len(a))[m] = b[m]
    BY <1>6, <1>7, <2>2, CutElements
  <2>5. QED
    BY <1>5, <1>6, <2>1, <2>3, <2>4
<1>11. ASSUME NEW i \in DOMAIN a \cap DOMAIN b, a[i] < b[i], \A j \in 1..i - 1 : a[j] = b[j]
       PROVE  s[1] < t[1]
  <2>1. i \in 1..Len(a) /\ i \in 1..Len(b)
    BY <1>8
  <2>2. CASE i = m
    BY <1>5, <1>6, <1>11, <2>2
  <2>3. CASE i < m
    <3>1. i \in 1..m - 1
      BY <1>2, <2>1, <2>3
    <3>2. i \in 1..Len(c)
      BY <1>2, <3>1
    <3>3. a[i] = b[i] /\ a[i] \in Byte
      BY <1>5, <1>7, <2>1, <3>1, ElementOfSeq
    <3>4. a[i] < a[i] /\ a[i] \in 0..255
      BY <1>11, <3>3 DEF Byte
    <3>5. QED
      BY <3>4, Irreflexive
  <2>4. CASE i > m
    <3>1. m \in 1..i - 1
      BY <1>2, <2>1, <2>4
    <3>2. a[m] = b[m]
      BY <1>11, <3>1
    <3>3. QED
      BY <1>5, <1>6, <3>2
  <2>5. QED
    BY <1>2, <2>1, <2>2, <2>3, <2>4
<1>12. Less(a, b) <=> s[1] < t[1]
  BY <1>9, <1>10, <1>11 DEF Less
<1>13. QED
  BY <1>12 DEF Decides, a, b

\* The encoding e of a string, without escapes or with them, and what it makes of
\* a string that goes on.
EncodedAs(ord, e, x) == IF e = "plain" THEN FlipAll(ord, x) ELSE Coded(ord, x)
BegunAs(ord, e, x)   == IF e = "plain" THEN FlipAll(ord, x) ELSE Body(ord, x)

\* The encoding of a string that goes on with w behind c.
BeginsAs(ord, e, c, w) ==
  /\ BegunAs(ord, e, c) \in Seq(Byte)
  /\ \E g \in Seq(Byte) :
       g # << >> /\ g[1] = Flip(ord, w[1]) /\ EncodedAs(ord, e, c \o w) = BegunAs(ord, e, c) \o g

\* BeginsAs holds of any two strings of which the second is not empty.
LEMMA Begin1 ==
  ASSUME NEW ord, NEW e, NEW c \in Seq(Byte), NEW w \in Seq(Byte), w # << >>
  PROVE  BeginsAs(ord, e, c, w)
<1>1. Len(w) \in Nat /\ Len(w) # 0 /\ 1 \in 1..Len(w)
  BY LenProperties, EmptySeq
<1>2. CASE e = "plain"
  <2> DEFINE f == FlipAll(ord, c)
             g == FlipAll(ord, w)
  <2>1. FlipAll(ord, c \o w) = f \o g
    BY FlipConcat
  <2>2. f \in Seq(Byte) /\ g \in Seq(Byte) /\ Len(g) = Len(w) /\ g[1] = Flip(ord, w[1])
    BY <1>1, FlipAllIs
  <2>3. g # << >>
    <3> HIDE DEF g
    <3>1. QED
      BY <1>1, <2>2, EmptySeq
  <2>4. EncodedAs(ord, e, c \o w) = f \o g /\ BegunAs(ord, e, c) = f
    BY <1>2, <2>1 DEF EncodedAs, BegunAs
  <2> HIDE DEF f, g
  <2>5. QED
    BY <2>2, <2>3, <2>4 DEF BeginsAs
<1>3. CASE e # "plain"
  <2> DEFINE b == Head(w)
             t == Tail(w)
             f == Body(ord, c)
             p == PieceOf(ord, b)
             q == Coded(ord, t)
             g == p \o q
  <2>1. b \in Byte /\ t \in Seq(Byte) /\ w = <<b>> \o t /\ b = w[1]
    BY HeadAndTail, HeadTailProperties
  <2>2. f \in Seq(Byte) /\ p \in Seq(Byte) /\ q \in Seq(Byte)
    <3>1. PieceOf(ord, b) \in Seq(Byte) /\ Coded(ord, t) \in Seq(Byte)
      BY <2>1, PieceIs, BodyType
    <3>2. QED
      BY <3>1, BodyType
  <2>3. Len(p) >= 1 /\ p[1] = Flip(ord, b)
    <3>1. Len(p) \in {1, 2} /\ p[1] = Flip(ord, b)
      BY <2>1, PieceIs
    <3>2. QED
      BY <3>1
  <2>4. Coded(ord, w) = g
    <3> HIDE DEF b, t
    <3>1. Coded(ord, <<b>> \o t) = p \o q
      BY <2>1, BodyPrepend
    <3>2. QED
      BY <2>1, <3>1
  <2>5. g \in Seq(Byte) /\ g # << >> /\ g[1] = p[1]
    <3> HIDE DEF p, q
    <3>1. Joined(p, q, Byte) /\ Len(p) \in Nat /\ Len(q) \in Nat
      BY <2>2, Join, LenProperties
    <3>2. 1 \in 1..Len(p)
      BY <2>3, <3>1
    <3>3. g \in Seq(Byte) /\ Len(g) = Len(p) + Len(q) /\ g[1] = p[1]
      BY <3>1, <3>2, Zenon DEF Joined
    <3> HIDE DEF g
    <3>4. Len(g) # 0
      BY <2>3, <3>1, <3>3
    <3>5. QED
      BY <3>3, <3>4, EmptySeq
  <2>6. Coded(ord, c \o w) = f \o g
    <3> DEFINE y == Body(ord, w)
               z == Terminator(ord)
    <3>1. y \in Seq(Byte) /\ z \in Seq(Byte) /\ Body(ord, c \o w) = f \o y /\ Coded(ord, w) = y \o z
      BY BodyType, TerminatorIs, BodyConcat DEF Coded
    <3>2. Coded(ord, c \o w) = (f \o y) \o z
      BY <3>1 DEF Coded
    <3> HIDE DEF f, y, z, g
    <3>3. Associates(f, y, z)
      BY <2>2, <3>1, Association
    <3>4. QED
      BY <2>4, <3>1, <3>2, <3>3 DEF Associates
  <2>7. EncodedAs(ord, e, c \o w) = f \o g /\ BegunAs(ord, e, c) = f
    BY <1>3, <2>6 DEF EncodedAs, BegunAs
  <2>8. g[1] = Flip(ord, w[1])
    BY <2>1, <2>3, <2>5
  <2> HIDE DEF f, g
  <2>9. QED
    BY <2>2, <2>5, <2>7, <2>8 DEF BeginsAs
<1>4. QED
  BY <1>2, <1>3

\* The order of two strings is that of their encodings e, or the reverse.
Sorts(ord, e, s, t) ==
  LET es == EncodedAs(ord, e, s)
      et == EncodedAs(ord, e, t)
  IN Less(s, t) <=> IF ord = "Descending" THEN Less(et, es) ELSE Less(es, et)

\* Sorts holds of two strings neither of which begins with the other.
LEMMA SortsAlike ==
  ASSUME NEW ord, NEW e, NEW s \in Seq(Byte), NEW t \in Seq(Byte), ~IsPrefix(s, t), ~IsPrefix(t, s)
  PROVE  Sorts(ord, e, s, t)
<1>1. PICK c \in Seq(Byte), v \in Seq(Byte), w \in Seq(Byte) :
        s = c \o v /\ t = c \o w /\ v # << >> /\ w # << >> /\ v[1] # w[1]
  <2>1. Parts(s, t, Byte)
    BY Parting
  <2>2. QED
    BY <2>1, Zenon DEF Parts
<1>2. v[1] \in Byte /\ w[1] \in Byte
  <2>1. 1 \in 1..Len(v) /\ 1 \in 1..Len(w)
    <3>1. Len(v) # 0 /\ Len(w) # 0 /\ Len(v) \in Nat /\ Len(w) \in Nat
      BY <1>1, EmptySeq, LenProperties
    <3>2. QED
      BY <3>1
  <2>2. QED
    BY <2>1, ElementOfSeq
<1> DEFINE f == BegunAs(ord, e, c)
           es == EncodedAs(ord, e, s)
           et == EncodedAs(ord, e, t)
<1>3. BeginsAs(ord, e, c, v) /\ BeginsAs(ord, e, c, w)
  BY <1>1, Begin1
<1>4. PICK g \in Seq(Byte) : f \in Seq(Byte) /\ g # << >> /\ g[1] = Flip(ord, v[1]) /\ es = f \o g
  BY <1>1, <1>3, Zenon DEF BeginsAs
<1>5. PICK h \in Seq(Byte) : h # << >> /\ h[1] = Flip(ord, w[1]) /\ et = f \o h
  BY <1>1, <1>3, Zenon DEF BeginsAs
<1>6. Flip(ord, v[1]) # Flip(ord, w[1])
  <2>1. Flip(ord, Flip(ord, v[1])) = v[1] /\ Flip(ord, Flip(ord, w[1])) = w[1]
    BY <1>2, EscapeBytes
  <2>2. QED
    BY <1>1, <2>1
<1>7. Decides(c, v, w)
  BY <1>1, LessAtParting
<1> HIDE DEF f, es, et
<1>8. Decides(f, g, h) /\ Decides(f, h, g)
  BY <1>4, <1>5, <1>6, LessAtParting
<1>9. Less(s, t) <=> v[1] < w[1]
  BY <1>1, <1>7 DEF Decides
<1>10. Less(es, et) <=> Flip(ord, v[1]) < Flip(ord, w[1])
  BY <1>4, <1>5, <1>8 DEF Decides
<1>11. Less(et, es) <=> Flip(ord, w[1]) < Flip(ord, v[1])
  BY <1>4, <1>5, <1>8 DEF Decides
<1>12. v[1] < w[1] <=> IF ord = "Descending" THEN Flip(ord, w[1]) < Flip(ord, v[1])
                       ELSE Flip(ord, v[1]) < Flip(ord, w[1])
  <2> DEFINE i == v[1]
             j == w[1]
  <2>1. i \in 0..255 /\ j \in 0..255
    BY <1>2 DEF Byte
  <2> HIDE DEF i, j
  <2>2. i < j <=> 255 - j < 255 - i
    BY <2>1
  <2>3. CASE ord = "Descending"
    BY <2>2, <2>3 DEF Flip, Complement, i, j
  <2>4. CASE ord # "Descending"
    BY <2>4 DEF Flip
  <2>5. QED
    BY <2>3, <2>4
<1>13. Less(s, t) <=> IF ord = "Descending" THEN Less(et, es) ELSE Less(es, et)
  <2> HIDE DEF Less
  <2>1. QED
    BY <1>9, <1>10, <1>11, <1>12
<1>14. QED
  BY <1>13 DEF Sorts, es, et

\* Which of a string and one it begins is less.
ShorterFirst(s, w) == Less(s, s \o w) /\ ~Less(s \o w, s)

\* ShorterFirst holds of any two.
LEMMA PrefixFirst ==
  ASSUME NEW s \in Seq(Byte), NEW w \in Seq(Byte), w # << >>
  PROVE  ShorterFirst(s, w)
<1> DEFINE t == s \o w
<1>1. Joined(s, w, Byte) /\ Len(s) \in Nat /\ Len(w) \in Nat /\ Len(w) # 0
  BY Join, LenProperties, EmptySeq
<1>2. t \in Seq(Byte) /\ Len(t) = Len(s) + Len(w) /\ \A i \in 1..Len(s) : t[i] = s[i]
  BY <1>1 DEF Joined
<1>3. IsPrefix(s, t)
  BY <1>2, PrefixIs
<1> HIDE DEF t
<1>4. Len(s) < Len(t) /\ DOMAIN s = 1..Len(s) /\ Len(t) \in Nat
  BY <1>1, <1>2, LenProperties
<1>5. Less(s, t)
  BY <1>3, <1>4 DEF Less, IsStrictPrefix
<1>6. ASSUME IsStrictPrefix(t, s) PROVE FALSE
  <2>1. Len(t) <= Len(s)
    BY <1>6 DEF IsStrictPrefix, IsPrefix
  <2>2. QED
    BY <1>1, <1>4, <2>1
<1>7. ASSUME NEW i \in DOMAIN t \cap DOMAIN s, t[i] < s[i] PROVE FALSE
  <2>1. i \in 1..Len(s) /\ t[i] = s[i]
    BY <1>2, <1>4
  <2>2. s[i] \in 0..255
    BY <2>1, ElementOfSeq DEF Byte
  <2>3. QED
    BY <1>7, <2>1, <2>2, Irreflexive
<1>8. ~Less(t, s)
  BY <1>6, <1>7 DEF Less
<1>9. QED
  BY <1>5, <1>8 DEF ShorterFirst, t

\* No byte string is less than itself.
LEMMA NotLess ==
  ASSUME NEW s \in Seq(Byte)
  PROVE  ~Less(s, s)
<1>1. ASSUME NEW i \in DOMAIN s, s[i] < s[i] PROVE FALSE
  <2>1. i \in 1..Len(s)
    BY LenProperties
  <2>2. s[i] \in 0..255
    BY <2>1, ElementOfSeq DEF Byte
  <2>3. QED
    BY <1>1, <2>2, Irreflexive
<1>2. QED
  BY <1>1 DEF Less, IsStrictPrefix

\* The escaped form of a string that goes on with w behind c.
CodedBehind(ord, c, w) == Coded(ord, c \o w) = Body(ord, c) \o Coded(ord, w)

\* CodedBehind holds of any two strings.
LEMMA CodedJoin ==
  ASSUME NEW ord, NEW c \in Seq(Byte), NEW w \in Seq(Byte)
  PROVE  CodedBehind(ord, c, w)
<1> DEFINE f == Body(ord, c)
           y == Body(ord, w)
           z == Terminator(ord)
<1>1. /\ f \in Seq(Byte) /\ y \in Seq(Byte) /\ z \in Seq(Byte)
      /\ Body(ord, c \o w) = f \o y /\ Coded(ord, w) = y \o z
  BY BodyType, TerminatorIs, BodyConcat DEF Coded
<1>2. Coded(ord, c \o w) = (f \o y) \o z
  BY <1>1 DEF Coded
<1> HIDE DEF y, z
<1>3. Associates(f, y, z)
  BY <1>1, Association
<1>4. QED
  BY <1>1, <1>2, <1>3 DEF Associates, CodedBehind

\* The order of two byte strings that part behind c, in either direction.
Parted(c, g, h) == Decides(c, g, h) /\ Decides(c, h, g)

\* Whether the encoding of a string is less than that of one that goes on with w.
Leads(ord, e, w) ==
  IF e = "plain" THEN TRUE
  ELSE IF ord = "Descending" THEN w[1] < EscapeAsc.start ELSE w[1] >= EscapeAsc.start

\* Leads decides the order of the encodings of a string and one it begins.
EndDecides(ord, e, s, w) ==
  LET es == EncodedAs(ord, e, s)
      et == EncodedAs(ord, e, s \o w)
  IN (Less(es, et) <=> Leads(ord, e, w)) /\ (Less(et, es) <=> ~Leads(ord, e, w))

\* The bytes below the escape, and those above it.
LEMMA AroundEscape ==
  ASSUME NEW b \in 0..255
  PROVE  /\ ~(b < 248) <=> b >= 248
         /\ b # 248 => /\ 7 < 255 - b <=> b < 248
                       /\ 255 - b < 7 <=> ~(b < 248)
                       /\ 248 < b <=> b >= 248
                       /\ b < 248 <=> ~(b >= 248)
OBVIOUS

\* The terminator meets a byte that is no escape.
LEMMA EndBeforeByte ==
  ASSUME NEW ord, NEW e, NEW s \in Seq(Byte), NEW w \in Seq(Byte), w # << >>,
         e # "plain", w[1] # EscapeAsc.start
  PROVE  EndDecides(ord, e, s, w)
<1> DEFINE f == Body(ord, s)
           z == Terminator(ord)
           b == w[1]
           es == EncodedAs(ord, e, s)
           et == EncodedAs(ord, e, s \o w)
<1>1. b \in Byte /\ b \in 0..255
  <2>1. 1 \in 1..Len(w)
    BY LenProperties, EmptySeq
  <2>2. QED
    BY <2>1, ElementOfSeq DEF Byte
<1>2. f \in Seq(Byte) /\ z \in Seq(Byte) /\ z # << >> /\ z[1] = Esc(ord).start /\ es = f \o z
  <2>1. f \in Seq(Byte) /\ z \in Seq(Byte) /\ Len(z) = 2 /\ z[1] = Esc(ord).start
    BY BodyType, TerminatorIs
  <2>2. es = f \o z
    BY DEF EncodedAs, Coded
  <2> HIDE DEF f, z, es
  <2>3. Len(z) # 0
    BY <2>1
  <2>4. z # << >>
    BY <2>1, <2>3, EmptySeq
  <2>5. QED
    BY <2>1, <2>2, <2>4
<1>3. PICK g \in Seq(Byte) : g # << >> /\ g[1] = Flip(ord, b) /\ et = f \o g
  <2>1. BeginsAs(ord, e, s, w) /\ BegunAs(ord, e, s) = f
    BY Begin1 DEF BegunAs
  <2>2. QED
    BY <2>1, Zenon DEF BeginsAs
<1>4. Flip(ord, b) # Esc(ord).start
  BY <1>1, EscapeBytes
<1> HIDE DEF f, z, es, et
<1>5. Parted(f, z, g)
  BY <1>2, <1>3, <1>4, LessAtParting DEF Parted
<1>6. /\ Less(es, et) <=> Esc(ord).start < Flip(ord, b)
      /\ Less(et, es) <=> Flip(ord, b) < Esc(ord).start
  BY <1>2, <1>3, <1>5 DEF Parted, Decides
<1>7. EscapeAsc.start = 248 /\ EscapeDesc.start = 7
  BY DEF EscapeAsc, EscapeDesc, Complement
<1>8. CASE ord = "Descending"
  <2>1. Esc(ord).start = 7 /\ Flip(ord, b) = 255 - b /\ (Leads(ord, e, w) <=> b < 248)
    BY <1>7, <1>8 DEF Esc, Flip, Complement, Leads
  <2>2. (7 < 255 - b <=> b < 248) /\ (255 - b < 7 <=> ~(b < 248))
    BY <1>1, <1>7, AroundEscape
  <2>3. QED
    BY <1>6, <2>1, <2>2 DEF EndDecides, es, et
<1>9. CASE ord # "Descending"
  <2>1. Esc(ord).start = 248 /\ Flip(ord, b) = b /\ (Leads(ord, e, w) <=> b >= 248)
    BY <1>7, <1>9 DEF Esc, Flip, Leads
  <2>2. (248 < b <=> b >= 248) /\ (b < 248 <=> ~(b >= 248))
    BY <1>1, <1>7, AroundEscape
  <2>3. QED
    BY <1>6, <2>1, <2>2 DEF EndDecides, es, et
<1>10. QED
  BY <1>8, <1>9

\* Two bytes one behind the other.
LEMMA OneAndOne ==
  ASSUME NEW x \in Byte, NEW y \in Byte
  PROVE  <<x>> \o <<y>> = <<x, y>>
<1> DEFINE s == <<x>>
           t == <<y>>
           r == s \o t
           q == <<x, y>>
<1>1. s \in Seq(Byte) /\ t \in Seq(Byte) /\ Len(s) = 1 /\ Len(t) = 1 /\ s[1] = x /\ t[1] = y
  BY Single
<1>2. q \in Seq(Byte) /\ Len(q) = 2 /\ q[1] = x /\ q[2] = y
  BY Double
<1> HIDE DEF s, t, q
<1>3. r \in Seq(Byte) /\ Len(r) = 2 /\ r[1] = x /\ r[2] = y
  <2>1. Joined(s, t, Byte) /\ 1 \in 1..Len(s) /\ 1 \in 1..Len(t)
    BY <1>1, Join
  <2>2. QED
    BY <1>1, <2>1 DEF Joined
<1> HIDE DEF r
<1>4. \A i \in 1..Len(r) : r[i] = q[i]
  <2>1. \A i \in 1..2 : i = 1 \/ i = 2
    OBVIOUS
  <2>2. QED
    BY <1>2, <1>3, <2>1
<1>5. r = q
  BY <1>2, <1>3, <1>4, SeqEqual
<1>6. QED
  BY <1>5 DEF r, s, t, q

\* The terminator meets an escape, and the bytes behind them part.
LEMMA EndBeforeEscape ==
  ASSUME NEW ord, NEW e, NEW s \in Seq(Byte), NEW w \in Seq(Byte), w # << >>,
         e # "plain", w[1] = EscapeAsc.start
  PROVE  EndDecides(ord, e, s, w)
<1> DEFINE f  == Body(ord, s)
           x  == Esc(ord).start
           y  == Esc(ord).esc
           z  == Esc(ord).term
           u  == Tail(w)
           q  == Coded(ord, u)
           c  == f \o <<x>>
           yq == <<y>> \o q
           es == EncodedAs(ord, e, s)
           et == EncodedAs(ord, e, s \o w)
<1>1. /\ x \in Byte /\ y \in Byte /\ z \in Byte /\ y # z
      /\ f \in Seq(Byte) /\ u \in Seq(Byte) /\ w = <<EscapeAsc.start>> \o u
      /\ EscapeAsc.start \in Byte
  <2>1. Head(w) = EscapeAsc.start
    BY HeadTailProperties
  <2>2. QED
    BY <2>1, EscapeBytes, BodyType, HeadAndTail
<1>2. q \in Seq(Byte)
  BY <1>1, BodyType
<1>3. es = f \o <<x, z>> /\ et = f \o (<<x, y>> \o q)
  <2>1. es = f \o <<x, z>>
    BY DEF EncodedAs, Coded, Terminator
  <2>2. Coded(ord, w) = <<x, y>> \o q
    <3> DEFINE b == EscapeAsc.start
    <3>1. b \in Byte /\ w = <<b>> \o u
      BY <1>1
    <3>2. PieceOf(ord, b) = <<x, y>>
      BY DEF PieceOf
    <3> HIDE DEF b, u, x, y
    <3>3. Coded(ord, <<b>> \o u) = PieceOf(ord, b) \o Coded(ord, u)
      BY <1>1, <3>1, BodyPrepend
    <3>4. QED
      BY <3>1, <3>2, <3>3
  <2>3. CodedBehind(ord, s, w)
    BY CodedJoin
  <2>4. QED
    BY <2>1, <2>2, <2>3 DEF CodedBehind, EncodedAs
<1> HIDE DEF f, x, y, z, u, q, es, et
<1>4. /\ <<x>> \in Seq(Byte) /\ <<y>> \in Seq(Byte) /\ <<z>> \in Seq(Byte)
      /\ <<x>> \o <<z>> = <<x, z>> /\ <<x>> \o <<y>> = <<x, y>>
      /\ <<z>> # << >> /\ <<z>>[1] = z
  <2>1. /\ <<x>> \in Seq(Byte) /\ <<y>> \in Seq(Byte) /\ <<z>> \in Seq(Byte)
        /\ Len(<<z>>) = 1 /\ <<z>>[1] = z
    BY <1>1, Single
  <2>2. <<z>> # << >>
    OBVIOUS
  <2>3. <<x>> \o <<z>> = <<x, z>> /\ <<x>> \o <<y>> = <<x, y>>
    BY <1>1, OneAndOne
  <2>4. QED
    BY <2>1, <2>2, <2>3
<1>5. c \in Seq(Byte) /\ yq \in Seq(Byte) /\ yq # << >> /\ yq[1] = y
  <2>1. Joined(f, <<x>>, Byte) /\ Joined(<<y>>, q, Byte)
    BY <1>1, <1>2, <1>4, Join
  <2>2. Len(<<y>>) = 1 /\ <<y>>[1] = y /\ 1 \in 1..1
    BY <1>1, Single
  <2>3. c \in Seq(Byte) /\ yq \in Seq(Byte) /\ Len(yq) = 1 + Len(q) /\ yq[1] = y
    BY <2>1, <2>2 DEF Joined
  <2>4. Len(q) \in Nat
    BY <1>2, LenProperties
  <2> HIDE DEF yq
  <2>5. Len(yq) # 0
    BY <2>3, <2>4
  <2>6. QED
    BY <2>3, <2>5, EmptySeq
<1>6. es = c \o <<z>>
  <2>1. Associates(f, <<x>>, <<z>>)
    BY <1>1, <1>4, Association
  <2>2. QED
    BY <1>3, <1>4, <2>1 DEF Associates
<1>7. et = c \o yq
  <2>1. Associates(<<x>>, <<y>>, q) /\ Associates(f, <<x>>, yq)
    BY <1>1, <1>2, <1>4, <1>5, Association
  <2>2. <<x, y>> \o q = <<x>> \o yq
    BY <1>4, <2>1 DEF Associates
  <2>3. QED
    BY <1>3, <2>1, <2>2 DEF Associates
<1> HIDE DEF c, yq
<1>8. Parted(c, <<z>>, yq)
  BY <1>1, <1>4, <1>5, LessAtParting DEF Parted
<1>9. (Less(es, et) <=> z < y) /\ (Less(et, es) <=> y < z)
  BY <1>4, <1>5, <1>6, <1>7, <1>8 DEF Parted, Decides
<1>10. EscapeAsc.start = 248 /\ EscapeAsc.esc = 255 /\ EscapeAsc.term = 1
  BY DEF EscapeAsc
<1>11. EscapeDesc.esc = 0 /\ EscapeDesc.term = 254
  BY <1>10 DEF EscapeDesc, Complement
<1>12. CASE ord = "Descending"
  <2>1. z = 254 /\ y = 0 /\ ~Leads(ord, e, w)
    BY <1>10, <1>11, <1>12 DEF Esc, Leads, y, z
  <2>2. QED
    BY <1>9, <2>1 DEF EndDecides, es, et
<1>13. CASE ord # "Descending"
  <2>1. z = 1 /\ y = 255 /\ Leads(ord, e, w)
    BY <1>10, <1>13 DEF Esc, Leads, y, z
  <2>2. QED
    BY <1>9, <2>1 DEF EndDecides, es, et
<1>14. QED
  BY <1>12, <1>13

\* EndDecides holds of any string and any one it begins.
LEMMA SortsAtEnd ==
  ASSUME NEW ord, NEW e, NEW s \in Seq(Byte), NEW w \in Seq(Byte), w # << >>
  PROVE  EndDecides(ord, e, s, w)
<1>1. CASE e = "plain"
  <2> DEFINE f == FlipAll(ord, s)
             g == FlipAll(ord, w)
  <2>1. FlipAll(ord, s \o w) = f \o g
    BY FlipConcat
  <2>2. f \in Seq(Byte) /\ g \in Seq(Byte) /\ Len(g) = Len(w)
    BY FlipAllIs
  <2>3. g # << >>
    BY <2>2, EmptySeq
  <2> HIDE DEF f, g
  <2>4. ShorterFirst(f, g)
    BY <2>2, <2>3, PrefixFirst
  <2>5. QED
    BY <1>1, <2>1, <2>4 DEF EndDecides, ShorterFirst, EncodedAs, Leads, f
<1>2. CASE e # "plain"
  BY <1>2, EndBeforeByte, EndBeforeEscape
<1>3. QED
  BY <1>1, <1>2

-----------------------------------------------------------------------------

(* The inductive invariant: what the writer has written, and what the      *)
(* readers have found up to where they are.                                *)

Types ==
  /\ pc \in {"start", "escaping", "written", "refused", "measuring", "copying", "done"}
  /\ plain \in BOOLEAN
  /\ text \in Seq(Byte) /\ wire \in Seq(Byte) /\ follow \in Seq(Byte)
  /\ rest \in Seq(Byte) /\ out \in Seq(Byte) /\ input \in Seq(Byte)
  /\ done \in 0..Len(text) + 1
  /\ room \in Nat /\ outRoom \in Nat /\ Len(wire) <= room /\ Len(out) <= outRoom
  /\ offset \in 0..Len(input) /\ len \in 0..Len(input)
  /\ err \in {"Ok", "PrematureEndOfInput", "InvalidByteSequenceEscape", "BufferOverflow",
              "InvalidUtf8Encoding"}

\* How far the writer is, and what no one has touched before there is a reader.
Stages ==
  /\ pc = "start" => done = 0 /\ wire = << >>
  /\ pc \in {"escaping", "refused"} => done <= Len(text)
  /\ pc = "written" => done = Len(text) + 1
  /\ pc \in {"start", "escaping", "written", "refused"} =>
       offset = 0 /\ len = 0 /\ out = << >> /\ err = "Ok"

\* The buffer holds the encoding of the bytes that are done.
Written ==
  /\ done = Len(text) + 1 => wire = Encoded(text)
  /\ done <= Len(text) /\ ~plain => wire = Body(order, SubSeq(text, 1, done))
  /\ done <= Len(text) /\ plain =>
       wire = IF order = "Descending" THEN FlipAll(order, SubSeq(text, 1, done)) ELSE << >>

\* What has been measured is the length of a string whose body was scanned ...
Measuring ==
  pc = "measuring" =>
    /\ ~plain /\ api = "to_vec" /\ outRoom = Len(input)
    /\ rest = input /\ out = << >> /\ err = "Ok"
    /\ \E v \in Seq(Byte) : Len(v) = len /\ input = Body(order, v) \o Unscanned

\* ... and then of the string of which the input holds the whole form.
Announced ==
  \E v \in Seq(Byte), r \in Seq(Byte) : Len(v) = len /\ input = Coded(order, v) \o r

\* The body of what has been copied is what was scanned.
Copying ==
  pc = "copying" =>
    /\ rest = input /\ err = "Ok"
    /\ api # "to_writer" => outRoom = Len(input)
    /\ ~plain => /\ input = Body(order, out) \o Unscanned
                 /\ api \in {"to_vec", "to_writer"}
                 /\ api = "to_vec" => Announced
    /\ plain => out = << >> /\ offset = 0

Inv ==
  /\ Types /\ Stages /\ Written /\ Measuring /\ Copying
  /\ RoundTrip /\ TornIsRefused /\ AcceptedIsCanonical

-----------------------------------------------------------------------------

(* What the state's own operators are.                                     *)

\* The state's constants and conversion are those of its order.
LEMMA InThisOrder ==
  /\ Escape = Esc(order)
  /\ \A b : InOrder(b) = Flip(order, b)
  /\ \A s : [i \in DOMAIN s |-> InOrder(s[i])] = FlipAll(order, s)
<1>1. \A b : InOrder(b) = Flip(order, b)
  BY DEF InOrder, Flip
<1>2. Escape = Esc(order)
  BY DEF Escape, Esc
<1>3. QED
  BY <1>1, <1>2 DEF FlipAll

\* Nothing is changed in an order that is not descending.
LEMMA FlipNone ==
  ASSUME NEW ord, ord # "Descending", NEW s \in Seq(Byte)
  PROVE  FlipAll(ord, s) = s
<1>1. FlipAll(ord, s) = [i \in DOMAIN s |-> s[i]]
  BY DEF FlipAll, Flip
<1>2. QED
  BY <1>1

\* The encoding in use, in terms of the operators the facts are about.
LEMMA EncodedIs ==
  ASSUME NEW t \in Seq(Byte)
  PROVE  /\ ~plain => Encoded(t) = Coded(order, t)
         /\ plain => Encoded(t) = FlipAll(order, t)
         /\ plain \in BOOLEAN => Encoded(t) \in Seq(Byte)
<1>1. ASSUME ~plain PROVE Encoded(t) = Coded(order, t)
  BY <1>1, EscapedIs DEF Encoded
<1>2. ASSUME plain PROVE Encoded(t) = FlipAll(order, t)
  <2>1. CASE order = "Descending"
    BY <1>2, <2>1 DEF Encoded, ComplementAll, FlipAll, Flip
  <2>2. CASE order # "Descending"
    <3>1. Encoded(t) = t
      BY <1>2, <2>2 DEF Encoded
    <3>2. QED
      BY <2>2, <3>1, FlipNone
  <2>3. QED
    BY <2>1, <2>2
<1>3. QED
  BY <1>1, <1>2, BodyType, FlipAllIs

\* The same of all strings, in the form that is taken to the next state.
LEMMA EncodedAll ==
  \A t \in Seq(Byte) : /\ ~plain => Encoded(t) = Coded(order, t)
                       /\ plain => Encoded(t) = FlipAll(order, t)
BY EncodedIs

\* The bytes not yet scanned.
LEMMA UnscannedIs ==
  ASSUME Types, rest = input
  PROVE  /\ Unscanned = SubSeq(input, offset + 1, Len(input))
         /\ Unscanned \in Seq(Byte) /\ Len(Unscanned) = Len(input) - offset
BY CutElements DEF Types, Unscanned

\* EscapeAt is the first escape, if there is one.
LEMMA EscapeAtIs ==
  ASSUME NEW u \in Seq(Byte), u = Unscanned
  PROVE  /\ EscapeAt \in Nat
         /\ ~Dangling => First(order, u, EscapeAt)
         /\ Dangling => \A k \in Nat : ~First(order, u, k)
<1> DEFINE n == Len(u)
           x == Esc(order).start
           I == {i \in 1..n : u[i] = x}
<1>1. n \in Nat /\ DOMAIN u = 1..n
  BY LenProperties
<1>2. EscapeAt = IF \E i \in 1..n : u[i] = x THEN SelectInSeq(u, LAMBDA b : b = x) ELSE 0
  BY <1>1, InThisOrder DEF EscapeAt
<1>3. SelectInSeq(u, LAMBDA b : b = x) = IF I # {} THEN Min(I) ELSE 0
  BY DEF SelectInSeq
<1>4. Dangling <=> EscapeAt = 0 \/ EscapeAt = n
  BY DEF Dangling
<1>5. CASE I = {}
  <2>1. \A i \in 1..n : u[i] # x
    BY <1>5
  <2>2. EscapeAt = 0
    BY <1>2, <2>1
  <2>3. ASSUME NEW k \in Nat, First(order, u, k) PROVE FALSE
    <3>1. k \in 1..n - 1 /\ u[k] = x
      BY <2>3 DEF First
    <3>2. k \in 1..n
      BY <1>1, <3>1
    <3>3. QED
      BY <2>1, <3>1, <3>2
  <2>4. QED
    BY <1>4, <2>2, <2>3
<1>6. CASE I # {}
  <2>1. PICK p \in I : \A y \in I : p <= y
    <3>1. I \in SUBSET Nat
      OBVIOUS
    <3> HIDE DEF I
    <3>2. QED
      BY <1>6, <3>1, LeastOf
  <2>2. Min(I) \in I /\ \A y \in I : Min(I) <= y
    BY <2>1, Zenon DEF Min
  <2>3. EscapeAt = Min(I)
    BY <1>2, <1>3, <1>6
  <2> DEFINE k == EscapeAt
  <2>4. k \in 1..n /\ u[k] = x /\ \A y \in 1..n : u[y] = x => k <= y
    BY <2>2, <2>3
  <2> HIDE DEF k, n, I, x
  <2>5. \A j \in 1..k - 1 : u[j] # x
    <3>1. SUFFICES ASSUME NEW j \in 1..k - 1, u[j] = x PROVE FALSE
      OBVIOUS
    <3>2. j \in 1..n /\ ~(k <= j)
      BY <1>1, <2>4
    <3>3. QED
      BY <2>4, <3>1, <3>2
  <2>6. ASSUME k # n PROVE First(order, u, k)
    <3>1. k \in 1..n - 1
      BY <1>1, <2>4, <2>6
    <3>2. QED
      BY <2>4, <2>5, <3>1 DEF First, n, x
  <2>7. ASSUME k = n, NEW m \in Nat, First(order, u, m) PROVE FALSE
    <3>1. m \in 1..n - 1 /\ u[m] = x
      BY <2>7 DEF First, n, x
    <3>2. m \in 1..n /\ ~(k <= m)
      BY <1>1, <2>7, <3>1
    <3>3. QED
      BY <2>4, <3>1, <3>2
  <2>8. k # 0 /\ k \in Nat
    BY <1>1, <2>4
  <2>9. QED
    BY <1>4, <2>6, <2>7, <2>8 DEF k
<1>7. QED
  BY <1>5, <1>6

-----------------------------------------------------------------------------

(* Every step keeps the invariant.                                         *)

\* Nothing is claimed of a reader that is not at its end.
LEMMA NotAtEnd ==
  pc # "done" => RoundTrip /\ TornIsRefused /\ AcceptedIsCanonical
BY DEF RoundTrip, TornIsRefused, AcceptedIsCanonical

\* What is in the buffer before the first call of write.
LEMMA Unwritten == done = 0 /\ wire = << >> /\ text \in Seq(Byte) => Written
<1> SUFFICES ASSUME done = 0, wire = << >>, text \in Seq(Byte)
             PROVE  Written
  OBVIOUS
<1>1. Len(text) \in Nat
  BY LenProperties
<1>2. done # Len(text) + 1
  BY <1>1
<1>3. SubSeq(text, 1, done) = << >>
  BY SubSeqEmpty
<1>4. FlipAll(order, << >>) = << >>
  BY FlipAllIs, EmptySeq
<1>5. QED
  BY <1>2, <1>3, <1>4, BodyEmpty DEF Written

\* The invariant holds at the start.
LEMMA InitInv == Init => Inv
<1> SUFFICES ASSUME Init PROVE Inv
  OBVIOUS
<1>1. << >> \in Seq(Byte) /\ Len(<< >>) = 0
  BY EmptySeq
<1>2. Types
  <2>1. /\ text = << >> /\ wire = << >> /\ follow = << >> /\ rest = << >> /\ out = << >> /\ input = << >>
        /\ done = 0 /\ room = 0 /\ outRoom = 0 /\ offset = 0 /\ len = 0
    BY DEF Init
  <2>2. Len(text) = 0 /\ Len(wire) = 0 /\ Len(out) = 0 /\ Len(input) = 0
    BY <1>1, <2>1
  <2>3. done \in 0..Len(text) + 1 /\ offset \in 0..Len(input) /\ len \in 0..Len(input)
    BY <2>1, <2>2
  <2>4. room \in Nat /\ outRoom \in Nat /\ Len(wire) <= room /\ Len(out) <= outRoom
    BY <2>1, <2>2
  <2>5. pc = "start" /\ plain = FALSE /\ err = "Ok"
    BY DEF Init
  <2>6. QED
    BY <1>1, <2>1, <2>3, <2>4, <2>5 DEF Types
<1>3. Stages
  BY DEF Init, Stages
<1>4. Written
  BY <1>1, Unwritten DEF Init
<1>5. Measuring /\ Copying /\ pc # "done"
  BY DEF Init, Measuring, Copying
<1>6. QED
  BY <1>2, <1>3, <1>4, <1>5, NotAtEnd DEF Inv

\* A caller of serialize_bytes.
LEMMA BeginInv == Inv /\ Begin => Inv'
<1> SUFFICES ASSUME Inv, Begin PROVE Inv'
  OBVIOUS
<1>1. done = 0 /\ wire = << >> /\ Types
  BY DEF Inv, Stages, Begin
<1>2. text' \in Seq(Byte) /\ Len(text') \in Nat
  <2>1. text' \in Seq(Byte)
    BY BytesEscAssumption DEF Begin, Byte
  <2>2. QED
    BY <2>1, LenProperties
<1>3. Types'
  <2>1. room' \in Nat /\ Len(wire') <= room'
    BY <1>1, EmptySeq, BytesEscAssumption DEF Begin
  <2>2. done' \in 0..Len(text') + 1
    BY <1>1, <1>2 DEF Begin
  <2>3. QED
    BY <1>1, <1>2, <2>1, <2>2 DEF Types, Begin, inputVars
<1>4. Stages'
  BY <1>1, <1>2 DEF Inv, Stages, Begin
<1>5. Written'
  <2>1. done' = 0 /\ wire' = << >>
    BY <1>1 DEF Begin
  <2>2. (done = 0 /\ wire = << >> /\ text \in Seq(Byte) => Written)'
    BY Unwritten, PTL
  <2>3. QED
    BY <1>2, <2>1, <2>2
<1>6. Measuring' /\ Copying' /\ pc' # "done"
  BY DEF Begin, Measuring, Copying
<1>7. (RoundTrip /\ TornIsRefused /\ AcceptedIsCanonical)'
  BY <1>6 DEF RoundTrip, TornIsRefused, AcceptedIsCanonical
<1>8. QED
  BY <1>3, <1>4, <1>5, <1>6, <1>7 DEF Inv

\* What one more byte adds to either encoding.
LEMMA OneMore ==
  ASSUME NEW ord, NEW t \in Seq(Byte), NEW i \in Nat, i < Len(t)
  PROVE  /\ t[i + 1] \in Byte /\ SubSeq(t, 1, i) \in Seq(Byte)
         /\ Body(ord, SubSeq(t, 1, i + 1)) = Body(ord, SubSeq(t, 1, i)) \o PieceOf(ord, t[i + 1])
         /\ FlipAll(ord, SubSeq(t, 1, i + 1)) = FlipAll(ord, SubSeq(t, 1, i)) \o <<Flip(ord, t[i + 1])>>
<1> DEFINE f == SubSeq(t, 1, i)
           g == SubSeq(t, 1, i + 1)
           b == t[i + 1]
           c == <<b>>
<1>1. f \in Seq(Byte) /\ b \in Byte /\ g = Append(f, b)
  BY GrowFront
<1>2. FlipAll(ord, c) = <<Flip(ord, b)>>
  BY DEF FlipAll
<1>3. c \in Seq(Byte)
  BY <1>1, Single
<1> HIDE DEF f, g, b
<1>4. Append(f, b) = f \o c
  BY <1>1, AppendIsConcat
<1>5. Body(ord, Append(f, b)) = Body(ord, f) \o PieceOf(ord, b)
  BY <1>1, BodyAppend
<1> HIDE DEF c
<1>6. FlipAll(ord, f \o c) = FlipAll(ord, f) \o FlipAll(ord, c)
  BY <1>1, <1>3, FlipConcat
<1>7. QED
  BY <1>1, <1>2, <1>4, <1>5, <1>6 DEF f, g, b

\* What the buffer holds after the next call of write.
LEMMA PieceAdds ==
  ASSUME Types, Written, done <= Len(text), pc = "escaping",
         NEW piece, piece = IF plain THEN PlainPiece ELSE Piece,
         NEW next, next = IF plain /\ order # "Descending" THEN Len(text) + 1 ELSE done + 1
  PROVE  /\ wire \o piece \in Seq(Byte) /\ Len(wire \o piece) = Len(wire) + Len(piece)
         /\ next \in 1..Len(text) + 1
         /\ next = Len(text) + 1 => wire \o piece = Encoded(text)
         /\ next <= Len(text) /\ ~plain => wire \o piece = Body(order, SubSeq(text, 1, next))
         /\ next <= Len(text) /\ plain =>
              wire \o piece = IF order = "Descending" THEN FlipAll(order, SubSeq(text, 1, next))
                              ELSE << >>
<1> DEFINE n == Len(text)
           f == SubSeq(text, 1, done)
           g == SubSeq(text, 1, done + 1)
           b == text[done + 1]
<1>1. /\ text \in Seq(Byte) /\ wire \in Seq(Byte) /\ n \in Nat /\ done \in Nat /\ done <= n
      /\ plain \in BOOLEAN
  BY LenProperties DEF Types
<1>2. done = n => f = text
  BY <1>1, WholeFront
<1>3. done < n => /\ b \in Byte
                  /\ Body(order, g) = Body(order, f) \o PieceOf(order, b)
                  /\ FlipAll(order, g) = FlipAll(order, f) \o <<Flip(order, b)>>
  BY <1>1, OneMore
<1>4. done = n \/ done < n
  BY <1>1
<1>5. /\ ~plain => Encoded(text) = Coded(order, text)
      /\ plain => Encoded(text) = FlipAll(order, text)
  BY <1>1, EncodedIs
<1>6. ASSUME piece \in Seq(Byte)
      PROVE  wire \o piece \in Seq(Byte) /\ Len(wire \o piece) = Len(wire) + Len(piece)
  BY <1>1, <1>6, ConcatProperties, Zenon
<1>7. CASE ~plain
  <2>1. wire = Body(order, f) /\ next = done + 1
    BY <1>7 DEF Written
  <2>2. CASE done = n
    <3>1. piece = Terminator(order)
      BY <1>7, <2>2, InThisOrder DEF Piece, Terminator
    <3>2. piece \in Seq(Byte)
      BY <3>1, TerminatorIs
    <3>3. wire \o piece = Encoded(text)
      BY <1>2, <1>5, <1>7, <2>1, <2>2, <3>1 DEF Coded
    <3>4. next = n + 1 /\ ~(next <= n) /\ next \in 1..n + 1
      BY <1>1, <2>1, <2>2
    <3>5. QED
      BY <1>6, <3>2, <3>3, <3>4
  <2>3. CASE done < n
    <3>1. piece = PieceOf(order, b)
      <4>1. done # n
        BY <1>1, <2>3
      <4>2. CASE b = EscapeAsc.start
        BY <1>7, <2>3, <4>1, <4>2, InThisOrder DEF Piece, PieceOf
      <4>3. CASE b # EscapeAsc.start
        BY <1>7, <2>3, <4>1, <4>3, InThisOrder DEF Piece, PieceOf
      <4>4. QED
        BY <4>2, <4>3
    <3>2. piece \in Seq(Byte)
      BY <1>3, <2>3, <3>1, PieceIs
    <3>3. wire \o piece = Body(order, g)
      BY <1>3, <2>1, <2>3, <3>1
    <3>4. next # n + 1 /\ next = done + 1 /\ next \in 1..n + 1
      BY <1>1, <2>1, <2>3
    <3>5. QED
      BY <1>6, <1>7, <3>2, <3>3, <3>4
  <2>4. QED
    BY <1>4, <2>2, <2>3
<1>8. CASE plain /\ order # "Descending"
  <2>1. piece = text /\ next = n + 1 /\ wire = << >>
    BY <1>1, <1>8 DEF PlainPiece, Written
  <2>2. wire \o piece = text
    BY <1>1, <2>1, ConcatEmptySeq
  <2>3. Encoded(text) = text
    BY <1>1, <1>5, <1>8, FlipNone
  <2>4. ~(next <= n) /\ next \in 1..n + 1
    BY <1>1, <2>1
  <2>5. QED
    BY <1>1, <1>6, <2>1, <2>2, <2>3, <2>4
<1>9. CASE plain /\ order = "Descending"
  <2>1. wire = FlipAll(order, f) /\ next = done + 1
    BY <1>1, <1>9 DEF Written
  <2>2. CASE done = n
    <3>1. piece = << >>
      BY <1>1, <1>9, <2>2 DEF PlainPiece
    <3>2. piece \in Seq(Byte) /\ wire \o piece = wire
      BY <1>1, <3>1, EmptySeq, ConcatEmptySeq
    <3>3. wire \o piece = Encoded(text)
      BY <1>2, <1>5, <1>9, <2>1, <2>2, <3>2
    <3>4. next = n + 1 /\ ~(next <= n) /\ next \in 1..n + 1
      BY <1>1, <2>1, <2>2
    <3>5. QED
      BY <1>6, <3>2, <3>3, <3>4
  <2>3. CASE done < n
    <3>1. piece = <<Flip(order, b)>>
      BY <1>1, <1>9, <2>3, InThisOrder DEF PlainPiece
    <3>2. piece \in Seq(Byte)
      <4>1. Flip(order, b) \in Byte
        BY <1>3, <2>3, EscapeBytes
      <4>2. QED
        BY <3>1, <4>1, Single
    <3>3. wire \o piece = FlipAll(order, g)
      BY <1>3, <2>1, <2>3, <3>1
    <3>4. next # n + 1 /\ next = done + 1 /\ next \in 1..n + 1
      BY <1>1, <2>1, <2>3
    <3>5. QED
      BY <1>6, <1>9, <3>2, <3>3, <3>4
  <2>4. QED
    BY <1>4, <2>2, <2>3
<1>10. QED
  BY <1>1, <1>7, <1>8, <1>9

\* One call of write.
LEMMA WritePieceInv == Inv /\ WritePiece => Inv'
<1> SUFFICES ASSUME Inv, WritePiece PROVE Inv'
  OBVIOUS
<1>1. /\ pc = "escaping" /\ Types /\ Written /\ done <= Len(text)
      /\ offset = 0 /\ len = 0 /\ out = << >> /\ err = "Ok"
  BY DEF Inv, Stages, WritePiece
<1>2. UNCHANGED <<order, plain, text, room, inputVars, rest, offset, len, out, err>>
  BY DEF WritePiece
<1>3. Encoded(text)' = Encoded(text)
  BY <1>2 DEF Encoded, Escaped, ComplementAll
<1> DEFINE piece == IF plain THEN PlainPiece ELSE Piece
           next  == IF plain /\ order # "Descending" THEN Len(text) + 1 ELSE done + 1
<1>4. pc' \in {"escaping", "written", "refused"}
  BY DEF WritePiece
<1>5. Measuring' /\ Copying' /\ pc' # "done"
  BY <1>4 DEF Measuring, Copying
<1>6. (RoundTrip /\ TornIsRefused /\ AcceptedIsCanonical)'
  BY <1>5 DEF RoundTrip, TornIsRefused, AcceptedIsCanonical
<1>7. CASE /\ Len(wire) + Len(piece) <= room
           /\ wire' = wire \o piece
           /\ done' = next
           /\ pc' = IF done' = Len(text) + 1 THEN "written" ELSE "escaping"
  <2>1. /\ wire' \in Seq(Byte) /\ Len(wire') <= room /\ done' \in 1..Len(text) + 1
        /\ done' = Len(text) + 1 => wire' = Encoded(text)
        /\ done' <= Len(text) /\ ~plain => wire' = Body(order, SubSeq(text, 1, done'))
        /\ done' <= Len(text) /\ plain =>
              wire' = IF order = "Descending" THEN FlipAll(order, SubSeq(text, 1, done'))
                      ELSE << >>
    <3>1. /\ piece = IF plain THEN PlainPiece ELSE Piece
          /\ next = IF plain /\ order # "Descending" THEN Len(text) + 1 ELSE done + 1
      OBVIOUS
    <3> HIDE DEF piece, next
    <3>2. /\ wire \o piece \in Seq(Byte) /\ Len(wire \o piece) = Len(wire) + Len(piece)
          /\ next \in 1..Len(text) + 1
          /\ next = Len(text) + 1 => wire \o piece = Encoded(text)
          /\ next <= Len(text) /\ ~plain => wire \o piece = Body(order, SubSeq(text, 1, next))
          /\ next <= Len(text) /\ plain =>
               wire \o piece = IF order = "Descending" THEN FlipAll(order, SubSeq(text, 1, next))
                               ELSE << >>
      BY <1>1, <3>1, PieceAdds, Zenon
    <3>3. QED
      BY <1>7, <3>2
  <2>2. Len(text) \in Nat
    BY <1>1, LenProperties DEF Types
  <2>3. Types'
    <3>1. done' \in 0..Len(text') + 1
      BY <1>2, <2>1, <2>2
    <3>2. QED
      BY <1>1, <1>2, <1>4, <2>1, <3>1 DEF Types, inputVars
  <2>4. Stages'
    <3>1. done' # Len(text) + 1 => done' <= Len(text)
      BY <2>1, <2>2
    <3>2. QED
      BY <1>1, <1>2, <1>7, <3>1 DEF Stages
  <2>5. Written'
    BY <1>2, <1>3, <2>1 DEF Written
  <2>6. QED
    BY <1>5, <1>6, <2>3, <2>4, <2>5 DEF Inv
<1>8. CASE pc' = "refused" /\ UNCHANGED <<wire, done>>
  <2>1. Types'
    BY <1>1, <1>2, <1>8 DEF Types, inputVars
  <2>2. Stages'
    BY <1>1, <1>2, <1>8 DEF Stages
  <2>3. Written'
    BY <1>1, <1>2, <1>3, <1>8 DEF Written
  <2>4. QED
    BY <1>5, <1>6, <2>1, <2>2, <2>3 DEF Inv
<1>9. QED
  BY <1>7, <1>8 DEF WritePiece

\* A reader is called.
LEMMA OpenInv ==
  ASSUME Inv, pc \in {"start", "written", "refused"},
         NEW bytes \in Seq(Byte), OpenReader(bytes),
         UNCHANGED <<text, done, room, wire, offset, len, out, err>>,
         plain' \in BOOLEAN, follow' \in Seq(Byte), Written'
  PROVE  Inv'
<1>1. Types /\ Stages
  BY DEF Inv
<1>2. offset = 0 /\ len = 0 /\ out = << >> /\ err = "Ok"
  BY <1>1 DEF Stages
<1>3. offset' = 0 /\ len' = 0 /\ out' = << >> /\ err' = "Ok" /\ input' = bytes /\ rest' = bytes
  BY <1>2 DEF OpenReader
<1>4. Len(bytes) \in Nat /\ Len(<< >>) = 0 /\ << >> \in Seq(Byte)
  BY LenProperties, EmptySeq
<1>5. /\ pc' \in {"measuring", "copying"} /\ outRoom' \in Nat
      /\ api' # "to_writer" => outRoom' = Len(bytes)
      /\ pc' = "measuring" => ~plain' /\ api' = "to_vec"
      /\ pc' = "copying" /\ ~plain' => api' = "to_writer"
  BY <1>4, BytesEscAssumption DEF OpenReader
<1>6. Types'
  <2>1. Len(out') <= outRoom' /\ offset' \in 0..Len(input') /\ len' \in 0..Len(input')
    BY <1>3, <1>4, <1>5
  <2>2. pc' \in {"start", "escaping", "written", "refused", "measuring", "copying", "done"}
    BY <1>5
  <2>3. QED
    BY <1>1, <1>3, <1>4, <1>5, <2>1, <2>2 DEF Types
<1>7. Stages'
  BY <1>5 DEF Stages
<1>8. Unscanned' = bytes
  <2>1. SubSeq(bytes, 1, Len(bytes)) = bytes
    BY WholeFront
  <2>2. Unscanned' = SubSeq(rest', offset' + 1, Len(rest'))
    BY DEF Unscanned
  <2>3. QED
    BY <1>3, <2>1, <2>2
<1>9. input' = Body(order', << >>) \o Unscanned'
  <2>1. << >> \o bytes = bytes
    BY ConcatEmptySeq
  <2>2. QED
    BY <1>3, <1>8, <2>1, BodyEmpty
<1>10. Measuring'
  BY <1>3, <1>4, <1>5, <1>9 DEF Measuring
<1>11. Copying'
  BY <1>3, <1>5, <1>9 DEF Copying
<1>12. (RoundTrip /\ TornIsRefused /\ AcceptedIsCanonical)'
  BY <1>5 DEF RoundTrip, TornIsRefused, AcceptedIsCanonical
<1>13. QED
  BY <1>6, <1>7, <1>10, <1>11, <1>12 DEF Inv

\* The reader of what the buffer took.
LEMMA DeliverInv == Inv /\ Deliver => Inv'
<1> SUFFICES ASSUME Inv, Deliver PROVE Inv'
  OBVIOUS
<1>1. /\ pc \in {"start", "written", "refused"}
      /\ UNCHANGED <<order, plain, text, done, room, wire, offset, len, out, err>>
  BY DEF Deliver, writerVars
<1>2. plain' \in BOOLEAN /\ Written' /\ wire \in Seq(Byte) /\ follow \in Seq(Byte)
  <2>1. Encoded(text)' = Encoded(text)
    BY <1>1 DEF Encoded, Escaped, ComplementAll
  <2>2. QED
    BY <1>1, <2>1 DEF Inv, Types, Written
<1>3. CASE follow' \in Follower /\ OpenReader(wire \o follow')
  <2>1. follow' \in Seq(Byte)
    BY <1>3, BytesEscAssumption DEF Byte
  <2>2. wire \o follow' \in Seq(Byte)
    BY <1>2, <2>1, ConcatProperties, Zenon
  <2>3. QED
    BY <1>1, <1>2, <1>3, <2>1, <2>2, OpenInv
<1>4. CASE \E n \in 0..Len(wire) - 1 : OpenReader(SubSeq(wire, 1, n)) /\ UNCHANGED follow
  <2>1. PICK n \in 0..Len(wire) - 1 : OpenReader(SubSeq(wire, 1, n)) /\ UNCHANGED follow
    BY <1>4
  <2>2. n \in 0..Len(wire)
    BY <1>2, LenProperties
  <2>3. SubSeq(wire, 1, n) \in Seq(Byte) /\ follow' \in Seq(Byte)
    BY <1>2, <2>1, <2>2, CutElements
  <2>4. QED
    BY <1>1, <1>2, <2>1, <2>3, OpenInv
<1>5. QED
  BY <1>3, <1>4 DEF Deliver

\* The reader of bytes no writer wrote.
LEMMA CorruptInv == Inv /\ Corrupt => Inv'
<1> SUFFICES ASSUME Inv, Corrupt PROVE Inv'
  OBVIOUS
<1>1. /\ pc \in {"start", "written", "refused"}
      /\ UNCHANGED <<text, done, room, wire, follow, offset, len, out, err>>
      /\ plain' \in BOOLEAN
  BY DEF Corrupt
<1>2. done' = 0 /\ wire' = << >> /\ text' \in Seq(Byte) /\ follow' \in Seq(Byte)
  BY <1>1 DEF Inv, Types, Stages, Corrupt
<1>3. Written'
  <2>1. (done = 0 /\ wire = << >> /\ text \in Seq(Byte) => Written)'
    BY Unwritten, PTL
  <2>2. QED
    BY <1>2, <2>1
<1>4. PICK bytes \in RawInput : OpenReader(bytes)
  BY DEF Corrupt
<1>5. bytes \in Seq(Byte)
  BY BytesEscAssumption DEF Byte
<1>6. QED
  BY <1>1, <1>2, <1>3, <1>4, <1>5, OpenInv

\* What a reader has in front of it when the bytes it was given, of which g may be
\* missing, are a form: what is left is what is left of the form.
Remains(ord, in, v, u, g, t, f) ==
  in = Body(ord, v) \o u /\ in \o g = Coded(ord, t) \o f =>
    /\ \A k \in Nat : First(ord, u, k) => u[k + 1] \in {Esc(ord).esc, Esc(ord).term}
    /\ g = << >> => \E k \in Nat : First(ord, u, k)
    /\ \E w \in Seq(Byte) : t = v \o w

\* Remains holds of all byte strings.
LEMMA Remaining ==
  ASSUME NEW ord, NEW in \in Seq(Byte), NEW v \in Seq(Byte), NEW u \in Seq(Byte),
         NEW g \in Seq(Byte), NEW t \in Seq(Byte), NEW f \in Seq(Byte)
  PROVE  Remains(ord, in, v, u, g, t, f)
<1> SUFFICES ASSUME in = Body(ord, v) \o u, in \o g = Coded(ord, t) \o f
             PROVE  /\ \A k \in Nat : First(ord, u, k) => u[k + 1] \in {Esc(ord).esc, Esc(ord).term}
                    /\ g = << >> => \E k \in Nat : First(ord, u, k)
                    /\ \E w \in Seq(Byte) : t = v \o w
  BY DEF Remains
<1> DEFINE b == Body(ord, v)
           r == u \o g
<1>1. b \in Seq(Byte)
  BY BodyType
<1>2. b \o r = Coded(ord, t) \o f
  <2>1. (b \o u) \o g = Coded(ord, t) \o f
    OBVIOUS
  <2> HIDE DEF b
  <2>2. Associates(b, u, g)
    BY <1>1, Association
  <2>3. QED
    BY <2>1, <2>2 DEF Associates
<1>3. r \in Seq(Byte)
  BY ConcatProperties, Zenon
<1> HIDE DEF r
<1>4. Continues(ord, v, t, r, f)
  BY <1>3, Unique
<1>5. PICK w \in Seq(Byte) : t = v \o w /\ r = Coded(ord, w) \o f
  BY <1>2, <1>4, Zenon DEF Continues
<1>6. Guided(ord, u, g, w, f)
  BY Guide
<1>7. u \o g = Coded(ord, w) \o f
  BY <1>5 DEF r
<1>8. QED
  BY <1>5, <1>6, <1>7, Zenon DEF Guided

\* What the buffer took begins the escaped form of the string.
LEMMA WireBegins ==
  ASSUME Types, Written, ~plain
  PROVE  /\ done = Len(text) + 1 => wire = Coded(order, text)
         /\ \E g \in Seq(Byte) : Coded(order, text) = wire \o g
<1>1. text \in Seq(Byte) /\ wire \in Seq(Byte) /\ done \in 0..Len(text) + 1 /\ Len(text) \in Nat
  BY LenProperties DEF Types
<1>2. done = Len(text) + 1 => wire = Coded(order, text)
  BY <1>1, EncodedIs DEF Written
<1>3. CASE done = Len(text) + 1
  <2>1. wire \o << >> = wire /\ << >> \in Seq(Byte)
    BY <1>1, ConcatEmptySeq, EmptySeq
  <2>2. QED
    BY <1>2, <1>3, <2>1
<1>4. CASE done # Len(text) + 1
  <2> DEFINE f == SubSeq(text, 1, done)
             h == SubSeq(text, done + 1, Len(text))
             y == Coded(order, h)
  <2>1. done \in 0..Len(text) /\ done <= Len(text)
    BY <1>1, <1>4
  <2>2. f \in Seq(Byte) /\ h \in Seq(Byte) /\ f \o h = text
    BY <1>1, <2>1, CutSeq
  <2>3. wire = Body(order, f)
    BY <2>1 DEF Written
  <2> HIDE DEF f, h
  <2>4. Coded(order, text) = wire \o y /\ y \in Seq(Byte)
    <3> DEFINE b == Body(order, h)
               t == Terminator(order)
    <3>1. b \in Seq(Byte) /\ t \in Seq(Byte) /\ y = b \o t /\ y \in Seq(Byte)
      BY <2>2, BodyType, TerminatorIs DEF Coded
    <3>2. Body(order, f \o h) = Body(order, f) \o b
      BY <2>2, BodyConcat
    <3>3. Coded(order, text) = (wire \o b) \o t
      BY <2>2, <2>3, <3>2 DEF Coded
    <3> HIDE DEF b, t, y
    <3>4. Associates(wire, b, t)
      BY <1>1, <3>1, Association
    <3>5. QED
      BY <3>1, <3>3, <3>4 DEF Associates
  <2>5. QED
    BY <1>4, <2>4
<1>5. QED
  BY <1>2, <1>3, <1>4

\* The input holds the whole form and what follows it, or all but its last bytes g.
GivenWhole == input \o << >> = Coded(order, text) \o follow
GivenTorn(g) == g # << >> /\ input \o g = Coded(order, text) \o << >>

\* What the reader was given.
LEMMA Given ==
  ASSUME Types, Written, ~plain
  PROVE  /\ Intact => GivenWhole
         /\ IsStrictPrefix(input, wire) => \E g \in Seq(Byte) : GivenTorn(g)
<1>1. text \in Seq(Byte) /\ wire \in Seq(Byte) /\ input \in Seq(Byte) /\ follow \in Seq(Byte)
  BY DEF Types
<1>2. Coded(order, text) \in Seq(Byte)
  BY <1>1, BodyType
<1>3. ASSUME Intact PROVE GivenWhole
  <2>1. input = wire \o follow /\ wire = Coded(order, text)
    BY <1>3, WireBegins DEF Intact
  <2>2. input \o << >> = input
    BY <1>1, ConcatEmptySeq
  <2>3. QED
    BY <2>1, <2>2 DEF GivenWhole
<1>4. ASSUME IsStrictPrefix(input, wire)
      PROVE  \E g \in Seq(Byte) : GivenTorn(g)
  <2>1. IsPrefix(input, wire) /\ input # wire
    BY <1>4 DEF IsStrictPrefix
  <2>2. PICK c \in Seq(Byte) : wire = input \o c
    BY <1>1, <2>1, PrefixIs
  <2>3. PICK d \in Seq(Byte) : Coded(order, text) = wire \o d
    BY WireBegins
  <2> DEFINE e == Coded(order, text)
             g == c \o d
  <2>4. g \in Seq(Byte)
    BY ConcatProperties, Zenon
  <2>5. e = input \o g /\ e \o << >> = e
    <3>1. e = (input \o c) \o d /\ e \in Seq(Byte)
      BY <1>2, <2>2, <2>3
    <3> HIDE DEF e
    <3>2. Associates(input, c, d)
      BY <1>1, Association
    <3>3. QED
      BY <3>1, <3>2, ConcatEmptySeq DEF Associates
  <2>6. g # << >>
    <3>1. c # << >>
      BY <1>1, <2>1, <2>2, ConcatEmptySeq
    <3>2. Joined(c, d, Byte) /\ Len(c) \in Nat /\ Len(d) \in Nat /\ Len(c) # 0
      BY <3>1, Join, LenProperties, EmptySeq
    <3>3. Len(g) = Len(c) + Len(d)
      BY <3>2 DEF Joined
    <3> HIDE DEF g
    <3>4. Len(g) # 0
      BY <3>2, <3>3
    <3>5. QED
      BY <3>4, EmptySeq
  <2>7. QED
    BY <2>4, <2>5, <2>6 DEF GivenTorn
<1>5. QED
  BY <1>3, <1>4

\* A reader that has found the body of v does not go wrong on what a writer wrote.
LEMMA GoesOn ==
  ASSUME Types, Written, ~plain, rest = input,
         NEW v \in Seq(Byte), input = Body(order, v) \o Unscanned
  PROVE  /\ Intact => ~Dangling /\ ~Malformed
         /\ IsStrictPrefix(input, wire) /\ ~Dangling => ~Malformed
<1> DEFINE u == Unscanned
           codes == {Esc(order).esc, Esc(order).term}
<1>1. u \in Seq(Byte)
  BY UnscannedIs
<1>2. text \in Seq(Byte) /\ input \in Seq(Byte) /\ follow \in Seq(Byte) /\ << >> \in Seq(Byte)
  BY EmptySeq DEF Types
<1>3. /\ EscapeAt \in Nat
      /\ ~Dangling => First(order, u, EscapeAt)
      /\ Dangling => \A k \in Nat : ~First(order, u, k)
  BY <1>1, EscapeAtIs
<1>4. Malformed <=> u[EscapeAt + 1] \notin codes
  BY InThisOrder DEF Malformed, Code
<1>5. input = Body(order, v) \o u
  OBVIOUS
<1> HIDE DEF u, codes
<1>6. ASSUME Intact PROVE ~Dangling /\ ~Malformed
  <2>1. GivenWhole
    BY <1>6, Given
  <2>2. Remains(order, input, v, u, << >>, text, follow)
    BY <1>1, <1>2, Remaining
  <2>3. /\ \A k \in Nat : First(order, u, k) => u[k + 1] \in codes
        /\ \E k \in Nat : First(order, u, k)
    BY <1>5, <2>1, <2>2, Zenon DEF GivenWhole, codes, Remains
  <2>4. QED
    BY <1>3, <1>4, <2>3
<1>7. ASSUME IsStrictPrefix(input, wire), ~Dangling PROVE ~Malformed
  <2>1. PICK g \in Seq(Byte) : GivenTorn(g)
    BY <1>7, Given
  <2>2. \A k \in Nat : First(order, u, k) => u[k + 1] \in codes
    <3>1. Remains(order, input, v, u, g, text, << >>)
      BY <1>1, <1>2, Remaining
    <3>2. QED
      BY <1>5, <2>1, <3>1, Zenon DEF GivenTorn, codes, Remains
  <2>3. QED
    BY <1>3, <1>4, <1>7, <2>2
<1>8. QED
  BY <1>6, <1>7

\* One round of either scan that is neither dangling nor malformed.
LEMMA ScanRound ==
  ASSUME Types, rest = input, ~Dangling,
         NEW v \in Seq(Byte), input = Body(order, v) \o Unscanned
  PROVE  /\ EscapeAt \in Nat /\ Advances(order, input, offset, v, EscapeAt)
         /\ Code = Unscanned[EscapeAt + 1]
         /\ Scanned = SubSeq(SubSeq(input, offset + 1, Len(input)), 1, EscapeAt)
<1> DEFINE u == Unscanned
           k == EscapeAt
<1>1. u \in Seq(Byte) /\ u = SubSeq(input, offset + 1, Len(input))
  BY UnscannedIs
<1>2. k \in Nat /\ First(order, u, k)
  BY <1>1, EscapeAtIs
<1>3. input \in Seq(Byte) /\ offset \in 0..Len(input)
  BY DEF Types
<1>4. input = Body(order, v) \o u
  OBVIOUS
<1>5. Scanned = SubSeq(u, 1, k) /\ Code = u[k + 1]
  BY DEF Scanned, Code
<1> HIDE DEF u, k
<1>6. Advances(order, input, offset, v, k)
  BY <1>1, <1>2, <1>3, <1>4, Advance
<1>7. QED
  BY <1>1, <1>2, <1>5, <1>6 DEF u, k

\* One round of unescaped_length.
LEMMA MeasureInv == Inv /\ Measure => Inv'
<1> SUFFICES ASSUME Inv, Measure PROVE Inv'
  OBVIOUS
<1>1. /\ Types /\ Stages /\ Written /\ pc = "measuring"
      /\ ~plain /\ api = "to_vec" /\ outRoom = Len(input)
      /\ rest = input /\ out = << >> /\ err = "Ok"
  BY DEF Inv, Measuring, Measure
<1>2. PICK v \in Seq(Byte) : Len(v) = len /\ input = Body(order, v) \o Unscanned
  BY <1>1 DEF Inv, Measuring
<1>3. UNCHANGED <<order, plain, text, done, room, wire, follow, input, api, outRoom, rest, out>>
  BY DEF Measure, writerVars, inputVars
<1>4. Encoded(text)' = Encoded(text)
  BY <1>3 DEF Encoded, Escaped, ComplementAll
<1>5. Written'
  BY <1>1, <1>3, <1>4 DEF Written
<1>6. Intact' = Intact
  BY <1>3 DEF Intact
<1>7. pc' # "done" => (RoundTrip /\ TornIsRefused /\ AcceptedIsCanonical)'
  BY DEF RoundTrip, TornIsRefused, AcceptedIsCanonical
<1>8. /\ Intact => ~Dangling /\ ~Malformed
      /\ IsStrictPrefix(input, wire) /\ ~Dangling => ~Malformed
  BY <1>1, <1>2, GoesOn
<1>9. CASE /\ pc' = "done" /\ UNCHANGED <<offset, len>> /\ ~Intact
           /\ err' \in {"PrematureEndOfInput", "InvalidByteSequenceEscape"}
           /\ IsStrictPrefix(input, wire) => err' = "PrematureEndOfInput"
  <2>1. Types' /\ Stages' /\ Measuring' /\ Copying'
    BY <1>1, <1>3, <1>9 DEF Types, Stages, Measuring, Copying
  <2>2. RoundTrip'
    BY <1>6, <1>9 DEF RoundTrip
  <2>3. TornIsRefused'
    BY <1>3, <1>9 DEF TornIsRefused
  <2>4. AcceptedIsCanonical'
    BY <1>9 DEF AcceptedIsCanonical
  <2>5. QED
    BY <1>5, <2>1, <2>2, <2>3, <2>4 DEF Inv
<1>10. CASE ~Dangling /\ ~Malformed /\ len' = len + Measured /\ UNCHANGED err
            /\ IF Code = Escape.term THEN offset' = 0 /\ pc' = "copying"
               ELSE offset' = offset + EscapeAt + 1 /\ pc' = "measuring"
  <2> DEFINE k  == EscapeAt
             u  == SubSeq(input, offset + 1, Len(input))
             s  == SubSeq(u, 1, k)
             o2 == offset + k + 1
             r  == SubSeq(input, o2 + 1, Len(input))
             x  == FlipAll(order, s)
             y  == FlipAll(order, Front(s))
             n  == Len(input)
  <2>1. k \in Nat /\ Advances(order, input, offset, v, k) /\ Code = Unscanned[k + 1] /\ Unscanned = u
    BY <1>1, <1>2, <1>10, ScanRound, UnscannedIs
  <2>2. /\ o2 \in 0..n /\ r \in Seq(Byte)
        /\ x \in Seq(Byte) /\ Len(x) = k /\ v \o x \in Seq(Byte)
        /\ y \in Seq(Byte) /\ Len(y) = k - 1 /\ v \o y \in Seq(Byte)
        /\ Code = Esc(order).esc => input = Body(order, v \o x) \o r
        /\ Code = Esc(order).term => input = Coded(order, v \o y) \o r
    BY <2>1 DEF Advances
  <2>3. Code \in {Esc(order).esc, Esc(order).term} /\ Esc(order).esc # Esc(order).term
    BY <1>10, EscapeBytes, InThisOrder DEF Malformed
  <2>4. n \in Nat /\ len \in Nat
    BY <1>1, LenProperties DEF Types
  <2>5. input' = input /\ rest' = input /\ order' = order
    BY <1>1, <1>3
  <2>6. ASSUME NEW w \in Seq(Byte), NEW z, z \in Seq(Byte), input = Body(order, w) \o z
        PROVE  Len(w) \in 0..n
    <3> DEFINE b == Body(order, w)
    <3>1. b \in Seq(Byte) /\ Len(w) <= Len(b) /\ Len(w) \in Nat
      BY BodyType, BodyLen, LenProperties
    <3> HIDE DEF b
    <3>2. Joined(b, z, Byte) /\ Len(b) \in Nat /\ Len(z) \in Nat
      BY <2>6, <3>1, Join, LenProperties
    <3>3. n = Len(b) + Len(z)
      BY <2>6, <3>2 DEF Joined, b
    <3>4. QED
      BY <3>1, <3>2, <3>3
  <2> HIDE DEF k, u, s, r, x, y, n
  <2>7. CASE Code = Esc(order).esc
    <3>1. pc' = "measuring" /\ offset' = o2 /\ len' = len + k
      BY <1>10, <2>3, <2>7, InThisOrder DEF Measured, k
    <3>2. input = Body(order, v \o x) \o r
      BY <2>2, <2>7
    <3>3. Len(v \o x) = len'
      <4>1. Joined(v, x, Byte)
        BY <2>2, Join
      <4>2. QED
        BY <1>2, <2>2, <3>1, <4>1 DEF Joined
    <3>4. Unscanned' = r
      <4>1. Unscanned' = SubSeq(rest', offset' + 1, Len(rest'))
        BY DEF Unscanned
      <4>2. QED
        BY <2>5, <3>1, <4>1 DEF r
    <3>5. len' \in 0..n
      <4> DEFINE w == v \o x
      <4>1. w \in Seq(Byte) /\ input = Body(order, w) \o r /\ Len(w) = len'
        BY <2>2, <3>2, <3>3
      <4> HIDE DEF w
      <4>2. QED
        BY <2>2, <2>6, <4>1
    <3>6. Types'
      BY <1>1, <1>3, <1>10, <2>2, <3>1, <3>5 DEF Types, n
    <3>7. Stages' /\ Copying'
      BY <3>1 DEF Stages, Copying
    <3>8. Measuring'
      <4>1. \E w \in Seq(Byte) : Len(w) = len' /\ input' = Body(order', w) \o Unscanned'
        BY <2>2, <2>5, <3>2, <3>3, <3>4
      <4>2. QED
        BY <1>1, <1>3, <1>10, <4>1 DEF Measuring
    <3>9. QED
      BY <1>5, <1>7, <3>1, <3>6, <3>7, <3>8 DEF Inv
  <2>8. CASE Code = Esc(order).term
    <3>1. pc' = "copying" /\ offset' = 0 /\ len' = len + (k - 1)
      BY <1>10, <2>3, <2>8, InThisOrder DEF Measured, k
    <3> DEFINE w == v \o y
    <3>2. input = Coded(order, w) \o r /\ w \in Seq(Byte)
      BY <2>2, <2>8
    <3>3. Len(w) = len'
      <4>1. Joined(v, y, Byte)
        BY <2>2, Join
      <4>2. QED
        BY <1>2, <2>2, <3>1, <4>1 DEF Joined
    <3> HIDE DEF w
    <3>4. len' \in 0..n
      <4> DEFINE b == Body(order, w)
                 t == Terminator(order)
                 z == t \o r
      <4>1. b \in Seq(Byte) /\ t \in Seq(Byte) /\ input = (b \o t) \o r
        BY <3>2, BodyType, TerminatorIs DEF Coded
      <4> HIDE DEF b, t
      <4>2. Associates(b, t, r) /\ z \in Seq(Byte)
        <5>1. z \in Seq(Byte)
          BY <2>2, <4>1, ConcatProperties, Zenon
        <5>2. QED
          BY <2>2, <4>1, <5>1, Association
      <4>3. input = b \o z
        BY <4>1, <4>2 DEF Associates
      <4> HIDE DEF z
      <4>4. QED
        BY <2>6, <3>2, <3>3, <4>2, <4>3 DEF b
    <3>5. Types'
      <4>1. offset' \in 0..Len(input')
        BY <2>4, <2>5, <3>1 DEF n
      <4>2. QED
        BY <1>1, <1>3, <1>10, <3>1, <3>4, <4>1 DEF Types, n
    <3>6. Stages' /\ Measuring'
      BY <3>1 DEF Stages, Measuring
    <3>7. Announced'
      BY <2>2, <2>5, <3>2, <3>3 DEF Announced
    <3>8. input' = Body(order', out') \o Unscanned'
      <4>1. Unscanned' = SubSeq(input, 1, Len(input))
        <5>1. Unscanned' = SubSeq(rest', offset' + 1, Len(rest'))
          BY DEF Unscanned
        <5>2. QED
          BY <2>5, <3>1, <5>1
      <4>2. input \in Seq(Byte)
        BY <1>1 DEF Types
      <4>3. SubSeq(input, 1, Len(input)) = input /\ << >> \o input = input
        BY <4>2, WholeFront, ConcatEmptySeq
      <4>4. Body(order', out') = << >>
        BY <1>1, <1>3, BodyEmpty
      <4>5. QED
        BY <2>5, <4>1, <4>3, <4>4
    <3>9. Copying'
      BY <1>1, <1>3, <1>10, <3>7, <3>8 DEF Copying
    <3>10. QED
      BY <1>5, <1>7, <3>1, <3>5, <3>6, <3>9 DEF Inv
  <2>9. QED
    BY <2>3, <2>7, <2>8
<1>11. QED
  BY <1>8, <1>9, <1>10 DEF Measure

\* No string is longer than bytes that begin with its body or are its form.
LEMMA Within ==
  ASSUME NEW ord, NEW in \in Seq(Byte), NEW w \in Seq(Byte), NEW r \in Seq(Byte),
         in = Body(ord, w) \o r \/ in = Coded(ord, w) \o r
  PROVE  Len(w) <= Len(in)
<1> DEFINE b == Body(ord, w)
           e == Coded(ord, w)
<1>1. /\ b \in Seq(Byte) /\ e \in Seq(Byte) /\ Len(w) <= Len(b) /\ Len(e) = Len(b) + 2
      /\ Len(w) \in Nat /\ Len(b) \in Nat /\ Len(r) \in Nat
  BY BodyType, BodyLen, LenProperties
<1>2. in = b \o r \/ in = e \o r
  OBVIOUS
<1> HIDE DEF b, e
<1>3. Joined(b, r, Byte) /\ Joined(e, r, Byte)
  BY <1>1, Join
<1>4. Len(in) = Len(b) + Len(r) \/ Len(in) = Len(e) + Len(r)
  BY <1>2, <1>3 DEF Joined
<1>5. QED
  BY <1>1, <1>4

\* What one round of the copying loop finds: the body of more of the string, or
\* the whole of it; it is never the whole of a string that was cut off, and it is
\* of the length that was measured.
LEMMA CopyRound ==
  ASSUME Inv, pc = "copying", ~plain, ~Dangling, ~Malformed,
         NEW string, string = FlipAll(order, Unescaped),
         NEW o2, o2 = offset + EscapeAt + 1,
         NEW r, r = SubSeq(input, o2 + 1, Len(input))
  PROVE  /\ string \in Seq(Byte) /\ out \o string \in Seq(Byte) /\ Len(string) = Len(Unescaped)
         /\ Len(out \o string) = Len(out) + Len(string) /\ Len(out \o string) <= Len(input)
         /\ o2 \in 0..Len(input) /\ r \in Seq(Byte)
         /\ Code \in {Esc(order).esc, Esc(order).term}
         /\ Code = Esc(order).esc => input = Body(order, out \o string) \o r
         /\ Code = Esc(order).term => /\ SubSeq(input, 1, o2) = Coded(order, out \o string)
                                      /\ ~IsStrictPrefix(input, wire)
                                      /\ api = "to_vec" => Len(out \o string) = len
                                      /\ Intact => text = out \o string
         /\ Intact => \E w \in Seq(Byte) : text = (out \o string) \o w
<1> DEFINE k == EscapeAt
           u == SubSeq(input, offset + 1, Len(input))
           s == SubSeq(u, 1, k)
           x == FlipAll(order, s)
           y == FlipAll(order, Front(s))
           all == out \o string
<1>1. /\ Types /\ Written /\ rest = input
      /\ input = Body(order, out) \o Unscanned
      /\ api = "to_vec" => Announced
  BY DEF Inv, Copying
<1>2. /\ text \in Seq(Byte) /\ out \in Seq(Byte) /\ input \in Seq(Byte) /\ follow \in Seq(Byte)
      /\ << >> \in Seq(Byte)
  BY <1>1, EmptySeq DEF Types
<1>3. /\ k \in Nat /\ Advances(order, input, offset, out, k) /\ Code = Unscanned[k + 1]
      /\ Unscanned = u /\ Scanned = s
  BY <1>1, <1>2, ScanRound, UnscannedIs
<1>4. /\ o2 \in 0..Len(input) /\ r \in Seq(Byte)
      /\ s \in Seq(Byte) /\ Len(s) = k /\ Front(s) \in Seq(Byte) /\ Len(Front(s)) = k - 1
      /\ x \in Seq(Byte) /\ Len(x) = k /\ out \o x \in Seq(Byte)
      /\ y \in Seq(Byte) /\ Len(y) = k - 1 /\ out \o y \in Seq(Byte)
      /\ Code = Esc(order).esc => input = Body(order, out \o x) \o r
      /\ Code = Esc(order).term => input = Coded(order, out \o y) \o r
                                   /\ SubSeq(input, 1, o2) = Coded(order, out \o y)
  BY <1>3 DEF Advances
<1>5. Code \in {Esc(order).esc, Esc(order).term} /\ Esc(order).esc # Esc(order).term
  BY EscapeBytes, InThisOrder DEF Malformed
<1>6. /\ Code = Esc(order).esc => string = x /\ Len(Unescaped) = k
      /\ Code = Esc(order).term => string = y /\ Len(Unescaped) = k - 1
  BY <1>3, <1>4, <1>5, InThisOrder DEF Unescaped
<1> HIDE DEF k, u, s, x, y
<1>7. string \in Seq(Byte) /\ all \in Seq(Byte) /\ Len(string) = Len(Unescaped)
  BY <1>4, <1>5, <1>6
<1>8. /\ Code = Esc(order).esc => input = Body(order, all) \o r
      /\ Code = Esc(order).term => /\ input = Coded(order, all) \o r
                                   /\ SubSeq(input, 1, o2) = Coded(order, all)
  BY <1>4, <1>6
<1>9. Len(all) = Len(out) + Len(string)
  <2>1. Joined(out, string, Byte)
    BY <1>2, <1>7, Join
  <2>2. QED
    BY <2>1 DEF Joined
<1> HIDE DEF all
<1>10. Len(all) <= Len(input)
  BY <1>2, <1>4, <1>5, <1>7, <1>8, Within
<1>11. ASSUME Intact, Code = Esc(order).term
       PROVE  text = all
  <2>1. GivenWhole
    BY <1>1, <1>11, Given
  <2>2. input \o << >> = input
    BY <1>2, ConcatEmptySeq
  <2>3. Distinct(order, all, text, r, follow)
    BY <1>2, <1>4, <1>7, PrefixFree
  <2>4. QED
    BY <1>8, <1>11, <2>1, <2>2, <2>3 DEF Distinct, GivenWhole
<1>12. ASSUME Intact
       PROVE  \E w \in Seq(Byte) : text = all \o w
  <2>1. CASE Code = Esc(order).term
    <3>1. all \o << >> = all
      BY <1>7, ConcatEmptySeq
    <3>2. QED
      BY <1>2, <1>11, <1>12, <2>1, <3>1
  <2>2. CASE Code = Esc(order).esc
    <3>1. GivenWhole
      BY <1>1, <1>12, Given
    <3>2. Remains(order, input, all, r, << >>, text, follow)
      BY <1>2, <1>4, <1>7, Remaining
    <3>3. input = Body(order, all) \o r
      BY <1>8, <2>2
    <3>4. QED
      BY <3>1, <3>2, <3>3, Zenon DEF GivenWhole, Remains
  <2>3. QED
    BY <1>5, <2>1, <2>2
<1>13. ASSUME Code = Esc(order).term, IsStrictPrefix(input, wire)
       PROVE  FALSE
  <2>1. PICK g \in Seq(Byte) : GivenTorn(g)
    BY <1>1, <1>13, Given
  <2> DEFINE e == Coded(order, all)
             rg == r \o g
  <2>2. e \in Seq(Byte) /\ rg \in Seq(Byte)
    <3>1. e \in Seq(Byte)
      BY <1>7, BodyType
    <3>2. rg \in Seq(Byte)
      BY <1>4, ConcatProperties, Zenon
    <3>3. QED
      BY <3>1, <3>2
  <2>3. e \o rg = Coded(order, text) \o << >>
    <3>1. (e \o r) \o g = Coded(order, text) \o << >>
      BY <1>8, <1>13, <2>1 DEF GivenTorn
    <3> HIDE DEF e
    <3>2. Associates(e, r, g)
      BY <1>4, <2>2, Association
    <3>3. QED
      BY <3>1, <3>2 DEF Associates
  <2> HIDE DEF rg
  <2>4. Distinct(order, all, text, rg, << >>)
    BY <1>2, <1>7, <2>2, PrefixFree
  <2>5. rg = << >>
    BY <2>3, <2>4 DEF Distinct
  <2>6. Joined(r, g, Byte) /\ Len(r) \in Nat /\ Len(g) \in Nat
    BY <1>4, Join, LenProperties
  <2>7. Len(r) + Len(g) = 0
    <3>1. Len(rg) = Len(r) + Len(g)
      BY <2>6 DEF Joined, rg
    <3>2. Len(rg) = 0
      BY <2>5, EmptySeq
    <3>3. QED
      BY <3>1, <3>2
  <2>8. Len(g) = 0
    BY <2>6, <2>7
  <2>9. QED
    BY <2>1, <2>8, EmptySeq DEF GivenTorn
<1>14. ASSUME Code = Esc(order).term, api = "to_vec"
       PROVE  Len(all) = len
  <2>1. PICK v \in Seq(Byte), z \in Seq(Byte) : Len(v) = len /\ input = Coded(order, v) \o z
    BY <1>1, <1>14 DEF Announced
  <2>2. Distinct(order, all, v, r, z)
    BY <1>4, <1>7, PrefixFree
  <2>3. QED
    BY <1>8, <1>14, <2>1, <2>2 DEF Distinct
<1>15. /\ string \in Seq(Byte) /\ Len(string) = Len(Unescaped)
       /\ o2 \in 0..Len(input) /\ r \in Seq(Byte)
       /\ Code \in {Esc(order).esc, Esc(order).term}
  BY <1>4, <1>5, <1>7
<1>16. QED
  BY <1>7, <1>8, <1>9, <1>10, <1>11, <1>12, <1>13, <1>14, <1>15 DEF all

\* What the output takes of a piece: all of it, or a front of what does not fit.
LEMMA TakenIs ==
  ASSUME Types, NEW string \in Seq(Byte), string = FlipAll(order, Unescaped)
  PROVE  /\ Taken \in Seq(Byte) /\ Len(Taken) <= outRoom - Len(out)
         /\ Len(Taken) = Len(string) => Taken = string
         /\ Len(Taken) < Len(string) => Len(string) > outRoom - Len(out)
         /\ \E z \in Seq(Byte) : string = Taken \o z
<1> DEFINE free == outRoom - Len(out)
           l == Len(string)
           Fits == /\ Taken \in Seq(Byte) /\ Len(Taken) <= free
                   /\ Len(Taken) = l => Taken = string
                   /\ Len(Taken) < l => l > free
                   /\ \E z \in Seq(Byte) : string = Taken \o z
<1>1. free \in Nat /\ l \in Nat /\ << >> \in Seq(Byte) /\ Len(<< >>) = 0
  BY LenProperties, EmptySeq DEF Types
<1>2. Taken = IF l <= free THEN string
              ELSE IF order = "Descending" THEN SubSeq(string, 1, free) ELSE << >>
  BY InThisOrder DEF Taken
<1> HIDE DEF free, l
<1>3. ASSUME l <= free PROVE Fits
  <2>1. Taken = string
    BY <1>2, <1>3
  <2>2. string \o << >> = string
    BY ConcatEmptySeq
  <2>3. QED
    <3>1. Len(Taken) = l
      BY <2>1 DEF l
    <3>2. \E z \in Seq(Byte) : string = Taken \o z
      BY <1>1, <2>1, <2>2, Zenon
    <3>3. ~(l < l)
      BY <1>1
    <3>4. QED
      BY <1>3, <2>1, <3>1, <3>2, <3>3
<1>4. ASSUME ~(l <= free), order = "Descending" PROVE Fits
  <2>1. free \in 0..Len(string)
    BY <1>1, <1>4 DEF l
  <2>2. Taken = SubSeq(string, 1, free)
    BY <1>2, <1>4
  <2>3. /\ SubSeq(string, 1, free) \in Seq(Byte) /\ Len(SubSeq(string, 1, free)) = free
        /\ SubSeq(string, free + 1, Len(string)) \in Seq(Byte)
        /\ SubSeq(string, 1, free) \o SubSeq(string, free + 1, Len(string)) = string
    BY <2>1, CutSeq
  <2>4. l > free /\ l # free
    BY <1>1, <1>4
  <2>5. QED
    <3>1. Len(Taken) = free /\ Taken \in Seq(Byte) /\ free <= free
      <4>1. Len(Taken) = free /\ Taken \in Seq(Byte)
        BY <2>2, <2>3, Zenon
      <4>2. free <= free
        BY <1>1
      <4>3. QED
        BY <4>1, <4>2
    <3>2. \E z \in Seq(Byte) : string = Taken \o z
      BY <2>2, <2>3, Zenon
    <3>3. QED
      BY <2>4, <3>1, <3>2
<1>5. ASSUME ~(l <= free), order # "Descending" PROVE Fits
  <2>1. Taken = << >>
    BY <1>2, <1>5
  <2>2. << >> \o string = string
    BY ConcatEmptySeq
  <2>3. l > free /\ l # 0 /\ 0 <= free
    BY <1>1, <1>5
  <2>4. QED
    BY <1>1, <2>1, <2>2, <2>3
<1>6. QED
  BY <1>3, <1>4, <1>5 DEF free, l

\* One round of read_escaped_bytes_asc or read_escaped_bytes_desc that fails on
\* the input.
LEMMA CopyFailsInv == Inv /\ Copy /\ CopyFails => Inv'
<1> SUFFICES ASSUME Inv, Copy, CopyFails PROVE Inv'
  OBVIOUS
<1>1. /\ Types /\ Written /\ pc = "copying" /\ ~plain /\ rest = input
      /\ input = Body(order, out) \o Unscanned
  BY DEF Inv, Copying, Copy
<1>2. UNCHANGED <<order, plain, text, done, room, wire, follow, input, api, outRoom, len, offset, out>>
  BY DEF Copy, CopyFails, writerVars, inputVars
<1>3. /\ Intact => ~Dangling /\ ~Malformed
      /\ IsStrictPrefix(input, wire) /\ ~Dangling => ~Malformed
  <2>1. out \in Seq(Byte)
    BY <1>1 DEF Types
  <2>2. QED
    BY <1>1, <2>1, GoesOn
<1>4. /\ pc' = "done" /\ ~Intact
      /\ err' \in {"PrematureEndOfInput", "InvalidByteSequenceEscape"}
      /\ IsStrictPrefix(input, wire) => err' = "PrematureEndOfInput"
  BY <1>3 DEF CopyFails
<1>5. rest' \in Seq(Byte)
  <2>1. CASE Dangling /\ AdvanceBy(Len(Unscanned))
    <3>1. Unscanned \in Seq(Byte) /\ Len(Unscanned) = Len(input) - offset
      BY <1>1, UnscannedIs
    <3>2. Len(input) - offset \in 0..Len(input) /\ input \in Seq(Byte)
      <4>1. Len(input) \in Nat /\ offset \in 0..Len(input) /\ input \in Seq(Byte)
        BY <1>1, LenProperties DEF Types
      <4>2. QED
        BY <4>1
    <3>3. rest' = SubSeq(input, (Len(input) - offset) + 1, Len(input))
      BY <1>1, <2>1, <3>1 DEF AdvanceBy
    <3>4. QED
      BY <3>2, <3>3, CutElements
  <2>2. CASE UNCHANGED rest
    BY <1>1, <2>2 DEF Types
  <2>3. QED
    BY <2>1, <2>2 DEF CopyFails
<1>6. Encoded(text)' = Encoded(text) /\ Intact' = Intact
  BY <1>2 DEF Encoded, Escaped, ComplementAll, Intact
<1>7. Written'
  BY <1>1, <1>2, <1>6 DEF Written
<1>8. Types' /\ Stages' /\ Measuring' /\ Copying'
  BY <1>1, <1>2, <1>4, <1>5 DEF Types, Stages, Measuring, Copying
<1>9. RoundTrip'
  BY <1>4, <1>6 DEF RoundTrip
<1>10. TornIsRefused'
  BY <1>2, <1>4 DEF TornIsRefused
<1>11. AcceptedIsCanonical'
  BY <1>4 DEF AcceptedIsCanonical
<1>12. QED
  BY <1>7, <1>8, <1>9, <1>10, <1>11 DEF Inv

\* One round that finds a piece for the output.
LEMMA CopyPieceInv == Inv /\ Copy /\ CopyPiece => Inv'
<1> SUFFICES ASSUME Inv, Copy, CopyPiece PROVE Inv'
  OBVIOUS
<1> DEFINE string == FlipAll(order, Unescaped)
           o2 == offset + EscapeAt + 1
           r  == SubSeq(input, o2 + 1, Len(input))
           all == out \o string
           ok == Len(Taken) = Len(Unescaped)
           n == Len(input)
<1>1. /\ Types /\ Written /\ pc = "copying" /\ ~plain /\ rest = input /\ err = "Ok"
      /\ api # "to_writer" => outRoom = Len(input)
      /\ api \in {"to_vec", "to_writer"}
      /\ api = "to_vec" => Announced
  BY DEF Inv, Copying, Copy
<1>2. ~Dangling /\ ~Malformed /\ out' = out \o Taken
  BY DEF CopyPiece
<1>3. UNCHANGED <<order, plain, text, done, room, wire, follow, input, api, outRoom, len>>
  BY DEF Copy, CopyPiece, writerVars, inputVars
<1>4. /\ string \in Seq(Byte) /\ all \in Seq(Byte) /\ Len(string) = Len(Unescaped)
      /\ Len(all) = Len(out) + Len(string) /\ Len(all) <= n
      /\ o2 \in 0..n /\ r \in Seq(Byte)
      /\ Code \in {Esc(order).esc, Esc(order).term}
      /\ Code = Esc(order).esc => input = Body(order, all) \o r
      /\ Code = Esc(order).term => /\ SubSeq(input, 1, o2) = Coded(order, all)
                                   /\ ~IsStrictPrefix(input, wire)
                                   /\ api = "to_vec" => Len(all) = len
                                   /\ Intact => text = all
      /\ Intact => \E w \in Seq(Byte) : text = all \o w
  BY <1>1, <1>2, CopyRound
<1>5. /\ Taken \in Seq(Byte) /\ Len(Taken) <= outRoom - Len(out)
      /\ Len(Taken) = Len(string) => Taken = string
      /\ Len(Taken) < Len(string) => Len(string) > outRoom - Len(out)
      /\ \E z \in Seq(Byte) : string = Taken \o z
  <2>1. string \in Seq(Byte)
    BY <1>4
  <2>2. QED
    BY <1>1, <2>1, TakenIs
<1>6. /\ out \in Seq(Byte) /\ text \in Seq(Byte) /\ input \in Seq(Byte)
      /\ outRoom \in Nat /\ Len(out) \in Nat /\ Len(Taken) \in Nat /\ n \in Nat /\ Len(string) \in Nat
      /\ Len(text) \in Nat
  BY <1>1, <1>4, <1>5, LenProperties DEF Types
<1>7. out' \in Seq(Byte) /\ Len(out') = Len(out) + Len(Taken) /\ Len(out') <= outRoom
  <2>1. Joined(out, Taken, Byte)
    BY <1>5, <1>6, Join
  <2>2. out' \in Seq(Byte) /\ Len(out') = Len(out) + Len(Taken)
    BY <1>2, <2>1 DEF Joined
  <2>3. QED
    BY <1>5, <1>6, <2>2
<1>8. Encoded(text)' = Encoded(text) /\ Intact' = Intact /\ Readable' = text
  BY <1>1, <1>3 DEF Encoded, Escaped, ComplementAll, Intact, Readable
<1>9. Written'
  BY <1>1, <1>3, <1>8 DEF Written
<1>10. pc' # "done" => (RoundTrip /\ TornIsRefused /\ AcceptedIsCanonical)'
  BY DEF RoundTrip, TornIsRefused, AcceptedIsCanonical
<1> HIDE DEF string, o2, r, all, n
<1>11. CASE /\ Len(Taken) < Len(Unescaped)
            /\ err' = "BufferOverflow" /\ pc' = "done" /\ UNCHANGED <<rest, offset>>
  <2>1. Len(Taken) < Len(string) /\ Len(string) > outRoom - Len(out)
    BY <1>4, <1>5, <1>11
  <2>2. outRoom < Len(all) /\ Len(out') < Len(all)
    BY <1>4, <1>6, <1>7, <2>1
  <2>3. api = "to_writer"
    <3>1. SUFFICES ASSUME outRoom = n PROVE FALSE
      BY <1>1 DEF n
    <3>2. QED
      BY <1>4, <1>6, <2>2, <3>1, LenProperties
  <2>4. Types' /\ Stages' /\ Measuring' /\ Copying'
    BY <1>1, <1>3, <1>7, <1>11 DEF Types, Stages, Measuring, Copying
  <2>5. RoundTrip'
    <3>1. SUFFICES ASSUME Intact PROVE RoundTrip'
      BY <1>8 DEF RoundTrip
    <3>2. PICK w \in Seq(Byte) : text = all \o w
      BY <1>4, <3>1
    <3>3. PICK z \in Seq(Byte) : string = Taken \o z
      BY <1>5
    <3>4. text = out' \o (z \o w) /\ z \o w \in Seq(Byte)
      <4>1. all = (out \o Taken) \o z
        <5>1. Associates(out, Taken, z)
          BY <1>5, <1>6, Association
        <5>2. all = out \o (Taken \o z)
          BY <3>3 DEF all
        <5>3. QED
          BY <5>1, <5>2 DEF Associates
      <4>2. text = (out' \o z) \o w
        BY <1>2, <3>2, <4>1
      <4>3. Associates(out', z, w)
        BY <1>7, Association
      <4>4. z \o w \in Seq(Byte)
        BY ConcatProperties, Zenon
      <4>5. QED
        BY <4>2, <4>3, <4>4 DEF Associates
    <3>5. IsPrefix(out', text)
      BY <1>6, <1>7, <3>4, PrefixIs
    <3>6. Len(all) <= Len(text)
      <4>1. Joined(all, w, Byte) /\ Len(all) \in Nat /\ Len(w) \in Nat
        BY <1>4, Join, LenProperties
      <4>2. Len(text) = Len(all) + Len(w)
        BY <3>2, <4>1 DEF Joined
      <4>3. QED
        BY <4>1, <4>2
    <3>7. outRoom < Len(text) /\ out' # text
      <4>1. Len(out') < Len(text) /\ outRoom < Len(text)
        <5>1. Len(all) \in Nat /\ Len(out') \in Nat
          BY <1>4, <1>7, LenProperties
        <5>2. QED
          BY <1>6, <2>2, <3>6, <5>1
      <4>2. ~(Len(text) < Len(text))
        BY <1>6
      <4>3. QED
        BY <4>1, <4>2
    <3>8. IsStrictPrefix(out', text)
      BY <3>5, <3>7 DEF IsStrictPrefix
    <3>9. rest' = input'
      BY <1>1, <1>3, <1>11
    <3>10. api' = "to_writer" /\ outRoom' = outRoom
      BY <1>3, <2>3
    <3>11. QED
      BY <1>8, <1>11, <3>7, <3>8, <3>9, <3>10 DEF RoundTrip
  <2>6. TornIsRefused' /\ AcceptedIsCanonical'
    BY <1>11 DEF TornIsRefused, AcceptedIsCanonical
  <2>7. QED
    BY <1>9, <2>4, <2>5, <2>6 DEF Inv
<1>12. CASE /\ Len(Taken) = Len(Unescaped) /\ offset' = offset + EscapeAt + 1 /\ UNCHANGED err
            /\ IF Code = Escape.term
               THEN pc' = "done" /\ AdvanceBy(Len(rest) - offset')
               ELSE pc' = "copying" /\ UNCHANGED rest
  <2>1. out' = all /\ offset' = o2
    BY <1>2, <1>4, <1>5, <1>12 DEF all, o2
  <2>2. Escape.term = Esc(order).term /\ Esc(order).esc # Esc(order).term
    BY InThisOrder, EscapeBytes
  <2>3. CASE Code = Esc(order).esc
    <3>1. pc' = "copying" /\ rest' = input
      BY <1>1, <1>12, <2>2, <2>3
    <3>2. Types'
      BY <1>1, <1>3, <1>4, <1>7, <1>12, <2>1, <3>1 DEF Types, n
    <3>3. Unscanned' = r
      <4>1. Unscanned' = SubSeq(rest', offset' + 1, Len(rest'))
        BY DEF Unscanned
      <4>2. QED
        BY <2>1, <3>1, <4>1 DEF r
    <3>4. input' = Body(order', out') \o Unscanned'
      BY <1>3, <1>4, <2>1, <2>3, <3>3
    <3>5. api' = "to_vec" => Announced'
      BY <1>1, <1>3 DEF Announced
    <3>6. Copying'
      BY <1>1, <1>3, <1>12, <3>1, <3>4, <3>5 DEF Copying
    <3>7. Stages' /\ Measuring'
      BY <3>1 DEF Stages, Measuring
    <3>8. QED
      BY <1>9, <1>10, <3>1, <3>2, <3>6, <3>7 DEF Inv
  <2>4. CASE Code = Esc(order).term
    <3>1. pc' = "done" /\ err' = "Ok" /\ AdvanceBy(Len(rest) - offset')
      BY <1>1, <1>12, <2>2, <2>4
    <3>2. rest' \in Seq(Byte)
      <4>1. n - o2 \in 0..n
        BY <1>4, <1>6
      <4>2. rest' = SubSeq(input, (n - o2) + 1, n)
        BY <1>1, <2>1, <3>1 DEF AdvanceBy, n
      <4>3. QED
        BY <1>6, <4>1, <4>2, CutElements DEF n
    <3>3. Types'
      BY <1>1, <1>3, <1>4, <1>7, <2>1, <3>1, <3>2 DEF Types, n
    <3>4. Stages' /\ Measuring' /\ Copying'
      BY <3>1 DEF Stages, Measuring, Copying
    <3>5. RoundTrip'
      <4>1. SUFFICES ASSUME Intact PROVE RoundTrip'
        BY <1>8 DEF RoundTrip
      <4>2. out' = text
        BY <1>4, <2>1, <2>4, <4>1
      <4>3. ~(outRoom' < Len(text))
        BY <1>3, <1>6, <1>7, <4>2
      <4>4. api' # "to_string"
        BY <1>1, <1>3
      <4>5. QED
        BY <1>8, <3>1, <4>2, <4>3, <4>4 DEF RoundTrip
    <3>6. TornIsRefused'
      BY <1>3, <1>4, <2>4 DEF TornIsRefused
    <3>7. AcceptedIsCanonical'
      <4>1. (\A t \in Seq(Byte) : /\ ~plain => Encoded(t) = Coded(order, t)
                                  /\ plain => Encoded(t) = FlipAll(order, t))'
        BY EncodedAll, PTL
      <4>2. Encoded(out)' = Coded(order, all)
        BY <1>1, <1>3, <1>4, <2>1, <4>1
      <4>3. QED
        BY <1>3, <1>4, <2>1, <2>4, <4>2 DEF AcceptedIsCanonical
    <3>9. QED
      BY <1>9, <3>3, <3>4, <3>5, <3>6, <3>7 DEF Inv
  <2>5. QED
    BY <1>4, <2>3, <2>4
<1>13. QED
  BY <1>11, <1>12 DEF CopyPiece

\* The readers of a plain string.
LEMMA CopyPlainInv == Inv /\ CopyPlain => Inv'
<1> SUFFICES ASSUME Inv, CopyPlain PROVE Inv'
  OBVIOUS
<1> DEFINE string == FlipAll(order, input)
           n == Len(input)
<1>1. /\ Types /\ Written /\ pc = "copying" /\ plain /\ rest = input /\ err = "Ok"
      /\ out = << >> /\ offset = 0
      /\ api # "to_writer" => outRoom = n
  BY DEF Inv, Copying, CopyPlain
<1>2. /\ UNCHANGED <<order, plain, text, done, room, wire, follow, input, api, outRoom, len>>
      /\ pc' = "done"
  BY DEF CopyPlain, writerVars, inputVars
<1>3. /\ text \in Seq(Byte) /\ follow \in Seq(Byte) /\ input \in Seq(Byte) /\ wire \in Seq(Byte)
      /\ outRoom \in Nat /\ n \in Nat /\ << >> \in Seq(Byte) /\ Len(<< >>) = 0
  BY <1>1, LenProperties, EmptySeq DEF Types
<1>4. string \in Seq(Byte) /\ Len(string) = n /\ FlipAll(order, string) = input
  BY <1>3, FlipAllIs
<1>5. ASSUME Intact PROVE Readable = string
  <2>1. input = wire \o follow /\ wire = FlipAll(order, text)
    BY <1>1, <1>3, <1>5, EncodedIs DEF Intact, Written
  <2>2. FlipAll(order, wire) = text
    BY <1>3, <2>1, FlipAllIs
  <2>3. FlipAll(order, wire \o follow) = FlipAll(order, wire) \o FlipAll(order, follow)
    BY <1>3, FlipConcat
  <2>4. Readable = text \o FlipAll(order, follow)
    BY <1>1, InThisOrder DEF Readable
  <2>5. QED
    BY <2>1, <2>2, <2>3, <2>4
<1>6. Encoded(text)' = Encoded(text) /\ Intact' = Intact /\ Readable' = Readable
  BY <1>2 DEF Encoded, Escaped, ComplementAll, Intact, Readable, InOrder
<1>7. Written'
  BY <1>1, <1>2, <1>6 DEF Written
<1>8. Stages' /\ Measuring' /\ Copying'
  BY <1>2 DEF Stages, Measuring, Copying
<1>9. TornIsRefused'
  BY <1>1, <1>2 DEF TornIsRefused
<1>10. [i \in DOMAIN rest |-> InOrder(rest[i])] = string
  BY <1>1, InThisOrder
<1> HIDE DEF string
<1>11. CASE /\ Len(string) > outRoom
            /\ out' = IF order = "Descending" THEN SubSeq(string, 1, outRoom) ELSE << >>
            /\ err' = "BufferOverflow" /\ UNCHANGED <<rest, offset>>
  <2>1. outRoom \in 0..Len(string) /\ outRoom # Len(string)
    BY <1>3, <1>4, <1>11
  <2>2. out' \in Seq(Byte) /\ Len(out') <= outRoom
    <3>1. SubSeq(string, 1, outRoom) \in Seq(Byte) /\ Len(SubSeq(string, 1, outRoom)) = outRoom
      BY <1>4, <2>1, CutElements
    <3>2. outRoom <= outRoom /\ 0 <= outRoom
      BY <1>3
    <3>3. CASE order = "Descending"
      BY <1>11, <3>1, <3>2, <3>3
    <3>4. CASE order # "Descending"
      BY <1>3, <1>11, <3>2, <3>4
    <3>5. QED
      BY <3>3, <3>4
  <2>3. \E z \in Seq(Byte) : string = out' \o z
    <3>1. CASE order = "Descending"
      <4>1. /\ SubSeq(string, outRoom + 1, Len(string)) \in Seq(Byte)
            /\ SubSeq(string, 1, outRoom) \o SubSeq(string, outRoom + 1, Len(string)) = string
        BY <1>4, <2>1, CutSeq
      <4>2. out' = SubSeq(string, 1, outRoom)
        BY <1>11, <3>1
      <4>3. QED
        BY <4>1, <4>2, Zenon
    <3>2. CASE order # "Descending"
      <4>1. out' = << >> /\ << >> \o string = string
        BY <1>4, <1>11, <3>2, ConcatEmptySeq
      <4>2. QED
        BY <1>4, <4>1, Zenon
    <3>3. QED
      BY <3>1, <3>2
  <2>4. IsStrictPrefix(out', string)
    <3>1. IsPrefix(out', string)
      BY <1>4, <2>2, <2>3, PrefixIs
    <3>2. out' # string
      <4>1. Len(out') \in Nat /\ Len(string) \in Nat
        BY <1>4, <2>2, LenProperties
      <4>2. QED
        BY <1>3, <1>11, <2>2, <4>1
    <3>3. QED
      BY <3>1, <3>2 DEF IsStrictPrefix
  <2>5. api = "to_writer"
    BY <1>1, <1>4, <2>1
  <2>6. Types'
    BY <1>1, <1>2, <1>11, <2>2 DEF Types
  <2>7. RoundTrip'
    <3>1. SUFFICES ASSUME Intact PROVE RoundTrip'
      BY <1>6 DEF RoundTrip
    <3>2. Readable' = string /\ api' = "to_writer" /\ outRoom' < Len(string)
      BY <1>2, <1>5, <1>6, <1>11, <2>5, <3>1, <1>3, <1>4
    <3>3. rest' = input'
      BY <1>1, <1>2, <1>11
    <3>4. QED
      BY <1>11, <2>4, <3>2, <3>3 DEF RoundTrip
  <2>8. AcceptedIsCanonical'
    BY <1>11 DEF AcceptedIsCanonical
  <2>9. QED
    BY <1>7, <1>8, <1>9, <2>6, <2>7, <2>8 DEF Inv
<1>12. CASE /\ Len(string) <= outRoom
            /\ AdvanceBy(Len(rest)) /\ offset' = Len(rest)
            /\ IF api = "to_string" /\ ~IsUtf8(string)
               THEN err' = "InvalidUtf8Encoding" /\ UNCHANGED out
               ELSE out' = string /\ UNCHANGED err
  <2>1. rest' \in Seq(Byte)
    <3>1. rest' = SubSeq(input, n + 1, n) /\ n \in 0..n
      BY <1>1, <1>3, <1>12 DEF AdvanceBy
    <3>2. QED
      BY <1>3, <3>1, CutElements
  <2>2. Types'
    <3>1. out' \in Seq(Byte) /\ Len(out') <= outRoom'
      <4>1. out' = string \/ out' = << >>
        BY <1>1, <1>12
      <4>2. 0 <= outRoom
        BY <1>3
      <4>3. QED
        BY <1>2, <1>3, <1>4, <1>12, <4>1, <4>2
    <3>2. offset' \in 0..Len(input') /\ len' \in 0..Len(input')
      <4>1. offset' = n /\ input' = input /\ len' = len
        BY <1>1, <1>2, <1>12
      <4>2. QED
        BY <1>1, <1>3, <4>1 DEF Types
    <3>3. err' \in {"Ok", "InvalidUtf8Encoding"}
      BY <1>1, <1>12
    <3>4. QED
      BY <1>1, <1>2, <2>1, <3>1, <3>2, <3>3 DEF Types
  <2>3. RoundTrip'
    <3>1. SUFFICES ASSUME Intact PROVE RoundTrip'
      BY <1>6 DEF RoundTrip
    <3>2. Readable' = string
      BY <1>5, <1>6, <3>1
    <3>3. ~(outRoom' < Len(string))
      BY <1>2, <1>3, <1>4, <1>12
    <3>4. CASE api = "to_string" /\ ~IsUtf8(string)
      BY <1>2, <1>12, <3>2, <3>4 DEF RoundTrip
    <3>5. CASE ~(api = "to_string" /\ ~IsUtf8(string))
      BY <1>1, <1>2, <1>12, <3>2, <3>3, <3>5 DEF RoundTrip
    <3>6. QED
      BY <3>4, <3>5
  <2>4. AcceptedIsCanonical'
    <3>1. SUFFICES ASSUME err' = "Ok" PROVE AcceptedIsCanonical'
      BY DEF AcceptedIsCanonical
    <3>2. out' = string /\ offset' = n
      BY <1>1, <1>12, <3>1
    <3>3. (\A t \in Seq(Byte) : /\ ~plain => Encoded(t) = Coded(order, t)
                                /\ plain => Encoded(t) = FlipAll(order, t))'
      BY EncodedAll, PTL
    <3>4. Encoded(out)' = input
      BY <1>1, <1>2, <1>4, <3>2, <3>3
    <3>5. SubSeq(input, 1, n) = input
      BY <1>3, WholeFront
    <3>6. QED
      BY <1>2, <3>2, <3>4, <3>5 DEF AcceptedIsCanonical
  <2>5. QED
    BY <1>7, <1>8, <1>9, <2>2, <2>3, <2>4 DEF Inv
<1>13. QED
  BY <1>10, <1>11, <1>12, Zenon DEF CopyPlain

\* A step that changes nothing.
LEMMA StutterInv == Inv /\ UNCHANGED vars => Inv'
<1> SUFFICES ASSUME Inv, UNCHANGED vars PROVE Inv'
  OBVIOUS
<1>1. UNCHANGED <<pc, order, plain, text, done, room, wire, follow, input, api, outRoom, rest,
                  offset, len, out, err>>
  BY DEF vars, writerVars, inputVars
<1>2. Types' /\ Stages'
  BY <1>1 DEF Inv, Types, Stages
<1>3. Encoded(text)' = Encoded(text) /\ Encoded(out)' = Encoded(out) /\ Readable' = Readable
  BY <1>1 DEF Encoded, Escaped, ComplementAll, Readable, InOrder
<1>4. Written' /\ Measuring' /\ Copying'
  BY <1>1, <1>3 DEF Inv, Written, Measuring, Copying, Announced, Unscanned
<1>5. RoundTrip'
  BY <1>1, <1>3 DEF Inv, RoundTrip, Intact
<1>6. TornIsRefused' /\ AcceptedIsCanonical'
  BY <1>1, <1>3 DEF Inv, TornIsRefused, AcceptedIsCanonical
<1>7. QED
  BY <1>2, <1>4, <1>5, <1>6 DEF Inv

-----------------------------------------------------------------------------

(* The theorems.                                                           *)

\* The invariant is inductive, so that it holds of every reachable state.
THEOREM StringInvariant == Spec => []Inv
<1>1. Inv /\ [Next]_vars => Inv'
  <2>1. Inv /\ Copy => Inv'
    BY CopyFailsInv, CopyPieceInv DEF Copy
  <2>2. QED
    BY <2>1, BeginInv, WritePieceInv, DeliverInv, CorruptInv, MeasureInv, CopyPlainInv, StutterInv
       DEF Next
<1>2. QED
  BY InitInv, <1>1, PTL DEF Spec

\* Type correctness: what is stored are bytes, and no counter leaves its range.
THEOREM StringTypeCorrect == Spec => []TypeOK
<1>1. Inv => TypeOK
  BY DEF Inv, Types, TypeOK
<1>2. QED
  BY StringInvariant, <1>1, PTL

\* What serialize_bytes and serialize_bytes_noesc leave in the buffer is the
\* documented encoding, for every string and either order.
THEOREM WritesEncoding == Spec => []WireIsEscaped
<1>1. Inv => WireIsEscaped
  BY DEF Inv, Stages, Written, WireIsEscaped
<1>2. QED
  BY StringInvariant, <1>1, PTL

\* A string that another goes on from, and the byte it goes on with.
LEMMA GoesOnWith ==
  ASSUME NEW s \in Seq(Byte), NEW t \in Seq(Byte), IsStrictPrefix(s, t)
  PROVE  \E w \in Seq(Byte) : /\ t = s \o w /\ w # << >>
                              /\ w[1] \in 0..255 /\ t[Len(s) + 1] = w[1]
<1>1. PICK w \in Seq(Byte) : t = s \o w
  BY PrefixIs DEF IsStrictPrefix
<1>2. w # << >>
  BY <1>1, ConcatEmptySeq DEF IsStrictPrefix
<1>3. 1 \in 1..Len(w)
  BY <1>2, LenProperties, EmptySeq
<1>4. Joined(s, w, Byte)
  BY Join
<1>5. (s \o w)[Len(s) + 1] = w[1]
  BY <1>3, <1>4 DEF Joined
<1>6. w[1] \in 0..255
  BY <1>3, ElementOfSeq DEF Byte
<1>7. QED
  BY <1>1, <1>2, <1>5, <1>6

\* Strings sort like their encodings, the other way round when descending, except
\* that where one begins the other the byte it goes on with decides.
THEOREM KeepsOrder == Spec => []OrderKept
<1>1. Inv => OrderKept
  <2> DEFINE e == IF plain THEN "plain" ELSE "escaped"
             Right(t) == Less(text, t) <=> IF order = "Descending"
                                           THEN Less(Encoded(t), wire)
                                           ELSE Less(wire, Encoded(t))
             Claim(t) == /\ IsStrictPrefix(text, t) => EndSorts(text, t)
                         /\ IsStrictPrefix(t, text) => EndSorts(t, text)
  <2>1. SUFFICES ASSUME Inv, pc = "written", NEW t \in Text
                 PROVE  Right(t) <=> Claim(t)
    BY DEF OrderKept
  <2>2. text \in Seq(Byte) /\ t \in Seq(Byte) /\ wire = Encoded(text) /\ plain \in BOOLEAN
    BY <2>1, BytesEscAssumption DEF Inv, Types, Stages, Written, Byte
  <2>3. /\ wire = EncodedAs(order, e, text) /\ Encoded(t) = EncodedAs(order, e, t)
        /\ wire \in Seq(Byte)
    BY <2>2, EncodedIs DEF EncodedAs
  <2>4. e = "plain" <=> plain
    BY <2>2
  <2> HIDE DEF e
  <2>5. CASE ~IsPrefix(text, t) /\ ~IsPrefix(t, text)
    <3>1. Sorts(order, e, text, t)
      BY <2>2, <2>5, SortsAlike
    <3>2. QED
      BY <2>3, <2>5, <3>1 DEF Sorts, IsStrictPrefix
  <2>6. CASE text = t
    <3>1. ~Less(text, t) /\ ~Less(wire, Encoded(t)) /\ ~Less(Encoded(t), wire)
      BY <2>2, <2>3, <2>6, NotLess
    <3>2. QED
      BY <2>6, <3>1 DEF IsStrictPrefix
  <2>7. CASE IsStrictPrefix(text, t)
    <3>1. PICK w \in Seq(Byte) : /\ t = text \o w /\ w # << >>
                                 /\ w[1] \in 0..255 /\ t[Len(text) + 1] = w[1]
      BY <2>2, <2>7, GoesOnWith
    <3>2. Less(text, t) /\ ~Less(t, text)
      BY <2>2, <3>1, PrefixFirst DEF ShorterFirst
    <3>3. /\ Less(wire, Encoded(t)) <=> Leads(order, e, w)
          /\ Less(Encoded(t), wire) <=> ~Leads(order, e, w)
      BY <2>2, <2>3, <3>1, SortsAtEnd DEF EndDecides
    <3>4. ~IsStrictPrefix(t, text)
      BY <3>2 DEF Less
    <3>5. EndSorts(text, t) <=> IF order = "Descending" THEN ~Leads(order, e, w) ELSE Leads(order, e, w)
      <4>1. EscapeAsc.start = 248
        BY DEF EscapeAsc
      <4>2. ~(w[1] < 248) <=> w[1] >= 248
        BY <3>1, AroundEscape
      <4>3. QED
        BY <2>2, <2>4, <3>1, <4>1, <4>2 DEF EndSorts, Leads
    <3>6. QED
      BY <2>7, <3>2, <3>3, <3>4, <3>5
  <2>8. CASE IsStrictPrefix(t, text)
    <3>1. PICK w \in Seq(Byte) : /\ text = t \o w /\ w # << >>
                                 /\ w[1] \in 0..255 /\ text[Len(t) + 1] = w[1]
      BY <2>2, <2>8, GoesOnWith
    <3>2. Less(t, text) /\ ~Less(text, t)
      BY <2>2, <3>1, PrefixFirst DEF ShorterFirst
    <3>3. /\ Less(Encoded(t), wire) <=> Leads(order, e, w)
          /\ Less(wire, Encoded(t)) <=> ~Leads(order, e, w)
      BY <2>2, <2>3, <3>1, SortsAtEnd DEF EndDecides
    <3>4. ~IsStrictPrefix(text, t)
      BY <3>2 DEF Less
    <3>5. EndSorts(t, text) <=> IF order = "Descending" THEN ~Leads(order, e, w) ELSE Leads(order, e, w)
      <4>1. EscapeAsc.start = 248
        BY DEF EscapeAsc
      <4>2. ~(w[1] < 248) <=> w[1] >= 248
        BY <3>1, AroundEscape
      <4>3. QED
        BY <2>2, <2>4, <3>1, <4>1, <4>2 DEF EndSorts, Leads
    <3>6. QED
      BY <2>8, <3>2, <3>3, <3>4, <3>5
  <2>9. QED
    BY <2>5, <2>6, <2>7, <2>8 DEF IsStrictPrefix
<1>2. QED
  BY StringInvariant, <1>1, PTL

\* A string written whole is read back whatever follows it; only too small an
\* output, or a plain string that is no text, fails the reader.
THEOREM StringReadsBack == Spec => []RoundTrip
<1>1. Inv => RoundTrip
  BY DEF Inv
<1>2. QED
  BY StringInvariant, <1>1, PTL

\* A string cut off anywhere is never taken for a shorter one: the encoding with
\* escapes is prefix-free.
THEOREM RefusesTornString == Spec => []TornIsRefused
<1>1. Inv => TornIsRefused
  BY DEF Inv
<1>2. QED
  BY StringInvariant, <1>1, PTL

\* Where a string was measured, the copying loop finds no end and no escape that
\* the measuring loop did not find.
LEMMA Foreseen ==
  ASSUME Types, rest = input, input = Body(order, out) \o Unscanned, Announced
  PROVE  ~Dangling /\ ~Malformed
<1> DEFINE u == Unscanned
           codes == {Esc(order).esc, Esc(order).term}
<1>1. u \in Seq(Byte)
  BY UnscannedIs
<1>2. input \in Seq(Byte) /\ out \in Seq(Byte) /\ << >> \in Seq(Byte)
  BY EmptySeq DEF Types
<1>3. /\ EscapeAt \in Nat
      /\ ~Dangling => First(order, u, EscapeAt)
      /\ Dangling => \A k \in Nat : ~First(order, u, k)
  BY <1>1, EscapeAtIs
<1>4. Malformed <=> u[EscapeAt + 1] \notin codes
  BY InThisOrder DEF Malformed, Code
<1>5. input = Body(order, out) \o u
  OBVIOUS
<1>6. PICK t \in Seq(Byte), r \in Seq(Byte) : input = Coded(order, t) \o r
  BY DEF Announced
<1> HIDE DEF u, codes
<1>7. input \o << >> = Coded(order, t) \o r
  BY <1>2, <1>6, ConcatEmptySeq
<1>8. Remains(order, input, out, u, << >>, t, r)
  BY <1>1, <1>2, Remaining
<1>9. /\ \A k \in Nat : First(order, u, k) => u[k + 1] \in codes
      /\ \E k \in Nat : First(order, u, k)
  BY <1>5, <1>7, <1>8, Zenon DEF Remains, codes
<1>10. QED
  BY <1>3, <1>4, <1>9

\* The last round of the copying loop of deserialize_bytes_to_vec.
LEMMA CopyEnds ==
  ASSUME Inv, Copy, api = "to_vec", pc' = "done"
  PROVE  err' = "Ok" /\ Len(out') = len
<1> DEFINE string == FlipAll(order, Unescaped)
           o2 == offset + EscapeAt + 1
           r  == SubSeq(input, o2 + 1, Len(input))
<1>1. /\ Types /\ pc = "copying" /\ ~plain /\ rest = input /\ err = "Ok"
      /\ outRoom = Len(input) /\ Announced
      /\ input = Body(order, out) \o Unscanned
  BY DEF Inv, Copying, Copy
<1>2. ~Dangling /\ ~Malformed
  BY <1>1, Foreseen
<1>3. CopyPiece
  BY <1>2 DEF Copy, CopyFails
<1>4. /\ string \in Seq(Byte) /\ Len(string) = Len(Unescaped)
      /\ Len(out \o string) = Len(out) + Len(string) /\ Len(out \o string) <= Len(input)
      /\ Code = Esc(order).term => Len(out \o string) = len
  BY <1>1, <1>2, CopyRound
<1>5. /\ Len(Taken) = Len(string) => Taken = string
      /\ Len(Taken) < Len(string) => Len(string) > outRoom - Len(out)
  BY <1>1, <1>4, TakenIs
<1> HIDE DEF string
<1>6. Len(string) \in Nat /\ Len(out) \in Nat /\ Len(input) \in Nat
  BY <1>1, <1>4, LenProperties DEF Types
<1>7. ~(Len(Taken) < Len(Unescaped))
  BY <1>1, <1>4, <1>5, <1>6
<1>8. /\ Len(Taken) = Len(Unescaped) /\ UNCHANGED err
      /\ Code = Escape.term
  BY <1>3, <1>7 DEF CopyPiece
<1>9. Taken = string /\ Code = Esc(order).term
  BY <1>4, <1>5, <1>8, InThisOrder
<1>10. out' = out \o string
  BY <1>3, <1>9 DEF CopyPiece
<1>11. QED
  BY <1>1, <1>4, <1>8, <1>9, <1>10

\* Once deserialize_bytes_to_vec has measured a string, whatever bytes it is
\* given, the copy succeeds, with exactly as many bytes as were measured.
THEOREM MeasuresExactly == Spec => MeasuredLengthIsCopied
<1>1. Inv /\ [Next]_vars =>
        [api = "to_vec" /\ ~plain /\ pc = "copying" /\ pc' = "done"
           => err' = "Ok" /\ Len(out') = len]_vars
  <2> SUFFICES ASSUME Inv, Next, api = "to_vec", ~plain, pc = "copying", pc' = "done"
               PROVE  err' = "Ok" /\ Len(out') = len
    OBVIOUS
  <2>1. Copy
    BY DEF Next, Begin, WritePiece, Deliver, Corrupt, Measure, CopyPlain
  <2>2. QED
    BY <2>1, CopyEnds
<1>2. QED
  BY StringInvariant, <1>1, PTL DEF Spec, MeasuredLengthIsCopied

\* The bytes a reader has scanned when it accepts them, whatever they are, are
\* the encoding of what it returns.  Where the reader then stands is no part of
\* this: ReaderStandsBehind says it, and does not hold.
THEOREM AcceptsCanonical == Spec => []AcceptedIsCanonical
<1>1. Inv => AcceptedIsCanonical
  BY DEF Inv
<1>2. QED
  BY StringInvariant, <1>1, PTL

=============================================================================
