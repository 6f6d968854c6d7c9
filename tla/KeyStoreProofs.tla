--------------------------- MODULE KeyStoreProofs ---------------------------
(***************************************************************************)
(* Keys sort like the values they are made of, are told apart and decoded  *)
(* bit by bit, for every schema, target and set of values.                 *)
(***************************************************************************)
EXTENDS KeyStore, DataFacts, FiniteSetTheorems

(* The order of bytes and of words: two of them compare at their highest    *)
(* different bit.                                                           *)

Bits(N) == [0..N -> Bit]

HighDiff(a, b, N) ==
  \E m \in 0..N : a[m] = 0 /\ b[m] = 1 /\ \A k \in 0..N : k > m => a[k] = b[k]

\* The definition by Max says the same.
LEMMA HighDiffIs ==
  ASSUME NEW N \in Nat, NEW a \in Bits(N), NEW b \in Bits(N)
  PROVE  LET diff == {k \in 0..N : a[k] # b[k]}
         IN (diff # {} /\ a[Max(diff)] = 0) <=> HighDiff(a, b, N)
<1> DEFINE diff == {k \in 0..N : a[k] # b[k]}
<1>1. \A k \in 0..N : a[k] \in Bit /\ b[k] \in Bit
  BY DEF Bits
<1>2. ASSUME diff # {}, a[Max(diff)] = 0
      PROVE  HighDiff(a, b, N)
  <2> DEFINE m == Max(diff)
  <2>1. m \in diff /\ \A y \in diff : y <= m
    BY <1>2, MaxOf
  <2> HIDE DEF m
  <2>2. m \in 0..N /\ a[m] # b[m] /\ a[m] = 0
    BY <1>2, <2>1 DEF m
  <2>3. b[m] = 1
    BY <1>1, <2>2 DEF Bit
  <2>4. \A k \in 0..N : k > m => a[k] = b[k]
    BY <2>1
  <2>5. QED
    BY <2>2, <2>3, <2>4 DEF HighDiff
<1>3. ASSUME HighDiff(a, b, N)
      PROVE  diff # {} /\ a[Max(diff)] = 0
  <2>1. PICK m \in 0..N : a[m] = 0 /\ b[m] = 1 /\ \A k \in 0..N : k > m => a[k] = b[k]
    BY <1>3 DEF HighDiff
  <2>2. m \in diff
    BY <2>1
  <2>3. Max(diff) \in diff /\ \A y \in diff : y <= Max(diff)
    BY <2>2, MaxOf
  <2> HIDE DEF diff
  <2>4. Max(diff) \in 0..N /\ a[Max(diff)] # b[Max(diff)] /\ m <= Max(diff)
    BY <2>2, <2>3 DEF diff
  <2>5. Max(diff) = m
    BY <2>1, <2>4
  <2>6. QED
    BY <2>1, <2>2, <2>5
<1>4. QED
  BY <1>2, <1>3

\* Two different words have such a bit.
LEMMA HighDiffTotal ==
  ASSUME NEW N \in Nat, NEW a \in Bits(N), NEW b \in Bits(N), a # b
  PROVE  HighDiff(a, b, N) \/ HighDiff(b, a, N)
<1> DEFINE diff == {k \in 0..N : a[k] # b[k]}
           m == Max(diff)
<1>1. \A k \in 0..N : a[k] \in Bit /\ b[k] \in Bit
  BY DEF Bits
<1>2. diff # {}
  BY DEF Bits
<1>3. m \in diff /\ \A y \in diff : y <= m
  BY <1>2, MaxOf
<1> HIDE DEF m
<1>4. m \in 0..N /\ a[m] # b[m] /\ \A k \in 0..N : k > m => a[k] = b[k]
  BY <1>3
<1>5. (a[m] = 0 /\ b[m] = 1) \/ (a[m] = 1 /\ b[m] = 0)
  BY <1>1, <1>4 DEF Bit
<1>6. QED
  BY <1>4, <1>5 DEF HighDiff

\* The order is strict and transitive.
LEMMA HighDiffOrder ==
  ASSUME NEW N \in Nat, NEW a, NEW b, NEW c
  PROVE  /\ ~HighDiff(a, a, N)
         /\ HighDiff(a, b, N) /\ HighDiff(b, c, N) => HighDiff(a, c, N)
<1>1. ~HighDiff(a, a, N)
  BY DEF HighDiff
<1>2. ASSUME HighDiff(a, b, N), HighDiff(b, c, N)
      PROVE  HighDiff(a, c, N)
  <2>1. PICK m \in 0..N : a[m] = 0 /\ b[m] = 1 /\ \A k \in 0..N : k > m => a[k] = b[k]
    BY <1>2 DEF HighDiff
  <2>2. PICK l \in 0..N : b[l] = 0 /\ c[l] = 1 /\ \A k \in 0..N : k > l => b[k] = c[k]
    BY <1>2 DEF HighDiff
  <2>3. CASE m > l
    <3>1. c[m] = 1 /\ \A k \in 0..N : k > m => a[k] = c[k]
      BY <2>1, <2>2, <2>3
    <3>2. QED
      BY <2>1, <3>1 DEF HighDiff
  <2>4. CASE l > m
    <3>1. a[l] = 0 /\ \A k \in 0..N : k > l => a[k] = c[k]
      BY <2>1, <2>2, <2>4
    <3>2. QED
      BY <2>2, <3>1 DEF HighDiff
  <2>5. m # l
    BY <2>1, <2>2
  <2>6. QED
    BY <2>3, <2>4, <2>5
<1>3. QED
  BY <1>1, <1>2

\* Bytes are words of eight bits.
LEMMA ByteBeforeIs ==
  ASSUME NEW a \in BitByte, NEW b \in BitByte
  PROVE  ByteBefore(a, b) <=> HighDiff(a, b, 7)
<1>1. a \in Bits(7) /\ b \in Bits(7)
  BY DEF BitByte, Bits
<1>2. QED
  BY <1>1, HighDiffIs DEF ByteBefore

\* Bytes are ordered strictly and totally.
LEMMA ByteOrder ==
  ASSUME NEW a \in BitByte, NEW b \in BitByte, NEW c \in BitByte
  PROVE  /\ ~ByteBefore(a, a)
         /\ ByteBefore(a, b) /\ ByteBefore(b, c) => ByteBefore(a, c)
         /\ a # b => ByteBefore(a, b) \/ ByteBefore(b, a)
<1>1. a # b => HighDiff(a, b, 7) \/ HighDiff(b, a, 7)
  BY HighDiffTotal DEF BitByte, Bits
<1>2. ~HighDiff(a, a, 7) /\ (HighDiff(a, b, 7) /\ HighDiff(b, c, 7) => HighDiff(a, c, 7))
  BY HighDiffOrder
<1>3. QED
  BY <1>1, <1>2, ByteBeforeIs

-----------------------------------------------------------------------------

(* The order of byte strings.                                               *)

\* At some place both have a byte and these differ.
Before(s, t) ==
  \E i \in 1..Len(s) : /\ i <= Len(t) /\ ByteBefore(s[i], t[i])
                       /\ \A j \in 1..i - 1 : s[j] = t[j]

\* At some place t has a byte and s has a lesser one or none.
Ahead(s, t) ==
  \E i \in 1..Len(t) : /\ \A j \in 1..i - 1 : j <= Len(s) /\ s[j] = t[j]
                       /\ i <= Len(s) => ByteBefore(s[i], t[i])

\* A difference makes the order, whatever follows.
LEMMA BeforeIs ==
  ASSUME NEW s \in Seq(BitByte), NEW t \in Seq(BitByte)
  PROVE  KeyBefore(s, t) <=> (IsStrictPrefix(s, t) \/ Before(s, t))
<1>1. DOMAIN s = 1..Len(s) /\ DOMAIN t = 1..Len(t) /\ Len(s) \in Nat /\ Len(t) \in Nat
  BY LenProperties
<1>2. QED
  BY <1>1 DEF KeyBefore, Before

\* A prefix has the same elements.
LEMMA PrefixElements ==
  ASSUME NEW S, NEW s \in Seq(S), NEW t \in Seq(S)
  PROVE  IsPrefix(s, t) <=> Len(s) <= Len(t) /\ \A j \in 1..Len(s) : s[j] = t[j]
<1> DEFINE n == Len(s)
<1>1. n \in Nat /\ Len(t) \in Nat
  BY LenProperties
<1>2. SubSeq(s, 1, n) = s
  BY WholeFront
<1> HIDE DEF n
<1>3. ASSUME n <= Len(t)
      PROVE  /\ SubSeq(t, 1, n) \in Seq(S) /\ Len(SubSeq(t, 1, n)) = n
             /\ \A j \in 1..n : SubSeq(t, 1, n)[j] = t[j]
  <2>1. n \in 0..Len(t)
    BY <1>1, <1>3
  <2>2. QED
    BY <2>1, CutElements
<1>4. ASSUME IsPrefix(s, t) PROVE n <= Len(t) /\ \A j \in 1..n : s[j] = t[j]
  <2>1. n <= Len(t) /\ s = SubSeq(t, 1, n)
    BY <1>2, <1>4 DEF IsPrefix, n
  <2>2. QED
    BY <1>3, <2>1
<1>5. ASSUME n <= Len(t), \A j \in 1..n : s[j] = t[j] PROVE IsPrefix(s, t)
  <2>1. SubSeq(t, 1, n) = s
    BY <1>3, <1>5, SeqEqual DEF n
  <2>2. QED
    BY <1>2, <1>5, <2>1 DEF IsPrefix, n
<1>6. QED
  BY <1>4, <1>5 DEF n

\* Both cases in one.
LEMMA AheadIs ==
  ASSUME NEW s \in Seq(BitByte), NEW t \in Seq(BitByte)
  PROVE  KeyBefore(s, t) <=> Ahead(s, t)
<1> DEFINE m == Len(s)
           n == Len(t)
<1>1. m \in Nat /\ n \in Nat
  BY LenProperties
<1>2. ASSUME IsStrictPrefix(s, t) PROVE Ahead(s, t)
  <2>1. m <= n /\ \A j \in 1..m : s[j] = t[j]
    BY <1>2, PrefixElements DEF IsStrictPrefix
  <2>2. m # n
    BY <1>2, <2>1, SeqEqual DEF IsStrictPrefix
  <2> HIDE DEF m, n
  <2>3. m + 1 \in 1..n /\ ~(m + 1 <= m) /\ (m + 1) - 1 = m
    BY <1>1, <2>1, <2>2
  <2>4. \A j \in 1..m : j <= m
    BY <1>1
  <2>5. QED
    BY <2>1, <2>3, <2>4 DEF Ahead, m, n
<1>3. ASSUME Before(s, t) PROVE Ahead(s, t)
  <2>1. PICK i \in 1..m : /\ i <= n /\ ByteBefore(s[i], t[i])
                          /\ \A j \in 1..i - 1 : s[j] = t[j]
    BY <1>3 DEF Before
  <2> HIDE DEF m, n
  <2>2. i \in 1..n /\ \A j \in 1..i - 1 : j <= m
    BY <1>1, <2>1
  <2>3. QED
    BY <2>1, <2>2 DEF Ahead, m, n
<1>4. ASSUME Ahead(s, t) PROVE IsStrictPrefix(s, t) \/ Before(s, t)
  <2>1. PICK i \in 1..n : /\ \A j \in 1..i - 1 : j <= m /\ s[j] = t[j]
                          /\ i <= m => ByteBefore(s[i], t[i])
    BY <1>4 DEF Ahead
  <2>2. CASE i <= m
    <3>1. i \in 1..m /\ i <= n
      BY <1>1, <2>2
    <3>2. QED
      BY <2>1, <2>2, <3>1 DEF Before
  <2>3. CASE ~(i <= m)
    <3> HIDE DEF m, n
    <3>1. i - 1 <= m
      <4>1. CASE i = 1
        BY <1>1, <4>1
      <4>2. CASE i # 1
        <5>1. i - 1 \in 1..i - 1
          BY <1>1, <4>2
        <5>2. QED
          BY <2>1, <5>1
      <4>3. QED
        BY <4>1, <4>2
    <3>2. i - 1 = m /\ m < n
      BY <1>1, <2>3, <3>1
    <3>3. \A j \in 1..m : s[j] = t[j]
      BY <2>1, <3>2
    <3>4. IsPrefix(s, t)
      <4>1. m <= n
        BY <1>1, <3>2
      <4>2. QED
        BY <3>3, <4>1, PrefixElements DEF m, n
    <3>5. s # t
      BY <1>1, <3>2 DEF m, n
    <3>6. QED
      BY <3>4, <3>5 DEF IsStrictPrefix
  <2>4. QED
    BY <2>2, <2>3
<1>5. QED
  BY <1>2, <1>3, <1>4, BeforeIs

\* The database's order is strict and total.
LEMMA KeyOrder ==
  ASSUME NEW s \in Seq(BitByte), NEW t \in Seq(BitByte), NEW u \in Seq(BitByte)
  PROVE  /\ ~KeyBefore(s, s)
         /\ KeyBefore(s, t) /\ KeyBefore(t, u) => KeyBefore(s, u)
         /\ s # t => KeyBefore(s, t) \/ KeyBefore(t, s)
<1> DEFINE l == Len(s)
           m == Len(t)
           n == Len(u)
<1>1. /\ l \in Nat /\ m \in Nat /\ n \in Nat
      /\ \A i \in 1..l : s[i] \in BitByte
      /\ \A i \in 1..m : t[i] \in BitByte
      /\ \A i \in 1..n : u[i] \in BitByte
  BY LenProperties, ElementOfSeq
<1>2. ~Ahead(s, s)
  BY <1>1, ByteOrder DEF Ahead
<1>3. ASSUME Ahead(s, t), Ahead(t, u) PROVE Ahead(s, u)
  <2>1. PICK i \in 1..m : /\ \A j \in 1..i - 1 : j <= l /\ s[j] = t[j]
                          /\ i <= l => ByteBefore(s[i], t[i])
    BY <1>3 DEF Ahead
  <2>2. PICK k \in 1..n : /\ \A j \in 1..k - 1 : j <= m /\ t[j] = u[j]
                          /\ k <= m => ByteBefore(t[k], u[k])
    BY <1>3 DEF Ahead
  <2> HIDE DEF l, m, n
  <2>3. CASE i < k
    <3>1. i \in 1..n /\ i \in 1..k - 1 /\ \A j \in 1..i - 1 : j \in 1..k - 1
      BY <1>1, <2>3
    <3>2. t[i] = u[i] /\ \A j \in 1..i - 1 : j <= l /\ s[j] = u[j]
      BY <2>1, <2>2, <3>1
    <3>3. i <= l => ByteBefore(s[i], u[i])
      BY <2>1, <3>2
    <3>4. QED
      BY <3>1, <3>2, <3>3 DEF Ahead, l, n
  <2>4. CASE k < i
    <3>1. k \in 1..m /\ k <= m /\ k \in 1..i - 1 /\ \A j \in 1..k - 1 : j \in 1..i - 1
      BY <1>1, <2>4
    <3>2. /\ s[k] = t[k] /\ k <= l /\ ByteBefore(t[k], u[k])
          /\ \A j \in 1..k - 1 : j <= l /\ s[j] = u[j]
      BY <2>1, <2>2, <3>1
    <3>3. ByteBefore(s[k], u[k])
      BY <3>2
    <3>4. QED
      BY <3>2, <3>3 DEF Ahead, l, n
  <2>5. CASE i = k
    <3>1. \A j \in 1..i - 1 : j <= l /\ s[j] = u[j]
      BY <2>1, <2>2, <2>5
    <3>2. ASSUME i <= l PROVE ByteBefore(s[i], u[i])
      <4>1. i \in 1..l /\ i \in 1..m /\ i \in 1..n /\ i <= m
        BY <1>1, <2>5, <3>2
      <4>2. ByteBefore(s[i], t[i]) /\ ByteBefore(t[i], u[i])
        BY <2>1, <2>2, <2>5, <3>2, <4>1
      <4>3. s[i] \in BitByte /\ t[i] \in BitByte /\ u[i] \in BitByte
        BY <1>1, <4>1
      <4>4. QED
        BY <4>2, <4>3, ByteOrder
    <3>3. i \in 1..n
      BY <2>5
    <3>4. QED
      BY <3>1, <3>2, <3>3 DEF Ahead, l, n
  <2>6. i \in Int /\ k \in Int
    BY <1>1
  <2>7. QED
    BY <2>3, <2>4, <2>5, <2>6
<1>4. ASSUME s # t, ~IsStrictPrefix(s, t), ~IsStrictPrefix(t, s)
      PROVE  Before(s, t) \/ Before(t, s)
  <2> DEFINE I == {i \in 1..l : i <= m /\ s[i] # t[i]}
             k == Min(I)
  <2>1. ~IsPrefix(s, t) /\ ~IsPrefix(t, s)
    BY <1>4 DEF IsStrictPrefix
  <2>2. /\ l <= m => \E j \in 1..l : s[j] # t[j]
        /\ m <= l => \E j \in 1..m : t[j] # s[j]
    BY <2>1, PrefixElements
  <2> HIDE DEF l, m
  <2>3. I # {}
    <3>1. CASE l <= m
      <4>1. PICK j \in 1..l : s[j] # t[j]
        BY <2>2, <3>1
      <4>2. j \in I
        BY <1>1, <3>1, <4>1
      <4>3. QED
        BY <4>2
    <3>2. CASE m <= l
      <4>1. PICK j \in 1..m : t[j] # s[j]
        BY <2>2, <3>2
      <4>2. j \in I
        BY <1>1, <3>2, <4>1
      <4>3. QED
        BY <4>2
    <3>3. QED
      BY <1>1, <3>1, <3>2
  <2>4. k \in I /\ \A y \in I : k <= y
    <3>1. I \in SUBSET Nat
      BY <1>1
    <3> HIDE DEF I
    <3>2. QED
      BY <2>3, <3>1, MinOf
  <2> HIDE DEF k
  <2>5. k \in 1..l /\ k \in 1..m /\ k <= l /\ k <= m /\ s[k] # t[k]
    BY <1>1, <2>4
  <2>6. \A j \in 1..k - 1 : s[j] = t[j]
    <3>1. \A j \in 1..k - 1 : j \in 1..l /\ j <= m /\ ~(k <= j)
      BY <1>1, <2>5
    <3>2. QED
      BY <2>4, <3>1
  <2>7. s[k] \in BitByte /\ t[k] \in BitByte
    BY <1>1, <2>5
  <2>8. ByteBefore(s[k], t[k]) \/ ByteBefore(t[k], s[k])
    BY <2>5, <2>7, ByteOrder
  <2>9. QED
    BY <2>5, <2>6, <2>8 DEF Before, l, m
<1>5. QED
  BY <1>2, <1>3, <1>4, AheadIs, BeforeIs

\* What is around two strings that differ does not change their order.
LEMMA BeforeWithin ==
  ASSUME NEW a \in Seq(BitByte), NEW b \in Seq(BitByte), NEW x \in Seq(BitByte),
         NEW y \in Seq(BitByte), NEW z \in Seq(BitByte), Before(a, b)
  PROVE  Before(x \o (a \o y), x \o (b \o z))
<1> DEFINE l == Len(x)
           m == Len(a)
           n == Len(b)
           s == x \o (a \o y)
           t == x \o (b \o z)
<1>1. l \in Nat /\ m \in Nat /\ n \in Nat /\ Len(y) \in Nat /\ Len(z) \in Nat
  BY LenProperties
<1>2. a \o y \in Seq(BitByte) /\ b \o z \in Seq(BitByte)
  BY ConcatProperties
<1>3. Joined(a, y, BitByte) /\ Joined(b, z, BitByte)
  BY Join
<1>4. Joined(x, a \o y, BitByte) /\ Joined(x, b \o z, BitByte)
  BY <1>2, Join
<1>5. PICK i \in 1..m : /\ i <= n /\ ByteBefore(a[i], b[i])
                        /\ \A j \in 1..i - 1 : a[j] = b[j]
  BY DEF Before
<1>6. /\ Len(s) = l + (m + Len(y)) /\ Len(t) = l + (n + Len(z))
      /\ \A j \in 1..l : s[j] = x[j] /\ t[j] = x[j]
      /\ \A j \in 1..m + Len(y) : s[l + j] = (a \o y)[j]
      /\ \A j \in 1..n + Len(z) : t[l + j] = (b \o z)[j]
      /\ \A j \in 1..m : (a \o y)[j] = a[j]
      /\ \A j \in 1..n : (b \o z)[j] = b[j]
  BY <1>3, <1>4 DEF Joined
<1> HIDE DEF l, m, n, s, t
<1>7. \A j \in 1..m : j \in 1..m + Len(y)
  BY <1>1
<1>8. \A j \in 1..n : j \in 1..n + Len(z)
  BY <1>1
<1>9. i \in 1..n /\ \A j \in 1..i - 1 : j \in 1..m /\ j \in 1..n
  BY <1>1, <1>5
<1>10. /\ l + i \in 1..Len(s) /\ l + i <= Len(t)
       /\ \A j \in 1..(l + i) - 1 : j \in 1..l \/ (j - l \in 1..i - 1 /\ j = l + (j - l))
  <2>1. i \in Nat /\ 1 <= i /\ i <= m /\ i <= n
    BY <1>1, <1>9
  <2>2. l + i \in 1..Len(s)
    BY <1>1, <1>6, <2>1
  <2>3. l + i <= Len(t)
    BY <1>1, <1>6, <2>1
  <2>4. \A j \in 1..(l + i) - 1 : j \in 1..l \/ (j - l \in 1..i - 1 /\ j = l + (j - l))
    BY <1>1, <2>1
  <2>5. QED
    BY <2>2, <2>3, <2>4
<1>11. s[l + i] = a[i] /\ t[l + i] = b[i]
  BY <1>6, <1>7, <1>8, <1>9
<1>12. ASSUME NEW j \in 1..(l + i) - 1 PROVE s[j] = t[j]
  <2>1. CASE j \in 1..l
    BY <1>6, <2>1
  <2>2. CASE j - l \in 1..i - 1 /\ j = l + (j - l)
    <3> DEFINE k == j - l
    <3>1. k \in 1..i - 1 /\ j = l + k
      BY <2>2
    <3> HIDE DEF k
    <3>2. s[l + k] = a[k] /\ t[l + k] = b[k] /\ a[k] = b[k]
      BY <1>5, <1>6, <1>7, <1>8, <1>9, <3>1
    <3>3. QED
      BY <3>1, <3>2
  <2>3. QED
    BY <1>10, <2>1, <2>2
<1>13. ByteBefore(s[l + i], t[l + i])
  BY <1>5, <1>11
<1>14. Before(s, t)
  BY <1>10, <1>12, <1>13 DEF Before
<1>15. QED
  BY <1>14 DEF s, t

\* The complement turns the order of bytes round.
LEMMA ComplementByteOrder ==
  ASSUME NEW a \in BitByte
  PROVE  /\ ComplementByte(a) \in BitByte /\ ComplementByte(ComplementByte(a)) = a
         /\ \A b \in BitByte : ByteBefore(a, b) => ByteBefore(ComplementByte(b), ComplementByte(a))
<1>1. \A c \in BitByte : ComplementByte(c) \in BitByte /\ \A k \in 0..7 : ComplementByte(c)[k] = 1 - c[k]
  BY DEF ComplementByte, BitByte, Bit
<1>2. \A c \in BitByte : \A k \in 0..7 : c[k] \in {0, 1}
  BY DEF BitByte, Bit
<1>3. ComplementByte(ComplementByte(a)) = a
  <2>1. \A k \in 0..7 : ComplementByte(ComplementByte(a))[k] = a[k]
    BY <1>1, <1>2
  <2>2. QED
    BY <1>1, <2>1 DEF BitByte
<1>4. ASSUME NEW b \in BitByte, HighDiff(a, b, 7)
      PROVE  HighDiff(ComplementByte(b), ComplementByte(a), 7)
  <2>1. PICK m \in 0..7 : a[m] = 0 /\ b[m] = 1 /\ \A k \in 0..7 : k > m => a[k] = b[k]
    BY <1>4 DEF HighDiff
  <2>2. /\ ComplementByte(b)[m] = 0 /\ ComplementByte(a)[m] = 1
        /\ \A k \in 0..7 : k > m => ComplementByte(b)[k] = ComplementByte(a)[k]
    BY <1>1, <2>1
  <2>3. QED
    BY <2>2 DEF HighDiff
<1>5. QED
  BY <1>1, <1>3, <1>4, ByteBeforeIs

\* And that of byte strings that differ.
LEMMA ComplementOrder ==
  ASSUME NEW s \in Seq(BitByte)
  PROVE  /\ ComplementBytes(s) \in Seq(BitByte)
         /\ ComplementBytes(ComplementBytes(s)) = s
         /\ \A t \in Seq(BitByte) : Before(s, t) => Before(ComplementBytes(t), ComplementBytes(s))
<1>1. \A c \in Seq(BitByte) : /\ DOMAIN c = 1..Len(c) /\ Len(c) \in Nat
                              /\ \A i \in 1..Len(c) : c[i] \in BitByte
  BY LenProperties, ElementOfSeq
<1>2. ASSUME NEW c \in Seq(BitByte)
      PROVE  /\ ComplementBytes(c) \in Seq(BitByte) /\ Len(ComplementBytes(c)) = Len(c)
             /\ \A i \in 1..Len(c) : ComplementBytes(c)[i] = ComplementByte(c[i])
  <2> DEFINE n == Len(c)
             d == [i \in 1..n |-> ComplementByte(c[i])]
  <2>1. ComplementBytes(c) = d
    BY <1>1 DEF ComplementBytes
  <2>2. \A i \in 1..n : ComplementByte(c[i]) \in BitByte
    BY <1>1, ComplementByteOrder
  <2>3. n \in Nat
    BY <1>1
  <2> HIDE DEF n
  <2>4. d \in [1..n -> BitByte] /\ \A i \in 1..n : d[i] = ComplementByte(c[i])
    BY <2>2
  <2> HIDE DEF d
  <2>5. d \in Seq(BitByte) /\ Len(d) = n
    BY <2>3, <2>4
  <2>6. QED
    BY <2>1, <2>4, <2>5 DEF n
<1>3. ComplementBytes(ComplementBytes(s)) = s
  <2> DEFINE c == ComplementBytes(s)
             d == ComplementBytes(c)
  <2>1. /\ c \in Seq(BitByte) /\ Len(c) = Len(s)
        /\ \A i \in 1..Len(s) : c[i] = ComplementByte(s[i])
    BY <1>2
  <2> HIDE DEF c
  <2>2. /\ d \in Seq(BitByte) /\ Len(d) = Len(s)
        /\ \A i \in 1..Len(s) : d[i] = ComplementByte(c[i])
    BY <1>2, <2>1
  <2> HIDE DEF d
  <2>3. \A i \in 1..Len(s) : d[i] = s[i]
    BY <1>1, <2>1, <2>2, ComplementByteOrder
  <2>4. d = s
    BY <2>2, <2>3, SeqEqual
  <2>5. QED
    BY <2>4 DEF c, d
<1>4. ASSUME NEW t \in Seq(BitByte), Before(s, t)
      PROVE  Before(ComplementBytes(t), ComplementBytes(s))
  <2> DEFINE c == ComplementBytes(s)
             d == ComplementBytes(t)
             m == Len(s)
             n == Len(t)
  <2>1. /\ Len(c) = m /\ Len(d) = n /\ m \in Nat /\ n \in Nat
        /\ \A i \in 1..m : c[i] = ComplementByte(s[i]) /\ s[i] \in BitByte
        /\ \A i \in 1..n : d[i] = ComplementByte(t[i]) /\ t[i] \in BitByte
    BY <1>1, <1>2
  <2>2. PICK i \in 1..m : /\ i <= n /\ ByteBefore(s[i], t[i])
                          /\ \A j \in 1..i - 1 : s[j] = t[j]
    BY <1>4 DEF Before
  <2> HIDE DEF c, d, m, n
  <2>3. i \in 1..n /\ i <= m /\ \A j \in 1..i - 1 : j \in 1..m /\ j \in 1..n
    BY <2>1, <2>2
  <2>4. ByteBefore(d[i], c[i])
    BY <2>1, <2>2, <2>3, ComplementByteOrder
  <2>5. \A j \in 1..i - 1 : d[j] = c[j]
    BY <2>1, <2>2, <2>3
  <2>6. Before(d, c)
    BY <2>1, <2>3, <2>4, <2>5 DEF Before
  <2>7. QED
    BY <2>6 DEF c, d
<1>5. QED
  BY <1>2, <1>3, <1>4

-----------------------------------------------------------------------------

(* The bytes of a word.                                                     *)

\* The word of a type is as long as it says.
LEMMA WordIs ==
  ASSUME NEW ty, ty.bytes \in Nat \ {0}
  PROVE  /\ Word(ty) = Bits(8 * ty.bytes - 1) /\ Width(ty) = 8 * ty.bytes
         /\ \A w \in Word(ty) : /\ DOMAIN w = 0..8 * ty.bytes - 1
                                /\ MsbOffs(w) = 8 * ty.bytes - 1
<1> DEFINE N == 8 * ty.bytes - 1
<1>1. Word(ty) = Bits(N) /\ Width(ty) = 8 * ty.bytes
  BY DEF Word, Width, Bits
<1>2. N \in Nat /\ N + 1 = 8 * ty.bytes
  OBVIOUS
<1> HIDE DEF N
<1>3. Cardinality(0..N) = N + 1
  BY <1>2, FS_Interval
<1>4. \A w \in Bits(N) : DOMAIN w = 0..N
  BY DEF Bits
<1>5. \A w \in Bits(N) : MsbOffs(w) = N
  BY <1>2, <1>3, <1>4 DEF MsbOffs
<1>6. QED
  BY <1>1, <1>4, <1>5 DEF N

\* The byte of the word that is written j-th, the first being the lowest.
Rank(target, p, n, j) == IF BigEndian(target, p) THEN (n - j) + 1 ELSE j

\* to_le_bytes of a word of any size.
LEMMA LeBytesAny ==
  ASSUME NEW ty, ty.bytes \in Nat \ {0}, NEW w \in Word(ty)
  PROVE  /\ LeBytes(ty, w) \in Seq(BitByte) /\ Len(LeBytes(ty, w)) = ty.bytes
         /\ \A j \in 1..ty.bytes : \A k \in 0..7 : LeBytes(ty, w)[j][k] = w[8 * (j - 1) + k]
<1> DEFINE n == ty.bytes
<1>1. n \in Nat \ {0} /\ \A i \in 0..8 * n - 1 : w[i] \in Bit
  BY WordIs DEF Bits
<1> HIDE DEF n
<1>2. ASSUME NEW j \in 1..n, NEW k \in 0..7
      PROVE  w[8 * (j - 1) + k] \in Bit
  <2>1. 8 * (j - 1) + k \in 0..8 * n - 1
    BY <1>1
  <2>2. QED
    BY <1>1, <2>1
<1>3. \A j \in 1..n : [k \in 0..7 |-> w[8 * (j - 1) + k]] \in BitByte
  BY <1>2 DEF BitByte
<1>4. LeBytes(ty, w) \in [1..n -> BitByte]
  BY <1>3 DEF LeBytes, n
<1>5. LeBytes(ty, w) \in Seq(BitByte) /\ Len(LeBytes(ty, w)) = n
  BY <1>1, <1>4
<1>6. \A j \in 1..n : \A k \in 0..7 : LeBytes(ty, w)[j][k] = w[8 * (j - 1) + k]
  BY DEF LeBytes, n
<1>7. QED
  BY <1>5, <1>6 DEF n

\* to_bytes!: the bytes are those of the word, in one order or the other.
LEMMA ToBytesIs ==
  ASSUME NEW target, NEW p, NEW ty, ty.bytes \in Nat \ {0}, NEW w \in Word(ty)
  PROVE  /\ ToBytes(target, p, ty, w) \in Seq(BitByte)
         /\ Len(ToBytes(target, p, ty, w)) = ty.bytes
         /\ \A j \in 1..ty.bytes : \A k \in 0..7 :
              ToBytes(target, p, ty, w)[j][k] = w[8 * (Rank(target, p, ty.bytes, j) - 1) + k]
<1> DEFINE n == ty.bytes
           s == LeBytes(ty, w)
<1>1. /\ s \in Seq(BitByte) /\ Len(s) = n
      /\ \A j \in 1..n : \A k \in 0..7 : s[j][k] = w[8 * (j - 1) + k]
  BY LeBytesAny
<1> HIDE DEF s, n
<1>2. CASE BigEndian(target, p)
  <2>1. /\ Reverse(s) \in Seq(BitByte) /\ Len(Reverse(s)) = n
        /\ \A j \in 1..n : Reverse(s)[j] = s[(n - j) + 1] /\ (n - j) + 1 \in 1..n
    BY <1>1, ReverseElements
  <2>2. \A j \in 1..n : \A k \in 0..7 : Reverse(s)[j][k] = w[8 * (((n - j) + 1) - 1) + k]
    BY <1>1, <2>1
  <2>3. QED
    BY <1>2, <2>1, <2>2 DEF ToBytes, Rank, s, n
<1>3. CASE ~BigEndian(target, p)
  BY <1>1, <1>3 DEF ToBytes, Rank, s, n
<1>4. QED
  BY <1>2, <1>3

\* from_bytes! of as many bytes as the type has is a word, and the two are inverse.
LEMMA FromBytesIs ==
  ASSUME NEW target, NEW p, NEW ty, ty.bytes \in Nat \ {0},
         NEW s \in Seq(BitByte), Len(s) = ty.bytes
  PROVE  /\ FromBytes(target, p, ty, s) \in Word(ty)
         /\ ToBytes(target, p, ty, FromBytes(target, p, ty, s)) = s
<1> DEFINE n == ty.bytes
           r == IF BigEndian(target, p) THEN Reverse(s) ELSE s
           w == FromLeBytes(ty, r)
<1>1. /\ r \in Seq(BitByte) /\ Len(r) = n
      /\ (IF BigEndian(target, p) THEN Reverse(r) ELSE r) = s
  BY ReverseElements
<1>2. n \in Nat \ {0} /\ Width(ty) = 8 * n /\ Word(ty) = [0..8 * n - 1 -> Bit]
  BY WordIs DEF Bits
<1>3. w = [i \in 0..8 * n - 1 |-> r[i \div 8 + 1][i % 8]]
  BY <1>2 DEF FromLeBytes
<1>4. FromBytes(target, p, ty, s) = w
  BY DEF FromBytes
<1> HIDE DEF n, r, w
<1>5. ASSUME NEW i \in 0..8 * n - 1
      PROVE  /\ i \div 8 + 1 \in 1..n /\ i % 8 \in 0..7
             /\ r[i \div 8 + 1][i % 8] \in Bit
  <2>1. i \div 8 + 1 \in 1..n /\ i % 8 \in 0..7
    BY <1>2
  <2>2. r[i \div 8 + 1] \in BitByte
    BY <1>1, <2>1, ElementOfSeq
  <2>3. QED
    BY <2>1, <2>2 DEF BitByte
<1>6. w \in Word(ty)
  BY <1>2, <1>3, <1>5
<1>7. /\ LeBytes(ty, w) \in Seq(BitByte) /\ Len(LeBytes(ty, w)) = n
      /\ \A j \in 1..n : \A k \in 0..7 : LeBytes(ty, w)[j][k] = w[8 * (j - 1) + k]
  BY <1>2, <1>6, LeBytesAny DEF n
<1>8. ASSUME NEW j \in 1..n PROVE LeBytes(ty, w)[j] = r[j]
  <2>1. LeBytes(ty, w)[j] \in BitByte /\ r[j] \in BitByte
    BY <1>1, <1>7, ElementOfSeq
  <2>2. ASSUME NEW k \in 0..7 PROVE LeBytes(ty, w)[j][k] = r[j][k]
    <3> DEFINE i == 8 * (j - 1) + k
    <3>1. i \in 0..8 * n - 1 /\ i \div 8 + 1 = j /\ i % 8 = k
      BY <1>2
    <3>2. LeBytes(ty, w)[j][k] = w[i]
      BY <1>7
    <3> HIDE DEF i
    <3>3. w[i] = r[i \div 8 + 1][i % 8]
      BY <1>3, <3>1
    <3>4. QED
      BY <3>1, <3>2, <3>3
  <2>3. QED
    BY <2>1, <2>2 DEF BitByte
<1>9. LeBytes(ty, w) = r
  BY <1>1, <1>7, <1>8, SeqEqual
<1>10. ToBytes(target, p, ty, w) = s
  BY <1>1, <1>9 DEF ToBytes
<1>11. QED
  BY <1>4, <1>6, <1>10

\* Different words have different bytes.
LEMMA ToBytesOnto ==
  ASSUME NEW target, NEW p, NEW ty, ty.bytes \in Nat \ {0}, NEW w \in Word(ty)
  PROVE  FromBytes(target, p, ty, ToBytes(target, p, ty, w)) = w
<1> DEFINE n == ty.bytes
           s == LeBytes(ty, w)
<1>1. /\ s \in Seq(BitByte) /\ Len(s) = n
      /\ \A j \in 1..n : \A k \in 0..7 : s[j][k] = w[8 * (j - 1) + k]
  BY LeBytesAny
<1>2. n \in Nat \ {0} /\ Width(ty) = 8 * n /\ w \in [0..8 * n - 1 -> Bit]
  BY WordIs DEF Bits
<1>3. FromBytes(target, p, ty, ToBytes(target, p, ty, w)) = FromLeBytes(ty, s)
  <2>1. Reverse(Reverse(s)) = s
    BY <1>1, ReverseElements
  <2>2. QED
    BY <2>1 DEF FromBytes, ToBytes
<1> HIDE DEF n, s
<1>4. ASSUME NEW i \in 0..8 * n - 1
      PROVE  s[i \div 8 + 1][i % 8] = w[i]
  <2> DEFINE j == i \div 8 + 1
             k == i % 8
  <2>1. j \in 1..n /\ k \in 0..7 /\ 8 * (j - 1) + k = i
    BY <1>2
  <2> HIDE DEF j, k
  <2>2. s[j][k] = w[8 * (j - 1) + k]
    BY <1>1, <2>1
  <2>3. s[j][k] = w[i]
    BY <2>1, <2>2
  <2>4. QED
    BY <2>3 DEF j, k
<1>5. FromLeBytes(ty, s) = [i \in 0..8 * n - 1 |-> w[i]]
  BY <1>2, <1>4 DEF FromLeBytes
<1>6. QED
  BY <1>2, <1>3, <1>5

-----------------------------------------------------------------------------

(* Integers and floats as words of the same rank.                           *)

\* The sign is the highest bit.
Sign(ty) == 8 * ty.bytes - 1

\* Every bit of a word is 0 or 1.
LEMMA WordBits ==
  ASSUME NEW ty, ty.bytes \in Nat \ {0}
  PROVE  /\ Sign(ty) \in Nat /\ Sign(ty) \in 0..Sign(ty)
         /\ Word(ty) = [0..Sign(ty) -> {0, 1}] /\ Word(ty) = Bits(Sign(ty))
         /\ \A w \in Word(ty) : DOMAIN w = 0..Sign(ty) /\ MsbOffs(w) = Sign(ty)
         /\ \A w \in Word(ty) : \A i \in 0..Sign(ty) : w[i] = 0 \/ w[i] = 1
<1>1. /\ Word(ty) = Bits(Sign(ty))
      /\ \A w \in Word(ty) : DOMAIN w = 0..Sign(ty) /\ MsbOffs(w) = Sign(ty)
  BY WordIs DEF Sign
<1>2. Bits(Sign(ty)) = [0..Sign(ty) -> {0, 1}]
  BY DEF Bits, Bit
<1>3. Sign(ty) \in Nat
  BY DEF Sign
<1>4. QED
  BY <1>1, <1>2, <1>3

\* !w
LEMMA NotIs ==
  ASSUME NEW ty, ty.bytes \in Nat \ {0}, NEW w \in Word(ty)
  PROVE  /\ Not(w) \in Word(ty) /\ Not(Not(w)) = w
         /\ \A i \in 0..Sign(ty) : Not(w)[i] = 1 - w[i]
<1> DEFINE N == Sign(ty)
<1>1. /\ w \in [0..N -> {0, 1}] /\ Word(ty) = [0..N -> {0, 1}] /\ N \in Nat
      /\ \A v \in Word(ty) : DOMAIN v = 0..N
      /\ \A v \in Word(ty) : \A i \in 0..N : v[i] = 0 \/ v[i] = 1
  BY WordBits
<1> HIDE DEF N
<1>2. ASSUME NEW v \in Word(ty)
      PROVE  Not(v) \in Word(ty) /\ \A i \in 0..N : Not(v)[i] = 1 - v[i]
  <2>1. Not(v) = [i \in 0..N |-> 1 - v[i]]
    BY <1>1 DEF Not
  <2>2. \A i \in 0..N : 1 - v[i] \in {0, 1}
    BY <1>1
  <2>3. QED
    BY <1>1, <2>1, <2>2
<1>3. \A i \in 0..N : Not(Not(w))[i] = w[i]
  <2>1. ASSUME NEW i \in 0..N PROVE Not(Not(w))[i] = w[i]
    <3>1. Not(w)[i] = 1 - w[i] /\ Not(Not(w))[i] = 1 - Not(w)[i] /\ (w[i] = 0 \/ w[i] = 1)
      BY <1>1, <1>2
    <3>2. QED
      BY <3>1
  <2>2. QED
    BY <2>1
<1>4. Not(Not(w)) \in [0..N -> {0, 1}]
  BY <1>1, <1>2
<1>5. Not(Not(w)) = w
  <2> DEFINE x == Not(Not(w))
  <2>1. x \in [0..N -> {0, 1}] /\ \A i \in 0..N : x[i] = w[i]
    BY <1>3, <1>4
  <2> HIDE DEF x
  <2>2. w \in [0..N -> {0, 1}] /\ N \in Nat
    BY <1>1
  <2>3. x = w
    BY <2>1, <2>2
  <2>4. QED
    BY <2>3 DEF x
<1>6. QED
  BY <1>2, <1>5 DEF N

\* w ^ min_value() turns the sign round.
LEMMA BiasedIs ==
  ASSUME NEW ty, ty.bytes \in Nat \ {0}, NEW w \in Word(ty)
  PROVE  /\ Biased(w) \in Word(ty) /\ Biased(Biased(w)) = w
         /\ \A i \in 0..Sign(ty) : Biased(w)[i] = IF i = Sign(ty) THEN 1 - w[i] ELSE w[i]
<1> DEFINE N == Sign(ty)
<1>1. /\ w \in [0..N -> {0, 1}] /\ Word(ty) = [0..N -> {0, 1}] /\ N \in Nat
      /\ \A v \in Word(ty) : DOMAIN v = 0..N /\ MsbOffs(v) = N
      /\ \A v \in Word(ty) : \A i \in 0..N : v[i] = 0 \/ v[i] = 1
  BY WordBits
<1> HIDE DEF N
<1>2. ASSUME NEW v \in Word(ty)
      PROVE  /\ Biased(v) \in Word(ty)
             /\ \A i \in 0..N : Biased(v)[i] = IF i = N THEN 1 - v[i] ELSE v[i]
  <2>1. MinValue(v) = [i \in 0..N |-> IF i = N THEN 1 ELSE 0]
    BY <1>1 DEF MinValue
  <2>2. Biased(v) = [i \in 0..N |-> (v[i] + MinValue(v)[i]) % 2]
    BY <1>1 DEF Biased, Xor
  <2>3. ASSUME NEW i \in 0..N
        PROVE  Biased(v)[i] = IF i = N THEN 1 - v[i] ELSE v[i]
    <3>1. Biased(v)[i] = (v[i] + (IF i = N THEN 1 ELSE 0)) % 2
      BY <2>1, <2>2
    <3>2. v[i] = 0 \/ v[i] = 1
      BY <1>1
    <3>3. QED
      BY <3>1, <3>2
  <2>4. \A i \in 0..N : Biased(v)[i] \in {0, 1}
    <3>1. ASSUME NEW i \in 0..N PROVE Biased(v)[i] \in {0, 1}
      <4>1. v[i] = 0 \/ v[i] = 1
        BY <1>1
      <4>2. QED
        BY <2>3, <4>1
    <3>2. QED
      BY <3>1
  <2>5. Biased(v) \in [0..N -> {0, 1}]
    BY <2>2, <2>4
  <2>6. QED
    BY <1>1, <2>3, <2>5
<1>3. \A i \in 0..N : Biased(Biased(w))[i] = w[i]
  <2>1. ASSUME NEW i \in 0..N PROVE Biased(Biased(w))[i] = w[i]
    <3>1. /\ Biased(w)[i] = IF i = N THEN 1 - w[i] ELSE w[i]
          /\ Biased(Biased(w))[i] = IF i = N THEN 1 - Biased(w)[i] ELSE Biased(w)[i]
          /\ w[i] = 0 \/ w[i] = 1
      BY <1>1, <1>2
    <3>2. QED
      BY <3>1
  <2>2. QED
    BY <2>1
<1>4. Biased(Biased(w)) \in [0..N -> {0, 1}]
  BY <1>1, <1>2
<1>5. Biased(Biased(w)) = w
  <2> DEFINE x == Biased(Biased(w))
  <2>1. x \in [0..N -> {0, 1}] /\ \A i \in 0..N : x[i] = w[i]
    BY <1>3, <1>4
  <2> HIDE DEF x
  <2>2. w \in [0..N -> {0, 1}] /\ N \in Nat
    BY <1>1
  <2>3. x = w
    BY <2>1, <2>2
  <2>4. QED
    BY <2>3 DEF x
<1>6. QED
  BY <1>2, <1>5 DEF N

\* A negative float is complemented, another gets the sign.
LEMMA FloatRankIs ==
  ASSUME NEW p, p.endianness = "Big", NEW ty, ty.bytes \in Nat \ {0}, NEW w \in Word(ty)
  PROVE  /\ FloatRank(p, w) \in Word(ty)
         /\ \A i \in 0..Sign(ty) :
              FloatRank(p, w)[i] = IF w[Sign(ty)] = 1 \/ i = Sign(ty) THEN 1 - w[i] ELSE w[i]
<1> DEFINE N == Sign(ty)
<1>1. /\ w \in [0..N -> {0, 1}] /\ Word(ty) = [0..N -> {0, 1}] /\ N \in 0..N
      /\ DOMAIN w = 0..N /\ MsbOffs(w) = N
      /\ \A i \in 0..N : w[i] = 0 \/ w[i] = 1
  BY WordBits
<1> HIDE DEF N
<1>2. /\ MinValue(w) = [i \in 0..N |-> IF i = N THEN 1 ELSE 0]
      /\ Spread(w) = [i \in 0..N |-> w[N]]
  BY <1>1 DEF MinValue, Spread
<1>3. Or(Spread(w), MinValue(w)) =
        [i \in 0..N |-> IF Spread(w)[i] + MinValue(w)[i] > 0 THEN 1 ELSE 0]
  BY <1>2 DEF Or
<1>4. FloatRank(p, w) = [i \in 0..N |-> (w[i] + Or(Spread(w), MinValue(w))[i]) % 2]
  BY <1>1 DEF FloatRank, Xor
<1>5. ASSUME NEW i \in 0..N
      PROVE  /\ FloatRank(p, w)[i] = IF w[N] = 1 \/ i = N THEN 1 - w[i] ELSE w[i]
             /\ FloatRank(p, w)[i] \in {0, 1}
  <2>1. FloatRank(p, w)[i] =
          (w[i] + (IF w[N] + (IF i = N THEN 1 ELSE 0) > 0 THEN 1 ELSE 0)) % 2
    BY <1>2, <1>3, <1>4
  <2>2. (w[i] = 0 \/ w[i] = 1) /\ (w[N] = 0 \/ w[N] = 1)
    BY <1>1
  <2>3. QED
    BY <2>1, <2>2
<1>6. FloatRank(p, w) \in [0..N -> {0, 1}]
  BY <1>4, <1>5
<1>7. QED
  BY <1>1, <1>5, <1>6 DEF N

\* The sign of the rank is the opposite of the sign of the float.
LEMMA FloatOfRankIs ==
  ASSUME NEW p, p.endianness = "Big", NEW ty, ty.bytes \in Nat \ {0}, NEW w \in Word(ty)
  PROVE  /\ FloatOfRank(p, w) \in Word(ty)
         /\ \A i \in 0..Sign(ty) :
              FloatOfRank(p, w)[i] = IF w[Sign(ty)] = 0 \/ i = Sign(ty) THEN 1 - w[i] ELSE w[i]
<1> DEFINE N == Sign(ty)
           v == Biased(w)
<1>1. /\ w \in [0..N -> {0, 1}] /\ Word(ty) = [0..N -> {0, 1}] /\ N \in 0..N
      /\ DOMAIN w = 0..N /\ MsbOffs(w) = N
      /\ \A i \in 0..N : w[i] = 0 \/ w[i] = 1
  BY WordBits
<1>2. v \in Word(ty) /\ \A i \in 0..N : v[i] = IF i = N THEN 1 - w[i] ELSE w[i]
  BY BiasedIs
<1>3. DOMAIN v = 0..N /\ MsbOffs(v) = N
  BY <1>2, WordBits
<1>4. v = Xor(w, MinValue(w))
  BY DEF Biased
<1> HIDE DEF N, v
<1>5. /\ MinValue(w) = [i \in 0..N |-> IF i = N THEN 1 ELSE 0]
      /\ Spread(v) = [i \in 0..N |-> v[N]]
  BY <1>1, <1>3 DEF MinValue, Spread
<1>6. Or(Spread(v), MinValue(w)) =
        [i \in 0..N |-> IF Spread(v)[i] + MinValue(w)[i] > 0 THEN 1 ELSE 0]
  BY <1>5 DEF Or
<1>7. FloatOfRank(p, w) = Xor(w, Or(Spread(v), MinValue(w)))
  BY <1>4 DEF FloatOfRank
<1>8. Xor(w, Or(Spread(v), MinValue(w))) =
        [i \in 0..N |-> (w[i] + Or(Spread(v), MinValue(w))[i]) % 2]
  BY <1>1 DEF Xor
<1>9. ASSUME NEW i \in 0..N
      PROVE  /\ FloatOfRank(p, w)[i] = IF w[N] = 0 \/ i = N THEN 1 - w[i] ELSE w[i]
             /\ FloatOfRank(p, w)[i] \in {0, 1}
  <2>1. FloatOfRank(p, w)[i] =
          (w[i] + (IF v[N] + (IF i = N THEN 1 ELSE 0) > 0 THEN 1 ELSE 0)) % 2
    BY <1>5, <1>6, <1>7, <1>8
  <2>2. (w[i] = 0 \/ w[i] = 1) /\ (w[N] = 0 \/ w[N] = 1) /\ v[N] = 1 - w[N]
    BY <1>1, <1>2
  <2>3. QED
    BY <2>1, <2>2
<1>10. FloatOfRank(p, w) \in [0..N -> {0, 1}]
  BY <1>7, <1>8, <1>9
<1>11. QED
  BY <1>1, <1>9, <1>10 DEF N

\* Every float comes back from its rank, and every word is a rank.
LEMMA FloatRankInverse ==
  ASSUME NEW p, NEW ty, ty.bytes \in Nat \ {0}, NEW w \in Word(ty)
  PROVE  /\ FloatRank(p, w) \in Word(ty) /\ FloatOfRank(p, w) \in Word(ty)
         /\ FloatOfRank(p, FloatRank(p, w)) = w /\ FloatRank(p, FloatOfRank(p, w)) = w
<1> DEFINE N == Sign(ty)
           u == FloatRank(p, w)
           v == FloatOfRank(p, w)
<1>1. CASE p.endianness # "Big"
  BY <1>1 DEF FloatRank, FloatOfRank
<1>2. CASE p.endianness = "Big"
  <2>1. /\ w \in [0..N -> {0, 1}] /\ Word(ty) = [0..N -> {0, 1}] /\ N \in 0..N
        /\ \A i \in 0..N : w[i] = 0 \/ w[i] = 1
    BY WordBits
  <2>2. /\ u \in Word(ty)
        /\ \A i \in 0..N : u[i] = IF w[N] = 1 \/ i = N THEN 1 - w[i] ELSE w[i]
    BY <1>2, FloatRankIs
  <2>3. /\ v \in Word(ty)
        /\ \A i \in 0..N : v[i] = IF w[N] = 0 \/ i = N THEN 1 - w[i] ELSE w[i]
    BY <1>2, FloatOfRankIs
  <2> HIDE DEF u, v
  <2>4. /\ FloatOfRank(p, u) \in Word(ty)
        /\ \A i \in 0..N : FloatOfRank(p, u)[i] = IF u[N] = 0 \/ i = N THEN 1 - u[i] ELSE u[i]
    BY <1>2, <2>2, FloatOfRankIs
  <2>5. /\ FloatRank(p, v) \in Word(ty)
        /\ \A i \in 0..N : FloatRank(p, v)[i] = IF v[N] = 1 \/ i = N THEN 1 - v[i] ELSE v[i]
    BY <1>2, <2>3, FloatRankIs
  <2> HIDE DEF N
  <2>6. ASSUME NEW i \in 0..N PROVE FloatOfRank(p, u)[i] = w[i] /\ FloatRank(p, v)[i] = w[i]
    <3>1. (w[i] = 0 \/ w[i] = 1) /\ (w[N] = 0 \/ w[N] = 1)
      BY <2>1
    <3>2. /\ u[i] = IF w[N] = 1 \/ i = N THEN 1 - w[i] ELSE w[i]
          /\ u[N] = 1 - w[N]
          /\ FloatOfRank(p, u)[i] = IF u[N] = 0 \/ i = N THEN 1 - u[i] ELSE u[i]
      BY <2>1, <2>2, <2>4
    <3>3. /\ v[i] = IF w[N] = 0 \/ i = N THEN 1 - w[i] ELSE w[i]
          /\ v[N] = 1 - w[N]
          /\ FloatRank(p, v)[i] = IF v[N] = 1 \/ i = N THEN 1 - v[i] ELSE v[i]
      BY <2>1, <2>3, <2>5
    <3>4. FloatOfRank(p, u)[i] = w[i]
      BY <3>1, <3>2
    <3>5. FloatRank(p, v)[i] = w[i]
      BY <3>1, <3>3
    <3>6. QED
      BY <3>4, <3>5
  <2>7. FloatOfRank(p, u) = w /\ FloatRank(p, v) = w
    BY <2>1, <2>4, <2>5, <2>6
  <2>8. QED
    BY <2>2, <2>3, <2>7 DEF u, v
<1>3. QED
  BY <1>1, <1>2

\* What is written of a word, before the order and the endianness.
RankOf(p, ty, w) ==
  CASE ty.kind = "int"   -> Biased(w)
    [] ty.kind = "float" -> FloatRank(p, w)
    [] ty.kind \in {"uint", "bool", "char"} -> w

\* The rank of a word is a word.
LEMMA RankType ==
  ASSUME NEW p, NEW ty, IsPrimitive(ty), NEW w \in Word(ty)
  PROVE  RankOf(p, ty, w) \in Word(ty) /\ Ordered(p, RankOf(p, ty, w)) \in Word(ty)
<1>1. ty.bytes \in Nat \ {0} /\ ty.kind \in {"uint", "int", "float", "char", "bool"}
  BY DEF IsPrimitive
<1>2. Biased(w) \in Word(ty) /\ FloatRank(p, w) \in Word(ty)
  BY <1>1, BiasedIs, FloatRankInverse
<1>3. RankOf(p, ty, w) \in Word(ty)
  BY <1>1, <1>2 DEF RankOf
<1>4. Not(RankOf(p, ty, w)) \in Word(ty)
  BY <1>1, <1>3, NotIs
<1>5. QED
  BY <1>3, <1>4 DEF Ordered

\* The order of words by Max is that by their highest different bit.
LEMMA WordLessIs ==
  ASSUME NEW ty, ty.bytes \in Nat \ {0}, NEW v \in Word(ty), NEW w \in Word(ty)
  PROVE  /\ WordLess(v, w) <=> HighDiff(v, w, Sign(ty))
         /\ Negative(w) <=> w[Sign(ty)] = 1
<1>1. /\ Sign(ty) \in Nat /\ v \in Bits(Sign(ty)) /\ w \in Bits(Sign(ty))
      /\ DOMAIN v = 0..Sign(ty) /\ MsbOffs(w) = Sign(ty)
  BY WordBits
<1>2. WordLess(v, w) <=> HighDiff(v, w, Sign(ty))
  BY <1>1, HighDiffIs DEF WordLess
<1>3. Negative(w) <=> w[Sign(ty)] = 1
  BY <1>1 DEF Negative, MsbOffs
<1>4. QED
  BY <1>2, <1>3

\* Ranks compare as unsigned words like the integers they stand for.
LEMMA IntOrder ==
  ASSUME NEW ty, ty.bytes \in Nat \ {0}, NEW v \in Word(ty), NEW w \in Word(ty),
         \/ v[Sign(ty)] = 1 /\ w[Sign(ty)] = 0
         \/ v[Sign(ty)] = w[Sign(ty)] /\ HighDiff(v, w, Sign(ty))
  PROVE  HighDiff(Biased(v), Biased(w), Sign(ty))
<1> DEFINE N == Sign(ty)
           a == Biased(v)
           b == Biased(w)
<1>1. N \in 0..N /\ N \in Nat
  BY WordBits
<1>2. /\ \A i \in 0..N : a[i] = IF i = N THEN 1 - v[i] ELSE v[i]
      /\ \A i \in 0..N : b[i] = IF i = N THEN 1 - w[i] ELSE w[i]
  BY BiasedIs
<1>3. \/ v[N] = 1 /\ w[N] = 0
      \/ v[N] = w[N] /\ HighDiff(v, w, N)
  OBVIOUS
<1> HIDE DEF N, a, b
<1>4. CASE v[N] = 1 /\ w[N] = 0
  <2>1. a[N] = 0 /\ b[N] = 1 /\ \A k \in 0..N : k > N => a[k] = b[k]
    BY <1>1, <1>2, <1>4
  <2>2. QED
    BY <1>1, <2>1 DEF HighDiff, N, a, b
<1>5. CASE v[N] = w[N] /\ HighDiff(v, w, N)
  <2>1. PICK m \in 0..N : v[m] = 0 /\ w[m] = 1 /\ \A k \in 0..N : k > m => v[k] = w[k]
    BY <1>5 DEF HighDiff
  <2>2. m # N
    BY <1>5, <2>1
  <2>3. a[m] = 0 /\ b[m] = 1
    BY <1>2, <2>1, <2>2
  <2>4. \A k \in 0..N : k > m => a[k] = b[k]
    BY <1>2, <1>5, <2>1
  <2>5. QED
    BY <2>3, <2>4 DEF HighDiff, N, a, b
<1>6. QED
  BY <1>3, <1>4, <1>5

\* And like the floats.
LEMMA FloatOrder ==
  ASSUME NEW p, p.endianness = "Big",
         NEW ty, ty.bytes \in Nat \ {0}, NEW v \in Word(ty), NEW w \in Word(ty),
         \/ v[Sign(ty)] = 1 /\ w[Sign(ty)] = 0
         \/ v[Sign(ty)] = 0 /\ w[Sign(ty)] = 0 /\ HighDiff(v, w, Sign(ty))
         \/ v[Sign(ty)] = 1 /\ w[Sign(ty)] = 1 /\ HighDiff(w, v, Sign(ty))
  PROVE  HighDiff(FloatRank(p, v), FloatRank(p, w), Sign(ty))
<1> DEFINE N == Sign(ty)
           a == FloatRank(p, v)
           b == FloatRank(p, w)
<1>1. N \in 0..N /\ N \in Nat
  BY WordBits
<1>2. /\ \A i \in 0..N : a[i] = IF v[N] = 1 \/ i = N THEN 1 - v[i] ELSE v[i]
      /\ \A i \in 0..N : b[i] = IF w[N] = 1 \/ i = N THEN 1 - w[i] ELSE w[i]
  BY FloatRankIs
<1>3. \/ v[N] = 1 /\ w[N] = 0
      \/ v[N] = 0 /\ w[N] = 0 /\ HighDiff(v, w, N)
      \/ v[N] = 1 /\ w[N] = 1 /\ HighDiff(w, v, N)
  OBVIOUS
<1> HIDE DEF N, a, b
<1>4. CASE v[N] = 1 /\ w[N] = 0
  <2>1. a[N] = 0 /\ b[N] = 1 /\ \A k \in 0..N : k > N => a[k] = b[k]
    BY <1>1, <1>2, <1>4
  <2>2. QED
    BY <1>1, <2>1 DEF HighDiff, N, a, b
<1>5. CASE v[N] = 0 /\ w[N] = 0 /\ HighDiff(v, w, N)
  <2>1. PICK m \in 0..N : v[m] = 0 /\ w[m] = 1 /\ \A k \in 0..N : k > m => v[k] = w[k]
    BY <1>5 DEF HighDiff
  <2>2. m # N
    BY <1>5, <2>1
  <2>3. a[m] = 0 /\ b[m] = 1
    BY <1>2, <1>5, <2>1, <2>2
  <2>4. \A k \in 0..N : k > m => a[k] = b[k]
    BY <1>2, <1>5, <2>1
  <2>5. QED
    BY <2>3, <2>4 DEF HighDiff, N, a, b
<1>6. CASE v[N] = 1 /\ w[N] = 1 /\ HighDiff(w, v, N)
  <2>1. PICK m \in 0..N : w[m] = 0 /\ v[m] = 1 /\ \A k \in 0..N : k > m => w[k] = v[k]
    BY <1>6 DEF HighDiff
  <2>2. a[m] = 0 /\ b[m] = 1
    BY <1>2, <1>6, <2>1
  <2>3. \A k \in 0..N : k > m => a[k] = b[k]
    BY <1>2, <1>6, <2>1
  <2>4. QED
    BY <2>2, <2>3 DEF HighDiff, N, a, b
<1>7. QED
  BY <1>3, <1>4, <1>5, <1>6

\* The order of numbers is the order of their ranks.
LEMMA RankOrder ==
  ASSUME NEW p, p.endianness = "Big", NEW ty, IsPrimitive(ty),
         NEW v \in Word(ty), NEW w \in Word(ty), NumberLess(ty, v, w)
  PROVE  HighDiff(RankOf(p, ty, v), RankOf(p, ty, w), Sign(ty))
<1> DEFINE N == Sign(ty)
<1>1. ty.bytes \in Nat \ {0} /\ ty.kind \in {"uint", "int", "float", "char", "bool"}
  BY DEF IsPrimitive
<1>2. /\ WordLess(v, w) <=> HighDiff(v, w, N)
      /\ WordLess(w, v) <=> HighDiff(w, v, N)
      /\ (Negative(v) <=> v[N] = 1) /\ (Negative(w) <=> w[N] = 1)
  BY <1>1, WordLessIs
<1>3. (v[N] = 0 \/ v[N] = 1) /\ (w[N] = 0 \/ w[N] = 1)
  BY <1>1, WordBits
<1>4. CASE ty.kind = "int"
  <2>1. \/ Negative(v) /\ ~Negative(w)
        \/ (Negative(v) <=> Negative(w)) /\ WordLess(v, w)
    BY <1>4 DEF NumberLess
  <2>2. \/ v[N] = 1 /\ w[N] = 0
        \/ v[N] = w[N] /\ HighDiff(v, w, N)
    BY <1>2, <1>3, <2>1
  <2>3. HighDiff(Biased(v), Biased(w), N)
    BY <1>1, <2>2, IntOrder
  <2>4. QED
    BY <1>4, <2>3 DEF RankOf
<1>5. CASE ty.kind = "float"
  <2>1. \/ Negative(v) /\ ~Negative(w)
        \/ ~Negative(v) /\ ~Negative(w) /\ WordLess(v, w)
        \/ Negative(v) /\ Negative(w) /\ WordLess(w, v)
    BY <1>5 DEF NumberLess
  <2>2. \/ v[N] = 1 /\ w[N] = 0
        \/ v[N] = 0 /\ w[N] = 0 /\ HighDiff(v, w, N)
        \/ v[N] = 1 /\ w[N] = 1 /\ HighDiff(w, v, N)
    BY <1>2, <1>3, <2>1
  <2>3. HighDiff(FloatRank(p, v), FloatRank(p, w), N)
    BY <1>1, <2>2, FloatOrder
  <2>4. QED
    BY <1>5, <2>3 DEF RankOf
<1>6. CASE ty.kind \in {"uint", "bool", "char"}
  <2>1. WordLess(v, w)
    BY <1>6 DEF NumberLess
  <2>2. QED
    BY <1>2, <1>6, <2>1 DEF RankOf
<1>7. QED
  BY <1>1, <1>4, <1>5, <1>6

\* Big-endian bytes sort like the words.
LEMMA ToBytesOrder ==
  ASSUME NEW target, NEW p, p.endianness = "Big", NEW ty, ty.bytes \in Nat \ {0},
         NEW a \in Word(ty), NEW b \in Word(ty), HighDiff(a, b, Sign(ty))
  PROVE  Before(ToBytes(target, p, ty, a), ToBytes(target, p, ty, b))
<1> DEFINE n == ty.bytes
           s == ToBytes(target, p, ty, a)
           t == ToBytes(target, p, ty, b)
<1>1. \A j \in 1..n : Rank(target, p, n, j) = (n - j) + 1
  BY DEF Rank, BigEndian
<1>2. /\ s \in Seq(BitByte) /\ Len(s) = n
      /\ \A j \in 1..n : \A k \in 0..7 : s[j][k] = a[8 * (Rank(target, p, n, j) - 1) + k]
  BY ToBytesIs
<1>3. /\ t \in Seq(BitByte) /\ Len(t) = n
      /\ \A j \in 1..n : \A k \in 0..7 : t[j][k] = b[8 * (Rank(target, p, n, j) - 1) + k]
  BY ToBytesIs
<1>4. PICK m \in 0..8 * n - 1 :
        a[m] = 0 /\ b[m] = 1 /\ \A k \in 0..8 * n - 1 : k > m => a[k] = b[k]
  BY DEF HighDiff, Sign
<1> HIDE DEF n, s, t
<1>5. n \in Nat \ {0}
  BY DEF n
<1>6. ASSUME NEW j \in 1..n, NEW k \in 0..7
      PROVE  s[j][k] = a[8 * (n - j) + k] /\ t[j][k] = b[8 * (n - j) + k]
  <2>1. Rank(target, p, n, j) - 1 = n - j
    BY <1>1, <1>5
  <2>2. QED
    BY <1>2, <1>3, <2>1
<1> DEFINE i == n - m \div 8
           l == m % 8
<1>7. i \in 1..n /\ l \in 0..7 /\ 8 * (n - i) + l = m
  BY <1>5
<1> HIDE DEF i, l
<1>8. ByteBefore(s[i], t[i])
  <2>1. s[i] \in BitByte /\ t[i] \in BitByte
    BY <1>2, <1>3, <1>7, ElementOfSeq
  <2>2. s[i][l] = 0 /\ t[i][l] = 1
    BY <1>4, <1>6, <1>7
  <2>3. ASSUME NEW k \in 0..7, k > l PROVE s[i][k] = t[i][k]
    <3>1. 8 * (n - i) + k \in 0..8 * n - 1 /\ 8 * (n - i) + k > m
      BY <1>5, <1>7, <2>3
    <3>2. QED
      BY <1>4, <1>6, <1>7, <3>1
  <2>4. HighDiff(s[i], t[i], 7)
    BY <1>7, <2>2, <2>3 DEF HighDiff
  <2>5. QED
    BY <2>1, <2>4, ByteBeforeIs
<1>9. ASSUME NEW j \in 1..i - 1 PROVE s[j] = t[j]
  <2>1. j \in 1..n
    BY <1>5, <1>7
  <2>2. s[j] \in BitByte /\ t[j] \in BitByte
    BY <1>2, <1>3, <2>1, ElementOfSeq
  <2>3. ASSUME NEW k \in 0..7 PROVE s[j][k] = t[j][k]
    <3>1. 8 * (n - j) + k \in 0..8 * n - 1 /\ 8 * (n - j) + k > m
      BY <1>5, <1>7
    <3>2. QED
      BY <1>4, <1>6, <2>1, <3>1
  <2>4. QED
    BY <2>2, <2>3 DEF BitByte
<1>10. i <= n
  BY <1>5, <1>7
<1>11. Before(s, t)
  BY <1>2, <1>3, <1>7, <1>8, <1>9, <1>10 DEF Before
<1>12. QED
  BY <1>11 DEF s, t

\* The complement turns the order of words round.
LEMMA NotOrder ==
  ASSUME NEW ty, ty.bytes \in Nat \ {0}, NEW a \in Word(ty), NEW b \in Word(ty),
         HighDiff(a, b, Sign(ty))
  PROVE  HighDiff(Not(b), Not(a), Sign(ty))
<1> DEFINE N == Sign(ty)
<1>1. (\A i \in 0..N : Not(a)[i] = 1 - a[i]) /\ (\A i \in 0..N : Not(b)[i] = 1 - b[i])
  BY NotIs
<1>2. PICK m \in 0..N : a[m] = 0 /\ b[m] = 1 /\ \A k \in 0..N : k > m => a[k] = b[k]
  BY DEF HighDiff
<1> HIDE DEF N
<1>3. /\ Not(b)[m] = 0 /\ Not(a)[m] = 1
      /\ \A k \in 0..N : k > m => Not(b)[k] = Not(a)[k]
  BY <1>1, <1>2
<1>4. QED
  BY <1>3 DEF HighDiff, N

\* What SerializableValue::to_writer writes sorts like the values.
THEOREM EncodeOrder ==
  ASSUME NEW target, NEW p, p.endianness = "Big", NEW ty, IsPrimitive(ty),
         NEW v \in Word(ty), NEW w \in Word(ty), NumberLess(ty, v, w)
  PROVE  IF p.order = "Descending"
         THEN Before(Encode(target, p, ty, w), Encode(target, p, ty, v))
         ELSE Before(Encode(target, p, ty, v), Encode(target, p, ty, w))
<1> DEFINE a == RankOf(p, ty, v)
           b == RankOf(p, ty, w)
<1>1. /\ Encode(target, p, ty, v) = ToBytes(target, p, ty, Ordered(p, a))
      /\ Encode(target, p, ty, w) = ToBytes(target, p, ty, Ordered(p, b))
  BY DEF Encode, RankOf
<1>2. HighDiff(a, b, Sign(ty))
  BY RankOrder
<1>3. ty.bytes \in Nat \ {0} /\ a \in Word(ty) /\ b \in Word(ty)
  BY RankType DEF IsPrimitive
<1> HIDE DEF a, b
<1>4. Before(ToBytes(target, p, ty, a), ToBytes(target, p, ty, b))
  BY <1>2, <1>3, ToBytesOrder
<1>5. /\ HighDiff(Not(b), Not(a), Sign(ty))
      /\ Not(a) \in Word(ty) /\ Not(b) \in Word(ty)
  BY <1>2, <1>3, NotOrder, NotIs
<1>6. Before(ToBytes(target, p, ty, Not(b)), ToBytes(target, p, ty, Not(a)))
  BY <1>3, <1>5, ToBytesOrder
<1>7. QED
  BY <1>1, <1>4, <1>6 DEF Ordered

\* What is written of a primitive: as many bytes as its type has.
LEMMA EncodeIs ==
  ASSUME NEW target, NEW p, NEW ty, IsPrimitive(ty), NEW w \in Word(ty)
  PROVE  /\ Encode(target, p, ty, w) = ToBytes(target, p, ty, Ordered(p, RankOf(p, ty, w)))
         /\ Encode(target, p, ty, w) \in Seq(BitByte)
         /\ Len(Encode(target, p, ty, w)) = ty.bytes
<1> DEFINE a == Ordered(p, RankOf(p, ty, w))
<1>1. Encode(target, p, ty, w) = ToBytes(target, p, ty, a)
  BY DEF Encode, RankOf
<1>2. ty.bytes \in Nat \ {0} /\ a \in Word(ty)
  BY RankType DEF IsPrimitive
<1> HIDE DEF a
<1>3. ToBytes(target, p, ty, a) \in Seq(BitByte) /\ Len(ToBytes(target, p, ty, a)) = ty.bytes
  BY <1>2, ToBytesIs
<1>4. QED
  BY <1>1, <1>3 DEF a

\* The order of a word's complement is turned back.
LEMMA OrderedTwice ==
  ASSUME NEW p, NEW ty, ty.bytes \in Nat \ {0}, NEW w \in Word(ty)
  PROVE  Ordered(p, w) \in Word(ty) /\ Ordered(p, Ordered(p, w)) = w
<1>1. Not(w) \in Word(ty) /\ Not(Not(w)) = w
  BY NotIs
<1>2. QED
  BY <1>1 DEF Ordered

\* A bool is 0 or 1, and those are read as they are.
LEMMA BoolIs ==
  /\ \A w : BoolOf(w) \in {Zero, ByteOf(1)}
  /\ \A w \in {Zero, ByteOf(1)} : BoolOf(w) = w
  /\ Zero \in BitByte /\ ByteOf(1) \in BitByte
<1>1. \A w : BoolOf(w) \in {Zero, ByteOf(1)}
  BY DEF BoolOf
<1>2. /\ Zero \in BitByte /\ \A k \in 0..7 : Zero[k] = 0
      /\ DOMAIN Zero = 0..7
  BY DEF Zero, ByteOf, Weight, BitByte, Bit
<1>3. ByteOf(1) \in BitByte /\ DOMAIN ByteOf(1) = 0..7 /\ ByteOf(1)[0] = 1
  BY DEF ByteOf, Weight, BitByte, Bit
<1>4. BoolOf(Zero) = Zero
  BY <1>2 DEF BoolOf
<1>5. BoolOf(ByteOf(1)) = ByteOf(1)
  BY <1>3 DEF BoolOf
<1>6. QED
  BY <1>1, <1>2, <1>3, <1>4, <1>5

\* from_reader of what to_writer wrote is the value, bit by bit.
THEOREM DecodeEncode ==
  ASSUME NEW target, NEW p, NEW ty, IsPrimitive(ty), NEW w, HasType(ty, w)
  PROVE  DecodePrimitive(target, p, ty, Encode(target, p, ty, w)) = Decoded("Ok", w)
<1> DEFINE r == RankOf(p, ty, w)
           a == Ordered(p, r)
           s == Encode(target, p, ty, w)
<1>1. /\ ty.bytes \in Nat \ {0} /\ ty.kind \in {"uint", "int", "float", "char", "bool"}
      /\ w \in Word(ty)
  BY DEF IsPrimitive, HasType
<1>2. r \in Word(ty)
  BY <1>1, RankType
<1>3. s = ToBytes(target, p, ty, a)
  BY <1>1, EncodeIs
<1>4. RankOf(p, ty, w) = r
  OBVIOUS
<1> HIDE DEF r
<1>5. a \in Word(ty) /\ Ordered(p, a) = r
  BY <1>1, <1>2, OrderedTwice
<1> HIDE DEF a, s
<1>6. FromBytes(target, p, ty, s) = a
  BY <1>1, <1>3, <1>5, ToBytesOnto
<1> DEFINE u == Ordered(p, FromBytes(target, p, ty, s))
<1>7. u = r
  BY <1>5, <1>6
<1> HIDE DEF u
<1>8. CASE ty.kind = "uint"
  BY <1>4, <1>7, <1>8 DEF DecodePrimitive, RankOf, u, s
<1>9. CASE ty.kind = "int"
  <2>1. Biased(u) = w
    BY <1>1, <1>4, <1>7, <1>9, BiasedIs DEF RankOf
  <2>2. QED
    BY <1>9, <2>1 DEF DecodePrimitive, u, s
<1>10. CASE ty.kind = "bool"
  <2>1. BoolOf(u) = w
    BY <1>4, <1>7, <1>10, BoolIs DEF RankOf, HasType
  <2>2. QED
    BY <1>10, <2>1 DEF DecodePrimitive, u, s
<1>11. CASE ty.kind = "char"
  <2>1. CharOf(u) = Decoded("Ok", w)
    BY <1>4, <1>7, <1>11 DEF RankOf, HasType, CharOf
  <2>2. QED
    BY <1>11, <2>1 DEF DecodePrimitive, u, s
<1>12. CASE ty.kind = "float"
  <2>1. FloatOfRank(p, u) = w
    BY <1>1, <1>4, <1>7, <1>12, FloatRankInverse DEF RankOf
  <2>2. QED
    BY <1>12, <2>1 DEF DecodePrimitive, u, s
<1>13. QED
  BY <1>1, <1>8, <1>9, <1>10, <1>11, <1>12 DEF s

\* What from_reader returns is a value of the type, and but for a bool the bytes
\* are those to_writer writes for it.
LEMMA DecodeIs ==
  ASSUME NEW target, NEW p, NEW ty, IsPrimitive(ty), NEW s \in Seq(BitByte), Len(s) = ty.bytes,
         DecodePrimitive(target, p, ty, s).err = "Ok"
  PROVE  LET w == DecodePrimitive(target, p, ty, s).val
         IN HasType(ty, w) /\ (ty.kind # "bool" => Encode(target, p, ty, w) = s)
<1> DEFINE d == FromBytes(target, p, ty, s)
           u == Ordered(p, d)
           w == DecodePrimitive(target, p, ty, s).val
<1>1. /\ ty.bytes \in Nat \ {0} /\ ty.kind \in {"uint", "int", "float", "char", "bool"}
      /\ ty.kind = "bool" => ty.bytes = 1
  BY DEF IsPrimitive
<1>2. d \in Word(ty) /\ ToBytes(target, p, ty, d) = s
  BY <1>1, FromBytesIs
<1>3. u = Ordered(p, FromBytes(target, p, ty, s))
  OBVIOUS
<1> HIDE DEF d
<1>4. u \in Word(ty) /\ Ordered(p, u) = d
  BY <1>1, <1>2, OrderedTwice
<1> HIDE DEF u
<1>5. w = IF ty.kind = "int" THEN Biased(u) ELSE IF ty.kind = "float" THEN FloatOfRank(p, u)
          ELSE IF ty.kind = "bool" THEN BoolOf(u) ELSE u
  <2>1. CASE ty.kind = "char"
    <3>1. CharOf(u).err = "Ok" /\ w = CharOf(u).val
      BY <1>3, <2>1 DEF DecodePrimitive
    <3>2. IsChar(u) /\ CharOf(u).val = u
      BY <3>1 DEF CharOf, Decoded, Failed
    <3>3. QED
      BY <2>1, <3>1, <3>2
  <2>2. CASE ty.kind = "uint"
    BY <1>3, <2>2 DEF DecodePrimitive, Decoded
  <2>3. CASE ty.kind = "int"
    BY <1>3, <2>3 DEF DecodePrimitive, Decoded
  <2>4. CASE ty.kind = "float"
    BY <1>3, <2>4 DEF DecodePrimitive, Decoded
  <2>5. CASE ty.kind = "bool"
    BY <1>3, <2>5 DEF DecodePrimitive, Decoded
  <2>6. QED
    BY <1>1, <2>1, <2>2, <2>3, <2>4, <2>5
<1>6. ty.kind = "char" => IsChar(u)
  <2>1. ty.kind = "char" => CharOf(u).err = "Ok"
    BY <1>3 DEF DecodePrimitive
  <2>2. QED
    BY <2>1 DEF CharOf, Decoded, Failed
<1> HIDE DEF w
<1>7. /\ Biased(u) \in Word(ty) /\ Biased(Biased(u)) = u
      /\ FloatOfRank(p, u) \in Word(ty) /\ FloatRank(p, FloatOfRank(p, u)) = u
  BY <1>1, <1>4, BiasedIs, FloatRankInverse
<1>8. ty.kind = "bool" => BoolOf(u) \in Word(ty)
  <2>1. ty.kind = "bool" => Word(ty) = BitByte
    <3>1. ty.bytes = 1 => 8 * ty.bytes - 1 = 7
      OBVIOUS
    <3>2. QED
      BY <1>1, <3>1 DEF Word, Width, BitByte
  <2>2. QED
    BY <2>1, BoolIs
<1>9. w \in Word(ty)
  BY <1>4, <1>5, <1>7, <1>8
<1>10. HasType(ty, w)
  <2>1. ty.kind = "bool" => w \in {Zero, ByteOf(1)}
    BY <1>5, BoolIs
  <2>2. ty.kind = "char" => IsChar(w)
    BY <1>5, <1>6
  <2>3. QED
    BY <1>9, <2>1, <2>2 DEF HasType
<1>11. ASSUME ty.kind # "bool" PROVE Encode(target, p, ty, w) = s
  <2>1. RankOf(p, ty, w) = u
    BY <1>1, <1>5, <1>7, <1>11 DEF RankOf
  <2>2. Encode(target, p, ty, w) = ToBytes(target, p, ty, Ordered(p, RankOf(p, ty, w)))
    BY <1>9, EncodeIs
  <2>3. QED
    BY <1>2, <1>4, <2>1, <2>2
<1>12. QED
  BY <1>10, <1>11 DEF w

-----------------------------------------------------------------------------

(* Keys of primitives, one after the other.                                 *)

\* What a direct schema has to have for its keys to be read.
Fields(s) ==
  /\ Len(s.fields) \in Nat /\ DOMAIN s.fields = 1..Len(s.fields)
  /\ \A i \in 1..Len(s.fields) : IsPrimitive(s.fields[i].ty)

\* The fields lie one behind the other.
LEMMA OffsetIs ==
  ASSUME NEW s, Fields(s)
  PROVE  /\ Offset(s, 1) = 0
         /\ \A i \in 1..Len(s.fields) + 1 : Offset(s, i) \in Nat
         /\ \A i \in 1..Len(s.fields) : Offset(s, i + 1) = Offset(s, i) + s.fields[i].ty.bytes
<1> DEFINE n == Len(s.fields)
           Eqn(h) == h = [k \in 0..n |-> IF k = 0 THEN 0 ELSE h[k - 1] + s.fields[k].ty.bytes]
           g == CHOOSE h : Eqn(h)
           step == [k \in 1..n |-> [v \in Nat |-> v + s.fields[k].ty.bytes]]
<1>1. n \in Nat /\ \A k \in 1..n : s.fields[k].ty.bytes \in Nat
  BY DEF Fields, IsPrimitive
<1>2. Steps(Nat, n, step)
  BY <1>1 DEF Steps
<1>3. PICK f \in [0..n -> Nat] : f[0] = 0 /\ \A k \in 1..n : f[k] = step[k][f[k - 1]]
  <2> HIDE DEF step, n
  <2>1. 0 \in Nat
    OBVIOUS
  <2>2. \E f : Recursive(f, Nat, n, 0, step)
    BY <1>1, <1>2, <2>1, Recursion
  <2>3. QED
    BY <2>2 DEF Recursive
<1>4. Eqn(f)
  <2>1. ASSUME NEW k \in 0..n
        PROVE  f[k] = IF k = 0 THEN 0 ELSE f[k - 1] + s.fields[k].ty.bytes
    <3>1. CASE k = 0
      BY <1>3, <3>1
    <3>2. CASE k # 0
      <4>1. k \in 1..n /\ k - 1 \in 0..n
        BY <1>1, <3>2
      <4>2. f[k] = step[k][f[k - 1]] /\ f[k - 1] \in Nat
        BY <1>3, <4>1
      <4>3. QED
        BY <3>2, <4>1, <4>2
    <3>3. QED
      BY <3>1, <3>2
  <2>2. QED
    BY <2>1
<1>5. Eqn(g)
  <2> HIDE DEF Eqn
  <2>1. QED
    BY <1>4, Zenon
<1>6. \A i : Offset(s, i) = g[i - 1]
  BY DEF Offset
<1> HIDE DEF g
<1>7. \A k \in 0..n : g[k] = IF k = 0 THEN 0 ELSE g[k - 1] + s.fields[k].ty.bytes
  BY <1>5
<1>8. Offset(s, 1) = 0
  <2>1. 0 \in 0..n /\ 1 - 1 = 0
    BY <1>1
  <2>2. QED
    BY <1>6, <1>7, <2>1
<1>9. ASSUME NEW i \in 1..n PROVE Offset(s, i + 1) = Offset(s, i) + s.fields[i].ty.bytes
  <2>1. i \in 0..n /\ i # 0 /\ (i + 1) - 1 = i
    BY <1>1
  <2>2. QED
    BY <1>6, <1>7, <2>1
<1>10. \A i \in 1..n + 1 : Offset(s, i) \in Nat
  <2> DEFINE T == {k \in Nat : k <= n => g[k] \in Nat}
  <2>1. 0 \in T
    BY <1>1, <1>7
  <2>2. ASSUME NEW k \in Nat, k \in T PROVE k + 1 \in T
    <3>1. SUFFICES ASSUME k + 1 <= n PROVE g[k + 1] \in Nat
      OBVIOUS
    <3>2. k + 1 \in 0..n /\ k + 1 \in 1..n /\ k + 1 # 0 /\ (k + 1) - 1 = k
      BY <1>1, <3>1
    <3>3. g[k + 1] = g[k] + s.fields[k + 1].ty.bytes
      BY <1>7, <3>2
    <3>4. g[k] \in Nat
      BY <2>2, <3>1
    <3>5. QED
      BY <1>1, <3>2, <3>3, <3>4
  <2>3. Nat \subseteq T
    <3> HIDE DEF T
    <3>1. QED
      BY <2>1, <2>2, Induction
  <2>4. ASSUME NEW i \in 1..n + 1 PROVE g[i - 1] \in Nat
    <3>1. i - 1 \in Nat /\ i - 1 <= n
      BY <1>1
    <3>2. QED
      BY <2>3, <3>1
  <2>5. QED
    BY <1>6, <2>4
<1>11. QED
  BY <1>8, <1>9, <1>10 DEF n

\* ss are the bytes of the fields.
FieldBytesOf(s, ss) ==
  /\ ss \in Seq(Seq(BitByte)) /\ Len(ss) = Len(s.fields)
  /\ \A i \in 1..Len(s.fields) : Len(ss[i]) = s.fields[i].ty.bytes

\* The bytes before a field are those of the fields before it.
LEMMA OffsetCounts ==
  ASSUME NEW s, Fields(s), NEW ss, FieldBytesOf(s, ss), NEW i \in 1..Len(s.fields) + 1
  PROVE  /\ SubSeq(ss, 1, i - 1) \in Seq(Seq(BitByte))
         /\ Len(FlattenSeq(SubSeq(ss, 1, i - 1))) = Offset(s, i)
<1> DEFINE n == Len(s.fields)
           P(k) == Len(FlattenSeq(SubSeq(ss, 1, k))) = Offset(s, k + 1)
           T == {k \in Nat : k <= n => P(k)}
<1>1. /\ n \in Nat /\ ss \in Seq(Seq(BitByte)) /\ Len(ss) = n
      /\ \A k \in 1..n : Len(ss[k]) = s.fields[k].ty.bytes
  BY DEF Fields, FieldBytesOf
<1>2. /\ Offset(s, 1) = 0
      /\ \A k \in 1..n : Offset(s, k + 1) = Offset(s, k) + s.fields[k].ty.bytes
  BY OffsetIs
<1> HIDE DEF n
<1>3. 0 \in T
  <2>1. SubSeq(ss, 1, 0) = << >>
    BY SubSeqEmpty
  <2>2. FlattenSeq(SubSeq(ss, 1, 0)) = << >>
    BY <2>1, FlattenEmpty, Zenon
  <2>3. Len(FlattenSeq(SubSeq(ss, 1, 0))) = 0
    BY <2>2
  <2>4. 0 + 1 = 1
    OBVIOUS
  <2>5. P(0)
    BY <1>2, <2>3, <2>4
  <2>6. QED
    BY <2>5
<1>4. ASSUME NEW k \in Nat, k \in T PROVE k + 1 \in T
  <2>1. P(k) <=> Len(FlattenSeq(SubSeq(ss, 1, k))) = Offset(s, k + 1)
    OBVIOUS
  <2>2. P(k + 1) <=> Len(FlattenSeq(SubSeq(ss, 1, k + 1))) = Offset(s, (k + 1) + 1)
    OBVIOUS
  <2> HIDE DEF P
  <2>3. SUFFICES ASSUME k + 1 <= n
                 PROVE  Len(FlattenSeq(SubSeq(ss, 1, k + 1))) = Offset(s, (k + 1) + 1)
    BY <2>2
  <2> DEFINE f == SubSeq(ss, 1, k)
             x == ss[k + 1]
  <2>4. /\ x \in Seq(BitByte) /\ f \in Seq(Seq(BitByte))
        /\ SubSeq(ss, 1, k + 1) = Append(f, x)
    BY <1>1, <2>3, GrowFront
  <2>5. P(k)
    BY <1>1, <1>4, <2>3
  <2>6. Len(FlattenSeq(f)) = Offset(s, k + 1)
    BY <2>1, <2>5
  <2>7. k + 1 \in 1..n
    BY <1>1, <2>3
  <2>8. Len(x) = s.fields[k + 1].ty.bytes
    BY <1>1, <2>7
  <2>9. Offset(s, (k + 1) + 1) = Offset(s, k + 1) + s.fields[k + 1].ty.bytes
    BY <1>2, <2>7
  <2> HIDE DEF f, x
  <2>10. FlattenSeq(Append(f, x)) = FlattenSeq(f) \o x /\ FlattenSeq(f) \in Seq(BitByte)
    BY <2>4, FlattenAppend, FlattenType
  <2>11. Len(FlattenSeq(f) \o x) = Len(FlattenSeq(f)) + Len(x)
    BY <2>4, <2>10, ConcatProperties
  <2>12. QED
    BY <2>4, <2>6, <2>8, <2>9, <2>10, <2>11 DEF f
<1>5. Nat \subseteq T
  <2> HIDE DEF T
  <2>1. QED
    BY <1>3, <1>4, Induction
<1>6. i - 1 \in Nat /\ i - 1 <= n /\ (i - 1) + 1 = i /\ i - 1 \in 0..Len(ss)
  BY <1>1 DEF n
<1>7. Len(FlattenSeq(SubSeq(ss, 1, i - 1))) = Offset(s, i)
  BY <1>5, <1>6
<1>8. SubSeq(ss, 1, i - 1) \in Seq(Seq(BitByte))
  BY <1>1, <1>6, CutElements
<1>9. QED
  BY <1>7, <1>8

\* A field's bytes are found where the field begins.
LEMMA FieldFound ==
  ASSUME NEW s, Fields(s), NEW ss, FieldBytesOf(s, ss), NEW i \in 1..Len(s.fields)
  PROVE  LET key == FlattenSeq(ss)
             end == Offset(s, i) + s.fields[i].ty.bytes
         IN key \in Seq(BitByte) /\ end <= Len(key) /\ SubSeq(key, Offset(s, i) + 1, end) = ss[i]
<1> DEFINE a == FlattenSeq(SubSeq(ss, 1, i - 1))
           b == ss[i]
           key == FlattenSeq(ss)
<1>1. /\ ss \in Seq(Seq(BitByte)) /\ i \in 1..Len(ss) /\ i \in 1..Len(s.fields) + 1
      /\ Len(b) = s.fields[i].ty.bytes /\ b \in Seq(BitByte)
  BY ElementOfSeq DEF FieldBytesOf, Fields
<1>2. Around(ss, i, BitByte)
  BY <1>1, FlattenAround
<1>3. PICK z \in Seq(BitByte) : key = a \o (b \o z)
  BY <1>2, Zenon DEF Around
<1>4. a \in Seq(BitByte)
  BY <1>2 DEF Around
<1>5. Len(a) = Offset(s, i)
  BY <1>1, OffsetCounts
<1> HIDE DEF a, b, key
<1>6. /\ SubSeq(a \o (b \o z), Len(a) + 1, Len(a) + Len(b)) = b
      /\ Len(a) + Len(b) <= Len(a \o (b \o z))
      /\ a \o (b \o z) \in Seq(BitByte)
  BY <1>1, <1>4, MiddleOf
<1>7. QED
  BY <1>1, <1>3, <1>5, <1>6 DEF b, key

\* Fields that are those of a byte string make up its beginning.
LEMMA FieldsBegin ==
  ASSUME NEW s, Fields(s), NEW ss, FieldBytesOf(s, ss), NEW key \in Seq(BitByte),
         \A i \in 1..Len(s.fields) :
           LET end == Offset(s, i) + s.fields[i].ty.bytes
           IN end <= Len(key) /\ ss[i] = SubSeq(key, Offset(s, i) + 1, end)
  PROVE  IsPrefix(FlattenSeq(ss), key)
<1> DEFINE n == Len(s.fields)
           P(k) == /\ Offset(s, k + 1) <= Len(key)
                   /\ FlattenSeq(SubSeq(ss, 1, k)) = SubSeq(key, 1, Offset(s, k + 1))
           T == {k \in Nat : k <= n => P(k)}
<1>1. n \in Nat /\ ss \in Seq(Seq(BitByte)) /\ Len(ss) = n /\ Len(key) \in Nat
  BY LenProperties DEF Fields, FieldBytesOf
<1>2. /\ Offset(s, 1) = 0
      /\ \A k \in 1..n + 1 : Offset(s, k) \in Nat
      /\ \A k \in 1..n : Offset(s, k + 1) = Offset(s, k) + s.fields[k].ty.bytes
      /\ \A k \in 1..n : s.fields[k].ty.bytes \in Nat
  BY OffsetIs DEF Fields, IsPrimitive
<1>3. \A k \in 1..n : /\ Offset(s, k) + s.fields[k].ty.bytes <= Len(key)
                      /\ ss[k] = SubSeq(key, Offset(s, k) + 1, Offset(s, k) + s.fields[k].ty.bytes)
  OBVIOUS
<1> HIDE DEF n
<1>4. 0 \in T
  <2>1. SubSeq(ss, 1, 0) = << >> /\ SubSeq(key, 1, 0) = << >>
    BY SubSeqEmpty
  <2>2. FlattenSeq(SubSeq(ss, 1, 0)) = SubSeq(key, 1, 0)
    BY <2>1, FlattenEmpty
  <2>3. 0 + 1 = 1
    OBVIOUS
  <2>4. Offset(s, 0 + 1) = 0
    BY <1>2, <2>3
  <2>5. P(0)
    BY <1>1, <2>2, <2>4
  <2>6. QED
    BY <2>5
<1>5. ASSUME NEW k \in Nat, k \in T PROVE k + 1 \in T
  <2>1. P(k) => FlattenSeq(SubSeq(ss, 1, k)) = SubSeq(key, 1, Offset(s, k + 1))
    OBVIOUS
  <2>2. /\ Offset(s, (k + 1) + 1) <= Len(key)
         /\ FlattenSeq(SubSeq(ss, 1, k + 1)) = SubSeq(key, 1, Offset(s, (k + 1) + 1))
         => P(k + 1)
    OBVIOUS
  <2> HIDE DEF P
  <2>3. SUFFICES ASSUME k + 1 <= n
                 PROVE  /\ Offset(s, (k + 1) + 1) <= Len(key)
                        /\ FlattenSeq(SubSeq(ss, 1, k + 1)) = SubSeq(key, 1, Offset(s, (k + 1) + 1))
    BY <2>2
  <2> DEFINE f == SubSeq(ss, 1, k)
             x == ss[k + 1]
             m == Offset(s, k + 1)
             l == s.fields[k + 1].ty.bytes
  <2>4. x \in Seq(BitByte) /\ f \in Seq(Seq(BitByte)) /\ SubSeq(ss, 1, k + 1) = Append(f, x)
    BY <1>1, <2>3, GrowFront
  <2>5. P(k)
    BY <1>1, <1>5, <2>3
  <2>6. FlattenSeq(f) = SubSeq(key, 1, m)
    BY <2>1, <2>5
  <2>7. k + 1 \in 1..n /\ k + 1 \in 1..n + 1
    BY <1>1, <2>3
  <2>8. m \in Nat /\ l \in Nat /\ m + l <= Len(key) /\ x = SubSeq(key, m + 1, m + l)
    BY <1>2, <1>3, <2>7
  <2>9. Offset(s, (k + 1) + 1) = m + l
    BY <1>2, <2>7
  <2> HIDE DEF f, x, m, l
  <2>10. FlattenSeq(Append(f, x)) = FlattenSeq(f) \o x
    BY <2>4, FlattenAppend
  <2>11. SubSeq(key, 1, m) \o SubSeq(key, m + 1, m + l) = SubSeq(key, 1, m + l)
    BY <2>8, FrontGrows
  <2>12. FlattenSeq(SubSeq(ss, 1, k + 1)) = SubSeq(key, 1, m + l)
    BY <2>4, <2>6, <2>8, <2>10, <2>11
  <2>13. QED
    BY <2>8, <2>9, <2>12
<1>6. n \in T
  <2>1. Nat \subseteq T
    <3> HIDE DEF T
    <3>1. QED
      BY <1>4, <1>5, Induction
  <2>2. QED
    BY <1>1, <2>1
<1>7. SubSeq(ss, 1, n) = ss
  BY <1>1, WholeFront
<1> DEFINE m == Offset(s, n + 1)
<1>8. n + 1 \in 1..n + 1
  BY <1>1
<1>9. m \in 0..Len(key) /\ FlattenSeq(ss) = SubSeq(key, 1, m)
  <2>1. P(n)
    <3> HIDE DEF P
    <3>1. QED
      BY <1>1, <1>6
  <2>2. m <= Len(key) /\ FlattenSeq(SubSeq(ss, 1, n)) = SubSeq(key, 1, m)
    BY <2>1
  <2>3. m \in Nat
    BY <1>2, <1>8
  <2>4. FlattenSeq(ss) = SubSeq(key, 1, m)
    BY <1>7, <2>2, Zenon
  <2> HIDE DEF m, P, T
  <2>5. m \in 0..Len(key)
    BY <1>1, <2>2, <2>3
  <2>6. QED
    BY <2>4, <2>5
<1> HIDE DEF m, T, P
<1> DEFINE g == SubSeq(key, 1, m)
           h == SubSeq(key, m + 1, Len(key))
<1>10. g \in Seq(BitByte) /\ h \in Seq(BitByte) /\ g \o h = key
  BY <1>9, CutSeq
<1> HIDE DEF g, h
<1>11. IsPrefix(g, key)
  BY <1>10, PrefixIs
<1>12. QED
  BY <1>9, <1>11 DEF g

\* A value with the fields of a schema.
DirectValue(s, v) ==
  /\ v = [i \in 1..Len(s.fields) |-> v[i]]
  /\ \A i \in 1..Len(s.fields) :
       v[i] = Number(s.fields[i].ty, v[i].w) /\ HasType(s.fields[i].ty, v[i].w)

\* The values a direct schema is used for are such values.
LEMMA DirectSchemaIs ==
  ASSUME NEW s, DirectSchema(s)
  PROVE  Fields(s) /\ \A v \in s.values : DirectValue(s, v)
<1>1. Fields(s)
  <2>1. s.fields \in Seq({s.fields[i] : i \in DOMAIN s.fields})
    BY DEF DirectSchema
  <2>2. Len(s.fields) \in Nat /\ DOMAIN s.fields = 1..Len(s.fields)
    BY <2>1, LenProperties
  <2>3. QED
    BY <2>2 DEF DirectSchema, Fields
<1>2. ASSUME NEW v \in s.values PROVE DirectValue(s, v)
  <2>1. /\ v \in Seq({v[i] : i \in DOMAIN v}) /\ Len(v) = Len(s.fields)
        /\ \A i \in DOMAIN v : v[i] = Number(s.fields[i].ty, v[i].w) /\ HasType(s.fields[i].ty, v[i].w)
    BY DEF DirectSchema
  <2>2. DOMAIN v = 1..Len(v) /\ v = [i \in 1..Len(v) |-> v[i]]
    BY <2>1
  <2>3. QED
    BY <2>1, <2>2 DEF DirectValue
<1>3. QED
  BY <1>1, <1>2

\* The bytes of the fields of a value.
Encoded(s, target, v) == [i \in DOMAIN v |-> FieldBytes(s, target, v, i)]

\* They are those of the fields of the schema.
LEMMA DirectFields ==
  ASSUME NEW s, Fields(s), NEW target, NEW v, DirectValue(s, v)
  PROVE  /\ FieldBytesOf(s, Encoded(s, target, v))
         /\ \A i \in 1..Len(s.fields) :
              Encoded(s, target, v)[i] = Encode(target, s.fields[i].params, s.fields[i].ty, v[i].w)
<1> DEFINE n == Len(s.fields)
           e == Encoded(s, target, v)
<1>1. n \in Nat /\ DOMAIN v = 1..n /\ \A i \in 1..n : IsPrimitive(s.fields[i].ty)
  BY DEF Fields, DirectValue
<1>2. ASSUME NEW i \in 1..n
      PROVE  /\ FieldBytes(s, target, v, i) = Encode(target, s.fields[i].params, s.fields[i].ty, v[i].w)
             /\ FieldBytes(s, target, v, i) \in Seq(BitByte)
             /\ Len(FieldBytes(s, target, v, i)) = s.fields[i].ty.bytes
  <2>1. v[i].ty = s.fields[i].ty /\ v[i].w \in Word(s.fields[i].ty)
    <3>1. v[i] = Number(s.fields[i].ty, v[i].w) /\ HasType(s.fields[i].ty, v[i].w)
      BY DEF DirectValue
    <3>2. Number(s.fields[i].ty, v[i].w).ty = s.fields[i].ty
      BY DEF Number
    <3>3. v[i].ty = s.fields[i].ty
      BY <3>1, <3>2
    <3>4. QED
      BY <3>1, <3>3 DEF HasType
  <2>2. FieldBytes(s, target, v, i) = Encode(target, s.fields[i].params, s.fields[i].ty, v[i].w)
    BY <2>1 DEF FieldBytes
  <2>3. QED
    BY <1>1, <2>1, <2>2, EncodeIs
<1>3. e = [i \in 1..n |-> FieldBytes(s, target, v, i)]
  BY <1>1 DEF Encoded
<1> HIDE DEF e, n
<1>4. e \in Seq(Seq(BitByte)) /\ Len(e) = n /\ \A i \in 1..n : e[i] = FieldBytes(s, target, v, i)
  BY <1>1, <1>2, <1>3
<1>5. FieldBytesOf(s, e)
  BY <1>2, <1>4 DEF FieldBytesOf, n
<1>6. QED
  BY <1>2, <1>4, <1>5 DEF e, n

\* A key of primitives is a byte string, and it is decoded to the value it is of.
LEMMA DirectRead ==
  ASSUME NEW s, Fields(s), s.via = "direct", NEW target, NEW v, DirectValue(s, v)
  PROVE  /\ KeyIn(s, target, v) = FlattenSeq(Encoded(s, target, v))
         /\ KeyIn(s, target, v) \in Seq(BitByte)
         /\ ValueIn(s, target, KeyIn(s, target, v)) = Decoded("Ok", v)
<1> DEFINE n == Len(s.fields)
           e == Encoded(s, target, v)
           key == KeyIn(s, target, v)
<1>1. n \in Nat /\ DOMAIN s.fields = 1..n /\ \A i \in 1..n : IsPrimitive(s.fields[i].ty)
  BY DEF Fields
<1>2. key = FlattenSeq(e)
  BY DEF KeyIn, Encoded
<1>3. /\ FieldBytesOf(s, e)
      /\ \A i \in 1..n : e[i] = Encode(target, s.fields[i].params, s.fields[i].ty, v[i].w)
  BY DirectFields
<1> HIDE DEF e, key
<1>4. key \in Seq(BitByte)
  BY <1>2, <1>3, FlattenType DEF FieldBytesOf
<1>5. ASSUME NEW i \in 1..n PROVE FieldIn(s, target, key, i) = Decoded("Ok", v[i].w)
  <2> DEFINE end == Offset(s, i) + s.fields[i].ty.bytes
  <2>1. end <= Len(key) /\ SubSeq(key, Offset(s, i) + 1, end) = e[i]
    BY <1>2, <1>3, FieldFound
  <2>2. FieldIn(s, target, key, i) =
          IF Len(key) < end THEN Failed("PrematureEndOfInput")
          ELSE DecodePrimitive(target, s.fields[i].params, s.fields[i].ty,
                               SubSeq(key, Offset(s, i) + 1, end))
    BY DEF FieldIn
  <2>3. end \in Int /\ Len(key) \in Int
    <3>1. i \in 1..n + 1
      BY <1>1
    <3>2. Offset(s, i) \in Nat /\ s.fields[i].ty.bytes \in Nat
      BY <1>1, <3>1, OffsetIs DEF IsPrimitive
    <3>3. QED
      BY <1>4, <3>2, LenProperties
  <2>4. HasType(s.fields[i].ty, v[i].w)
    BY DEF DirectValue
  <2>5. DecodePrimitive(target, s.fields[i].params, s.fields[i].ty,
                        Encode(target, s.fields[i].params, s.fields[i].ty, v[i].w)) = Decoded("Ok", v[i].w)
    BY <1>1, <2>4, DecodeEncode
  <2> HIDE DEF end
  <2>6. ~(Len(key) < end)
    BY <2>1, <2>3
  <2>7. QED
    BY <1>3, <2>1, <2>2, <2>5, <2>6
<1>6. \A i \in 1..n : /\ FieldIn(s, target, key, i).err = "Ok"
                      /\ FieldIn(s, target, key, i).val = v[i].w
  BY <1>5 DEF Decoded
<1>7. {i \in DOMAIN s.fields : FieldIn(s, target, key, i).err # "Ok"} = {}
  BY <1>1, <1>6
<1>8. ValueIn(s, target, key) =
        Decoded("Ok", [i \in DOMAIN s.fields |-> Number(s.fields[i].ty, FieldIn(s, target, key, i).val)])
  BY <1>7 DEF ValueIn
<1>9. \A i \in 1..n : Number(s.fields[i].ty, FieldIn(s, target, key, i).val) = v[i]
  BY <1>6 DEF DirectValue
<1>10. v = [i \in 1..n |-> v[i]]
  BY DEF DirectValue
<1>11. [i \in DOMAIN s.fields |-> Number(s.fields[i].ty, FieldIn(s, target, key, i).val)] = v
  BY <1>1, <1>9, <1>10
<1>12. QED
  BY <1>2, <1>4, <1>8, <1>11 DEF e, key

\* Whatever is decoded is a value of the schema's fields, and without bools among
\* them its key begins what it was decoded from.
LEMMA DirectExact ==
  ASSUME NEW s, Fields(s), s.via = "direct", NEW target, NEW key \in Seq(BitByte),
         ValueIn(s, target, key).err = "Ok"
  PROVE  LET v == ValueIn(s, target, key).val
         IN /\ DirectValue(s, v)
            /\ (\A i \in DOMAIN s.fields : s.fields[i].ty.kind # "bool") =>
                 IsPrefix(KeyIn(s, target, v), key)
<1> DEFINE n == Len(s.fields)
           v == ValueIn(s, target, key).val
           R(i) == FieldIn(s, target, key, i)
           bad == {i \in DOMAIN s.fields : R(i).err # "Ok"}
<1>1. n \in Nat /\ DOMAIN s.fields = 1..n /\ \A i \in 1..n : IsPrimitive(s.fields[i].ty)
  BY DEF Fields
<1>2. bad = {}
  <2>1. SUFFICES ASSUME bad # {} PROVE FALSE
    OBVIOUS
  <2>2. bad \in SUBSET Nat
    BY <1>1
  <2>3. Min(bad) \in bad
    <3> HIDE DEF bad
    <3>1. QED
      BY <2>1, <2>2, MinOf
  <2>4. ValueIn(s, target, key) = Failed(R(Min(bad)).err)
    BY <2>1 DEF ValueIn
  <2>5. R(Min(bad)).err = "Ok"
    BY <2>4 DEF Failed, Decoded
  <2>6. QED
    BY <2>3, <2>5
<1>3. v = [i \in 1..n |-> Number(s.fields[i].ty, R(i).val)] /\ \A i \in 1..n : R(i).err = "Ok"
  BY <1>1, <1>2 DEF ValueIn, Decoded
<1> DEFINE End(i) == Offset(s, i) + s.fields[i].ty.bytes
           piece(i) == SubSeq(key, Offset(s, i) + 1, End(i))
<1>4. ASSUME NEW i \in 1..n
      PROVE  /\ Offset(s, i) \in Nat /\ s.fields[i].ty.bytes \in Nat
             /\ End(i) <= Len(key)
             /\ R(i) = DecodePrimitive(target, s.fields[i].params, s.fields[i].ty, piece(i))
  <2>1. i \in 1..n + 1
    BY <1>1
  <2>2. Offset(s, i) \in Nat /\ s.fields[i].ty.bytes \in Nat
    BY <1>1, <2>1, OffsetIs DEF IsPrimitive
  <2>3. End(i) \in Nat /\ Len(key) \in Nat
    BY <2>2, LenProperties
  <2>4. R(i) = IF Len(key) < End(i) THEN Failed("PrematureEndOfInput")
               ELSE DecodePrimitive(target, s.fields[i].params, s.fields[i].ty, piece(i))
    BY DEF FieldIn
  <2>5. R(i).err = "Ok" /\ Failed("PrematureEndOfInput").err # "Ok"
    BY <1>3 DEF Failed, Decoded
  <2> HIDE DEF R, End, piece
  <2>6. ~(Len(key) < End(i))
    BY <2>4, <2>5
  <2>7. QED
    BY <2>2, <2>3, <2>4, <2>6
<1>5. ASSUME NEW i \in 1..n
      PROVE  /\ v[i] = Number(s.fields[i].ty, v[i].w) /\ v[i].w = R(i).val
             /\ HasType(s.fields[i].ty, R(i).val)
             /\ s.fields[i].ty.kind # "bool" =>
                  Encode(target, s.fields[i].params, s.fields[i].ty, R(i).val) = piece(i)
  <2>1. piece(i) \in Seq(BitByte) /\ Len(piece(i)) = s.fields[i].ty.bytes
    BY <1>4, PieceElements
  <2>2. v[i] = Number(s.fields[i].ty, R(i).val)
    BY <1>3
  <2>3. R(i).err = "Ok" /\ IsPrimitive(s.fields[i].ty)
    BY <1>1, <1>3
  <2>4. R(i) = DecodePrimitive(target, s.fields[i].params, s.fields[i].ty, piece(i))
    BY <1>4
  <2> HIDE DEF v, R, piece
  <2>5. v[i].w = R(i).val
    BY <2>2 DEF Number
  <2>6. /\ HasType(s.fields[i].ty, R(i).val)
        /\ s.fields[i].ty.kind # "bool" =>
             Encode(target, s.fields[i].params, s.fields[i].ty, R(i).val) = piece(i)
    BY <2>1, <2>3, <2>4, DecodeIs
  <2>7. QED
    BY <2>2, <2>5, <2>6
<1>6. v = [i \in 1..n |-> v[i]]
  BY <1>3
<1> HIDE DEF v, R, bad
<1>7. DirectValue(s, v)
  BY <1>5, <1>6 DEF DirectValue
<1>8. ASSUME \A i \in DOMAIN s.fields : s.fields[i].ty.kind # "bool"
      PROVE  IsPrefix(KeyIn(s, target, v), key)
  <2> DEFINE e == Encoded(s, target, v)
  <2>1. /\ FieldBytesOf(s, e)
        /\ \A i \in 1..n : e[i] = Encode(target, s.fields[i].params, s.fields[i].ty, v[i].w)
    BY <1>7, DirectFields
  <2>2. KeyIn(s, target, v) = FlattenSeq(e)
    BY <1>7, DirectRead
  <2> HIDE DEF e
  <2>3. \A i \in 1..n : End(i) <= Len(key) /\ e[i] = piece(i)
    BY <1>1, <1>4, <1>5, <1>8, <2>1
  <2>4. IsPrefix(FlattenSeq(e), key)
    BY <2>1, <2>3, FieldsBegin
  <2>5. QED
    BY <2>2, <2>4
<1>9. QED
  BY <1>7, <1>8 DEF v

-----------------------------------------------------------------------------

(* The words of lengths and indices.                                        *)

\* A byte's number is the sum of its bits.
BitSum(b) ==
  b[0] + 2 * b[1] + 4 * b[2] + 8 * b[3] + 16 * b[4] + 32 * b[5] + 64 * b[6] + 128 * b[7]

\* The bits of a byte are those of its number.
LEMMA ByteOfIs ==
  ASSUME NEW n \in 0..255
  PROVE  /\ ByteOf(n) \in BitByte
         /\ \A k \in 0..7 : ByteOf(n)[k] = 0 \/ ByteOf(n)[k] = 1
         /\ n = BitSum(ByteOf(n))
<1>1. /\ Weight[1] = 1 /\ Weight[2] = 2 /\ Weight[3] = 4 /\ Weight[4] = 8 /\ Weight[5] = 16
      /\ Weight[6] = 32 /\ Weight[7] = 64 /\ Weight[8] = 128
      /\ \A k \in 0..7 : Weight[k + 1] \in Nat \ {0}
  BY DEF Weight
<1>2. \A k \in 0..7 : n \div Weight[k + 1] \in Nat
  BY <1>1
<1>3. \A k \in 0..7 : (n \div Weight[k + 1]) % 2 \in {0, 1}
  BY <1>2
<1>4. ByteOf(n) \in [0..7 -> {0, 1}]
  BY <1>3 DEF ByteOf
<1>5. /\ ByteOf(n)[0] = n % 2 /\ ByteOf(n)[1] = (n \div 2) % 2 /\ ByteOf(n)[2] = (n \div 4) % 2
      /\ ByteOf(n)[3] = (n \div 8) % 2 /\ ByteOf(n)[4] = (n \div 16) % 2
      /\ ByteOf(n)[5] = (n \div 32) % 2 /\ ByteOf(n)[6] = (n \div 64) % 2
      /\ ByteOf(n)[7] = (n \div 128) % 2
  <2>1. \A k \in 0..7 : ByteOf(n)[k] = (n \div Weight[k + 1]) % 2
    BY DEF ByteOf
  <2>2. /\ 0 + 1 = 1 /\ 1 + 1 = 2 /\ 2 + 1 = 3 /\ 3 + 1 = 4 /\ 4 + 1 = 5 /\ 5 + 1 = 6
        /\ 6 + 1 = 7 /\ 7 + 1 = 8 /\ n \div 1 = n
    OBVIOUS
  <2>3. \A k \in {0, 1, 2, 3, 4, 5, 6, 7} : k \in 0..7
    OBVIOUS
  <2>4. QED
    BY <1>1, <2>1, <2>2, <2>3
<1>6. n = (n % 2) + 2 * ((n \div 2) % 2) + 4 * ((n \div 4) % 2) + 8 * ((n \div 8) % 2)
          + 16 * ((n \div 16) % 2) + 32 * ((n \div 32) % 2) + 64 * ((n \div 64) % 2)
          + 128 * ((n \div 128) % 2)
  OBVIOUS
<1>7. n = BitSum(ByteOf(n))
  BY <1>5, <1>6 DEF BitSum
<1>8. QED
  BY <1>4, <1>7 DEF BitByte, Bit

\* Bytes sort like their numbers.
LEMMA ByteOfOrder ==
  ASSUME NEW n \in 0..255, NEW m \in 0..255, n < m
  PROVE  HighDiff(ByteOf(n), ByteOf(m), 7)
<1> DEFINE a == ByteOf(n)
           b == ByteOf(m)
<1>1. /\ \A k \in 0..7 : a[k] = 0 \/ a[k] = 1
      /\ \A k \in 0..7 : b[k] = 0 \/ b[k] = 1
      /\ n = BitSum(a) /\ m = BitSum(b)
      /\ a \in Bits(7) /\ b \in Bits(7)
  BY ByteOfIs DEF Bits, BitByte
<1> HIDE DEF a, b
<1>2. a # b
  BY <1>1
<1>3. ASSUME HighDiff(b, a, 7) PROVE FALSE
  <2>1. PICK i \in 0..7 : b[i] = 0 /\ a[i] = 1 /\ \A k \in 0..7 : k > i => b[k] = a[k]
    BY <1>3 DEF HighDiff
  <2>2. i \in {0, 1, 2, 3, 4, 5, 6, 7} /\ \A k \in {0, 1, 2, 3, 4, 5, 6, 7} : k \in 0..7
    OBVIOUS
  <2>3. /\ a[0] \in 0..1 /\ a[1] \in 0..1 /\ a[2] \in 0..1 /\ a[3] \in 0..1
        /\ a[4] \in 0..1 /\ a[5] \in 0..1 /\ a[6] \in 0..1 /\ a[7] \in 0..1
    BY <1>1, <2>2
  <2>4. /\ b[0] \in 0..1 /\ b[1] \in 0..1 /\ b[2] \in 0..1 /\ b[3] \in 0..1
        /\ b[4] \in 0..1 /\ b[5] \in 0..1 /\ b[6] \in 0..1 /\ b[7] \in 0..1
    BY <1>1, <2>2
  <2>5. BitSum(b) < BitSum(a)
    BY <2>1, <2>2, <2>3, <2>4 DEF BitSum
  <2>6. QED
    BY <1>1, <2>5
<1>4. HighDiff(a, b, 7)
  <2>1. HighDiff(a, b, 7) \/ HighDiff(b, a, 7)
    BY <1>1, <1>2, HighDiffTotal
  <2>2. QED
    BY <1>3, <2>1
<1>5. QED
  BY <1>4 DEF a, b

\* Numbers of four bytes have a word in either type, and different words.
LEMMA WordOfIs ==
  ASSUME NEW u \in Type, NEW n, Fits(n)
  PROVE  /\ WordOf(u, n) \in Word(u)
         /\ \A j \in 0..3 : /\ (n \div Place[j + 1]) % 256 \in 0..255
                            /\ \A k \in 0..7 : /\ 8 * j + k \in 0..Width(u) - 1
                                               /\ WordOf(u, n)[8 * j + k] = ByteOf((n \div Place[j + 1]) % 256)[k]
         /\ \A i \in 32..Width(u) - 1 : WordOf(u, n)[i] = 0
<1>1. n \in Nat /\ Width(u) \in 32..64
  BY TypeSizes DEF Fits, Sizes
<1>2. \A j \in 0..3 : Place[j + 1] \in Nat \ {0}
  BY DEF Place
<1>3. \A j \in 0..3 : (n \div Place[j + 1]) % 256 \in 0..255
  <2>1. \A j \in 0..3 : n \div Place[j + 1] \in Nat
    BY <1>1, <1>2
  <2>2. QED
    BY <2>1
<1>4. ASSUME NEW i \in 0..Width(u) - 1, i < 32
      PROVE  i \div 8 \in 0..3 /\ i % 8 \in 0..7
  BY <1>4
<1>5. \A j \in 0..3 : ByteOf((n \div Place[j + 1]) % 256) \in [0..7 -> Bit]
  BY <1>3, ByteOfIs DEF BitByte
<1>6. ASSUME NEW i \in 0..Width(u) - 1
      PROVE  (IF i < 32 THEN ByteOf((n \div Place[i \div 8 + 1]) % 256)[i % 8] ELSE 0) \in Bit
  <2>1. CASE i < 32
    BY <1>4, <1>5, <2>1
  <2>2. CASE ~(i < 32)
    BY <2>2 DEF Bit
  <2>3. QED
    BY <2>1, <2>2
<1>7. WordOf(u, n) \in Word(u)
  BY <1>6 DEF WordOf, Word
<1>8. ASSUME NEW j \in 0..3, NEW k \in 0..7
      PROVE  /\ 8 * j + k \in 0..Width(u) - 1
             /\ WordOf(u, n)[8 * j + k] = ByteOf((n \div Place[j + 1]) % 256)[k]
  <2>1. /\ 8 * j + k \in 0..Width(u) - 1 /\ 8 * j + k < 32
        /\ (8 * j + k) \div 8 = j /\ (8 * j + k) % 8 = k
    BY <1>1
  <2>2. WordOf(u, n)[8 * j + k] = ByteOf((n \div Place[(8 * j + k) \div 8 + 1]) % 256)[(8 * j + k) % 8]
    BY <2>1 DEF WordOf
  <2>3. QED
    BY <2>1, <2>2
<1>9. \A i \in 32..Width(u) - 1 : WordOf(u, n)[i] = 0
  BY <1>1 DEF WordOf
<1>10. QED
  BY <1>3, <1>7, <1>8, <1>9

\* Different numbers have different words.
LEMMA WordOfDiffers ==
  ASSUME NEW u \in Type, NEW n, NEW m, Fits(n), Fits(m), WordOf(u, n) = WordOf(u, m)
  PROVE  n = m
<1> DEFINE a(j) == (n \div Place[j + 1]) % 256
           b(j) == (m \div Place[j + 1]) % 256
<1>1. /\ \A j \in 0..3 : /\ a(j) \in 0..255
                         /\ \A k \in 0..7 : WordOf(u, n)[8 * j + k] = ByteOf(a(j))[k]
      /\ \A j \in 0..3 : /\ b(j) \in 0..255
                         /\ \A k \in 0..7 : WordOf(u, m)[8 * j + k] = ByteOf(b(j))[k]
  BY WordOfIs
<1>2. ASSUME NEW j \in 0..3 PROVE a(j) = b(j)
  <2> DEFINE x == a(j)
             y == b(j)
  <2>1. x \in 0..255 /\ y \in 0..255 /\ \A k \in 0..7 : ByteOf(x)[k] = ByteOf(y)[k]
    BY <1>1
  <2> HIDE DEF x, y
  <2>2. x = BitSum(ByteOf(x)) /\ y = BitSum(ByteOf(y))
    BY <2>1, ByteOfIs
  <2>3. \A k \in {0, 1, 2, 3, 4, 5, 6, 7} : k \in 0..7
    OBVIOUS
  <2>4. BitSum(ByteOf(x)) = BitSum(ByteOf(y))
    BY <2>1, <2>3 DEF BitSum
  <2>5. QED
    BY <2>2, <2>4 DEF x, y
<1>3. /\ (n \div 1) % 256 = (m \div 1) % 256 /\ (n \div 256) % 256 = (m \div 256) % 256
      /\ (n \div 65536) % 256 = (m \div 65536) % 256
      /\ (n \div 16777216) % 256 = (m \div 16777216) % 256
  <2>1. a(0) = b(0) /\ a(1) = b(1) /\ a(2) = b(2) /\ a(3) = b(3)
    BY <1>2
  <2>2. /\ Place[0 + 1] = 1 /\ Place[1 + 1] = 256 /\ Place[2 + 1] = 65536
        /\ Place[3 + 1] = 16777216
    BY DEF Place
  <2>3. QED
    BY <2>1, <2>2
<1>4. /\ n \in Nat /\ m \in Nat /\ n \div 16777216 < 256 /\ m \div 16777216 < 256
  BY DEF Fits
<1>5. QED
  BY <1>3, <1>4

\* An index below 128 is one byte: a bit that is set and the bits of the index.
LEMMA SmallEncoding ==
  ASSUME NEW n \in 0..127
  PROVE  LET e == Encoding(U32, WordOf(U32, n))
         IN /\ e \in Seq(BitByte) /\ Len(e) = 1
            /\ e[1][0] = 1 /\ \A k \in 0..6 : e[1][k + 1] = ByteOf(n)[k]
<1> DEFINE v == WordOf(U32, n)
           e == Encoding(U32, v)
<1>1. U32 \in Type /\ U32.bytes = 4 /\ Width(U32) = 32 /\ FullLen(U32) = 5
  BY DEF Type, U32, Width, FullLen
<1>2. Fits(n)
  BY DEF Fits
<1>3. /\ v \in Word(U32)
      /\ \A j \in 0..3 : \A k \in 0..7 : v[8 * j + k] = ByteOf((n \div Place[j + 1]) % 256)[k]
  BY <1>1, <1>2, WordOfIs
<1>4. /\ (n \div Place[0 + 1]) % 256 = n
      /\ \A j \in 1..3 : (n \div Place[j + 1]) % 256 = 0
  <2>1. /\ Place[0 + 1] = 1 /\ Place[1 + 1] = 256 /\ Place[2 + 1] = 65536
        /\ Place[3 + 1] = 16777216
    BY DEF Place
  <2>2. /\ (n \div 1) % 256 = n /\ (n \div 256) % 256 = 0 /\ (n \div 65536) % 256 = 0
        /\ (n \div 16777216) % 256 = 0
    OBVIOUS
  <2>3. QED
    BY <2>1, <2>2
<1>5. \A k \in 0..7 : v[k] = ByteOf(n)[k]
  <2>1. ASSUME NEW k \in 0..7 PROVE v[k] = ByteOf(n)[k]
    <3>1. v[8 * 0 + k] = ByteOf((n \div Place[0 + 1]) % 256)[k]
      BY <1>3
    <3>2. 8 * 0 + k = k
      OBVIOUS
    <3>3. QED
      BY <1>4, <3>1, <3>2
  <2>2. QED
    BY <2>1
<1>6. ByteOf(n)[7] = 0
  <2>1. ByteOf(n)[7] = (n \div Weight[7 + 1]) % 2
    BY DEF ByteOf
  <2>2. Weight[7 + 1] = 128
    BY DEF Weight
  <2>3. QED
    BY <2>1, <2>2
<1>7. Below(v, 7, 32)
  <2>1. ASSUME NEW i \in 7..31 PROVE v[i] = 0
    <3>1. CASE i = 7
      BY <1>5, <1>6, <3>1
    <3>2. CASE i # 7
      <4> DEFINE j == i \div 8
                 k == i % 8
      <4>1. j \in 1..3 /\ j \in 0..3 /\ k \in 0..7 /\ 8 * j + k = i
        BY <3>2
      <4> HIDE DEF j, k
      <4>2. v[8 * j + k] = ByteOf(0)[k]
        BY <1>3, <1>4, <4>1
      <4>3. ByteOf(0)[k] = 0
        BY <4>1, ByteBits DEF Zero
      <4>4. QED
        BY <4>1, <4>2, <4>3
    <3>3. QED
      BY <3>1, <3>2
  <2>2. 7..32 - 1 = 7..31
    OBVIOUS
  <2>3. QED
    BY <2>1, <2>2 DEF Below
<1> HIDE DEF v
<1>8. EncodedLen(U32, v) = 1
  <2>1. /\ EncodedLen(U32, v) \in 1..FullLen(U32)
        /\ \A m \in 1..U32.bytes : EncodedLen(U32, v) <= m <=> Below(v, 7 * m, Width(U32))
    BY <1>1, <1>3, Shortest
  <2>2. EncodedLen(U32, v) <= 1 <=> Below(v, 7 * 1, 32)
    BY <1>1, <2>1
  <2>3. 7 * 1 = 7
    OBVIOUS
  <2>4. QED
    BY <1>1, <1>7, <2>1, <2>2, <2>3
<1>9. Begins(e, U32, v) /\ Len(e) = EncodedLen(U32, v)
  BY <1>1, <1>3, EncodingBegins
<1> HIDE DEF e
<1>10. e[1] = LeBytes(U32, Tagged(U32, v, 1))[1] /\ e \in Seq(BitByte)
  BY <1>1, <1>8, <1>9 DEF Begins
<1>11. /\ Tagged(U32, v, 1) \in Word(U32)
       /\ \A i \in 0..31 : Tagged(U32, v, 1)[i] = IF i < 0 THEN 0 ELSE IF i = 0 THEN 1 ELSE v[i - 1]
  <2>1. 1 \in 1..U32.bytes /\ 1 - 1 = 0 /\ 32 - 1 = 31
    BY <1>1
  <2>2. QED
    BY <1>1, <1>3, <2>1, TaggedType
<1>12. \A k \in 0..7 : LeBytes(U32, Tagged(U32, v, 1))[1][k] = Tagged(U32, v, 1)[k]
  <2>1. LeBytes(U32, Tagged(U32, v, 1))[1] = [k \in 0..7 |-> Tagged(U32, v, 1)[8 * (1 - 1) + k]]
    BY <1>1 DEF LeBytes
  <2>2. \A k \in 0..7 : 8 * (1 - 1) + k = k
    OBVIOUS
  <2>3. QED
    BY <2>1, <2>2
<1>13. e[1][0] = 1
  <2>1. 0 \in 0..7 /\ 0 \in 0..31 /\ ~(0 < 0)
    OBVIOUS
  <2>2. Tagged(U32, v, 1)[0] = 1
    BY <1>11, <2>1
  <2>3. QED
    BY <1>10, <1>12, <2>1, <2>2
<1>14. ASSUME NEW k \in 0..6 PROVE e[1][k + 1] = ByteOf(n)[k]
  <2>1. k + 1 \in 0..7 /\ k + 1 \in 0..31 /\ ~(k + 1 < 0) /\ k + 1 # 0 /\ (k + 1) - 1 = k /\ k \in 0..7
    OBVIOUS
  <2>2. e[1][k + 1] = v[k]
    BY <1>10, <1>11, <1>12, <2>1
  <2>3. QED
    BY <1>5, <2>1, <2>2
<1>15. QED
  BY <1>8, <1>9, <1>10, <1>13, <1>14 DEF e, v

\* Such indices sort like their encodings.
LEMMA SmallOrder ==
  ASSUME NEW n \in 0..127, NEW m \in 0..127, n < m
  PROVE  Before(Encoding(U32, WordOf(U32, n)), Encoding(U32, WordOf(U32, m)))
<1> DEFINE d == Encoding(U32, WordOf(U32, n))
           e == Encoding(U32, WordOf(U32, m))
<1>1. /\ d \in Seq(BitByte) /\ Len(d) = 1 /\ d[1][0] = 1
      /\ \A k \in 0..6 : d[1][k + 1] = ByteOf(n)[k]
  BY SmallEncoding
<1>2. /\ e \in Seq(BitByte) /\ Len(e) = 1 /\ e[1][0] = 1
      /\ \A k \in 0..6 : e[1][k + 1] = ByteOf(m)[k]
  BY SmallEncoding
<1> HIDE DEF d, e
<1>3. n \in 0..255 /\ m \in 0..255
  OBVIOUS
<1>4. PICK i \in 0..7 : /\ ByteOf(n)[i] = 0 /\ ByteOf(m)[i] = 1
                        /\ \A k \in 0..7 : k > i => ByteOf(n)[k] = ByteOf(m)[k]
  BY <1>3, ByteOfOrder DEF HighDiff
<1>5. ByteOf(n)[7] = 0 /\ ByteOf(m)[7] = 0
  <2>1. /\ ByteOf(n)[7] = (n \div Weight[7 + 1]) % 2
        /\ ByteOf(m)[7] = (m \div Weight[7 + 1]) % 2
    BY DEF ByteOf
  <2>2. Weight[7 + 1] = 128
    BY DEF Weight
  <2>3. QED
    BY <2>1, <2>2
<1>6. i \in 0..6 /\ i + 1 \in 0..7
  <2>1. i # 7
    BY <1>4, <1>5
  <2>2. QED
    BY <2>1
<1>7. ASSUME NEW k \in 0..7, k > i + 1 PROVE d[1][k] = e[1][k]
  <2>1. k - 1 \in 0..6 /\ k - 1 \in 0..7 /\ k - 1 > i /\ (k - 1) + 1 = k
    BY <1>6, <1>7
  <2>2. d[1][(k - 1) + 1] = ByteOf(n)[k - 1] /\ e[1][(k - 1) + 1] = ByteOf(m)[k - 1]
    BY <1>1, <1>2, <2>1
  <2>3. QED
    BY <1>4, <2>1, <2>2
<1>8. d[1][i + 1] = 0 /\ e[1][i + 1] = 1
  BY <1>1, <1>2, <1>4, <1>6
<1>9. HighDiff(d[1], e[1], 7)
  BY <1>6, <1>7, <1>8 DEF HighDiff
<1>10. d[1] \in BitByte /\ e[1] \in BitByte
  <2>1. 1 \in 1..Len(d) /\ 1 \in 1..Len(e)
    BY <1>1, <1>2
  <2>2. QED
    BY <1>1, <1>2, <2>1, ElementOfSeq
<1>11. ByteBefore(d[1], e[1])
  BY <1>9, <1>10, ByteBeforeIs
<1>12. Before(d, e)
  BY <1>1, <1>2, <1>11 DEF Before
<1>13. QED
  BY <1>12 DEF d, e

-----------------------------------------------------------------------------

(* What Serializer writes for one part of a value.                          *)

\* The varint of a number, and the form of it that is read from the back.
Index(n)   == Encoding(U32, WordOf(U32, n))
Length(n)  == Encoding(LenType, WordOf(LenType, n))
Turned(n)  == Tail(Length(n)) \o <<Head(Length(n))>>

\* Varints tell numbers apart, whatever follows them.
Apart(u, n, m, y, z) ==
  Encoding(u, WordOf(u, n)) \o y = Encoding(u, WordOf(u, m)) \o z => n = m

\* A varint is a byte string that begins with itself.
LEMMA VarintIs ==
  ASSUME NEW u \in Type, NEW n, Fits(n)
  PROVE  LET e == Encoding(u, WordOf(u, n))
         IN /\ e \in Seq(BitByte) /\ e # << >> /\ WordOf(u, n) \in Word(u)
            /\ Len(e) = EncodedLen(u, WordOf(u, n)) /\ DecodedLen(e[1]) = Len(e)
            /\ \A y \in Seq(BitByte) : Begins(e \o y, u, WordOf(u, n))
<1> DEFINE v == WordOf(u, n)
           e == Encoding(u, v)
           len == EncodedLen(u, v)
<1>1. v \in Word(u)
  BY WordOfIs
<1> HIDE DEF v
<1>2. Begins(e, u, v) /\ Len(e) = len
  BY <1>1, EncodingBegins
<1>3. e # << >> /\ DecodedLen(e[1]) = len
  BY <1>1, <1>2, BeginsFirst
<1>4. e \in Seq(BitByte)
  BY <1>2 DEF Begins
<1>5. len \in 1..FullLen(u) /\ u.bytes \in 4..8 /\ FullLen(u) = u.bytes + 1
  BY <1>1, Shortest, TypeSizes DEF Sizes
<1> HIDE DEF e
<1>6. ASSUME NEW y \in Seq(BitByte) PROVE Begins(e \o y, u, v)
  <2>1. Joined(e, y, BitByte)
    BY <1>4, Join
  <2>2. /\ e \o y \in Seq(BitByte) /\ Len(e \o y) = Len(e) + Len(y) /\ Len(y) \in Nat
        /\ \A i \in 1..Len(e) : (e \o y)[i] = e[i]
    BY <2>1, LenProperties DEF Joined
  <2>3. Len(e \o y) >= len
    BY <1>2, <1>5, <2>2
  <2>4. len = FullLen(u) => /\ DecodedLen((e \o y)[1]) = FullLen(u)
                            /\ \A j \in 1..u.bytes : (e \o y)[j + 1] = LeBytes(u, v)[j]
    <3>1. SUFFICES ASSUME len = FullLen(u)
                   PROVE  /\ DecodedLen((e \o y)[1]) = FullLen(u)
                          /\ \A j \in 1..u.bytes : (e \o y)[j + 1] = LeBytes(u, v)[j]
      OBVIOUS
    <3>2. 1 \in 1..Len(e) /\ \A j \in 1..u.bytes : j + 1 \in 1..Len(e)
      BY <1>2, <1>5, <3>1
    <3>3. \A j \in 1..u.bytes : e[j + 1] = LeBytes(u, v)[j]
      BY <1>2, <3>1 DEF Begins
    <3>4. QED
      BY <1>3, <2>2, <3>1, <3>2, <3>3
  <2>5. len # FullLen(u) => \A j \in 1..len : (e \o y)[j] = LeBytes(u, Tagged(u, v, len))[j]
    BY <1>2, <2>2 DEF Begins
  <2>6. QED
    BY <2>2, <2>3, <2>4, <2>5 DEF Begins
<1>7. QED
  BY <1>1, <1>2, <1>3, <1>4, <1>6 DEF v, e

\* The encodings of two numbers differ, whatever follows them.
LEMMA VarintApart ==
  ASSUME NEW u \in Type, NEW n, NEW m, Fits(n), Fits(m),
         NEW y \in Seq(BitByte), NEW z \in Seq(BitByte)
  PROVE  Apart(u, n, m, y, z)
<1> DEFINE v == WordOf(u, n)
           w == WordOf(u, m)
           c == Encoding(u, v) \o y
           d == Encoding(u, w) \o z
<1>1. SUFFICES ASSUME c = d PROVE n = m
  BY DEF Apart
<1>2. v \in Word(u) /\ Begins(c, u, v)
  BY VarintIs
<1>3. w \in Word(u) /\ Begins(d, u, w)
  BY VarintIs
<1> HIDE DEF v, w, c, d
<1>4. TRUE \in BOOLEAN
  OBVIOUS
<1>5. FromSlice(u, c, TRUE) = Decoded("Ok", v)
  BY <1>2, <1>4, FromSliceBegins
<1>6. FromSlice(u, d, TRUE) = Decoded("Ok", w)
  BY <1>3, <1>4, FromSliceBegins
<1>7. v = w
  <2>1. Decoded("Ok", v) = Decoded("Ok", w)
    BY <1>1, <1>5, <1>6
  <2>2. Decoded("Ok", v).val = v /\ Decoded("Ok", w).val = w
    BY DEF Decoded
  <2>3. QED
    BY <2>1, <2>2
<1>8. QED
  BY <1>7, WordOfDiffers DEF v, w

\* Lengths at the back tell numbers apart, whatever is in front of them.
ApartAtBack(n, m, c, d) == c \o Turned(n) = d \o Turned(m) => n = m

\* They do.
LEMMA TurnedApart ==
  ASSUME LenType \in Type, NEW n, NEW m, Fits(n), Fits(m),
         NEW c \in Seq(BitByte), NEW d \in Seq(BitByte)
  PROVE  Turned(n) \in Seq(BitByte) /\ ApartAtBack(n, m, c, d)
<1> DEFINE e == Length(n)
           f == Length(m)
           h == Head(e)
           k == Head(f)
<1>1. /\ e \in Seq(BitByte) /\ e # << >> /\ DecodedLen(e[1]) = Len(e)
      /\ f \in Seq(BitByte) /\ f # << >> /\ DecodedLen(f[1]) = Len(f)
  BY VarintIs DEF Length
<1>2. Apart(LenType, n, m, << >>, << >>)
  BY VarintApart, EmptySeq
<1> HIDE DEF e, f
<1>3. /\ h \in BitByte /\ Tail(e) \in Seq(BitByte) /\ e = <<h>> \o Tail(e)
      /\ k \in BitByte /\ Tail(f) \in Seq(BitByte) /\ f = <<k>> \o Tail(f)
  BY <1>1, HeadAndTail
<1>4. h = e[1] /\ k = f[1]
  <2>1. \A t : Head(t) = t[1]
    OBVIOUS
  <2>2. QED
    BY <2>1
<1>5. Len(Tail(e)) = Len(e) - 1 /\ Len(Tail(f)) = Len(f) - 1
  BY <1>1, HeadTailProperties
<1> HIDE DEF h, k
<1>6. /\ <<h>> \in Seq(BitByte) /\ Len(<<h>>) = 1 /\ <<h>>[1] = h
      /\ <<k>> \in Seq(BitByte) /\ Len(<<k>>) = 1 /\ <<k>>[1] = k
  BY <1>3, Single
<1>7. Turned(n) = Tail(e) \o <<h>> /\ Turned(m) = Tail(f) \o <<k>>
  BY DEF Turned, e, f, h, k
<1>8. Turned(n) \in Seq(BitByte)
  BY <1>3, <1>6, <1>7, ConcatProperties
<1>9. ASSUME c \o Turned(n) = d \o Turned(m) PROVE n = m
  <2>1. Splits(c, Tail(e), <<h>>, d, Tail(f), <<k>>)
    BY <1>3, <1>6, SplitEnds
  <2>2. c \o Tail(e) = d \o Tail(f) /\ <<h>> = <<k>>
    BY <1>6, <1>7, <1>9, <2>1 DEF Splits
  <2>3. h = k
    BY <1>6, <2>2
  <2>4. Len(Tail(e)) = Len(Tail(f))
    BY <1>1, <1>4, <1>5, <2>3
  <2>5. Tail(e) = Tail(f)
    <3>1. Tail(e) \in Seq(BitByte) /\ Tail(f) \in Seq(BitByte)
      BY <1>3
    <3>2. c \o Tail(e) = d \o Tail(f)
      BY <2>2
    <3>3. QED
      BY <2>4, <3>1, <3>2, SplitEnd
  <2>6. e = f
    BY <1>3, <2>3, <2>5
  <2>7. e \o << >> = f \o << >>
    BY <2>6
  <2>8. QED
    BY <1>2, <2>7 DEF Apart, e, f, Length
<1>10. QED
  BY <1>8, <1>9 DEF ApartAtBack

\* The kinds of parts.
LEMMA PartCases ==
  ASSUME NEW p, IsPart(p)
  PROVE  \/ /\ p.op = "prim" /\ p = Number(p.ty, p.w)
            /\ IsPrimitive(p.ty) /\ HasType(p.ty, p.w)
         \/ /\ p.op = "bytes" /\ p = Bytes(p.bytes)
            /\ p.bytes \in Seq(BitByte) /\ Fits(Len(p.bytes))
         \/ p.op = "variant" /\ p = Variant(p.n) /\ Fits(p.n)
         \/ p.op = "seq" /\ p = SeqOrMap(p.n) /\ Fits(p.n)
         \/ p.op = "none" /\ p = None
         \/ p.op = "some" /\ p = Some
         \/ p.op = "compound" /\ p = Compound
<1>1. None.op = "none" /\ Some.op = "some" /\ Compound.op = "compound"
  BY DEF None, Some, Compound
<1>2. CASE p.op = "prim"
  BY <1>2 DEF IsPart
<1>3. CASE p.op = "bytes"
  BY <1>3 DEF IsPart
<1>4. CASE p.op = "variant"
  BY <1>4 DEF IsPart
<1>5. CASE p.op = "seq"
  BY <1>5 DEF IsPart
<1>6. CASE p.op \notin {"prim", "bytes", "variant", "seq"}
  <2>1. p \in {None, Some, Compound}
    BY <1>6 DEF IsPart
  <2>2. QED
    BY <1>1, <2>1
<1>7. QED
  BY <1>2, <1>3, <1>4, <1>5, <1>6

\* What a part adds to the front and to the back of the record.
PartFront(s, target, p) == FrontPart(s.params.lengths, Call(s, target, p))
PartBack(s, target, p)  == BackPart(s.params.lengths, Call(s, target, p))

\* Both, by the kind of part.
LEMMA PartBytes ==
  ASSUME LenType \in Type, NEW s, NEW target, NEW p, IsPart(p),
         s.params.lengths \in {"front", "back"}
  PROVE  LET f == PartFront(s, target, p)
             b == PartBack(s, target, p)
             back == s.params.lengths = "back"
         IN /\ f \in Seq(BitByte) /\ b \in Seq(BitByte)
            /\ p.op = "prim" => f = Encode(target, s.params, p.ty, p.w)
            /\ p.op = "bytes" /\ ~back => f = Length(Len(p.bytes)) \o p.bytes
            /\ p.op = "bytes" /\ back => f = p.bytes /\ b = Turned(Len(p.bytes))
            /\ p.op = "variant" => f = Index(p.n)
            /\ p.op = "seq" /\ ~back => f = Length(p.n)
            /\ p.op = "seq" /\ back => b = Turned(p.n)
            /\ p.op = "none" => f = <<ByteOf(0)>>
            /\ p.op = "some" => f = <<ByteOf(1)>>
<1> DEFINE f == PartFront(s, target, p)
           b == PartBack(s, target, p)
           end == s.params.lengths
           c == Call(s, target, p)
<1>1. << >> \in Seq(BitByte)
  BY EmptySeq
<1>2. U32 \in Type
  BY DEF Type
<1>3. CASE p.op = "prim"
  <2>1. c = Prim(Encode(target, s.params, p.ty, p.w))
    BY <1>3 DEF Call
  <2>2. c.op = "prim" /\ c.bytes = Encode(target, s.params, p.ty, p.w)
    BY <2>1 DEF Prim
  <2>3. f = Encode(target, s.params, p.ty, p.w) /\ b = << >>
    BY <2>2 DEF PartFront, PartBack, FrontPart, BackPart
  <2>4. IsPrimitive(p.ty) /\ p.w \in Word(p.ty)
    BY <1>3, PartCases DEF HasType
  <2>5. Encode(target, s.params, p.ty, p.w) \in Seq(BitByte)
    BY <2>4, EncodeIs
  <2>6. QED
    BY <1>1, <1>3, <2>3, <2>5
<1>4. CASE p.op # "prim"
  <2>1. c = p
    BY <1>4 DEF Call
  <2>2. f = FrontPart(end, p) /\ b = BackPart(end, p)
    BY <2>1 DEF PartFront, PartBack
  <2>3. CASE p.op = "bytes"
    <3> DEFINE n == Len(p.bytes)
    <3>1. p.bytes \in Seq(BitByte) /\ Fits(n)
      BY <2>3, PartCases
    <3>2. f = LenAt(end, "front", n) \o p.bytes /\ b = LenAt(end, "back", n)
      BY <2>2, <2>3 DEF FrontPart, BackPart
    <3> HIDE DEF n
    <3>3. Length(n) \in Seq(BitByte) /\ Turned(n) \in Seq(BitByte)
      BY <1>1, <3>1, VarintIs, TurnedApart DEF Length
    <3>4. CASE end = "back"
      <4>1. LenAt(end, "front", n) = << >> /\ LenAt(end, "back", n) = Turned(n)
        BY <3>4 DEF LenAt, Turned, Length
      <4>2. << >> \o p.bytes = p.bytes
        BY <3>1, ConcatEmptySeq
      <4>3. f = p.bytes /\ b = Turned(n)
        BY <3>2, <4>1, <4>2
      <4>4. QED
        BY <2>3, <3>1, <3>3, <3>4, <4>3 DEF n
    <3>5. CASE end = "front"
      <4>1. LenAt(end, "front", n) = Length(n) /\ LenAt(end, "back", n) = << >>
        BY <3>5 DEF LenAt, Length
      <4>2. f = Length(n) \o p.bytes /\ b = << >>
        BY <3>2, <4>1
      <4>3. Length(n) \o p.bytes \in Seq(BitByte)
        BY <3>1, <3>3, ConcatProperties
      <4>4. QED
        BY <1>1, <2>3, <3>5, <4>2, <4>3 DEF n
    <3>6. QED
      BY <3>4, <3>5
  <2>4. CASE p.op = "seq"
    <3>1. Fits(p.n)
      BY <2>4, PartCases
    <3>2. f = LenAt(end, "front", p.n) /\ b = LenAt(end, "back", p.n)
      BY <2>2, <2>4 DEF FrontPart, BackPart
    <3>3. Length(p.n) \in Seq(BitByte) /\ Turned(p.n) \in Seq(BitByte)
      BY <1>1, <3>1, VarintIs, TurnedApart DEF Length
    <3>4. CASE end = "back"
      <4>1. LenAt(end, "front", p.n) = << >> /\ LenAt(end, "back", p.n) = Turned(p.n)
        BY <3>4 DEF LenAt, Turned, Length
      <4>2. QED
        BY <1>1, <2>4, <3>2, <3>3, <3>4, <4>1
    <3>5. CASE end = "front"
      <4>1. LenAt(end, "front", p.n) = Length(p.n) /\ LenAt(end, "back", p.n) = << >>
        BY <3>5 DEF LenAt, Length
      <4>2. QED
        BY <1>1, <2>4, <3>2, <3>3, <3>5, <4>1
    <3>6. QED
      BY <3>4, <3>5
  <2>5. CASE p.op = "variant"
    <3>1. f = Index(p.n) /\ b = << >> /\ Fits(p.n)
      BY <2>2, <2>5, PartCases DEF FrontPart, BackPart, Index
    <3>2. Index(p.n) \in Seq(BitByte)
      BY <1>2, <3>1, VarintIs DEF Index
    <3>3. QED
      BY <1>1, <2>5, <3>1, <3>2
  <2>6. CASE p.op \in {"none", "some"}
    <3>1. /\ p.op = "none" => f = <<ByteOf(0)>>
          /\ p.op = "some" => f = <<ByteOf(1)>>
          /\ b = << >>
      BY <2>2, <2>6 DEF FrontPart, BackPart
    <3>2. <<ByteOf(0)>> \in Seq(BitByte) /\ <<ByteOf(1)>> \in Seq(BitByte)
      BY BoolIs, Single DEF Zero
    <3>3. QED
      BY <1>1, <2>6, <3>1, <3>2
  <2>7. CASE p.op = "compound"
    <3>1. f = << >> /\ b = << >>
      BY <2>2, <2>7 DEF FrontPart, BackPart
    <3>2. QED
      BY <1>1, <2>7, <3>1
  <2>8. QED
    BY <1>4, <2>3, <2>4, <2>5, <2>6, <2>7, PartCases
<1>5. QED
  BY <1>3, <1>4

\* What begins with two parts' bytes is the same.
SameFront(s, target, a, y, b, z) ==
  PartFront(s, target, a) \o y = PartFront(s, target, b) \o z

\* Two parts differ in their lengths, and those are at the back.
LengthsDiffer(s, a, b) ==
  /\ s.params.lengths = "back"
  /\ \/ a.op = "bytes" /\ b.op = "bytes" /\ Len(a.bytes) # Len(b.bytes)
     \/ a.op = "seq" /\ b.op = "seq" /\ a.n # b.n

\* Different parts that can stand at the same place are told apart by what they
\* add to the front, or by their lengths, if those are at the back.
LEMMA PartApart ==
  ASSUME LenType \in Type, NEW s, NEW target, s.params.lengths \in {"front", "back"},
         NEW a, NEW b, IsPart(a), IsPart(b), a # b, Alike(a, b),
         NEW y \in Seq(BitByte), NEW z \in Seq(BitByte),
         SameFront(s, target, a, y, b, z)
  PROVE  LengthsDiffer(s, a, b)
<1> USE DEF LengthsDiffer
<1> DEFINE f == PartFront(s, target, a)
           g == PartFront(s, target, b)
           back == s.params.lengths = "back"
<1>1. /\ f \in Seq(BitByte)
      /\ a.op = "prim" => f = Encode(target, s.params, a.ty, a.w)
      /\ a.op = "bytes" /\ ~back => f = Length(Len(a.bytes)) \o a.bytes
      /\ a.op = "bytes" /\ back => f = a.bytes
      /\ a.op = "variant" => f = Index(a.n)
      /\ a.op = "seq" /\ ~back => f = Length(a.n)
      /\ a.op = "none" => f = <<ByteOf(0)>>
      /\ a.op = "some" => f = <<ByteOf(1)>>
  BY PartBytes
<1>2. /\ g \in Seq(BitByte)
      /\ b.op = "prim" => g = Encode(target, s.params, b.ty, b.w)
      /\ b.op = "bytes" /\ ~back => g = Length(Len(b.bytes)) \o b.bytes
      /\ b.op = "bytes" /\ back => g = b.bytes
      /\ b.op = "variant" => g = Index(b.n)
      /\ b.op = "seq" /\ ~back => g = Length(b.n)
      /\ b.op = "none" => g = <<ByteOf(0)>>
      /\ b.op = "some" => g = <<ByteOf(1)>>
  BY PartBytes
<1>3. f \o y = g \o z
  BY DEF SameFront
<1> HIDE DEF f, g
<1>4. Len(f) = Len(g) => f = g
  <2>1. SplitsFront(f, y, g, z)
    BY <1>1, <1>2, SplitFront
  <2>2. QED
    BY <1>3, <2>1 DEF SplitsFront
<1>5. \/ a.op = b.op /\ (a.op = "prim" => a.ty = b.ty)
      \/ {a.op, b.op} = {"none", "some"}
  BY DEF Alike
<1>6. U32 \in Type
  BY DEF Type
<1>7. CASE {a.op, b.op} = {"none", "some"}
  <2>1. (f = <<ByteOf(0)>> /\ g = <<ByteOf(1)>>) \/ (f = <<ByteOf(1)>> /\ g = <<ByteOf(0)>>)
    BY <1>1, <1>2, <1>7
  <2>2. ByteOf(0) # ByteOf(1)
    <3>1. ByteOf(0)[0] = 0 /\ ByteOf(1)[0] = 1
      BY DEF ByteOf, Weight
    <3>2. QED
      BY <3>1
  <2>3. <<ByteOf(0)>> # <<ByteOf(1)>> /\ Len(<<ByteOf(0)>>) = 1 /\ Len(<<ByteOf(1)>>) = 1
    BY <2>2
  <2>4. QED
    BY <1>4, <2>1, <2>3
<1>8. CASE a.op = "prim" /\ b.op = "prim" /\ a.ty = b.ty
  <2>1. /\ a = Number(a.ty, a.w) /\ b = Number(a.ty, b.w)
        /\ IsPrimitive(a.ty) /\ HasType(a.ty, a.w) /\ HasType(a.ty, b.w)
    <3>1. a = Number(a.ty, a.w) /\ IsPrimitive(a.ty) /\ HasType(a.ty, a.w)
      BY <1>8, PartCases
    <3>2. b = Number(b.ty, b.w) /\ HasType(b.ty, b.w)
      BY <1>8, PartCases
    <3>3. QED
      BY <1>8, <3>1, <3>2
  <2>2. f = Encode(target, s.params, a.ty, a.w) /\ g = Encode(target, s.params, a.ty, b.w)
    BY <1>1, <1>2, <1>8
  <2>3. a.w \in Word(a.ty) /\ b.w \in Word(a.ty)
    BY <2>1 DEF HasType
  <2>4. Len(f) = a.ty.bytes /\ Len(g) = a.ty.bytes
    BY <2>1, <2>2, <2>3, EncodeIs
  <2>5. DecodePrimitive(target, s.params, a.ty, Encode(target, s.params, a.ty, a.w)) = Decoded("Ok", a.w)
    BY <2>1, DecodeEncode
  <2>6. DecodePrimitive(target, s.params, a.ty, Encode(target, s.params, a.ty, b.w)) = Decoded("Ok", b.w)
    BY <2>1, DecodeEncode
  <2>7. Decoded("Ok", a.w) = Decoded("Ok", b.w)
    BY <1>4, <2>2, <2>4, <2>5, <2>6
  <2>8. Decoded("Ok", a.w).val = a.w /\ Decoded("Ok", b.w).val = b.w
    BY DEF Decoded
  <2>9. a.w = b.w
    BY <2>7, <2>8
  <2>10. a = b
    BY <2>1, <2>9
  <2>11. QED
    BY <2>10
<1>9. CASE a.op = "bytes" /\ b.op = "bytes"
  <2> DEFINE n == Len(a.bytes)
             m == Len(b.bytes)
  <2>1. a = Bytes(a.bytes) /\ a.bytes \in Seq(BitByte) /\ Fits(n)
    BY <1>9, PartCases
  <2>2. b = Bytes(b.bytes) /\ b.bytes \in Seq(BitByte) /\ Fits(m)
    BY <1>9, PartCases
  <2>3. a.bytes # b.bytes
    BY <2>1, <2>2
  <2>4. CASE back
    <3>1. f = a.bytes /\ g = b.bytes
      BY <1>1, <1>2, <1>9, <2>4
    <3>2. QED
      BY <1>4, <1>9, <2>3, <2>4, <3>1
  <2>5. CASE ~back
    <3>1. f = Length(n) \o a.bytes /\ g = Length(m) \o b.bytes
      BY <1>1, <1>2, <1>9, <2>5
    <3> HIDE DEF n, m
    <3>2. Length(n) \in Seq(BitByte) /\ Length(m) \in Seq(BitByte)
      BY <2>1, <2>2, VarintIs DEF Length
    <3>3. Associates(Length(n), a.bytes, y) /\ Associates(Length(m), b.bytes, z)
      BY <2>1, <2>2, <3>2, Association
    <3>4. Length(n) \o (a.bytes \o y) = Length(m) \o (b.bytes \o z)
      BY <1>3, <3>1, <3>3 DEF Associates
    <3>5. a.bytes \o y \in Seq(BitByte) /\ b.bytes \o z \in Seq(BitByte)
      BY <2>1, <2>2, ConcatProperties
    <3>6. Apart(LenType, n, m, a.bytes \o y, b.bytes \o z)
      BY <2>1, <2>2, <3>5, VarintApart
    <3>7. n = m
      BY <3>4, <3>6 DEF Apart, Length
    <3>8. Len(f) = Len(Length(n)) + Len(a.bytes) /\ Len(g) = Len(Length(m)) + Len(b.bytes)
      BY <2>1, <2>2, <3>1, <3>2, ConcatProperties
    <3>9. f = g
      BY <1>4, <3>7, <3>8 DEF n, m
    <3>10. SplitsFront(Length(n), a.bytes, Length(m), b.bytes)
      BY <2>1, <2>2, <3>2, SplitFront
    <3>11. a.bytes = b.bytes
      BY <3>1, <3>7, <3>9, <3>10 DEF SplitsFront
    <3>12. QED
      BY <2>3, <3>11
  <2>6. QED
    BY <2>4, <2>5
<1>10. CASE a.op = "variant" /\ b.op = "variant"
  <2>1. a = Variant(a.n) /\ Fits(a.n)
    BY <1>10, PartCases
  <2>2. b = Variant(b.n) /\ Fits(b.n)
    BY <1>10, PartCases
  <2>3. f = Index(a.n) /\ g = Index(b.n)
    BY <1>1, <1>2, <1>10
  <2>4. Apart(U32, a.n, b.n, y, z)
    BY <1>6, <2>1, <2>2, VarintApart
  <2>5. a.n = b.n
    BY <1>3, <2>3, <2>4 DEF Apart, Index
  <2>6. QED
    BY <2>1, <2>2, <2>5
<1>11. CASE a.op = "seq" /\ b.op = "seq"
  <2>1. a = SeqOrMap(a.n) /\ Fits(a.n)
    BY <1>11, PartCases
  <2>2. b = SeqOrMap(b.n) /\ Fits(b.n)
    BY <1>11, PartCases
  <2>3. a.n # b.n
    BY <2>1, <2>2
  <2>4. CASE ~back
    <3>1. f = Length(a.n) /\ g = Length(b.n)
      BY <1>1, <1>2, <1>11, <2>4
    <3>2. Apart(LenType, a.n, b.n, y, z)
      BY <2>1, <2>2, VarintApart
    <3>3. a.n = b.n
      BY <1>3, <3>1, <3>2 DEF Apart, Length
    <3>4. QED
      BY <2>3, <3>3
  <2>5. QED
    BY <1>11, <2>3, <2>4
<1>12. CASE a.op = b.op /\ a.op \in {"none", "some", "compound"}
  <2>1. a = b
    BY <1>12, PartCases
  <2>2. QED
    BY <2>1
<1>13. a.op \in {"prim", "bytes", "variant", "seq", "none", "some", "compound"}
  BY PartCases
<1>14. QED
  BY <1>5, <1>7, <1>8, <1>9, <1>10, <1>11, <1>12, <1>13

\* The parts of a value for Serializer.
SerdeValue(v) ==
  /\ Len(v) \in Nat /\ v = [i \in 1..Len(v) |-> v[i]]
  /\ \A i \in 1..Len(v) : IsPart(v[i])

\* What the parts add to either end, one after the other.
Fronts(s, target, v) == [i \in DOMAIN v |-> PartFront(s, target, v[i])]
Backs(s, target, v)  == [i \in DOMAIN v |-> PartBack(s, target, v[i])]

\* The record is the front parts and, from the end, the back parts.
RecordShape(s, target, v) ==
  LET f == Fronts(s, target, v)
      b == Backs(s, target, v)
  IN /\ f \in Seq(Seq(BitByte)) /\ Len(f) = Len(v)
     /\ \A i \in 1..Len(v) : f[i] = PartFront(s, target, v[i])
     /\ b \in Seq(Seq(BitByte)) /\ Len(b) = Len(v)
     /\ \A i \in 1..Len(v) : b[i] = PartBack(s, target, v[i])
     /\ RecordIn(s, target, v) = FlattenSeq(f) \o FlattenSeq(Reverse(b))
     /\ FlattenSeq(f) \in Seq(BitByte) /\ FlattenSeq(Reverse(b)) \in Seq(BitByte)
     /\ RecordIn(s, target, v) \in Seq(BitByte)

\* RecordShape holds of every value.
LEMMA RecordIs ==
  ASSUME LenType \in Type, NEW s, NEW target, s.params.lengths \in {"front", "back"},
         NEW v, SerdeValue(v)
  PROVE  RecordShape(s, target, v)
<1> DEFINE f == Fronts(s, target, v)
           b == Backs(s, target, v)
           n == Len(v)
<1>1. n \in Nat /\ DOMAIN v = 1..n /\ \A i \in 1..n : IsPart(v[i])
  BY DEF SerdeValue
<1>2. \A i \in 1..n : /\ PartFront(s, target, v[i]) \in Seq(BitByte)
                      /\ PartBack(s, target, v[i]) \in Seq(BitByte)
  BY <1>1, PartBytes
<1>3. /\ f = [i \in 1..n |-> PartFront(s, target, v[i])]
      /\ b = [i \in 1..n |-> PartBack(s, target, v[i])]
  BY <1>1 DEF Fronts, Backs
<1>4. RecordIn(s, target, v) = FlattenSeq(f) \o FlattenSeq(Reverse(b))
  <2> DEFINE calls == [i \in DOMAIN v |-> Call(s, target, v[i])]
  <2>1. DOMAIN calls = DOMAIN v /\ \A i \in DOMAIN v : calls[i] = Call(s, target, v[i])
    OBVIOUS
  <2>2. RecordIn(s, target, v) =
          FrontOf(s.params.lengths, calls) \o BackOf(s.params.lengths, calls)
    BY DEF RecordIn, RecordOf
  <2> HIDE DEF calls
  <2>3. [k \in DOMAIN calls |-> FrontPart(s.params.lengths, calls[k])] = f
    BY <2>1 DEF Fronts, PartFront
  <2>4. [k \in DOMAIN calls |-> BackPart(s.params.lengths, calls[k])] = b
    BY <2>1 DEF Backs, PartBack
  <2>5. FrontOf(s.params.lengths, calls) = FlattenSeq(f)
    BY <2>3 DEF FrontOf
  <2>6. BackOf(s.params.lengths, calls) = FlattenSeq(Reverse(b))
    BY <2>4 DEF BackOf
  <2>7. QED
    BY <2>2, <2>5, <2>6
<1> HIDE DEF f, b, n
<1>5. f \in Seq(Seq(BitByte)) /\ Len(f) = n /\ \A i \in 1..n : f[i] = PartFront(s, target, v[i])
  BY <1>1, <1>2, <1>3
<1>6. b \in Seq(Seq(BitByte)) /\ Len(b) = n /\ \A i \in 1..n : b[i] = PartBack(s, target, v[i])
  BY <1>1, <1>2, <1>3
<1>7. FlattenSeq(f) \in Seq(BitByte)
  BY <1>5, FlattenType
<1>8. FlattenSeq(Reverse(b)) \in Seq(BitByte)
  <2>1. Reverse(b) \in Seq(Seq(BitByte))
    BY <1>6, ReverseElements
  <2>2. QED
    BY <2>1, FlattenType
<1>9. RecordIn(s, target, v) \in Seq(BitByte)
  BY <1>4, <1>7, <1>8, ConcatProperties
<1>10. QED
  BY <1>4, <1>5, <1>6, <1>7, <1>8, <1>9 DEF f, b, n, RecordShape

\* What two records have in common up to a part: what is before it.
FrontUpTo(s, target, v, i) == FlattenSeq(SubSeq(Fronts(s, target, v), 1, i - 1))
BackUpTo(s, target, v, i)  == FlattenSeq(Reverse(SubSeq(Backs(s, target, v), 1, i - 1)))

Begun(s, target, v, i) ==
  /\ FrontUpTo(s, target, v, i) \in Seq(BitByte)
  /\ \E y \in Seq(BitByte) :
       RecordIn(s, target, v) = FrontUpTo(s, target, v, i) \o (PartFront(s, target, v[i]) \o y)
Ended(s, target, v, i) ==
  /\ BackUpTo(s, target, v, i) \in Seq(BitByte)
  /\ \E c \in Seq(BitByte) :
       RecordIn(s, target, v) = (c \o PartBack(s, target, v[i])) \o BackUpTo(s, target, v, i)

\* A part and what is around it.
LEMMA RecordAround ==
  ASSUME LenType \in Type, NEW s, NEW target, s.params.lengths \in {"front", "back"},
         NEW v, SerdeValue(v), NEW i \in 1..Len(v)
  PROVE  Begun(s, target, v, i) /\ Ended(s, target, v, i)
<1> DEFINE f == Fronts(s, target, v)
           b == Backs(s, target, v)
           r == RecordIn(s, target, v)
           ff == FlattenSeq(f)
           bb == FlattenSeq(Reverse(b))
           x == FrontUpTo(s, target, v, i)
           z == BackUpTo(s, target, v, i)
           p == PartFront(s, target, v[i])
           q == PartBack(s, target, v[i])
<1>1. /\ f \in Seq(Seq(BitByte)) /\ i \in 1..Len(f) /\ f[i] = p
      /\ b \in Seq(Seq(BitByte)) /\ i \in 1..Len(b) /\ b[i] = q
      /\ r = ff \o bb /\ ff \in Seq(BitByte) /\ bb \in Seq(BitByte)
  <2>1. RecordShape(s, target, v)
    BY RecordIs
  <2>2. /\ f \in Seq(Seq(BitByte)) /\ Len(f) = Len(v)
        /\ \A j \in 1..Len(v) : f[j] = PartFront(s, target, v[j])
        /\ b \in Seq(Seq(BitByte)) /\ Len(b) = Len(v)
        /\ \A j \in 1..Len(v) : b[j] = PartBack(s, target, v[j])
        /\ r = ff \o bb /\ ff \in Seq(BitByte) /\ bb \in Seq(BitByte)
    BY <2>1, Zenon DEF RecordShape
  <2> HIDE DEF f, b, r, ff, bb
  <2>3. QED
    BY <2>2
<1>2. Around(f, i, BitByte)
  BY <1>1, FlattenAround
<1>3. AroundFromEnd(b, i, BitByte)
  BY <1>1, FlattenAround
<1>4. x = FlattenSeq(SubSeq(f, 1, i - 1)) /\ z = FlattenSeq(Reverse(SubSeq(b, 1, i - 1)))
  BY DEF FrontUpTo, BackUpTo
<1>5. p \in Seq(BitByte) /\ q \in Seq(BitByte)
  BY <1>1, ElementOfSeq
<1> HIDE DEF f, b, r, ff, bb, x, z, p, q
<1>6. x \in Seq(BitByte) /\ \E t \in Seq(BitByte) : ff = x \o (p \o t)
  BY <1>1, <1>2, <1>4, Zenon DEF Around, ff
<1>7. z \in Seq(BitByte) /\ \E t \in Seq(BitByte) : bb = t \o (q \o z)
  BY <1>1, <1>3, <1>4, Zenon DEF AroundFromEnd, bb
<1>8. PICK t \in Seq(BitByte) : ff = x \o (p \o t)
  BY <1>6
<1>9. PICK u \in Seq(BitByte) : bb = u \o (q \o z)
  BY <1>7
<1>10. r = x \o (p \o (t \o bb)) /\ t \o bb \in Seq(BitByte)
  <2>1. p \o t \in Seq(BitByte) /\ t \o bb \in Seq(BitByte)
    BY <1>1, <1>5, ConcatProperties
  <2>2. Associates(x, p \o t, bb)
    BY <1>1, <1>6, <2>1, Association
  <2>3. Associates(p, t, bb)
    BY <1>1, <1>5, Association
  <2>4. QED
    BY <1>1, <1>8, <2>1, <2>2, <2>3 DEF Associates
<1>11. r = ((ff \o u) \o q) \o z /\ ff \o u \in Seq(BitByte)
  <2>1. ff \o u \in Seq(BitByte) /\ q \o z \in Seq(BitByte)
    BY <1>1, <1>5, <1>7, ConcatProperties
  <2>2. Associates(ff, u, q \o z)
    BY <1>1, <2>1, Association
  <2>3. Associates(ff \o u, q, z)
    BY <1>5, <1>7, <2>1, Association
  <2>4. QED
    BY <1>1, <1>9, <2>1, <2>2, <2>3 DEF Associates
<1>12. Begun(s, target, v, i)
  BY <1>6, <1>10, Zenon DEF Begun, x, p, r
<1>13. Ended(s, target, v, i)
  BY <1>7, <1>11, Zenon DEF Ended, z, q, r
<1>14. QED
  BY <1>12, <1>13

\* What Serializer writes is the same for values up to the part in which they differ.
LEMMA SameUpTo ==
  ASSUME LenType \in Type, NEW s, NEW target, s.params.lengths \in {"front", "back"},
         NEW v, NEW w, SerdeValue(v), SerdeValue(w), NEW i \in 1..Len(v), i \in 1..Len(w),
         \A j \in 1..i - 1 : v[j] = w[j]
  PROVE  /\ FrontUpTo(s, target, v, i) = FrontUpTo(s, target, w, i)
         /\ BackUpTo(s, target, v, i) = BackUpTo(s, target, w, i)
<1> DEFINE f == Fronts(s, target, v)
           g == Fronts(s, target, w)
           b == Backs(s, target, v)
           c == Backs(s, target, w)
<1>1. Len(v) \in Nat /\ Len(w) \in Nat
  BY DEF SerdeValue
<1>2. /\ f \in Seq(Seq(BitByte)) /\ Len(f) = Len(v)
      /\ b \in Seq(Seq(BitByte)) /\ Len(b) = Len(v)
      /\ \A j \in 1..Len(v) : f[j] = PartFront(s, target, v[j])
      /\ \A j \in 1..Len(v) : b[j] = PartBack(s, target, v[j])
  <2>1. RecordShape(s, target, v)
    BY RecordIs
  <2>2. QED
    BY <2>1, Zenon DEF RecordShape
<1>3. /\ g \in Seq(Seq(BitByte)) /\ Len(g) = Len(w)
      /\ c \in Seq(Seq(BitByte)) /\ Len(c) = Len(w)
      /\ \A j \in 1..Len(w) : g[j] = PartFront(s, target, w[j])
      /\ \A j \in 1..Len(w) : c[j] = PartBack(s, target, w[j])
  <2>1. RecordShape(s, target, w)
    BY RecordIs
  <2>2. QED
    BY <2>1, Zenon DEF RecordShape
<1> HIDE DEF f, g, b, c
<1> DEFINE k == i - 1
<1>4. k \in 0..Len(v) /\ k \in 0..Len(w) /\ \A j \in 1..k : j \in 1..Len(v) /\ j \in 1..Len(w)
  BY <1>1
<1>5. \A j \in 1..k : f[j] = g[j] /\ b[j] = c[j]
  BY <1>2, <1>3, <1>4
<1> HIDE DEF k
<1>6. SubSeq(f, 1, k) = SubSeq(g, 1, k)
  <2>1. /\ SubSeq(f, 1, k) \in Seq(Seq(BitByte)) /\ Len(SubSeq(f, 1, k)) = k
        /\ \A j \in 1..k : SubSeq(f, 1, k)[j] = f[j]
    BY <1>2, <1>4, CutElements
  <2>2. /\ SubSeq(g, 1, k) \in Seq(Seq(BitByte)) /\ Len(SubSeq(g, 1, k)) = k
        /\ \A j \in 1..k : SubSeq(g, 1, k)[j] = g[j]
    BY <1>3, <1>4, CutElements
  <2>3. QED
    BY <1>5, <2>1, <2>2, SeqEqual
<1>7. SubSeq(b, 1, k) = SubSeq(c, 1, k)
  <2>1. /\ SubSeq(b, 1, k) \in Seq(Seq(BitByte)) /\ Len(SubSeq(b, 1, k)) = k
        /\ \A j \in 1..k : SubSeq(b, 1, k)[j] = b[j]
    BY <1>2, <1>4, CutElements
  <2>2. /\ SubSeq(c, 1, k) \in Seq(Seq(BitByte)) /\ Len(SubSeq(c, 1, k)) = k
        /\ \A j \in 1..k : SubSeq(c, 1, k)[j] = c[j]
    BY <1>3, <1>4, CutElements
  <2>3. QED
    BY <1>5, <2>1, <2>2, SeqEqual
<1>8. QED
  BY <1>6, <1>7, Zenon DEF FrontUpTo, BackUpTo, f, g, b, c, k

\* The values of a schema for Serializer, and the part in which two differ.
DiffersAt(v, w, i) ==
  /\ i \in 1..Len(v) /\ i \in 1..Len(w)
  /\ v[i] # w[i] /\ \A j \in 1..i - 1 : v[j] = w[j]

\* Any two values of a schema for Serializer differ at some part.
LEMMA SerdeSchemaIs ==
  ASSUME NEW s, SerdeSchema(s)
  PROVE  /\ s.params.lengths \in {"front", "back"} /\ s.params.order # "Descending"
         /\ \A v \in s.values : SerdeValue(v)
         /\ \A v, w \in s.values : v # w => \E i \in Nat : DiffersAt(v, w, i) /\ Alike(v[i], w[i])
<1>1. ASSUME NEW v \in s.values PROVE SerdeValue(v) /\ DOMAIN v = 1..Len(v)
  <2>1. v \in Seq({v[i] : i \in DOMAIN v}) /\ \A i \in DOMAIN v : IsPart(v[i])
    BY DEF SerdeSchema
  <2>2. Len(v) \in Nat /\ DOMAIN v = 1..Len(v) /\ v = [i \in 1..Len(v) |-> v[i]]
    BY <2>1
  <2>3. QED
    BY <2>1, <2>2 DEF SerdeValue
<1>2. ASSUME NEW v \in s.values, NEW w \in s.values, v # w
      PROVE  \E i \in Nat : DiffersAt(v, w, i) /\ Alike(v[i], w[i])
  <2>1. PICK i \in DOMAIN v \cap DOMAIN w :
          v[i] # w[i] /\ Alike(v[i], w[i]) /\ \A j \in 1..i - 1 : v[j] = w[j]
    BY <1>2 DEF SerdeSchema
  <2>2. i \in 1..Len(v) /\ i \in 1..Len(w) /\ i \in Nat
    BY <1>1, <2>1
  <2>3. DiffersAt(v, w, i)
    BY <2>1, <2>2 DEF DiffersAt
  <2>4. QED
    BY <2>1, <2>2, <2>3
<1>3. QED
  BY <1>1, <1>2 DEF SerdeSchema

\* Records tell values apart.
LEMMA RecordsDiffer ==
  ASSUME LenType \in Type, NEW s, NEW target, s.params.lengths \in {"front", "back"},
         NEW v, NEW w, SerdeValue(v), SerdeValue(w), NEW i \in Nat, DiffersAt(v, w, i),
         Alike(v[i], w[i])
  PROVE  RecordIn(s, target, v) # RecordIn(s, target, w)
<1> DEFINE r == RecordIn(s, target, v)
           t == RecordIn(s, target, w)
           x == FrontUpTo(s, target, v, i)
           z == BackUpTo(s, target, v, i)
           a == v[i]
           b == w[i]
<1>1. SUFFICES ASSUME r = t PROVE FALSE
  OBVIOUS
<1>2. /\ i \in 1..Len(v) /\ i \in 1..Len(w) /\ a # b /\ \A j \in 1..i - 1 : v[j] = w[j]
      /\ IsPart(a) /\ IsPart(b)
  BY DEF DiffersAt, SerdeValue
<1>3. Begun(s, target, v, i) /\ Ended(s, target, v, i)
  BY <1>2, RecordAround
<1>4. Begun(s, target, w, i) /\ Ended(s, target, w, i)
  BY <1>2, RecordAround
<1>5. FrontUpTo(s, target, w, i) = x /\ BackUpTo(s, target, w, i) = z
  BY <1>2, SameUpTo
<1>6. Alike(a, b)
  OBVIOUS
<1>7. x \in Seq(BitByte) /\ z \in Seq(BitByte)
  BY <1>3 DEF Begun, Ended
<1>8. PICK y \in Seq(BitByte) : r = x \o (PartFront(s, target, a) \o y)
  BY <1>3, Zenon DEF Begun
<1>9. PICK u \in Seq(BitByte) : t = x \o (PartFront(s, target, b) \o u)
  BY <1>4, <1>5, Zenon DEF Begun
<1>10. PICK c \in Seq(BitByte) : r = (c \o PartBack(s, target, a)) \o z
  BY <1>3, Zenon DEF Ended
<1>11. PICK d \in Seq(BitByte) : t = (d \o PartBack(s, target, b)) \o z
  BY <1>4, <1>5, Zenon DEF Ended
<1> HIDE DEF r, t, x, z, a, b
<1> DEFINE f == PartFront(s, target, a)
           g == PartFront(s, target, b)
           h == PartBack(s, target, a)
           k == PartBack(s, target, b)
           back == s.params.lengths = "back"
<1>12. /\ f \in Seq(BitByte) /\ h \in Seq(BitByte)
       /\ a.op = "bytes" /\ back => h = Turned(Len(a.bytes))
       /\ a.op = "seq" /\ back => h = Turned(a.n)
  BY <1>2, PartBytes
<1>13. /\ g \in Seq(BitByte) /\ k \in Seq(BitByte)
       /\ b.op = "bytes" /\ back => k = Turned(Len(b.bytes))
       /\ b.op = "seq" /\ back => k = Turned(b.n)
  BY <1>2, PartBytes
<1>14. f \o y = g \o u
  <2> HIDE DEF f, g
  <2>1. f \o y \in Seq(BitByte) /\ g \o u \in Seq(BitByte)
    BY <1>12, <1>13, ConcatProperties
  <2>2. SplitsFront(x, f \o y, x, g \o u)
    BY <1>7, <2>1, SplitFront
  <2>3. x \o (f \o y) = x \o (g \o u)
    BY <1>1, <1>8, <1>9 DEF f, g
  <2>4. QED
    BY <2>2, <2>3 DEF SplitsFront
<1>15. /\ back
       /\ \/ a.op = "bytes" /\ b.op = "bytes" /\ Len(a.bytes) # Len(b.bytes)
          \/ a.op = "seq" /\ b.op = "seq" /\ a.n # b.n
  <2>1. SameFront(s, target, a, y, b, u)
    BY <1>14 DEF SameFront
  <2>2. a # b /\ IsPart(a) /\ IsPart(b)
    BY <1>2
  <2>3. /\ s.params.lengths \in {"front", "back"}
        /\ y \in Seq(BitByte) /\ u \in Seq(BitByte)
    OBVIOUS
  <2> HIDE DEF back, f, g, h, k
  <2>4. LenType \in Type
    OBVIOUS
  <2>5. LengthsDiffer(s, a, b)
    BY <1>6, <2>1, <2>2, <2>3, <2>4, PartApart
  <2>6. QED
    BY <2>5 DEF LengthsDiffer, back
<1>16. c \o h = d \o k
  <2> HIDE DEF h, k
  <2>1. c \o h \in Seq(BitByte) /\ d \o k \in Seq(BitByte)
    BY <1>12, <1>13, ConcatProperties
  <2>2. (c \o h) \o z = (d \o k) \o z
    BY <1>1, <1>10, <1>11 DEF h, k
  <2>3. Len(z) = Len(z)
    OBVIOUS
  <2> DEFINE l == c \o h
             m == d \o k
  <2>4. l \in Seq(BitByte) /\ m \in Seq(BitByte) /\ l \o z = m \o z
    BY <2>1, <2>2
  <2> HIDE DEF l, m
  <2>5. l = m
    BY <1>7, <2>3, <2>4, SplitEnd
  <2>6. QED
    BY <2>5 DEF l, m
<1>17. CASE a.op = "bytes" /\ b.op = "bytes" /\ Len(a.bytes) # Len(b.bytes)
  <2>1. Fits(Len(a.bytes)) /\ Fits(Len(b.bytes))
    BY <1>2, <1>17, PartCases
  <2>2. ApartAtBack(Len(a.bytes), Len(b.bytes), c, d)
    BY <2>1, TurnedApart
  <2>3. c \o Turned(Len(a.bytes)) = d \o Turned(Len(b.bytes))
    BY <1>12, <1>13, <1>15, <1>16, <1>17
  <2>4. QED
    BY <1>17, <2>2, <2>3 DEF ApartAtBack
<1>18. CASE a.op = "seq" /\ b.op = "seq" /\ a.n # b.n
  <2>1. Fits(a.n) /\ Fits(b.n)
    BY <1>2, <1>18, PartCases
  <2>2. ApartAtBack(a.n, b.n, c, d)
    BY <2>1, TurnedApart
  <2>3. c \o Turned(a.n) = d \o Turned(b.n)
    BY <1>12, <1>13, <1>15, <1>16, <1>18
  <2>4. QED
    BY <1>18, <2>2, <2>3 DEF ApartAtBack
<1>19. QED
  BY <1>15, <1>17, <1>18

\* The order of parts is kept by what they add to the front of AscendingOrder.
LEMMA PartOrder ==
  ASSUME LenType \in Type, NEW s, NEW target,
         s.params.lengths = "back", s.params.endianness = "Big", s.params.order # "Descending",
         NEW a, NEW b, IsPart(a), IsPart(b), Alike(a, b), Kept(a, b) \/ Kept(b, a), PartLess(a, b)
  PROVE  Before(PartFront(s, target, a), PartFront(s, target, b))
<1> DEFINE f == PartFront(s, target, a)
           g == PartFront(s, target, b)
<1>1. /\ a.op = "prim" => f = Encode(target, s.params, a.ty, a.w)
      /\ a.op = "bytes" => f = a.bytes
      /\ a.op = "variant" => f = Index(a.n)
      /\ a.op = "none" => f = <<ByteOf(0)>>
      /\ a.op = "some" => f = <<ByteOf(1)>>
  BY PartBytes
<1>2. /\ b.op = "prim" => g = Encode(target, s.params, b.ty, b.w)
      /\ b.op = "bytes" => g = b.bytes
      /\ b.op = "variant" => g = Index(b.n)
      /\ b.op = "none" => g = <<ByteOf(0)>>
      /\ b.op = "some" => g = <<ByteOf(1)>>
  BY PartBytes
<1> HIDE DEF f, g
<1>3. \/ a.op = b.op /\ (a.op = "prim" => a.ty = b.ty)
      \/ {a.op, b.op} = {"none", "some"}
  BY DEF Alike
<1>4. CASE a.op = "prim"
  <2>1. b.op = "prim" /\ a.ty = b.ty
    BY <1>3, <1>4
  <2>2. IsPrimitive(a.ty) /\ a.w \in Word(a.ty)
    BY <1>4, PartCases DEF HasType
  <2>3. b.w \in Word(a.ty)
    BY <2>1, PartCases DEF HasType
  <2>4. NumberLess(a.ty, a.w, b.w)
    BY <1>4 DEF PartLess
  <2>5. Before(Encode(target, s.params, a.ty, a.w), Encode(target, s.params, a.ty, b.w))
    BY <2>2, <2>3, <2>4, EncodeOrder
  <2>6. QED
    BY <1>1, <1>2, <1>4, <2>1, <2>5 DEF f, g
<1>5. CASE a.op = "variant"
  <2>1. b.op = "variant"
    BY <1>3, <1>5
  <2>2. a.n < 128 /\ b.n < 128 /\ a.n < b.n
    BY <1>5, <2>1 DEF Kept, PartLess
  <2>3. Fits(a.n)
    BY <1>5, PartCases
  <2>4. Fits(b.n)
    BY <2>1, PartCases
  <2>5. a.n \in 0..127 /\ b.n \in 0..127
    BY <2>2, <2>3, <2>4 DEF Fits
  <2>6. Before(Index(a.n), Index(b.n))
    BY <2>2, <2>5, SmallOrder DEF Index
  <2>7. QED
    BY <1>1, <1>2, <1>5, <2>1, <2>6 DEF f, g
<1>6. CASE a.op = "bytes"
  <2>1. b.op = "bytes"
    BY <1>3, <1>6
  <2>2. /\ ~IsPrefix(a.bytes, b.bytes) /\ KeyBefore(a.bytes, b.bytes)
    BY <1>6, <2>1 DEF Kept, PartLess
  <2>3. a.bytes \in Seq(BitByte)
    BY <1>6, PartCases
  <2>4. b.bytes \in Seq(BitByte)
    BY <2>1, PartCases
  <2>5. IsStrictPrefix(a.bytes, b.bytes) \/ Before(a.bytes, b.bytes)
    BY <2>2, <2>3, <2>4, BeforeIs
  <2>6. Before(a.bytes, b.bytes)
    BY <2>2, <2>5 DEF IsStrictPrefix
  <2>7. QED
    BY <1>1, <1>2, <1>6, <2>1, <2>6 DEF f, g
<1>7. CASE a.op \notin {"prim", "variant", "bytes"}
  <2>1. a.op = "none" /\ b.op = "some"
    BY <1>7 DEF PartLess
  <2>2. HighDiff(ByteOf(0), ByteOf(1), 7)
    <3>1. 0 \in 0..255 /\ 1 \in 0..255 /\ 0 < 1
      OBVIOUS
    <3>2. QED
      BY <3>1, ByteOfOrder
  <2>3. ByteOf(0) \in BitByte /\ ByteOf(1) \in BitByte
    BY BoolIs DEF Zero
  <2>4. ByteBefore(ByteOf(0), ByteOf(1))
    BY <2>2, <2>3, ByteBeforeIs
  <2>5. f = <<ByteOf(0)>> /\ g = <<ByteOf(1)>>
    BY <1>1, <1>2, <2>1
  <2>6. Before(f, g)
    BY <2>4, <2>5 DEF Before
  <2>7. QED
    BY <2>6 DEF f, g
<1>8. QED
  BY <1>4, <1>5, <1>6, <1>7

-----------------------------------------------------------------------------

(* Keys of values: their type, and that no two values share one.            *)

\* A schema as the assumption has it, in the terms of the lemmas.
DirectIs(s) == Fields(s) /\ \A v \in s.values : DirectValue(s, v)
SerdeIs(s) ==
  /\ s.params.lengths \in {"front", "back"} /\ s.params.order # "Descending"
  /\ \A v \in s.values : SerdeValue(v)
  /\ \A v, w \in s.values : v # w => \E i \in Nat : DiffersAt(v, w, i) /\ Alike(v[i], w[i])
SchemaIs(s) ==
  \/ s.via = "direct" /\ DirectIs(s)
  \/ s.via = "serde" /\ SerdeIs(s)

\* Every schema is of one of the two kinds.
LEMMA SchemasAre == ASSUME NEW n \in DOMAIN Schema PROVE SchemaIs(Schema[n])
<1>1. \/ Schema[n].via = "direct" /\ DirectSchema(Schema[n])
      \/ Schema[n].via = "serde" /\ SerdeSchema(Schema[n])
  BY StoreAssumption
<1> DEFINE s == Schema[n]
<1> HIDE DEF s
<1>2. ASSUME DirectSchema(s) PROVE DirectIs(s)
  BY <1>2, DirectSchemaIs DEF DirectIs
<1>3. ASSUME SerdeSchema(s) PROVE SerdeIs(s)
  BY <1>3, SerdeSchemaIs DEF SerdeIs
<1>4. QED
  BY <1>1, <1>2, <1>3 DEF SchemaIs, s

\* Keys are byte strings.
LEMMA KeyType ==
  ASSUME NEW s, SchemaIs(s), NEW target, NEW v \in s.values
  PROVE  KeyIn(s, target, v) \in Seq(BitByte)
<1>1. CASE s.via = "direct"
  <2>1. Fields(s) /\ DirectValue(s, v)
    BY <1>1 DEF SchemaIs, DirectIs
  <2>2. QED
    BY <1>1, <2>1, DirectRead
<1>2. CASE s.via = "serde"
  <2>1. s.params.lengths \in {"front", "back"} /\ SerdeValue(v)
    BY <1>2 DEF SchemaIs, SerdeIs
  <2>2. LenType \in Type
    BY StoreAssumption
  <2>3. RecordShape(s, target, v)
    BY <2>1, <2>2, RecordIs
  <2>4. RecordIn(s, target, v) \in Seq(BitByte)
    BY <2>3 DEF RecordShape
  <2>5. ComplementBytes(RecordIn(s, target, v)) \in Seq(BitByte)
    BY <2>4, ComplementOrder
  <2>6. QED
    BY <1>2, <2>4, <2>5 DEF KeyIn
<1>3. QED
  BY <1>1, <1>2 DEF SchemaIs

\* Different values have different keys.
THEOREM KeysDiffer ==
  ASSUME NEW s, SchemaIs(s), NEW target, NEW v \in s.values, NEW w \in s.values, v # w
  PROVE  KeyIn(s, target, v) # KeyIn(s, target, w)
<1>1. CASE s.via = "direct"
  <2>1. Fields(s) /\ DirectValue(s, v) /\ DirectValue(s, w)
    BY <1>1 DEF SchemaIs, DirectIs
  <2>2. ValueIn(s, target, KeyIn(s, target, v)) = Decoded("Ok", v)
    BY <1>1, <2>1, DirectRead
  <2>3. ValueIn(s, target, KeyIn(s, target, w)) = Decoded("Ok", w)
    BY <1>1, <2>1, DirectRead
  <2>4. Decoded("Ok", v).val = v /\ Decoded("Ok", w).val = w
    BY DEF Decoded
  <2>5. QED
    BY <2>2, <2>3, <2>4
<1>2. CASE s.via = "serde"
  <2>1. s.params.lengths \in {"front", "back"} /\ SerdeValue(v) /\ SerdeValue(w)
    BY <1>2 DEF SchemaIs, SerdeIs
  <2>2. LenType \in Type
    BY StoreAssumption
  <2>3. PICK i \in Nat : DiffersAt(v, w, i) /\ Alike(v[i], w[i])
    BY <1>2 DEF SchemaIs, SerdeIs
  <2>4. RecordIn(s, target, v) # RecordIn(s, target, w)
    BY <2>1, <2>2, <2>3, RecordsDiffer
  <2>5. RecordShape(s, target, v) /\ RecordShape(s, target, w)
    BY <2>1, <2>2, RecordIs
  <2>6. RecordIn(s, target, v) \in Seq(BitByte) /\ RecordIn(s, target, w) \in Seq(BitByte)
    BY <2>5 DEF RecordShape
  <2>7. /\ ComplementBytes(ComplementBytes(RecordIn(s, target, v))) = RecordIn(s, target, v)
        /\ ComplementBytes(ComplementBytes(RecordIn(s, target, w))) = RecordIn(s, target, w)
    BY <2>6, ComplementOrder
  <2>8. QED
    BY <1>2, <2>4, <2>7 DEF KeyIn
<1>3. QED
  BY <1>1, <1>2 DEF SchemaIs

-----------------------------------------------------------------------------

(* Keys in the order of values.                                             *)

\* The first difference is where two values begin to differ.
LEMMA FirstDiffIs ==
  ASSUME NEW v, NEW w, DOMAIN v = 1..Len(v), DOMAIN w = 1..Len(w), NEW i \in Nat,
         DiffersAt(v, w, i)
  PROVE  FirstDiff(v, w) = i
<1> DEFINE D == {j \in DOMAIN v \cap DOMAIN w : v[j] # w[j]}
<1>1. i \in D
  BY DEF DiffersAt
<1>2. \A j \in D : j \in Int /\ ~(j \in 1..i - 1)
  BY DEF DiffersAt
<1>3. \A j \in D : j \in Nat /\ j >= 1
  OBVIOUS
<1>4. \A j \in D : i <= j
  BY <1>2, <1>3
<1>5. FirstDiff(v, w) = CHOOSE j \in D : \A k \in D : j <= k
  BY DEF FirstDiff, Min
<1> HIDE DEF D
<1>6. \A j \in D : (\A k \in D : j <= k) => j = i
  BY <1>1, <1>2, <1>4
<1>7. QED
  BY <1>1, <1>4, <1>5, <1>6

\* Values of a direct schema that differ do so in a field.
LEMMA DirectDiffers ==
  ASSUME NEW s, Fields(s), NEW v, NEW w, DirectValue(s, v), DirectValue(s, w), v # w
  PROVE  \E i \in Nat : DiffersAt(v, w, i)
<1> DEFINE n == Len(s.fields)
           D == {j \in 1..n : v[j] # w[j]}
<1>1. n \in Nat /\ v = [i \in 1..n |-> v[i]] /\ w = [i \in 1..n |-> w[i]]
  BY DEF Fields, DirectValue
<1>2. D # {}
  BY <1>1
<1>3. D \in SUBSET Nat
  BY <1>1
<1>4. PICK i \in D : \A j \in D : i <= j
  BY <1>2, <1>3, LeastOf
<1>5. Len(v) = n /\ Len(w) = n
  BY <1>1
<1>6. i \in 1..n /\ v[i] # w[i] /\ i \in Nat
  BY <1>1, <1>4
<1>7. ASSUME NEW j \in 1..i - 1 PROVE v[j] = w[j]
  <2>1. j \in 1..n /\ ~(i <= j)
    BY <1>1, <1>6
  <2>2. QED
    BY <1>4, <2>1
<1>8. QED
  BY <1>5, <1>6, <1>7 DEF DiffersAt

\* Keys of primitives keep the order of the first field in which values differ, or
\* turn it round.
LEMMA DirectOrder ==
  ASSUME NEW s, Fields(s), s.via = "direct", NEW target,
         NEW v, NEW w, DirectValue(s, v), DirectValue(s, w), NEW i \in Nat, DiffersAt(v, w, i),
         s.fields[i].params.endianness = "Big",
         IF s.fields[i].params.order = "Descending" THEN PartLess(w[i], v[i])
         ELSE PartLess(v[i], w[i])
  PROVE  Before(KeyIn(s, target, v), KeyIn(s, target, w))
<1> DEFINE n == Len(s.fields)
           f == Encoded(s, target, v)
           g == Encoded(s, target, w)
           p == s.fields[i].params
           ty == s.fields[i].ty
           x == FlattenSeq(SubSeq(f, 1, i - 1))
           z == FlattenSeq(SubSeq(g, 1, i - 1))
<1>1. n \in Nat /\ i \in 1..n
  BY DEF Fields, DirectValue, DiffersAt
<1>2. /\ FieldBytesOf(s, f)
      /\ \A j \in 1..n : f[j] = Encode(target, s.fields[j].params, s.fields[j].ty, v[j].w)
  BY DirectFields
<1>3. /\ FieldBytesOf(s, g)
      /\ \A j \in 1..n : g[j] = Encode(target, s.fields[j].params, s.fields[j].ty, w[j].w)
  BY DirectFields
<1>4. KeyIn(s, target, v) = FlattenSeq(f) /\ KeyIn(s, target, w) = FlattenSeq(g)
  BY DirectRead
<1> HIDE DEF f, g
<1>5. /\ f \in Seq(Seq(BitByte)) /\ Len(f) = n
      /\ g \in Seq(Seq(BitByte)) /\ Len(g) = n
  BY <1>2, <1>3 DEF FieldBytesOf
<1>6. IsPrimitive(ty) /\ v[i].w \in Word(ty) /\ w[i].w \in Word(ty)
  BY <1>1 DEF Fields, DirectValue, HasType
<1>7. /\ v[i].op = "prim" /\ v[i].ty = ty
      /\ w[i].op = "prim" /\ w[i].ty = ty
  <2>1. v[i] = Number(ty, v[i].w) /\ w[i] = Number(ty, w[i].w)
    BY <1>1 DEF DirectValue
  <2>2. \A u : Number(ty, u).op = "prim" /\ Number(ty, u).ty = ty
    BY DEF Number
  <2>3. QED
    BY <2>1, <2>2
<1>8. /\ PartLess(v[i], w[i]) = NumberLess(ty, v[i].w, w[i].w)
      /\ PartLess(w[i], v[i]) = NumberLess(ty, w[i].w, v[i].w)
  BY <1>7 DEF PartLess
<1>9. Before(f[i], g[i])
  <2>1. CASE p.order = "Descending"
    <3>1. NumberLess(ty, w[i].w, v[i].w)
      BY <1>8, <2>1
    <3>2. Before(Encode(target, p, ty, v[i].w), Encode(target, p, ty, w[i].w))
      BY <1>6, <2>1, <3>1, EncodeOrder
    <3>3. QED
      BY <1>1, <1>2, <1>3, <3>2
  <2>2. CASE p.order # "Descending"
    <3>1. NumberLess(ty, v[i].w, w[i].w)
      BY <1>8, <2>2
    <3>2. Before(Encode(target, p, ty, v[i].w), Encode(target, p, ty, w[i].w))
      BY <1>6, <2>2, <3>1, EncodeOrder
    <3>3. QED
      BY <1>1, <1>2, <1>3, <3>2
  <2>3. QED
    BY <2>1, <2>2
<1>10. Around(f, i, BitByte) /\ Around(g, i, BitByte)
  BY <1>1, <1>5, FlattenAround
<1>11. SubSeq(f, 1, i - 1) = SubSeq(g, 1, i - 1)
  <2>1. i - 1 \in 0..n
    BY <1>1
  <2>2. /\ SubSeq(f, 1, i - 1) \in Seq(Seq(BitByte)) /\ Len(SubSeq(f, 1, i - 1)) = i - 1
        /\ \A j \in 1..i - 1 : SubSeq(f, 1, i - 1)[j] = f[j]
    BY <1>5, <2>1, CutElements
  <2>3. /\ SubSeq(g, 1, i - 1) \in Seq(Seq(BitByte)) /\ Len(SubSeq(g, 1, i - 1)) = i - 1
        /\ \A j \in 1..i - 1 : SubSeq(g, 1, i - 1)[j] = g[j]
    BY <1>5, <2>1, CutElements
  <2>4. \A j \in 1..i - 1 : f[j] = g[j]
    <3>1. \A j \in 1..i - 1 : j \in 1..n
      BY <1>1
    <3>2. QED
      BY <1>2, <1>3, <3>1 DEF DiffersAt
  <2>5. QED
    BY <2>2, <2>3, <2>4, SeqEqual
<1>12. x = z /\ x \in Seq(BitByte)
  BY <1>10, <1>11, Zenon DEF Around, x, z
<1>13. f[i] \in Seq(BitByte) /\ g[i] \in Seq(BitByte)
  BY <1>1, <1>5, ElementOfSeq
<1> DEFINE a == f[i]
           b == g[i]
<1>14. PICK y \in Seq(BitByte) : FlattenSeq(f) = x \o (a \o y)
  BY <1>10, Zenon DEF Around, x, a
<1>15. PICK u \in Seq(BitByte) : FlattenSeq(g) = x \o (b \o u)
  BY <1>10, <1>12, Zenon DEF Around, x, z, b
<1>16. Before(a, b) /\ a \in Seq(BitByte) /\ b \in Seq(BitByte)
  BY <1>9, <1>13
<1> HIDE DEF a, b, x
<1>17. Before(x \o (a \o y), x \o (b \o u))
  BY <1>12, <1>16, BeforeWithin
<1>18. QED
  BY <1>4, <1>14, <1>15, <1>17

\* Records keep the order of the first part in which values differ.
LEMMA RecordOrder ==
  ASSUME LenType \in Type, NEW s, NEW target,
         s.params.lengths = "back", s.params.endianness = "Big", s.params.order # "Descending",
         NEW v, NEW w, SerdeValue(v), SerdeValue(w), NEW i \in Nat, DiffersAt(v, w, i),
         Alike(v[i], w[i]), Kept(v[i], w[i]) \/ Kept(w[i], v[i]), PartLess(v[i], w[i])
  PROVE  Before(RecordIn(s, target, v), RecordIn(s, target, w))
<1> DEFINE a == PartFront(s, target, v[i])
           b == PartFront(s, target, w[i])
           x == FrontUpTo(s, target, v, i)
<1>1. /\ i \in 1..Len(v) /\ i \in 1..Len(w) /\ \A j \in 1..i - 1 : v[j] = w[j]
      /\ IsPart(v[i]) /\ IsPart(w[i])
  BY DEF DiffersAt, SerdeValue
<1>2. s.params.lengths \in {"front", "back"}
  OBVIOUS
<1>3. Before(a, b)
  BY <1>1, PartOrder
<1>4. a \in Seq(BitByte) /\ b \in Seq(BitByte)
  BY <1>1, <1>2, PartBytes
<1>5. Begun(s, target, v, i)
  BY <1>1, <1>2, RecordAround
<1>6. Begun(s, target, w, i)
  BY <1>1, <1>2, RecordAround
<1>7. FrontUpTo(s, target, w, i) = x
  BY <1>1, <1>2, SameUpTo
<1>8. PICK y \in Seq(BitByte) : RecordIn(s, target, v) = x \o (a \o y)
  BY <1>5, Zenon DEF Begun
<1>9. PICK z \in Seq(BitByte) : RecordIn(s, target, w) = x \o (b \o z)
  BY <1>6, <1>7, Zenon DEF Begun
<1>10. x \in Seq(BitByte)
  BY <1>5 DEF Begun
<1> HIDE DEF a, b, x
<1>11. Before(x \o (a \o y), x \o (b \o z))
  BY <1>3, <1>4, <1>10, BeforeWithin
<1>12. QED
  BY <1>8, <1>9, <1>11

\* The database sorts the keys as the values must be scanned.
THEOREM KeysOrdered ==
  ASSUME name \in DOMAIN Schema, NEW v \in schema.values, NEW w \in schema.values, v # w,
         MustPrecede(v, w)
  PROVE  KeyBefore(KeyOf(v), KeyOf(w))
<1> DEFINE s == schema
           i == FirstDiff(v, w)
<1>1. SchemaIs(s)
  BY SchemasAre DEF schema
<1>2. /\ Sorting(i) /\ Kept(v[i], w[i])
      /\ IF Reversed(i) THEN PartLess(w[i], v[i]) ELSE PartLess(v[i], w[i])
  BY DEF MustPrecede
<1>3. /\ KeyOf(v) = KeyIn(s, host, v) /\ KeyOf(w) = KeyIn(s, host, w)
      /\ KeyOf(v) \in Seq(BitByte) /\ KeyOf(w) \in Seq(BitByte)
  <2>1. KeyIn(s, host, v) \in Seq(BitByte)
    BY <1>1, KeyType
  <2>2. KeyIn(s, host, w) \in Seq(BitByte)
    BY <1>1, KeyType
  <2>3. QED
    BY <2>1, <2>2 DEF KeyOf
<1>4. SUFFICES Before(KeyIn(s, host, v), KeyIn(s, host, w))
  BY <1>3, BeforeIs
<1>5. v \in s.values /\ w \in s.values /\ v # w
  OBVIOUS
<1>6. CASE s.via = "direct"
  <2>1. /\ s.fields[i].params.endianness = "Big"
        /\ IF s.fields[i].params.order = "Descending" THEN PartLess(w[i], v[i])
           ELSE PartLess(v[i], w[i])
    BY <1>2, <1>6 DEF Sorting, Reversed
  <2> HIDE DEF i, s
  <2>2. Fields(s) /\ DirectValue(s, v) /\ DirectValue(s, w)
    BY <1>1, <1>5, <1>6 DEF SchemaIs, DirectIs
  <2>3. PICK k \in Nat : DiffersAt(v, w, k)
    BY <1>5, <2>2, DirectDiffers
  <2>4. DOMAIN v = 1..Len(v) /\ DOMAIN w = 1..Len(w)
    <3>1. Len(s.fields) \in Nat /\ v = [j \in 1..Len(s.fields) |-> v[j]]
                                /\ w = [j \in 1..Len(s.fields) |-> w[j]]
      BY <2>2 DEF Fields, DirectValue
    <3>2. QED
      BY <3>1
  <2>5. i = k
    BY <2>3, <2>4, FirstDiffIs DEF i
  <2>6. i \in Nat /\ DiffersAt(v, w, i)
    BY <2>3, <2>5
  <2>7. QED
    BY <1>6, <2>1, <2>2, <2>6, DirectOrder
<1>7. CASE s.via = "serde"
  <2>1. /\ s.params.endianness = "Big" /\ s.params.lengths = "back"
        /\ IF s.order = "Descending" THEN PartLess(w[i], v[i]) ELSE PartLess(v[i], w[i])
    BY <1>2, <1>7 DEF Sorting, Reversed
  <2> HIDE DEF i, s
  <2>2. SerdeValue(v) /\ SerdeValue(w) /\ s.params.order # "Descending" /\ LenType \in Type
    BY <1>1, <1>5, <1>7, StoreAssumption DEF SchemaIs, SerdeIs
  <2>3. PICK k \in Nat : DiffersAt(v, w, k) /\ Alike(v[k], w[k])
    BY <1>1, <1>5, <1>7 DEF SchemaIs, SerdeIs
  <2>4. DOMAIN v = 1..Len(v) /\ DOMAIN w = 1..Len(w)
    BY <2>2 DEF SerdeValue
  <2>5. i = k
    BY <2>3, <2>4, FirstDiffIs DEF i
  <2>6. /\ i \in Nat /\ DiffersAt(v, w, i) /\ DiffersAt(w, v, i)
        /\ Alike(v[i], w[i]) /\ Alike(w[i], v[i])
    BY <2>3, <2>5 DEF DiffersAt, Alike
  <2> DEFINE r == RecordIn(s, host, v)
             t == RecordIn(s, host, w)
  <2>7. RecordShape(s, host, v) /\ RecordShape(s, host, w)
    BY <2>1, <2>2, RecordIs
  <2>8. r \in Seq(BitByte) /\ t \in Seq(BitByte)
    BY <2>7 DEF RecordShape
  <2>9. CASE s.order = "Descending"
    <3>1. PartLess(w[i], v[i])
      BY <2>1, <2>9
    <3>2. Before(t, r)
      BY <1>2, <2>1, <2>2, <2>6, <3>1, RecordOrder
    <3> HIDE DEF r, t
    <3>3. Before(ComplementBytes(r), ComplementBytes(t))
      BY <2>8, <3>2, ComplementOrder
    <3>4. QED
      BY <1>7, <2>9, <3>3 DEF KeyIn, r, t
  <2>10. CASE s.order # "Descending"
    <3>1. PartLess(v[i], w[i])
      BY <2>1, <2>10
    <3>2. Before(r, t)
      BY <1>2, <2>1, <2>2, <2>6, <3>1, RecordOrder
    <3>3. QED
      BY <1>7, <2>10, <3>2 DEF KeyIn
  <2>11. QED
    BY <2>9, <2>10
<1>8. QED
  BY <1>1, <1>6, <1>7 DEF SchemaIs

\* A finite set of byte strings that is not empty has a least one.
IsLeast(k, S) == k \in S /\ \A l \in S \ {k} : KeyBefore(k, l)

\* Least is it.
LEMMA LeastIs ==
  ASSUME NEW S \in SUBSET Seq(BitByte), IsFiniteSet(S), S # {}
  PROVE  IsLeast(Least(S), S)
<1> DEFINE P(n) == \A Z \in SUBSET Seq(BitByte) :
                     IsFiniteSet(Z) /\ Cardinality(Z) = n /\ Z # {} => \E k \in Z : IsLeast(k, Z)
           T == {n \in Nat : P(n)}
<1>1. P(0)
  BY FS_EmptySet
<1>2. ASSUME NEW n \in Nat, P(n) PROVE P(n + 1)
  <2>1. SUFFICES ASSUME NEW Z \in SUBSET Seq(BitByte), IsFiniteSet(Z), Cardinality(Z) = n + 1
                 PROVE  \E k \in Z : IsLeast(k, Z)
    OBVIOUS
  <2>2. PICK x \in Z : TRUE
    BY <2>1, FS_EmptySet
  <2> DEFINE Y == Z \ {x}
  <2>3. IsFiniteSet(Y) /\ Cardinality(Y) = n
    <3>1. x \in Z /\ IsFiniteSet(Z) /\ Cardinality(Z) = n + 1 /\ (n + 1) - 1 = n
      BY <2>1, <2>2
    <3>2. /\ IsFiniteSet(Z \ {x})
          /\ Cardinality(Z \ {x}) = IF x \in Z THEN Cardinality(Z) - 1 ELSE Cardinality(Z)
      BY <3>1, FS_RemoveElement
    <3>3. QED
      BY <3>1, <3>2
  <2>4. CASE Y = {}
    BY <2>2, <2>4 DEF IsLeast
  <2>5. CASE Y # {}
    <3>1. Y \in SUBSET Seq(BitByte)
      OBVIOUS
    <3>2. PICK k \in Y : IsLeast(k, Y)
      BY <1>2, <2>3, <2>5, <3>1
    <3>3. k \in Z /\ k \in Seq(BitByte) /\ x \in Seq(BitByte) /\ k # x
      OBVIOUS
    <3>4. KeyBefore(x, k) \/ KeyBefore(k, x)
      BY <3>3, KeyOrder
    <3>5. ASSUME KeyBefore(k, x) PROVE IsLeast(k, Z)
      BY <3>2, <3>3, <3>5 DEF IsLeast
    <3>6. ASSUME KeyBefore(x, k) PROVE IsLeast(x, Z)
      <4>1. ASSUME NEW l \in Z \ {x} PROVE KeyBefore(x, l)
        <5>1. l = k \/ KeyBefore(k, l)
          BY <3>2 DEF IsLeast
        <5>2. l \in Seq(BitByte)
          OBVIOUS
        <5>3. KeyBefore(k, l) => KeyBefore(x, l)
          BY <3>3, <3>6, <5>2, KeyOrder
        <5>4. QED
          BY <3>6, <5>1, <5>3
      <4>2. QED
        BY <2>2, <4>1 DEF IsLeast
    <3>7. QED
      BY <2>2, <3>3, <3>4, <3>5, <3>6
  <2>6. QED
    BY <2>4, <2>5
<1>3. Nat \subseteq T
  <2> HIDE DEF P
  <2>1. 0 \in T
    BY <1>1
  <2>2. \A n \in Nat : n \in T => n + 1 \in T
    BY <1>2
  <2> HIDE DEF T
  <2>3. QED
    BY <2>1, <2>2, Induction
<1>4. \E k \in S : IsLeast(k, S)
  <2>1. Cardinality(S) \in Nat
    BY FS_CardinalityType
  <2>2. P(Cardinality(S))
    BY <1>3, <2>1
  <2>3. QED
    BY <2>2
<1>5. Least(S) = CHOOSE k \in S : \A l \in S \ {k} : KeyBefore(k, l)
  BY DEF Least
<1>6. QED
  BY <1>4, <1>5 DEF IsLeast

-----------------------------------------------------------------------------

(* The database and the scan: the inductive invariant.                      *)

\* What the scan makes of a key.
Read(key) == IF schema.via = "direct" THEN ValueOf(key) ELSE Unread

Typing ==
  /\ pc \in {"filling", "scanning", "done"}
  /\ name \in DOMAIN Schema
  /\ put \subseteq schema.values /\ IsFiniteSet(put)
  /\ table \subseteq Seq(BitByte) /\ IsFiniteSet(table)
  /\ scanned \in Seq(table)
  /\ got \in Seq({Read(k) : k \in table})

\* What was put is in the database.
Stored == \A v \in put : KeyOf(v) \in table

\* The scan goes up.
Sorted == \A j \in 1..Len(scanned) : \A i \in 1..j - 1 : KeyBefore(scanned[i], scanned[j])

\* What was decoded is what the key is decoded to.
Reading == /\ Len(got) = Len(scanned)
           /\ \A i \in 1..Len(scanned) : got[i] = Read(scanned[i])

\* The scan leaves nothing behind.
Met(k) == \E i \in 1..Len(scanned) : scanned[i] = k
Reached ==
  /\ pc = "filling" => scanned = << >>
  /\ \A k \in table : Met(k) \/ scanned = << >> \/ KeyBefore(Last(scanned), k)
  /\ pc = "done" => \A k \in table : Met(k)

Inv == Typing /\ Stored /\ Sorted /\ Reading /\ Reached

\* It holds at the beginning.
LEMMA InvInit == Init => Inv
<1> SUFFICES ASSUME Init PROVE Inv
  OBVIOUS
<1>1. Typing
  BY FS_EmptySet DEF Init, Typing
<1>2. Stored /\ Sorted /\ Reading /\ Reached
  BY DEF Init, Stored, Sorted, Reading, Reached
<1>3. QED
  BY <1>1, <1>2 DEF Inv

\* What a step that leaves the settings alone leaves alone with them.
LEMMA SameSetting ==
  ASSUME UNCHANGED setting
  PROVE  /\ name' = name /\ schema' = schema
         /\ \A v : KeyOf(v)' = KeyOf(v)
         /\ \A k : Read(k)' = Read(k)
<1>1. host' = host /\ name' = name
  BY DEF setting
<1>2. schema' = schema
  BY <1>1 DEF schema
<1>3. QED
  BY <1>1, <1>2 DEF KeyOf, ValueOf, Read

\* A key is put into the database before the scan begins.
LEMMA InvPut ==
  ASSUME Inv, pc = "filling", UNCHANGED <<pc, setting, scanned, got>>,
         NEW key \in Seq(BitByte), table' = table \cup {key},
         put' \subseteq schema.values, IsFiniteSet(put'),
         \A v \in put' : v \in put \/ key = KeyOf(v)
  PROVE  Inv'
<1>1. scanned = << >> /\ got = << >>
  <2>1. scanned = << >> /\ Len(got) = 0 /\ got \in Seq({Read(k) : k \in table})
    BY DEF Inv, Typing, Reading, Reached
  <2>2. QED
    BY <2>1, EmptySeq
<1>2. /\ pc' = "filling" /\ scanned' = << >> /\ got' = << >>
      /\ name' = name /\ schema' = schema
      /\ \A v : KeyOf(v)' = KeyOf(v)
  BY <1>1, SameSetting
<1>3. IsFiniteSet(table')
  BY FS_AddElement DEF Inv, Typing
<1>4. Typing'
  BY <1>2, <1>3 DEF Inv, Typing
<1>5. Stored'
  BY <1>2 DEF Inv, Stored
<1>6. (Sorted /\ Reading /\ Reached)'
  BY <1>2 DEF Sorted, Reading, Reached, Met
<1>7. QED
  BY <1>4, <1>5, <1>6 DEF Inv

\* The scan comes to the next key.
LEMMA InvScan ==
  ASSUME Inv, pc = "scanning", UNCHANGED <<pc, setting, put, table>>,
         NEW ahead, ahead = {k \in table : scanned = << >> \/ KeyBefore(Last(scanned), k)},
         ahead # {}, scanned' = Append(scanned, Least(ahead)),
         got' = Append(got, Read(Least(ahead)))
  PROVE  Inv'
<1> DEFINE n == Len(scanned)
           key == Least(ahead)
           Reads == {Read(k) : k \in table}
<1>1. /\ table \subseteq Seq(BitByte) /\ IsFiniteSet(table)
      /\ scanned \in Seq(table) /\ got \in Seq(Reads)
      /\ Len(got) = n /\ n \in Nat
  BY LenProperties DEF Inv, Typing, Reading
<1>2. key \in ahead /\ \A l \in ahead \ {key} : KeyBefore(key, l)
  <2>1. ahead \in SUBSET table
    OBVIOUS
  <2>2. ahead \in SUBSET Seq(BitByte) /\ IsFiniteSet(ahead)
    BY <1>1, <2>1, FS_Subset
  <2>3. IsLeast(Least(ahead), ahead)
    BY <2>2, LeastIs
  <2>4. QED
    BY <2>3 DEF IsLeast
<1>3. key \in table /\ Read(key) \in Reads
  BY <1>2
<1> HIDE DEF key, Reads
<1>4. /\ Len(scanned') = n + 1 /\ scanned'[n + 1] = key
      /\ \A i \in 1..n : scanned'[i] = scanned[i]
      /\ scanned' \in Seq(table)
  BY <1>1, <1>3 DEF key
<1>5. /\ Len(got') = n + 1 /\ got'[n + 1] = Read(key)
      /\ \A i \in 1..n : got'[i] = got[i]
      /\ got' \in Seq(Reads)
  BY <1>1, <1>3 DEF key
<1>6. /\ name' = name /\ schema' = schema /\ table' = table /\ put' = put /\ pc' = "scanning"
      /\ \A v : KeyOf(v)' = KeyOf(v)
      /\ \A k : Read(k)' = Read(k)
  BY SameSetting
<1>7. Typing'
  <2>1. {Read(k) : k \in table}' = Reads
    BY <1>6 DEF Reads
  <2>2. QED
    BY <1>4, <1>5, <1>6, <2>1 DEF Inv, Typing
<1>8. Stored'
  BY <1>6 DEF Inv, Stored
<1>9. /\ \A i \in 1..n : scanned[i] \in table
      /\ n > 0 => scanned # << >> /\ Last(scanned) = scanned[n] /\ n \in 1..n
  BY <1>1 DEF Last
<1>10. Sorted'
  <2>1. ASSUME NEW i \in 1..n PROVE KeyBefore(scanned[i], key)
    <3>1. n > 0
      BY <1>1
    <3>2. KeyBefore(scanned[n], key)
      BY <1>2, <1>9, <3>1
    <3>3. i = n \/ i \in 1..n - 1
      BY <1>1
    <3>4. i \in 1..n - 1 => KeyBefore(scanned[i], scanned[n])
      BY <1>9, <3>1 DEF Inv, Sorted
    <3>5. scanned[i] \in Seq(BitByte) /\ scanned[n] \in Seq(BitByte) /\ key \in Seq(BitByte)
      BY <1>1, <1>3, <1>9, <3>1
    <3>6. KeyBefore(scanned[i], scanned[n]) => KeyBefore(scanned[i], key)
      BY <3>2, <3>5, KeyOrder
    <3>7. QED
      BY <3>2, <3>3, <3>4, <3>6
  <2>2. ASSUME NEW j \in 1..n + 1, NEW i \in 1..j - 1
        PROVE  KeyBefore(scanned'[i], scanned'[j])
    <3> HIDE DEF n
    <3>1. i \in 1..n /\ (j = n + 1 \/ j \in 1..n)
      BY <1>1
    <3> USE DEF n
    <3>2. CASE j = n + 1
      BY <1>4, <2>1, <3>1, <3>2
    <3>3. CASE j \in 1..n
      <4>1. KeyBefore(scanned[i], scanned[j])
        BY <3>3 DEF Inv, Sorted
      <4>2. QED
        BY <1>4, <3>1, <3>3, <4>1
    <3>4. QED
      BY <3>1, <3>2, <3>3
  <2> HIDE DEF n
  <2>3. QED
    BY <1>4, <2>2 DEF Sorted
<1>11. Reading'
  <2>1. \A i \in 1..n : got[i] = Read(scanned[i])
    BY DEF Inv, Reading
  <2> HIDE DEF n
  <2>2. \A i \in 1..n + 1 : i = n + 1 \/ i \in 1..n
    BY <1>1
  <2>3. \A i \in 1..n + 1 : got'[i] = Read(scanned'[i])
    BY <1>4, <1>5, <2>1, <2>2
  <2>4. Len(got') = Len(scanned')
    BY <1>4, <1>5
  <2>5. host' = host /\ schema' = schema
    BY <1>6 DEF setting
  <2>6. \A i \in 1..Len(scanned') : got'[i] = Read(scanned[i])'
    BY <1>4, <2>3, <2>5 DEF Read, ValueOf
  <2>7. QED
    BY <2>4, <2>6 DEF Reading
<1>12. Reached'
  <2>1. ASSUME NEW k \in table PROVE Met(k)' \/ KeyBefore(Last(scanned'), k)
    <3>1. Met(k) \/ k \in ahead
      BY DEF Inv, Reached
    <3>2. Met(k) => Met(k)'
      <4> HIDE DEF n
      <4>1. \A i \in 1..n : i \in 1..n + 1
        BY <1>1
      <4>2. QED
        BY <1>4, <4>1 DEF Met, n
    <3>3. k = key => Met(k)'
      <4> HIDE DEF n
      <4>1. n + 1 \in 1..n + 1
        BY <1>1
      <4>2. QED
        BY <1>4, <4>1 DEF Met
    <3>4. k \in ahead /\ k # key => KeyBefore(key, k)
      BY <1>2
    <3>5. Last(scanned') = key
      BY <1>4 DEF Last
    <3>6. QED
      BY <3>1, <3>2, <3>3, <3>4, <3>5
  <2>2. QED
    BY <1>6, <2>1 DEF Reached
<1>13. QED
  BY <1>7, <1>8, <1>10, <1>11, <1>12 DEF Inv

\* The scan ends where no key is left.
LEMMA InvEnd ==
  ASSUME Inv, pc' \in {"scanning", "done"}, UNCHANGED <<setting, put, table, scanned, got>>,
         pc' = "done" => {k \in table : scanned = << >> \/ KeyBefore(Last(scanned), k)} = {}
  PROVE  Inv'
<1>1. /\ name' = name /\ schema' = schema
      /\ \A v : KeyOf(v)' = KeyOf(v)
      /\ \A k : Read(k)' = Read(k)
  BY SameSetting
<1>2. Typing'
  <2>1. {Read(k) : k \in table}' = {Read(k) : k \in table}
    BY <1>1
  <2>2. QED
    BY <1>1, <2>1 DEF Inv, Typing
<1>3. Stored' /\ Sorted' /\ Reading'
  BY <1>1 DEF Inv, Stored, Sorted, Reading
<1>4. Reached'
  BY DEF Inv, Reached, Met
<1>5. QED
  BY <1>2, <1>3, <1>4 DEF Inv

\* Every step preserves the invariant.
LEMMA InvNext == Inv /\ [Next]_vars => Inv'
<1> SUFFICES ASSUME Inv, [Next]_vars PROVE Inv'
  OBVIOUS
<1>1. SchemaIs(schema) /\ put \subseteq schema.values /\ IsFiniteSet(put)
  BY SchemasAre DEF Inv, Typing, schema
<1>2. CASE Insert
  <2>1. PICK v \in schema.values \ put :
          put' = put \cup {v} /\ table' = table \cup {KeyOf(v)}
    BY <1>2 DEF Insert
  <2>2. KeyOf(v) \in Seq(BitByte)
    BY <1>1, KeyType DEF KeyOf
  <2>3. put' \subseteq schema.values /\ \A u \in put' : u \in put \/ KeyOf(v) = KeyOf(u)
    BY <1>1, <2>1
  <2>4. IsFiniteSet(put')
    BY <1>1, <2>1, FS_AddElement
  <2>5. pc = "filling" /\ UNCHANGED <<pc, setting, scanned, got>>
    BY <1>2 DEF Insert
  <2> DEFINE key == KeyOf(v)
  <2> HIDE DEF key
  <2>6. /\ key \in Seq(BitByte) /\ table' = table \cup {key}
        /\ \A u \in put' : u \in put \/ key = KeyOf(u)
    BY <2>1, <2>2, <2>3 DEF key
  <2>7. QED
    BY <2>3, <2>4, <2>5, <2>6, InvPut
<1>3. CASE InsertForeign
  <2>1. PICK key \in Foreign : table' = {key}
    BY <1>3 DEF InsertForeign
  <2>2. pc = "filling" /\ table = {} /\ UNCHANGED <<pc, setting, put, scanned, got>>
    BY <1>3 DEF InsertForeign
  <2>3. key \in Seq(BitByte) /\ table' = table \cup {key}
    BY <2>1, <2>2, StoreAssumption
  <2>4. put' \subseteq schema.values /\ IsFiniteSet(put') /\ \A u \in put' : u \in put
    BY <1>1, <2>2
  <2>5. QED
    BY <2>2, <2>3, <2>4, InvPut
<1>4. CASE StartScan
  BY <1>4, InvEnd DEF StartScan
<1>5. CASE ScanNext
  <2> DEFINE ahead == {k \in table : scanned = << >> \/ KeyBefore(Last(scanned), k)}
  <2>1. pc = "scanning" /\ UNCHANGED <<setting, put, table>>
    BY <1>5 DEF ScanNext
  <2>2. \/ /\ ahead # {}
           /\ scanned' = Append(scanned, Least(ahead))
           /\ got' = Append(got, Read(Least(ahead)))
           /\ UNCHANGED pc
        \/ ahead = {} /\ pc' = "done" /\ UNCHANGED <<scanned, got>>
    BY <1>5 DEF ScanNext, Read
  <2>3. CASE ahead # {}
    <3>1. /\ scanned' = Append(scanned, Least(ahead))
          /\ got' = Append(got, Read(Least(ahead)))
          /\ UNCHANGED <<pc, setting, put, table>>
      BY <2>1, <2>2, <2>3
    <3>2. QED
      BY <2>1, <2>3, <3>1, InvScan
  <2>4. CASE ahead = {}
    <3>1. pc' = "done" /\ UNCHANGED <<setting, put, table, scanned, got>>
      BY <2>1, <2>2, <2>4
    <3>2. QED
      BY <2>4, <3>1, InvEnd
  <2>5. QED
    BY <2>3, <2>4
<1>6. CASE UNCHANGED vars
  <2>1. pc' = pc /\ UNCHANGED <<setting, put, table, scanned, got>>
    BY <1>6 DEF vars
  <2>2. /\ name' = name /\ schema' = schema
        /\ \A v : KeyOf(v)' = KeyOf(v)
        /\ \A k : Read(k)' = Read(k)
    BY <2>1, SameSetting
  <2>3. {Read(k) : k \in table}' = {Read(k) : k \in table}
    BY <2>1, <2>2
  <2>4. Typing'
    BY <2>1, <2>2, <2>3 DEF Inv, Typing
  <2>5. Stored' /\ Sorted' /\ Reading' /\ Reached'
    BY <2>1, <2>2 DEF Inv, Stored, Sorted, Reading, Reached, Met
  <2>6. QED
    BY <2>4, <2>5 DEF Inv
<1>7. QED
  BY <1>2, <1>3, <1>4, <1>5, <1>6 DEF Next

\* The invariant holds in every reachable state.
THEOREM Invariance == Spec => []Inv
BY InvInit, InvNext, PTL DEF Spec

-----------------------------------------------------------------------------

(* The theorems.                                                            *)

\* TypeOK: the bools and chars that are decoded are bools and chars.
THEOREM TypeCorrect == Spec => []TypeOK
<1>1. Inv => TypeOK
  <2> SUFFICES ASSUME Inv PROVE TypeOK
    OBVIOUS
  <2>1. /\ pc \in {"filling", "scanning", "done"} /\ put \subseteq schema.values
        /\ table \subseteq Seq(BitByte) /\ scanned \in Seq(table)
        /\ Len(got) = Len(scanned) /\ DOMAIN got = 1..Len(scanned)
    <3>1. got \in Seq({Read(k) : k \in table})
      BY DEF Inv, Typing
    <3>2. QED
      BY <3>1, LenProperties DEF Inv, Typing, Reading
  <2>2. Range(scanned) \subseteq table
    BY <2>1 DEF Range
  <2>3. SchemaIs(schema)
    BY SchemasAre DEF Inv, Typing, schema
  <2>4. ASSUME NEW i \in DOMAIN got, got[i].err = "Ok"
        PROVE  \A j \in DOMAIN got[i].val : HasType(got[i].val[j].ty, got[i].val[j].w)
    <3> DEFINE key == scanned[i]
    <3>1. key \in Seq(BitByte) /\ got[i] = Read(key)
      BY <2>1 DEF Inv, Reading
    <3> HIDE DEF key
    <3>2. schema.via = "direct" /\ got[i] = ValueIn(schema, host, key)
      BY <2>4, <3>1 DEF Read, ValueOf, Unread, Decoded
    <3>3. Fields(schema)
      BY <2>3, <3>2 DEF SchemaIs, DirectIs
    <3>4. DirectValue(schema, got[i].val)
      BY <2>4, <3>1, <3>2, <3>3, DirectExact
    <3> DEFINE v == got[i].val
    <3>5. DirectValue(schema, v)
      BY <3>4
    <3> HIDE DEF v
    <3>6. v = [j \in 1..Len(schema.fields) |-> v[j]]
      BY <3>5 DEF DirectValue
    <3>7. ASSUME NEW j \in DOMAIN v PROVE HasType(v[j].ty, v[j].w)
      <4>1. j \in 1..Len(schema.fields)
        BY <3>6
      <4>2. v[j] = Number(schema.fields[j].ty, v[j].w) /\ HasType(schema.fields[j].ty, v[j].w)
        BY <3>5, <4>1 DEF DirectValue
      <4>3. \A ty, w : Number(ty, w).ty = ty
        BY DEF Number
      <4>4. v[j].ty = schema.fields[j].ty
        BY <4>2, <4>3
      <4>5. QED
        BY <4>2, <4>4
    <3>8. QED
      BY <3>7 DEF v
  <2>5. QED
    BY <2>1, <2>2, <2>4 DEF TypeOK
<1>2. QED
  BY <1>1, Invariance, PTL

\* lib.rs:2 as far as it holds: a scan meets two values in their order when the
\* format keeps that of the first part in which they differ.  The format must be
\* big-endian, with lengths at the back if it is that of a Serialize type
\* (Sorting); the parts may not be texts of which one begins the other, sequences
\* of different lengths, or discriminants from 128 on (Kept).  Of other pairs the
\* theorem says nothing.
THEOREM ScansAreInOrder == Spec => []ScanInOrder
<1>1. Inv => ScanInOrder
  <2> SUFFICES ASSUME Inv, NEW v \in put, NEW w \in put, v # w, MustPrecede(v, w),
                      NEW i \in DOMAIN scanned, NEW j \in DOMAIN scanned, i <= j,
                      scanned[i] = KeyOf(w), scanned[j] = KeyOf(v)
               PROVE  FALSE
    BY DEF ScanInOrder
  <2>1. KeyBefore(KeyOf(v), KeyOf(w))
    <3>1. name \in DOMAIN Schema /\ v \in schema.values /\ w \in schema.values
      BY DEF Inv, Typing
    <3>2. QED
      BY <3>1, KeysOrdered
  <2>2. KeyOf(v) \in Seq(BitByte) /\ KeyOf(w) \in Seq(BitByte)
    BY DEF Inv, Typing, Stored
  <2>3. i \in 1..Len(scanned) /\ j \in 1..Len(scanned) /\ Len(scanned) \in Nat
    BY LenProperties DEF Inv, Typing
  <2>4. i = j \/ i \in 1..j - 1
    BY <2>3
  <2>5. i # j => KeyBefore(KeyOf(w), KeyOf(v))
    BY <2>3, <2>4 DEF Inv, Sorted
  <2> DEFINE a == KeyOf(v)
             b == KeyOf(w)
  <2>6. a \in Seq(BitByte) /\ b \in Seq(BitByte) /\ KeyBefore(a, b) /\ (a = b \/ KeyBefore(b, a))
    BY <2>1, <2>2, <2>5
  <2> HIDE DEF a, b
  <2>7. ~KeyBefore(a, a) /\ (KeyBefore(a, b) /\ KeyBefore(b, a) => KeyBefore(a, a))
    BY <2>6, KeyOrder
  <2>8. QED
    BY <2>6, <2>7
<1>2. QED
  BY <1>1, Invariance, PTL

\* KeysReadBack: no two values share a key, and keys are decoded to their values.
THEOREM KeysAreReadBack == Spec => []KeysReadBack
<1>1. Inv => KeysReadBack
  <2> SUFFICES ASSUME Inv, pc = "done"
               PROVE  /\ Cardinality({KeyOf(v) : v \in put}) = Cardinality(put)
                      /\ schema.via = "direct" =>
                           \A v \in put : \E i \in DOMAIN scanned :
                             scanned[i] = KeyOf(v) /\ got[i] = Decoded("Ok", v)
    BY DEF KeysReadBack
  <2>1. SchemaIs(schema) /\ put \subseteq schema.values /\ IsFiniteSet(put)
    BY SchemasAre DEF Inv, Typing, schema
  <2>2. Cardinality({KeyOf(v) : v \in put}) = Cardinality(put)
    <3> DEFINE keys == {KeyOf(v) : v \in put}
               f == [v \in put |-> KeyOf(v)]
    <3>1. \A v, w \in put : KeyOf(v) = KeyOf(w) => v = w
      BY <2>1, KeysDiffer DEF KeyOf
    <3>2. f \in Surjection(put, keys)
      BY DEF Surjection
    <3>3. f \in Injection(put, keys)
      BY <3>1 DEF Injection, IsInjective
    <3> HIDE DEF f, keys
    <3>4. Cardinality(keys) = Cardinality(put)
      BY <2>1, <3>2, <3>3, FS_Surjection
    <3>5. QED
      BY <3>4 DEF keys
  <2>3. ASSUME schema.via = "direct", NEW v \in put
        PROVE  \E i \in DOMAIN scanned : scanned[i] = KeyOf(v) /\ got[i] = Decoded("Ok", v)
    <3>1. Fields(schema) /\ DirectValue(schema, v)
      BY <2>1, <2>3 DEF SchemaIs, DirectIs
    <3>2. ValueOf(KeyOf(v)) = Decoded("Ok", v)
      BY <2>3, <3>1, DirectRead DEF ValueOf, KeyOf
    <3>3. Met(KeyOf(v))
      BY DEF Inv, Stored, Reached
    <3>4. PICK i \in 1..Len(scanned) : scanned[i] = KeyOf(v)
      BY <3>3 DEF Met
    <3>5. got[i] = ValueOf(KeyOf(v))
      BY <2>3, <3>4 DEF Inv, Reading, Read
    <3>6. DOMAIN scanned = 1..Len(scanned)
      BY LenProperties DEF Inv, Typing
    <3>7. QED
      BY <3>2, <3>4, <3>5, <3>6
  <2>4. QED
    BY <2>2, <2>3
<1>2. QED
  BY <1>1, Invariance, PTL

\* DecodeIsExact: a key that is decoded begins with the key of the value.
THEOREM DecodingIsExact == Spec => []DecodeIsExact
<1>1. Inv => DecodeIsExact
  <2> SUFFICES ASSUME Inv, NEW i \in DOMAIN got, got[i].err = "Ok",
                      \A j \in DOMAIN schema.fields : schema.fields[j].ty.kind # "bool"
               PROVE  IsPrefix(KeyOf(got[i].val), scanned[i])
    BY DEF DecodeIsExact
  <2>1. SchemaIs(schema)
    BY SchemasAre DEF Inv, Typing, schema
  <2>2. i \in 1..Len(scanned)
    <3>1. got \in Seq({Read(k) : k \in table})
      BY DEF Inv, Typing
    <3>2. QED
      BY <3>1, LenProperties DEF Inv, Reading
  <2> DEFINE key == scanned[i]
  <2>3. key \in Seq(BitByte) /\ got[i] = Read(key)
    BY <2>2 DEF Inv, Typing, Reading
  <2> HIDE DEF key
  <2>4. schema.via = "direct" /\ got[i] = ValueIn(schema, host, key)
    BY <2>3 DEF Read, ValueOf, Unread, Decoded
  <2>5. Fields(schema)
    BY <2>1, <2>4 DEF SchemaIs, DirectIs
  <2>6. ValueIn(schema, host, key).err = "Ok"
    BY <2>4
  <2>7. (\A j \in DOMAIN schema.fields : schema.fields[j].ty.kind # "bool") =>
          IsPrefix(KeyIn(schema, host, ValueIn(schema, host, key).val), key)
    BY <2>3, <2>4, <2>5, <2>6, DirectExact
  <2>8. QED
    BY <2>4, <2>7 DEF KeyOf, key
<1>2. QED
  BY <1>1, Invariance, PTL

=============================================================================
