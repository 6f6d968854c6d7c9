------------------------ MODULE DeserializerProofs ------------------------
(***************************************************************************)
(* Proofs about Deserializer, for every set of types, every sample value   *)
(* and every input:                                                        *)
(*                                                                         *)
(*   TypeCorrect           Spec => []TypeOK                                *)
(*   EveryByteIsAccounted  Spec => []EveryByteAccounted                    *)
(*   RecordIsReadBack      Spec => []RoundTrip                             *)
(*   TornRecordIsRefused   Spec => []TornIsRefused                         *)
(*                                                                         *)
(* They rest on three inductive invariants, each proved with those before  *)
(* it:                                                                     *)
(*                                                                         *)
(*   TypeInv    only the function at work, on top of the stack, holds a    *)
(*              number or waits for data; all those below it wait for a    *)
(*              value or for the elements of a sequence;                   *)
(*   Accounted  what the visitors were told, encoded again, with what the  *)
(*              function at work holds and what is left, is the input, as  *)
(*              long as no number or bool was read that other bytes are    *)
(*              read as too;                                               *)
(*   ReadInv    reading a record of a sample value, or the front of one,   *)
(*              is after some number of the calls of the value: the types  *)
(*              that the functions at work have still to read are those of *)
(*              the calls to come, and what is left, with what is missing  *)
(*              of the record, is what those calls are written as.         *)
(*                                                                         *)
(* Every action is first reduced to what it does to these (PrimitiveDoes,  *)
(* OptionDoes, ...); the invariants are proved from that alone.            *)
(***************************************************************************)
EXTENDS Deserializer, DataFacts

(* Bytes and words as numbers.                                             *)

\* The number of a byte made from a number is that number.
LEMMA ValueOfByte ==
  ASSUME NEW n \in 0..255
  PROVE  ByteOf(n) \in BitByte /\ ByteValue(ByteOf(n)) = n
<1>1. /\ Weight[1] = 1 /\ Weight[2] = 2 /\ Weight[3] = 4 /\ Weight[4] = 8 /\ Weight[5] = 16
      /\ Weight[6] = 32 /\ Weight[7] = 64 /\ Weight[8] = 128
      /\ \A k \in 0..7 : Weight[k + 1] \in Nat \ {0}
  BY DEF Weight
<1>2. \A k \in 0..7 : (n \div Weight[k + 1]) % 2 \in {0, 1}
  <2>1. \A k \in 0..7 : n \div Weight[k + 1] \in Nat
    BY <1>1
  <2>2. QED
    BY <2>1
<1>3. ByteOf(n) \in BitByte
  BY <1>2 DEF ByteOf, BitByte, Bit
<1>4. /\ ByteOf(n)[0] = n % 2 /\ ByteOf(n)[1] = (n \div 2) % 2 /\ ByteOf(n)[2] = (n \div 4) % 2
      /\ ByteOf(n)[3] = (n \div 8) % 2 /\ ByteOf(n)[4] = (n \div 16) % 2
      /\ ByteOf(n)[5] = (n \div 32) % 2 /\ ByteOf(n)[6] = (n \div 64) % 2
      /\ ByteOf(n)[7] = (n \div 128) % 2
  <2>1. \A k \in 0..7 : ByteOf(n)[k] = (n \div Weight[k + 1]) % 2
    BY DEF ByteOf
  <2>2. /\ 0 + 1 = 1 /\ 1 + 1 = 2 /\ 2 + 1 = 3 /\ 3 + 1 = 4 /\ 4 + 1 = 5 /\ 5 + 1 = 6
        /\ 6 + 1 = 7 /\ 7 + 1 = 8 /\ n \div 1 = n
    OBVIOUS
  <2>3. \A k \in {0, 1, 2, 3, 4, 5, 6, 7} : k \in 0..7
    OBVIOUS
  <2>4. QED
    BY <1>1, <2>1, <2>2, <2>3
<1>5. (n % 2) + 2 * ((n \div 2) % 2) + 4 * ((n \div 4) % 2) + 8 * ((n \div 8) % 2)
        + 16 * ((n \div 16) % 2) + 32 * ((n \div 32) % 2) + 64 * ((n \div 64) % 2)
        + 128 * ((n \div 128) % 2) = n
  OBVIOUS
<1>6. ByteValue(ByteOf(n)) = n
  BY <1>4, <1>5 DEF ByteValue
<1>7. QED
  BY <1>3, <1>6

\* A byte is made from its number.
LEMMA ByteOfItsValue ==
  ASSUME NEW b \in BitByte
  PROVE  ByteValue(b) \in 0..255 /\ ByteOf(ByteValue(b)) = b
<1>1. /\ \A k \in 0..7 : b[k] = 0 \/ b[k] = 1
      /\ b = [k \in 0..7 |-> b[k]]
  BY DEF BitByte, Bit
<1>2. \A k \in {0, 1, 2, 3, 4, 5, 6, 7} : k \in 0..7
  OBVIOUS
<1>3. /\ b[0] \in 0..1 /\ b[1] \in 0..1 /\ b[2] \in 0..1 /\ b[3] \in 0..1
      /\ b[4] \in 0..1 /\ b[5] \in 0..1 /\ b[6] \in 0..1 /\ b[7] \in 0..1
  BY <1>1, <1>2
<1> DEFINE n == ByteValue(b)
<1>4. n \in 0..255
  BY <1>3 DEF ByteValue
<1>5. /\ n % 2 = b[0] /\ (n \div 2) % 2 = b[1] /\ (n \div 4) % 2 = b[2] /\ (n \div 8) % 2 = b[3]
      /\ (n \div 16) % 2 = b[4] /\ (n \div 32) % 2 = b[5] /\ (n \div 64) % 2 = b[6]
      /\ (n \div 128) % 2 = b[7]
  <2>1. n = b[0] + 2 * b[1] + 4 * b[2] + 8 * b[3] + 16 * b[4] + 32 * b[5] + 64 * b[6] + 128 * b[7]
    BY DEF ByteValue
  <2> HIDE DEF n
  <2>2. PICK c0 \in 0..1, c1 \in 0..1, c2 \in 0..1, c3 \in 0..1 :
          c0 = b[0] /\ c1 = b[1] /\ c2 = b[2] /\ c3 = b[3]
    BY <1>3
  <2>3. PICK c4 \in 0..1, c5 \in 0..1, c6 \in 0..1, c7 \in 0..1 :
          c4 = b[4] /\ c5 = b[5] /\ c6 = b[6] /\ c7 = b[7]
    BY <1>3
  <2>4. n = c0 + 2 * c1 + 4 * c2 + 8 * c3 + 16 * c4 + 32 * c5 + 64 * c6 + 128 * c7
    BY <2>1, <2>2, <2>3
  <2>5. /\ n % 2 = c0 /\ (n \div 2) % 2 = c1 /\ (n \div 4) % 2 = c2 /\ (n \div 8) % 2 = c3
        /\ (n \div 16) % 2 = c4 /\ (n \div 32) % 2 = c5 /\ (n \div 64) % 2 = c6
        /\ (n \div 128) % 2 = c7
    BY <2>4
  <2>6. QED
    BY <2>2, <2>3, <2>5
<1> HIDE DEF n
<1>6. ASSUME NEW k \in 0..7 PROVE (n \div Weight[k + 1]) % 2 = b[k]
  <2>1. k \in {0, 1, 2, 3, 4, 5, 6, 7}
    OBVIOUS
  <2>2. n \div 1 = n
    BY <1>4
  <2>3. QED
    BY <1>5, <2>1, <2>2 DEF Weight
<1>7. QED
  BY <1>1, <1>4, <1>6 DEF ByteOf, n

\* A word of at most four bytes, byte by byte.
Byte(w, j) == [k \in 0..7 |-> w[8 * j + k]]

\* A word made from a number has the bytes of the number.
LEMMA WordOfType ==
  ASSUME NEW u \in Type, NEW n \in Nat
  PROVE  /\ WordOf(u, n) \in Word(u)
         /\ \A j \in 0..3 : /\ (n \div Place[j + 1]) % 256 \in 0..255
                            /\ Byte(WordOf(u, n), j) = ByteOf((n \div Place[j + 1]) % 256)
         /\ \A i \in 32..Width(u) - 1 : WordOf(u, n)[i] = 0
<1>1. Width(u) \in 32..64
  BY TypeSizes DEF Sizes
<1>2. \A j \in 0..3 : Place[j + 1] \in Nat \ {0}
  BY DEF Place
<1>3. \A j \in 0..3 : (n \div Place[j + 1]) % 256 \in 0..255
  <2>1. \A j \in 0..3 : n \div Place[j + 1] \in Nat
    BY <1>2
  <2>2. QED
    BY <2>1
<1>4. ASSUME NEW i \in 0..Width(u) - 1, i < 32
      PROVE  i \div 8 \in 0..3 /\ i % 8 \in 0..7
  BY <1>4
<1>5. \A j \in 0..3 : ByteOf((n \div Place[j + 1]) % 256) \in [0..7 -> Bit]
  BY <1>3, ValueOfByte DEF BitByte
<1>6. ASSUME NEW i \in 0..Width(u) - 1
      PROVE  (IF i < 32 THEN ByteOf((n \div Place[i \div 8 + 1]) % 256)[i % 8] ELSE 0) \in Bit
  <2>1. CASE i < 32
    BY <1>4, <1>5, <2>1
  <2>2. CASE ~(i < 32)
    BY <2>2 DEF Bit
  <2>3. QED
    BY <2>1, <2>2
<1>7. WordOf(u, n) \in Word(u)
  BY <1>6 DEF WordOf, Word
<1>8. ASSUME NEW j \in 0..3, NEW k \in 0..7
      PROVE  WordOf(u, n)[8 * j + k] = ByteOf((n \div Place[j + 1]) % 256)[k]
  <2>1. /\ 8 * j + k \in 0..Width(u) - 1 /\ 8 * j + k < 32
        /\ (8 * j + k) \div 8 = j /\ (8 * j + k) % 8 = k
    BY <1>1
  <2>2. WordOf(u, n)[8 * j + k] = ByteOf((n \div Place[(8 * j + k) \div 8 + 1]) % 256)[(8 * j + k) % 8]
    BY <2>1 DEF WordOf
  <2>3. QED
    BY <2>1, <2>2
<1>9. \A i \in 32..Width(u) - 1 : WordOf(u, n)[i] = 0
  BY <1>1 DEF WordOf
<1>10. ASSUME NEW j \in 0..3 PROVE Byte(WordOf(u, n), j) = ByteOf((n \div Place[j + 1]) % 256)
  <2>1. ByteOf((n \div Place[j + 1]) % 256) = [k \in 0..7 |-> ByteOf((n \div Place[j + 1]) % 256)[k]]
    BY <1>5
  <2>2. QED
    BY <1>8, <2>1 DEF Byte
<1>11. QED
  BY <1>3, <1>7, <1>9, <1>10

\* The bits of a word of four bytes are those of its bytes.
LEMMA ByteOfWord ==
  ASSUME NEW u \in Type, NEW w \in Word(u)
  PROVE  /\ \A j \in 0..3 : Byte(w, j) \in BitByte
         /\ \A j \in 0..3, k \in 0..7 : 8 * j + k \in 0..Width(u) - 1 /\ Byte(w, j)[k] = w[8 * j + k]
         /\ \A i \in 0..31 : /\ i \div 8 \in 0..3 /\ i % 8 \in 0..7
                             /\ w[i] = Byte(w, i \div 8)[i % 8]
<1>1. Width(u) \in 32..64
  BY TypeSizes DEF Sizes
<1>2. \A i \in 0..Width(u) - 1 : w[i] \in Bit
  BY DEF Word
<1>3. ASSUME NEW j \in 0..3, NEW k \in 0..7
      PROVE  8 * j + k \in 0..Width(u) - 1 /\ Byte(w, j)[k] = w[8 * j + k]
  BY <1>1 DEF Byte
<1>4. \A j \in 0..3 : Byte(w, j) \in BitByte
  BY <1>2, <1>3 DEF Byte, BitByte
<1>5. ASSUME NEW i \in 0..31
      PROVE  /\ i \div 8 \in 0..3 /\ i % 8 \in 0..7
             /\ w[i] = Byte(w, i \div 8)[i % 8]
  <2>1. /\ i \div 8 \in 0..3 /\ i % 8 \in 0..7 /\ 8 * (i \div 8) + (i % 8) = i
    <3>1. i \in Nat
      OBVIOUS
    <3>2. i % 8 \in 0..7 /\ i = 8 * (i \div 8) + (i % 8)
      BY <3>1, BytePosition
    <3>3. i \div 8 \in 0..3
      OBVIOUS
    <3>4. QED
      BY <3>2, <3>3
  <2> DEFINE j == i \div 8
             k == i % 8
  <2> HIDE DEF j, k
  <2>2. Byte(w, j)[k] = w[8 * j + k]
    BY <1>3, <2>1 DEF j, k
  <2>3. QED
    BY <2>1, <2>2 DEF j, k
<1>6. QED
  BY <1>3, <1>4, <1>5

\* Bits that make a number huge.
Large(w) == \E i \in DOMAIN w : i >= 30 /\ w[i] = 1

\* The number of a word, by its bytes.
Sum4(a, b, c, d) == a + 256 * b + 65536 * c + 16777216 * d

\* A number too large for a length is Huge; any other is the sum of its low bytes.
LEMMA NumberIs ==
  ASSUME NEW w
  PROVE  Number(w) = IF Large(w) THEN Huge
                     ELSE Sum4(ByteValue(Byte(w, 0)), ByteValue(Byte(w, 1)),
                               ByteValue(Byte(w, 2)), ByteValue(Byte(w, 3)))
BY DEF Number, Large, Sum4, Byte

\* The bound is a number.
LEMMA HugeType == Huge \in Nat
BY SMT DEF Huge

\* What is below it, and what is not.
LEMMA HugeIs ==
  /\ \A n \in Nat : n < Huge => n < 1073741824
  /\ \A n \in Nat : n < 1073741824 => n < Huge
BY SMT DEF Huge

\* A number is huge, or its word has nothing but that number.
LEMMA NumberBounds ==
  ASSUME NEW u \in Type, NEW w \in Word(u)
  PROVE  /\ Number(w) \in 0..Huge
         /\ Number(w) # Huge => ~Large(w)
<1> DEFINE n == Number(w)
<1>1. CASE Large(w)
  <2>1. n = Huge
    BY <1>1, NumberIs
  <2>2. QED
    BY <1>1, <2>1, HugeType
<1>2. CASE ~Large(w)
  <2> DEFINE a == ByteValue(Byte(w, 0))
             b == ByteValue(Byte(w, 1))
             c == ByteValue(Byte(w, 2))
             d == ByteValue(Byte(w, 3))
  <2>1. \A j \in 0..3 : ByteValue(Byte(w, j)) \in 0..255
    BY ByteOfWord, ByteOfItsValue
  <2>2. a \in 0..255 /\ b \in 0..255 /\ c \in 0..255 /\ d \in 0..255
    BY <2>1
  <2>3. Byte(w, 3)[6] = 0 /\ Byte(w, 3)[7] = 0
    <3>1. /\ 30 \in DOMAIN w /\ 31 \in DOMAIN w
          /\ w[30] \in Bit /\ w[31] \in Bit
          /\ Byte(w, 3)[6] = w[30] /\ Byte(w, 3)[7] = w[31]
      <4>1. Width(u) \in 32..64 /\ DOMAIN w = 0..Width(u) - 1
        BY TypeSizes DEF Sizes, Word
      <4>2. \A i \in DOMAIN w : w[i] \in Bit
        BY DEF Word
      <4>3. Byte(w, 3)[6] = w[8 * 3 + 6] /\ Byte(w, 3)[7] = w[8 * 3 + 7]
        BY DEF Byte
      <4>4. 8 * 3 + 6 = 30 /\ 8 * 3 + 7 = 31
        OBVIOUS
      <4>5. 30 \in DOMAIN w /\ 31 \in DOMAIN w
        <5>1. \A k \in 32..64 : 30 \in 0..k - 1 /\ 31 \in 0..k - 1
          OBVIOUS
        <5>2. QED
          BY <4>1, <5>1
      <4>6. QED
        BY <4>2, <4>3, <4>4, <4>5
    <3>2. QED
      BY <1>2, <3>1 DEF Large, Bit
  <2>4. d \in 0..63
    <3>1. Byte(w, 3) \in BitByte
      BY ByteOfWord
    <3>2. \A k \in {0, 1, 2, 3, 4, 5, 6, 7} : Byte(w, 3)[k] \in 0..1
      BY <3>1 DEF BitByte, Bit
    <3>3. QED
      BY <2>3, <3>2 DEF ByteValue
  <2>5. n = Sum4(a, b, c, d)
    BY <1>2, NumberIs
  <2> HIDE DEF a, b, c, d, n
  <2>6. n \in 0..Huge
    <3>1. n \in Nat /\ n < 1073741824
      BY <2>2, <2>4, <2>5, SMT DEF Sum4
    <3>2. QED
      BY <3>1, HugeIs, HugeType, SMT
  <2>7. QED
    BY <1>2, <2>6 DEF n
<1>3. QED
  BY <1>1, <1>2

\* Numbers below a bound that every buffer is below are written in a word and
\* read back.
LEMMA NumberOfWord ==
  ASSUME NEW u \in Type, NEW n \in Nat, n < Huge
  PROVE  Number(WordOf(u, n)) = n
<1> DEFINE w == WordOf(u, n)
<1>1. /\ w \in Word(u)
      /\ \A j \in 0..3 : /\ (n \div Place[j + 1]) % 256 \in 0..255
                         /\ Byte(w, j) = ByteOf((n \div Place[j + 1]) % 256)
      /\ \A i \in 32..Width(u) - 1 : w[i] = 0
  BY WordOfType
<1>2. Place[1] = 1 /\ Place[2] = 256 /\ Place[3] = 65536 /\ Place[4] = 16777216
  BY DEF Place
<1>3. n < 1073741824
  BY HugeIs, SMT
<1>4. (n \div 16777216) % 256 \in 0..63
  BY <1>3
<1>5. Byte(w, 3) = ByteOf((n \div 16777216) % 256)
  <2>1. 3 + 1 = 4 /\ 3 \in 0..3
    OBVIOUS
  <2>2. QED
    BY <1>1, <1>2, <2>1
<1>6. Byte(w, 3)[6] = 0 /\ Byte(w, 3)[7] = 0
  <2> DEFINE m == (n \div 16777216) % 256
  <2>1. ByteOf(m)[6] = (m \div 64) % 2 /\ ByteOf(m)[7] = (m \div 128) % 2
    BY DEF ByteOf, Weight
  <2>2. m \in 0..63
    BY <1>4
  <2> HIDE DEF m
  <2>3. (m \div 64) % 2 = 0 /\ (m \div 128) % 2 = 0
    BY <2>2
  <2>4. QED
    BY <1>5, <2>1, <2>3 DEF m
<1>7. DOMAIN w = 0..Width(u) - 1 /\ Width(u) \in 32..64
  BY <1>1, TypeSizes DEF Word, Sizes
<1> HIDE DEF w
<1>8. ~Large(w)
  <2>1. w[30] = 0 /\ w[31] = 0
    <3>1. Byte(w, 3)[6] = w[8 * 3 + 6] /\ Byte(w, 3)[7] = w[8 * 3 + 7]
      BY DEF Byte
    <3>2. 8 * 3 + 6 = 30 /\ 8 * 3 + 7 = 31
      OBVIOUS
    <3>3. QED
      BY <1>6, <3>1, <3>2
  <2>2. \A i \in DOMAIN w : i >= 30 => i = 30 \/ i = 31 \/ i \in 32..Width(u) - 1
    BY <1>7
  <2>3. QED
    BY <1>1, <2>1, <2>2 DEF Large
<1>9. /\ ByteValue(Byte(w, 0)) = (n \div 1) % 256 /\ ByteValue(Byte(w, 1)) = (n \div 256) % 256
      /\ ByteValue(Byte(w, 2)) = (n \div 65536) % 256
      /\ ByteValue(Byte(w, 3)) = (n \div 16777216) % 256
  <2>1. \A j \in 0..3 : ByteValue(Byte(w, j)) = (n \div Place[j + 1]) % 256
    BY <1>1, ValueOfByte
  <2>2. 0 + 1 = 1 /\ 1 + 1 = 2 /\ 2 + 1 = 3 /\ 3 + 1 = 4
    OBVIOUS
  <2>3. \A j \in {0, 1, 2, 3} : j \in 0..3
    OBVIOUS
  <2>4. QED
    BY <1>2, <2>1, <2>2, <2>3
<1>10. Number(w) = Sum4((n \div 1) % 256, (n \div 256) % 256, (n \div 65536) % 256,
                        (n \div 16777216) % 256)
  BY <1>8, <1>9, NumberIs
<1>11. Sum4((n \div 1) % 256, (n \div 256) % 256, (n \div 65536) % 256,
            (n \div 16777216) % 256) = n
  BY <1>3 DEF Sum4
<1>12. QED
  BY <1>10, <1>11 DEF w

\* A word whose number is not huge is the word of its number.
LEMMA WordOfNumber ==
  ASSUME NEW u \in Type, NEW w \in Word(u), Number(w) # Huge
  PROVE  Number(w) \in Nat /\ Number(w) < Huge /\ WordOf(u, Number(w)) = w
<1> DEFINE n == Number(w)
           a == ByteValue(Byte(w, 0))
           b == ByteValue(Byte(w, 1))
           c == ByteValue(Byte(w, 2))
           d == ByteValue(Byte(w, 3))
           v == WordOf(u, n)
<1>1. n \in 0..Huge /\ ~Large(w)
  BY NumberBounds
<1>2. n = Sum4(a, b, c, d)
  BY <1>1, NumberIs
<1>3. \A j \in 0..3 : Byte(w, j) \in BitByte
  BY ByteOfWord
<1>4. /\ a \in 0..255 /\ b \in 0..255 /\ c \in 0..255 /\ d \in 0..255
      /\ ByteOf(a) = Byte(w, 0) /\ ByteOf(b) = Byte(w, 1)
      /\ ByteOf(c) = Byte(w, 2) /\ ByteOf(d) = Byte(w, 3)
  <2>1. \A j \in {0, 1, 2, 3} : Byte(w, j) \in BitByte
    BY <1>3
  <2>2. QED
    BY <2>1, ByteOfItsValue
<1> HIDE DEF a, b, c, d, n
<1>5. n \in Nat /\ n < Huge
  <2>1. n \in 0..Huge /\ n # Huge
    BY <1>1 DEF n
  <2>2. QED
    BY <2>1, HugeType, SMT
<1>6. /\ v \in Word(u)
      /\ \A j \in 0..3 : Byte(v, j) = ByteOf((n \div Place[j + 1]) % 256)
      /\ \A i \in 32..Width(u) - 1 : v[i] = 0
  BY <1>5, WordOfType
<1>7. /\ (n \div 1) % 256 = a /\ (n \div 256) % 256 = b
      /\ (n \div 65536) % 256 = c /\ (n \div 16777216) % 256 = d
  <2>1. n = a + 256 * b + 65536 * c + 16777216 * d
    BY <1>2 DEF Sum4
  <2>2. /\ n \div 256 = b + 256 * c + 65536 * d /\ n \div 1 = n /\ n % 256 = a
        /\ n \div 65536 = c + 256 * d /\ n \div 16777216 = d
    BY <1>4, <2>1
  <2>3. QED
    BY <1>4, <2>1, <2>2
<1> HIDE DEF v
<1>8. /\ Byte(v, 0) = Byte(w, 0) /\ Byte(v, 1) = Byte(w, 1)
      /\ Byte(v, 2) = Byte(w, 2) /\ Byte(v, 3) = Byte(w, 3)
  <2>1. Place[1] = 1 /\ Place[2] = 256 /\ Place[3] = 65536 /\ Place[4] = 16777216
    BY DEF Place
  <2>2. 0 + 1 = 1 /\ 1 + 1 = 2 /\ 2 + 1 = 3 /\ 3 + 1 = 4
    OBVIOUS
  <2>3. \A j \in {0, 1, 2, 3} : j \in 0..3
    OBVIOUS
  <2>4. /\ Byte(v, 0) = ByteOf((n \div 1) % 256) /\ Byte(v, 1) = ByteOf((n \div 256) % 256)
        /\ Byte(v, 2) = ByteOf((n \div 65536) % 256)
        /\ Byte(v, 3) = ByteOf((n \div 16777216) % 256)
    BY <1>6, <2>1, <2>2, <2>3
  <2>5. QED
    BY <1>4, <1>7, <2>4
<1>9. \A j \in 0..3 : Byte(v, j) = Byte(w, j)
  <2>1. \A j \in 0..3 : j = 0 \/ j = 1 \/ j = 2 \/ j = 3
    OBVIOUS
  <2>2. QED
    BY <1>8, <2>1
<1>10. /\ DOMAIN w = 0..Width(u) - 1 /\ \A i \in 0..Width(u) - 1 : w[i] = 0 \/ w[i] = 1
       /\ w = [i \in 0..Width(u) - 1 |-> w[i]]
       /\ v = [i \in 0..Width(u) - 1 |-> v[i]]
       /\ Width(u) \in 32..64
  BY <1>6, TypeSizes DEF Word, Bit, Sizes
<1>11. ASSUME NEW i \in 0..Width(u) - 1 PROVE v[i] = w[i]
  <2>1. CASE i \in 0..31
    <3>1. w[i] = Byte(w, i \div 8)[i % 8] /\ i \div 8 \in 0..3
      BY <2>1, ByteOfWord
    <3>2. v[i] = Byte(v, i \div 8)[i % 8]
      BY <1>6, <2>1, ByteOfWord
    <3>3. QED
      BY <1>9, <3>1, <3>2
  <2>2. CASE i \notin 0..31
    <3>1. i >= 30 /\ i \in 32..Width(u) - 1
      <4>1. \A k \in 32..64 : \A j \in 0..k - 1 : j \notin 0..31 => j >= 30 /\ j \in 32..k - 1
        OBVIOUS
      <4>2. QED
        BY <1>10, <2>2, <4>1
    <3>2. i \in DOMAIN w
      BY <1>10
    <3>3. w[i] # 1
      BY <1>1, <3>1, <3>2 DEF Large
    <3>4. QED
      BY <1>6, <1>10, <3>1, <3>3
  <2>3. QED
    BY <2>1, <2>2
<1>12. v = w
  BY <1>10, <1>11
<1>13. QED
  BY <1>5, <1>12 DEF n, v

-----------------------------------------------------------------------------

(* Lengths and discriminants.                                              *)

\* The first byte of a varint and the others, together and apart.
LEMMA FirstAndOthers ==
  ASSUME NEW first \in BitByte, NEW others \in Seq(BitByte)
  PROVE  LET s == <<first>> \o others
         IN /\ s \in Seq(BitByte) /\ s # << >> /\ Len(s) = Len(others) + 1 /\ s[1] = first
            /\ SubSeq(s, 2, Len(s)) = others /\ Head(s) = first /\ Tail(s) = others
<1> DEFINE s == <<first>> \o others
<1>1. <<first>> \in Seq(BitByte) /\ Len(<<first>>) = 1 /\ <<first>>[1] = first
  BY Single
<1>2. Len(others) \in Nat
  BY LenProperties
<1>3. /\ s \in Seq(BitByte) /\ Len(s) = Len(others) + 1 /\ s[1] = first
      /\ \A i \in 1..Len(others) : s[i + 1] = others[i]
  <2>1. Joined(<<first>>, others, BitByte)
    BY <1>1, Join
  <2>2. 1 \in 1..Len(<<first>>)
    BY <1>1
  <2>3. Len(s) = 1 + Len(others)
    BY <1>1, <2>1 DEF Joined
  <2>4. \A i \in 1..Len(others) : s[1 + i] = others[i]
    BY <1>1, <2>1 DEF Joined
  <2>5. s \in Seq(BitByte) /\ s[1] = <<first>>[1]
    BY <1>1, <2>1, <2>2, Zenon DEF Joined
  <2>6. \A i \in 1..Len(others) : 1 + i = i + 1
    OBVIOUS
  <2>7. QED
    BY <1>1, <1>2, <2>3, <2>4, <2>5, <2>6
<1> HIDE DEF s
<1>4. s # << >>
  BY <1>2, <1>3
<1>5. SubSeq(s, 2, Len(s)) = others
  <2>1. /\ SubSeq(s, 2, Len(s)) \in Seq(BitByte) /\ Len(SubSeq(s, 2, Len(s))) = Len(s) - 1
        /\ \A i \in 1..Len(s) - 1 : SubSeq(s, 2, Len(s))[i] = s[i + 1]
    BY <1>3, <1>4, AfterFirst
  <2>2. Len(s) - 1 = Len(others)
    BY <1>2, <1>3
  <2>3. QED
    BY <1>3, <2>1, <2>2, SeqEqual
<1>6. Head(s) = first /\ Tail(s) = others
  BY <1>3, <1>4, <1>5
<1>7. QED
  BY <1>3, <1>4, <1>5, <1>6 DEF s

\* Every encoding has a first byte and others.
LEMMA EncodingParts ==
  ASSUME NEW u \in Type, NEW w \in Word(u)
  PROVE  /\ Encoding(u, w) \in Seq(BitByte) /\ Encoding(u, w) # << >>
         /\ \E first \in BitByte, others \in Seq(BitByte) : Encoding(u, w) = <<first>> \o others
<1> DEFINE e == Encoding(u, w)
<1>1. Begins(e, u, w)
  BY EncodingBegins
<1>2. e \in Seq(BitByte) /\ e # << >>
  BY <1>1, BeginsFirst DEF Begins
<1>3. QED
  BY <1>2, HeadAndTail

\* What the bytes of a varint come to, with or without debug assertions.
LEMMA DecodeType ==
  ASSUME NEW u \in Type, NEW first \in BitByte, NEW others \in Seq(BitByte),
         LenAccepted(u, DecodedLen(first)), Len(others) = DecodedLen(first) - 1,
         NEW deb \in BOOLEAN
  PROVE  LET num == Decode(u, DecodedLen(first), first, others, deb)
         IN /\ num = FromSlice(u, <<first>> \o others, deb)
            /\ num.err \in {"Ok", "InvalidVarintEncoding"}
            /\ num.err = "Ok" => num.val \in Word(u) /\ num = Decoded("Ok", num.val)
<1> DEFINE s == <<first>> \o others
           num == Decode(u, DecodedLen(first), first, others, deb)
<1>1. s \in Seq(BitByte) /\ s # << >> /\ s[1] = first /\ SubSeq(s, 2, Len(s)) = others
  BY FirstAndOthers
<1>2. num = FromSlice(u, s, deb)
  BY <1>1 DEF FromSlice
<1>3. /\ num.err \in {"PrematureEndOfInput", "InvalidVarintEncoding", "Ok"}
      /\ num.err = "Ok" => num = Decoded("Ok", num.val) /\ num.val \in Word(u)
  BY <1>1, <1>2, FromSliceType
<1>4. num.err # "PrematureEndOfInput"
  <2>1. Len(others) \in Nat /\ DecodedLen(first) \in 1..9
    BY LenProperties, FirstByte
  <2>2. ~(Len(others) + 1 < DecodedLen(first))
    BY <2>1
  <2>3. QED
    BY <2>2 DEF Decode, Failed, Decoded
<1>5. QED
  BY <1>2, <1>3, <1>4

\* With debug assertions the bytes of a varint are the only encoding of what they
\* are read as, if that is not vague.
LEMMA Canonical ==
  ASSUME NEW u \in Type, NEW first \in BitByte, NEW others \in Seq(BitByte),
         LenAccepted(u, DecodedLen(first)), Len(others) = DecodedLen(first) - 1,
         NEW num, num = Decode(u, DecodedLen(first), first, others, TRUE), num.err = "Ok",
         ~Vague(u, first, Number(num.val))
  PROVE  Encoding(u, WordOf(u, Number(num.val))) = <<first>> \o others
<1> DEFINE s == <<first>> \o others
           v == num.val
<1>1. /\ s \in Seq(BitByte) /\ Len(s) = Len(others) + 1 /\ s[1] = first
  BY FirstAndOthers
<1>2. FromSlice(u, s, TRUE) = Decoded("Ok", v)
  BY DecodeType
<1> HIDE DEF s, v
<1>3. v \in Word(u) /\ Begins(s, u, v) /\ DecodedLen(first) = EncodedLen(u, v)
  BY <1>1, <1>2, AcceptedBegins
<1>4. u = U32 /\ EncodedLen(u, v) = FullLen(u) => s[1] = ByteOf(240)
  BY <1>1, <1>3 DEF Vague, v
<1>5. SubSeq(s, 1, EncodedLen(u, v)) = Encoding(u, v)
  BY <1>3, <1>4, BeginsSame
<1>6. EncodedLen(u, v) = Len(s)
  <2>1. Len(others) \in Nat /\ DecodedLen(first) \in 1..9
    BY LenProperties, FirstByte
  <2>2. QED
    BY <1>1, <1>3, <2>1
<1>7. s = Encoding(u, v)
  BY <1>1, <1>5, <1>6, WholeFront
<1>8. WordOf(u, Number(v)) = v
  BY <1>3, WordOfNumber DEF Vague, v
<1>9. QED
  BY <1>7, <1>8 DEF s, v

\* What is written for a number is read as that number.
LEMMA DecodesNumber ==
  ASSUME NEW u \in Type, NEW n \in Nat, NEW first \in BitByte, NEW others \in Seq(BitByte),
         Encoding(u, WordOf(u, n)) = <<first>> \o others, NEW deb \in BOOLEAN
  PROVE  /\ DecodedLen(first) = Len(others) + 1 /\ LenAccepted(u, DecodedLen(first))
         /\ Decode(u, DecodedLen(first), first, others, deb) = Decoded("Ok", WordOf(u, n))
<1> DEFINE v == WordOf(u, n)
           s == <<first>> \o others
<1>1. v \in Word(u)
  BY WordOfType
<1> HIDE DEF v
<1>2. /\ s \in Seq(BitByte) /\ Len(s) = Len(others) + 1 /\ s[1] = first
      /\ SubSeq(s, 2, Len(s)) = others
  BY FirstAndOthers
<1>3. s = Encoding(u, v)
  BY DEF v
<1> HIDE DEF s
<1>4. Begins(s, u, v) /\ Len(s) = EncodedLen(u, v)
  BY <1>1, <1>3, EncodingBegins
<1>5. DecodedLen(first) = EncodedLen(u, v)
  BY <1>1, <1>2, <1>4, BeginsFirst
<1>6. FromSlice(u, s, deb) = Decoded("Ok", v)
  BY <1>1, <1>4, FromSliceBegins
<1>7. LenAccepted(u, DecodedLen(first))
  <2>1. EncodedLen(u, v) \in 1..FullLen(u) /\ FullLen(u) \in Nat
    BY <1>1, Shortest, TypeSizes DEF Sizes
  <2>2. QED
    BY <1>5, <2>1 DEF LenAccepted
<1>8. s # << >>
  BY <1>1, <1>4, BeginsFirst
<1>9. Decode(u, DecodedLen(first), first, others, deb) = Decoded("Ok", v)
  BY <1>2, <1>6, <1>7, <1>8 DEF FromSlice
<1>10. QED
  BY <1>2, <1>4, <1>5, <1>7, <1>9 DEF v

-----------------------------------------------------------------------------

(* Calls and their parts of the record.                                    *)

\* The ends of the buffer.
Ends == {"front", "back"}

\* The calls a visitor is told, which are those a value is made of.
Told == {Prim(b) : b \in Seq(BitByte)} \cup {Bytes(b) : b \in Seq(BitByte)}
        \cup {Variant(n) : n \in Nat} \cup {SeqOrMap(n) : n \in Nat}
        \cup {None, Some, Compound}

\* The calls of a value that does not fail are among them.
LEMMA ToldIs ==
  ASSUME NEW c, IsCall(c), c.op # "fail"
  PROVE  c \in Told
<1>1. CASE c.op = "prim"
  <2>1. c = Prim(c.bytes) /\ c.bytes \in Seq(BitByte)
    BY <1>1 DEF IsCall, Prim
  <2>2. QED
    BY <2>1 DEF Told
<1>2. CASE c.op = "bytes"
  <2>1. c = Bytes(c.bytes) /\ c.bytes \in Seq(BitByte)
    BY <1>2 DEF IsCall, Bytes
  <2>2. QED
    BY <2>1 DEF Told
<1>3. CASE c.op = "variant"
  <2>1. c = Variant(c.n) /\ c.n \in Nat
    BY <1>3 DEF IsCall, Variant
  <2>2. QED
    BY <2>1 DEF Told
<1>4. CASE c.op = "seq"
  <2>1. c = SeqOrMap(c.n) /\ c.n \in Nat
    BY <1>4 DEF IsCall, SeqOrMap
  <2>2. QED
    BY <2>1 DEF Told
<1>5. CASE c.op \notin {"prim", "bytes", "variant", "seq"}
  BY <1>5 DEF IsCall, Told
<1>6. QED
  BY <1>1, <1>2, <1>3, <1>4, <1>5

\* The kinds of these calls.
LEMMA ToldCases ==
  ASSUME NEW c \in Told
  PROVE  \/ c.op = "prim" /\ c.bytes \in Seq(BitByte) /\ c = Prim(c.bytes)
         \/ c.op = "bytes" /\ c.bytes \in Seq(BitByte) /\ c = Bytes(c.bytes)
         \/ c.op = "variant" /\ c.n \in Nat /\ c = Variant(c.n)
         \/ c.op = "seq" /\ c.n \in Nat /\ c = SeqOrMap(c.n)
         \/ c.op = "none" /\ c = None
         \/ c.op = "some" /\ c = Some
         \/ c.op = "compound" /\ c = Compound
BY DEF Told, Prim, Bytes, Variant, SeqOrMap, None, Some, Compound

\* The values of the instance are sequences of such calls.
LEMMA SampleType ==
  ASSUME NEW s \in Sample
  PROVE  s.ty \in Types /\ s.calls \in Seq(Told)
<1>1. /\ s.ty \in Types
      /\ s.calls \in Seq({s.calls[i] : i \in DOMAIN s.calls})
      /\ \A i \in DOMAIN s.calls : IsCall(s.calls[i]) /\ s.calls[i].op # "fail"
  BY DeserializerAssumption
<1>2. {s.calls[i] : i \in DOMAIN s.calls} \subseteq Told
  BY <1>1, ToldIs
<1>3. QED
  BY <1>1, <1>2

\* A number in a call, and the data behind it.
NumberOf(c) == IF c.op = "bytes" THEN Len(c.bytes) ELSE c.n
DataOf(c)   == IF c.op = "bytes" THEN c.bytes ELSE << >>

\* The bytes of a length: all at the end that has the lengths, in the order in
\* which a reader of that end meets them.
LenIs(le, n) ==
  \E first \in BitByte, others \in Seq(BitByte) :
    /\ Encoding(LenType, WordOf(LenType, n)) = <<first>> \o others
    /\ le = "front" => /\ LenAt(le, "front", n) = <<first>> \o others
                       /\ LenAt(le, "back", n) = << >>
    /\ le = "back" => /\ LenAt(le, "front", n) = << >>
                      /\ LenAt(le, "back", n) = others \o <<first>>

\* LenIs holds of every length, and those bytes are bytes.
LEMMA LenParts ==
  ASSUME NEW le \in Ends, NEW n \in Nat
  PROVE  LenIs(le, n) /\ LenAt(le, "front", n) \in Seq(BitByte) /\ LenAt(le, "back", n) \in Seq(BitByte)
<1> DEFINE e == Encoding(LenType, WordOf(LenType, n))
<1>1. LenType \in Type
  BY DeserializerAssumption
<1>2. WordOf(LenType, n) \in Word(LenType)
  BY <1>1, WordOfType
<1>3. PICK first \in BitByte, others \in Seq(BitByte) : e = <<first>> \o others
  BY <1>1, <1>2, EncodingParts
<1>4. Head(e) = first /\ Tail(e) = others /\ e \in Seq(BitByte)
  BY <1>3, FirstAndOthers
<1> HIDE DEF e
<1>5. /\ le = "front" => LenAt(le, "front", n) = e /\ LenAt(le, "back", n) = << >>
      /\ le = "back" => /\ LenAt(le, "front", n) = << >>
                        /\ LenAt(le, "back", n) = Tail(e) \o <<Head(e)>>
  BY DEF LenAt, e
<1>6. LenIs(le, n)
  BY <1>3, <1>4, <1>5 DEF LenIs, e
<1>7. << >> \in Seq(BitByte) /\ others \o <<first>> \in Seq(BitByte)
  OBVIOUS
<1>8. QED
  BY <1>3, <1>4, <1>5, <1>6, <1>7 DEF Ends

\* The parts of a call are bytes.
LEMMA PartTypes ==
  ASSUME NEW le \in Ends, NEW c \in Told
  PROVE  FrontPart(le, c) \in Seq(BitByte) /\ BackPart(le, c) \in Seq(BitByte)
<1>1. << >> \in Seq(BitByte) /\ <<ByteOf(0)>> \in Seq(BitByte) /\ <<ByteOf(1)>> \in Seq(BitByte)
  <2>1. ByteOf(0) \in BitByte /\ ByteOf(1) \in BitByte
    BY ValueOfByte
  <2>2. QED
    BY <2>1
<1>2. CASE c.op = "bytes"
  <2>1. c.bytes \in Seq(BitByte) /\ Len(c.bytes) \in Nat
    BY <1>2, ToldCases, LenProperties
  <2>2. /\ LenAt(le, "front", Len(c.bytes)) \in Seq(BitByte)
        /\ LenAt(le, "back", Len(c.bytes)) \in Seq(BitByte)
    BY <2>1, LenParts
  <2>3. QED
    BY <1>2, <2>1, <2>2 DEF FrontPart, BackPart
<1>3. CASE c.op = "seq"
  <2>1. c.n \in Nat
    BY <1>3, ToldCases
  <2>2. LenAt(le, "front", c.n) \in Seq(BitByte) /\ LenAt(le, "back", c.n) \in Seq(BitByte)
    BY <2>1, LenParts
  <2>3. QED
    BY <1>3, <2>2 DEF FrontPart, BackPart
<1>4. CASE c.op = "variant"
  <2>1. c.n \in Nat /\ U32 \in Type
    BY <1>4, ToldCases DEF Type
  <2>2. WordOf(U32, c.n) \in Word(U32)
    BY <2>1, WordOfType
  <2>3. Encoding(U32, WordOf(U32, c.n)) \in Seq(BitByte)
    BY <2>1, <2>2, EncodingParts
  <2>4. QED
    BY <1>1, <1>4, <2>3 DEF FrontPart, BackPart
<1>5. CASE c.op = "prim"
  <2>1. c.bytes \in Seq(BitByte)
    BY <1>5, ToldCases
  <2>2. QED
    BY <1>1, <1>5, <2>1 DEF FrontPart, BackPart
<1>6. CASE c.op \in {"none", "some", "compound"}
  BY <1>1, <1>6 DEF FrontPart, BackPart
<1>7. QED
  BY <1>2, <1>3, <1>4, <1>5, <1>6, ToldCases

\* The pieces of a record at either end.
Fronts(le, calls) == [k \in DOMAIN calls |-> FrontPart(le, calls[k])]
Backs(le, calls)  == [k \in DOMAIN calls |-> BackPart(le, calls[k])]

\* They are pieces of bytes, as many as calls.
LEMMA PiecesType ==
  ASSUME NEW le \in Ends, NEW calls \in Seq(Told)
  PROVE  /\ Fronts(le, calls) \in Seq(Seq(BitByte)) /\ Len(Fronts(le, calls)) = Len(calls)
         /\ Backs(le, calls) \in Seq(Seq(BitByte)) /\ Len(Backs(le, calls)) = Len(calls)
         /\ FrontOf(le, calls) = FlattenSeq(Fronts(le, calls))
         /\ BackOf(le, calls) = FlattenSeq(Reverse(Backs(le, calls)))
<1> DEFINE n == Len(calls)
<1>1. n \in Nat /\ DOMAIN calls = 1..n /\ \A k \in 1..n : calls[k] \in Told
  BY LenProperties, ElementOfSeq
<1>2. \A k \in 1..n : FrontPart(le, calls[k]) \in Seq(BitByte) /\ BackPart(le, calls[k]) \in Seq(BitByte)
  BY <1>1, PartTypes
<1>3. Fronts(le, calls) \in [1..n -> Seq(BitByte)] /\ Backs(le, calls) \in [1..n -> Seq(BitByte)]
  BY <1>1, <1>2 DEF Fronts, Backs
<1>4. /\ Fronts(le, calls) \in Seq(Seq(BitByte)) /\ Len(Fronts(le, calls)) = n
      /\ Backs(le, calls) \in Seq(Seq(BitByte)) /\ Len(Backs(le, calls)) = n
  <2>1. ASSUME NEW f \in [1..n -> Seq(BitByte)] PROVE f \in Seq(Seq(BitByte)) /\ Len(f) = n
    BY <1>1
  <2>2. QED
    BY <1>3, <2>1
<1>5. /\ FrontOf(le, calls) = FlattenSeq(Fronts(le, calls))
      /\ BackOf(le, calls) = FlattenSeq(Reverse(Backs(le, calls)))
  BY DEF FrontOf, BackOf, Fronts, Backs
<1>6. QED
  BY <1>4, <1>5

\* The two ends of a record are bytes.
LEMMA RecordType ==
  ASSUME NEW le \in Ends, NEW calls \in Seq(Told)
  PROVE  FrontOf(le, calls) \in Seq(BitByte) /\ BackOf(le, calls) \in Seq(BitByte)
<1>1. /\ Fronts(le, calls) \in Seq(Seq(BitByte)) /\ Backs(le, calls) \in Seq(Seq(BitByte))
      /\ FrontOf(le, calls) = FlattenSeq(Fronts(le, calls))
      /\ BackOf(le, calls) = FlattenSeq(Reverse(Backs(le, calls)))
  BY PiecesType
<1>2. Reverse(Backs(le, calls)) \in Seq(Seq(BitByte))
  BY <1>1, ReverseElements
<1>3. QED
  BY <1>1, <1>2, FlattenType

\* No calls, no record.
LEMMA RecordEmpty ==
  ASSUME NEW le
  PROVE  FrontOf(le, << >>) = << >> /\ BackOf(le, << >>) = << >>
<1>1. Fronts(le, << >>) = << >> /\ Backs(le, << >>) = << >>
  BY DEF Fronts, Backs
<1>2. FrontOf(le, << >>) = FlattenSeq(<< >>) /\ BackOf(le, << >>) = FlattenSeq(Reverse(<< >>))
  BY <1>1 DEF FrontOf, BackOf, Fronts, Backs
<1>3. QED
  BY <1>2, FlattenEmpty, ReverseEmpty, Zenon

\* One call more, at the inner side of both ends.
Grows(le, calls, c) ==
  /\ FrontOf(le, Append(calls, c)) = FrontOf(le, calls) \o FrontPart(le, c)
  /\ BackOf(le, Append(calls, c)) = BackPart(le, c) \o BackOf(le, calls)

\* Grows holds of all calls.
LEMMA RecordAppend ==
  ASSUME NEW le \in Ends, NEW calls \in Seq(Told), NEW c \in Told
  PROVE  Append(calls, c) \in Seq(Told) /\ Grows(le, calls, c)
<1> DEFINE n == Len(calls)
           more == Append(calls, c)
           F == Fronts(le, calls)
           B == Backs(le, calls)
           G == Fronts(le, more)
           C == Backs(le, more)
           x == FrontPart(le, c)
           y == BackPart(le, c)
<1>1. /\ more \in Seq(Told) /\ Len(more) = n + 1 /\ n \in Nat /\ DOMAIN more = 1..n + 1
      /\ more[n + 1] = c /\ \A k \in 1..n : more[k] = calls[k]
      /\ DOMAIN calls = 1..n
  BY AppendProperties, LenProperties
<1>2. x \in Seq(BitByte) /\ y \in Seq(BitByte)
  BY PartTypes
<1> HIDE DEF more
<1>3. /\ F \in Seq(Seq(BitByte)) /\ Len(F) = n /\ B \in Seq(Seq(BitByte)) /\ Len(B) = n
      /\ FrontOf(le, calls) = FlattenSeq(F) /\ BackOf(le, calls) = FlattenSeq(Reverse(B))
  BY PiecesType
<1>4. /\ G \in Seq(Seq(BitByte)) /\ Len(G) = n + 1 /\ C \in Seq(Seq(BitByte)) /\ Len(C) = n + 1
      /\ FrontOf(le, more) = FlattenSeq(G) /\ BackOf(le, more) = FlattenSeq(Reverse(C))
  BY <1>1, PiecesType
<1>5. /\ G[n + 1] = x /\ \A k \in 1..n : G[k] = F[k]
      /\ C[n + 1] = y /\ \A k \in 1..n : C[k] = B[k]
  <2>1. n + 1 \in 1..n + 1 /\ \A k \in 1..n : k \in 1..n + 1
    BY <1>1
  <2>2. QED
    BY <1>1, <2>1 DEF Fronts, Backs
<1> HIDE DEF F, B, G, C, x, y
<1>6. G = Append(F, x) /\ C = Append(B, y)
  <2>1. ASSUME NEW X \in Seq(Seq(BitByte)), NEW Y \in Seq(Seq(BitByte)), NEW z \in Seq(BitByte),
               Len(X) = n + 1, Len(Y) = n, X[n + 1] = z, \A k \in 1..n : X[k] = Y[k]
        PROVE  X = Append(Y, z)
    <3>1. /\ Append(Y, z) \in Seq(Seq(BitByte)) /\ Len(Append(Y, z)) = n + 1
          /\ Append(Y, z)[n + 1] = z /\ \A k \in 1..n : Append(Y, z)[k] = Y[k]
      BY <2>1, AppendProperties
    <3>2. \A k \in 1..n + 1 : k = n + 1 \/ k \in 1..n
      BY <1>1
    <3>3. \A k \in 1..n + 1 : X[k] = Append(Y, z)[k]
      BY <2>1, <3>1, <3>2
    <3>4. QED
      BY <2>1, <3>1, <3>3, SeqEqual
  <2>2. QED
    BY <1>2, <1>3, <1>4, <1>5, <2>1
<1>7. FlattenSeq(Append(F, x)) = FlattenSeq(F) \o x
  BY <1>2, <1>3, FlattenAppend
<1>8. FlattenSeq(Reverse(Append(B, y))) = y \o FlattenSeq(Reverse(B))
  BY <1>2, <1>3, FromEndAppend
<1>9. /\ FrontOf(le, more) = FrontOf(le, calls) \o x
      /\ BackOf(le, more) = y \o BackOf(le, calls)
  BY <1>3, <1>4, <1>6, <1>7, <1>8, Zenon
<1>10. QED
  BY <1>1, <1>9 DEF Grows, more, x, y

\* One call before the others, at the outer side of both ends.
Precedes(le, c, calls) ==
  /\ FrontOf(le, <<c>> \o calls) = FrontPart(le, c) \o FrontOf(le, calls)
  /\ BackOf(le, <<c>> \o calls) = BackOf(le, calls) \o BackPart(le, c)

\* Precedes holds of all calls.
LEMMA RecordPrepend ==
  ASSUME NEW le \in Ends, NEW calls \in Seq(Told), NEW c \in Told
  PROVE  Precedes(le, c, calls)
<1> DEFINE n == Len(calls)
           more == <<c>> \o calls
           F == Fronts(le, calls)
           B == Backs(le, calls)
           G == Fronts(le, more)
           C == Backs(le, more)
           x == FrontPart(le, c)
           y == BackPart(le, c)
<1>1. /\ more \in Seq(Told) /\ Len(more) = n + 1 /\ n \in Nat
      /\ more[1] = c /\ \A k \in 1..n : more[k + 1] = calls[k]
      /\ DOMAIN calls = 1..n /\ DOMAIN more = 1..n + 1
  <2>1. <<c>> \in Seq(Told) /\ Len(<<c>>) = 1 /\ <<c>>[1] = c
    BY Single
  <2>2. n \in Nat
    BY LenProperties
  <2>3. QED
    BY <2>1, <2>2
<1>2. x \in Seq(BitByte) /\ y \in Seq(BitByte)
  BY PartTypes
<1> HIDE DEF more
<1>3. /\ F \in Seq(Seq(BitByte)) /\ Len(F) = n /\ B \in Seq(Seq(BitByte)) /\ Len(B) = n
      /\ FrontOf(le, calls) = FlattenSeq(F) /\ BackOf(le, calls) = FlattenSeq(Reverse(B))
  BY PiecesType
<1>4. /\ G \in Seq(Seq(BitByte)) /\ Len(G) = n + 1 /\ C \in Seq(Seq(BitByte)) /\ Len(C) = n + 1
      /\ FrontOf(le, more) = FlattenSeq(G) /\ BackOf(le, more) = FlattenSeq(Reverse(C))
  BY <1>1, PiecesType
<1>5. /\ G[1] = x /\ \A k \in 1..n : G[k + 1] = F[k]
      /\ C[1] = y /\ \A k \in 1..n : C[k + 1] = B[k]
  <2>1. 1 \in 1..n + 1 /\ \A k \in 1..n : k + 1 \in 1..n + 1
    BY <1>1
  <2>2. QED
    BY <1>1, <2>1 DEF Fronts, Backs
<1> HIDE DEF F, B, G, C, x, y
<1>6. ASSUME NEW X \in Seq(Seq(BitByte)), NEW Y \in Seq(Seq(BitByte)), NEW z \in Seq(BitByte),
             Len(X) = n + 1, Len(Y) = n, X[1] = z, \A k \in 1..n : X[k + 1] = Y[k]
      PROVE  X = <<z>> \o Y /\ X # << >> /\ Head(X) = z /\ Tail(X) = Y
  <2>1. X # << >> /\ Head(X) = z
    BY <1>1, <1>6
  <2>2. Head(X) \in Seq(BitByte) /\ Tail(X) \in Seq(Seq(BitByte)) /\ X = <<Head(X)>> \o Tail(X)
    BY <1>6, <2>1, HeadAndTail
  <2>3. Len(Tail(X)) = n /\ \A k \in 1..n : Tail(X)[k] = X[k + 1]
    BY <1>1, <1>6, <2>1
  <2>4. Tail(X) = Y
    <3>1. Len(Tail(X)) = Len(Y) /\ \A k \in 1..Len(Tail(X)) : Tail(X)[k] = Y[k]
      BY <1>6, <2>3
    <3>2. QED
      BY <1>6, <2>2, <3>1, SeqEqual
  <2>5. QED
    BY <2>1, <2>2, <2>4
<1>7. G = <<x>> \o F
  BY <1>2, <1>3, <1>4, <1>5, <1>6
<1>8. C # << >> /\ Head(C) = y /\ Tail(C) = B
  BY <1>2, <1>3, <1>4, <1>5, <1>6
<1>9. FlattenSeq(<<x>> \o F) = x \o FlattenSeq(F)
  BY <1>2, <1>3, FlattenPrepend
<1>10. FlattenSeq(Reverse(C)) = FlattenSeq(Reverse(Tail(C))) \o Head(C)
  BY <1>4, <1>8, FromEndPrepend
<1>11. /\ FrontOf(le, more) = x \o FrontOf(le, calls)
       /\ BackOf(le, more) = BackOf(le, calls) \o y
  BY <1>3, <1>4, <1>7, <1>8, <1>9, <1>10, Zenon
<1>12. QED
  BY <1>11 DEF Precedes, more, x, y

-----------------------------------------------------------------------------

(* Inversion, and the bytes between the two ends.                          *)

\* Complemented bytes are bytes, and complementing twice undoes it.
LEMMA Complement ==
  ASSUME NEW s \in Seq(BitByte)
  PROVE  /\ ComplementBytes(s) \in Seq(BitByte) /\ Len(ComplementBytes(s)) = Len(s)
         /\ ComplementBytes(ComplementBytes(s)) = s
<1>1. Len(s) \in Nat /\ DOMAIN s = 1..Len(s) /\ \A i \in 1..Len(s) : s[i] \in BitByte
  BY LenProperties, ElementOfSeq
<1>2. ASSUME NEW b \in BitByte
      PROVE  ComplementByte(b) \in BitByte /\ ComplementByte(ComplementByte(b)) = b
  <2>1. (\A k \in 0..7 : b[k] \in Bit) /\ b = [k \in 0..7 |-> b[k]]
    BY <1>2 DEF BitByte
  <2>2. \A k \in 0..7 : 1 - b[k] \in Bit /\ 1 - (1 - b[k]) = b[k]
    BY <2>1 DEF Bit
  <2>3. ComplementByte(b) \in BitByte
    BY <2>2 DEF ComplementByte, BitByte
  <2>4. ComplementByte(ComplementByte(b)) = [k \in 0..7 |-> 1 - (1 - b[k])]
    BY DEF ComplementByte
  <2>5. QED
    BY <2>1, <2>2, <2>3, <2>4
<1> DEFINE c == ComplementBytes(s)
           d == ComplementBytes(c)
<1>3. c \in [1..Len(s) -> BitByte] /\ \A i \in 1..Len(s) : c[i] = ComplementByte(s[i])
  BY <1>1, <1>2 DEF ComplementBytes
<1>4. ASSUME NEW f \in [1..Len(s) -> BitByte] PROVE f \in Seq(BitByte) /\ Len(f) = Len(s)
  BY <1>1
<1>5. c \in Seq(BitByte) /\ Len(c) = Len(s) /\ DOMAIN c = 1..Len(s)
  BY <1>3, <1>4
<1> HIDE DEF c
<1>6. d = [i \in 1..Len(s) |-> ComplementByte(c[i])]
  BY <1>5 DEF ComplementBytes
<1>7. \A i \in 1..Len(s) : ComplementByte(c[i]) = s[i]
  BY <1>1, <1>2, <1>3
<1>8. d = [i \in 1..Len(s) |-> s[i]]
  BY <1>6, <1>7
<1>9. d = s
  BY <1>1, <1>8
<1>10. QED
  BY <1>5, <1>9 DEF c

\* The two orders.
Orders == {"Ascending", "Descending"}

\* What de_from_bytes_ordered does to its input undoes what the writer did.
LEMMA InOrderTwice ==
  ASSUME order \in Orders, NEW s \in Seq(BitByte)
  PROVE  InOrder(s) \in Seq(BitByte) /\ Len(InOrder(s)) = Len(s) /\ InOrder(InOrder(s)) = s
<1>1. CASE order = "Descending"
  BY <1>1, Complement DEF InOrder
<1>2. CASE order # "Descending"
  BY <1>2 DEF InOrder
<1>3. QED
  BY <1>1, <1>2

\* What is consumed at the front, what the function at work holds of it, what is
\* left, and the same at the back.
Whole(f, h, r, k, b) == f \o (h \o (r \o (k \o b)))

\* The same, without parentheses.
WholeFlat(f, h, r, k, b) == Whole(f, h, r, k, b) = (((f \o h) \o r) \o k) \o b

\* The order of concatenation does not matter.
LEMMA WholeIs ==
  ASSUME NEW f \in Seq(BitByte), NEW h \in Seq(BitByte), NEW r \in Seq(BitByte),
         NEW k \in Seq(BitByte), NEW b \in Seq(BitByte)
  PROVE  WholeFlat(f, h, r, k, b)
<1>1. f \o h \in Seq(BitByte) /\ k \o b \in Seq(BitByte)
  OBVIOUS
<1>2. (f \o h) \o r \in Seq(BitByte) /\ r \o (k \o b) \in Seq(BitByte)
  BY <1>1
<1>3. Associates((f \o h) \o r, k, b)
  BY <1>2, Association
<1>4. Associates(f \o h, r, k \o b)
  BY <1>1, Association
<1>5. Associates(f, h, r \o (k \o b))
  BY <1>2, Association
<1>6. QED
  BY <1>3, <1>4, <1>5, Zenon DEF Associates, Whole, WholeFlat

\* What is consumed at the front, or at the back, is held.
FrontTaken(f, h, x, r, k, b) == Whole(f, h, x \o r, k, b) = Whole(f, h \o x, r, k, b)
BackTaken(f, h, r, y, k, b) == Whole(f, h, r \o y, k, b) = Whole(f, h, r, y \o k, b)

\* FrontTaken holds of all bytes.
LEMMA TakesFront ==
  ASSUME NEW f \in Seq(BitByte), NEW h \in Seq(BitByte), NEW x \in Seq(BitByte),
         NEW r \in Seq(BitByte), NEW k \in Seq(BitByte), NEW b \in Seq(BitByte)
  PROVE  FrontTaken(f, h, x, r, k, b)
<1>1. k \o b \in Seq(BitByte)
  OBVIOUS
<1>2. r \o (k \o b) \in Seq(BitByte)
  BY <1>1
<1>3. Associates(x, r, k \o b)
  BY <1>1, Association
<1>4. Associates(h, x, r \o (k \o b))
  BY <1>2, Association
<1>5. QED
  BY <1>3, <1>4, Zenon DEF Associates, Whole, FrontTaken

\* BackTaken holds of all bytes.
LEMMA TakesBack ==
  ASSUME NEW f \in Seq(BitByte), NEW h \in Seq(BitByte), NEW y \in Seq(BitByte),
         NEW r \in Seq(BitByte), NEW k \in Seq(BitByte), NEW b \in Seq(BitByte)
  PROVE  BackTaken(f, h, r, y, k, b)
<1>1. k \o b \in Seq(BitByte)
  OBVIOUS
<1>2. Associates(r, y, k \o b)
  BY <1>1, Association
<1>3. Associates(y, k, b)
  BY Association
<1>4. QED
  BY <1>2, <1>3, Zenon DEF Associates, Whole, BackTaken

\* What was held becomes a part of the record.
LEMMA Absorbs ==
  ASSUME NEW f \in Seq(BitByte), NEW h \in Seq(BitByte), NEW r \in Seq(BitByte),
         NEW k \in Seq(BitByte), NEW b \in Seq(BitByte)
  PROVE  Whole(f, h, r, k, b) = Whole(f \o h, << >>, r, << >>, k \o b)
<1>1. k \o b \in Seq(BitByte)
  OBVIOUS
<1>2. r \o (k \o b) \in Seq(BitByte)
  BY <1>1
<1>3. Associates(f, h, r \o (k \o b))
  BY <1>2, Association
<1>4. << >> \o (k \o b) = k \o b /\ << >> \o (r \o (k \o b)) = r \o (k \o b)
  BY <1>1, <1>2, ConcatEmptySeq
<1>5. QED
  BY <1>3, <1>4, Zenon DEF Associates, Whole

\* Nothing in front or behind.
LEMMA NothingAdded ==
  ASSUME NEW s \in Seq(BitByte)
  PROVE  << >> \o s = s /\ s \o << >> = s
BY ConcatEmptySeq

\* As many bytes taken from the front of what is known are what was there.
FrontIsKnown(r, x, m, x0, z) == (x \o r) \o m = x0 \o z /\ Len(x) = Len(x0) => x = x0 /\ r \o m = z

\* FrontIsKnown holds of all bytes.
LEMMA KnownFront ==
  ASSUME NEW r \in Seq(BitByte), NEW x \in Seq(BitByte), NEW m \in Seq(BitByte),
         NEW x0 \in Seq(BitByte), NEW z \in Seq(BitByte)
  PROVE  FrontIsKnown(r, x, m, x0, z)
<1>1. r \o m \in Seq(BitByte)
  OBVIOUS
<1>2. Associates(x, r, m)
  BY Association
<1>3. SplitsFront(x, r \o m, x0, z)
  BY <1>1, SplitFront
<1>4. QED
  BY <1>2, <1>3, Zenon DEF Associates, SplitsFront, FrontIsKnown

\* The same at the back, where nothing is missing.
BackIsKnown(r, y, y0, z) == r \o y = z \o y0 /\ Len(y) = Len(y0) => y = y0 /\ r = z

\* BackIsKnown holds of all bytes.
LEMMA KnownBack ==
  ASSUME NEW r \in Seq(BitByte), NEW y \in Seq(BitByte),
         NEW y0 \in Seq(BitByte), NEW z \in Seq(BitByte)
  PROVE  BackIsKnown(r, y, y0, z)
<1>1. SUFFICES ASSUME r \o y = z \o y0, Len(y) = Len(y0)
               PROVE  y = y0 /\ r = z
  BY Zenon DEF BackIsKnown
<1>2. QED
  BY <1>1, SplitEnd

\* Bytes that are not there are missing.
LEMMA IsMissing ==
  ASSUME NEW r \in Seq(BitByte), NEW m \in Seq(BitByte), NEW a \in Seq(BitByte),
         NEW b \in Seq(BitByte), r \o m = a \o b, Len(r) < Len(a) \/ Len(r) < Len(b)
  PROVE  m # << >>
<1>1. /\ Len(r \o m) = Len(r) + Len(m) /\ Len(a \o b) = Len(a) + Len(b)
      /\ Len(r) \in Nat /\ Len(m) \in Nat /\ Len(a) \in Nat /\ Len(b) \in Nat
  BY ConcatProperties, LenProperties
<1>2. Len(r) + Len(m) = Len(a) + Len(b)
  BY <1>1
<1>3. Len(m) # 0
  BY <1>1, <1>2
<1>4. QED
  BY <1>3

-----------------------------------------------------------------------------

(* What a value of a type begins with.                                     *)

\* The types that begin with a number.
Numbered == {"str", "bytes", "seq", "map", "enum"}

\* A call with a number in it, and the data behind the number.
LEMMA BegunNumber ==
  ASSUME NEW ty, ty.t \in Numbered, NEW c \in Told, Begun(ty, c)
  PROVE  /\ ty.t \in {"str", "bytes"} => /\ c.op = "bytes" /\ c.bytes \in Seq(BitByte)
                                         /\ c = Bytes(c.bytes)
         /\ ty.t = "str" => IsUtf8(c.bytes)
         /\ ty.t \in {"seq", "map"} => c.op = "seq" /\ c = SeqOrMap(c.n)
         /\ ty.t = "enum" => c.op = "variant" /\ c = Variant(c.n) /\ c.n < Len(ty.of)
         /\ NumberOf(c) \in Nat /\ NumberOf(c) < Huge /\ DataOf(c) \in Seq(BitByte)
<1>1. CASE ty.t \in {"str", "bytes"}
  <2>1. c.op = "bytes" /\ Len(c.bytes) < Huge /\ (ty.t = "str" => IsUtf8(c.bytes))
    BY <1>1 DEF Begun
  <2>2. c.bytes \in Seq(BitByte) /\ c = Bytes(c.bytes)
    BY <2>1, ToldCases
  <2>3. Len(c.bytes) \in Nat
    BY <2>2, LenProperties
  <2>4. QED
    BY <1>1, <2>1, <2>2, <2>3 DEF NumberOf, DataOf
<1>2. CASE ty.t \in {"seq", "map"}
  <2>1. c.op = "seq" /\ c.n < Huge
    BY <1>2 DEF Begun
  <2>2. c.n \in Nat /\ c = SeqOrMap(c.n)
    BY <2>1, ToldCases
  <2>3. NumberOf(c) = c.n /\ DataOf(c) = << >> /\ << >> \in Seq(BitByte)
    BY <2>1, EmptySeq DEF NumberOf, DataOf
  <2>4. QED
    BY <1>2, <2>1, <2>2, <2>3
<1>3. CASE ty.t = "enum"
  <2>1. c.op = "variant" /\ c.n < Huge /\ c.n < Len(ty.of)
    BY <1>3 DEF Begun
  <2>2. c.n \in Nat /\ c = Variant(c.n)
    BY <2>1, ToldCases
  <2>3. NumberOf(c) = c.n /\ DataOf(c) = << >> /\ << >> \in Seq(BitByte)
    BY <2>1, EmptySeq DEF NumberOf, DataOf
  <2>4. QED
    BY <1>3, <2>1, <2>2, <2>3
<1>4. QED
  BY <1>1, <1>2, <1>3 DEF Numbered

\* The end that has the number of a type.
Side(le, ty) == IF ty.t = "enum" THEN "front" ELSE le

\* The bytes of such a call around those that come between them.
Around4(le, ty, first, others, d, z) ==
  IF Side(le, ty) = "front" THEN <<first>> \o (others \o (d \o z))
  ELSE ((d \o z) \o others) \o <<first>>

\* The parts of a call with a number, before the bytes of other calls.
NumberPartsAre(le, ty, c, z) ==
  \E first \in BitByte, others \in Seq(BitByte) :
    /\ Encoding(NumberType(ty), WordOf(NumberType(ty), NumberOf(c))) = <<first>> \o others
    /\ FrontPart(le, c) \o (z \o BackPart(le, c)) = Around4(le, ty, first, others, DataOf(c), z)

\* The types of numbers.
LEMMA NumberTypes ==
  ASSUME NEW ty
  PROVE  NumberType(ty) \in Type
BY DeserializerAssumption DEF NumberType, Type

\* NumberPartsAre holds of every call with a number.
LEMMA NumberParts ==
  ASSUME NEW le \in Ends, NEW ty, ty.t \in Numbered, NEW c \in Told, Begun(ty, c),
         NEW z \in Seq(BitByte)
  PROVE  NumberPartsAre(le, ty, c, z)
<1> DEFINE n == NumberOf(c)
           d == DataOf(c)
<1>1. n \in Nat /\ d \in Seq(BitByte)
  BY BegunNumber
<1>2. << >> \in Seq(BitByte) /\ d \o z \in Seq(BitByte)
  BY <1>1, EmptySeq
<1>3. /\ << >> \o z = z /\ z \o << >> = z
      /\ << >> \o (d \o z) = d \o z /\ (d \o z) \o << >> = d \o z
  BY <1>2, NothingAdded
<1>4. CASE ty.t = "enum"
  <2>1. /\ c.op = "variant" /\ d = << >> /\ n = c.n /\ NumberType(ty) = U32
        /\ Side(le, ty) = "front"
    BY <1>4, BegunNumber DEF DataOf, NumberOf, NumberType, Side, Numbered
  <2>2. U32 \in Type /\ WordOf(U32, n) \in Word(U32)
    BY <1>1, WordOfType DEF Type
  <2>3. PICK first \in BitByte, others \in Seq(BitByte) : Encoding(U32, WordOf(U32, n)) = <<first>> \o others
    BY <2>2, EncodingParts
  <2>4. FrontPart(le, c) = <<first>> \o others /\ BackPart(le, c) = << >>
    BY <2>1, <2>3 DEF FrontPart, BackPart
  <2>5. Associates(<<first>>, others, z)
    <3>1. <<first>> \in Seq(BitByte)
      BY Single
    <3>2. QED
      BY <3>1, Association
  <2> HIDE DEF n, d
  <2>6. FrontPart(le, c) \o (z \o BackPart(le, c)) = <<first>> \o (others \o (d \o z))
    BY <1>3, <2>1, <2>4, <2>5, Zenon DEF Associates
  <2>7. QED
    BY <2>1, <2>3, <2>6 DEF NumberPartsAre, Around4, n, d
<1>5. CASE ty.t # "enum"
  <2> DEFINE lf == LenAt(le, "front", n)
             lb == LenAt(le, "back", n)
  <2>1. NumberType(ty) = LenType /\ Side(le, ty) = le
    BY <1>5 DEF NumberType, Side
  <2>2. FrontPart(le, c) = lf \o d /\ BackPart(le, c) = lb
    <3>1. CASE ty.t \in {"str", "bytes"}
      <4>1. c.op = "bytes"
        BY <3>1, BegunNumber
      <4>2. QED
        BY <4>1 DEF FrontPart, BackPart, DataOf, NumberOf
    <3>2. CASE ty.t \in {"seq", "map"}
      <4>1. c.op = "seq"
        BY <3>2, BegunNumber
      <4>2. lf \in Seq(BitByte)
        BY <1>1, LenParts
      <4>3. lf \o << >> = lf
        BY <4>2, NothingAdded
      <4>4. FrontPart(le, c) = lf /\ BackPart(le, c) = lb /\ d = << >>
        BY <4>1 DEF FrontPart, BackPart, DataOf, NumberOf
      <4>5. QED
        BY <4>3, <4>4, Zenon
    <3>3. QED
      BY <1>5, <3>1, <3>2 DEF Numbered
  <2>3. LenIs(le, n)
    BY <1>1, LenParts
  <2>4. PICK first \in BitByte, others \in Seq(BitByte) :
          /\ Encoding(LenType, WordOf(LenType, n)) = <<first>> \o others
          /\ le = "front" => lf = <<first>> \o others /\ lb = << >>
          /\ le = "back" => lf = << >> /\ lb = others \o <<first>>
    BY <2>3 DEF LenIs
  <2>5. /\ <<first>> \in Seq(BitByte) /\ <<first>> \o others \in Seq(BitByte)
        /\ others \o <<first>> \in Seq(BitByte)
    BY Single
  <2>6. Associates(<<first>> \o others, d, z) /\ Associates(<<first>>, others, d \o z)
    BY <1>1, <1>2, <2>5, Association
  <2>7. Associates(d \o z, others, <<first>>) /\ Associates(d, z, others \o <<first>>)
    BY <1>1, <1>2, <2>5, Association
  <2>8. << >> \o d = d
    BY <1>1, NothingAdded
  <2> HIDE DEF n, d, lf, lb
  <2>9. CASE le = "front"
    <3>1. lf = <<first>> \o others /\ lb = << >>
      BY <2>4, <2>9
    <3>2. FrontPart(le, c) \o (z \o BackPart(le, c)) = <<first>> \o (others \o (d \o z))
      BY <1>3, <2>2, <2>6, <3>1, Zenon DEF Associates
    <3>3. QED
      BY <2>1, <2>4, <2>9, <3>2 DEF NumberPartsAre, Around4, n, d
  <2>10. CASE le = "back"
    <3>1. lf = << >> /\ lb = others \o <<first>>
      BY <2>4, <2>10
    <3>2. FrontPart(le, c) \o (z \o BackPart(le, c)) = ((d \o z) \o others) \o <<first>>
      BY <2>2, <2>7, <2>8, <3>1, Zenon DEF Associates
    <3>3. QED
      BY <2>1, <2>4, <2>10, <3>2 DEF NumberPartsAre, Around4, n, d
  <2>11. QED
    BY <2>9, <2>10 DEF Ends
<1>6. QED
  BY <1>4, <1>5

-----------------------------------------------------------------------------

(* What is still to come of the record.                                    *)

\* The calls after the first k of them, and what a reader that was told the first k
\* has still to find: their parts, around bytes of the next record.
After(calls, k) == SubSeq(calls, k + 1, Len(calls))

Expect(le, calls, ex, k) == FrontOf(le, After(calls, k)) \o (ex \o BackOf(le, After(calls, k)))

\* The calls still to come are one less after each.
LEMMA AfterIs ==
  ASSUME NEW calls \in Seq(Told)
  PROVE  /\ After(calls, 0) = calls /\ After(calls, Len(calls)) = << >>
         /\ \A k \in 0..Len(calls) : After(calls, k) \in Seq(Told)
         /\ \A k \in 0..Len(calls) - 1 :
              calls[k + 1] \in Told /\ After(calls, k) = <<calls[k + 1]>> \o After(calls, k + 1)
<1> DEFINE n == Len(calls)
<1>1. n \in Nat
  BY LenProperties
<1>2. \A k \in 0..n : /\ After(calls, k) \in Seq(Told) /\ Len(After(calls, k)) = n - k
                      /\ \A i \in 1..n - k : After(calls, k)[i] = calls[k + i]
  BY CutElements DEF After
<1> HIDE DEF n
<1>3. After(calls, 0) = calls
  <2>1. SubSeq(calls, 1, Len(calls)) = calls
    BY WholeFront
  <2>2. 0 + 1 = 1
    OBVIOUS
  <2>3. QED
    BY <2>1, <2>2 DEF After
<1>4. After(calls, n) = << >>
  <2>1. After(calls, n) \in Seq(Told) /\ Len(After(calls, n)) = 0
    <3>1. n \in 0..n /\ n - n = 0
      BY <1>1
    <3>2. QED
      BY <1>2, <3>1
  <2>2. QED
    BY <2>1, EmptySeq
<1>5. ASSUME NEW k \in 0..n - 1
      PROVE  calls[k + 1] \in Told /\ After(calls, k) = <<calls[k + 1]>> \o After(calls, k + 1)
  <2>1. k \in 0..n /\ k + 1 \in 0..n /\ k + 1 \in 1..n /\ k \in Nat
    BY <1>1
  <2>2. calls[k + 1] \in Told
    BY <2>1, ElementOfSeq DEF n
  <2> DEFINE a == After(calls, k)
             b == After(calls, k + 1)
             c == calls[k + 1]
  <2>3. /\ a \in Seq(Told) /\ Len(a) = n - k /\ \A i \in 1..n - k : a[i] = calls[k + i]
        /\ b \in Seq(Told) /\ Len(b) = n - (k + 1)
        /\ \A i \in 1..n - (k + 1) : b[i] = calls[(k + 1) + i]
    BY <1>2, <2>1
  <2> HIDE DEF a, b
  <2>4. a # << >> /\ a[1] = c
    BY <1>1, <2>1, <2>3
  <2>5. Head(a) = c /\ Tail(a) \in Seq(Told) /\ a = <<Head(a)>> \o Tail(a)
    BY <2>3, <2>4, HeadAndTail
  <2>6. Len(Tail(a)) = n - (k + 1) /\ \A i \in 1..n - (k + 1) : Tail(a)[i] = a[i + 1]
    BY <1>1, <2>1, <2>3, <2>4
  <2>7. \A i \in 1..n - (k + 1) : a[i + 1] = calls[(k + 1) + i]
    <3>1. \A i \in 1..n - (k + 1) : i + 1 \in 1..n - k /\ k + (i + 1) = (k + 1) + i
      BY <1>1, <2>1
    <3>2. QED
      BY <2>3, <3>1
  <2>8. Tail(a) = b
    <3>1. Len(Tail(a)) = Len(b) /\ \A i \in 1..Len(Tail(a)) : Tail(a)[i] = b[i]
      BY <2>3, <2>6, <2>7
    <3>2. QED
      BY <2>3, <2>5, <3>1, SeqEqual
  <2>9. QED
    BY <2>2, <2>5, <2>8 DEF a, b
<1>6. QED
  BY <1>2, <1>3, <1>4, <1>5 DEF n

\* What is to come are the parts of the next call around what comes then.
Continues(le, calls, ex, k) ==
  /\ Expect(le, calls, ex, k + 1) \in Seq(BitByte)
  /\ Expect(le, calls, ex, k) =
       FrontPart(le, calls[k + 1]) \o (Expect(le, calls, ex, k + 1) \o BackPart(le, calls[k + 1]))

\* Continues holds up to the last call, after which only what was between the
\* ends remains.
LEMMA ExpectIs ==
  ASSUME NEW le \in Ends, NEW calls \in Seq(Told), NEW ex \in Seq(BitByte)
  PROVE  /\ Expect(le, calls, ex, 0) = FrontOf(le, calls) \o (ex \o BackOf(le, calls))
         /\ Expect(le, calls, ex, Len(calls)) = ex
         /\ \A k \in 0..Len(calls) - 1 : Continues(le, calls, ex, k)
<1>1. Expect(le, calls, ex, 0) = FrontOf(le, calls) \o (ex \o BackOf(le, calls))
  BY AfterIs DEF Expect
<1>2. Expect(le, calls, ex, Len(calls)) = ex
  <2>1. Expect(le, calls, ex, Len(calls)) = << >> \o (ex \o << >>)
    BY AfterIs, RecordEmpty DEF Expect
  <2>2. QED
    BY <2>1, NothingAdded
<1>3. ASSUME NEW k \in 0..Len(calls) - 1 PROVE Continues(le, calls, ex, k)
  <2> DEFINE c == calls[k + 1]
             a == After(calls, k + 1)
             f == FrontOf(le, a)
             b == BackOf(le, a)
             x == FrontPart(le, c)
             y == BackPart(le, c)
  <2>1. k + 1 \in 0..Len(calls)
    <3>1. Len(calls) \in Nat
      BY LenProperties
    <3>2. QED
      BY <3>1
  <2>2. c \in Told /\ a \in Seq(Told) /\ After(calls, k) = <<c>> \o a
    BY <2>1, AfterIs
  <2> HIDE DEF c, a
  <2>3. /\ f \in Seq(BitByte) /\ b \in Seq(BitByte) /\ x \in Seq(BitByte) /\ y \in Seq(BitByte)
    BY <2>2, RecordType, PartTypes
  <2>4. FrontOf(le, <<c>> \o a) = x \o f /\ BackOf(le, <<c>> \o a) = b \o y
    BY <2>2, RecordPrepend DEF Precedes
  <2> HIDE DEF f, b, x, y
  <2>5. Expect(le, calls, ex, k) = (x \o f) \o (ex \o (b \o y))
    BY <2>2, <2>4 DEF Expect
  <2>6. ex \o b \in Seq(BitByte) /\ ex \o (b \o y) \in Seq(BitByte) /\ f \o (ex \o b) \in Seq(BitByte)
    BY <2>3
  <2>7. Associates(x, f, ex \o (b \o y)) /\ Associates(ex, b, y) /\ Associates(f, ex \o b, y)
    BY <2>3, <2>6, Association
  <2>8. (x \o f) \o (ex \o (b \o y)) = x \o ((f \o (ex \o b)) \o y)
    BY <2>7, Zenon DEF Associates
  <2>9. Expect(le, calls, ex, k + 1) = f \o (ex \o b)
    BY DEF Expect, f, b, a
  <2>10. QED
    BY <2>5, <2>6, <2>8, <2>9 DEF Continues, x, y, c
<1>4. QED
  BY <1>1, <1>2, <1>3

-----------------------------------------------------------------------------

(* The functions at work, and the types of what they have still to read.   *)

\* The frames of the call stack, and those that are not at work.
FrameIs(fr) ==
  /\ fr = Frame(fr.f, fr.ty, fr.n, fr.first)
  /\ fr.ty \in Types /\ fr.n \in 0..Huge /\ fr.first \in BitByte
  /\ \/ fr.f = "want"
     \/ fr.f = "elems" /\ fr.ty.t \in {"seq", "map"}
     \/ fr.f = "data" /\ fr.ty.t \in {"str", "bytes"}
     \/ fr.f = "others" /\ fr.ty.t \in Numbered
        /\ LenAccepted(NumberType(fr.ty), DecodedLen(fr.first))

Frames  == {fr \in [f : {"want", "elems", "data", "others"}, ty : Types, n : 0..Huge,
                    first : BitByte] : FrameIs(fr)}

\* The functions that hold nothing of the call they read.
Resting == {fr \in Frames : fr.f \in {"want", "elems"}}

\* The types that a function, and a stack of them, have still to read.
TypesOf(fr) == IF fr.f = "elems" THEN Copies(fr.n, fr.ty.of) ELSE <<fr.ty>>
Unrolled(fs) == [i \in DOMAIN fs |-> TypesOf(fs[i])]
Unroll(fs) == FlattenSeq(Unrolled(fs))

\* A function that has still to begin.
LEMMA WantType ==
  ASSUME NEW ty \in Types
  PROVE  Want(ty) \in Resting /\ Want(ty).f = "want" /\ Want(ty).ty = ty
<1>1. 0 \in 0..Huge
  BY HugeType
<1>2. Zero \in BitByte
  BY ByteBits
<1>3. QED
  BY <1>1, <1>2 DEF Want, Frame, Resting, Frames, FrameIs

\* The functions for the parts of a value.
LEMMA WantsType ==
  ASSUME NEW tys \in Seq(Types)
  PROVE  Wants(tys) \in Seq(Resting) /\ Len(Wants(tys)) = Len(tys)
<1>1. Len(tys) \in Nat /\ DOMAIN tys = 1..Len(tys) /\ \A i \in 1..Len(tys) : tys[i] \in Types
  BY LenProperties, ElementOfSeq
<1>2. Wants(tys) \in [1..Len(tys) -> Resting]
  BY <1>1, WantType DEF Wants
<1>3. ASSUME NEW f \in [1..Len(tys) -> Resting] PROVE f \in Seq(Resting) /\ Len(f) = Len(tys)
  BY <1>1
<1>4. QED
  BY <1>2, <1>3

\* The parts a type may have.
LEMMA TypeParts ==
  ASSUME NEW ty \in Types
  PROVE  /\ ty.t \in {"fixed", "bool", "char", "str", "bytes", "option", "tuple", "seq", "map",
                      "enum", "any", "identifier", "ignored"}
         /\ ty.t = "fixed" => ty.size \in Nat
         /\ ty.t = "bool" => ty.size = 1
         /\ ty.t = "char" => ty.size = 4
         /\ ty.t \in {"option", "tuple", "seq", "map", "enum"} => ty.of \in Seq(Types)
         /\ ty.t = "enum" => \A i \in 1..Len(ty.of) : ty.of[i].of \in Seq(Types)
<1>1. IsType(ty)
  BY DeserializerAssumption
<1>2. ASSUME ty.t = "enum", NEW i \in 1..Len(ty.of) PROVE ty.of[i].of \in Seq(Types)
  <2>1. ty.of \in Seq(Types) /\ \A j \in DOMAIN ty.of : ty.of[j].t = "tuple"
    BY <1>1, <1>2 DEF IsType
  <2>2. i \in DOMAIN ty.of /\ ty.of[i] \in Types
    BY <1>2, <2>1, ElementOfSeq, LenProperties
  <2>3. IsType(ty.of[i])
    BY <2>2, DeserializerAssumption
  <2>4. QED
    BY <2>1, <2>2, <2>3 DEF IsType
<1>3. ty.t = "bool" => ty.size = 1
  BY <1>1 DEF IsType, Bool
<1>4. ty.t = "char" => ty.size = 4
  BY <1>1 DEF IsType, Char
<1>5. QED
  BY <1>1, <1>2, <1>3, <1>4 DEF IsType

\* Elements are the first and the others.
LEMMA CopiesNext ==
  ASSUME NEW tys \in Seq(Types), NEW n \in Nat
  PROVE  /\ Copies(n, tys) \in Seq(Types) /\ Copies(0, tys) = << >>
         /\ n > 0 => Copies(n, tys) = tys \o Copies(n - 1, tys)
<1> DEFINE ss(k) == [i \in 1..k |-> tys]
<1>1. \A k \in Nat : ss(k) \in Seq(Seq(Types)) /\ Len(ss(k)) = k
  <2>1. ASSUME NEW k \in Nat PROVE ss(k) \in Seq(Seq(Types)) /\ Len(ss(k)) = k
    <3>1. ss(k) \in [1..k -> Seq(Types)]
      OBVIOUS
    <3>2. QED
      BY <3>1
  <2>2. QED
    BY <2>1
<1>2. Copies(n, tys) \in Seq(Types)
  BY <1>1, FlattenType DEF Copies
<1>3. Copies(0, tys) = << >>
  <2>1. ss(0) = << >>
    OBVIOUS
  <2>2. QED
    BY <2>1, FlattenEmpty DEF Copies
<1>4. ASSUME n > 0 PROVE Copies(n, tys) = tys \o Copies(n - 1, tys)
  <2>1. n - 1 \in Nat
    BY <1>4
  <2>2. ss(n) = <<tys>> \o ss(n - 1)
    <3> DEFINE a == ss(n)
               b == ss(n - 1)
    <3>1. /\ a \in Seq(Seq(Types)) /\ Len(a) = n /\ b \in Seq(Seq(Types)) /\ Len(b) = n - 1
          /\ \A i \in 1..n : a[i] = tys
          /\ \A i \in 1..n - 1 : b[i] = tys
      BY <1>1, <2>1
    <3> HIDE DEF a, b
    <3>2. a # << >> /\ Head(a) = tys
      BY <1>4, <3>1
    <3>3. Tail(a) \in Seq(Seq(Types)) /\ a = <<Head(a)>> \o Tail(a)
      BY <3>1, <3>2, HeadAndTail
    <3>4. Len(Tail(a)) = n - 1 /\ \A i \in 1..n - 1 : Tail(a)[i] = a[i + 1] /\ i + 1 \in 1..n
      BY <1>4, <3>1, <3>2
    <3>5. Len(Tail(a)) = Len(b) /\ \A i \in 1..Len(Tail(a)) : Tail(a)[i] = b[i]
      BY <3>1, <3>4
    <3>6. Tail(a) = b
      BY <3>1, <3>3, <3>5, SeqEqual
    <3>7. QED
      BY <3>2, <3>3, <3>6 DEF a, b
  <2>3. FlattenSeq(<<tys>> \o ss(n - 1)) = tys \o FlattenSeq(ss(n - 1))
    BY <1>1, <2>1, FlattenPrepend
  <2>4. QED
    BY <2>2, <2>3 DEF Copies
<1>5. QED
  BY <1>2, <1>3, <1>4

\* What a function has still to read are types.
LEMMA TypesOfType ==
  ASSUME NEW fr \in Frames
  PROVE  TypesOf(fr) \in Seq(Types)
<1>1. FrameIs(fr) /\ fr.ty \in Types /\ fr.n \in Nat
  BY HugeType DEF Frames
<1>2. CASE fr.f = "elems"
  <2>1. fr.ty.of \in Seq(Types)
    BY <1>1, <1>2, TypeParts DEF FrameIs
  <2>2. QED
    BY <1>1, <1>2, <2>1, CopiesNext DEF TypesOf
<1>3. CASE fr.f # "elems"
  BY <1>1, <1>3 DEF TypesOf
<1>4. QED
  BY <1>2, <1>3

\* The types of all functions at work.
LEMMA UnrolledType ==
  ASSUME NEW fs \in Seq(Frames)
  PROVE  /\ Unrolled(fs) \in Seq(Seq(Types)) /\ Len(Unrolled(fs)) = Len(fs)
         /\ \A i \in 1..Len(fs) : Unrolled(fs)[i] = TypesOf(fs[i])
         /\ Unroll(fs) \in Seq(Types)
<1>1. Len(fs) \in Nat /\ DOMAIN fs = 1..Len(fs) /\ \A i \in 1..Len(fs) : fs[i] \in Frames
  BY LenProperties, ElementOfSeq
<1>2. Unrolled(fs) \in [1..Len(fs) -> Seq(Types)] /\ \A i \in 1..Len(fs) : Unrolled(fs)[i] = TypesOf(fs[i])
  BY <1>1, TypesOfType DEF Unrolled
<1>3. ASSUME NEW f \in [1..Len(fs) -> Seq(Types)] PROVE f \in Seq(Seq(Types)) /\ Len(f) = Len(fs)
  BY <1>1
<1>4. Unrolled(fs) \in Seq(Seq(Types)) /\ Len(Unrolled(fs)) = Len(fs)
  BY <1>2, <1>3
<1>5. Unroll(fs) \in Seq(Types)
  BY <1>4, FlattenType DEF Unroll
<1>6. QED
  BY <1>2, <1>4, <1>5

\* Nothing at work, nothing to read.
LEMMA UnrollEmpty == Unroll(<< >>) = << >>
<1>1. Unrolled(<< >>) = << >>
  BY DEF Unrolled
<1>2. QED
  BY <1>1, FlattenEmpty DEF Unroll

\* Functions and those that called them.
UnrollsBoth(fs, gs) == Unroll(fs \o gs) = Unroll(fs) \o Unroll(gs)

\* UnrollsBoth holds of all stacks.
LEMMA UnrollConcat ==
  ASSUME NEW fs \in Seq(Frames), NEW gs \in Seq(Frames)
  PROVE  fs \o gs \in Seq(Frames) /\ UnrollsBoth(fs, gs)
<1> DEFINE hs == fs \o gs
           F == Unrolled(fs)
           G == Unrolled(gs)
           H == Unrolled(hs)
<1>1. /\ hs \in Seq(Frames) /\ Len(hs) = Len(fs) + Len(gs)
      /\ \A i \in 1..Len(fs) : hs[i] = fs[i]
      /\ \A i \in 1..Len(gs) : hs[Len(fs) + i] = gs[i]
  BY Join DEF Joined
<1>2. Len(fs) \in Nat /\ Len(gs) \in Nat
  BY LenProperties
<1> HIDE DEF hs
<1>3. /\ F \in Seq(Seq(Types)) /\ Len(F) = Len(fs) /\ \A i \in 1..Len(fs) : F[i] = TypesOf(fs[i])
      /\ G \in Seq(Seq(Types)) /\ Len(G) = Len(gs) /\ \A i \in 1..Len(gs) : G[i] = TypesOf(gs[i])
      /\ H \in Seq(Seq(Types)) /\ Len(H) = Len(hs) /\ \A i \in 1..Len(hs) : H[i] = TypesOf(hs[i])
  BY <1>1, UnrolledType
<1> HIDE DEF F, G, H
<1>4. H = F \o G
  <2>1. /\ F \o G \in Seq(Seq(Types)) /\ Len(F \o G) = Len(fs) + Len(gs)
        /\ \A i \in 1..Len(fs) : (F \o G)[i] = F[i]
        /\ \A i \in 1..Len(gs) : (F \o G)[Len(fs) + i] = G[i]
    <3>1. Joined(F, G, Seq(Types))
      BY <1>3, Join
    <3>2. /\ F \o G \in Seq(Seq(Types)) /\ Len(F \o G) = Len(F) + Len(G)
          /\ \A i \in 1..Len(F) : (F \o G)[i] = F[i]
          /\ \A i \in 1..Len(G) : (F \o G)[Len(F) + i] = G[i]
      BY <3>1 DEF Joined
    <3>3. Len(F) = Len(fs) /\ Len(G) = Len(gs)
      BY <1>3
    <3>4. QED
      BY <3>2, <3>3, Zenon
  <2> DEFINE K == F \o G
  <2> HIDE DEF K
  <2>2. ASSUME NEW i \in 1..Len(hs) PROVE H[i] = K[i]
    <3>1. CASE i \in 1..Len(fs)
      BY <1>1, <1>3, <2>1, <3>1 DEF K
    <3>2. CASE i \notin 1..Len(fs)
      <4>1. i - Len(fs) \in 1..Len(gs) /\ Len(fs) + (i - Len(fs)) = i
        BY <1>1, <1>2, <3>2
      <4> DEFINE j == i - Len(fs)
      <4> HIDE DEF j
      <4>2. j \in 1..Len(gs) /\ Len(fs) + j = i
        BY <4>1 DEF j
      <4>3. hs[i] = gs[j] /\ K[i] = G[j] /\ G[j] = TypesOf(gs[j])
        BY <1>1, <1>3, <2>1, <4>2 DEF K
      <4>4. QED
        BY <1>3, <4>3
    <3>3. QED
      BY <3>1, <3>2
  <2>3. K \in Seq(Seq(Types)) /\ Len(K) = Len(H) /\ \A i \in 1..Len(H) : H[i] = K[i]
    BY <1>1, <1>3, <2>1, <2>2 DEF K
  <2>4. QED
    BY <1>3, <2>3, SeqEqual DEF K
<1>5. Flattens(F, G)
  BY <1>3, FlattenConcat
<1>6. FlattenSeq(H) = FlattenSeq(F) \o FlattenSeq(G)
  BY <1>4, <1>5, Zenon DEF Flattens
<1>7. Unroll(fs \o gs) = Unroll(fs) \o Unroll(gs)
  BY <1>6, Zenon DEF Unroll, F, G, H, hs
<1>8. QED
  BY <1>1, <1>7 DEF UnrollsBoth, hs

\* One function.
LEMMA UnrollOne ==
  ASSUME NEW fr \in Frames
  PROVE  <<fr>> \in Seq(Frames) /\ Unroll(<<fr>>) = TypesOf(fr)
<1>1. <<fr>> \in Seq(Frames) /\ Len(<<fr>>) = 1 /\ <<fr>>[1] = fr
  BY Single
<1>2. TypesOf(fr) \in Seq(Types)
  BY TypesOfType
<1>3. Unrolled(<<fr>>) = <<TypesOf(fr)>>
  <2>1. DOMAIN <<fr>> = 1..1
    BY <1>1
  <2>2. QED
    BY <1>1, <2>1 DEF Unrolled
<1>4. << >> \in Seq(Seq(Types)) /\ << >> \in Seq(Types)
  BY EmptySeq
<1>5. FlattenSeq(Append(<< >>, TypesOf(fr))) = FlattenSeq(<< >>) \o TypesOf(fr)
  BY <1>2, <1>4, FlattenAppend
<1>6. Append(<< >>, TypesOf(fr)) = <<TypesOf(fr)>>
  OBVIOUS
<1>7. << >> \o TypesOf(fr) = TypesOf(fr)
  BY <1>2, ConcatEmptySeq
<1>8. Unroll(<<fr>>) = TypesOf(fr)
  BY <1>3, <1>5, <1>6, <1>7, FlattenEmpty, Zenon DEF Unroll
<1>9. QED
  BY <1>1, <1>8

\* The function at work and those that called it.
LEMMA UnrollTop ==
  ASSUME NEW fs \in Seq(Frames), fs # << >>
  PROVE  /\ Head(fs) \in Frames /\ Tail(fs) \in Seq(Frames)
         /\ Unroll(fs) = TypesOf(Head(fs)) \o Unroll(Tail(fs))
<1>1. Head(fs) \in Frames /\ Tail(fs) \in Seq(Frames) /\ fs = <<Head(fs)>> \o Tail(fs)
  BY HeadAndTail
<1>2. <<Head(fs)>> \in Seq(Frames) /\ Unroll(<<Head(fs)>>) = TypesOf(Head(fs))
  BY <1>1, UnrollOne
<1>3. UnrollsBoth(<<Head(fs)>>, Tail(fs))
  BY <1>1, <1>2, UnrollConcat
<1>4. QED
  BY <1>1, <1>2, <1>3, Zenon DEF UnrollsBoth

\* The functions for the parts of a value read just these.
LEMMA UnrollWants ==
  ASSUME NEW tys \in Seq(Types)
  PROVE  Wants(tys) \in Seq(Frames) /\ Unroll(Wants(tys)) = tys
<1> DEFINE T == {s \in Seq(Types) : Wants(s) \in Seq(Frames) /\ Unroll(Wants(s)) = s}
<1>1. << >> \in T
  <2>1. Wants(<< >>) = << >>
    BY DEF Wants
  <2>2. QED
    BY <2>1, UnrollEmpty, EmptySeq
<1>2. ASSUME NEW s \in Seq(Types), NEW x \in Types, s \in T
      PROVE  Append(s, x) \in T
  <2> DEFINE w == Wants(s)
             v == Wants(Append(s, x))
  <2>1. /\ Append(s, x) \in Seq(Types) /\ Len(Append(s, x)) = Len(s) + 1 /\ Len(s) \in Nat
        /\ Append(s, x)[Len(s) + 1] = x /\ \A i \in 1..Len(s) : Append(s, x)[i] = s[i]
        /\ DOMAIN s = 1..Len(s) /\ DOMAIN Append(s, x) = 1..Len(s) + 1
    BY AppendProperties, LenProperties
  <2>2. /\ w \in Seq(Resting) /\ Len(w) = Len(s) /\ v \in Seq(Resting) /\ Len(v) = Len(s) + 1
    BY <2>1, WantsType
  <2>3. \A i \in 1..Len(s) : w[i] = Want(s[i]) /\ v[i] = Want(s[i])
    <3>1. \A i \in 1..Len(s) : i \in 1..Len(s) + 1
      BY <2>1
    <3>2. QED
      BY <2>1, <3>1 DEF Wants
  <2>4. v[Len(s) + 1] = Want(x)
    <3>1. Len(s) + 1 \in 1..Len(s) + 1
      BY <2>1
    <3>2. QED
      BY <2>1, <3>1 DEF Wants
  <2>5. Want(x) \in Resting /\ TypesOf(Want(x)) = <<x>>
    BY WantType DEF TypesOf
  <2>6. Resting \subseteq Frames
    BY DEF Resting
  <2>7. /\ w \in Seq(Frames) /\ v \in Seq(Frames) /\ Want(x) \in Frames
    BY <2>2, <2>5, <2>6
  <2> HIDE DEF w, v
  <2>8. v = Append(w, Want(x))
    <3> DEFINE z == Append(w, Want(x))
    <3>1. /\ z \in Seq(Frames) /\ Len(z) = Len(w) + 1 /\ z[Len(w) + 1] = Want(x)
          /\ \A i \in 1..Len(w) : z[i] = w[i]
      BY <2>7, AppendProperties
    <3> HIDE DEF z
    <3>2. ASSUME NEW i \in 1..Len(v) PROVE v[i] = z[i]
      <4>1. CASE i = Len(s) + 1
        BY <2>2, <2>4, <3>1, <4>1
      <4>2. CASE i # Len(s) + 1
        <5>1. i \in 1..Len(s)
          BY <2>1, <2>2, <4>2
        <5>2. QED
          BY <2>2, <2>3, <3>1, <5>1
      <4>3. QED
        BY <4>1, <4>2
    <3>3. Len(v) = Len(z)
      BY <2>2, <3>1
    <3>4. QED
      BY <2>7, <3>1, <3>2, <3>3, SeqEqual DEF z
  <2>9. Append(w, Want(x)) = w \o <<Want(x)>>
    BY <2>7
  <2>10. <<Want(x)>> \in Seq(Frames) /\ Unroll(<<Want(x)>>) = <<x>>
    BY <2>5, <2>7, UnrollOne
  <2>11. UnrollsBoth(w, <<Want(x)>>)
    BY <2>7, <2>10, UnrollConcat
  <2>12. Unroll(w) = s
    BY <1>2 DEF w
  <2>13. Unroll(v) = s \o <<x>>
    BY <2>8, <2>9, <2>10, <2>11, <2>12, Zenon DEF UnrollsBoth
  <2>14. s \o <<x>> = Append(s, x)
    OBVIOUS
  <2>15. QED
    BY <2>1, <2>7, <2>13, <2>14 DEF v
<1>3. tys \in T
  <2> HIDE DEF T
  <2>1. QED
    BY <1>1, <1>2, AppendInduction
<1>4. QED
  BY <1>3

-----------------------------------------------------------------------------

(* The types of what is still to come of a value.                          *)

\* A type and the calls its values begin with.
LEMMA BegunKinds ==
  ASSUME NEW ty \in Types, NEW c \in Told, Begun(ty, c)
  PROVE  /\ ty.t \in {"fixed", "bool", "char"} => c.op = "prim"
         /\ ty.t \in {"str", "bytes"} => c.op = "bytes"
         /\ ty.t = "option" => c.op \in {"none", "some"}
         /\ ty.t = "tuple" => c.op = "compound"
         /\ ty.t \in {"seq", "map"} => c.op = "seq"
         /\ ty.t = "enum" => c.op = "variant" /\ c.n < Len(ty.of)
         /\ ty.t \in {"fixed", "bool", "char", "str", "bytes", "option", "tuple", "seq", "map",
                      "enum"}
<1>1. Prim(<<ByteOf(0)>>).op = "prim" /\ Prim(<<ByteOf(1)>>).op = "prim"
  BY DEF Prim
<1>2. ty.t = "bool" => c = Prim(<<ByteOf(0)>>) \/ c = Prim(<<ByteOf(1)>>)
  BY DEF Begun
<1>3. ty.t = "bool" => c.op = "prim"
  BY <1>1, <1>2
<1>4. ty.t \notin {"any", "identifier", "ignored"}
  BY DEF Begun
<1>5. QED
  BY <1>3, <1>4, TypeParts DEF Begun

\* The parts behind the first call of a value of a type.
LEMMA PartsAre ==
  ASSUME NEW ty \in Types, NEW c \in Told, Begun(ty, c)
  PROVE  /\ PartsOf(ty, c) \in Seq(Types)
         /\ c.op \in {"prim", "bytes", "none"} => PartsOf(ty, c) = << >>
         /\ c.op \in {"some", "compound"} => PartsOf(ty, c) = ty.of
         /\ c.op = "seq" => PartsOf(ty, c) = Copies(c.n, ty.of)
         /\ c.op = "variant" => PartsOf(ty, c) = ty.of[c.n + 1].of
<1>1. /\ c.op \in {"prim", "bytes", "none"} => PartsOf(ty, c) = << >>
      /\ c.op \in {"some", "compound"} => PartsOf(ty, c) = ty.of
      /\ c.op = "seq" => PartsOf(ty, c) = Copies(c.n, ty.of)
      /\ c.op = "variant" => PartsOf(ty, c) = ty.of[c.n + 1].of
  BY DEF PartsOf
<1>2. << >> \in Seq(Types)
  BY EmptySeq
<1>3. PartsOf(ty, c) \in Seq(Types)
  <2>1. CASE c.op \in {"prim", "bytes", "none"}
    BY <1>1, <1>2, <2>1
  <2>2. CASE c.op \in {"some", "compound"}
    <3>1. ty.t \in {"option", "tuple"}
      BY <2>2, BegunKinds
    <3>2. ty.of \in Seq(Types)
      BY <3>1, TypeParts
    <3>3. QED
      BY <1>1, <2>2, <3>2
  <2>3. CASE c.op = "seq"
    <3>1. ty.t \in {"seq", "map"}
      BY <2>3, BegunKinds
    <3>2. ty.of \in Seq(Types) /\ c.n \in Nat
      BY <2>3, <3>1, TypeParts, ToldCases
    <3>3. Copies(c.n, ty.of) \in Seq(Types)
      BY <3>2, CopiesNext
    <3>4. QED
      BY <1>1, <2>3, <3>3
  <2>4. CASE c.op = "variant"
    <3>1. ty.t = "enum" /\ c.n < Len(ty.of)
      BY <2>4, BegunKinds
    <3>2. c.n \in Nat /\ Len(ty.of) \in Nat
      BY <2>4, <3>1, TypeParts, ToldCases, LenProperties
    <3>3. c.n + 1 \in 1..Len(ty.of)
      BY <3>1, <3>2
    <3>4. ty.of[c.n + 1].of \in Seq(Types)
      BY <3>1, <3>3, TypeParts
    <3>5. QED
      BY <1>1, <2>4, <3>4
  <2>5. QED
    BY <2>1, <2>2, <2>3, <2>4, ToldCases
<1>4. QED
  BY <1>1, <1>3

\* What a value wants to read after a call of it, from what it wanted before.
Then(types, c) == IF Fits(types, c) THEN PartsOf(Head(types), c) \o Tail(types) ELSE << >>

\* These are types.
LEMMA ThenType ==
  ASSUME NEW types \in Seq(Types), NEW c \in Told
  PROVE  Then(types, c) \in Seq(Types)
<1>1. CASE Fits(types, c)
  <2>1. types # << >> /\ Begun(Head(types), c)
    BY <1>1 DEF Fits
  <2>2. Head(types) \in Types /\ Tail(types) \in Seq(Types)
    BY <2>1, HeadAndTail
  <2>3. PartsOf(Head(types), c) \in Seq(Types)
    BY <2>1, <2>2, PartsAre
  <2>4. Then(types, c) = PartsOf(Head(types), c) \o Tail(types)
    BY <1>1 DEF Then
  <2>5. QED
    BY <2>2, <2>3, <2>4
<1>2. CASE ~Fits(types, c)
  BY <1>2, EmptySeq DEF Then
<1>3. QED
  BY <1>1, <1>2

\* Wanted is what its definition says.
LEMMA WantedIs ==
  ASSUME NEW s \in Sample
  PROVE  /\ \A k \in 0..Len(s.calls) : Wanted(s)[k] \in Seq(Types)
         /\ Wanted(s)[0] = <<s.ty>>
         /\ \A k \in 1..Len(s.calls) : Wanted(s)[k] = Then(Wanted(s)[k - 1], s.calls[k])
<1> DEFINE n == Len(s.calls)
           V == Seq(Types)
           step == [i \in 1..n |-> [v \in V |-> Then(v, s.calls[i])]]
           Eqn(h) == h = [k \in 0..n |->
                            IF k = 0 THEN <<s.ty>>
                            ELSE IF Fits(h[k - 1], s.calls[k])
                                 THEN PartsOf(Head(h[k - 1]), s.calls[k]) \o Tail(h[k - 1])
                                 ELSE << >>]
           g == CHOOSE h : Eqn(h)
<1>1. s.ty \in Types /\ s.calls \in Seq(Told)
  BY SampleType
<1>2. n \in Nat /\ \A i \in 1..n : s.calls[i] \in Told
  BY <1>1, LenProperties, ElementOfSeq
<1>3. <<s.ty>> \in V
  BY <1>1, Single
<1>4. \A i \in 1..n : \A v \in V : step[i][v] = Then(v, s.calls[i]) /\ Then(v, s.calls[i]) \in V
  BY <1>2, ThenType
<1>5. Steps(V, n, step)
  <2> HIDE DEF step, V
  <2>1. QED BY <1>4 DEF Steps
<1>6. \E f : Recursive(f, V, n, <<s.ty>>, step)
  <2> HIDE DEF step, V, n
  <2>1. QED BY <1>2, <1>3, <1>5, Recursion
<1>7. PICK f : Recursive(f, V, n, <<s.ty>>, step)
  BY <1>6
<1>8. f \in [0..n -> V] /\ f[0] = <<s.ty>> /\ \A i \in 1..n : f[i] = step[i][f[i - 1]]
  <2> HIDE DEF step, V, n
  <2>1. QED BY <1>7 DEF Recursive
<1>9. \A i \in 1..n : f[i - 1] \in V /\ f[i] = Then(f[i - 1], s.calls[i])
  <2>1. \A i \in 1..n : i - 1 \in 0..n
    BY <1>2
  <2> HIDE DEF step, V, n
  <2>2. \A i \in 1..n : f[i - 1] \in V
    BY <1>8, <2>1
  <2>3. QED
    BY <1>4, <1>8, <2>2
<1>10. Eqn(f)
  <2>1. ASSUME NEW k \in 0..n
        PROVE  f[k] = IF k = 0 THEN <<s.ty>>
                      ELSE IF Fits(f[k - 1], s.calls[k])
                           THEN PartsOf(Head(f[k - 1]), s.calls[k]) \o Tail(f[k - 1])
                           ELSE << >>
    <3>1. CASE k = 0
      BY <1>8, <3>1
    <3>2. CASE k # 0
      <4>1. k \in 1..n
        BY <3>2
      <4>2. f[k] = Then(f[k - 1], s.calls[k])
        BY <1>9, <4>1
      <4>3. QED
        BY <3>2, <4>2 DEF Then
    <3>3. QED
      BY <3>1, <3>2
  <2>2. QED
    BY <1>8, <2>1
<1>11. Eqn(g)
  <2> HIDE DEF Eqn
  <2>1. QED BY <1>10, Zenon
<1>12. Wanted(s) = g
  BY DEF Wanted
<1> HIDE DEF g
<1>13. \A k \in 0..n : g[k] = IF k = 0 THEN <<s.ty>>
                              ELSE IF Fits(g[k - 1], s.calls[k])
                                   THEN PartsOf(Head(g[k - 1]), s.calls[k]) \o Tail(g[k - 1])
                                   ELSE << >>
  BY <1>11
<1>14. g[0] = <<s.ty>>
  BY <1>2, <1>13
<1>15. \A k \in 1..n : g[k] = Then(g[k - 1], s.calls[k])
  <2>1. \A k \in 1..n : k \in 0..n /\ k # 0
    OBVIOUS
  <2>2. QED
    BY <1>13, <2>1 DEF Then
<1>16. \A k \in 0..n : g[k] \in V
  <2> DEFINE P == {k \in Nat : k \in 0..n => g[k] \in V}
  <2>1. 0 \in P
    BY <1>3, <1>14
  <2>2. ASSUME NEW k \in Nat, k \in P PROVE k + 1 \in P
    <3>1. CASE k + 1 \in 1..n
      <4>1. k \in 0..n /\ (k + 1) - 1 = k
        BY <1>2, <3>1
      <4>2. g[k] \in V
        BY <2>2, <4>1
      <4>3. g[k + 1] = Then(g[k], s.calls[k + 1])
        BY <1>15, <3>1, <4>1
      <4>4. s.calls[k + 1] \in Told
        BY <1>2, <3>1
      <4>5. g[k + 1] \in V
        BY <4>2, <4>3, <4>4, ThenType
      <4>6. QED
        BY <4>5
    <3>2. CASE k + 1 \notin 1..n
      BY <3>2
    <3>3. QED
      BY <3>1, <3>2
  <2>3. \A k \in Nat : k \in P
    <3> HIDE DEF P
    <3>1. QED BY <2>1, <2>2, Induction
  <2>4. QED
    BY <2>3
<1>17. QED
  BY <1>12, <1>14, <1>15, <1>16

-----------------------------------------------------------------------------

(* The steps.                                                              *)

\* The errors a deserializer returns.
Errors == {"PrematureEndOfInput", "InvalidUtf8Encoding", "InvalidTagEncoding",
           "InvalidVarintEncoding", "Serde", "DeserializeAnyNotSupported",
           "DeserializeIdentifierNotSupported", "DeserializeIgnoredAny"}

\* The type invariant with what the stack of functions always is: only the one at
\* work holds a number or data.
TypeInv ==
  /\ pc \in {"sent", "open", "reading", "done"}
  /\ lenEnd \in Ends /\ order \in Orders /\ debug \in BOOLEAN /\ sample \in Sample
  /\ extra \in Seq(BitByte) /\ input \in Seq(BitByte) /\ rest \in Seq(BitByte)
  /\ Len(rest) <= Len(input)
  /\ todo \in Seq(Frames) /\ (todo # << >> => Tail(todo) \in Seq(Resting))
  /\ got \in Seq(Told)
  /\ outcome \in Errors \cup {"none", "Ok"}
  /\ pc # "done" => outcome = "none"
  /\ pc \in {"sent", "open"} => todo = << >> /\ got = << >> /\ rest = << >> /\ ~early
  /\ pc = "sent" => extra = << >>

\* What is read from an end, and what is left.
Cut(end, n, x, y) ==
  /\ x \in Seq(BitByte) /\ y \in Seq(BitByte) /\ Len(x) = n
  /\ end = "front" => rest = x \o y /\ x = R!FirstBytes(n)
  /\ end = "back" => rest = y \o x /\ x = R!LastBytes(n)

\* There is not enough to read.
Lacks(n) == Len(rest) < n /\ rest' = rest /\ reply'.err = "PrematureEndOfInput"

\* Bytes can be cut off either end.
LEMMA CutIs ==
  ASSUME rest \in Seq(BitByte), NEW n \in Nat, n <= Len(rest)
  PROVE  /\ Cut("front", n, R!FirstBytes(n), R!DropFirst(n))
         /\ Cut("back", n, R!LastBytes(n), R!DropLast(n))
<1>1. Len(rest) \in Nat
  BY LenProperties
<1>2. n \in 0..Len(rest) /\ Len(rest) - n \in 0..Len(rest)
  BY <1>1
<1>3. Cut("front", n, R!FirstBytes(n), R!DropFirst(n))
  <2>1. /\ SubSeq(rest, 1, n) \in Seq(BitByte) /\ SubSeq(rest, n + 1, Len(rest)) \in Seq(BitByte)
        /\ Len(SubSeq(rest, 1, n)) = n
        /\ SubSeq(rest, 1, n) \o SubSeq(rest, n + 1, Len(rest)) = rest
    BY <1>2, CutSeq
  <2>2. QED
    BY <2>1 DEF Cut, R!FirstBytes, R!DropFirst
<1>4. Cut("back", n, R!LastBytes(n), R!DropLast(n))
  <2> DEFINE i == Len(rest) - n
  <2>1. i \in 0..Len(rest)
    BY <1>2
  <2> HIDE DEF i
  <2>2. /\ SubSeq(rest, 1, i) \in Seq(BitByte) /\ SubSeq(rest, i + 1, Len(rest)) \in Seq(BitByte)
        /\ Len(SubSeq(rest, i + 1, Len(rest))) = Len(rest) - i
        /\ SubSeq(rest, 1, i) \o SubSeq(rest, i + 1, Len(rest)) = rest
    BY <2>1, CutSeq
  <2>3. Len(rest) - i = n
    BY <1>1 DEF i
  <2>4. QED
    BY <2>2, <2>3 DEF Cut, R!LastBytes, R!DropLast, i
<1>5. QED
  BY <1>3, <1>4

\* The outcomes of a call of read or read_tail.
ReadOutcomes(end, n, err) ==
  \/ Lacks(n)
  \/ \E x, y \in Seq(BitByte) :
       /\ Cut(end, n, x, y)
       /\ \/ err = "Ok" /\ reply'.err = "Ok" /\ reply'.bytes = x /\ rest' = y
          \/ err # "Ok" /\ reply'.err = "CallbackError" /\ rest' = rest

\* ReadOutcomes holds of every call.
LEMMA ReadsIs ==
  ASSUME rest \in Seq(BitByte), NEW end \in Ends, NEW n \in Nat, NEW err, Reads(end, n, err)
  PROVE  ReadOutcomes(end, n, err)
<1>1. Len(rest) \in Nat
  BY LenProperties
<1>2. CASE n > Len(rest)
  <2>1. reply'.err = "PrematureEndOfInput" /\ rest' = rest
    BY <1>1, <1>2 DEF Reads, R!Read, R!ReadTail, R!ReadAt, R!Answer
  <2>2. QED
    BY <1>1, <1>2, <2>1 DEF ReadOutcomes, Lacks
<1>3. CASE n <= Len(rest)
  <2> DEFINE x == IF end = "front" THEN R!FirstBytes(n) ELSE R!LastBytes(n)
             y == IF end = "front" THEN R!DropFirst(n) ELSE R!DropLast(n)
  <2>1. Cut(end, n, x, y)
    BY <1>3, CutIs DEF Ends
  <2>2. x \in Seq(BitByte) /\ y \in Seq(BitByte)
    BY <2>1 DEF Cut
  <2>3. /\ \/ reply'.err = "Ok" /\ reply'.bytes = x /\ rest' = y
           \/ reply'.err = "CallbackError" /\ rest' = rest
        /\ reply'.err = "Ok" <=> err = "Ok"
    <3>1. ~(n > Len(rest))
      BY <1>1, <1>3
    <3>2. CASE end = "front"
      BY <1>3, <3>1, <3>2 DEF Reads, R!Read, R!ReadAt, R!Answer
    <3>3. CASE end # "front"
      BY <1>3, <3>1, <3>3 DEF Reads, R!ReadTail, R!ReadAt, R!Answer
    <3>4. QED
      BY <3>2, <3>3
  <2> HIDE DEF x, y
  <2>4. QED
    BY <2>1, <2>2, <2>3 DEF ReadOutcomes
<1>4. QED
  BY <1>1, <1>2, <1>3

\* What a step that reads leaves alone.
Kept ==
  /\ lenEnd' = lenEnd /\ order' = order /\ debug' = debug /\ sample' = sample
  /\ extra' = extra /\ input' = input /\ (~loose' => ~loose)

\* The function at work.
LEMMA TopIs ==
  ASSUME TypeInv, todo # << >>
  PROVE  /\ Top \in Frames /\ FrameIs(Top) /\ Top.ty \in Types /\ Top.n \in Nat /\ Top.n <= Huge
         /\ Top.first \in BitByte /\ Tail(todo) \in Seq(Resting)
         /\ todo \in Seq(Frames) /\ Top = Head(todo)
<1>1. todo \in Seq(Frames) /\ Tail(todo) \in Seq(Resting)
  BY DEF TypeInv
<1>2. Top \in Frames
  BY <1>1, HeadAndTail DEF Top
<1>3. FrameIs(Top) /\ Top.ty \in Types /\ Top.n \in 0..Huge /\ Top.first \in BitByte
  BY <1>2 DEF Frames
<1>4. Top.n \in Nat /\ Top.n <= Huge
  BY <1>3, HugeType
<1>5. QED
  BY <1>1, <1>2, <1>3, <1>4 DEF Top

\* What reading a primitive does: it fails before it has read, or on a char of no
\* character, or it tells what it has read.
PrimitiveDoes ==
  /\ Kept /\ early' = early
  /\ \/ Lacks(Top.ty.size) /\ FailWith("PrematureEndOfInput")
     \/ \E x, y \in Seq(BitByte) :
          /\ Cut("front", Top.ty.size, x, y) /\ rest' = y
          /\ \/ Top.ty.t = "char" /\ ~IsChar(x) /\ FailWith("InvalidUtf8Encoding")
             \/ \E b \in Seq(BitByte) :
                  /\ Continue(<< >>, <<Prim(b)>>)
                  /\ Top.ty.t # "bool" \/ x = <<ByteOf(0)>> \/ x = <<ByteOf(1)>> => b = x
                  /\ ~loose' => b = x

\* A primitive fails before it has read, or is told as it was read, but for a bool
\* of another byte.
LEMMA PrimitiveIs ==
  ASSUME TypeInv, ReadPrimitive
  PROVE  PrimitiveDoes
<1> DEFINE ty == Top.ty
<1>1. pc = "reading" /\ todo # << >> /\ ty.t \in {"fixed", "bool", "char"}
  BY DEF ReadPrimitive, AtType, At
<1>2. ty \in Types
  BY <1>1, TopIs
<1>3. ty.size \in Nat
  BY <1>1, <1>2, TypeParts
<1>4. rest \in Seq(BitByte) /\ "front" \in Ends
  BY DEF TypeInv, Ends
<1>5. Reads("front", ty.size, "Ok")
  BY DEF ReadPrimitive
<1>6. ReadOutcomes("front", ty.size, "Ok")
  BY <1>3, <1>4, <1>5, ReadsIs
<1>7. Kept /\ early' = early
  BY DEF ReadPrimitive, Kept, setting
<1>8. CASE Lacks(ty.size)
  <2>1. ReadFailed /\ ReadError("Ok") = "PrematureEndOfInput"
    BY <1>8 DEF Lacks, ReadFailed, ReadError
  <2>2. FailWith("PrematureEndOfInput")
    BY <2>1 DEF ReadPrimitive
  <2>3. QED
    BY <1>7, <1>8, <2>2 DEF PrimitiveDoes
<1>9. CASE ~Lacks(ty.size)
  <2>1. PICK x \in Seq(BitByte), y \in Seq(BitByte) :
          Cut("front", ty.size, x, y) /\ reply'.err = "Ok" /\ reply'.bytes = x /\ rest' = y
    BY <1>6, <1>9 DEF ReadOutcomes
  <2>2. ~ReadFailed
    BY <2>1 DEF ReadFailed
  <2>3. CASE ty.t = "char" /\ ~IsChar(x)
    <3>1. FailWith("InvalidUtf8Encoding")
      BY <2>1, <2>2, <2>3 DEF ReadPrimitive
    <3>2. QED
      BY <1>7, <2>1, <2>3, <3>1 DEF PrimitiveDoes
  <2>4. CASE ty.t = "bool"
    <3> DEFINE b == <<ByteOf(IF x = <<Zero>> THEN 0 ELSE 1)>>
    <3>1. Continue(<< >>, <<Prim(b)>>)
      BY <2>1, <2>2, <2>4 DEF ReadPrimitive
    <3>2. ByteOf(0) \in BitByte /\ ByteOf(1) \in BitByte /\ ByteOf(0) # ByteOf(1)
      BY ValueOfByte
    <3>3. b \in Seq(BitByte)
      BY <3>2, Single
    <3>4. x = <<ByteOf(0)>> \/ x = <<ByteOf(1)>> => b = x
      BY <3>2 DEF Zero
    <3>5. ~loose' => x \in {<<ByteOf(0)>>, <<ByteOf(1)>>}
      BY <2>1, <2>2, <2>4 DEF ReadPrimitive
    <3> HIDE DEF b
    <3>6. QED
      BY <1>7, <2>1, <2>4, <3>1, <3>3, <3>4, <3>5 DEF PrimitiveDoes
  <2>5. CASE ty.t # "bool" /\ ~(ty.t = "char" /\ ~IsChar(x))
    <3>1. Continue(<< >>, <<Prim(x)>>)
      BY <2>1, <2>2, <2>5 DEF ReadPrimitive
    <3>2. QED
      BY <1>7, <2>1, <2>5, <3>1 DEF PrimitiveDoes
  <2>6. QED
    BY <2>3, <2>4, <2>5
<1>10. QED
  BY <1>8, <1>9

\* What reading an option does: it fails before it has read, or on another tag than
\* those of None and Some.
OptionDoes ==
  /\ Kept /\ early' = early
  /\ \/ Lacks(1) /\ FailWith("PrematureEndOfInput")
     \/ \E x, y \in Seq(BitByte) :
          /\ Cut("front", 1, x, y) /\ rest' = y
          /\ \/ x = <<ByteOf(0)>> /\ Continue(<< >>, <<None>>)
             \/ x = <<ByteOf(1)>> /\ Continue(Wants(Top.ty.of), <<Some>>)
             \/ x # <<ByteOf(0)>> /\ x # <<ByteOf(1)>> /\ FailWith("InvalidTagEncoding")

\* An option fails before it has read, or for another tag than those of None and
\* Some.
LEMMA OptionIs ==
  ASSUME TypeInv, ReadOption
  PROVE  OptionDoes
<1>1. rest \in Seq(BitByte) /\ "front" \in Ends /\ 1 \in Nat
  BY DEF TypeInv, Ends
<1>2. Reads("front", 1, "Ok")
  BY DEF ReadOption
<1>3. ReadOutcomes("front", 1, "Ok")
  BY <1>1, <1>2, ReadsIs
<1>4. Kept /\ early' = early
  BY DEF ReadOption, Kept, setting
<1>5. CASE Lacks(1)
  <2>1. ReadFailed /\ ReadError("Ok") = "PrematureEndOfInput"
    BY <1>5 DEF Lacks, ReadFailed, ReadError
  <2>2. FailWith("PrematureEndOfInput")
    BY <2>1 DEF ReadOption
  <2>3. QED
    BY <1>4, <1>5, <2>2 DEF OptionDoes
<1>6. CASE ~Lacks(1)
  <2>1. PICK x \in Seq(BitByte), y \in Seq(BitByte) :
          Cut("front", 1, x, y) /\ reply'.err = "Ok" /\ reply'.bytes = x /\ rest' = y
    BY <1>3, <1>6 DEF ReadOutcomes
  <2>2. ~ReadFailed
    BY <2>1 DEF ReadFailed
  <2>3. ByteOf(0) # ByteOf(1)
    BY ValueOfByte
  <2>4. <<ByteOf(0)>> # <<ByteOf(1)>>
    BY <2>3
  <2>5. \/ x = <<ByteOf(0)>> /\ Continue(<< >>, <<None>>)
        \/ x = <<ByteOf(1)>> /\ Continue(Wants(Top.ty.of), <<Some>>)
        \/ x # <<ByteOf(0)>> /\ x # <<ByteOf(1)>> /\ FailWith("InvalidTagEncoding")
    BY <2>1, <2>2, <2>4 DEF ReadOption
  <2>6. QED
    BY <1>4, <2>1, <2>5 DEF OptionDoes
<1>7. QED
  BY <1>5, <1>6

\* What reading the first byte of a number does.
NumberFirstDoes ==
  /\ Kept /\ early' = early
  /\ \/ Lacks(1) /\ FailWith("PrematureEndOfInput")
     \/ \E x, y \in Seq(BitByte) :
          /\ Cut(NumberEnd(Top.ty), 1, x, y) /\ rest' = y
          /\ \/ /\ ~LenAccepted(NumberType(Top.ty), DecodedLen(x[1]))
                /\ FailWith("InvalidVarintEncoding")
             \/ /\ LenAccepted(NumberType(Top.ty), DecodedLen(x[1]))
                /\ Continue(<<Frame("others", Top.ty, 0, x[1])>>, << >>)

\* The end that has a number is the one its bytes are expected at.
LEMMA NumberEndIs ==
  ASSUME lenEnd \in Ends, NEW ty
  PROVE  NumberEnd(ty) = Side(lenEnd, ty) /\ NumberEnd(ty) \in Ends
BY DEF NumberEnd, Side, Ends

\* The first byte of a number says how many others there are, unless it is that
\* of no number of the type.
LEMMA NumberFirstIs ==
  ASSUME TypeInv, ReadNumberFirst
  PROVE  NumberFirstDoes
<1> DEFINE ty == Top.ty
           end == NumberEnd(ty)
<1>1. rest \in Seq(BitByte) /\ end \in Ends /\ 1 \in Nat
  BY NumberEndIs DEF TypeInv
<1>2. Reads(end, 1, "Ok")
  BY DEF ReadNumberFirst
<1>3. ReadOutcomes(end, 1, "Ok")
  BY <1>1, <1>2, ReadsIs
<1>4. Kept /\ early' = early
  BY DEF ReadNumberFirst, Kept, setting
<1>5. CASE Lacks(1)
  <2>1. ReadFailed /\ ReadError("Ok") = "PrematureEndOfInput"
    BY <1>5 DEF Lacks, ReadFailed, ReadError
  <2>2. FailWith("PrematureEndOfInput")
    BY <2>1 DEF ReadNumberFirst
  <2>3. QED
    BY <1>4, <1>5, <2>2 DEF NumberFirstDoes
<1>6. CASE ~Lacks(1)
  <2>1. PICK x \in Seq(BitByte), y \in Seq(BitByte) :
          Cut(end, 1, x, y) /\ reply'.err = "Ok" /\ reply'.bytes = x /\ rest' = y
    BY <1>3, <1>6 DEF ReadOutcomes
  <2>2. ~ReadFailed
    BY <2>1 DEF ReadFailed
  <2>3. \/ /\ ~LenAccepted(NumberType(ty), DecodedLen(x[1]))
           /\ FailWith("InvalidVarintEncoding")
        \/ /\ LenAccepted(NumberType(ty), DecodedLen(x[1]))
           /\ Continue(<<Frame("others", ty, 0, x[1])>>, << >>)
    BY <2>1, <2>2 DEF ReadNumberFirst
  <2>4. QED
    BY <1>4, <2>1, <2>3 DEF NumberFirstDoes
<1>7. QED
  BY <1>5, <1>6

\* What reading the other bytes of a number does: those of an overlong number are
\* looked at and stay in the buffer.
NumberOthersDoes ==
  LET u == NumberType(Top.ty)
      len == DecodedLen(Top.first)
  IN /\ Kept /\ early' = early
     /\ \/ Lacks(len - 1) /\ FailWith("PrematureEndOfInput")
        \/ \E x, y \in Seq(BitByte) :
             /\ Cut(NumberEnd(Top.ty), len - 1, x, y)
             /\ \E num \in {Decode(u, len, Top.first, x, debug)} :
                  \/ num.err # "Ok" /\ rest' = rest /\ FailWith(num.err)
                  \/ /\ num.err = "Ok" /\ rest' = y /\ AfterNumber(Top.ty, Number(num.val))
                     /\ ~loose' => ~Vague(u, Top.first, Number(num.val))

\* The other bytes are looked at before they are consumed.
LEMMA NumberOthersIs ==
  ASSUME TypeInv, ReadNumberOthers
  PROVE  NumberOthersDoes /\ DecodedLen(Top.first) - 1 \in Nat
<1> DEFINE ty == Top.ty
           end == NumberEnd(ty)
           u == NumberType(ty)
           len == DecodedLen(Top.first)
           seen == IF end = "front" THEN R!FirstBytes(len - 1) ELSE R!LastBytes(len - 1)
           num == Decode(u, len, Top.first, seen, debug)
<1>1. todo # << >>
  BY DEF ReadNumberOthers, At
<1>2. Top.first \in BitByte
  BY <1>1, TopIs
<1>3. rest \in Seq(BitByte) /\ end \in Ends
  BY NumberEndIs DEF TypeInv
<1>4. len - 1 \in Nat
  <2>1. len \in 1..9
    BY <1>2, FirstByte
  <2> HIDE DEF len
  <2>2. QED BY <2>1
<1>5. /\ Reads(end, len - 1, num.err)
      /\ IF ReadFailed THEN FailWith(ReadError(num.err)) ELSE AfterNumber(ty, Number(num.val))
      /\ loose' = (loose \/ (~ReadFailed /\ Vague(u, Top.first, Number(num.val))))
      /\ UNCHANGED <<setting, extra, input, early>>
  BY DEF ReadNumberOthers
<1> HIDE DEF num, len, u, end
<1>6. ReadOutcomes(end, len - 1, num.err)
  BY <1>3, <1>4, <1>5, ReadsIs
<1>7. Kept /\ early' = early
  BY <1>5 DEF Kept, setting
<1>8. CASE Lacks(len - 1)
  <2>1. ReadFailed /\ ReadError(num.err) = "PrematureEndOfInput"
    BY <1>8 DEF Lacks, ReadFailed, ReadError
  <2>2. FailWith("PrematureEndOfInput")
    BY <1>5, <2>1
  <2>3. QED
    BY <1>4, <1>7, <1>8, <2>2 DEF NumberOthersDoes, len
<1>9. CASE ~Lacks(len - 1)
  <2>1. PICK x \in Seq(BitByte), y \in Seq(BitByte) :
          /\ Cut(end, len - 1, x, y)
          /\ \/ num.err = "Ok" /\ reply'.err = "Ok" /\ reply'.bytes = x /\ rest' = y
             \/ num.err # "Ok" /\ reply'.err = "CallbackError" /\ rest' = rest
    BY <1>6, <1>9 DEF ReadOutcomes
  <2>2. seen = x
    BY <1>3, <2>1 DEF Cut, Ends
  <2>3. num = Decode(u, len, Top.first, x, debug)
    BY <2>2, Zenon DEF num
  <2>4. \/ num.err # "Ok" /\ rest' = rest /\ FailWith(num.err)
        \/ /\ num.err = "Ok" /\ rest' = y /\ AfterNumber(ty, Number(num.val))
           /\ ~loose' => ~Vague(u, Top.first, Number(num.val))
    <3>1. CASE num.err = "Ok"
      <4>1. ~ReadFailed /\ rest' = y
        BY <2>1, <3>1 DEF ReadFailed
      <4>2. QED
        BY <1>5, <3>1, <4>1
    <3>2. CASE num.err # "Ok"
      <4>1. ReadFailed /\ rest' = rest /\ ReadError(num.err) = num.err
        BY <2>1, <3>2 DEF ReadFailed, ReadError
      <4>2. QED
        BY <1>5, <3>2, <4>1
    <3>3. QED
      BY <3>1, <3>2
  <2>5. \E d \in {Decode(u, len, Top.first, x, debug)} :
          \/ d.err # "Ok" /\ rest' = rest /\ FailWith(d.err)
          \/ /\ d.err = "Ok" /\ rest' = y /\ AfterNumber(ty, Number(d.val))
             /\ ~loose' => ~Vague(u, Top.first, Number(d.val))
    BY <2>3, <2>4
  <2>6. QED
    BY <1>4, <1>7, <2>1, <2>5 DEF NumberOthersDoes, len, u, end
<1>10. QED
  BY <1>8, <1>9

\* What reading the bytes of a text or of a byte string does: those of no text are
\* looked at and stay in the buffer.
DataDoes ==
  /\ Kept /\ early' = early
  /\ \/ Lacks(Top.n) /\ FailWith("PrematureEndOfInput")
     \/ \E x, y \in Seq(BitByte) :
          /\ Cut("front", Top.n, x, y)
          /\ \/ /\ Top.ty.t = "str" /\ ~IsUtf8(x) /\ rest' = rest
                /\ FailWith("InvalidUtf8Encoding")
             \/ rest' = y /\ Continue(<< >>, <<Bytes(x)>>)

\* The bytes of a text are looked at before they are consumed.
LEMMA DataIs ==
  ASSUME TypeInv, ReadData
  PROVE  DataDoes
<1> DEFINE n == Top.n
           err == IF Top.ty.t = "bytes" \/ IsUtf8(R!FirstBytes(n)) THEN "Ok"
                  ELSE "InvalidUtf8Encoding"
<1>1. todo # << >> /\ Top.f = "data"
  BY DEF ReadData, At
<1>2. n \in Nat /\ Top.ty.t \in {"str", "bytes"}
  BY <1>1, TopIs DEF FrameIs
<1>3. rest \in Seq(BitByte) /\ "front" \in Ends
  BY DEF TypeInv, Ends
<1>4. /\ Reads("front", n, err)
      /\ IF ReadFailed THEN FailWith(ReadError(err)) ELSE Continue(<< >>, <<Bytes(reply'.bytes)>>)
  BY DEF ReadData
<1>5. Kept /\ early' = early
  BY DEF ReadData, Kept, setting
<1> HIDE DEF n, err
<1>6. ReadOutcomes("front", n, err)
  BY <1>2, <1>3, <1>4, ReadsIs
<1>7. CASE Lacks(n)
  <2>1. ReadFailed /\ ReadError(err) = "PrematureEndOfInput"
    BY <1>7 DEF Lacks, ReadFailed, ReadError
  <2>2. FailWith("PrematureEndOfInput")
    BY <1>4, <2>1
  <2>3. QED
    BY <1>5, <1>7, <2>2 DEF DataDoes, n
<1>8. CASE ~Lacks(n)
  <2>1. PICK x \in Seq(BitByte), y \in Seq(BitByte) :
          /\ Cut("front", n, x, y)
          /\ \/ err = "Ok" /\ reply'.err = "Ok" /\ reply'.bytes = x /\ rest' = y
             \/ err # "Ok" /\ reply'.err = "CallbackError" /\ rest' = rest
    BY <1>6, <1>8 DEF ReadOutcomes
  <2>2. R!FirstBytes(n) = x
    BY <2>1 DEF Cut
  <2>3. CASE err = "Ok"
    <3>1. ~ReadFailed /\ rest' = y /\ reply'.bytes = x
      BY <2>1, <2>3 DEF ReadFailed
    <3>2. Continue(<< >>, <<Bytes(x)>>)
      BY <1>4, <3>1
    <3>3. QED
      BY <1>5, <2>1, <3>1, <3>2 DEF DataDoes, n
  <2>4. CASE err # "Ok"
    <3>1. ReadFailed /\ rest' = rest /\ ReadError(err) = err
      BY <2>1, <2>4 DEF ReadFailed, ReadError
    <3>2. err = "InvalidUtf8Encoding" /\ ~IsUtf8(x) /\ Top.ty.t # "bytes"
      BY <2>2, <2>4 DEF err
    <3>3. FailWith("InvalidUtf8Encoding")
      BY <1>4, <3>1, <3>2
    <3>4. QED
      BY <1>2, <1>5, <2>1, <3>1, <3>2, <3>3 DEF DataDoes, n
  <2>5. QED
    BY <2>3, <2>4
<1>9. QED
  BY <1>7, <1>8

\* What a function does with the number it has read.
AfterNumberDoes(ty, n) ==
  \/ ty.t \in {"str", "bytes"} /\ Continue(<<Frame("data", ty, n, Zero)>>, << >>)
  \/ ty.t \in {"seq", "map"} /\ Continue(<<Frame("elems", ty, n, Zero)>>, <<SeqOrMap(n)>>)
  \/ ty.t = "enum" /\ n < Len(ty.of) /\ Continue(Wants(ty.of[n + 1].of), <<Variant(n)>>)
  \/ ty.t = "enum" /\ ~(n < Len(ty.of)) /\ FailWith("Serde")

\* What a number is read for.
LEMMA AfterNumberIs ==
  ASSUME NEW ty, ty.t \in Numbered, NEW n, AfterNumber(ty, n)
  PROVE  AfterNumberDoes(ty, n)
<1>1. CASE ty.t \in {"str", "bytes"}
  BY <1>1 DEF AfterNumber, AfterNumberDoes
<1>2. CASE ty.t \in {"seq", "map"}
  BY <1>2 DEF AfterNumber, AfterNumberDoes
<1>3. CASE ty.t = "enum"
  BY <1>3 DEF AfterNumber, AfterNumberDoes
<1>4. QED
  BY <1>1, <1>2, <1>3 DEF Numbered

\* The functions that hold something.
LEMMA FrameTypes ==
  ASSUME NEW ty \in Types, NEW n \in 0..Huge, NEW first \in BitByte
  PROVE  /\ ty.t \in {"seq", "map"} => Frame("elems", ty, n, first) \in Resting
         /\ ty.t \in {"str", "bytes"} => Frame("data", ty, n, first) \in Frames
         /\ ty.t \in Numbered /\ LenAccepted(NumberType(ty), DecodedLen(first))
              => Frame("others", ty, n, first) \in Frames
<1>1. ASSUME NEW f \in {"want", "elems", "data", "others"}
      PROVE  /\ Frame(f, ty, n, first) \in [f : {"want", "elems", "data", "others"}, ty : Types,
                                            n : 0..Huge, first : BitByte]
             /\ Frame(f, ty, n, first).f = f /\ Frame(f, ty, n, first).ty = ty
             /\ Frame(f, ty, n, first).n = n /\ Frame(f, ty, n, first).first = first
  BY DEF Frame
<1>2. ASSUME ty.t \in {"seq", "map"} PROVE Frame("elems", ty, n, first) \in Resting
  <2>1. "elems" \in {"want", "elems", "data", "others"}
    OBVIOUS
  <2>2. FrameIs(Frame("elems", ty, n, first))
    BY <1>1, <1>2, <2>1 DEF FrameIs
  <2>3. QED
    BY <1>1, <2>1, <2>2 DEF Resting, Frames
<1>3. ASSUME ty.t \in {"str", "bytes"} PROVE Frame("data", ty, n, first) \in Frames
  <2>1. "data" \in {"want", "elems", "data", "others"}
    OBVIOUS
  <2>2. FrameIs(Frame("data", ty, n, first))
    BY <1>1, <1>3, <2>1 DEF FrameIs
  <2>3. QED
    BY <1>1, <2>1, <2>2 DEF Frames
<1>4. ASSUME ty.t \in Numbered, LenAccepted(NumberType(ty), DecodedLen(first))
      PROVE  Frame("others", ty, n, first) \in Frames
  <2>1. "others" \in {"want", "elems", "data", "others"}
    OBVIOUS
  <2>2. FrameIs(Frame("others", ty, n, first))
    BY <1>1, <1>4, <2>1 DEF FrameIs
  <2>3. QED
    BY <1>1, <2>1, <2>2 DEF Frames
<1>5. QED
  BY <1>2, <1>3, <1>4

\* What a sequence does for its next element.
ElementDoes ==
  /\ Kept /\ early' = early /\ rest' = rest
  /\ Top.ty.t \in {"seq", "map"} /\ Top.ty.of \in Seq(Types)
  /\ \/ /\ Top.n > 0
        /\ Continue(Append(Wants(Top.ty.of), Frame("elems", Top.ty, Top.n - 1, Top.first)), << >>)
     \/ Top.n = 0 /\ Continue(<< >>, << >>)

\* Elements count down.
LEMMA ElementIs ==
  ASSUME TypeInv, NextElement
  PROVE  ElementDoes
<1>1. todo # << >> /\ Top.f = "elems"
  BY DEF NextElement, At
<1>2. /\ Top.ty.t \in {"seq", "map"} /\ Top.ty \in Types /\ Top.n \in Nat
      /\ Top = Frame("elems", Top.ty, Top.n, Top.first)
  BY <1>1, TopIs DEF FrameIs
<1>3. Top.ty.of \in Seq(Types)
  BY <1>2, TypeParts
<1>4. [Top EXCEPT !.n = @ - 1] = Frame("elems", Top.ty, Top.n - 1, Top.first)
  <2>1. ASSUME NEW t, NEW n, NEW f
        PROVE  [Frame("elems", t, n, f) EXCEPT !.n = @ - 1] = Frame("elems", t, n - 1, f)
    BY DEF Frame
  <2>2. QED
    BY <1>2, <2>1
<1>5. Kept /\ early' = early /\ rest' = rest
  BY DEF NextElement, Kept, setting, reader
<1>6. CASE Top.n > 0
  BY <1>2, <1>3, <1>4, <1>5, <1>6 DEF NextElement, ElementDoes
<1>7. CASE ~(Top.n > 0)
  BY <1>2, <1>3, <1>5, <1>7 DEF NextElement, ElementDoes
<1>8. QED
  BY <1>6, <1>7

\* What is cut off is not there any more.
LEMMA CutLeaves ==
  ASSUME rest \in Seq(BitByte), NEW end \in Ends, NEW n, NEW x, NEW y, Cut(end, n, x, y)
  PROVE  x \in Seq(BitByte) /\ y \in Seq(BitByte) /\ Len(y) <= Len(rest)
<1>1. x \in Seq(BitByte) /\ y \in Seq(BitByte) /\ (rest = x \o y \/ rest = y \o x)
  BY DEF Cut, Ends
<1>2. Len(rest) = Len(x) + Len(y)
  BY <1>1
<1>3. Len(x) \in Nat /\ Len(y) \in Nat
  BY <1>1, LenProperties
<1>4. QED
  BY <1>1, <1>2, <1>3

\* Every step of reading fails, or calls functions of which one is at work, and
\* tells something.
Moved ==
  /\ pc = "reading" /\ Kept
  /\ rest' \in Seq(BitByte) /\ Len(rest') <= Len(rest)
  /\ \/ \E err \in Errors : FailWith(err)
     \/ \E frames \in Seq(Frames), told \in Seq(Told) :
          /\ todo # << >>
          /\ frames # << >> => Tail(frames) \in Seq(Resting)
          /\ Continue(frames, told)

\* Functions that rest are functions.
LEMMA RestingIs ==
  /\ Resting \subseteq Frames
  /\ \A fs \in Seq(Resting) : fs \in Seq(Frames) /\ (fs # << >> => Tail(fs) \in Seq(Resting))
<1>1. Resting \subseteq Frames
  BY DEF Resting
<1>2. QED
  BY <1>1

\* The functions called, and those that called them.
LEMMA Stack ==
  ASSUME NEW fs \in Seq(Frames), fs # << >> => Tail(fs) \in Seq(Resting), NEW rs \in Seq(Resting)
  PROVE  /\ fs \o rs \in Seq(Frames)
         /\ fs \o rs # << >> => Tail(fs \o rs) \in Seq(Resting)
<1>1. rs \in Seq(Frames)
  BY RestingIs
<1>2. fs \o rs \in Seq(Frames)
  BY <1>1
<1>3. CASE fs = << >>
  <2>1. fs \o rs = rs
    BY <1>3, ConcatEmptySeq
  <2>2. QED
    BY <1>2, <2>1, RestingIs
<1>4. CASE fs # << >>
  <2>1. Tail(fs) \in Seq(Resting) /\ Head(fs) \in Frames /\ fs = <<Head(fs)>> \o Tail(fs)
    BY <1>4, HeadAndTail
  <2>2. Tail(fs) \in Seq(Frames) /\ <<Head(fs)>> \in Seq(Frames)
    BY <2>1, RestingIs
  <2>3. Associates(<<Head(fs)>>, Tail(fs), rs)
    BY <1>1, <2>2, Association
  <2>4. fs \o rs = <<Head(fs)>> \o (Tail(fs) \o rs)
    BY <2>1, <2>3, Zenon DEF Associates
  <2>5. Tail(fs) \o rs \in Seq(Resting) /\ Tail(fs) \o rs \in Seq(Frames)
    BY <1>1, <2>1, <2>2
  <2>6. ASSUME NEW h \in Frames, NEW t \in Seq(Frames) PROVE Tail(<<h>> \o t) = t
    <3>1. Len(<<h>> \o t) = 1 + Len(t) /\ \A i \in 1..Len(t) : (<<h>> \o t)[i + 1] = t[i]
      BY LenProperties
    <3> DEFINE s == <<h>> \o t
    <3>2. s \in Seq(Frames) /\ Len(t) \in Nat
      BY LenProperties
    <3> HIDE DEF s
    <3>3. s # << >>
      BY <3>1, <3>2 DEF s
    <3>4. /\ Tail(s) \in Seq(Frames) /\ Len(Tail(s)) = Len(t)
          /\ \A i \in 1..Len(Tail(s)) : Tail(s)[i] = t[i]
      BY <3>1, <3>2, <3>3 DEF s
    <3>5. Tail(s) = t
      BY <3>4, SeqEqual
    <3>6. QED
      BY <3>5 DEF s
  <2>7. Tail(fs \o rs) = Tail(fs) \o rs
    BY <2>1, <2>4, <2>5, <2>6
  <2>8. QED
    BY <1>2, <2>5, <2>7
<1>5. QED
  BY <1>3, <1>4

\* Such a step keeps the types.
LEMMA MovedType ==
  ASSUME TypeInv, Moved
  PROVE  TypeInv'
<1>1. /\ pc = "reading" /\ lenEnd' = lenEnd /\ order' = order /\ debug' = debug
      /\ sample' = sample /\ extra' = extra /\ input' = input
  BY DEF Moved, Kept
<1>2. /\ lenEnd' \in Ends /\ order' \in Orders /\ debug' \in BOOLEAN /\ sample' \in Sample
      /\ extra' \in Seq(BitByte) /\ input' \in Seq(BitByte)
  BY <1>1 DEF TypeInv
<1>3. rest' \in Seq(BitByte) /\ Len(rest') <= Len(input')
  <2>1. rest' \in Seq(BitByte) /\ Len(rest') <= Len(rest) /\ Len(rest) <= Len(input)
    BY DEF Moved, TypeInv
  <2>2. Len(rest') \in Nat /\ Len(rest) \in Nat /\ Len(input) \in Nat
    BY <2>1, LenProperties DEF TypeInv
  <2>3. QED
    BY <1>1, <2>1, <2>2
<1>4. CASE \E err \in Errors : FailWith(err)
  <2>1. PICK err \in Errors : FailWith(err)
    BY <1>4
  <2>2. outcome' = err /\ pc' = "done" /\ todo' = todo /\ got' = got
    BY <2>1 DEF FailWith
  <2>3. todo' \in Seq(Frames) /\ (todo' # << >> => Tail(todo') \in Seq(Resting)) /\ got' \in Seq(Told)
    BY <2>2 DEF TypeInv
  <2>4. QED
    BY <1>2, <1>3, <2>2, <2>3 DEF TypeInv
<1>5. CASE \E frames \in Seq(Frames), told \in Seq(Told) :
             /\ todo # << >>
             /\ frames # << >> => Tail(frames) \in Seq(Resting)
             /\ Continue(frames, told)
  <2>1. PICK frames \in Seq(Frames), told \in Seq(Told) :
          /\ todo # << >>
          /\ frames # << >> => Tail(frames) \in Seq(Resting)
          /\ Continue(frames, told)
    BY <1>5
  <2>2. todo' = frames \o Tail(todo) /\ got' = got \o told /\ pc' = pc /\ outcome' = outcome
    BY <2>1 DEF Continue
  <2>3. Tail(todo) \in Seq(Resting) /\ got \in Seq(Told) /\ outcome = "none"
    BY <1>1, <2>1 DEF TypeInv
  <2>4. todo' \in Seq(Frames) /\ (todo' # << >> => Tail(todo') \in Seq(Resting))
    BY <2>1, <2>2, <2>3, Stack
  <2>5. got' \in Seq(Told)
    BY <2>2, <2>3
  <2>6. QED
    BY <1>1, <1>2, <1>3, <2>2, <2>3, <2>4, <2>5 DEF TypeInv
<1>6. QED
  BY <1>4, <1>5 DEF Moved

\* The calls told are of those a value is made of.
LEMMA ToldTypes ==
  /\ \A b \in Seq(BitByte) : Prim(b) \in Told /\ Bytes(b) \in Told
  /\ \A n \in Nat : Variant(n) \in Told /\ SeqOrMap(n) \in Told
  /\ None \in Told /\ Some \in Told /\ Compound \in Told
  /\ << >> \in Seq(Told) /\ \A c \in Told : <<c>> \in Seq(Told)
BY DEF Told

\* One function or none.
LEMMA OneFrame ==
  /\ << >> \in Seq(Frames) /\ \A f : f = << >> => (f # << >> => Tail(f) \in Seq(Resting))
  /\ \A fr \in Frames : /\ <<fr>> \in Seq(Frames)
                        /\ <<fr>> # << >> => Tail(<<fr>>) \in Seq(Resting)
<1>1. \A fr \in Frames : Tail(<<fr>>) = << >> /\ << >> \in Seq(Resting)
  OBVIOUS
<1>2. \A fr \in Frames : <<fr>> \in Seq(Frames)
  OBVIOUS
<1>3. QED
  BY <1>1, <1>2

\* A step that continues is one of those of Moved.
LEMMA ContinueMoves ==
  ASSUME pc = "reading", Kept, rest' \in Seq(BitByte), Len(rest') <= Len(rest), todo # << >>,
         NEW frames \in Seq(Frames), frames # << >> => Tail(frames) \in Seq(Resting),
         NEW told \in Seq(Told), Continue(frames, told)
  PROVE  Moved
BY DEF Moved

\* So is one that fails.
LEMMA FailMoves ==
  ASSUME pc = "reading", Kept, rest' \in Seq(BitByte), Len(rest') <= Len(rest),
         NEW err \in Errors, FailWith(err)
  PROVE  Moved
BY DEF Moved

\* Reading a primitive is a move.
LEMMA PrimitiveMoves ==
  ASSUME TypeInv, ReadPrimitive
  PROVE  Moved
<1>1. PrimitiveDoes
  BY PrimitiveIs
<1>2. Kept /\ pc = "reading" /\ todo # << >>
  BY <1>1 DEF PrimitiveDoes, ReadPrimitive, AtType, At
<1>3. rest \in Seq(BitByte) /\ Len(rest) \in Nat /\ "front" \in Ends
  BY LenProperties DEF TypeInv, Ends
<1>4. CASE Lacks(Top.ty.size) /\ FailWith("PrematureEndOfInput")
  <2>1. rest' = rest
    BY <1>4 DEF Lacks
  <2>2. "PrematureEndOfInput" \in Errors
    BY DEF Errors
  <2>3. QED
    BY <1>2, <1>3, <1>4, <2>1, <2>2, FailMoves
<1>5. CASE ~(Lacks(Top.ty.size) /\ FailWith("PrematureEndOfInput"))
  <2>1. PICK x \in Seq(BitByte), y \in Seq(BitByte) :
          /\ Cut("front", Top.ty.size, x, y) /\ rest' = y
          /\ \/ FailWith("InvalidUtf8Encoding")
             \/ \E b \in Seq(BitByte) : Continue(<< >>, <<Prim(b)>>)
    BY <1>1, <1>5 DEF PrimitiveDoes
  <2>2. rest' \in Seq(BitByte) /\ Len(rest') <= Len(rest)
    BY <1>3, <2>1, CutLeaves
  <2>3. CASE FailWith("InvalidUtf8Encoding")
    <3>1. "InvalidUtf8Encoding" \in Errors
      BY DEF Errors
    <3>2. QED
      BY <1>2, <2>2, <2>3, <3>1, FailMoves
  <2>4. CASE \E b \in Seq(BitByte) : Continue(<< >>, <<Prim(b)>>)
    <3>1. PICK b \in Seq(BitByte) : Continue(<< >>, <<Prim(b)>>)
      BY <2>4
    <3>2. <<Prim(b)>> \in Seq(Told)
      BY ToldTypes
    <3>3. QED
      BY <1>2, <2>2, <3>1, <3>2, OneFrame, ContinueMoves
  <2>5. QED
    BY <2>1, <2>3, <2>4
<1>6. QED
  BY <1>4, <1>5

\* Reading an option is a move.
LEMMA OptionMoves ==
  ASSUME TypeInv, ReadOption
  PROVE  Moved
<1>1. OptionDoes
  BY OptionIs
<1>2. Kept /\ pc = "reading" /\ todo # << >> /\ Top.ty.t = "option"
  BY <1>1 DEF OptionDoes, ReadOption, AtType, At
<1>3. rest \in Seq(BitByte) /\ Len(rest) \in Nat /\ "front" \in Ends
  BY LenProperties DEF TypeInv, Ends
<1>4. CASE Lacks(1) /\ FailWith("PrematureEndOfInput")
  <2>1. rest' = rest
    BY <1>4 DEF Lacks
  <2>2. "PrematureEndOfInput" \in Errors
    BY DEF Errors
  <2>3. QED
    BY <1>2, <1>3, <1>4, <2>1, <2>2, FailMoves
<1>5. CASE ~(Lacks(1) /\ FailWith("PrematureEndOfInput"))
  <2>1. PICK x \in Seq(BitByte), y \in Seq(BitByte) :
          /\ Cut("front", 1, x, y) /\ rest' = y
          /\ \/ Continue(<< >>, <<None>>)
             \/ Continue(Wants(Top.ty.of), <<Some>>)
             \/ FailWith("InvalidTagEncoding")
    BY <1>1, <1>5 DEF OptionDoes
  <2>2. rest' \in Seq(BitByte) /\ Len(rest') <= Len(rest)
    BY <1>3, <2>1, CutLeaves
  <2>3. CASE FailWith("InvalidTagEncoding")
    <3>1. "InvalidTagEncoding" \in Errors
      BY DEF Errors
    <3>2. QED
      BY <1>2, <2>2, <2>3, <3>1, FailMoves
  <2>4. CASE Continue(<< >>, <<None>>)
    <3>1. <<None>> \in Seq(Told)
      BY ToldTypes
    <3>2. QED
      BY <1>2, <2>2, <2>4, <3>1, OneFrame, ContinueMoves
  <2>5. CASE Continue(Wants(Top.ty.of), <<Some>>)
    <3>1. <<Some>> \in Seq(Told)
      BY ToldTypes
    <3>2. Top.ty.of \in Seq(Types)
      BY <1>2, TopIs, TypeParts
    <3>3. Wants(Top.ty.of) \in Seq(Resting)
      BY <3>2, WantsType
    <3>4. QED
      BY <1>2, <2>2, <2>5, <3>1, <3>3, RestingIs, ContinueMoves
  <2>6. QED
    BY <2>1, <2>3, <2>4, <2>5
<1>6. QED
  BY <1>4, <1>5

\* Reading the first byte of a number is a move: if the byte is that of a number of
\* the type, the function holds it.
LEMMA NumberFirstMoves ==
  ASSUME TypeInv, ReadNumberFirst
  PROVE  Moved
<1>1. NumberFirstDoes
  BY NumberFirstIs
<1>2. Kept /\ pc = "reading" /\ todo # << >> /\ Top.ty.t \in Numbered
  BY <1>1 DEF NumberFirstDoes, ReadNumberFirst, AtType, At, Numbered
<1>3. rest \in Seq(BitByte) /\ Len(rest) \in Nat /\ NumberEnd(Top.ty) \in Ends
  BY LenProperties, NumberEndIs DEF TypeInv
<1>4. CASE Lacks(1) /\ FailWith("PrematureEndOfInput")
  <2>1. rest' = rest
    BY <1>4 DEF Lacks
  <2>2. "PrematureEndOfInput" \in Errors
    BY DEF Errors
  <2>3. QED
    BY <1>2, <1>3, <1>4, <2>1, <2>2, FailMoves
<1>5. CASE ~(Lacks(1) /\ FailWith("PrematureEndOfInput"))
  <2>1. PICK x \in Seq(BitByte), y \in Seq(BitByte) :
          /\ Cut(NumberEnd(Top.ty), 1, x, y) /\ rest' = y
          /\ \/ FailWith("InvalidVarintEncoding")
             \/ /\ LenAccepted(NumberType(Top.ty), DecodedLen(x[1]))
                /\ Continue(<<Frame("others", Top.ty, 0, x[1])>>, << >>)
    BY <1>1, <1>5 DEF NumberFirstDoes
  <2>2. rest' \in Seq(BitByte) /\ Len(rest') <= Len(rest)
    BY <1>3, <2>1, CutLeaves
  <2>3. CASE FailWith("InvalidVarintEncoding")
    <3>1. "InvalidVarintEncoding" \in Errors
      BY DEF Errors
    <3>2. QED
      BY <1>2, <2>2, <2>3, <3>1, FailMoves
  <2>4. CASE /\ LenAccepted(NumberType(Top.ty), DecodedLen(x[1]))
             /\ Continue(<<Frame("others", Top.ty, 0, x[1])>>, << >>)
    <3>1. x[1] \in BitByte
      <4>1. Len(x) = 1
        BY <2>1 DEF Cut
      <4>2. 1 \in 1..Len(x)
        BY <4>1
      <4>3. QED
        BY <4>2, ElementOfSeq
    <3>2. 0 \in 0..Huge /\ Top.ty \in Types
      BY <1>2, TopIs, HugeType
    <3>3. Frame("others", Top.ty, 0, x[1]) \in Frames
      BY <1>2, <2>4, <3>1, <3>2, FrameTypes
    <3>4. QED
      BY <1>2, <2>2, <2>4, <3>3, OneFrame, ToldTypes, ContinueMoves
  <2>5. QED
    BY <2>1, <2>3, <2>4
<1>6. QED
  BY <1>4, <1>5

\* Reading the other bytes of a number is a move: the count it becomes is at most
\* Huge.
LEMMA NumberOthersMoves ==
  ASSUME TypeInv, ReadNumberOthers
  PROVE  Moved
<1> DEFINE ty == Top.ty
           u == NumberType(ty)
           len == DecodedLen(Top.first)
<1>1. NumberOthersDoes /\ len - 1 \in Nat
  BY NumberOthersIs
<1>2. Kept /\ pc = "reading" /\ todo # << >> /\ Top.f = "others"
  BY <1>1 DEF NumberOthersDoes, ReadNumberOthers, At
<1>3. ty \in Types /\ Top.first \in BitByte /\ ty.t \in Numbered /\ LenAccepted(u, len)
  BY <1>2, TopIs DEF FrameIs
<1>4. /\ rest \in Seq(BitByte) /\ Len(rest) \in Nat /\ NumberEnd(ty) \in Ends /\ debug \in BOOLEAN
      /\ u \in Type
  BY LenProperties, NumberEndIs, NumberTypes DEF TypeInv
<1>5. CASE Lacks(len - 1) /\ FailWith("PrematureEndOfInput")
  <2>1. rest' = rest
    BY <1>5 DEF Lacks
  <2>2. "PrematureEndOfInput" \in Errors
    BY DEF Errors
  <2>3. QED
    BY <1>2, <1>4, <1>5, <2>1, <2>2, FailMoves
<1>6. CASE ~(Lacks(len - 1) /\ FailWith("PrematureEndOfInput"))
  <2>0. PICK x \in Seq(BitByte), y \in Seq(BitByte) :
          /\ Cut(NumberEnd(ty), len - 1, x, y)
          /\ \E num \in {Decode(u, len, Top.first, x, debug)} :
               \/ num.err # "Ok" /\ rest' = rest /\ FailWith(num.err)
               \/ num.err = "Ok" /\ rest' = y /\ AfterNumber(ty, Number(num.val))
    BY <1>1, <1>6 DEF NumberOthersDoes
  <2>1. PICK num \in {Decode(u, len, Top.first, x, debug)} :
          /\ Cut(NumberEnd(ty), len - 1, x, y)
          /\ \/ num.err # "Ok" /\ rest' = rest /\ FailWith(num.err)
             \/ num.err = "Ok" /\ rest' = y /\ AfterNumber(ty, Number(num.val))
    BY <2>0
  <2>2. Len(x) = len - 1 /\ Len(y) <= Len(rest)
    BY <1>4, <2>1, CutLeaves DEF Cut
  <2> HIDE DEF len, u, ty
  <2>3. num = Decode(u, len, Top.first, x, debug)
    OBVIOUS
  <2>4. /\ num.err \in {"Ok", "InvalidVarintEncoding"}
        /\ num.err = "Ok" => num.val \in Word(u)
    <3>1. LenAccepted(u, DecodedLen(Top.first)) /\ Len(x) = DecodedLen(Top.first) - 1
      BY <1>3, <2>2 DEF len
    <3>2. QED
      BY <1>3, <1>4, <2>3, <3>1, DecodeType DEF len
  <2>5. CASE num.err # "Ok"
    <3>1. rest' = rest /\ FailWith(num.err) /\ num.err \in Errors
      BY <2>1, <2>4, <2>5 DEF Errors
    <3>2. QED
      BY <1>2, <1>4, <3>1, FailMoves
  <2>6. CASE num.err = "Ok"
    <3> DEFINE n == Number(num.val)
    <3>1. rest' = y /\ AfterNumber(ty, n) /\ n \in 0..Huge
      BY <1>4, <2>1, <2>4, <2>6, NumberBounds
    <3> HIDE DEF n
    <3>2. rest' \in Seq(BitByte) /\ Len(rest') <= Len(rest) /\ n \in Nat
      BY <2>2, <3>1, HugeType
    <3>3. AfterNumberDoes(ty, n)
      BY <1>3, <3>1, AfterNumberIs
    <3>4. CASE ty.t \in {"str", "bytes"} /\ Continue(<<Frame("data", ty, n, Zero)>>, << >>)
      <4>1. Zero \in BitByte
        BY ByteBits
      <4>2. Frame("data", ty, n, Zero) \in Frames
        BY <1>3, <3>1, <3>4, <4>1, FrameTypes
      <4>3. QED
        BY <1>2, <3>2, <3>4, <4>2, OneFrame, ToldTypes, ContinueMoves
    <3>5. CASE ty.t \in {"seq", "map"} /\ Continue(<<Frame("elems", ty, n, Zero)>>, <<SeqOrMap(n)>>)
      <4>1. Zero \in BitByte
        BY ByteBits
      <4>2. Frame("elems", ty, n, Zero) \in Frames /\ <<SeqOrMap(n)>> \in Seq(Told)
        BY <1>3, <3>1, <3>2, <3>5, <4>1, FrameTypes, RestingIs, ToldTypes
      <4>3. QED
        BY <1>2, <3>2, <3>5, <4>2, OneFrame, ContinueMoves
    <3>6. CASE ty.t = "enum" /\ n < Len(ty.of) /\ Continue(Wants(ty.of[n + 1].of), <<Variant(n)>>)
      <4>1. Len(ty.of) \in Nat
        BY <1>3, <3>6, TypeParts, LenProperties
      <4>2. n + 1 \in 1..Len(ty.of)
        BY <3>2, <3>6, <4>1
      <4>3. ty.of[n + 1].of \in Seq(Types)
        BY <1>3, <3>6, <4>2, TypeParts
      <4>4. Wants(ty.of[n + 1].of) \in Seq(Resting) /\ <<Variant(n)>> \in Seq(Told)
        BY <3>2, <4>3, WantsType, ToldTypes
      <4>5. QED
        BY <1>2, <3>2, <3>6, <4>4, RestingIs, ContinueMoves
    <3>7. CASE FailWith("Serde")
      <4>1. "Serde" \in Errors
        BY DEF Errors
      <4>2. QED
        BY <1>2, <3>2, <3>7, <4>1, FailMoves
    <3>8. QED
      BY <3>3, <3>4, <3>5, <3>6, <3>7 DEF AfterNumberDoes
  <2>7. QED
    BY <2>5, <2>6
<1>7. QED
  BY <1>5, <1>6

\* Reading the bytes of a text or of a byte string is a move.
LEMMA DataMoves ==
  ASSUME TypeInv, ReadData
  PROVE  Moved
<1>1. DataDoes
  BY DataIs
<1>2. Kept /\ pc = "reading" /\ todo # << >>
  BY <1>1 DEF DataDoes, ReadData, At
<1>3. rest \in Seq(BitByte) /\ Len(rest) \in Nat /\ "front" \in Ends
  BY LenProperties DEF TypeInv, Ends
<1>4. "PrematureEndOfInput" \in Errors /\ "InvalidUtf8Encoding" \in Errors
  BY DEF Errors
<1>5. CASE Lacks(Top.n) /\ FailWith("PrematureEndOfInput")
  <2>1. rest' = rest
    BY <1>5 DEF Lacks
  <2>2. QED
    BY <1>2, <1>3, <1>4, <1>5, <2>1, FailMoves
<1>6. CASE ~(Lacks(Top.n) /\ FailWith("PrematureEndOfInput"))
  <2>1. PICK x \in Seq(BitByte), y \in Seq(BitByte) :
          /\ Cut("front", Top.n, x, y)
          /\ \/ rest' = rest /\ FailWith("InvalidUtf8Encoding")
             \/ rest' = y /\ Continue(<< >>, <<Bytes(x)>>)
    BY <1>1, <1>6 DEF DataDoes
  <2>2. CASE rest' = rest /\ FailWith("InvalidUtf8Encoding")
    BY <1>2, <1>3, <1>4, <2>2, FailMoves
  <2>3. CASE rest' = y /\ Continue(<< >>, <<Bytes(x)>>)
    <3>1. rest' \in Seq(BitByte) /\ Len(rest') <= Len(rest)
      BY <1>3, <2>1, <2>3, CutLeaves
    <3>2. <<Bytes(x)>> \in Seq(Told)
      BY ToldTypes
    <3>3. QED
      BY <1>2, <2>3, <3>1, <3>2, OneFrame, ContinueMoves
  <2>4. QED
    BY <2>1, <2>2, <2>3
<1>7. QED
  BY <1>5, <1>6

\* Beginning a tuple or a struct is a move.
LEMMA TupleMoves ==
  ASSUME TypeInv, EnterTuple
  PROVE  Moved
<1>1. /\ Kept /\ pc = "reading" /\ todo # << >> /\ Top.ty.t = "tuple" /\ rest' = rest
      /\ Continue(Wants(Top.ty.of), <<Compound>>)
  BY DEF EnterTuple, AtType, At, Kept, setting, reader
<1>2. rest' \in Seq(BitByte) /\ Len(rest') <= Len(rest)
  <2>1. rest \in Seq(BitByte) /\ Len(rest) \in Nat
    BY LenProperties DEF TypeInv
  <2>2. QED
    BY <1>1, <2>1
<1>3. Wants(Top.ty.of) \in Seq(Resting)
  BY <1>1, TopIs, TypeParts, WantsType
<1>4. QED
  BY <1>1, <1>2, <1>3, RestingIs, ToldTypes, ContinueMoves

\* A next element is a move: the count never passes below zero.
LEMMA ElementMoves ==
  ASSUME TypeInv, NextElement
  PROVE  Moved
<1>1. ElementDoes
  BY ElementIs
<1>2. /\ Kept /\ pc = "reading" /\ todo # << >> /\ Top.f = "elems" /\ rest' = rest
      /\ Top.ty.t \in {"seq", "map"} /\ Top.ty.of \in Seq(Types)
  BY <1>1 DEF ElementDoes, NextElement, At
<1>3. rest' \in Seq(BitByte) /\ Len(rest') <= Len(rest)
  <2>1. rest \in Seq(BitByte) /\ Len(rest) \in Nat
    BY LenProperties DEF TypeInv
  <2>2. QED
    BY <1>2, <2>1
<1>4. CASE Top.n = 0 /\ Continue(<< >>, << >>)
  BY <1>2, <1>3, <1>4, OneFrame, ToldTypes, ContinueMoves
<1>5. CASE Top.n > 0 /\ Continue(Append(Wants(Top.ty.of), Frame("elems", Top.ty, Top.n - 1, Top.first)), << >>)
  <2>1. Top.ty \in Types /\ Top.first \in BitByte /\ Top.n \in Nat /\ Top.n <= Huge
    BY <1>2, TopIs
  <2>2. Top.n - 1 \in 0..Huge
    BY <1>5, <2>1, HugeType, SMT
  <2>3. Frame("elems", Top.ty, Top.n - 1, Top.first) \in Resting
    BY <1>2, <2>1, <2>2, FrameTypes
  <2>4. Wants(Top.ty.of) \in Seq(Resting)
    BY <1>2, WantsType
  <2>5. Append(Wants(Top.ty.of), Frame("elems", Top.ty, Top.n - 1, Top.first)) \in Seq(Resting)
    BY <2>3, <2>4, AppendProperties
  <2>6. QED
    BY <1>2, <1>3, <1>5, <2>5, RestingIs, ToldTypes, ContinueMoves
<1>6. QED
  BY <1>1, <1>4, <1>5 DEF ElementDoes

\* A visitor that stops early is a move.
LEMMA StopMoves ==
  ASSUME TypeInv, StopEarly
  PROVE  Moved
<1>1. /\ Kept /\ pc = "reading" /\ todo # << >> /\ rest' = rest /\ Continue(<< >>, << >>)
  BY DEF StopEarly, At, Kept, setting, reader
<1>2. rest' \in Seq(BitByte) /\ Len(rest') <= Len(rest)
  <2>1. rest \in Seq(BitByte) /\ Len(rest) \in Nat
    BY LenProperties DEF TypeInv
  <2>2. QED
    BY <1>1, <2>1
<1>3. QED
  BY <1>1, <1>2, OneFrame, ToldTypes, ContinueMoves

\* Refusing a type that does not describe itself is a move.
LEMMA RefuseMoves ==
  ASSUME TypeInv, Refuse
  PROVE  Moved
<1>1. /\ Kept /\ pc = "reading" /\ rest' = rest /\ Top.ty.t \in {"any", "identifier", "ignored"}
  BY DEF Refuse, AtType, At, Kept, setting, reader
<1>2. rest' \in Seq(BitByte) /\ Len(rest') <= Len(rest)
  <2>1. rest \in Seq(BitByte) /\ Len(rest) \in Nat
    BY LenProperties DEF TypeInv
  <2>2. QED
    BY <1>1, <2>1
<1>3. \E err \in Errors : FailWith(err)
  <2>1. /\ "DeserializeAnyNotSupported" \in Errors /\ "DeserializeIdentifierNotSupported" \in Errors
        /\ "DeserializeIgnoredAny" \in Errors
    BY DEF Errors
  <2>2. CASE Top.ty.t = "any"
    BY <2>1, <2>2 DEF Refuse
  <2>3. CASE Top.ty.t = "identifier"
    BY <2>1, <2>3 DEF Refuse
  <2>4. CASE Top.ty.t = "ignored"
    BY <2>1, <2>4 DEF Refuse
  <2>5. QED
    BY <1>1, <2>2, <2>3, <2>4
<1>4. QED
  BY <1>1, <1>2, <1>3, FailMoves

\* The type invariant holds before a record is there.
LEMMA InitType ==
  ASSUME Init
  PROVE  TypeInv
<1>1. << >> \in Seq(BitByte) /\ << >> \in Seq(Frames) /\ << >> \in Seq(Told) /\ Len(<< >>) <= Len(<< >>)
  OBVIOUS
<1>2. QED
  BY <1>1 DEF Init, TypeInv, Ends, Orders

\* What the caller has are bytes.
LEMMA DeliverType ==
  ASSUME TypeInv, Deliver
  PROVE  TypeInv'
<1>1. /\ lenEnd \in Ends /\ order \in Orders /\ sample \in Sample /\ sample.calls \in Seq(Told)
      /\ rest = << >> /\ todo = << >> /\ got = << >> /\ outcome = "none" /\ ~early
      /\ pc = "sent" /\ debug \in BOOLEAN /\ extra \in Seq(BitByte)
  BY SampleType DEF TypeInv, Deliver
<1>2. /\ FrontOf(lenEnd, sample.calls) \in Seq(BitByte) /\ BackOf(lenEnd, sample.calls) \in Seq(BitByte)
  BY <1>1, RecordType
<1>3. Record \in Seq(BitByte) /\ Len(Record) \in Nat /\ DOMAIN Record = 1..Len(Record)
  <2>1. Record \in Seq(BitByte)
    BY <1>2 DEF Record, RecordOf
  <2>2. QED
    BY <2>1, LenProperties
<1>4. \A s \in Seq(BitByte) : InOrder(s) \in Seq(BitByte)
  BY <1>1, InOrderTwice
<1>5. extra' \in Seq(BitByte) /\ input' \in Seq(BitByte)
  <2>1. CASE /\ extra' \in Extra
             /\ input' = InOrder(FrontOf(lenEnd, sample.calls) \o extra' \o BackOf(lenEnd, sample.calls))
    <3>1. extra' \in Seq(BitByte)
      BY <2>1, DeserializerAssumption
    <3>2. (FrontOf(lenEnd, sample.calls) \o extra') \o BackOf(lenEnd, sample.calls) \in Seq(BitByte)
      BY <1>2, <3>1
    <3>3. QED
      BY <1>4, <2>1, <3>1, <3>2
  <2>2. CASE /\ \E n \in 0..Len(Record) - 1 : input' = InOrder(SubSeq(Record, 1, n))
             /\ UNCHANGED extra
    <3>1. PICK n \in 0..Len(Record) - 1 : input' = InOrder(SubSeq(Record, 1, n))
      BY <2>2
    <3>2. n \in 0..Len(Record)
      BY <1>3
    <3>3. SubSeq(Record, 1, n) \in Seq(BitByte)
      BY <1>3, <3>2, CutElements
    <3>4. QED
      BY <1>1, <1>4, <2>2, <3>1, <3>3
  <2>3. CASE /\ \E i \in 1..Len(Record), b \in Damage : input' = InOrder([Record EXCEPT ![i] = b])
             /\ UNCHANGED extra
    <3>1. PICK i \in 1..Len(Record), b \in Damage : input' = InOrder([Record EXCEPT ![i] = b])
      BY <2>3
    <3>2. b \in BitByte
      BY DeserializerAssumption
    <3>3. ASSUME NEW s \in Seq(BitByte), i \in 1..Len(s) PROVE [s EXCEPT ![i] = b] \in Seq(BitByte)
      BY <3>2, <3>3
    <3>4. QED
      BY <1>1, <1>3, <1>4, <2>3, <3>1, <3>3
  <2>4. QED
    BY <2>1, <2>2, <2>3 DEF Deliver
<1>6. /\ lenEnd' = lenEnd /\ order' = order /\ debug' = debug /\ sample' = sample /\ pc' = "open"
      /\ todo' = todo /\ got' = got /\ early' = early /\ outcome' = outcome /\ rest' = rest
  BY DEF Deliver, setting, reader
<1>7. rest' \in Seq(BitByte) /\ Len(rest') <= Len(input') /\ todo' \in Seq(Frames) /\ got' \in Seq(Told)
  <2>1. Len(input') \in Nat
    BY <1>5, LenProperties
  <2>2. QED
    BY <1>1, <1>6, <2>1
<1>8. QED
  BY <1>1, <1>5, <1>6, <1>7 DEF TypeInv

\* A new deserializer has all of the input, and one type to read.
LEMMA OpenType ==
  ASSUME TypeInv, Open
  PROVE  TypeInv'
<1>1. /\ lenEnd \in Ends /\ order \in Orders /\ sample \in Sample /\ sample.ty \in Types
      /\ todo = << >> /\ got = << >> /\ outcome = "none"
      /\ debug \in BOOLEAN /\ extra \in Seq(BitByte) /\ input \in Seq(BitByte)
  BY SampleType DEF TypeInv, Open
<1>2. /\ lenEnd' = lenEnd /\ order' = order /\ debug' = debug /\ sample' = sample
      /\ pc' = "reading" /\ extra' = extra /\ input' = input /\ got' = got
      /\ outcome' = outcome /\ rest' = InOrder(input) /\ todo' = <<Want(sample.ty)>>
  BY DEF Open, setting
<1>3. rest' \in Seq(BitByte) /\ Len(rest') = Len(input)
  BY <1>1, <1>2, InOrderTwice
<1>4. Len(input) \in Nat
  BY <1>1, LenProperties
<1>5. todo' \in Seq(Frames) /\ (todo' # << >> => Tail(todo') \in Seq(Resting))
  <2>1. Want(sample.ty) \in Frames
    BY <1>1, WantType, RestingIs
  <2>2. QED
    BY <1>2, <2>1, OneFrame
<1>6. got' \in Seq(Told)
  BY <1>1, <1>2
<1>7. Len(rest') <= Len(input')
  BY <1>2, <1>3, <1>4
<1>8. QED
  BY <1>1, <1>2, <1>3, <1>5, <1>6, <1>7 DEF TypeInv

\* A finished deserializer keeps what it has.
LEMMA FinishType ==
  ASSUME TypeInv, Finish
  PROVE  TypeInv'
<1>1. /\ lenEnd' = lenEnd /\ order' = order /\ debug' = debug /\ sample' = sample
      /\ pc' = "done" /\ extra' = extra /\ input' = input /\ got' = got
      /\ outcome' = "Ok" /\ rest' = rest /\ todo' = todo
  BY DEF Finish, setting, reader
<1>2. QED
  BY <1>1 DEF TypeInv

\* Every step that reads or ends is one of those of Moved, but for the last.
LEMMA StepMoves ==
  ASSUME TypeInv, Step
  PROVE  Open \/ Moved \/ Finish
BY PrimitiveMoves, OptionMoves, NumberFirstMoves, NumberOthersMoves, DataMoves, TupleMoves,
   ElementMoves, StopMoves, RefuseMoves DEF Step

\* The type invariant is inductive.
LEMMA NextType ==
  ASSUME TypeInv, [Next]_vars
  PROVE  TypeInv'
<1>1. CASE Deliver
  BY <1>1, DeliverType
<1>2. CASE Step
  BY <1>2, StepMoves, OpenType, MovedType, FinishType
<1>3. CASE UNCHANGED vars
  BY <1>3 DEF vars, setting, reader, TypeInv
<1>4. QED
  BY <1>1, <1>2, <1>3 DEF Next

\* It says what TypeOK says.
LEMMA TypeInvIsTypeOK ==
  ASSUME TypeInv
  PROVE  TypeOK
<1>1. ASSUME NEW i \in DOMAIN todo PROVE todo[i].n \in 0..Huge /\ todo[i].first \in BitByte
  <2>1. todo \in Seq(Frames) /\ i \in 1..Len(todo)
    BY <1>1, LenProperties DEF TypeInv
  <2>2. todo[i] \in Frames
    BY <2>1, ElementOfSeq
  <2>3. QED
    BY <2>2 DEF Frames
<1>2. QED
  BY <1>1 DEF TypeInv, TypeOK, Errors

\* The type invariant holds always.
LEMMA TypeInvariant == Spec => []TypeInv
<1>1. Init => TypeInv
  BY InitType
<1>2. TypeInv /\ [Next]_vars => TypeInv'
  BY NextType
<1>3. QED
  BY <1>1, <1>2, PTL DEF Spec

\* Type correctness: whatever the input, the reader has no more than it, the
\* functions at work hold counts and bytes, and only errors of the code are
\* returned.
THEOREM TypeCorrect == Spec => []TypeOK
<1>1. TypeInv => TypeOK
  BY TypeInvIsTypeOK
<1>2. QED
  BY <1>1, TypeInvariant, PTL

-----------------------------------------------------------------------------

(* Every byte is accounted for.                                            *)

\* What the function at work holds of the bytes consumed at an end.
HeldBy(le, td, end) ==
  CASE td # << >> /\ Head(td).f = "others" /\ Side(le, Head(td).ty) = end -> <<Head(td).first>>
    [] td # << >> /\ Head(td).f = "data" -> LenAt(le, end, Head(td).n)
    [] OTHER -> << >>

\* It is what Held says.
LEMMA HeldIs ==
  ASSUME lenEnd \in Ends, NEW end
  PROVE  Held(end) = HeldBy(lenEnd, todo, end)
<1>1. NumberEnd(Top.ty) = Side(lenEnd, Top.ty)
  BY NumberEndIs
<1>2. Top = Head(todo)
  BY DEF Top
<1>3. CASE todo # << >> /\ Top.f = "others" /\ NumberEnd(Top.ty) = end
  BY <1>1, <1>2, <1>3 DEF Held, HeldBy
<1>4. CASE todo # << >> /\ Top.f = "data"
  BY <1>1, <1>2, <1>4 DEF Held, HeldBy
<1>5. CASE ~(todo # << >> /\ Top.f = "others" /\ NumberEnd(Top.ty) = end) /\ ~(todo # << >> /\ Top.f = "data")
  BY <1>1, <1>2, <1>5 DEF Held, HeldBy
<1>6. QED
  BY <1>3, <1>4, <1>5

\* Nothing, the first byte of a number, or a length.
LEMMA HeldCases ==
  ASSUME NEW le \in Ends, NEW td \in Seq(Frames)
  PROVE  /\ td = << >> \/ Head(td).f \in {"want", "elems"}
              => HeldBy(le, td, "front") = << >> /\ HeldBy(le, td, "back") = << >>
         /\ td # << >> /\ Head(td).f = "others"
              => IF Side(le, Head(td).ty) = "front"
                 THEN HeldBy(le, td, "front") = <<Head(td).first>> /\ HeldBy(le, td, "back") = << >>
                 ELSE HeldBy(le, td, "front") = << >> /\ HeldBy(le, td, "back") = <<Head(td).first>>
         /\ td # << >> /\ Head(td).f = "data"
              => /\ HeldBy(le, td, "front") = LenAt(le, "front", Head(td).n)
                 /\ HeldBy(le, td, "back") = LenAt(le, "back", Head(td).n)
         /\ HeldBy(le, td, "front") \in Seq(BitByte) /\ HeldBy(le, td, "back") \in Seq(BitByte)
<1>1. CASE td = << >> \/ Head(td).f \in {"want", "elems"}
  <2>1. HeldBy(le, td, "front") = << >> /\ HeldBy(le, td, "back") = << >>
    BY <1>1 DEF HeldBy
  <2>2. QED
    BY <1>1, <2>1, EmptySeq
<1>2. CASE td # << >> /\ ~(Head(td).f \in {"want", "elems"})
  <2>1. Head(td) \in Frames
    BY <1>2, HeadAndTail
  <2>2. /\ Head(td).f \in {"want", "elems", "data", "others"} /\ Head(td).n \in Nat
        /\ Head(td).first \in BitByte
    BY <2>1, HugeType DEF Frames
  <2>3. CASE Head(td).f = "others"
    <3>1. IF Side(le, Head(td).ty) = "front"
          THEN HeldBy(le, td, "front") = <<Head(td).first>> /\ HeldBy(le, td, "back") = << >>
          ELSE HeldBy(le, td, "front") = << >> /\ HeldBy(le, td, "back") = <<Head(td).first>>
      <4>1. CASE Side(le, Head(td).ty) = "front"
        BY <1>2, <2>3, <4>1 DEF HeldBy
      <4>2. CASE Side(le, Head(td).ty) # "front"
        <5>1. Side(le, Head(td).ty) = "back"
          BY <4>2 DEF Side, Ends
        <5>2. QED
          BY <1>2, <2>3, <5>1 DEF HeldBy
      <4>3. QED
        BY <4>1, <4>2
    <3>2. <<Head(td).first>> \in Seq(BitByte) /\ << >> \in Seq(BitByte)
      BY <2>2
    <3>3. QED
      BY <1>2, <2>3, <3>1, <3>2
  <2>4. CASE Head(td).f = "data"
    <3>1. /\ HeldBy(le, td, "front") = LenAt(le, "front", Head(td).n)
          /\ HeldBy(le, td, "back") = LenAt(le, "back", Head(td).n)
      BY <1>2, <2>4 DEF HeldBy
    <3>2. QED
      BY <1>2, <2>2, <2>4, <3>1, LenParts
  <2>5. QED
    BY <1>2, <2>2, <2>3, <2>4
<1>3. QED
  BY <1>1, <1>2

\* The bytes consumed at the two ends around those that are left.
Consumed(le, g, td, r) ==
  Whole(FrontOf(le, g), HeldBy(le, td, "front"), r, HeldBy(le, td, "back"), BackOf(le, g))

\* What is taken from both ends is held.
Takes(f, h, x, r, y, k, b) ==
  Whole(f, h, x \o (r \o y), k, b) = Whole(f, h \o x, r, y \o k, b)

\* Takes holds of all bytes.
LEMMA BothTake ==
  ASSUME NEW f \in Seq(BitByte), NEW h \in Seq(BitByte), NEW x \in Seq(BitByte),
         NEW r \in Seq(BitByte), NEW y \in Seq(BitByte), NEW k \in Seq(BitByte),
         NEW b \in Seq(BitByte)
  PROVE  Takes(f, h, x, r, y, k, b)
<1> DEFINE ry == r \o y
           hx == h \o x
<1>1. ry \in Seq(BitByte) /\ hx \in Seq(BitByte)
  OBVIOUS
<1> HIDE DEF ry, hx
<1>2. FrontTaken(f, h, x, ry, k, b)
  BY <1>1, TakesFront
<1>3. BackTaken(f, hx, r, y, k, b)
  BY <1>1, TakesBack
<1>4. QED
  BY <1>2, <1>3, Zenon DEF FrontTaken, BackTaken, Takes, ry, hx

\* The bytes taken are held with those that were.
Holds(le, g, td, r, td2, r2) == Consumed(le, g, td, r) = Consumed(le, g, td2, r2)

\* Bytes that a function holds after it has read them are accounted for.
LEMMA HoldsMore ==
  ASSUME NEW le \in Ends, NEW g \in Seq(Told), NEW td \in Seq(Frames), NEW td2 \in Seq(Frames),
         NEW x \in Seq(BitByte), NEW r2 \in Seq(BitByte), NEW y \in Seq(BitByte),
         HeldBy(le, td2, "front") = HeldBy(le, td, "front") \o x,
         HeldBy(le, td2, "back") = y \o HeldBy(le, td, "back")
  PROVE  Holds(le, g, td, x \o (r2 \o y), td2, r2)
<1> DEFINE f == FrontOf(le, g)
           b == BackOf(le, g)
           h == HeldBy(le, td, "front")
           k == HeldBy(le, td, "back")
<1>1. f \in Seq(BitByte) /\ b \in Seq(BitByte) /\ h \in Seq(BitByte) /\ k \in Seq(BitByte)
  BY RecordType, HeldCases
<1> HIDE DEF f, b, h, k
<1>2. Takes(f, h, x, r2, y, k, b)
  BY <1>1, BothTake
<1>3. HeldBy(le, td2, "front") = h \o x /\ HeldBy(le, td2, "back") = y \o k
  BY DEF h, k
<1>4. QED
  BY <1>2, <1>3, Zenon DEF Takes, Holds, Consumed, f, b, h, k

\* The bytes taken and those held are what was told.
Tells(le, g, td, r, c, td2, r2) == Consumed(le, g, td, r) = Consumed(le, g \o <<c>>, td2, r2)

\* Bytes that a function tells, with those it held, are accounted for.
LEMMA TellsAll ==
  ASSUME NEW le \in Ends, NEW g \in Seq(Told), NEW td \in Seq(Frames), NEW td2 \in Seq(Frames),
         NEW x \in Seq(BitByte), NEW r2 \in Seq(BitByte), NEW y \in Seq(BitByte), NEW c \in Told,
         FrontPart(le, c) = HeldBy(le, td, "front") \o x,
         BackPart(le, c) = y \o HeldBy(le, td, "back"),
         HeldBy(le, td2, "front") = << >>, HeldBy(le, td2, "back") = << >>
  PROVE  Tells(le, g, td, x \o (r2 \o y), c, td2, r2)
<1> DEFINE f == FrontOf(le, g)
           b == BackOf(le, g)
           h == HeldBy(le, td, "front")
           k == HeldBy(le, td, "back")
<1>1. f \in Seq(BitByte) /\ b \in Seq(BitByte) /\ h \in Seq(BitByte) /\ k \in Seq(BitByte)
  BY RecordType, HeldCases
<1>2. FrontPart(le, c) = h \o x /\ BackPart(le, c) = y \o k
  OBVIOUS
<1>3. g \o <<c>> = Append(g, c)
  OBVIOUS
<1>4. Grows(le, g, c)
  BY RecordAppend
<1>5. FrontOf(le, g \o <<c>>) = f \o (h \o x) /\ BackOf(le, g \o <<c>>) = (y \o k) \o b
  BY <1>2, <1>3, <1>4, Zenon DEF Grows
<1> HIDE DEF f, b, h, k
<1>6. Takes(f, h, x, r2, y, k, b)
  BY <1>1, BothTake
<1> DEFINE hx == h \o x
           yk == y \o k
<1>7. hx \in Seq(BitByte) /\ yk \in Seq(BitByte)
  BY <1>1
<1> HIDE DEF hx, yk
<1>8. Whole(f, hx, r2, yk, b) = Whole(f \o hx, << >>, r2, << >>, yk \o b)
  BY <1>1, <1>7, Absorbs
<1>9. Consumed(le, g, td, x \o (r2 \o y)) = Whole(f, h, x \o (r2 \o y), k, b)
  BY DEF Consumed, f, b, h, k
<1>10. Consumed(le, g \o <<c>>, td2, r2) = Whole(f \o (h \o x), << >>, r2, << >>, (y \o k) \o b)
  BY <1>5, Zenon DEF Consumed
<1>11. QED
  BY <1>6, <1>8, <1>9, <1>10, Zenon DEF Takes, Tells, hx, yk

\* The invariant: the bytes consumed around those that are left are the input.
Accounted ==
  debug /\ ~loose /\ pc \in {"reading", "done"} /\ ~FailedAfterReading =>
    InOrder(input) = Consumed(lenEnd, got, todo, rest)

\* A failure that reads nothing keeps it.
LEMMA FailAccounts ==
  ASSUME TypeInv, Accounted, pc = "reading", Kept, rest' = rest, NEW err, FailWith(err)
  PROVE  Accounted'
<1>1. /\ lenEnd' = lenEnd /\ order' = order /\ debug' = debug /\ input' = input
      /\ (~loose' => ~loose)
  BY DEF Kept
<1>2. todo' = todo /\ got' = got
  BY DEF FailWith
<1>3. ~FailedAfterReading
  BY DEF TypeInv, FailedAfterReading
<1>4. InOrder(input)' = InOrder(input)
  BY <1>1 DEF InOrder
<1>5. QED
  BY <1>1, <1>2, <1>3, <1>4 DEF Accounted

\* So does one after which nothing is claimed.
LEMMA LateFails ==
  ASSUME FailedAfterReading'
  PROVE  Accounted'
BY DEF Accounted

\* And a step that continues, if what was consumed is held or told.
LEMMA ContinueAccounts ==
  ASSUME TypeInv, Accounted, pc = "reading", Kept, NEW frames, NEW told, Continue(frames, told),
         debug /\ ~loose' => Consumed(lenEnd, got, todo, rest)
                               = Consumed(lenEnd, got \o told, frames \o Tail(todo), rest')
  PROVE  Accounted'
<1>1. /\ lenEnd' = lenEnd /\ order' = order /\ debug' = debug /\ input' = input
      /\ (~loose' => ~loose)
  BY DEF Kept
<1>2. todo' = frames \o Tail(todo) /\ got' = got \o told
  BY DEF Continue
<1>3. ~FailedAfterReading
  BY DEF TypeInv, FailedAfterReading
<1>4. InOrder(input)' = InOrder(input)
  BY <1>1 DEF InOrder
<1>5. SUFFICES ASSUME debug', ~loose'
               PROVE  InOrder(input)' = Consumed(lenEnd', got', todo', rest')
  BY DEF Accounted
<1>6. InOrder(input) = Consumed(lenEnd, got, todo, rest)
  BY <1>1, <1>3, <1>5 DEF Accounted
<1>7. Consumed(lenEnd, got, todo, rest) = Consumed(lenEnd', got', todo', rest')
  BY <1>1, <1>2, <1>5
<1>8. QED
  BY <1>4, <1>6, <1>7

\* A cut, with nothing at the other end.
LEMMA CutAround ==
  ASSUME NEW end \in Ends, NEW n, NEW x, NEW y, Cut(end, n, x, y)
  PROVE  /\ x \in Seq(BitByte) /\ y \in Seq(BitByte) /\ << >> \in Seq(BitByte)
         /\ end = "front" => rest = x \o (y \o << >>)
         /\ end = "back" => rest = << >> \o (y \o x)
         /\ << >> \o x = x /\ x \o << >> = x /\ << >> \o << >> = << >>
<1>1. /\ x \in Seq(BitByte) /\ y \in Seq(BitByte)
      /\ end = "front" => rest = x \o y
      /\ end = "back" => rest = y \o x
  BY DEF Cut
<1>2. y \o x \in Seq(BitByte) /\ << >> \in Seq(BitByte)
  BY <1>1
<1>3. /\ << >> \o x = x /\ x \o << >> = x /\ << >> \o << >> = << >>
      /\ y \o << >> = y /\ << >> \o (y \o x) = y \o x
  BY <1>1, <1>2, ConcatEmptySeq
<1>4. QED
  BY <1>1, <1>2, <1>3

\* Functions of which none is at work hold nothing.
LEMMA RestingHold ==
  ASSUME NEW le \in Ends, NEW fs \in Seq(Resting), NEW rs \in Seq(Resting)
  PROVE  /\ fs \o rs \in Seq(Frames)
         /\ fs \o rs = << >> \/ Head(fs \o rs).f \in {"want", "elems"}
         /\ HeldBy(le, fs \o rs, "front") = << >> /\ HeldBy(le, fs \o rs, "back") = << >>
<1> DEFINE td == fs \o rs
<1>1. td \in Seq(Resting)
  OBVIOUS
<1> HIDE DEF td
<1>2. td \in Seq(Frames)
  BY <1>1, RestingIs
<1>3. td = << >> \/ Head(td).f \in {"want", "elems"}
  <2>1. td # << >> => Head(td) \in Resting
    BY <1>1, HeadAndTail
  <2>2. QED
    BY <2>1 DEF Resting
<1>4. QED
  BY <1>2, <1>3, HeldCases DEF td

\* A function that is called by those that rest.
LEMMA OneHolds ==
  ASSUME NEW fr \in Frames, NEW rs \in Seq(Resting)
  PROVE  <<fr>> \o rs \in Seq(Frames) /\ <<fr>> \o rs # << >> /\ Head(<<fr>> \o rs) = fr
<1>1. rs \in Seq(Frames)
  BY RestingIs
<1> DEFINE td == <<fr>> \o rs
<1>2. td \in Seq(Frames) /\ Len(td) = 1 + Len(rs) /\ Len(rs) \in Nat /\ td[1] = fr
  BY <1>1, LenProperties
<1> HIDE DEF td
<1>3. td # << >> /\ Head(td) = fr
  BY <1>2
<1>4. QED
  BY <1>2, <1>3 DEF td

\* A call that has all its bytes at the front is told as it is read.
LEMMA FrontTells ==
  ASSUME TypeInv, todo # << >>, Top.f = "want", NEW n, NEW x, NEW y, Cut("front", n, x, y),
         NEW frames \in Seq(Resting), NEW c \in Told,
         FrontPart(lenEnd, c) = x, BackPart(lenEnd, c) = << >>
  PROVE  Consumed(lenEnd, got, todo, rest)
           = Consumed(lenEnd, got \o <<c>>, frames \o Tail(todo), y)
<1>1. lenEnd \in Ends /\ got \in Seq(Told) /\ todo \in Seq(Frames) /\ Tail(todo) \in Seq(Resting)
  BY DEF TypeInv
<1>2. HeldBy(lenEnd, todo, "front") = << >> /\ HeldBy(lenEnd, todo, "back") = << >>
  BY <1>1, HeldCases DEF Top
<1>3. /\ x \in Seq(BitByte) /\ y \in Seq(BitByte) /\ << >> \in Seq(BitByte)
      /\ rest = x \o (y \o << >>) /\ << >> \o x = x /\ << >> \o << >> = << >>
  BY CutAround DEF Ends
<1> DEFINE td2 == frames \o Tail(todo)
<1>4. /\ td2 \in Seq(Frames)
      /\ HeldBy(lenEnd, td2, "front") = << >> /\ HeldBy(lenEnd, td2, "back") = << >>
  BY <1>1, RestingHold
<1> HIDE DEF td2
<1>5. /\ FrontPart(lenEnd, c) = HeldBy(lenEnd, todo, "front") \o x
      /\ BackPart(lenEnd, c) = << >> \o HeldBy(lenEnd, todo, "back")
  BY <1>2, <1>3
<1>6. Tells(lenEnd, got, todo, x \o (y \o << >>), c, td2, y)
  BY <1>1, <1>3, <1>4, <1>5, TellsAll
<1>7. QED
  BY <1>3, <1>6 DEF Tells, td2

\* Reading a primitive accounts for its bytes.
LEMMA PrimitiveAccounts ==
  ASSUME TypeInv, Accounted, ReadPrimitive
  PROVE  Accounted'
<1>1. PrimitiveDoes
  BY PrimitiveIs
<1>2. Kept /\ pc = "reading" /\ todo # << >> /\ Top.f = "want"
  BY <1>1 DEF PrimitiveDoes, ReadPrimitive, AtType, At
<1>3. CASE Lacks(Top.ty.size) /\ FailWith("PrematureEndOfInput")
  BY <1>2, <1>3, FailAccounts DEF Lacks
<1>4. CASE ~(Lacks(Top.ty.size) /\ FailWith("PrematureEndOfInput"))
  <2>1. PICK x \in Seq(BitByte), y \in Seq(BitByte) :
          /\ Cut("front", Top.ty.size, x, y) /\ rest' = y
          /\ \/ FailWith("InvalidUtf8Encoding")
             \/ \E b \in Seq(BitByte) : Continue(<< >>, <<Prim(b)>>) /\ (~loose' => b = x)
    BY <1>1, <1>4 DEF PrimitiveDoes
  <2>2. CASE FailWith("InvalidUtf8Encoding")
    <3>1. FailedAfterReading'
      BY <1>2, <2>2 DEF FailWith, FailedAfterReading, Top
    <3>2. QED
      BY <3>1, LateFails
  <2>3. CASE \E b \in Seq(BitByte) : Continue(<< >>, <<Prim(b)>>) /\ (~loose' => b = x)
    <3>1. PICK b \in Seq(BitByte) : Continue(<< >>, <<Prim(b)>>) /\ (~loose' => b = x)
      BY <2>3
    <3>2. << >> \in Seq(Resting) /\ Prim(b) \in Told
      BY ToldTypes
    <3>3. FrontPart(lenEnd, Prim(b)) = b /\ BackPart(lenEnd, Prim(b)) = << >>
      BY DEF FrontPart, BackPart, Prim
    <3>4. ~loose' => Consumed(lenEnd, got, todo, rest)
                       = Consumed(lenEnd, got \o <<Prim(b)>>, << >> \o Tail(todo), rest')
      <4>1. SUFFICES ASSUME b = x
                     PROVE  Consumed(lenEnd, got, todo, rest)
                              = Consumed(lenEnd, got \o <<Prim(b)>>, << >> \o Tail(todo), rest')
        BY <3>1
      <4>2. QED
        BY <1>2, <2>1, <3>2, <3>3, <4>1, FrontTells
    <3>5. QED
      BY <1>2, <3>1, <3>4, ContinueAccounts
  <2>4. QED
    BY <2>1, <2>2, <2>3
<1>5. QED
  BY <1>3, <1>4

\* Reading an option accounts for its tag.
LEMMA OptionAccounts ==
  ASSUME TypeInv, Accounted, ReadOption
  PROVE  Accounted'
<1>1. OptionDoes
  BY OptionIs
<1>2. Kept /\ pc = "reading" /\ todo # << >> /\ Top.f = "want" /\ Top.ty.t = "option"
  BY <1>1 DEF OptionDoes, ReadOption, AtType, At
<1>3. CASE Lacks(1) /\ FailWith("PrematureEndOfInput")
  BY <1>2, <1>3, FailAccounts DEF Lacks
<1>4. CASE ~(Lacks(1) /\ FailWith("PrematureEndOfInput"))
  <2>1. PICK x \in Seq(BitByte), y \in Seq(BitByte) :
          /\ Cut("front", 1, x, y) /\ rest' = y
          /\ \/ x = <<ByteOf(0)>> /\ Continue(<< >>, <<None>>)
             \/ x = <<ByteOf(1)>> /\ Continue(Wants(Top.ty.of), <<Some>>)
             \/ FailWith("InvalidTagEncoding")
    BY <1>1, <1>4 DEF OptionDoes
  <2>2. CASE FailWith("InvalidTagEncoding")
    <3>1. FailedAfterReading'
      BY <1>2, <2>2 DEF FailWith, FailedAfterReading
    <3>2. QED
      BY <3>1, LateFails
  <2>3. CASE x = <<ByteOf(0)>> /\ Continue(<< >>, <<None>>)
    <3>1. << >> \in Seq(Resting) /\ None \in Told
      BY ToldTypes
    <3>2. FrontPart(lenEnd, None) = x /\ BackPart(lenEnd, None) = << >>
      BY <2>3 DEF FrontPart, BackPart, None
    <3>3. Consumed(lenEnd, got, todo, rest)
            = Consumed(lenEnd, got \o <<None>>, << >> \o Tail(todo), rest')
      BY <1>2, <2>1, <3>1, <3>2, FrontTells
    <3>4. QED
      BY <1>2, <2>3, <3>3, ContinueAccounts
  <2>4. CASE x = <<ByteOf(1)>> /\ Continue(Wants(Top.ty.of), <<Some>>)
    <3>1. Wants(Top.ty.of) \in Seq(Resting) /\ Some \in Told
      BY <1>2, TopIs, TypeParts, WantsType, ToldTypes
    <3>2. FrontPart(lenEnd, Some) = x /\ BackPart(lenEnd, Some) = << >>
      BY <2>4 DEF FrontPart, BackPart, Some
    <3>3. Consumed(lenEnd, got, todo, rest)
            = Consumed(lenEnd, got \o <<Some>>, Wants(Top.ty.of) \o Tail(todo), rest')
      BY <1>2, <2>1, <3>1, <3>2, FrontTells
    <3>4. QED
      BY <1>2, <2>4, <3>3, ContinueAccounts
  <2>5. QED
    BY <2>1, <2>2, <2>3, <2>4
<1>5. QED
  BY <1>3, <1>4

\* A number whose first byte is held.
LEMMA NumberFirstAccounts ==
  ASSUME TypeInv, Accounted, ReadNumberFirst
  PROVE  Accounted'
<1> DEFINE ty == Top.ty
           end == NumberEnd(ty)
<1>1. NumberFirstDoes
  BY NumberFirstIs
<1>2. Kept /\ pc = "reading" /\ todo # << >> /\ Top.f = "want" /\ ty.t \in Numbered
  BY <1>1 DEF NumberFirstDoes, ReadNumberFirst, AtType, At, Numbered
<1>3. CASE Lacks(1) /\ FailWith("PrematureEndOfInput")
  BY <1>2, <1>3, FailAccounts DEF Lacks
<1>4. CASE ~(Lacks(1) /\ FailWith("PrematureEndOfInput"))
  <2>1. PICK x \in Seq(BitByte), y \in Seq(BitByte) :
          /\ Cut(end, 1, x, y) /\ rest' = y
          /\ \/ FailWith("InvalidVarintEncoding")
             \/ /\ LenAccepted(NumberType(ty), DecodedLen(x[1]))
                /\ Continue(<<Frame("others", ty, 0, x[1])>>, << >>)
    BY <1>1, <1>4 DEF NumberFirstDoes
  <2>2. CASE FailWith("InvalidVarintEncoding")
    <3>1. FailedAfterReading'
      BY <1>2, <2>2 DEF FailWith, FailedAfterReading, Top
    <3>2. QED
      BY <3>1, LateFails
  <2>3. CASE /\ LenAccepted(NumberType(ty), DecodedLen(x[1]))
             /\ Continue(<<Frame("others", ty, 0, x[1])>>, << >>)
    <3> DEFINE fr == Frame("others", ty, 0, x[1])
               td2 == <<fr>> \o Tail(todo)
    <3>1. Len(x) = 1
      BY <2>1 DEF Cut
    <3>2. x[1] \in BitByte /\ x = <<x[1]>>
      <4>1. 1 \in 1..Len(x)
        BY <3>1
      <4>2. QED
        BY <3>1, <4>1, ElementOfSeq
    <3>3. 0 \in 0..Huge /\ ty \in Types
      BY <1>2, TopIs, HugeType
    <3>4. fr \in Frames
      BY <1>2, <2>3, <3>2, <3>3, FrameTypes
    <3>5. fr.f = "others" /\ fr.ty = ty /\ fr.first = x[1]
      BY DEF Frame
    <3>6. /\ lenEnd \in Ends /\ got \in Seq(Told) /\ todo \in Seq(Frames) /\ Tail(todo) \in Seq(Resting)
          /\ end = Side(lenEnd, ty) /\ end \in Ends
      BY <1>2, NumberEndIs DEF TypeInv
    <3> HIDE DEF fr, end, ty
    <3>7. td2 \in Seq(Frames) /\ td2 # << >> /\ Head(td2) = fr
      BY <3>4, <3>6, OneHolds
    <3> HIDE DEF td2
    <3>8. HeldBy(lenEnd, todo, "front") = << >> /\ HeldBy(lenEnd, todo, "back") = << >>
      BY <1>2, <3>6, HeldCases DEF Top
    <3>9. IF end = "front"
          THEN HeldBy(lenEnd, td2, "front") = x /\ HeldBy(lenEnd, td2, "back") = << >>
          ELSE HeldBy(lenEnd, td2, "front") = << >> /\ HeldBy(lenEnd, td2, "back") = x
      BY <3>2, <3>5, <3>6, <3>7, HeldCases
    <3>10. /\ << >> \in Seq(BitByte)
           /\ end = "front" => rest = x \o (y \o << >>)
           /\ end = "back" => rest = << >> \o (y \o x)
           /\ << >> \o x = x /\ x \o << >> = x /\ << >> \o << >> = << >>
      <4>1. Cut(end, 1, x, y) /\ end \in Ends
        BY <2>1, <3>6
      <4>2. QED
        BY <4>1, CutAround
    <3>11. Holds(lenEnd, got, todo, rest, td2, y)
      <4>1. CASE end = "front"
        <5>1. /\ HeldBy(lenEnd, td2, "front") = HeldBy(lenEnd, todo, "front") \o x
              /\ HeldBy(lenEnd, td2, "back") = << >> \o HeldBy(lenEnd, todo, "back")
          BY <3>8, <3>9, <3>10, <4>1
        <5>2. Holds(lenEnd, got, todo, x \o (y \o << >>), td2, y)
          BY <3>6, <3>7, <3>10, <5>1, HoldsMore
        <5>3. QED
          BY <3>10, <4>1, <5>2
      <4>2. CASE end = "back"
        <5>1. /\ HeldBy(lenEnd, td2, "front") = HeldBy(lenEnd, todo, "front") \o << >>
              /\ HeldBy(lenEnd, td2, "back") = x \o HeldBy(lenEnd, todo, "back")
          BY <3>8, <3>9, <3>10, <4>2
        <5>2. Holds(lenEnd, got, todo, << >> \o (y \o x), td2, y)
          BY <3>6, <3>7, <3>10, <5>1, HoldsMore
        <5>3. QED
          BY <3>10, <4>2, <5>2
      <4>3. QED
        BY <3>6, <4>1, <4>2 DEF Ends
    <3>12. got \o << >> = got
      BY <3>6, ConcatEmptySeq
    <3>13. Consumed(lenEnd, got, todo, rest)
             = Consumed(lenEnd, got \o << >>, <<fr>> \o Tail(todo), rest')
      BY <2>1, <3>11, <3>12 DEF Holds, td2
    <3>14. Continue(<<fr>>, << >>)
      BY <2>3 DEF fr
    <3>15. QED
      BY <1>2, <3>13, <3>14, ContinueAccounts
  <2>4. QED
    BY <2>1, <2>2, <2>3
<1>5. QED
  BY <1>3, <1>4

\* The bytes of a length at either end.
LEMMA LenAtIs ==
  ASSUME NEW le \in Ends, NEW n, NEW first \in BitByte, NEW others \in Seq(BitByte),
         Encoding(LenType, WordOf(LenType, n)) = <<first>> \o others
  PROVE  /\ le = "front" => LenAt(le, "front", n) = <<first>> \o others /\ LenAt(le, "back", n) = << >>
         /\ le = "back" => LenAt(le, "front", n) = << >> /\ LenAt(le, "back", n) = others \o <<first>>
<1> DEFINE e == Encoding(LenType, WordOf(LenType, n))
<1>1. Head(e) = first /\ Tail(e) = others
  BY FirstAndOthers
<1> HIDE DEF e
<1>2. /\ le = "front" => LenAt(le, "front", n) = e /\ LenAt(le, "back", n) = << >>
      /\ le = "back" => LenAt(le, "front", n) = << >> /\ LenAt(le, "back", n) = Tail(e) \o <<Head(e)>>
  BY DEF LenAt, e
<1>3. QED
  BY <1>1, <1>2 DEF e

\* Once its other bytes are read a number is held or told as a whole.
LEMMA NumberOthersAccounts ==
  ASSUME TypeInv, Accounted, ReadNumberOthers
  PROVE  Accounted'
<1> DEFINE ty == Top.ty
           u == NumberType(ty)
           first == Top.first
           end == NumberEnd(ty)
<1>1. NumberOthersDoes
  BY NumberOthersIs
<1>2. Kept /\ pc = "reading" /\ todo # << >> /\ Top.f = "others"
  BY <1>1 DEF NumberOthersDoes, ReadNumberOthers, At
<1>3. /\ ty \in Types /\ first \in BitByte /\ ty.t \in Numbered
      /\ LenAccepted(u, DecodedLen(first)) /\ u \in Type
  BY <1>2, TopIs, NumberTypes DEF FrameIs
<1>4. CASE Lacks(DecodedLen(first) - 1) /\ FailWith("PrematureEndOfInput")
  BY <1>2, <1>4, FailAccounts DEF Lacks
<1>5. CASE ~(Lacks(DecodedLen(first) - 1) /\ FailWith("PrematureEndOfInput"))
  <2>1. PICK x \in Seq(BitByte), y \in Seq(BitByte) :
          /\ Cut(end, DecodedLen(first) - 1, x, y)
          /\ \E num \in {Decode(u, DecodedLen(first), first, x, debug)} :
               \/ num.err # "Ok" /\ rest' = rest /\ FailWith(num.err)
               \/ /\ num.err = "Ok" /\ rest' = y /\ AfterNumber(ty, Number(num.val))
                  /\ ~loose' => ~Vague(u, first, Number(num.val))
    BY <1>1, <1>5 DEF NumberOthersDoes
  <2>2. PICK num \in {Decode(u, DecodedLen(first), first, x, debug)} :
          \/ num.err # "Ok" /\ rest' = rest /\ FailWith(num.err)
          \/ /\ num.err = "Ok" /\ rest' = y /\ AfterNumber(ty, Number(num.val))
             /\ ~loose' => ~Vague(u, first, Number(num.val))
    BY <2>1
  <2> DEFINE n == Number(num.val)
  <2>3. num = Decode(u, DecodedLen(first), first, x, debug)
    OBVIOUS
  <2>4. Len(x) = DecodedLen(first) - 1
    BY <2>1 DEF Cut
  <2>5. CASE num.err # "Ok"
    <3>1. rest' = rest /\ FailWith(num.err)
      BY <2>2, <2>5
    <3>2. QED
      BY <1>2, <3>1, FailAccounts
  <2>6. CASE num.err = "Ok"
    <3>1. rest' = y /\ AfterNumber(ty, n) /\ (~loose' => ~Vague(u, first, n))
      BY <2>2, <2>6
    <3>2. n \in Nat /\ n \in 0..Huge
      <4>1. debug \in BOOLEAN
        BY DEF TypeInv
      <4>2. num.val \in Word(u)
        BY <1>3, <2>3, <2>4, <2>6, <4>1, DecodeType
      <4>3. n \in 0..Huge
        BY <1>3, <4>2, NumberBounds
      <4> HIDE DEF n
      <4>4. QED
        BY <4>3, HugeType
    <3>3. debug /\ ~loose' => Encoding(u, WordOf(u, n)) = <<first>> \o x
      <4>1. SUFFICES ASSUME debug, ~loose' PROVE Encoding(u, WordOf(u, n)) = <<first>> \o x
        OBVIOUS
      <4>2. debug = TRUE
        BY <4>1 DEF TypeInv
      <4>3. num = Decode(u, DecodedLen(first), first, x, TRUE) /\ ~Vague(u, first, Number(num.val))
        BY <2>3, <3>1, <4>1, <4>2
      <4>4. QED
        BY <1>3, <2>4, <2>6, <4>3, Canonical
    <3>4. AfterNumberDoes(ty, n)
      BY <1>3, <3>1, AfterNumberIs
    <3>5. /\ lenEnd \in Ends /\ got \in Seq(Told) /\ todo \in Seq(Frames) /\ Tail(todo) \in Seq(Resting)
          /\ end = Side(lenEnd, ty) /\ end \in Ends /\ got \o << >> = got
      BY <1>2, NumberEndIs, ConcatEmptySeq DEF TypeInv
    <3>6. IF end = "front"
          THEN HeldBy(lenEnd, todo, "front") = <<first>> /\ HeldBy(lenEnd, todo, "back") = << >>
          ELSE HeldBy(lenEnd, todo, "front") = << >> /\ HeldBy(lenEnd, todo, "back") = <<first>>
      BY <1>2, <3>5, HeldCases DEF Top
    <3>7. /\ << >> \in Seq(BitByte)
          /\ end = "front" => rest = x \o (y \o << >>)
          /\ end = "back" => rest = << >> \o (y \o x)
          /\ << >> \o x = x /\ x \o << >> = x /\ << >> \o << >> = << >>
      BY <2>1, <3>5, CutAround
    <3> HIDE DEF n
    <3>8. CASE ty.t = "enum" /\ ~(n < Len(ty.of)) /\ FailWith("Serde")
      <4>1. FailedAfterReading'
        BY <3>8 DEF FailWith, FailedAfterReading
      <4>2. QED
        BY <4>1, LateFails
    <3>9. CASE ty.t \in {"str", "bytes"} /\ Continue(<<Frame("data", ty, n, Zero)>>, << >>)
      <4> DEFINE fr == Frame("data", ty, n, Zero)
                 td2 == <<fr>> \o Tail(todo)
      <4>1. fr \in Frames /\ fr.f = "data" /\ fr.n = n
        <5>1. Zero \in BitByte
          BY ByteBits
        <5>2. QED
          BY <1>3, <3>2, <3>9, <5>1, FrameTypes DEF Frame
      <4> HIDE DEF fr, ty, u, first, end
      <4>2. td2 \in Seq(Frames) /\ td2 # << >> /\ Head(td2) = fr
        BY <3>5, <4>1, OneHolds
      <4> HIDE DEF td2
      <4>3. /\ HeldBy(lenEnd, td2, "front") = LenAt(lenEnd, "front", n)
            /\ HeldBy(lenEnd, td2, "back") = LenAt(lenEnd, "back", n)
        BY <3>5, <4>1, <4>2, HeldCases
      <4>4. debug /\ ~loose' => Holds(lenEnd, got, todo, rest, td2, y)
        <5>1. SUFFICES ASSUME debug, ~loose' PROVE Holds(lenEnd, got, todo, rest, td2, y)
          OBVIOUS
        <5>2. u = LenType /\ end = lenEnd
          BY <3>5, <3>9 DEF NumberType, Side, u, ty
        <5>3. Encoding(LenType, WordOf(LenType, n)) = <<first>> \o x
          BY <3>3, <5>1, <5>2
        <5>4. CASE lenEnd = "front"
          <6>1. LenAt(lenEnd, "front", n) = <<first>> \o x /\ LenAt(lenEnd, "back", n) = << >>
            BY <1>3, <3>5, <5>3, <5>4, LenAtIs DEF first
          <6>2. /\ HeldBy(lenEnd, td2, "front") = HeldBy(lenEnd, todo, "front") \o x
                /\ HeldBy(lenEnd, td2, "back") = << >> \o HeldBy(lenEnd, todo, "back")
            BY <3>6, <3>7, <4>3, <5>2, <5>4, <6>1
          <6>3. Holds(lenEnd, got, todo, x \o (y \o << >>), td2, y)
            BY <3>5, <3>7, <4>2, <6>2, HoldsMore
          <6>4. QED
            BY <3>7, <5>2, <5>4, <6>3
        <5>5. CASE lenEnd = "back"
          <6>1. LenAt(lenEnd, "front", n) = << >> /\ LenAt(lenEnd, "back", n) = x \o <<first>>
            BY <1>3, <3>5, <5>3, <5>5, LenAtIs DEF first
          <6>2. /\ HeldBy(lenEnd, td2, "front") = HeldBy(lenEnd, todo, "front") \o << >>
                /\ HeldBy(lenEnd, td2, "back") = x \o HeldBy(lenEnd, todo, "back")
            BY <3>6, <3>7, <4>3, <5>2, <5>5, <6>1
          <6>3. Holds(lenEnd, got, todo, << >> \o (y \o x), td2, y)
            BY <3>5, <3>7, <4>2, <6>2, HoldsMore
          <6>4. QED
            BY <3>7, <5>2, <5>5, <6>3
        <5>6. QED
          BY <3>5, <5>4, <5>5 DEF Ends
      <4>5. debug /\ ~loose' => Consumed(lenEnd, got, todo, rest)
                                  = Consumed(lenEnd, got \o << >>, <<fr>> \o Tail(todo), rest')
        BY <3>1, <3>5, <4>4 DEF Holds, td2
      <4>6. Continue(<<fr>>, << >>)
        BY <3>9 DEF fr
      <4>7. QED
        BY <1>2, <4>5, <4>6, ContinueAccounts
    <3>10. CASE ty.t \in {"seq", "map"} /\ Continue(<<Frame("elems", ty, n, Zero)>>, <<SeqOrMap(n)>>)
      <4> DEFINE fr == Frame("elems", ty, n, Zero)
                 c == SeqOrMap(n)
                 td2 == <<fr>> \o Tail(todo)
      <4>1. fr \in Resting /\ <<fr>> \in Seq(Resting) /\ c \in Told
        <5>1. Zero \in BitByte
          BY ByteBits
        <5>2. fr \in Resting /\ c \in Told
          BY <1>3, <3>2, <3>10, <5>1, FrameTypes, ToldTypes
        <5> HIDE DEF fr
        <5>3. QED
          BY <5>2
      <4>2. /\ FrontPart(lenEnd, c) = LenAt(lenEnd, "front", n)
            /\ BackPart(lenEnd, c) = LenAt(lenEnd, "back", n)
        BY DEF FrontPart, BackPart, SeqOrMap
      <4> HIDE DEF fr, ty, u, first, end, c
      <4>3. /\ td2 \in Seq(Frames)
            /\ HeldBy(lenEnd, td2, "front") = << >> /\ HeldBy(lenEnd, td2, "back") = << >>
        BY <3>5, <4>1, RestingHold
      <4> HIDE DEF td2
      <4>4. debug /\ ~loose' => Tells(lenEnd, got, todo, rest, c, td2, y)
        <5>1. SUFFICES ASSUME debug, ~loose' PROVE Tells(lenEnd, got, todo, rest, c, td2, y)
          OBVIOUS
        <5>2. u = LenType /\ end = lenEnd
          BY <3>5, <3>10 DEF NumberType, Side, u, ty
        <5>3. Encoding(LenType, WordOf(LenType, n)) = <<first>> \o x
          BY <3>3, <5>1, <5>2
        <5>4. CASE lenEnd = "front"
          <6>1. LenAt(lenEnd, "front", n) = <<first>> \o x /\ LenAt(lenEnd, "back", n) = << >>
            BY <1>3, <3>5, <5>3, <5>4, LenAtIs DEF first
          <6>2. /\ FrontPart(lenEnd, c) = HeldBy(lenEnd, todo, "front") \o x
                /\ BackPart(lenEnd, c) = << >> \o HeldBy(lenEnd, todo, "back")
            BY <3>6, <3>7, <4>2, <5>2, <5>4, <6>1
          <6>3. Tells(lenEnd, got, todo, x \o (y \o << >>), c, td2, y)
            BY <3>5, <3>7, <4>1, <4>3, <6>2, TellsAll
          <6>4. QED
            BY <3>7, <5>2, <5>4, <6>3
        <5>5. CASE lenEnd = "back"
          <6>1. LenAt(lenEnd, "front", n) = << >> /\ LenAt(lenEnd, "back", n) = x \o <<first>>
            BY <1>3, <3>5, <5>3, <5>5, LenAtIs DEF first
          <6>2. /\ FrontPart(lenEnd, c) = HeldBy(lenEnd, todo, "front") \o << >>
                /\ BackPart(lenEnd, c) = x \o HeldBy(lenEnd, todo, "back")
            BY <3>6, <3>7, <4>2, <5>2, <5>5, <6>1
          <6>3. Tells(lenEnd, got, todo, << >> \o (y \o x), c, td2, y)
            BY <3>5, <3>7, <4>1, <4>3, <6>2, TellsAll
          <6>4. QED
            BY <3>7, <5>2, <5>5, <6>3
        <5>6. QED
          BY <3>5, <5>4, <5>5 DEF Ends
      <4>5. debug /\ ~loose' => Consumed(lenEnd, got, todo, rest)
                                  = Consumed(lenEnd, got \o <<c>>, <<fr>> \o Tail(todo), rest')
        BY <3>1, <4>4 DEF Tells, td2
      <4>6. Continue(<<fr>>, <<c>>)
        BY <3>10 DEF fr, c
      <4>7. QED
        BY <1>2, <4>5, <4>6, ContinueAccounts
    <3>11. CASE ty.t = "enum" /\ n < Len(ty.of) /\ Continue(Wants(ty.of[n + 1].of), <<Variant(n)>>)
      <4> DEFINE fs == Wants(ty.of[n + 1].of)
                 c == Variant(n)
                 td2 == fs \o Tail(todo)
      <4>1. fs \in Seq(Resting) /\ c \in Told
        <5>1. Len(ty.of) \in Nat
          BY <1>3, <3>11, TypeParts, LenProperties
        <5>2. n + 1 \in 1..Len(ty.of)
          BY <3>2, <3>11, <5>1
        <5>3. ty.of[n + 1].of \in Seq(Types)
          BY <1>3, <3>11, <5>2, TypeParts
        <5>4. QED
          BY <3>2, <5>3, WantsType, ToldTypes
      <4>2. FrontPart(lenEnd, c) = Encoding(U32, WordOf(U32, n)) /\ BackPart(lenEnd, c) = << >>
        BY DEF FrontPart, BackPart, Variant
      <4>3. u = U32 /\ end = "front"
        BY <3>5, <3>11 DEF NumberType, Side
      <4> HIDE DEF fs, ty, u, first, end, c
      <4>4. /\ td2 \in Seq(Frames)
            /\ HeldBy(lenEnd, td2, "front") = << >> /\ HeldBy(lenEnd, td2, "back") = << >>
        BY <3>5, <4>1, RestingHold
      <4> HIDE DEF td2
      <4>5. debug /\ ~loose' => Tells(lenEnd, got, todo, rest, c, td2, y)
        <5>1. SUFFICES ASSUME debug, ~loose' PROVE Tells(lenEnd, got, todo, rest, c, td2, y)
          OBVIOUS
        <5>2. /\ FrontPart(lenEnd, c) = HeldBy(lenEnd, todo, "front") \o x
              /\ BackPart(lenEnd, c) = << >> \o HeldBy(lenEnd, todo, "back")
          BY <3>3, <3>6, <3>7, <4>2, <4>3, <5>1
        <5>3. Tells(lenEnd, got, todo, x \o (y \o << >>), c, td2, y)
          BY <3>5, <3>7, <4>1, <4>4, <5>2, TellsAll
        <5>4. QED
          BY <3>7, <4>3, <5>3
      <4>6. debug /\ ~loose' => Consumed(lenEnd, got, todo, rest)
                                  = Consumed(lenEnd, got \o <<c>>, fs \o Tail(todo), rest')
        BY <3>1, <4>5 DEF Tells, td2
      <4>7. Continue(fs, <<c>>)
        BY <3>11 DEF fs, c
      <4>8. QED
        BY <1>2, <4>6, <4>7, ContinueAccounts
    <3>12. QED
      BY <3>4, <3>8, <3>9, <3>10, <3>11 DEF AfterNumberDoes
  <2>7. QED
    BY <2>5, <2>6
<1>6. QED
  BY <1>4, <1>5

\* The length of a string was held until the string is told.
LEMMA DataAccounts ==
  ASSUME TypeInv, Accounted, ReadData
  PROVE  Accounted'
<1>1. DataDoes
  BY DataIs
<1>2. Kept /\ pc = "reading" /\ todo # << >> /\ Top.f = "data"
  BY <1>1 DEF DataDoes, ReadData, At
<1>3. CASE Lacks(Top.n) /\ FailWith("PrematureEndOfInput")
  BY <1>2, <1>3, FailAccounts DEF Lacks
<1>4. CASE ~(Lacks(Top.n) /\ FailWith("PrematureEndOfInput"))
  <2>1. PICK x \in Seq(BitByte), y \in Seq(BitByte) :
          /\ Cut("front", Top.n, x, y)
          /\ \/ rest' = rest /\ FailWith("InvalidUtf8Encoding")
             \/ rest' = y /\ Continue(<< >>, <<Bytes(x)>>)
    BY <1>1, <1>4 DEF DataDoes
  <2>2. CASE rest' = rest /\ FailWith("InvalidUtf8Encoding")
    BY <1>2, <2>2, FailAccounts
  <2>3. CASE rest' = y /\ Continue(<< >>, <<Bytes(x)>>)
    <3> DEFINE c == Bytes(x)
               td2 == << >> \o Tail(todo)
               n == Top.n
    <3>1. /\ lenEnd \in Ends /\ got \in Seq(Told) /\ todo \in Seq(Frames) /\ Tail(todo) \in Seq(Resting)
          /\ << >> \in Seq(Resting)
      BY <1>2 DEF TypeInv
    <3>2. HeldBy(lenEnd, todo, "front") = LenAt(lenEnd, "front", n)
          /\ HeldBy(lenEnd, todo, "back") = LenAt(lenEnd, "back", n)
      BY <1>2, <3>1, HeldCases DEF Top
    <3>3. Len(x) = n /\ c \in Told
      BY <2>1, ToldTypes DEF Cut
    <3>4. /\ FrontPart(lenEnd, c) = LenAt(lenEnd, "front", Len(x)) \o x
          /\ BackPart(lenEnd, c) = LenAt(lenEnd, "back", Len(x))
      BY DEF FrontPart, BackPart, Bytes
    <3>5. rest = x \o (y \o << >>) /\ << >> \in Seq(BitByte)
      <4>1. "front" \in Ends
        BY DEF Ends
      <4>2. QED
        BY <2>1, <4>1, CutAround
    <3>6. << >> \o HeldBy(lenEnd, todo, "back") = HeldBy(lenEnd, todo, "back")
      <4>1. HeldBy(lenEnd, todo, "back") \in Seq(BitByte)
        BY <3>1, HeldCases
      <4>2. QED
        BY <4>1, ConcatEmptySeq
    <3>7. /\ td2 \in Seq(Frames)
          /\ HeldBy(lenEnd, td2, "front") = << >> /\ HeldBy(lenEnd, td2, "back") = << >>
      BY <3>1, RestingHold
    <3> HIDE DEF c, td2, n
    <3>8. /\ FrontPart(lenEnd, c) = HeldBy(lenEnd, todo, "front") \o x
          /\ BackPart(lenEnd, c) = << >> \o HeldBy(lenEnd, todo, "back")
      BY <3>2, <3>3, <3>4, <3>6
    <3>9. Tells(lenEnd, got, todo, x \o (y \o << >>), c, td2, y)
      BY <3>1, <3>3, <3>5, <3>7, <3>8, TellsAll
    <3>10. Consumed(lenEnd, got, todo, rest)
             = Consumed(lenEnd, got \o <<c>>, << >> \o Tail(todo), rest')
      BY <2>3, <3>5, <3>9 DEF Tells, td2
    <3>11. Continue(<< >>, <<c>>)
      BY <2>3 DEF c
    <3>12. QED
      BY <1>2, <3>10, <3>11, ContinueAccounts
  <2>4. QED
    BY <2>1, <2>2, <2>3
<1>5. QED
  BY <1>3, <1>4

\* A tuple has no bytes of its own.
LEMMA TupleAccounts ==
  ASSUME TypeInv, Accounted, EnterTuple
  PROVE  Accounted'
<1> DEFINE fs == Wants(Top.ty.of)
           td2 == fs \o Tail(todo)
           c == Compound
<1>1. /\ Kept /\ pc = "reading" /\ todo # << >> /\ Top.f = "want" /\ Top.ty.t = "tuple" /\ rest' = rest
      /\ Continue(fs, <<c>>)
  BY DEF EnterTuple, AtType, At, Kept, setting, reader
<1>2. fs \in Seq(Resting) /\ c \in Told
  BY <1>1, TopIs, TypeParts, WantsType, ToldTypes
<1>3. /\ lenEnd \in Ends /\ got \in Seq(Told) /\ todo \in Seq(Frames) /\ Tail(todo) \in Seq(Resting)
      /\ rest \in Seq(BitByte) /\ << >> \in Seq(BitByte)
  BY <1>1 DEF TypeInv
<1>4. FrontPart(lenEnd, c) = << >> /\ BackPart(lenEnd, c) = << >>
  BY DEF FrontPart, BackPart, Compound
<1> HIDE DEF fs, c
<1>5. /\ td2 \in Seq(Frames)
      /\ HeldBy(lenEnd, td2, "front") = << >> /\ HeldBy(lenEnd, td2, "back") = << >>
  BY <1>2, <1>3, RestingHold
<1>6. HeldBy(lenEnd, todo, "front") = << >> /\ HeldBy(lenEnd, todo, "back") = << >>
  BY <1>1, <1>3, HeldCases DEF Top
<1>7. /\ FrontPart(lenEnd, c) = HeldBy(lenEnd, todo, "front") \o << >>
      /\ BackPart(lenEnd, c) = << >> \o HeldBy(lenEnd, todo, "back")
  BY <1>3, <1>4, <1>6, ConcatEmptySeq
<1> HIDE DEF td2
<1>8. Tells(lenEnd, got, todo, << >> \o (rest \o << >>), c, td2, rest)
  BY <1>2, <1>3, <1>5, <1>7, TellsAll
<1>9. << >> \o (rest \o << >>) = rest
  BY <1>3, ConcatEmptySeq
<1>10. Consumed(lenEnd, got, todo, rest) = Consumed(lenEnd, got \o <<c>>, fs \o Tail(todo), rest')
  BY <1>1, <1>8, <1>9 DEF Tells, td2
<1>11. QED
  BY <1>1, <1>10, ContinueAccounts

\* Nothing is read between two elements.
LEMMA NothingRead ==
  ASSUME TypeInv, todo # << >>, Top.f \in {"want", "elems"}, NEW frames \in Seq(Resting)
  PROVE  Consumed(lenEnd, got, todo, rest)
           = Consumed(lenEnd, got \o << >>, frames \o Tail(todo), rest)
<1>1. /\ lenEnd \in Ends /\ got \in Seq(Told) /\ todo \in Seq(Frames) /\ Tail(todo) \in Seq(Resting)
  BY DEF TypeInv
<1>2. HeldBy(lenEnd, todo, "front") = << >> /\ HeldBy(lenEnd, todo, "back") = << >>
  BY <1>1, HeldCases DEF Top
<1> DEFINE td2 == frames \o Tail(todo)
<1>3. HeldBy(lenEnd, td2, "front") = << >> /\ HeldBy(lenEnd, td2, "back") = << >>
  BY <1>1, RestingHold
<1> HIDE DEF td2
<1>4. got \o << >> = got
  BY <1>1, ConcatEmptySeq
<1>5. Consumed(lenEnd, got, todo, rest) = Consumed(lenEnd, got, td2, rest)
  BY <1>2, <1>3, Zenon DEF Consumed
<1>6. QED
  BY <1>4, <1>5 DEF td2

\* A next element reads nothing itself.
LEMMA ElementAccounts ==
  ASSUME TypeInv, Accounted, NextElement
  PROVE  Accounted'
<1> DEFINE fr == Frame("elems", Top.ty, Top.n - 1, Top.first)
<1>1. ElementDoes
  BY ElementIs
<1>2. /\ Kept /\ pc = "reading" /\ todo # << >> /\ Top.f = "elems" /\ rest' = rest
      /\ Top.ty.t \in {"seq", "map"} /\ Top.ty.of \in Seq(Types)
  BY <1>1 DEF ElementDoes, NextElement, At
<1>3. CASE Top.n = 0 /\ Continue(<< >>, << >>)
  <2>1. << >> \in Seq(Resting)
    BY EmptySeq
  <2>2. Consumed(lenEnd, got, todo, rest) = Consumed(lenEnd, got \o << >>, << >> \o Tail(todo), rest')
    BY <1>2, <2>1, NothingRead
  <2>3. QED
    BY <1>2, <1>3, <2>2, ContinueAccounts
<1>4. CASE Top.n > 0 /\ Continue(Append(Wants(Top.ty.of), fr), << >>)
  <2>1. Top.ty \in Types /\ Top.first \in BitByte /\ Top.n \in Nat /\ Top.n <= Huge
    BY <1>2, TopIs
  <2>2. Top.n - 1 \in 0..Huge
    BY <1>4, <2>1, HugeType, SMT
  <2>3. fr \in Resting
    BY <1>2, <2>1, <2>2, FrameTypes
  <2>4. Wants(Top.ty.of) \in Seq(Resting)
    BY <1>2, WantsType
  <2> DEFINE fs == Append(Wants(Top.ty.of), fr)
  <2> HIDE DEF fr
  <2>5. fs \in Seq(Resting)
    BY <2>3, <2>4, AppendProperties
  <2>6. Continue(fs, << >>)
    BY <1>4
  <2> HIDE DEF fs
  <2>7. Consumed(lenEnd, got, todo, rest) = Consumed(lenEnd, got \o << >>, fs \o Tail(todo), rest')
    BY <1>2, <2>5, NothingRead
  <2>8. QED
    BY <1>2, <2>6, <2>7, ContinueAccounts
<1>5. QED
  BY <1>1, <1>3, <1>4 DEF ElementDoes

\* A visitor that stops early reads nothing.
LEMMA StopAccounts ==
  ASSUME TypeInv, Accounted, StopEarly
  PROVE  Accounted'
<1>1. /\ Kept /\ pc = "reading" /\ todo # << >> /\ Top.f = "elems" /\ rest' = rest
      /\ Continue(<< >>, << >>)
  BY DEF StopEarly, At, Kept, setting, reader
<1>2. << >> \in Seq(Resting)
  BY EmptySeq
<1>3. Consumed(lenEnd, got, todo, rest) = Consumed(lenEnd, got \o << >>, << >> \o Tail(todo), rest')
  BY <1>1, <1>2, NothingRead
<1>4. QED
  BY <1>1, <1>3, ContinueAccounts

\* Refusing a type reads nothing.
LEMMA RefuseAccounts ==
  ASSUME TypeInv, Accounted, Refuse
  PROVE  Accounted'
<1>1. /\ Kept /\ pc = "reading" /\ rest' = rest /\ Top.ty.t \in {"any", "identifier", "ignored"}
  BY DEF Refuse, AtType, At, Kept, setting, reader
<1>2. PICK err : FailWith(err)
  BY DEF Refuse
<1>3. QED
  BY <1>1, <1>2, FailAccounts

\* Nothing of the input of a new deserializer is consumed.
LEMMA OpenAccounts ==
  ASSUME TypeInv, Open
  PROVE  Accounted'
<1> DEFINE td == <<Want(sample.ty)>>
<1>1. /\ lenEnd \in Ends /\ order \in Orders /\ sample.ty \in Types /\ got = << >>
      /\ input \in Seq(BitByte)
  BY SampleType DEF TypeInv, Open
<1>2. /\ lenEnd' = lenEnd /\ order' = order /\ input' = input /\ got' = got
      /\ rest' = InOrder(input) /\ todo' = td
  BY DEF Open, setting
<1>3. InOrder(input) \in Seq(BitByte) /\ InOrder(input)' = InOrder(input)
  BY <1>1, <1>2, InOrderTwice DEF InOrder
<1>4. HeldBy(lenEnd, td, "front") = << >> /\ HeldBy(lenEnd, td, "back") = << >>
  <2>1. td \in Seq(Frames) /\ Head(td).f = "want"
    BY <1>1, WantType, RestingIs
  <2>2. QED
    BY <1>1, <2>1, HeldCases
<1>5. FrontOf(lenEnd, << >>) = << >> /\ BackOf(lenEnd, << >>) = << >>
  BY RecordEmpty
<1> HIDE DEF td
<1>6. Consumed(lenEnd, << >>, td, InOrder(input)) = Whole(<< >>, << >>, InOrder(input), << >>, << >>)
  BY <1>4, <1>5, Zenon DEF Consumed
<1>7. ASSUME NEW r \in Seq(BitByte) PROVE Whole(<< >>, << >>, r, << >>, << >>) = r
  <2>1. << >> \o << >> = << >> /\ r \o << >> = r /\ << >> \o r = r
    BY <1>7, ConcatEmptySeq, EmptySeq
  <2>2. QED
    BY <2>1, Zenon DEF Whole
<1>8. InOrder(input)' = Consumed(lenEnd', got', todo', rest')
  BY <1>1, <1>2, <1>3, <1>6, <1>7
<1>9. QED
  BY <1>8 DEF Accounted

\* A finished deserializer has consumed what it had.
LEMMA FinishAccounts ==
  ASSUME TypeInv, Accounted, Finish
  PROVE  Accounted'
<1>1. /\ lenEnd' = lenEnd /\ order' = order /\ debug' = debug /\ loose' = loose /\ input' = input
      /\ got' = got /\ rest' = rest /\ todo' = todo /\ pc = "reading"
  BY DEF Finish, setting, reader
<1>2. ~FailedAfterReading
  BY <1>1 DEF TypeInv, FailedAfterReading
<1>3. InOrder(input)' = InOrder(input)
  BY <1>1 DEF InOrder
<1>4. QED
  BY <1>1, <1>2, <1>3 DEF Accounted

\* The invariant is inductive.
LEMMA NextAccounts ==
  ASSUME TypeInv, Accounted, [Next]_vars
  PROVE  Accounted'
<1>1. CASE Deliver
  <2>1. pc' = "open"
    BY <1>1 DEF Deliver
  <2>2. QED
    BY <2>1 DEF Accounted
<1>2. CASE Step
  BY <1>2, OpenAccounts, PrimitiveAccounts, OptionAccounts, NumberFirstAccounts,
     NumberOthersAccounts, DataAccounts, TupleAccounts, ElementAccounts, StopAccounts,
     RefuseAccounts, FinishAccounts DEF Step
<1>3. CASE UNCHANGED vars
  <2>1. /\ lenEnd' = lenEnd /\ order' = order /\ debug' = debug /\ loose' = loose /\ input' = input
        /\ got' = got /\ rest' = rest /\ todo' = todo /\ pc' = pc /\ outcome' = outcome
    BY <1>3 DEF vars, setting, reader
  <2>2. InOrder(input)' = InOrder(input)
    BY <2>1 DEF InOrder
  <2>3. FailedAfterReading' <=> FailedAfterReading
    BY <2>1 DEF FailedAfterReading, Top
  <2>4. QED
    BY <2>1, <2>2, <2>3 DEF Accounted
<1>4. QED
  BY <1>1, <1>2, <1>3 DEF Next

\* It says what EveryByteAccounted says.
LEMMA AccountedIs ==
  ASSUME TypeInv, Accounted
  PROVE  EveryByteAccounted
<1>1. /\ lenEnd \in Ends /\ got \in Seq(Told) /\ todo \in Seq(Frames) /\ rest \in Seq(BitByte)
  BY DEF TypeInv
<1>2. Held("front") = HeldBy(lenEnd, todo, "front") /\ Held("back") = HeldBy(lenEnd, todo, "back")
  BY <1>1, HeldIs
<1> DEFINE f == FrontOf(lenEnd, got)
           h == Held("front")
           k == Held("back")
           b == BackOf(lenEnd, got)
<1>3. f \in Seq(BitByte) /\ b \in Seq(BitByte) /\ h \in Seq(BitByte) /\ k \in Seq(BitByte)
  BY <1>1, <1>2, RecordType, HeldCases
<1>4. Consumed(lenEnd, got, todo, rest) = Whole(f, h, rest, k, b)
  BY <1>2 DEF Consumed
<1> HIDE DEF f, h, k, b
<1>5. WholeFlat(f, h, rest, k, b)
  BY <1>1, <1>3, WholeIs
<1>6. Consumed(lenEnd, got, todo, rest) = (((f \o h) \o rest) \o k) \o b
  BY <1>4, <1>5, Zenon DEF WholeFlat
<1>7. QED
  BY <1>6 DEF Accounted, EveryByteAccounted, f, h, k, b

\* Every byte is accounted for: for every input, with debug assertions, the bytes
\* consumed are the encoding of what the visitors were told, so what is accepted
\* is the only record of its value, and what fails leaves what it looked at.
THEOREM EveryByteIsAccounted == Spec => []EveryByteAccounted
<1>1. Init => Accounted
  BY DEF Init, Accounted
<1>2. TypeInv /\ Accounted /\ [Next]_vars => Accounted'
  BY NextAccounts
<1>3. TypeInv /\ Accounted => EveryByteAccounted
  BY AccountedIs
<1>4. QED
  BY <1>1, <1>2, <1>3, TypeInvariant, PTL DEF Spec

-----------------------------------------------------------------------------

(* A record is read back.                                                  *)

\* No function at work holds anything.
Bare(td) == td = << >> \/ Head(td).f \in {"want", "elems"}

\* What is left, with what is missing of it, is what is to come after k calls of
\* a value: the rest of its record, or that of the number or data at hand.
Comes(le, calls, ex, k, td, r, m) ==
  /\ Bare(td) => r \o m = Expect(le, calls, ex, k)
  /\ td # << >> /\ Head(td).f = "others" =>
       \E others \in Seq(BitByte) :
         /\ Encoding(NumberType(Head(td).ty), WordOf(NumberType(Head(td).ty), NumberOf(calls[k + 1])))
              = <<Head(td).first>> \o others
         /\ r \o m = IF Side(le, Head(td).ty) = "front"
                     THEN others \o (DataOf(calls[k + 1]) \o Expect(le, calls, ex, k + 1))
                     ELSE (DataOf(calls[k + 1]) \o Expect(le, calls, ex, k + 1)) \o others
  /\ td # << >> /\ Head(td).f = "data" =>
       /\ Head(td).n = Len(calls[k + 1].bytes)
       /\ r \o m = calls[k + 1].bytes \o Expect(le, calls, ex, k + 1)

\* The visitors were told the first k calls of the value, and the functions at work
\* read the types of the others.
FollowsAt(le, s, ex, k, g, td, r, m) ==
  /\ k \in 0..Len(s.calls)
  /\ g = SubSeq(s.calls, 1, k)
  /\ Unroll(td) = Wanted(s)[k]
  /\ Comes(le, s.calls, ex, k, td, r, m)

\* After some number of calls.
Follows(le, s, ex, g, td, r, m) == \E k \in Nat : FollowsAt(le, s, ex, k, g, td, r, m)

\* The input without what is missing at its end: with all lengths at the front, a
\* record may be cut off.
Missing(m) ==
  /\ InOrder(input) \o m = Expect(lenEnd, sample.calls, extra, 0)
  /\ m # << >> => lenEnd = "front" /\ extra = << >>

\* How the reading of a record ends.
Ended(m) ==
  IF m = << >> THEN outcome = "Ok" /\ got = sample.calls /\ rest = extra
  ELSE outcome = "PrematureEndOfInput"

\* The invariant: the reading follows the value, to its end or to where it was cut
\* off.
ReadInv ==
  Readable(sample) /\ ~early =>
    \A m \in Seq(BitByte) :
      Missing(m) =>
        /\ pc = "reading" => Follows(lenEnd, sample, extra, got, todo, rest, m)
        /\ pc = "done" => Ended(m)

\* The next call of the value, and what comes after it.
NextCall(le, s, ex, k, td, c, z) ==
  /\ k \in 0..Len(s.calls) - 1 /\ c = s.calls[k + 1] /\ c \in Told /\ Begun(Head(td).ty, c)
  /\ z = Expect(le, s.calls, ex, k + 1) /\ z \in Seq(BitByte)
  /\ Expect(le, s.calls, ex, k) = FrontPart(le, c) \o (z \o BackPart(le, c))
  /\ Wanted(s)[k + 1] = PartsOf(Head(td).ty, c) \o Unroll(Tail(td))

\* A function that reads a value of a type reads the next call of the value.
LEMMA AtWant ==
  ASSUME NEW le \in Ends, NEW s \in Sample, Readable(s), NEW ex \in Seq(BitByte),
         NEW td \in Seq(Frames), td # << >>, Head(td).f # "elems",
         NEW k \in 0..Len(s.calls), Unroll(td) = Wanted(s)[k]
  PROVE  \E c, z : NextCall(le, s, ex, k, td, c, z)
<1> DEFINE n == Len(s.calls)
           ty == Head(td).ty
           ts == Unroll(Tail(td))
           c == s.calls[k + 1]
           z == Expect(le, s.calls, ex, k + 1)
<1>1. s.calls \in Seq(Told) /\ n \in Nat
  BY SampleType, LenProperties
<1>2. /\ Head(td) \in Frames /\ Tail(td) \in Seq(Frames)
      /\ Unroll(td) = TypesOf(Head(td)) \o ts
  BY UnrollTop
<1>3. ty \in Types /\ TypesOf(Head(td)) = <<ty>>
  BY <1>2 DEF Frames, TypesOf
<1>4. ts \in Seq(Types)
  BY <1>2, UnrolledType
<1> DEFINE w == Wanted(s)[k]
<1>5. w = <<ty>> \o ts
  BY <1>2, <1>3
<1> HIDE DEF ty, ts, w
<1>6. w # << >> /\ Head(w) = ty /\ Tail(w) = ts
  <2>1. w \in Seq(Types) /\ Len(w) = 1 + Len(ts) /\ Len(ts) \in Nat /\ w[1] = ty
        /\ \A i \in 1..Len(ts) : w[i + 1] = ts[i]
    BY <1>3, <1>4, <1>5, LenProperties
  <2>2. w # << >> /\ Head(w) = ty
    BY <2>1
  <2>3. /\ Tail(w) \in Seq(Types) /\ Len(Tail(w)) = Len(ts)
        /\ \A i \in 1..Len(Tail(w)) : Tail(w)[i] = ts[i]
    BY <2>1, <2>2
  <2>4. Tail(w) = ts
    BY <1>4, <2>3, SeqEqual
  <2>5. QED
    BY <2>2, <2>4
<1>7. k \in 0..n - 1
  <2>1. Wanted(s)[n] = << >>
    BY DEF Readable
  <2>2. k # n
    BY <1>6, <2>1 DEF w
  <2>3. QED
    BY <1>1, <2>2
<1>8. k + 1 \in 1..n /\ (k + 1) - 1 = k /\ k + 1 \in 0..n
  BY <1>1, <1>7
<1>9. Fits(w, c)
  <2>1. \A j \in 1..n : Fits(Wanted(s)[j - 1], s.calls[j])
    BY DEF Readable
  <2>2. Fits(Wanted(s)[(k + 1) - 1], c)
    BY <1>8, <2>1
  <2>3. QED
    BY <1>8, <2>2 DEF w
<1>10. Begun(ty, c)
  BY <1>6, <1>9 DEF Fits
<1>11. Wanted(s)[k + 1] = PartsOf(ty, c) \o ts
  <2>1. Wanted(s)[k + 1] = Then(Wanted(s)[(k + 1) - 1], c)
    BY <1>8, WantedIs
  <2>2. Wanted(s)[k + 1] = Then(w, c)
    BY <1>8, <2>1 DEF w
  <2>3. Then(w, c) = PartsOf(Head(w), c) \o Tail(w)
    BY <1>9 DEF Then
  <2>4. QED
    BY <1>6, <2>2, <2>3
<1>12. c \in Told
  BY <1>1, <1>8, ElementOfSeq
<1>13. Continues(le, s.calls, ex, k)
  BY <1>1, <1>7, ExpectIs
<1>14. NextCall(le, s, ex, k, td, c, z)
  BY <1>7, <1>10, <1>11, <1>12, <1>13 DEF NextCall, Continues, ty, ts
<1>15. QED
  BY <1>14

\* What a step leads to: the end of the input too early, if something is missing, or
\* a state that follows the value.
Onward(m) ==
  \/ m # << >> /\ rest' = rest /\ FailWith("PrematureEndOfInput")
  \/ pc' = pc /\ Follows(lenEnd, sample, extra, got', todo', rest', m)

\* A step that calls functions which read the same types.
LEMMA Rearranged ==
  ASSUME TypeInv, NEW m \in Seq(BitByte), NEW k \in Nat,
         FollowsAt(lenEnd, sample, extra, k, got, todo, rest, m), todo # << >>,
         NEW frames \in Seq(Frames), Unroll(frames) = TypesOf(Top), Continue(frames, << >>),
         Comes(lenEnd, sample.calls, extra, k, frames \o Tail(todo), rest', m)
  PROVE  Onward(m)
<1> DEFINE td2 == frames \o Tail(todo)
<1>1. todo' = td2 /\ got' = got \o << >> /\ pc' = pc
  BY DEF Continue
<1>2. todo \in Seq(Frames) /\ got \in Seq(Told) /\ Top = Head(todo)
  BY DEF TypeInv, Top
<1>3. got' = got
  BY <1>1, <1>2, ConcatEmptySeq
<1>4. Tail(todo) \in Seq(Frames) /\ Unroll(todo) = TypesOf(Top) \o Unroll(Tail(todo))
  BY <1>2, UnrollTop
<1>5. UnrollsBoth(frames, Tail(todo))
  BY <1>4, UnrollConcat
<1>6. Unroll(td2) = Unroll(todo)
  BY <1>4, <1>5, Zenon DEF UnrollsBoth
<1> HIDE DEF td2
<1>7. Comes(lenEnd, sample.calls, extra, k, td2, rest', m)
  BY DEF td2
<1>8. FollowsAt(lenEnd, sample, extra, k, got', todo', rest', m)
  BY <1>1, <1>3, <1>6, <1>7 DEF FollowsAt
<1>9. QED
  BY <1>1, <1>8 DEF Onward, Follows

\* A step that tells the next call, and calls functions for its parts.
LEMMA ToldNext ==
  ASSUME TypeInv, NEW m \in Seq(BitByte), NEW k \in Nat,
         FollowsAt(lenEnd, sample, extra, k, got, todo, rest, m), todo # << >>,
         NEW c, NEW z, NextCall(lenEnd, sample, extra, k, todo, c, z),
         NEW frames \in Seq(Resting), Unroll(frames) = PartsOf(Top.ty, c),
         Continue(frames, <<c>>), rest' \o m = z
  PROVE  Onward(m)
<1> DEFINE td2 == frames \o Tail(todo)
           calls == sample.calls
<1>1. todo' = td2 /\ got' = got \o <<c>> /\ pc' = pc
  BY DEF Continue
<1>2. /\ todo \in Seq(Frames) /\ Tail(todo) \in Seq(Resting) /\ Top = Head(todo)
      /\ calls \in Seq(Told) /\ lenEnd \in Ends
  BY SampleType DEF TypeInv, Top
<1>3. frames \in Seq(Frames) /\ Tail(todo) \in Seq(Frames)
  BY <1>2, RestingIs
<1>4. UnrollsBoth(frames, Tail(todo))
  BY <1>3, UnrollConcat
<1>5. /\ k \in 0..Len(calls) - 1 /\ c = calls[k + 1] /\ c \in Told
      /\ z = Expect(lenEnd, calls, extra, k + 1)
      /\ Wanted(sample)[k + 1] = PartsOf(Top.ty, c) \o Unroll(Tail(todo))
  BY <1>2 DEF NextCall
<1>6. Unroll(td2) = Wanted(sample)[k + 1]
  BY <1>4, <1>5, Zenon DEF UnrollsBoth
<1>7. Len(calls) \in Nat
  BY <1>2, LenProperties
<1>8. k + 1 \in 0..Len(calls) /\ k < Len(calls) /\ k + 1 \in Nat
  BY <1>5, <1>7
<1>9. got = SubSeq(calls, 1, k)
  BY DEF FollowsAt
<1>10. got' = SubSeq(calls, 1, k + 1)
  <2>1. /\ SubSeq(calls, 1, k) \in Seq(Told)
        /\ SubSeq(calls, 1, k + 1) = Append(SubSeq(calls, 1, k), calls[k + 1])
    BY <1>2, <1>8, GrowFront
  <2>2. got \in Seq(Told) /\ SubSeq(calls, 1, k + 1) = Append(got, c)
    BY <1>5, <1>9, <2>1
  <2>3. Append(got, c) = got \o <<c>>
    <3>1. ASSUME NEW g \in Seq(Told), NEW x \in Told PROVE Append(g, x) = g \o <<x>>
      OBVIOUS
    <3>2. QED
      BY <1>5, <2>2, <3>1
  <2>4. QED
    BY <1>1, <2>2, <2>3
<1>11. Bare(td2) /\ ~(td2 # << >> /\ Head(td2).f = "others") /\ ~(td2 # << >> /\ Head(td2).f = "data")
  BY <1>2, RestingHold DEF Bare
<1> HIDE DEF td2
<1>12. Comes(lenEnd, calls, extra, k + 1, td2, rest', m)
  BY <1>5, <1>11 DEF Comes
<1>13. FollowsAt(lenEnd, sample, extra, k + 1, got', todo', rest', m)
  BY <1>1, <1>6, <1>8, <1>10, <1>12 DEF FollowsAt
<1>14. QED
  BY <1>1, <1>8, <1>13 DEF Onward, Follows

\* What is read from an end is what is to come there, unless it is missing.
Meets(end, n, m, x0, z) ==
  /\ Lacks(n) => m # << >>
  /\ \A x, y \in Seq(BitByte) : Cut(end, n, x, y) => x = x0 /\ y \o m = z

\* Meets holds of what is to come; only at the front may something be missing.
LEMMA ReadsMeet ==
  ASSUME rest \in Seq(BitByte), NEW end \in Ends, NEW m \in Seq(BitByte),
         NEW x0 \in Seq(BitByte), NEW z \in Seq(BitByte), NEW n, n = Len(x0),
         end = "front" => rest \o m = x0 \o z,
         end = "back" => m = << >> /\ rest \o m = z \o x0
  PROVE  Meets(end, n, m, x0, z)
<1>1. ASSUME Lacks(n) PROVE m # << >>
  <2>1. Len(rest) < Len(x0)
    BY <1>1 DEF Lacks
  <2>2. CASE end = "front"
    BY <2>1, <2>2, IsMissing
  <2>3. CASE end = "back"
    BY <2>1, <2>3, IsMissing
  <2>4. QED
    BY <2>2, <2>3 DEF Ends
<1>2. ASSUME NEW x \in Seq(BitByte), NEW y \in Seq(BitByte), Cut(end, n, x, y)
      PROVE  x = x0 /\ y \o m = z
  <2>1. /\ Len(x) = Len(x0)
        /\ end = "front" => rest = x \o y
        /\ end = "back" => rest = y \o x
    BY <1>2 DEF Cut
  <2>2. CASE end = "front"
    <3>1. FrontIsKnown(y, x, m, x0, z)
      BY KnownFront
    <3>2. (x \o y) \o m = x0 \o z
      BY <2>1, <2>2
    <3>3. QED
      BY <2>1, <3>1, <3>2, Zenon DEF FrontIsKnown
  <2>3. CASE end = "back"
    <3>1. BackIsKnown(y, x, x0, z)
      BY KnownBack
    <3>2. m = << >> /\ rest \o m = z \o x0 /\ rest = y \o x
      BY <2>1, <2>3
    <3>3. rest \o << >> = rest /\ y \o << >> = y
      BY NothingAdded
    <3>4. y \o x = z \o x0
      BY <3>2, <3>3, Zenon
    <3>5. x = x0 /\ y = z
      BY <2>1, <3>1, <3>4, Zenon DEF BackIsKnown
    <3>6. QED
      BY <3>2, <3>3, <3>5, Zenon
  <2>4. QED
    BY <2>2, <2>3 DEF Ends
<1>3. QED
  BY <1>1, <1>2 DEF Meets

\* What is to come when a value is to be read.
ComesNext(m, c, z) == rest \o m = FrontPart(lenEnd, c) \o (z \o BackPart(lenEnd, c))

\* It begins with the next call.
LEMMA WantComes ==
  ASSUME TypeInv, Readable(sample), NEW m \in Seq(BitByte), NEW k \in Nat,
         FollowsAt(lenEnd, sample, extra, k, got, todo, rest, m), todo # << >>, Top.f = "want"
  PROVE  \E c, z : NextCall(lenEnd, sample, extra, k, todo, c, z) /\ ComesNext(m, c, z)
<1>1. /\ lenEnd \in Ends /\ sample \in Sample /\ extra \in Seq(BitByte) /\ todo \in Seq(Frames)
      /\ Top = Head(todo)
  BY DEF TypeInv, Top
<1>2. k \in 0..Len(sample.calls) /\ Unroll(todo) = Wanted(sample)[k]
  BY DEF FollowsAt
<1>3. PICK c, z : NextCall(lenEnd, sample, extra, k, todo, c, z)
  BY <1>1, <1>2, AtWant
<1>4. rest \o m = Expect(lenEnd, sample.calls, extra, k)
  BY <1>1 DEF FollowsAt, Comes, Bare
<1>5. ComesNext(m, c, z)
  BY <1>3, <1>4 DEF NextCall, ComesNext
<1>6. QED
  BY <1>3, <1>5

\* All bytes of a call that is at the front come first.
LEMMA FrontComes ==
  ASSUME TypeInv, NEW m \in Seq(BitByte), NEW k, NEW c, NEW z,
         NextCall(lenEnd, sample, extra, k, todo, c, z), ComesNext(m, c, z),
         NEW x0 \in Seq(BitByte), FrontPart(lenEnd, c) = x0, BackPart(lenEnd, c) = << >>,
         NEW n, n = Len(x0)
  PROVE  Meets("front", n, m, x0, z)
<1>1. z \in Seq(BitByte)
  BY DEF NextCall
<1>2. z \o << >> = z
  BY <1>1, NothingAdded
<1>3. rest \o m = x0 \o z
  BY <1>2, Zenon DEF ComesNext
<1>4. rest \in Seq(BitByte) /\ "front" \in Ends
  BY DEF TypeInv, Ends
<1>5. QED
  BY <1>1, <1>3, <1>4, ReadsMeet

\* A primitive is read as it was written.
LEMMA PrimitiveFollows ==
  ASSUME TypeInv, Readable(sample), NEW m \in Seq(BitByte), NEW k \in Nat,
         FollowsAt(lenEnd, sample, extra, k, got, todo, rest, m), ReadPrimitive
  PROVE  Onward(m)
<1> DEFINE ty == Top.ty
<1>1. PrimitiveDoes
  BY PrimitiveIs
<1>2. todo # << >> /\ Top.f = "want" /\ ty.t \in {"fixed", "bool", "char"} /\ Top = Head(todo)
  BY DEF ReadPrimitive, AtType, At, Top
<1>3. PICK c, z : NextCall(lenEnd, sample, extra, k, todo, c, z) /\ ComesNext(m, c, z)
  BY <1>2, WantComes
<1>4. ty \in Types /\ c \in Told /\ Begun(ty, c)
  BY <1>2, <1>3, TopIs DEF NextCall
<1>5. c.op = "prim"
  BY <1>2, <1>4, BegunKinds
<1>6. c.bytes \in Seq(BitByte) /\ c = Prim(c.bytes) /\ PartsOf(ty, c) = << >>
  BY <1>4, <1>5, ToldCases, PartsAre
<1>7. Len(c.bytes) = ty.size /\ (ty.t = "char" => IsChar(c.bytes))
  <2>1. CASE ty.t = "bool"
    <3>1. ty.size = 1
      BY <1>4, <2>1, TypeParts
    <3>2. c = Prim(<<ByteOf(0)>>) \/ c = Prim(<<ByteOf(1)>>)
      BY <1>4, <2>1 DEF Begun
    <3>3. c.bytes = <<ByteOf(0)>> \/ c.bytes = <<ByteOf(1)>>
      BY <3>2 DEF Prim
    <3>4. QED
      BY <2>1, <3>1, <3>3
  <2>2. CASE ty.t \in {"fixed", "char"}
    BY <1>4, <2>2 DEF Begun
  <2>3. QED
    BY <1>2, <2>1, <2>2
<1>8. ty.t = "bool" => c.bytes = <<ByteOf(0)>> \/ c.bytes = <<ByteOf(1)>>
  <2>1. ASSUME ty.t = "bool" PROVE c = Prim(<<ByteOf(0)>>) \/ c = Prim(<<ByteOf(1)>>)
    BY <1>4, <2>1 DEF Begun
  <2>2. QED
    BY <2>1 DEF Prim
<1>9. FrontPart(lenEnd, c) = c.bytes /\ BackPart(lenEnd, c) = << >>
  BY <1>5 DEF FrontPart, BackPart
<1>10. Meets("front", ty.size, m, c.bytes, z)
  BY <1>3, <1>6, <1>7, <1>9, FrontComes
<1>11. CASE Lacks(ty.size) /\ FailWith("PrematureEndOfInput")
  BY <1>10, <1>11 DEF Meets, Lacks, Onward
<1>12. CASE ~(Lacks(ty.size) /\ FailWith("PrematureEndOfInput"))
  <2>1. PICK x \in Seq(BitByte), y \in Seq(BitByte) :
          /\ Cut("front", ty.size, x, y) /\ rest' = y
          /\ \/ ty.t = "char" /\ ~IsChar(x)
             \/ \E b \in Seq(BitByte) :
                  /\ Continue(<< >>, <<Prim(b)>>)
                  /\ ty.t # "bool" \/ x = <<ByteOf(0)>> \/ x = <<ByteOf(1)>> => b = x
    BY <1>1, <1>12 DEF PrimitiveDoes
  <2>2. x = c.bytes /\ rest' \o m = z
    BY <1>10, <2>1 DEF Meets
  <2>3. PICK b \in Seq(BitByte) :
          /\ Continue(<< >>, <<Prim(b)>>)
          /\ ty.t # "bool" \/ x = <<ByteOf(0)>> \/ x = <<ByteOf(1)>> => b = x
    BY <1>7, <2>1, <2>2
  <2>4. b = c.bytes
    BY <1>8, <2>2, <2>3
  <2>5. Continue(<< >>, <<c>>)
    BY <1>6, <2>3, <2>4
  <2>6. << >> \in Seq(Resting) /\ Unroll(<< >>) = PartsOf(ty, c)
    BY <1>6, UnrollEmpty, EmptySeq
  <2>7. QED
    BY <1>2, <1>3, <2>2, <2>5, <2>6, ToldNext
<1>13. QED
  BY <1>11, <1>12

\* The tag of an option says whether there is a value.
LEMMA OptionFollows ==
  ASSUME TypeInv, Readable(sample), NEW m \in Seq(BitByte), NEW k \in Nat,
         FollowsAt(lenEnd, sample, extra, k, got, todo, rest, m), ReadOption
  PROVE  Onward(m)
<1> DEFINE ty == Top.ty
<1>1. OptionDoes
  BY OptionIs
<1>2. todo # << >> /\ Top.f = "want" /\ ty.t = "option" /\ Top = Head(todo)
  BY DEF ReadOption, AtType, At, Top
<1>3. PICK c, z : NextCall(lenEnd, sample, extra, k, todo, c, z) /\ ComesNext(m, c, z)
  BY <1>2, WantComes
<1>4. ty \in Types /\ c \in Told /\ Begun(ty, c) /\ ty.of \in Seq(Types)
  BY <1>2, <1>3, TopIs, TypeParts DEF NextCall
<1>5. c = None \/ c = Some
  <2>1. c.op \in {"none", "some"}
    BY <1>2, <1>4, BegunKinds
  <2>2. QED
    BY <1>4, <2>1, ToldCases
<1>6. /\ ByteOf(0) # ByteOf(1)
      /\ <<ByteOf(0)>> \in Seq(BitByte) /\ <<ByteOf(1)>> \in Seq(BitByte)
      /\ Len(<<ByteOf(0)>>) = 1 /\ Len(<<ByteOf(1)>>) = 1
  <2>1. ByteOf(0) \in BitByte /\ ByteOf(1) \in BitByte /\ ByteOf(0) # ByteOf(1)
    BY ValueOfByte
  <2>2. QED
    BY <2>1, Single
<1>7. <<ByteOf(0)>> # <<ByteOf(1)>>
  BY <1>6
<1> DEFINE x0 == IF c = None THEN <<ByteOf(0)>> ELSE <<ByteOf(1)>>
<1>8. x0 \in Seq(BitByte) /\ Len(x0) = 1
  BY <1>6
<1>9. None # Some /\ None.op = "none" /\ Some.op = "some"
  BY DEF None, Some
<1>10. FrontPart(lenEnd, c) = x0 /\ BackPart(lenEnd, c) = << >>
  BY <1>5, <1>9 DEF FrontPart, BackPart
<1>11. /\ c = None => x0 = <<ByteOf(0)>> /\ PartsOf(ty, c) = << >>
       /\ c = Some => x0 = <<ByteOf(1)>> /\ PartsOf(ty, c) = ty.of
  BY <1>4, <1>9, PartsAre
<1> HIDE DEF x0
<1>12. Meets("front", 1, m, x0, z)
  BY <1>3, <1>8, <1>10, FrontComes
<1>13. CASE Lacks(1) /\ FailWith("PrematureEndOfInput")
  BY <1>12, <1>13 DEF Meets, Lacks, Onward
<1>14. CASE ~(Lacks(1) /\ FailWith("PrematureEndOfInput"))
  <2>1. PICK x \in Seq(BitByte), y \in Seq(BitByte) :
          /\ Cut("front", 1, x, y) /\ rest' = y
          /\ \/ x = <<ByteOf(0)>> /\ Continue(<< >>, <<None>>)
             \/ x = <<ByteOf(1)>> /\ Continue(Wants(ty.of), <<Some>>)
             \/ x # <<ByteOf(0)>> /\ x # <<ByteOf(1)>>
    BY <1>1, <1>14 DEF OptionDoes
  <2>2. x = x0 /\ rest' \o m = z
    BY <1>12, <2>1 DEF Meets
  <2>3. CASE c = None
    <3>1. Continue(<< >>, <<c>>)
      BY <1>7, <1>11, <2>1, <2>2, <2>3
    <3>2. << >> \in Seq(Resting) /\ Unroll(<< >>) = PartsOf(ty, c)
      BY <1>11, <2>3, UnrollEmpty, EmptySeq
    <3>3. QED
      BY <1>2, <1>3, <2>2, <3>1, <3>2, ToldNext
  <2>4. CASE c = Some
    <3>1. Continue(Wants(ty.of), <<c>>)
      BY <1>7, <1>11, <2>1, <2>2, <2>4
    <3>2. Wants(ty.of) \in Seq(Resting) /\ Unroll(Wants(ty.of)) = PartsOf(ty, c)
      BY <1>4, <1>11, <2>4, WantsType, UnrollWants
    <3>3. QED
      BY <1>2, <1>3, <2>2, <3>1, <3>2, ToldNext
  <2>5. QED
    BY <1>5, <2>3, <2>4
<1>15. QED
  BY <1>13, <1>14

\* The parts of a tuple follow at once.
LEMMA TupleFollows ==
  ASSUME TypeInv, Readable(sample), NEW m \in Seq(BitByte), NEW k \in Nat,
         FollowsAt(lenEnd, sample, extra, k, got, todo, rest, m), EnterTuple
  PROVE  Onward(m)
<1> DEFINE ty == Top.ty
<1>1. /\ todo # << >> /\ Top.f = "want" /\ ty.t = "tuple" /\ Top = Head(todo)
      /\ Continue(Wants(ty.of), <<Compound>>) /\ rest' = rest
  BY DEF EnterTuple, AtType, At, Top, reader
<1>2. PICK c, z : NextCall(lenEnd, sample, extra, k, todo, c, z) /\ ComesNext(m, c, z)
  BY <1>1, WantComes
<1>3. ty \in Types /\ c \in Told /\ Begun(ty, c) /\ ty.of \in Seq(Types) /\ z \in Seq(BitByte)
  BY <1>1, <1>2, TopIs, TypeParts DEF NextCall
<1>4. c = Compound /\ c.op = "compound"
  <2>1. c.op = "compound"
    BY <1>1, <1>3, BegunKinds
  <2>2. QED
    BY <1>3, <2>1, ToldCases
<1>5. FrontPart(lenEnd, c) = << >> /\ BackPart(lenEnd, c) = << >>
  BY <1>4 DEF FrontPart, BackPart
<1>6. z \o << >> = z /\ << >> \o z = z
  BY <1>3, NothingAdded
<1>7. rest' \o m = z
  BY <1>1, <1>2, <1>5, <1>6, Zenon DEF ComesNext
<1>8. Wants(ty.of) \in Seq(Resting) /\ Unroll(Wants(ty.of)) = PartsOf(ty, c)
  BY <1>3, <1>4, WantsType, UnrollWants, PartsAre
<1>9. QED
  BY <1>1, <1>2, <1>4, <1>7, <1>8, ToldNext

\* Elements are read one after another.
LEMMA ElementFollows ==
  ASSUME TypeInv, Readable(sample), NEW m \in Seq(BitByte), NEW k \in Nat,
         FollowsAt(lenEnd, sample, extra, k, got, todo, rest, m), NextElement
  PROVE  Onward(m)
<1> DEFINE tys == Top.ty.of
           n == Top.n
<1>1. ElementDoes
  BY ElementIs
<1>2. todo # << >> /\ Top.f = "elems" /\ Top = Head(todo)
  BY DEF NextElement, At, Top
<1>3. /\ Top.ty \in Types /\ n \in Nat /\ n <= Huge /\ Top.first \in BitByte
      /\ Tail(todo) \in Seq(Resting) /\ tys \in Seq(Types) /\ rest' = rest
      /\ Top.ty.t \in {"seq", "map"} /\ lenEnd \in Ends
  BY <1>1, <1>2, TopIs DEF ElementDoes, TypeInv
<1>4. TypesOf(Top) = Copies(n, tys)
  BY <1>2 DEF TypesOf
<1>5. rest' \o m = Expect(lenEnd, sample.calls, extra, k)
  BY <1>2, <1>3 DEF FollowsAt, Comes, Bare
<1>6. ASSUME NEW frames \in Seq(Resting), Unroll(frames) = TypesOf(Top), Continue(frames, << >>)
      PROVE  Onward(m)
  <2> DEFINE td2 == frames \o Tail(todo)
  <2>1. Bare(td2) /\ ~(td2 # << >> /\ Head(td2).f = "others") /\ ~(td2 # << >> /\ Head(td2).f = "data")
    BY <1>3, <1>6, RestingHold DEF Bare
  <2> HIDE DEF td2
  <2>2. Comes(lenEnd, sample.calls, extra, k, td2, rest', m)
    BY <1>5, <2>1 DEF Comes
  <2>3. frames \in Seq(Frames)
    BY <1>6, RestingIs
  <2>4. QED
    BY <1>2, <1>6, <2>2, <2>3, Rearranged DEF td2
<1>7. CASE n = 0 /\ Continue(<< >>, << >>)
  <2>1. TypesOf(Top) = << >>
    BY <1>3, <1>4, <1>7, CopiesNext
  <2>2. << >> \in Seq(Resting) /\ Unroll(<< >>) = TypesOf(Top)
    BY <2>1, UnrollEmpty, EmptySeq
  <2>3. QED
    BY <1>6, <1>7, <2>2
<1>8. CASE n > 0 /\ Continue(Append(Wants(tys), Frame("elems", Top.ty, n - 1, Top.first)), << >>)
  <2> DEFINE fr == Frame("elems", Top.ty, n - 1, Top.first)
             w == Wants(tys)
  <2>1. n - 1 \in 0..Huge /\ n - 1 \in Nat
    BY <1>3, <1>8, HugeType, SMT
  <2>2. fr \in Resting /\ TypesOf(fr) = Copies(n - 1, tys)
    BY <1>3, <2>1, FrameTypes DEF Frame, TypesOf
  <2>3. w \in Seq(Resting) /\ Unroll(w) = tys
    BY <1>3, WantsType, UnrollWants
  <2> HIDE DEF fr, w
  <2>4. fr \in Frames /\ w \in Seq(Frames)
    BY <2>2, <2>3, RestingIs
  <2>5. <<fr>> \in Seq(Frames) /\ Unroll(<<fr>>) = TypesOf(fr)
    BY <2>4, UnrollOne
  <2>6. UnrollsBoth(w, <<fr>>)
    BY <2>4, <2>5, UnrollConcat
  <2>7. Copies(n, tys) = tys \o Copies(n - 1, tys)
    BY <1>3, <1>8, CopiesNext
  <2>8. Unroll(w \o <<fr>>) = TypesOf(Top)
    BY <1>4, <2>2, <2>3, <2>5, <2>6, <2>7, Zenon DEF UnrollsBoth
  <2>9. Append(w, fr) = w \o <<fr>> /\ Append(w, fr) \in Seq(Resting)
    BY <2>2, <2>3, AppendProperties
  <2>10. Unroll(Append(w, fr)) = TypesOf(Top)
    BY <2>8, <2>9
  <2>11. Continue(Append(w, fr), << >>)
    BY <1>8 DEF w, fr
  <2>12. QED
    BY <1>6, <2>9, <2>10, <2>11
<1>9. QED
  BY <1>1, <1>7, <1>8 DEF ElementDoes

\* No value is of a type that is refused.
LEMMA RefuseFollows ==
  ASSUME TypeInv, Readable(sample), NEW m \in Seq(BitByte), NEW k \in Nat,
         FollowsAt(lenEnd, sample, extra, k, got, todo, rest, m), Refuse
  PROVE  Onward(m)
<1>1. todo # << >> /\ Top.f = "want" /\ Top.ty.t \in {"any", "identifier", "ignored"} /\ Top = Head(todo)
  BY DEF Refuse, AtType, At, Top
<1>2. PICK c, z : NextCall(lenEnd, sample, extra, k, todo, c, z) /\ ComesNext(m, c, z)
  BY <1>1, WantComes
<1>3. Top.ty \in Types /\ c \in Told /\ Begun(Top.ty, c)
  BY <1>1, <1>2, TopIs DEF NextCall
<1>4. QED
  BY <1>1, <1>3, BegunKinds

\* The data of a text or of bytes are read as they were written.
LEMMA DataFollows ==
  ASSUME TypeInv, Readable(sample), NEW m \in Seq(BitByte), NEW k \in Nat,
         FollowsAt(lenEnd, sample, extra, k, got, todo, rest, m), ReadData
  PROVE  Onward(m)
<1> DEFINE ty == Top.ty
<1>1. DataDoes
  BY DataIs
<1>2. todo # << >> /\ Top.f = "data" /\ Top = Head(todo)
  BY DEF ReadData, At, Top
<1>3. ty \in Types /\ ty.t \in {"str", "bytes"} /\ Top.n \in Nat /\ todo \in Seq(Frames)
  BY <1>2, TopIs DEF FrameIs
<1>4. /\ k \in 0..Len(sample.calls) /\ Unroll(todo) = Wanted(sample)[k]
      /\ Comes(lenEnd, sample.calls, extra, k, todo, rest, m)
  BY DEF FollowsAt
<1>5. lenEnd \in Ends /\ sample \in Sample /\ extra \in Seq(BitByte) /\ rest \in Seq(BitByte)
  BY DEF TypeInv
<1>6. PICK c, z : NextCall(lenEnd, sample, extra, k, todo, c, z)
  BY <1>2, <1>3, <1>4, <1>5, AtWant
<1>7. /\ c = sample.calls[k + 1] /\ c \in Told /\ Begun(ty, c) /\ z \in Seq(BitByte)
      /\ z = Expect(lenEnd, sample.calls, extra, k + 1)
  BY <1>2, <1>6 DEF NextCall
<1>8. Top.n = Len(c.bytes) /\ rest \o m = c.bytes \o z
  BY <1>2, <1>4, <1>7 DEF Comes
<1>9. /\ c.op = "bytes" /\ c.bytes \in Seq(BitByte) /\ c = Bytes(c.bytes)
      /\ (ty.t = "str" => IsUtf8(c.bytes))
  BY <1>3, <1>7, BegunNumber DEF Numbered
<1>10. PartsOf(ty, c) = << >>
  BY <1>3, <1>7, <1>9, PartsAre
<1>11. Meets("front", Top.n, m, c.bytes, z)
  <2>1. "front" \in Ends
    BY DEF Ends
  <2>2. QED
    BY <1>5, <1>7, <1>8, <1>9, <2>1, ReadsMeet
<1>12. CASE Lacks(Top.n) /\ FailWith("PrematureEndOfInput")
  BY <1>11, <1>12 DEF Meets, Lacks, Onward
<1>13. CASE ~(Lacks(Top.n) /\ FailWith("PrematureEndOfInput"))
  <2>1. PICK x \in Seq(BitByte), y \in Seq(BitByte) :
          /\ Cut("front", Top.n, x, y)
          /\ \/ ty.t = "str" /\ ~IsUtf8(x)
             \/ rest' = y /\ Continue(<< >>, <<Bytes(x)>>)
    BY <1>1, <1>13 DEF DataDoes
  <2>2. x = c.bytes /\ y \o m = z
    BY <1>11, <2>1 DEF Meets
  <2>3. rest' \o m = z /\ Continue(<< >>, <<c>>)
    BY <1>9, <2>1, <2>2
  <2>4. << >> \in Seq(Resting) /\ Unroll(<< >>) = PartsOf(ty, c)
    BY <1>10, UnrollEmpty, EmptySeq
  <2>5. QED
    BY <1>2, <1>6, <2>3, <2>4, ToldNext
<1>14. QED
  BY <1>12, <1>13

\* The first byte of a number is where it was written.
LEMMA NumberFirstFollows ==
  ASSUME TypeInv, Readable(sample), NEW m \in Seq(BitByte), m # << >> => lenEnd = "front",
         NEW k \in Nat, FollowsAt(lenEnd, sample, extra, k, got, todo, rest, m), ReadNumberFirst
  PROVE  Onward(m)
<1> DEFINE ty == Top.ty
           u == NumberType(ty)
           end == NumberEnd(ty)
<1>1. NumberFirstDoes
  BY NumberFirstIs
<1>2. todo # << >> /\ Top.f = "want" /\ ty.t \in Numbered /\ Top = Head(todo)
  BY DEF ReadNumberFirst, AtType, At, Top, Numbered
<1>3. PICK c, z : NextCall(lenEnd, sample, extra, k, todo, c, z) /\ ComesNext(m, c, z)
  BY <1>2, WantComes
<1>4. /\ ty \in Types /\ c \in Told /\ Begun(ty, c) /\ z \in Seq(BitByte)
      /\ c = sample.calls[k + 1] /\ z = Expect(lenEnd, sample.calls, extra, k + 1)
  BY <1>2, <1>3, TopIs DEF NextCall
<1>5. lenEnd \in Ends /\ rest \in Seq(BitByte) /\ end \in Ends /\ end = Side(lenEnd, ty) /\ u \in Type
      /\ debug \in BOOLEAN /\ Tail(todo) \in Seq(Resting)
  BY <1>2, NumberEndIs, NumberTypes DEF TypeInv
<1> DEFINE d == DataOf(c)
<1>6. d \in Seq(BitByte) /\ NumberOf(c) \in Nat
  BY <1>2, <1>4, BegunNumber
<1>7. NumberPartsAre(lenEnd, ty, c, z)
  BY <1>2, <1>4, <1>5, NumberParts
<1>8. PICK first \in BitByte, others \in Seq(BitByte) :
        /\ Encoding(u, WordOf(u, NumberOf(c))) = <<first>> \o others
        /\ FrontPart(lenEnd, c) \o (z \o BackPart(lenEnd, c)) = Around4(lenEnd, ty, first, others, d, z)
  BY <1>7 DEF NumberPartsAre
<1>9. rest \o m = Around4(lenEnd, ty, first, others, d, z)
  BY <1>3, <1>8, Zenon DEF ComesNext
<1> DEFINE zz == IF end = "front" THEN others \o (d \o z) ELSE (d \o z) \o others
<1> HIDE DEF d, end, u
<1>10. <<first>> \in Seq(BitByte) /\ Len(<<first>>) = 1 /\ <<first>>[1] = first
  BY Single
<1>11. zz \in Seq(BitByte)
  <2>1. d \o z \in Seq(BitByte)
    BY <1>4, <1>6
  <2>2. others \o (d \o z) \in Seq(BitByte) /\ (d \o z) \o others \in Seq(BitByte)
    BY <2>1
  <2>3. QED
    BY <2>2
<1>12. Meets(end, 1, m, <<first>>, zz)
  <2>1. end = "front" => rest \o m = <<first>> \o zz
    BY <1>5, <1>9, Zenon DEF Around4
  <2>2. end = "back" => rest \o m = zz \o <<first>>
    <3>1. "back" # "front"
      OBVIOUS
    <3>2. QED
      BY <1>5, <1>9, <3>1, Zenon DEF Around4
  <2>3. end = "back" => m = << >>
    BY <1>5 DEF Side
  <2> HIDE DEF zz
  <2>4. QED
    BY <1>5, <1>10, <1>11, <2>1, <2>2, <2>3, ReadsMeet
<1>13. LenAccepted(u, DecodedLen(first))
  BY <1>5, <1>6, <1>8, DecodesNumber
<1>14. CASE Lacks(1) /\ FailWith("PrematureEndOfInput")
  BY <1>12, <1>14 DEF Meets, Lacks, Onward
<1>15. CASE ~(Lacks(1) /\ FailWith("PrematureEndOfInput"))
  <2>1. PICK x \in Seq(BitByte), y \in Seq(BitByte) :
          /\ Cut(end, 1, x, y) /\ rest' = y
          /\ \/ ~LenAccepted(u, DecodedLen(x[1]))
             \/ Continue(<<Frame("others", ty, 0, x[1])>>, << >>)
    BY <1>1, <1>15 DEF NumberFirstDoes, end, u
  <2>2. x = <<first>> /\ rest' \o m = zz
    BY <1>12, <2>1 DEF Meets
  <2> DEFINE fr == Frame("others", ty, 0, first)
  <2>3. Continue(<<fr>>, << >>)
    BY <1>10, <1>13, <2>1, <2>2
  <2>4. fr \in Frames /\ fr.f = "others" /\ fr.ty = ty /\ fr.first = first
    <3>1. 0 \in 0..Huge
      BY HugeType
    <3>2. QED
      BY <1>2, <1>4, <1>13, <3>1, FrameTypes DEF Frame, u
  <2>5. TypesOf(fr) = TypesOf(Top)
    BY <1>2, <2>4 DEF TypesOf
  <2> HIDE DEF fr
  <2>6. <<fr>> \in Seq(Frames) /\ Unroll(<<fr>>) = TypesOf(Top)
    BY <2>4, <2>5, UnrollOne
  <2> DEFINE td2 == <<fr>> \o Tail(todo)
  <2>7. td2 # << >> /\ Head(td2) = fr
    BY <1>5, <2>4, OneHolds
  <2> HIDE DEF td2
  <2>8. rest' \o m = IF Side(lenEnd, ty) = "front"
                     THEN others \o (DataOf(c) \o Expect(lenEnd, sample.calls, extra, k + 1))
                     ELSE (DataOf(c) \o Expect(lenEnd, sample.calls, extra, k + 1)) \o others
    BY <1>4, <1>5, <2>2, Zenon DEF d
  <2>9. Encoding(NumberType(ty), WordOf(NumberType(ty), NumberOf(c))) = <<first>> \o others
    BY <1>8 DEF u
  <2>10. Comes(lenEnd, sample.calls, extra, k, td2, rest', m)
    <3>1. ~Bare(td2) /\ Head(td2).f # "data"
      BY <2>4, <2>7 DEF Bare
    <3>2. Head(td2).ty = ty /\ Head(td2).first = first
      BY <2>4, <2>7
    <3> HIDE DEF ty
    <3>3. \E oth \in Seq(BitByte) :
            /\ Encoding(NumberType(Head(td2).ty), WordOf(NumberType(Head(td2).ty), NumberOf(sample.calls[k + 1])))
                 = <<Head(td2).first>> \o oth
            /\ rest' \o m = IF Side(lenEnd, Head(td2).ty) = "front"
                     THEN oth \o (DataOf(sample.calls[k + 1]) \o Expect(lenEnd, sample.calls, extra, k + 1))
                     ELSE (DataOf(sample.calls[k + 1]) \o Expect(lenEnd, sample.calls, extra, k + 1)) \o oth
      BY <1>4, <1>8, <2>8, <2>9, <3>2, Zenon
    <3>4. QED
      BY <3>1, <3>3 DEF Comes
  <2>11. QED
    BY <1>2, <2>3, <2>6, <2>10, Rearranged DEF td2
<1>16. QED
  BY <1>14, <1>15

\* The other bytes are decoded to the number that was written.
LEMMA NumberOthersFollows ==
  ASSUME TypeInv, Readable(sample), NEW m \in Seq(BitByte), m # << >> => lenEnd = "front",
         NEW k \in Nat, FollowsAt(lenEnd, sample, extra, k, got, todo, rest, m), ReadNumberOthers
  PROVE  Onward(m)
<1> DEFINE ty == Top.ty
           u == NumberType(ty)
           end == NumberEnd(ty)
           len == DecodedLen(Top.first)
<1>1. NumberOthersDoes
  BY NumberOthersIs
<1>2. todo # << >> /\ Top.f = "others" /\ Top = Head(todo)
  BY DEF ReadNumberOthers, At, Top
<1>3. /\ ty \in Types /\ ty.t \in Numbered /\ Top.first \in BitByte /\ todo \in Seq(Frames)
      /\ Tail(todo) \in Seq(Resting)
  BY <1>2, TopIs DEF FrameIs
<1>4. /\ k \in 0..Len(sample.calls) /\ Unroll(todo) = Wanted(sample)[k]
      /\ Comes(lenEnd, sample.calls, extra, k, todo, rest, m)
  BY DEF FollowsAt
<1>5. /\ lenEnd \in Ends /\ sample \in Sample /\ extra \in Seq(BitByte) /\ rest \in Seq(BitByte)
      /\ end \in Ends /\ end = Side(lenEnd, ty) /\ u \in Type /\ debug \in BOOLEAN
  BY NumberEndIs, NumberTypes DEF TypeInv
<1>6. PICK c, z : NextCall(lenEnd, sample, extra, k, todo, c, z)
  BY <1>2, <1>3, <1>4, <1>5, AtWant
<1>7. /\ c = sample.calls[k + 1] /\ c \in Told /\ Begun(ty, c) /\ z \in Seq(BitByte)
      /\ z = Expect(lenEnd, sample.calls, extra, k + 1)
  BY <1>2, <1>6 DEF NextCall
<1> DEFINE d == DataOf(c)
           n == NumberOf(c)
<1>8. d \in Seq(BitByte) /\ n \in Nat /\ n < Huge
  BY <1>3, <1>7, BegunNumber
<1>9. PICK others \in Seq(BitByte) :
        /\ Encoding(u, WordOf(u, n)) = <<Top.first>> \o others
        /\ rest \o m = IF end = "front" THEN others \o (d \o z) ELSE (d \o z) \o others
  <2>1. \E others \in Seq(BitByte) :
          /\ Encoding(NumberType(ty), WordOf(NumberType(ty), NumberOf(c))) = <<Top.first>> \o others
          /\ rest \o m = IF Side(lenEnd, ty) = "front" THEN others \o (DataOf(c) \o z)
                         ELSE (DataOf(c) \o z) \o others
    BY <1>2, <1>4, <1>7 DEF Comes
  <2>2. QED
    BY <1>5, <2>1, Zenon
<1>10. /\ len = Len(others) + 1
       /\ Decode(u, len, Top.first, others, debug) = Decoded("Ok", WordOf(u, n))
  BY <1>3, <1>5, <1>8, <1>9, DecodesNumber
<1>11. Number(WordOf(u, n)) = n
  BY <1>5, <1>8, NumberOfWord
<1> DEFINE zz == d \o z
<1>12. zz \in Seq(BitByte)
  BY <1>7, <1>8
<1> HIDE DEF d, n, end, u, len, zz
<1>13. len - 1 = Len(others)
  <2>1. Len(others) \in Nat
    BY LenProperties
  <2>2. QED
    BY <1>10, <2>1
<1>14. Meets(end, len - 1, m, others, zz)
  <2>1. end = "front" => rest \o m = others \o zz
    BY <1>9 DEF zz
  <2>2. end = "back" => rest \o m = zz \o others
    BY <1>9 DEF zz
  <2>3. end = "back" => m = << >>
    BY <1>5 DEF Side
  <2>4. QED
    BY <1>5, <1>12, <1>13, <2>1, <2>2, <2>3, ReadsMeet
<1>15. CASE Lacks(len - 1) /\ FailWith("PrematureEndOfInput")
  BY <1>14, <1>15 DEF Meets, Lacks, Onward
<1>16. CASE ~(Lacks(len - 1) /\ FailWith("PrematureEndOfInput"))
  <2>0. PICK x \in Seq(BitByte), y \in Seq(BitByte) :
          /\ Cut(end, len - 1, x, y)
          /\ \E num \in {Decode(u, len, Top.first, x, debug)} :
               \/ num.err # "Ok"
               \/ rest' = y /\ AfterNumber(ty, Number(num.val))
    BY <1>1, <1>16 DEF NumberOthersDoes, len, u, end
  <2>1. x = others /\ y \o m = zz
    BY <1>14, <2>0 DEF Meets
  <2>2. Decode(u, len, Top.first, x, debug) = Decoded("Ok", WordOf(u, n))
    BY <1>10, <2>1
  <2>3. Decoded("Ok", WordOf(u, n)).err = "Ok" /\ Decoded("Ok", WordOf(u, n)).val = WordOf(u, n)
    BY DEF Decoded
  <2>4. rest' = y /\ AfterNumber(ty, n)
    BY <1>11, <2>0, <2>2, <2>3
  <2>5. rest' \o m = d \o z
    BY <2>1, <2>4 DEF zz
  <2>6. AfterNumberDoes(ty, n)
    BY <1>3, <2>4, AfterNumberIs
  <2>7. n \in 0..Huge /\ Zero \in BitByte
    BY <1>8, HugeType, ByteBits, SMT
  <2>8. CASE ty.t \in {"str", "bytes"} /\ Continue(<<Frame("data", ty, n, Zero)>>, << >>)
    <3> DEFINE fr == Frame("data", ty, n, Zero)
    <3>1. fr \in Frames /\ fr.f = "data" /\ fr.ty = ty /\ fr.n = n
      BY <1>3, <2>7, <2>8, FrameTypes DEF Frame
    <3>2. TypesOf(fr) = TypesOf(Top)
      BY <1>2, <3>1 DEF TypesOf
    <3> HIDE DEF fr
    <3>3. <<fr>> \in Seq(Frames) /\ Unroll(<<fr>>) = TypesOf(Top)
      BY <3>1, <3>2, UnrollOne
    <3> DEFINE td2 == <<fr>> \o Tail(todo)
    <3>4. td2 # << >> /\ Head(td2) = fr
      BY <1>3, <3>1, OneHolds
    <3> HIDE DEF td2
    <3>5. c.op = "bytes"
      BY <1>3, <1>7, <2>8, BegunNumber
    <3>6. n = Len(c.bytes) /\ d = c.bytes
      BY <3>5 DEF n, d, NumberOf, DataOf
    <3>7. Comes(lenEnd, sample.calls, extra, k, td2, rest', m)
      <4>1. ~Bare(td2) /\ Head(td2).f # "others" /\ Head(td2).n = n
        BY <3>1, <3>4 DEF Bare
      <4>2. rest' \o m = sample.calls[k + 1].bytes \o Expect(lenEnd, sample.calls, extra, k + 1)
        BY <1>7, <2>5, <3>6
      <4>3. QED
        BY <1>7, <3>6, <4>1, <4>2 DEF Comes
    <3>8. QED
      BY <1>2, <2>8, <3>3, <3>7, Rearranged DEF td2, fr
  <2>9. ASSUME ty.t \notin {"str", "bytes"} PROVE rest' \o m = z
    <3>1. c.op # "bytes"
      BY <1>3, <1>7, <2>9, BegunNumber DEF Numbered
    <3>2. d = << >> /\ << >> \o z = z
      BY <1>7, <3>1, NothingAdded DEF d, DataOf
    <3>3. QED
      BY <2>5, <3>2, Zenon
  <2>10. CASE ty.t \in {"seq", "map"} /\ Continue(<<Frame("elems", ty, n, Zero)>>, <<SeqOrMap(n)>>)
    <3> DEFINE fr == Frame("elems", ty, n, Zero)
    <3>1. fr \in Resting /\ fr \in Frames /\ TypesOf(fr) = Copies(n, ty.of)
      BY <1>3, <2>7, <2>10, FrameTypes, RestingIs DEF Frame, TypesOf
    <3> HIDE DEF fr
    <3>2. c.op = "seq" /\ c = SeqOrMap(c.n)
      BY <1>3, <1>7, <2>10, BegunNumber
    <3>3. n = c.n /\ c = SeqOrMap(n)
      BY <3>2 DEF n, NumberOf
    <3>4. PartsOf(ty, c) = Copies(n, ty.of)
      BY <1>3, <1>7, <3>2, <3>3, PartsAre
    <3>5. <<fr>> \in Seq(Resting) /\ Unroll(<<fr>>) = PartsOf(ty, c)
      BY <3>1, <3>4, UnrollOne, Single
    <3>6. rest' \o m = z
      BY <2>9, <2>10
    <3>7. Continue(<<fr>>, <<c>>)
      BY <2>10, <3>3 DEF fr
    <3>8. QED
      BY <1>2, <1>6, <3>5, <3>6, <3>7, ToldNext
  <2>11. CASE ty.t = "enum" /\ n < Len(ty.of) /\ Continue(Wants(ty.of[n + 1].of), <<Variant(n)>>)
    <3>1. c.op = "variant" /\ c = Variant(c.n)
      BY <1>3, <1>7, <2>11, BegunNumber
    <3>2. n = c.n /\ c = Variant(n)
      BY <3>1 DEF n, NumberOf
    <3>3. PartsOf(ty, c) = ty.of[n + 1].of /\ PartsOf(ty, c) \in Seq(Types)
      BY <1>3, <1>7, <3>1, <3>2, PartsAre
    <3> DEFINE w == Wants(ty.of[n + 1].of)
    <3>4. w \in Seq(Resting) /\ Unroll(w) = PartsOf(ty, c)
      BY <3>3, WantsType, UnrollWants
    <3>5. rest' \o m = z
      BY <2>9, <2>11
    <3>6. Continue(w, <<c>>)
      BY <2>11, <3>2
    <3> HIDE DEF w
    <3>7. QED
      BY <1>2, <1>6, <3>4, <3>5, <3>6, ToldNext
  <2>12. CASE ty.t = "enum" /\ ~(n < Len(ty.of))
    <3>1. c.op = "variant" /\ c.n < Len(ty.of)
      BY <1>3, <1>7, <2>12, BegunNumber
    <3>2. n = c.n
      BY <3>1 DEF n, NumberOf
    <3>3. QED
      BY <2>12, <3>1, <3>2
  <2>13. QED
    BY <2>6, <2>8, <2>10, <2>11, <2>12 DEF AfterNumberDoes
<1>17. QED
  BY <1>15, <1>16

\* What the invariant says of one m.
Reads1(m) ==
  /\ pc = "reading" => Follows(lenEnd, sample, extra, got, todo, rest, m)
  /\ pc = "done" => Ended(m)

\* A step of reading keeps it.
LEMMA OnwardReads ==
  ASSUME TypeInv, Kept, pc = "reading", NEW m \in Seq(BitByte), Onward(m)
  PROVE  Reads1(m)'
<1>1. lenEnd' = lenEnd /\ sample' = sample /\ extra' = extra
  BY DEF Kept
<1>2. CASE m # << >> /\ rest' = rest /\ FailWith("PrematureEndOfInput")
  <2>1. outcome' = "PrematureEndOfInput" /\ pc' = "done"
    BY <1>2 DEF FailWith
  <2>2. Ended(m)'
    BY <1>2, <2>1 DEF Ended
  <2>3. QED
    BY <2>1, <2>2 DEF Reads1
<1>3. CASE pc' = pc /\ Follows(lenEnd, sample, extra, got', todo', rest', m)
  <2>1. Follows(lenEnd, sample, extra, got, todo, rest, m)'
    BY <1>1, <1>3
  <2>2. QED
    BY <1>3, <2>1 DEF Reads1
<1>4. QED
  BY <1>2, <1>3 DEF Onward

\* The reading begins with the type of the value.
LEMMA OpenReads ==
  ASSUME TypeInv, Open, NEW m \in Seq(BitByte), Missing(m)
  PROVE  Reads1(m)'
<1> DEFINE td == <<Want(sample.ty)>>
           calls == sample.calls
<1>1. /\ lenEnd \in Ends /\ sample \in Sample /\ sample.ty \in Types /\ got = << >>
      /\ calls \in Seq(Told)
  BY SampleType DEF TypeInv, Open
<1>2. /\ lenEnd' = lenEnd /\ sample' = sample /\ extra' = extra /\ got' = << >> /\ pc' = "reading"
      /\ rest' = InOrder(input) /\ todo' = td
  BY <1>1 DEF Open, setting
<1>3. Want(sample.ty) \in Frames /\ TypesOf(Want(sample.ty)) = <<sample.ty>>
  BY <1>1, WantType, RestingIs DEF TypesOf
<1>4. Unroll(td) = Wanted(sample)[0]
  BY <1>1, <1>3, UnrollOne, WantedIs
<1>5. Head(td).f = "want" /\ td # << >>
  BY DEF Want, Frame
<1>6. InOrder(input) \o m = Expect(lenEnd, calls, extra, 0)
  BY DEF Missing
<1> HIDE DEF td
<1>7. Comes(lenEnd, calls, extra, 0, td, rest', m)
  BY <1>2, <1>5, <1>6 DEF Comes, Bare
<1>8. 0 \in 0..Len(calls) /\ SubSeq(calls, 1, 0) = << >>
  <2>1. Len(calls) \in Nat
    BY <1>1, LenProperties
  <2>2. 0 \in 0..Len(calls)
    BY <2>1
  <2>3. SubSeq(calls, 1, 0) \in Seq(Told) /\ Len(SubSeq(calls, 1, 0)) = 0
    BY <1>1, <2>2, CutElements
  <2>4. QED
    BY <2>2, <2>3, EmptySeq
<1>9. FollowsAt(lenEnd, sample, extra, 0, << >>, td, rest', m)
  BY <1>4, <1>7, <1>8 DEF FollowsAt
<1>10. 0 \in Nat
  OBVIOUS
<1>11. Follows(lenEnd, sample, extra, << >>, td, rest', m)
  BY <1>9, <1>10 DEF Follows
<1>12. QED
  BY <1>2, <1>11 DEF Reads1

\* The reading ends with the value, and all that is missing is missed before.
LEMMA FinishReads ==
  ASSUME TypeInv, Finish, Readable(sample), NEW m \in Seq(BitByte), Missing(m), Reads1(m)
  PROVE  Reads1(m)'
<1> DEFINE calls == sample.calls
           n == Len(calls)
<1>1. /\ pc = "reading" /\ todo = << >> /\ sample \in Sample /\ calls \in Seq(Told)
      /\ lenEnd \in Ends /\ extra \in Seq(BitByte) /\ rest \in Seq(BitByte)
  BY SampleType DEF TypeInv, Finish
<1>2. /\ sample' = sample /\ extra' = extra /\ got' = got /\ rest' = rest /\ pc' = "done"
      /\ outcome' = "Ok"
  BY DEF Finish, setting, reader
<1>3. PICK k \in Nat : FollowsAt(lenEnd, sample, extra, k, got, todo, rest, m)
  BY <1>1 DEF Reads1, Follows
<1>4. n \in Nat /\ k \in 0..n
  BY <1>1, <1>3, LenProperties DEF FollowsAt
<1>5. Wanted(sample)[k] = << >>
  BY <1>1, <1>3, UnrollEmpty DEF FollowsAt
<1>6. k = n
  <2>1. SUFFICES ASSUME k # n PROVE FALSE
    OBVIOUS
  <2>2. k + 1 \in 1..n /\ (k + 1) - 1 = k
    BY <1>4, <2>1
  <2>3. \A j \in 1..n : Fits(Wanted(sample)[j - 1], calls[j])
    BY DEF Readable
  <2>4. Fits(Wanted(sample)[(k + 1) - 1], calls[k + 1])
    BY <2>2, <2>3
  <2>5. Fits(Wanted(sample)[k], calls[k + 1])
    BY <2>2, <2>4
  <2>6. QED
    BY <1>5, <2>5 DEF Fits
<1>7. got = calls
  <2>1. SubSeq(calls, 1, n) = calls
    BY <1>1, WholeFront
  <2>2. QED
    BY <1>3, <1>6, <2>1 DEF FollowsAt
<1>8. rest \o m = extra
  <2>1. rest \o m = Expect(lenEnd, calls, extra, n)
    BY <1>1, <1>3, <1>6 DEF FollowsAt, Comes, Bare
  <2>2. Expect(lenEnd, calls, extra, n) = extra
    BY <1>1, ExpectIs
  <2>3. QED
    BY <2>1, <2>2
<1>9. m = << >>
  <2>1. SUFFICES ASSUME m # << >> PROVE FALSE
    OBVIOUS
  <2>2. rest \o m = << >>
    BY <1>8, <2>1 DEF Missing
  <2>3. Len(rest \o m) = Len(rest) + Len(m) /\ Len(rest) \in Nat /\ Len(m) \in Nat
    BY <1>1, ConcatProperties, LenProperties
  <2>4. Len(m) = 0
    BY <2>2, <2>3
  <2>5. QED
    BY <2>1, <2>4
<1>10. rest \o << >> = rest
  BY <1>1, NothingAdded
<1>11. rest = extra
  BY <1>8, <1>9, <1>10, Zenon
<1>12. Ended(m)'
  BY <1>2, <1>7, <1>9, <1>11 DEF Ended
<1>13. QED
  BY <1>2, <1>12 DEF Reads1

\* What is missing of the input stays missing.
LEMMA MissingStays ==
  ASSUME lenEnd' = lenEnd, order' = order, sample' = sample, extra' = extra, input' = input,
         NEW m
  PROVE  Missing(m)' <=> Missing(m)
<1>1. InOrder(input)' = InOrder(input)
  BY DEF InOrder
<1>2. QED
  BY <1>1 DEF Missing

\* Steps that read keep the invariant.
LEMMA StepReads ==
  ASSUME TypeInv, Step, Readable(sample), ~early', NEW m \in Seq(BitByte), Missing(m), Reads1(m)
  PROVE  Reads1(m)'
<1>1. CASE Open
  BY <1>1, OpenReads
<1>2. CASE Finish
  BY <1>2, FinishReads
<1>3. CASE Moved /\ ~Open /\ ~Finish
  <2>1. Kept /\ pc = "reading"
    BY <1>3 DEF Moved
  <2>2. PICK k \in Nat : FollowsAt(lenEnd, sample, extra, k, got, todo, rest, m)
    BY <2>1 DEF Reads1, Follows
  <2>3. m # << >> => lenEnd = "front"
    BY DEF Missing
  <2>4. ~StopEarly
    BY DEF StopEarly
  <2>5. Onward(m)
    BY <1>3, <2>2, <2>3, <2>4, PrimitiveFollows, OptionFollows, NumberFirstFollows,
       NumberOthersFollows, DataFollows, TupleFollows, ElementFollows, RefuseFollows DEF Step
  <2>6. QED
    BY <2>1, <2>5, OnwardReads
<1>4. QED
  BY <1>1, <1>2, <1>3, StepMoves

\* The invariant is inductive.
LEMMA NextReads ==
  ASSUME TypeInv, ReadInv, [Next]_vars
  PROVE  ReadInv'
<1>1. CASE Deliver
  <2>1. pc' = "open"
    BY <1>1 DEF Deliver
  <2>2. QED
    BY <2>1 DEF ReadInv
<1>2. CASE Step
  <2>1. /\ lenEnd' = lenEnd /\ order' = order /\ sample' = sample /\ extra' = extra
        /\ input' = input /\ (early => early')
    <3>1. CASE Open
      BY <3>1 DEF Open, setting
    <3>2. CASE Finish
      BY <3>2 DEF Finish, setting
    <3>3. CASE Moved
      <4>1. Kept
        BY <3>3 DEF Moved
      <4>2. early => early'
        BY <1>2 DEF Step, Open, ReadPrimitive, ReadOption, ReadNumberFirst, ReadNumberOthers,
           ReadData, EnterTuple, NextElement, StopEarly, Refuse, Finish
      <4>3. QED
        BY <4>1, <4>2 DEF Kept
    <3>4. QED
      BY <1>2, <3>1, <3>2, <3>3, StepMoves
  <2>2. SUFFICES ASSUME Readable(sample)', ~early', NEW m \in Seq(BitByte), Missing(m)'
                 PROVE  Reads1(m)'
    BY DEF ReadInv, Reads1
  <2>3. Readable(sample) /\ ~early /\ Missing(m)
    BY <2>1, <2>2, MissingStays
  <2>4. Reads1(m)
    BY <2>3 DEF ReadInv, Reads1
  <2>5. QED
    BY <1>2, <2>2, <2>3, <2>4, StepReads
<1>3. CASE UNCHANGED vars
  <2>1. /\ lenEnd' = lenEnd /\ order' = order /\ sample' = sample /\ extra' = extra /\ input' = input
        /\ got' = got /\ rest' = rest /\ todo' = todo /\ pc' = pc /\ outcome' = outcome
        /\ early' = early
    BY <1>3 DEF vars, setting, reader
  <2>2. SUFFICES ASSUME Readable(sample)', ~early', NEW m \in Seq(BitByte), Missing(m)'
                 PROVE  Reads1(m)'
    BY DEF ReadInv, Reads1
  <2>3. Readable(sample) /\ ~early /\ Missing(m)
    BY <2>1, <2>2, MissingStays
  <2>4. Reads1(m)
    BY <2>3 DEF ReadInv, Reads1
  <2>5. QED
    BY <2>1, <2>4 DEF Reads1, Ended
<1>4. QED
  BY <1>1, <1>2, <1>3 DEF Next

\* It holds from the start, when nothing is read.
LEMMA ReadInvariant == Spec => []ReadInv
<1>1. Init => ReadInv
  BY DEF Init, ReadInv
<1>2. TypeInv /\ ReadInv /\ [Next]_vars => ReadInv'
  BY NextReads
<1>3. QED
  BY <1>1, <1>2, TypeInvariant, PTL DEF Spec

\* A whole record misses nothing.
LEMMA WholeRecord ==
  ASSUME TypeInv, Intact
  PROVE  Missing(<< >>)
<1> DEFINE f == FrontOf(lenEnd, sample.calls)
           b == BackOf(lenEnd, sample.calls)
           s == f \o extra \o b
<1>1. /\ lenEnd \in Ends /\ order \in Orders /\ extra \in Seq(BitByte) /\ sample.calls \in Seq(Told)
  BY SampleType DEF TypeInv
<1>2. f \in Seq(BitByte) /\ b \in Seq(BitByte)
  BY <1>1, RecordType
<1>3. Expect(lenEnd, sample.calls, extra, 0) = f \o (extra \o b)
  BY <1>1, ExpectIs
<1> HIDE DEF f, b
<1>4. s \in Seq(BitByte)
  BY <1>1, <1>2
<1>5. Associates(f, extra, b)
  BY <1>1, <1>2, Association
<1>6. s = f \o (extra \o b)
  BY <1>5, Zenon DEF Associates
<1>7. input = InOrder(s)
  BY DEF Intact, f, b
<1> HIDE DEF s
<1>8. InOrder(input) = s
  BY <1>1, <1>4, <1>7, InOrderTwice
<1>9. s \o << >> = s
  BY <1>4, NothingAdded
<1>10. InOrder(input) \o << >> = Expect(lenEnd, sample.calls, extra, 0)
  BY <1>3, <1>6, <1>8, <1>9, Zenon
<1>11. QED
  BY <1>10 DEF Missing

\* Of a torn record something is missing.
LEMMA TornRecord ==
  ASSUME TypeInv, Torn, lenEnd = "front"
  PROVE  \E m \in Seq(BitByte) : m # << >> /\ Missing(m)
<1> DEFINE f == FrontOf(lenEnd, sample.calls)
           b == BackOf(lenEnd, sample.calls)
           a == InOrder(input)
<1>1. /\ lenEnd \in Ends /\ order \in Orders /\ input \in Seq(BitByte) /\ sample.calls \in Seq(Told)
  BY SampleType DEF TypeInv
<1>2. extra = << >> /\ << >> \in Seq(BitByte)
  BY DEF Torn
<1>3. f \in Seq(BitByte) /\ b \in Seq(BitByte) /\ a \in Seq(BitByte)
  BY <1>1, RecordType, InOrderTwice
<1>4. Expect(lenEnd, sample.calls, extra, 0) = f \o (<< >> \o b)
  BY <1>1, <1>2, ExpectIs
<1>5. Record = f \o b
  BY DEF Record, RecordOf
<1>6. IsPrefix(a, Record) /\ a # Record
  BY DEF Torn, IsStrictPrefix
<1> HIDE DEF f, b, a
<1>7. Record \in Seq(BitByte)
  BY <1>3, <1>5
<1>8. PICK m \in Seq(BitByte) : Record = a \o m
  BY <1>3, <1>6, <1>7, PrefixIs
<1>9. m # << >>
  <2>1. a \o << >> = a
    BY <1>3, NothingAdded
  <2>2. QED
    BY <1>6, <1>8, <2>1
<1>10. << >> \o b = b
  BY <1>3, NothingAdded
<1>11. a \o m = Expect(lenEnd, sample.calls, extra, 0)
  BY <1>4, <1>5, <1>8, <1>10, Zenon
<1>12. Missing(m)
  BY <1>2, <1>11 DEF Missing, a
<1>13. QED
  BY <1>9, <1>12

\* Serialization round trip: a record is read back as the value it was made from,
\* in every format and order, whatever lies between its ends, which is then all
\* that the reader has left.
THEOREM RecordIsReadBack == Spec => []RoundTrip
<1>1. TypeInv /\ ReadInv => RoundTrip
  <2>1. SUFFICES ASSUME TypeInv, ReadInv, pc = "done", Intact, Readable(sample), ~early
                 PROVE  outcome = "Ok" /\ got = sample.calls /\ rest = extra
    BY DEF RoundTrip
  <2>2. Missing(<< >>) /\ << >> \in Seq(BitByte)
    BY <2>1, WholeRecord, EmptySeq
  <2>3. Ended(<< >>)
    BY <2>1, <2>2 DEF ReadInv
  <2>4. QED
    BY <2>3 DEF Ended
<1>2. QED
  BY <1>1, TypeInvariant, ReadInvariant, PTL

\* A record that is cut off anywhere, with all lengths at the front, is refused
\* for its end, and never taken for another value.
THEOREM TornRecordIsRefused == Spec => []TornIsRefused
<1>1. TypeInv /\ ReadInv => TornIsRefused
  <2>1. SUFFICES ASSUME TypeInv, ReadInv, pc = "done", lenEnd = "front", Torn, Readable(sample),
                        ~early
                 PROVE  outcome = "PrematureEndOfInput"
    BY DEF TornIsRefused
  <2>2. PICK m \in Seq(BitByte) : m # << >> /\ Missing(m)
    BY <2>1, TornRecord
  <2>3. Ended(m)
    BY <2>1, <2>2 DEF ReadInv
  <2>4. QED
    BY <2>2, <2>3 DEF Ended
<1>2. QED
  BY <1>1, TypeInvariant, ReadInvariant, PTL
=============================================================================
