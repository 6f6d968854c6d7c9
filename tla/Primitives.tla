----------------------------- MODULE Primitives -----------------------------
(***************************************************************************)
(* The encodings of primitive values (src/src/primitives.rs) and the       *)
(* parameters they depend on (src/src/params.rs).  A value is the word the *)
(* program holds: an integer in two's complement, a float as IEEE 754 bits,*)
(* a bool as the byte 0 or 1, a char as its code point.  A type is its     *)
(* kind and its size; the macros of the source differ in nothing else.     *)
(***************************************************************************)
EXTENDS Varint, SequencesExt

\* EncodingParams; lengths is the end SerializerParams gives to lengths, none
\* where that trait is not implemented.
Params(order, endianness, lengths) ==
  [order |-> order, endianness |-> endianness, lengths |-> lengths]

AscendingOrder  == Params("Ascending", "Big", "back")
DescendingOrder == Params("Descending", "Big", "none")
PortableBinary  == Params("Ascending", "Big", "front")
NativeBinary    == Params("Unordered", "Native", "front")

Primitive(kind, bytes) == [kind |-> kind, bytes |-> bytes]

\* cfg!(target_endian): target is Little or Big.
BigEndian(target, p) ==
  \/ p.endianness = "Big"
  \/ p.endianness = "Native" /\ target = "Big"

\* to_bytes! and from_bytes!
ToBytes(target, p, ty, w) ==
  IF BigEndian(target, p) THEN Reverse(LeBytes(ty, w)) ELSE LeBytes(ty, w)
FromBytes(target, p, ty, s) ==
  FromLeBytes(ty, IF BigEndian(target, p) THEN Reverse(s) ELSE s)

Not(w)    == [i \in DOMAIN w |-> 1 - w[i]]
Xor(v, w) == [i \in DOMAIN v |-> (v[i] + w[i]) % 2]
Or(v, w)  == [i \in DOMAIN v |-> IF v[i] + w[i] > 0 THEN 1 ELSE 0]

\* MSBOFFS, min_value(), and the arithmetic shift by MSBOFFS: the sign in every bit.
MsbOffs(w)  == Cardinality(DOMAIN w) - 1
MinValue(w) == LET msb == MsbOffs(w) IN [i \in DOMAIN w |-> IF i = msb THEN 1 ELSE 0]
Spread(w)   == LET sign == w[MsbOffs(w)] IN [i \in DOMAIN w |-> sign]

\* ord_cond!(P, !w, w)
Ordered(p, w) == IF p.order = "Descending" THEN Not(w) ELSE w

\* Mutant: integers keep their two's complement form.
BiasedNot(w) == w

\* A signed integer as the unsigned one of the same rank, and back.
Biased(w) == Xor(w, MinValue(w))

\* A float's bits as an integer of the same rank, and back: only for big-endian
\* encodings, and not for native ones on a big-endian target.
FloatRank(p, w) ==
  IF p.endianness = "Big" THEN Xor(w, Or(Spread(w), MinValue(w))) ELSE w

\* Mutant: the sign is looked at before it is restored.
FloatOfRankEarly(p, w) ==
  IF p.endianness = "Big" THEN Xor(w, Or(Spread(w), MinValue(w))) ELSE w

FloatOfRank(p, w) ==
  IF p.endianness = "Big" THEN Xor(w, Or(Spread(Xor(w, MinValue(w))), MinValue(w))) ELSE w

\* SerializableValue::to_writer, the bytes of its one call of write.
Encode(target, p, ty, w) ==
  LET u == CASE ty.kind = "int"   -> Biased(w)
             [] ty.kind = "float" -> FloatRank(p, w)
             [] ty.kind \in {"uint", "bool", "char"} -> w
  IN ToBytes(target, p, ty, Ordered(p, u))

\* char::from_u32
IsChar(w) ==
  LET bits == {i \in 0..20 : w[i] = 1}
      code == MapThenSumSet(LAMBDA i : 2^i, bits)
  IN (\A i \in 21..31 : w[i] = 0) /\ code <= 1114111 /\ code \notin 55296..57343

\* Mutant: U+FFFD stands for what is no char.
CharOfLossy(w) ==
  Decoded("Ok", IF IsChar(w) THEN w ELSE [i \in DOMAIN w |-> IF i \in 0..15 \ {1} THEN 1 ELSE 0])

CharOf(w) == IF IsChar(w) THEN Decoded("Ok", w) ELSE Failed("InvalidUtf8Encoding")

\* Mutant: a bool is the byte that was read.
BoolOfByte(w) == w

\* v != 0
BoolOf(w) == IF \E i \in DOMAIN w : w[i] = 1 THEN ByteOf(1) ELSE Zero

\* SerializableValue::from_reader, for a reader that has the bytes.
DecodePrimitive(target, p, ty, s) ==
  LET u == Ordered(p, FromBytes(target, p, ty, s))
  IN CASE ty.kind = "uint"  -> Decoded("Ok", u)
       [] ty.kind = "int"   -> Decoded("Ok", Biased(u))
       [] ty.kind = "bool"  -> Decoded("Ok", BoolOf(u))
       [] ty.kind = "char"  -> CharOf(u)
       [] ty.kind = "float" -> Decoded("Ok", FloatOfRank(p, u))

=============================================================================
