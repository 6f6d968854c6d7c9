--------------------------- MODULE MCDeserializer ---------------------------
(* Model-checking instance of Deserializer: types of every kind, nested      *)
(* once, with values whose lengths and discriminants take one byte and two.  *)
EXTENDS Deserializer

A == ByteOf(97)
B == ByteOf(98)

Typed(ty, calls) == [ty |-> ty, calls |-> calls]

Number2 == Prim(<<Zero, A>>)
Letter  == Prim(<<Zero, Zero, Zero, A>>)
Text    == Bytes(<<A, B>>)
Choice  == Enum(<<Tuple(<< >>), Tuple(<<Str>>), Tuple(<<Fixed(1), Str>>)>>)
Many    == Enum([i \in 1..140 |-> Tuple(<<Str>>)])
Long    == Bytes([i \in 1..130 |-> A])

MCReadable ==
  { Typed(Tuple(<< >>), <<Compound>>),
    Typed(Tuple(<<Fixed(2), Str>>), <<Compound, Number2, Text>>),
    Typed(Tuple(<<Bool, Char>>), <<Compound, Prim(<<ByteOf(1)>>), Letter>>),
    Typed(Tuple(<<Blob, Str>>), <<Compound, Text, Bytes(<< >>)>>),
    Typed(Option(Str), <<None>>),
    Typed(Option(Str), <<Some, Text>>),
    Typed(SeqOf1(Fixed(1)), <<SeqOrMap(2), Prim(<<A>>), Prim(<<ByteOf(3)>>)>>),
    Typed(SeqOf1(Tuple(<< >>)), <<SeqOrMap(2), Compound, Compound>>),
    Typed(SeqOf1(SeqOf1(Str)), <<SeqOrMap(2), SeqOrMap(0), SeqOrMap(1), Text>>),
    Typed(MapOf(Fixed(1), Option(Str)),
          <<SeqOrMap(2), Prim(<<A>>), None, Prim(<<B>>), Some, Text>>),
    Typed(Choice, <<Variant(0)>>),
    Typed(Choice, <<Variant(2), Prim(<<A>>), Text>>),
    Typed(Many, <<Variant(130), Text>>),
    Typed(Blob, <<Long>>),
    Typed(Tuple(<<Str>>), <<Compound, Bytes(<<A, B, A, ByteOf(49)>>)>>) }

MCSample ==
  MCReadable
  \cup { Typed(Tuple(<<Fixed(1), Refused(t)>>), <<Compound, Prim(<<A>>), Prim(<<B>>)>>) :
            t \in {"any", "identifier", "ignored"} }

WithParts(types) ==
  types \cup UNION {Range(ty.of) : ty \in {ty \in types : "of" \in DOMAIN ty}}
MCTypes == WithParts(WithParts({s.ty : s \in MCSample}))

\* What RoundTrip and TornIsRefused say of readable values is said of these.
ASSUME SamplesAreReadable == {s \in MCSample : Readable(s)} = MCReadable

\* The second is what the record of a string leaves between the ends of another.
MCExtra == { << >>, <<B>>, <<A, ByteOf(3)>> }

\* Zero is the first byte of the longest varint, 2 that of a varint of two bytes,
\* 7 the length 3; 255 occurs in no UTF-8 text.  With 16 begins the longest varint
\* of a u32, with bits that are not looked at.
MCDamage == { Zero, ByteOf(2), ByteOf(7), ByteOf(16), ByteOf(255) }

\* The bytes of the instance that are not ASCII never form a UTF-8 sequence.
MCIsUtf8(s) == \A i \in DOMAIN s : s[i][7] = 0

=============================================================================
