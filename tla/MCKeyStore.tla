----------------------------- MODULE MCKeyStore -----------------------------
(* Model-checking instance of KeyStore: every kind and size of primitive     *)
(* with the parameters of the crate and two a user may define, at the values *)
(* where signs, exponents and bytes change; keys of several parts.           *)
EXTENDS KeyStore

\* A word by its bytes, the most significant first.
W(bytes) ==
  LET n == Len(bytes)
  IN [i \in 0..8 * n - 1 |-> ByteOf(bytes[n - i \div 8])[i % 8]]

\* The bytes of the type's extremes, of small and of neighbouring numbers.
Edges(n) ==
  LET Pad(first, mid, last) == [i \in 1..n |-> IF i = n THEN last ELSE IF i = 1 THEN first ELSE mid]
  IN { W(Pad(0, 0, 0)), W(Pad(0, 0, 1)), W(Pad(0, 0, 255)), W(Pad(127, 255, 255)),
       W(Pad(128, 0, 0)), W(Pad(128, 0, 1)), W(Pad(255, 255, 254)), W(Pad(255, 255, 255)),
       W(Pad(1, 2, 3)) }

\* Infinities, largest, one, least normal and subnormal numbers, zeros and NaNs.
Floats32 ==
  { W(<<255, 128, 0, 0>>), W(<<255, 127, 255, 255>>), W(<<191, 128, 0, 0>>),
    W(<<128, 128, 0, 0>>), W(<<128, 0, 0, 1>>), W(<<128, 0, 0, 0>>), W(<<0, 0, 0, 0>>),
    W(<<0, 0, 0, 1>>), W(<<0, 128, 0, 0>>), W(<<63, 128, 0, 0>>), W(<<127, 127, 255, 255>>),
    W(<<127, 128, 0, 0>>), W(<<127, 192, 0, 0>>), W(<<255, 192, 0, 7>>) }

Wide(w) == [i \in 0..63 |-> IF i < 32 THEN 0 ELSE w[i - 32]]
Floats64 == {Wide(w) : w \in Floats32} \cup {W(<<63, 240, 0, 0, 0, 0, 0, 1>>)}

Chars == { W(<<0, 0, 0, 0>>), W(<<0, 0, 0, 97>>), W(<<0, 0, 215, 255>>),
           W(<<0, 0, 224, 0>>), W(<<0, 0, 255, 253>>), W(<<0, 1, 0, 0>>), W(<<0, 16, 255, 255>>) }

Bools == {Zero, ByteOf(1)}

Words(ty) ==
  CASE ty.kind \in {"uint", "int"} -> Edges(ty.bytes)
    [] ty.kind = "float" -> IF ty.bytes = 4 THEN Floats32 ELSE Floats64
    [] ty.kind = "char"  -> Chars
    [] ty.kind = "bool"  -> Bools

Types ==
  {Primitive(k, n) : k \in {"uint", "int"}, n \in {1, 2, 4, 8, 16}}
    \cup {Primitive("float", 4), Primitive("float", 8),
          Primitive("char", 4), Primitive("bool", 1)}

\* Parameters of a user's own: the trait may be implemented outside the crate.
Custom1 == Params("Descending", "Little", "none")
Custom2 == Params("Unordered", "Big", "none")

SomeParams ==
  {AscendingOrder, DescendingOrder, NativeBinary, Custom1, Custom2}

I16 == Primitive("int", 2)
U8  == Primitive("uint", 1)
F32 == Primitive("float", 4)

SomeInts   == {W(<<0, 1>>), W(<<255, 255>>), W(<<128, 0>>)}
SomeFloats == {W(<<128, 0, 0, 0>>), W(<<63, 128, 0, 0>>), W(<<191, 128, 0, 0>>)}

Pairs == {<<Number(I16, v), Number(F32, w)>> : v \in SomeInts, w \in SomeFloats}

A == ByteOf(97)
B == ByteOf(98)
C == ByteOf(99)

One(n)   == Number(U8, W(<<n>>))
Neg      == Number(I16, W(<<255, 255>>))
Pos      == Number(I16, W(<<0, 3>>))

Options  == { <<None>>, <<Some, Neg>>, <<Some, Pos>> }
Enums    == { <<Variant(0)>>, <<Variant(1), Pos>>, <<Variant(1), Neg>>,
              <<Variant(127)>>, <<Variant(128)>>, <<Variant(300), Neg>> }
Texts    == { <<Bytes(<<A>>), Neg>>, <<Bytes(<<A>>), Pos>>, <<Bytes(<<A, B>>), Neg>>,
              <<Bytes(<<B, A>>), Pos>>, <<Bytes(<< >>), Pos>> }
Vectors  == { <<SeqOrMap(0), Neg>>, <<SeqOrMap(1), One(1), Neg>>,
              <<SeqOrMap(1), One(3), Neg>>, <<SeqOrMap(2), One(1), One(3), Pos>> }

Serdes == [pairs |-> Pairs, options |-> Options, enums |-> Enums, texts |-> Texts,
           vectors |-> Vectors]

\* Names of single primitives, of keys of two fields (newest first within a group,
\* say) and of what Serializer is given.
SingleName == [of : {"single"}, ty : Types, p : SomeParams]
PairName   == [of : {"pair"}, fst : {AscendingOrder, DescendingOrder},
                              snd : {AscendingOrder, DescendingOrder}]
SerdeName  ==
  [of : DOMAIN Serdes, p : {AscendingOrder}, order : {"Ascending", "Descending"}]
    \cup [of : DOMAIN Serdes, p : {PortableBinary, NativeBinary}, order : {"Ascending"}]

MCSchema ==
  [n \in SingleName \cup PairName \cup SerdeName |->
     CASE n.of = "single" -> Direct(<<Field(n.ty, n.p)>>, {<<Number(n.ty, w)>> : w \in Words(n.ty)})
       [] n.of = "pair"   -> Direct(<<Field(I16, n.fst), Field(F32, n.snd)>>, Pairs)
       [] OTHER           -> Serde(n.p, n.order, Serdes[n.of])]

\* Bytes that are no char in one order or the other, keys that are too short.
MCForeign ==
  { << >>, <<ByteOf(7)>>, <<Zero, ByteOf(128)>>,
    <<Zero, Zero, ByteOf(216), Zero>>, <<ByteOf(255), ByteOf(255), ByteOf(39), ByteOf(255)>>,
    <<Zero, ByteOf(17), Zero, Zero>>, <<Zero, ByteOf(216), Zero, Zero>>,
    [i \in 1..8 |-> ByteOf(i)], [i \in 1..16 |-> ByteOf(240 - i)] }

=============================================================================
