---------------------------- MODULE MCSerializer ----------------------------
(* Model-checking instance of Serializer: values of zero to seven bytes     *)
(* that between them use every call of the data format, both ends, lengths  *)
(* and discriminants of one and of two bytes, and the two ways a value can  *)
(* fail to be serialized; buffers of every size up to one byte too large.   *)
EXTENDS Serializer

A == ByteOf(97)
B == ByteOf(98)

U16  == Prim(<<ByteOf(0), A>>)
Str1 == Bytes(<<A>>)
Str2 == Bytes(<<A, B>>)

Whole ==
  { << >>, <<Compound>>, <<None>>, <<Some, U16>>, <<Str1, U16>>, <<Str2, Str1>>,
    <<Bytes(<< >>)>>,
    <<SeqOrMap(2), Str1, Str1>>,               \* a seq of two strings
    <<SeqOrMap(2), Str1, None, SeqOrMap(0)>>,  \* a map inside a seq
    <<SeqOrMap(200), Compound>>,               \* a seq of units
    <<Variant(1), Str1>>, <<Variant(200), U16, SeqOrMap(0)>>,
    <<Compound, Variant(130), SeqOrMap(130), Some, Str1>> }

Failing ==
  { <<Fail(NoLength)>>, <<U16, Str1, Fail(NoLength), U16>>,
    <<SeqOrMap(200), Fail(Custom)>>, <<Variant(1), Str2, Fail(Custom)>> }

MCValue == Whole \cup Failing

\* A longer, a shorter and an equally long value, and one that fails.
MCUnstable ==
  { <<Str2, Str1>>, <<None>>, <<Bytes(<< >>), None>>, <<None, Fail(Custom)>> }

=============================================================================
