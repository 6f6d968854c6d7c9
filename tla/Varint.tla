------------------------------- MODULE Varint -------------------------------
(***************************************************************************)
(* The variable-length integers of src/src/varint.rs at their real widths. *)
(* A byte is a function from bit positions 0..7 to bits, a word of type u  *)
(* one from 0..8 * u.bytes - 1, so that the shifts of the code are index   *)
(* shifts, bits that leave the word are lost and nothing overflows.  The   *)
(* two implementations of the trait, for u64 and u32, differ in the width, *)
(* in the table of lengths and in the first byte of their longest form.    *)
(***************************************************************************)
EXTENDS Integers, Sequences, FiniteSetsExt

Bit == {0, 1}
BitByte == [0..7 -> Bit]

Weight == <<1, 2, 4, 8, 16, 32, 64, 128>>

ByteOf(n) == [k \in 0..7 |-> (n \div Weight[k + 1]) % 2]
Zero == ByteOf(0)

\* LENGTHS: bytes needed, by the number of leading zeros of the word.
LENGTHS64 ==
  <<9,9,9,9,9,9,9,9, 8,8,8,8,8,8,8, 7,7,7,7,7,7,7, 6,6,6,6,6,6,6, 5,5,5,5,5,5,5,
    4,4,4,4,4,4,4, 3,3,3,3,3,3,3, 2,2,2,2,2,2,2, 1,1,1,1,1,1,1,1>>

\* Mutant: the longest form is taken one bit length too early.
LENGTHS32Early ==
  <<5,5,5,5,5, 4,4,4,4,4,4, 3,3,3,3,3,3,3, 2,2,2,2,2,2,2, 1,1,1,1,1,1,1,1>>

LENGTHS32 ==
  <<5,5,5,5, 4,4,4,4,4,4,4, 3,3,3,3,3,3,3, 2,2,2,2,2,2,2, 1,1,1,1,1,1,1,1>>

U64 == [bytes |-> 8, lengths |-> LENGTHS64]
U32 == [bytes |-> 4, lengths |-> LENGTHS32]
Type == {U64, U32}

Width(u) == 8 * u.bytes
Word(u)  == [0..Width(u) - 1 -> Bit]

\* The longest form, a marker byte and the word itself.
FullLen(u) == u.bytes + 1

LeadingZeros(u, v) ==
  LET ones == {i \in DOMAIN v : v[i] = 1}
  IN IF ones = {} THEN Width(u) ELSE Width(u) - 1 - Max(ones)

TrailingZeros(b) ==
  LET ones == {i \in DOMAIN b : b[i] = 1}
  IN IF ones = {} THEN 8 ELSE Min(ones)

\* varu_encoded_len
EncodedLen(u, v) == u.lengths[LeadingZeros(u, v) + 1]

\* varu_decoded_len: the same for both types.
DecodedLen(first) == TrailingZeros(first) + 1

\* to_le_bytes and from_le_bytes
LeBytes(u, w) == [j \in 1..u.bytes |-> [k \in 0..7 |-> w[8 * (j - 1) + k]]]
FromLeBytes(u, s) == [i \in 0..Width(u) - 1 |-> s[i \div 8 + 1][i % 8]]

\* Mutant: (v | 1) << (len - 1)
TaggedOver(u, v, len) ==
  [i \in 0..Width(u) - 1 |-> IF i < len - 1 THEN 0
                             ELSE IF i = len - 1 THEN 1 ELSE v[i - len + 1]]

\* (v << 1 | 1) << (len - 1)
Tagged(u, v, len) ==
  [i \in 0..Width(u) - 1 |-> IF i < len - 1 THEN 0
                             ELSE IF i = len - 1 THEN 1 ELSE v[i - len]]

\* varu_to_slice panics on a slice too short for it; in its longest form it
\* takes only a slice of exactly that length.
SliceFits(u, v, n) ==
  IF EncodedLen(u, v) = FullLen(u) THEN n = FullLen(u) ELSE n >= u.bytes

\* Mutant: the u32 version, too, leaves the first byte of its longest form.
ToSliceNoMarker(u, v, slice) ==
  IF EncodedLen(u, v) = FullLen(u) THEN <<slice[1]>> \o LeBytes(u, v)
  ELSE LeBytes(u, Tagged(u, v, EncodedLen(u, v)))
         \o SubSeq(slice, u.bytes + 1, Len(slice))

\* The contents of the slice after varu_to_slice.  The u64 version leaves the
\* first byte of the longest form to the caller, the u32 version sets it.
ToSlice(u, v, slice) ==
  IF EncodedLen(u, v) = FullLen(u)
  THEN <<IF u = U32 THEN ByteOf(240) ELSE slice[1]>> \o LeBytes(u, v)
  ELSE LeBytes(u, Tagged(u, v, EncodedLen(u, v)))
         \o SubSeq(slice, u.bytes + 1, Len(slice))

\* varu_to_writer: the first byte and the others in two calls of write.
Writes(u, v) ==
  LET bytes == ToSlice(u, v, [j \in 1..FullLen(u) |-> Zero])
  IN << <<bytes[1]>>, SubSeq(bytes, 2, EncodedLen(u, v)) >>

Encoding(u, v) == Writes(u, v)[1] \o Writes(u, v)[2]

Decoded(err, val) == [err |-> err, val |-> val]
Failed(err) == Decoded(err, << >>)

\* from_le_bytes(first, others, 0 ...) >> len
Untagged(u, len, first, others) ==
  LET s == [j \in 1..u.bytes |->
              IF j = 1 THEN first ELSE IF j <= len THEN others[j - 1] ELSE Zero]
      w == FromLeBytes(u, s)
  IN [i \in 0..Width(u) - 1 |-> IF i + len < Width(u) THEN w[i + len] ELSE 0]

\* Mutant: encodings one byte longer than needed pass.
OverlongByTwo(u, len, val) ==
  len # 1 /\ \A i \in 7 * (len - 2)..Width(u) - 1 : val[i] = 0

\* With debug assertions a value that has a shorter encoding is refused.
Overlong(u, len, val) ==
  len # 1 /\ \A i \in 7 * (len - 1)..Width(u) - 1 : val[i] = 0

\* varu64_decode and varu32_decode
Decode(u, len, first, others, debug) ==
  IF Len(others) + 1 < len THEN Failed("PrematureEndOfInput")
  ELSE LET val == IF len = FullLen(u) THEN FromLeBytes(u, others)
                  ELSE Untagged(u, len, first, others)
       IN IF debug /\ Overlong(u, len, val) THEN Failed("InvalidVarintEncoding")
          ELSE Decoded("Ok", val)

\* Mutant: the limit is the size of the type, exclusive.
LenAcceptedStrict(u, len) == len < u.bytes

\* The u32 reader knows no encoding longer than its own longest form.
LenAccepted(u, len) == len <= FullLen(u)

\* Mutant: the first byte is taken for the second as well.
FromSliceTwice(u, s, debug) ==
  IF s = << >> THEN Failed("PrematureEndOfInput")
  ELSE IF ~LenAccepted(u, DecodedLen(s[1])) THEN Failed("InvalidVarintEncoding")
       ELSE Decode(u, DecodedLen(s[1]), s[1], s, debug)

\* varu_from_slice, without the length it also returns.
FromSlice(u, s, debug) ==
  IF s = << >> THEN Failed("PrematureEndOfInput")
  ELSE IF ~LenAccepted(u, DecodedLen(s[1])) THEN Failed("InvalidVarintEncoding")
       ELSE Decode(u, DecodedLen(s[1]), s[1], SubSeq(s, 2, Len(s)), debug)

=============================================================================
