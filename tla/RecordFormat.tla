---------------------------- MODULE RecordFormat ----------------------------
(***************************************************************************)
(* The data format of Serializer (src/src/ord_ser.rs) and the size         *)
(* calculation of SizeCalc (src/src/size_calc.rs), call by call.  A value  *)
(* is the sequence of calls its Serialize implementation makes: neither    *)
(* serializer looks further than one call, the compound serializers        *)
(* (SerializeCompound, SerializeCompoundSeq) only hand calls on.           *)
(***************************************************************************)
EXTENDS Varint, SequencesExt

CONSTANT
  LenType  \* the integer type of lengths: usize, U64 or U32 by the target

\* Formats differ in the end that takes lengths, lenEnd below: "back" for
\* AscendingOrder (VarIntTailLenEncoder), "front" for PortableBinary and
\* NativeBinary (VarIntLenEncoder).

\* Why a call fails before it writes anything: a seq or map of unknown length,
\* or an error of the value's own Serialize implementation.
NoLength == "SerializeSequenceMustHaveLength"
Custom   == "Serde"

\* The calls, with what the format depends on: the bytes of a primitive or a
\* byte string, the index of a variant, the length of a seq or map.
Prim(bytes)  == [op |-> "prim", bytes |-> bytes]
Bytes(bytes) == [op |-> "bytes", bytes |-> bytes]
None         == [op |-> "none"]
Some         == [op |-> "some"]
Variant(n)   == [op |-> "variant", n |-> n]
SeqOrMap(n)  == [op |-> "seq", n |-> n]
Compound     == [op |-> "compound"]
Fail(err)    == [op |-> "fail", err |-> err]

\* The calls of a value: bytes, numbers that count something, errors.
IsCall(call) ==
  CASE call.op \in {"prim", "bytes"}  -> /\ call = [op |-> call.op, bytes |-> call.bytes]
                                         /\ call.bytes \in Seq(BitByte)
    [] call.op \in {"variant", "seq"} -> /\ call = [op |-> call.op, n |-> call.n]
                                         /\ call.n \in Nat
    [] call.op = "fail"               -> call.err \in {NoLength, Custom}
    [] OTHER                          -> call \in {None, Some, Compound}

\* The word of a number of at most four bytes.
Place == <<1, 256, 65536, 16777216>>
WordOf(u, n) ==
  [i \in 0..Width(u) - 1 |->
     IF i < 32 THEN ByteOf((n \div Place[i \div 8 + 1]) % 256)[i % 8] ELSE 0]

Piece(end, bytes) == [end |-> end, bytes |-> bytes]

\* LengthEncoder::write: VarIntTailLenEncoder, VarIntLenEncoder at lenEnd,
\* VarIntDiscrEncoder always at the front; the first byte is written first.
VarintPieces(u, n, end) ==
  <<Piece(end, Writes(u, WordOf(u, n))[1]), Piece(end, Writes(u, WordOf(u, n))[2])>>

\* Mutant: a discriminant goes where AscendingOrder has its lengths.
DiscrPiecesAtBack(n) == VarintPieces(U32, n, "back")

LenPieces(lenEnd, n) == VarintPieces(LenType, n, lenEnd)
DiscrPieces(n) == VarintPieces(U32, n, "front")

\* The calls of write and write_tail a call of Serializer makes, in order.
Pieces(lenEnd, call) ==
  CASE call.op = "prim"     -> <<Piece("front", call.bytes)>>
    [] call.op = "bytes"    -> Append(LenPieces(lenEnd, Len(call.bytes)), Piece("front", call.bytes))
    [] call.op = "none"     -> <<Piece("front", <<ByteOf(0)>>)>>
    [] call.op = "some"     -> <<Piece("front", <<ByteOf(1)>>)>>
    [] call.op = "variant"  -> DiscrPieces(call.n)
    [] call.op = "seq"      -> LenPieces(lenEnd, call.n)
    [] call.op = "compound" -> << >>

\* Mutant: a length always counts as one byte.
LenSizeOne(n) == 1

\* LengthEncoder::calc_size
LenSize(n)   == EncodedLen(LenType, WordOf(LenType, n))
DiscrSize(n) == EncodedLen(U32, WordOf(U32, n))

\* Mutant: the tag of Some is not counted.
SizeWithoutTag(call) ==
  CASE call.op = "prim"             -> Len(call.bytes)
    [] call.op = "bytes"            -> LenSize(Len(call.bytes)) + Len(call.bytes)
    [] call.op = "none"             -> 1
    [] call.op = "variant"          -> DiscrSize(call.n)
    [] call.op = "seq"              -> LenSize(call.n)
    [] call.op \in {"some", "compound"} -> 0

\* What the same call adds to SizeCalc::size, computed without writing.
Size(call) ==
  CASE call.op = "prim"             -> Len(call.bytes)
    [] call.op = "bytes"            -> LenSize(Len(call.bytes)) + Len(call.bytes)
    [] call.op \in {"none", "some"} -> 1
    [] call.op = "variant"          -> DiscrSize(call.n)
    [] call.op = "seq"              -> LenSize(call.n)
    [] call.op = "compound"         -> 0

SizeOfCalls(calls) ==
  LET sum[k \in 0..Len(calls)] == IF k = 0 THEN 0 ELSE sum[k - 1] + Size(calls[k])
  IN sum[Len(calls)]

SizeOfPieces(pieces) ==
  LET sum[k \in 0..Len(pieces)] == IF k = 0 THEN 0 ELSE sum[k - 1] + Len(pieces[k].bytes)
  IN sum[Len(pieces)]

-----------------------------------------------------------------------------

\* What one call contributes to each end of the record.  A length at the back
\* is stored with its first byte last, where a reader of that end begins.
LenAt(lenEnd, end, n) ==
  LET e == Encoding(LenType, WordOf(LenType, n))
  IN IF end # lenEnd THEN << >>
     ELSE IF end = "front" THEN e ELSE Tail(e) \o <<Head(e)>>

FrontPart(lenEnd, call) ==
  CASE call.op = "prim"     -> call.bytes
    [] call.op = "bytes"    -> LenAt(lenEnd, "front", Len(call.bytes)) \o call.bytes
    [] call.op = "none"     -> <<ByteOf(0)>>
    [] call.op = "some"     -> <<ByteOf(1)>>
    [] call.op = "variant"  -> Encoding(U32, WordOf(U32, call.n))
    [] call.op = "seq"      -> LenAt(lenEnd, "front", call.n)
    [] call.op = "compound" -> << >>

BackPart(lenEnd, call) ==
  CASE call.op = "bytes" -> LenAt(lenEnd, "back", Len(call.bytes))
    [] call.op = "seq"   -> LenAt(lenEnd, "back", call.n)
    [] OTHER             -> << >>

\* The record of a value: the front parts in the order of the calls, then the
\* back parts in the opposite order.
FrontOf(lenEnd, calls) ==
  FlattenSeq([k \in DOMAIN calls |-> FrontPart(lenEnd, calls[k])])

BackOf(lenEnd, calls) ==
  FlattenSeq(Reverse([k \in DOMAIN calls |-> BackPart(lenEnd, calls[k])]))

RecordOf(lenEnd, calls) == FrontOf(lenEnd, calls) \o BackOf(lenEnd, calls)

\* The calls before the first one that fails by itself.
BeforeFail(calls) ==
  IF \E i \in DOMAIN calls : calls[i].op = "fail"
  THEN SubSeq(calls, 1, SelectInSeq(calls, LAMBDA c : c.op = "fail") - 1)
  ELSE calls

Fails(calls)   == BeforeFail(calls) # calls
Failure(calls) == calls[Len(BeforeFail(calls)) + 1].err

ComplementByte(b) == [k \in 0..7 |-> 1 - b[k]]
ComplementBytes(s) == [i \in DOMAIN s |-> ComplementByte(s[i])]

=============================================================================
