---------------------------- MODULE VarintStream ----------------------------
(***************************************************************************)
(* One integer on its way through varu_to_writer, a byte buffer with       *)
(* little room, and varu_from_reader (src/src/varint.rs).  The writer      *)
(* makes two calls of write and may be refused at either; the reader makes *)
(* two calls of read and may fail at either, with the first byte consumed. *)
(* It may be of the other width, may see a truncated buffer, the next      *)
(* record behind this one, or bytes no writer of the crate produced.       *)
(***************************************************************************)
EXTENDS Varint, SequencesExt

CONSTANTS
  Value(_),  \* the values of a type that are written
  RawInput,  \* byte strings a reader may meet that no writer produced
  Follower   \* what may follow the integer in the reader's buffer

ASSUME ValueAssumption ==
  /\ \A u \in Type : Value(u) \subseteq Word(u)
  /\ RawInput \subseteq Seq(BitByte) /\ Follower \subseteq Seq(BitByte)

VARIABLES
  pc,     \* start, writing, written, refused, sliced, reading, rest, done
  wtype,  \* the writer's type
  value,  \* the integer written
  room,   \* how many bytes the buffer takes
  wire,   \* the bytes the buffer took
  pend,   \* calls of write still to make
  given,  \* the slice the caller passes to varu_to_slice
  slice,  \* what varu_to_slice made of it, empty after a panic
  rtype,  \* the reader's type
  debug,  \* whether the reader is built with debug assertions
  follow, \* what follows the integer in the reader's buffer
  input,  \* the reader's whole buffer
  used,   \* how much of it the reader has consumed
  got     \* the reader's result

sliceVars  == <<given, slice>>
writerVars == <<wtype, value, room, wire, pend, sliceVars>>
readerVars == <<rtype, debug, follow, input, used, got>>
vars == <<pc, writerVars, readerVars>>

\* The parameters of a call are chosen by the action that makes the call.
Init ==
  /\ pc = "start"
  /\ wtype = U64 /\ value = [i \in 0..63 |-> 0]
  /\ room = 0 /\ wire = << >> /\ pend = << >>
  /\ given = << >> /\ slice = << >>
  /\ rtype = U64 /\ debug = TRUE
  /\ follow = << >> /\ input = << >> /\ used = 0
  /\ got = Failed("none")

\* varu_to_writer up to its first write
Encode ==
  /\ pc = "start"
  /\ \E u \in Type : \E v \in Value(u), n \in 0..FullLen(u) :
       wtype' = u /\ value' = v /\ room' = n /\ pend' = Writes(u, v)
  /\ pc' = "writing"
  /\ UNCHANGED <<wire, sliceVars, readerVars>>

\* One call of write; an error ends varu_to_writer.
WriteOne ==
  /\ pc = "writing"
  /\ pend # << >>
  /\ \/ /\ Len(wire) + Len(Head(pend)) <= room
        /\ wire' = wire \o Head(pend)
        /\ pend' = Tail(pend)
        /\ pc' = IF Len(pend) = 1 THEN "written" ELSE "writing"
     \/ /\ Len(wire) + Len(Head(pend)) > room
        /\ pc' = "refused"
        /\ UNCHANGED <<wire, pend>>
  /\ UNCHANGED <<wtype, value, room, sliceVars, readerVars>>

\* varu_to_slice called with a slice of any length that holds zeros or ones.
EncodeToSlice ==
  /\ pc = "start"
  /\ \E u \in Type : \E v \in Value(u), n \in 0..FullLen(u), fill \in {Zero, ByteOf(255)} :
       /\ wtype' = u /\ value' = v
       /\ given' = [j \in 1..n |-> fill]
       /\ slice' = IF SliceFits(u, v, n) THEN ToSlice(u, v, given') ELSE << >>
  /\ pc' = "sliced"
  /\ UNCHANGED <<room, wire, pend, readerVars>>

\* The reader gets what the buffer took, whole and perhaps followed by more,
\* or cut off anywhere.
Deliver ==
  /\ pc \in {"written", "refused"}
  /\ \/ follow' \in Follower /\ input' = wire \o follow'
     \/ \E n \in 0..Len(wire) - 1 : input' = SubSeq(wire, 1, n) /\ follow' = << >>
  /\ rtype' \in Type /\ debug' \in BOOLEAN
  /\ pc' = "reading"
  /\ UNCHANGED <<writerVars, used, got>>

\* The reader gets bytes that no writer produced.
Corrupt ==
  /\ pc = "start"
  /\ input' \in RawInput
  /\ rtype' \in Type /\ debug' \in BOOLEAN
  /\ pc' = "reading"
  /\ UNCHANGED <<writerVars, follow, used, got>>

\* varu_from_reader: reader.read(1, ..) and the check of the length.
ReadFirst ==
  /\ pc = "reading"
  /\ \/ /\ input = << >>
        /\ got' = Failed("PrematureEndOfInput")
        /\ pc' = "done"
        /\ UNCHANGED used
     \/ /\ input # << >>
        /\ used' = 1
        /\ IF LenAccepted(rtype, DecodedLen(input[1]))
           THEN pc' = "rest" /\ UNCHANGED got
           ELSE pc' = "done" /\ got' = Failed("InvalidVarintEncoding")
  /\ UNCHANGED <<writerVars, rtype, debug, follow, input>>

\* Mutants: a failed read consumes; a short read is completed with zeros.
ReadRestConsumes ==
  LET len == DecodedLen(input[1])
  IN /\ pc = "rest"
     /\ got' = IF Len(input) < len THEN Failed("PrematureEndOfInput")
               ELSE Decode(rtype, len, input[1], SubSeq(input, 2, len), debug)
     /\ used' = len
     /\ pc' = "done"
     /\ UNCHANGED <<writerVars, rtype, debug, follow, input>>

ReadRestPadded ==
  LET len == DecodedLen(input[1])
      others == [j \in 1..len - 1 |-> IF j < Len(input) THEN input[j + 1] ELSE Zero]
  IN /\ pc = "rest"
     /\ got' = Decode(rtype, len, input[1], others, debug)
     /\ used' = IF len <= Len(input) THEN len ELSE Len(input)
     /\ pc' = "done"
     /\ UNCHANGED <<writerVars, rtype, debug, follow, input>>

\* varu_from_reader: reader.read(len - 1, decode) consumes on success only.
ReadRest ==
  LET len == DecodedLen(input[1])
  IN /\ pc = "rest"
     /\ got' = IF Len(input) < len THEN Failed("PrematureEndOfInput")
               ELSE Decode(rtype, len, input[1], SubSeq(input, 2, len), debug)
     /\ used' = IF got'.err = "Ok" THEN len ELSE 1
     /\ pc' = "done"
     /\ UNCHANGED <<writerVars, rtype, debug, follow, input>>

Next ==
  \/ Encode
  \/ WriteOne
  \/ EncodeToSlice
  \/ Deliver
  \/ Corrupt
  \/ ReadFirst
  \/ ReadRest

Spec == Init /\ [][Next]_vars

-----------------------------------------------------------------------------

\* Type invariant: the bytes and words stay bytes and words of their type.
TypeOK ==
  /\ pc \in {"start", "writing", "written", "refused", "sliced", "reading",
             "rest", "done"}
  /\ wtype \in Type /\ rtype \in Type /\ debug \in BOOLEAN
  /\ value \in Word(wtype)
  /\ {wire, given, slice, input, follow} \subseteq Seq(BitByte)
  /\ used \in 0..Len(input)
  /\ got.err \in {"none", "PrematureEndOfInput", "InvalidVarintEncoding", "Ok"}
  /\ got.err = "Ok" => got.val \in Word(rtype)

\* Whether the reader was given all the writer produced, untruncated.
Intact == pend = << >> /\ wire # << >> /\ input = wire \o follow

\* A value that was written whole is read back by a reader of its type, which
\* then stands exactly behind it, whatever comes next: the encoding delimits
\* itself and the debug check refuses no canonical encoding.
RoundTrip ==
  pc = "done" /\ Intact /\ rtype = wtype =>
    got = Decoded("Ok", value) /\ used = Len(wire)

\* The writer takes the shortest form: seven bits of the value for each byte,
\* unless it takes the longest, and the size calculator knows how many bytes.
ShortestForm ==
  pc = "written" =>
    /\ Len(wire) = EncodedLen(wtype, value)
    /\ \A n \in 1..FullLen(wtype) - 1 :
         Len(wire) <= n <=> \A i \in 7 * n..Width(wtype) - 1 : value[i] = 0

\* A value torn between the two writes or cut off anywhere, before its first
\* byte too, is reported as the end of the input and never taken for another
\* value.
TornIsRefused ==
  pc = "done" /\ wire # << >> /\ rtype = wtype
    /\ Len(input) < EncodedLen(wtype, value) =>
      got.err = "PrematureEndOfInput"

\* Writer and reader of different widths agree as long as the value has an
\* encoding of at most four bytes.
ShortFormsAgree ==
  pc = "done" /\ Intact /\ Len(wire) <= 4 =>
    /\ got.err = "Ok" /\ used = Len(wire)
    /\ \A i \in 0..31 : got.val[i] = value[i]

\* With debug assertions whatever the u64 reader accepts is the encoding its
\* writer would produce: there is one byte string for each value.
DebugReaderIsCanonical ==
  pc = "done" /\ got.err = "Ok" /\ rtype = U64 /\ debug =>
    SubSeq(input, 1, used) = Encoding(U64, got.val)

\* varu_from_slice and varu_from_reader are two ways to the same answer.
SliceReaderAgrees ==
  pc = "done" => FromSlice(rtype, input, debug) = got

\* Whatever the slice held before, varu_from_slice reads the value back from
\* what varu_to_slice left there, with and without debug assertions; only the
\* longest form of a u64 relies on the caller for a first byte of zero.
SliceReadsBack ==
  pc = "sliced" /\ slice # << >>
    /\ (wtype = U64 /\ EncodedLen(U64, value) = FullLen(U64) => given[1] = Zero) =>
      \A d \in BOOLEAN : FromSlice(wtype, slice, d) = Decoded("Ok", value)

\* varint.rs:190: "64-bit version can read data written by 32-bit encoder".
WideReaderReadsNarrowWriter ==
  pc = "done" /\ Intact /\ wtype = U32 /\ rtype = U64 =>
    got.err = "Ok" /\ \A i \in 0..63 : got.val[i] = IF i < 32 THEN value[i] ELSE 0

\* varint.rs:27: "Slice must be of enough length, and can be calculated with
\* varu_encoded_len()".
EncodedLenIsEnough ==
  pc = "sliced" /\ Len(given) >= EncodedLen(wtype, value) => slice # << >>

=============================================================================
