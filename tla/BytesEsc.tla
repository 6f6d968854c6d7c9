------------------------------ MODULE BytesEsc ------------------------------
(***************************************************************************)
(* The byte strings of src/src/bytes_esc.rs: one string on its way through *)
(* serialize_bytes, a byte buffer with little room, and                    *)
(* deserialize_bytes_to_vec or deserialize_bytes_to_writer, or through     *)
(* their plain forms without escapes (the functions named noesc).  The     *)
(* writer makes one call of write per byte and may be refused at any; the  *)
(* readers scan the buffer escape by escape and call back at each.  They   *)
(* may see a truncated buffer, more data behind the string, or bytes that  *)
(* no writer of the crate wrote.                                           *)
(***************************************************************************)
EXTENDS Integers, Sequences, SequencesExt

CONSTANTS
  Text,      \* the byte strings that are serialized
  RawInput,  \* byte strings a reader may meet that no writer produced
  Follower,  \* what may follow a string in the reader's buffer
  MaxRoom,   \* bound on the room of a buffer
  IsUtf8(_)  \* core::str::from_utf8

\* Strings are made of bytes, and a buffer has so many of them.
ASSUME BytesEscAssumption ==
  /\ Text \subseteq Seq(0..255) /\ RawInput \subseteq Seq(0..255)
  /\ Follower \subseteq Seq(0..255)
  /\ MaxRoom \in Nat

VARIABLES
  pc,      \* start, escaping, written, refused, measuring, copying, done
  order,   \* EncodingParams::ORDER of both sides
  plain,   \* whether both sides use the forms without escapes
  text,    \* the string serialized
  done,    \* how many bytes of it have been written
  room,    \* how many bytes the buffer takes
  wire,    \* the bytes the buffer took
  follow,  \* what follows them in the reader's buffer
  rest,    \* the reader's remaining buffer
  offset,  \* how far into rest the scan has come
  len,     \* unescaped length, as measured
  api,     \* to_vec, to_writer or, for plain strings, to_string
  outRoom, \* how many bytes the output takes
  out,     \* the bytes the output took
  err,     \* the error the reader's caller got, Ok
  input    \* history: the buffer the reader was given

writerVars == <<order, plain, text, done, room, wire>>
inputVars  == <<follow, input, api, outRoom>>
vars == <<pc, writerVars, inputVars, rest, offset, len, out, err>>

Byte == 0..255

Complement(b) == 255 - b
ComplementAll(s) == [i \in DOMAIN s |-> Complement(s[i])]

\* Mutant: the terminator is exchanged with the byte that continues an escape.
EscapeAscSwapped == [start |-> 248, esc |-> 1, term |-> 255]

\* BSTR_ESCAPE_ASC and BSTR_ESCAPE_DESC
EscapeAsc  == [start |-> 248, esc |-> 255, term |-> 1]
EscapeDesc == [f \in {"start", "esc", "term"} |-> Complement(EscapeAsc[f])]

Escape == IF order = "Descending" THEN EscapeDesc ELSE EscapeAsc

\* What is in the buffer for a byte of the string.
InOrder(b) == IF order = "Descending" THEN Complement(b) ELSE b

-----------------------------------------------------------------------------

Init ==
  /\ pc = "start"
  /\ order = "Ascending" /\ plain = FALSE /\ text = << >> /\ done = 0
  /\ room = 0 /\ wire = << >> /\ follow = << >>
  /\ rest = << >> /\ offset = 0 /\ len = 0
  /\ api = "to_vec" /\ outRoom = 0 /\ out = << >>
  /\ err = "Ok" /\ input = << >>

\* A caller serializes a string into a buffer of some size.
Begin ==
  /\ pc = "start"
  /\ order' \in {"Ascending", "Descending", "Unordered"}
  /\ plain' \in BOOLEAN
  /\ text' \in Text
  /\ room' \in 0..MaxRoom
  /\ pc' = "escaping"
  /\ UNCHANGED <<done, wire, inputVars, rest, offset, len, out, err>>

\* Mutants: a descending string is searched for the descending escape; no byte
\* is escaped.
PieceOwnEscape ==
  CASE done = Len(text)                  -> <<Escape.start, Escape.term>>
    [] done < Len(text) /\ text[done + 1] = Escape.start
                                         -> <<Escape.start, Escape.esc>>
    [] OTHER                             -> <<InOrder(text[done + 1])>>

PieceUnescaped ==
  IF done = Len(text) THEN <<Escape.start, Escape.term>> ELSE <<InOrder(text[done + 1])>>

\* The argument of the next call of write in serialize_bytes.
Piece ==
  CASE done = Len(text)                  -> <<Escape.start, Escape.term>>
    [] done < Len(text) /\ text[done + 1] = EscapeAsc.start
                                         -> <<Escape.start, Escape.esc>>
    [] OTHER                             -> <<InOrder(text[done + 1])>>

\* The same in serialize_bytes_noesc: the whole string at once, or, descending,
\* its complement byte by byte, and then no more.
PlainPiece ==
  CASE order # "Descending" -> text
    [] order = "Descending" /\ done < Len(text) -> <<InOrder(text[done + 1])>>
    [] OTHER -> << >>

\* One call of write; an error ends serialize_bytes or serialize_bytes_noesc.
WritePiece ==
  LET piece == IF plain THEN PlainPiece ELSE Piece
  IN /\ pc = "escaping"
     /\ \/ /\ Len(wire) + Len(piece) <= room
           /\ wire' = wire \o piece
           /\ done' = IF plain /\ order # "Descending" THEN Len(text) + 1 ELSE done + 1
           /\ pc' = IF done' = Len(text) + 1 THEN "written" ELSE "escaping"
        \/ /\ Len(wire) + Len(piece) > room
           /\ pc' = "refused"
           /\ UNCHANGED <<wire, done>>
     /\ UNCHANGED <<order, plain, text, room, inputVars, rest, offset, len, out, err>>

\* deserialize_bytes_to_vec measures first and then copies into a vector that
\* grows; deserialize_bytes_to_writer copies into what the caller provides; the
\* plain forms have nothing to measure.
OpenReader(bytes) ==
  /\ input' = bytes /\ rest' = bytes
  /\ \/ api' = "to_vec" /\ outRoom' = Len(bytes)
        /\ pc' = IF plain' THEN "copying" ELSE "measuring"
     \/ plain' /\ api' = "to_string" /\ outRoom' = Len(bytes) /\ pc' = "copying"
     \/ api' = "to_writer" /\ outRoom' \in 0..MaxRoom /\ pc' = "copying"

\* The reader gets what the buffer took, whole and perhaps followed by more,
\* or cut off anywhere.
Deliver ==
  /\ pc \in {"written", "refused"}
  /\ UNCHANGED <<writerVars, offset, len, out, err>>
  /\ \/ pc = "written" /\ follow' \in Follower /\ OpenReader(wire \o follow')
     \/ \E n \in 0..Len(wire) - 1 : OpenReader(SubSeq(wire, 1, n)) /\ UNCHANGED follow

\* The reader gets bytes that serialize_bytes never wrote.
Corrupt ==
  /\ pc = "start"
  /\ order' \in {"Ascending", "Descending"}
  /\ plain' \in BOOLEAN
  /\ \E bytes \in RawInput : OpenReader(bytes)
  /\ UNCHANGED <<text, done, room, wire, follow, offset, len, out, err>>

\* apply_over_esc: the part of the buffer not yet scanned (b in the code), the
\* bytes of it up to the next escape, and the byte after the escape.
Unscanned == SubSeq(rest, offset + 1, Len(rest))
EscapeAt  == IF \E i \in DOMAIN Unscanned : Unscanned[i] = Escape.start
             THEN SelectInSeq(Unscanned, LAMBDA b : b = Escape.start) ELSE 0
Scanned   == SubSeq(Unscanned, 1, EscapeAt)
Code      == Unscanned[EscapeAt + 1]
Dangling  == EscapeAt = 0 \/ EscapeAt = Len(Unscanned)

\* Mutant: any byte may follow an escape.
MalformedNever == FALSE

Malformed == Code \notin {Escape.esc, Escape.term}

\* Mutant: the terminator counts as a byte of the string.
MeasuredWithTerm == EscapeAt

\* What unescaped_length adds: the escape counts before esc and not before term.
Measured == IF Code = Escape.esc THEN EscapeAt ELSE EscapeAt - 1

\* Mutant: the escape byte is dropped before esc as well.
UnescapedWithout == Front(Scanned)

\* What the readers copy: the escape stands for itself before esc and for
\* nothing before term.
Unescaped == IF Code = Escape.esc THEN Scanned ELSE Front(Scanned)

\* unescaped_length, one round of the loop; the reader does not advance.
Measure ==
  /\ pc = "measuring"
  /\ \/ /\ Dangling
        /\ err' = "PrematureEndOfInput" /\ pc' = "done"
        /\ UNCHANGED <<offset, len>>
     \/ /\ ~Dangling /\ Malformed
        /\ err' = "InvalidByteSequenceEscape" /\ pc' = "done"
        /\ UNCHANGED <<offset, len>>
     \/ /\ ~Dangling /\ ~Malformed
        /\ len' = len + Measured
        /\ IF Code = Escape.term THEN offset' = 0 /\ pc' = "copying"
           ELSE offset' = offset + EscapeAt + 1 /\ pc' = "measuring"
        /\ UNCHANGED err
  /\ UNCHANGED <<writerVars, inputVars, rest, out>>

\* Mutant: the room of the output is not respected.
TakenWhole == [i \in DOMAIN Unescaped |-> InOrder(Unescaped[i])]

\* The output takes an ascending piece whole or not at all; a descending one
\* is complemented byte by byte and may be taken in part.
Taken ==
  LET string == [i \in DOMAIN Unescaped |-> InOrder(Unescaped[i])]
      free   == outRoom - Len(out)
  IN IF Len(string) <= free THEN string
     ELSE IF order = "Descending" THEN SubSeq(string, 1, free) ELSE << >>

\* After its loop apply_over_esc advances the reader by the length of what it
\* has not scanned, also when the loop ended with an error of its own.
AdvanceBy(n) == rest' = SubSeq(rest, n + 1, Len(rest))

\* read_escaped_bytes_asc and read_escaped_bytes_desc, one round of the loop:
\* an input that ends before the terminator, or an escape that is none (an
\* error of the callback returns at once, without advancing) ...
CopyFails ==
  /\ \/ /\ Dangling
        /\ AdvanceBy(Len(Unscanned))
        /\ err' = "PrematureEndOfInput"
     \/ /\ ~Dangling /\ Malformed
        /\ err' = "InvalidByteSequenceEscape"
        /\ UNCHANGED rest
  /\ pc' = "done"
  /\ UNCHANGED <<offset, out>>

\* ... or a piece for the output, which may have no room for it.
CopyPiece ==
  /\ ~Dangling /\ ~Malformed
  /\ out' = out \o Taken
  /\ \/ /\ Len(Taken) < Len(Unescaped)
        /\ err' = "BufferOverflow" /\ pc' = "done"
        /\ UNCHANGED <<rest, offset>>
     \/ /\ Len(Taken) = Len(Unescaped)
        /\ offset' = offset + EscapeAt + 1
        /\ IF Code = Escape.term
           THEN pc' = "done" /\ AdvanceBy(Len(rest) - offset')
           ELSE pc' = "copying" /\ UNCHANGED rest
        /\ UNCHANGED err

\* Mutant: an input that ends early is waited for.
CopyWaits ==
  /\ pc = "copying" /\ ~plain
  /\ CopyPiece
  /\ UNCHANGED <<writerVars, inputVars, len>>

Copy ==
  /\ pc = "copying" /\ ~plain
  /\ CopyFails \/ CopyPiece
  /\ UNCHANGED <<writerVars, inputVars, len>>

\* deserialize_bytes_noesc_to_writer, _to_vec and _to_string: all that remains is
\* the string.  The output refuses it as it refuses a piece; whether it is a text
\* is asked when the reader has advanced.
CopyPlain ==
  LET string == [i \in DOMAIN rest |-> InOrder(rest[i])]
  IN /\ pc = "copying" /\ plain
     /\ \/ /\ Len(string) > outRoom
           /\ out' = IF order = "Descending" THEN SubSeq(string, 1, outRoom) ELSE << >>
           /\ err' = "BufferOverflow"
           /\ UNCHANGED <<rest, offset>>
        \/ /\ Len(string) <= outRoom
           /\ AdvanceBy(Len(rest)) /\ offset' = Len(rest)
           /\ IF api = "to_string" /\ ~IsUtf8(string)
              THEN err' = "InvalidUtf8Encoding" /\ UNCHANGED out
              ELSE out' = string /\ UNCHANGED err
     /\ pc' = "done"
     /\ UNCHANGED <<writerVars, inputVars, len>>

Next == Begin \/ WritePiece \/ Deliver \/ Corrupt \/ Measure \/ Copy \/ CopyPlain

\* A reader, once called, runs to its end.
Spec == Init /\ [][Next]_vars /\ WF_vars(Measure \/ Copy \/ CopyPlain)

-----------------------------------------------------------------------------

\* Type invariant: what is stored are bytes, what is counted stays in range.
TypeOK ==
  /\ pc \in {"start", "escaping", "written", "refused", "measuring", "copying", "done"}
  /\ {text, wire, follow, rest, out, input} \subseteq Seq(Byte)
  /\ done \in 0..Len(text) + 1
  /\ Len(wire) <= room /\ Len(out) <= outRoom
  /\ offset \in 0..Len(input) /\ len \in 0..Len(input)
  /\ err \in {"Ok", "PrematureEndOfInput", "InvalidByteSequenceEscape", "BufferOverflow",
              "InvalidUtf8Encoding"}

\* The encoding of a string as the module's documentation gives it: every
\* escape byte doubled, a terminator at the end, complemented when descending.
Escaped(ord, t) ==
  LET asc == FlattenSeq([i \in DOMAIN t |->
               IF t[i] = EscapeAsc.start THEN <<EscapeAsc.start, EscapeAsc.esc>>
               ELSE <<t[i]>>]) \o <<EscapeAsc.start, EscapeAsc.term>>
  IN IF ord = "Descending" THEN ComplementAll(asc) ELSE asc

\* The encoding in use.
Encoded(t) ==
  CASE ~plain                          -> Escaped(order, t)
    [] plain /\ order = "Descending"   -> ComplementAll(t)
    [] plain /\ order # "Descending"   -> t

\* Lexicographic order of byte strings.
Less(s, t) ==
  \/ IsStrictPrefix(s, t)
  \/ \E i \in DOMAIN s \cap DOMAIN t :
       s[i] < t[i] /\ \A j \in 1..i - 1 : s[j] = t[j]

\* What serialize_bytes leaves in the buffer is the documented encoding, and
\* the descending one is the complement of the ascending one byte for byte.
WireIsEscaped == pc = "written" => wire = Encoded(text)

\* Where a string begins another, whether the end of its encoding sorts where
\* the end of the string does: the terminator meets the next byte of the other
\* string, and gives way to it only from the escape on; a plain string has no
\* terminator, and comes first also when descending.
EndSorts(short, long) ==
  IF plain THEN order # "Descending" ELSE long[Len(short) + 1] >= EscapeAsc.start

\* Two strings sort like their encodings, and against them when descending,
\* whatever escapes they hold, exactly if the first does not begin the second,
\* nor the second the first, or the end of the shorter one sorts as it should.
OrderKept ==
  pc = "written" =>
    \A t \in Text :
      (Less(text, t) <=> IF order = "Descending"
                         THEN Less(Encoded(t), wire)
                         ELSE Less(wire, Encoded(t)))
      <=> /\ IsStrictPrefix(text, t) => EndSorts(text, t)
          /\ IsStrictPrefix(t, text) => EndSorts(t, text)

\* Whether the reader was given all the writer produced, untruncated.
Intact == done = Len(text) + 1 /\ input = wire \o follow

\* What the reader can find of an intact string: a plain string has no end of its
\* own, and what follows is part of it.
Readable == IF plain THEN text \o [i \in DOMAIN follow |-> InOrder(follow[i])] ELSE text

\* A string that was written whole is read back whatever follows it, a plain one
\* with what follows it; only too small an output can fail the reader, which then
\* has not moved, and a plain string that is no text.
RoundTrip ==
  pc = "done" /\ Intact =>
    CASE api = "to_writer" /\ outRoom < Len(Readable) ->
           err = "BufferOverflow" /\ IsStrictPrefix(out, Readable) /\ rest = input
      [] api = "to_string" /\ ~IsUtf8(Readable) -> err = "InvalidUtf8Encoding"
      [] OTHER -> err = "Ok" /\ out = Readable

\* A string cut off anywhere, by its writer or after it, is reported as the end
\* of the input and never taken for a shorter string: no encoding with escapes is
\* a prefix of another.
TornIsRefused ==
  pc = "done" /\ ~plain /\ IsStrictPrefix(input, wire) =>
    err \in {"PrematureEndOfInput", "BufferOverflow"}

\* The two scans agree: once deserialize_bytes_to_vec has measured a string, the
\* copy cannot fail, and it ends with exactly the length measured, so that the
\* capacity reserved is the capacity needed; this also holds for bytes no
\* writer produced.
MeasuredLengthIsCopied ==
  [][api = "to_vec" /\ ~plain /\ pc = "copying" /\ pc' = "done"
       => err' = "Ok" /\ Len(out') = len]_vars

\* The bytes a reader has scanned when it accepts them are the encoding that
\* serialize_bytes produces of what it returns: there is one byte string for
\* each value, whoever wrote it.
AcceptedIsCanonical ==
  pc = "done" /\ err = "Ok" => SubSeq(input, 1, offset) = Encoded(out)

\* Every scan ends, whatever bytes the reader meets: each round of the loop in
\* apply_over_esc leaves less of the buffer to scan, or is the last one.
EveryScanEnds == pc \in {"measuring", "copying"} ~> pc = "done"

\* bytes_esc.rs:1: "Prefix-free encoding and decoding of byte sequences": after
\* a string is decoded the reader stands behind it.
ReaderStandsBehind == pc = "done" /\ err = "Ok" => rest = SubSeq(input, offset + 1, Len(input))

=============================================================================
