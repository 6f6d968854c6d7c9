---------------------------- MODULE Deserializer ----------------------------
(***************************************************************************)
(* Reading a value back: Deserializer of src/src/ord_de.rs over a          *)
(* DeBytesReader, and the entry points de_from_bytes_asc and               *)
(* de_from_bytes_ordered of src/src/lib.rs.  A type is what its            *)
(* Deserialize implementation asks for; todo is the call stack of the      *)
(* functions at work, innermost first, and got what their visitors were    *)
(* told, in the words of RecordFormat.  Each step makes one call of the    *)
(* reader at most and fails where the code returns an error.               *)
(***************************************************************************)
EXTENDS RecordFormat

CONSTANTS
  Types,     \* the types, with those of their parts
  Sample,    \* values, each with its type and the calls that serialize it
  Extra,     \* byte strings that may lie between the two ends of a record
  Damage,    \* the bytes a byte of a record may turn into
  IsUtf8(_)  \* core::str::from_utf8

VARIABLES
  pc,      \* sent, open, reading, done
  lenEnd,  \* the end that has the lengths, as in RecordFormat
  order,   \* Descending records are inverted
  debug,   \* whether the reader is built with debug assertions
  sample,  \* the value that was serialized, and its type
  extra,   \* what lies between the ends of its record
  input,   \* the caller's bytes
  todo,    \* the functions at work, innermost first
  got,     \* what the visitors were told
  loose,   \* history: got says less than was read: a bool may be any byte but
           \* 0, Number keeps only small numbers apart, and three bits of the
           \* first byte of u32's longest form mean nothing
  early,   \* history: a visitor has left elements unread
  outcome, \* what the entry point returned
  rest, reply  \* the reader

setting == <<lenEnd, order, debug, sample>>
reader  == <<rest, reply>>
vars == <<pc, setting, extra, input, todo, got, loose, early, outcome, reader>>

R == INSTANCE DeBytesReader WITH Byte <- BitByte, MaxRead <- 0

\* The types.  Structs, tuples, units and the contents of variants are tuples:
\* deserialize_struct, deserialize_tuple_struct and the functions of
\* VariantAccess all end in deserialize_tuple, or read the one part there is.
Fixed(n)     == [t |-> "fixed", size |-> n]   \* integers and floats
Bool         == [t |-> "bool", size |-> 1]
Char         == [t |-> "char", size |-> 4]
Str          == [t |-> "str"]
Blob         == [t |-> "bytes"]
Option(ty)   == [t |-> "option", of |-> <<ty>>]
Tuple(tys)   == [t |-> "tuple", of |-> tys]
SeqOf1(ty)   == [t |-> "seq", of |-> <<ty>>]
MapOf(k, v)  == [t |-> "map", of |-> <<k, v>>]
Enum(tys)    == [t |-> "enum", of |-> tys]
Refused(t)   == [t |-> t]                     \* any, identifier, ignored

\* A type is one of these, and so are its parts.
IsType(ty) ==
  /\ ty.t \in {"fixed", "bool", "char", "str", "bytes", "option", "tuple", "seq", "map",
               "enum", "any", "identifier", "ignored"}
  /\ ty.t = "fixed" => ty.size \in Nat
  /\ ty.t = "bool" => ty = Bool
  /\ ty.t = "char" => ty = Char
  /\ ty.t \in {"option", "tuple", "seq", "map", "enum"} => ty.of \in Seq(Types)
  /\ ty.t = "enum" => \A i \in DOMAIN ty.of : ty.of[i].t = "tuple"

ASSUME DeserializerAssumption ==
  /\ LenType \in Type
  /\ \A ty \in Types : IsType(ty)
  /\ \A s \in Sample : /\ s.ty \in Types
                      /\ s.calls \in Seq({s.calls[i] : i \in DOMAIN s.calls})
                      /\ \A i \in DOMAIN s.calls : IsCall(s.calls[i]) /\ s.calls[i].op # "fail"
  /\ Extra \subseteq Seq(BitByte) /\ Damage \subseteq BitByte

\* A function at work on a type: it has still to read a value of it, the other
\* bytes of a varint, n bytes of data, or n elements.
Frame(f, ty, n, first) == [f |-> f, ty |-> ty, n |-> n, first |-> first]
Want(ty) == Frame("want", ty, 0, Zero)
Wants(tys) == [i \in DOMAIN tys |-> Want(tys[i])]

Top == Head(todo)
At(f) == pc = "reading" /\ todo # << >> /\ Top.f = f
AtType(ts) == At("want") /\ Top.ty.t \in ts

\* A byte and a word as numbers; all that no buffer is as long as are the same.
ByteValue(b) ==
  b[0] + 2 * b[1] + 4 * b[2] + 8 * b[3] + 16 * b[4] + 32 * b[5] + 64 * b[6] + 128 * b[7]

Huge == 1073741824
Number(w) ==
  LET value(j) == ByteValue([k \in 0..7 |-> w[8 * j + k]])
  IN IF \E i \in DOMAIN w : i >= 30 /\ w[i] = 1 THEN Huge
     ELSE value(0) + 256 * value(1) + 65536 * value(2) + 16777216 * value(3)

\* char::from_u32
IsChar(s) ==
  /\ ByteValue(s[1]) = 0 /\ ByteValue(s[2]) <= 16
  /\ ~(ByteValue(s[2]) = 0 /\ ByteValue(s[3]) \in 216..223)

-----------------------------------------------------------------------------

\* A reader is set up for one format; the entry points know only the ascending
\* one and its inversion.
Init ==
  /\ pc = "sent"
  /\ lenEnd \in {"front", "back"} /\ debug \in BOOLEAN
  /\ order \in {"Ascending", "Descending"}
  /\ order = "Descending" => lenEnd = "back"
  /\ sample \in Sample
  /\ extra = << >> /\ input = << >> /\ todo = << >> /\ got = << >>
  /\ loose = FALSE /\ early = FALSE /\ outcome = "none"
  /\ rest = << >> /\ reply = R!Answer("new", "Ok", << >>)

InOrder(s) == IF order = "Descending" THEN ComplementBytes(s) ELSE s
Record == RecordOf(lenEnd, sample.calls)

\* The caller has the record, perhaps with the records of other values that
\* were written to the same buffer between its ends, the start of it, or the
\* record with one byte changed.
Deliver ==
  /\ pc = "sent"
  /\ \/ /\ extra' \in Extra
        /\ input' = InOrder(FrontOf(lenEnd, sample.calls) \o extra' \o BackOf(lenEnd, sample.calls))
     \/ /\ \E n \in 0..Len(Record) - 1 : input' = InOrder(SubSeq(Record, 1, n))
        /\ UNCHANGED extra
     \/ /\ \E i \in 1..Len(Record), b \in Damage :
             input' = InOrder([Record EXCEPT ![i] = b])
        /\ UNCHANGED extra
  /\ pc' = "open"
  /\ UNCHANGED <<setting, todo, got, loose, early, outcome, reader>>

\* de_from_bytes_ordered inverts its input; DeBytesReader::new
Open ==
  /\ pc = "open"
  /\ rest' = InOrder(input)
  /\ todo' = <<Want(sample.ty)>>
  /\ pc' = "reading"
  /\ UNCHANGED <<setting, extra, input, got, loose, early, outcome, reply>>

\* The function at work is done and calls others, or tells its visitor.
Continue(frames, told) ==
  /\ todo' = frames \o Tail(todo)
  /\ got' = got \o told
  /\ UNCHANGED <<pc, outcome>>

\* Mutant: an input that ends is waited for.
FailWithUnlessMoreComes(err) ==
  /\ IF err = "PrematureEndOfInput" THEN UNCHANGED <<pc, outcome>>
                                    ELSE outcome' = err /\ pc' = "done"
  /\ UNCHANGED <<todo, got>>

\* An error is returned all the way to the caller.
FailWith(err) ==
  /\ outcome' = err
  /\ pc' = "done"
  /\ UNCHANGED <<todo, got>>

\* One call of read or read_tail, whose callback returns err.
Reads(end, n, err) ==
  /\ IF end = "front" THEN R!Read(n) ELSE R!ReadTail(n)
  /\ n <= Len(rest) => (reply'.err = "Ok" <=> err = "Ok")

ReadFailed == reply'.err # "Ok"
ReadError(err) == IF reply'.err = "CallbackError" THEN err ELSE reply'.err

\* impl_nums!: numbers, bool and char.  What a bool or char may be is looked at
\* when its bytes are consumed.
ReadPrimitive ==
  /\ AtType({"fixed", "bool", "char"})
  /\ Reads("front", Top.ty.size, "Ok")
  /\ CASE ReadFailed -> FailWith(ReadError("Ok"))
       [] ~ReadFailed /\ Top.ty.t = "char" /\ ~IsChar(reply'.bytes)
            -> FailWith("InvalidUtf8Encoding")
       [] ~ReadFailed /\ Top.ty.t = "bool"
            -> Continue(<< >>, <<Prim(<<ByteOf(IF reply'.bytes = <<Zero>> THEN 0 ELSE 1)>>)>>)
       [] OTHER -> Continue(<< >>, <<Prim(reply'.bytes)>>)
  /\ loose' = (loose \/ (/\ Top.ty.t = "bool" /\ ~ReadFailed
                         /\ reply'.bytes \notin {<<ByteOf(0)>>, <<ByteOf(1)>>}))
  /\ UNCHANGED <<setting, extra, input, early>>

\* deserialize_option
ReadOption ==
  /\ AtType({"option"})
  /\ Reads("front", 1, "Ok")
  /\ CASE ReadFailed -> FailWith(ReadError("Ok"))
       [] ~ReadFailed /\ reply'.bytes = <<ByteOf(0)>> -> Continue(<< >>, <<None>>)
       [] ~ReadFailed /\ reply'.bytes = <<ByteOf(1)>>
            -> Continue(Wants(Top.ty.of), <<Some>>)
       [] OTHER -> FailWith("InvalidTagEncoding")
  /\ UNCHANGED <<setting, extra, input, loose, early>>

\* Mutant: a discriminant is read where lengths are.
NumberEndOfLengths(ty) == lenEnd

\* LengthEncoder::read: lengths of strings, seqs and maps where the format has
\* them, discriminants of enums at the front.
NumberEnd(ty)  == IF ty.t = "enum" THEN "front" ELSE lenEnd
NumberType(ty) == IF ty.t = "enum" THEN U32 ELSE LenType

ReadNumberFirst ==
  /\ AtType({"str", "bytes", "seq", "map", "enum"})
  /\ Reads(NumberEnd(Top.ty), 1, "Ok")
  /\ CASE ReadFailed -> FailWith(ReadError("Ok"))
       [] ~ReadFailed /\ ~LenAccepted(NumberType(Top.ty), DecodedLen(reply'.bytes[1]))
            -> FailWith("InvalidVarintEncoding")
       [] OTHER -> Continue(<<Frame("others", Top.ty, 0, reply'.bytes[1])>>, << >>)
  /\ UNCHANGED <<setting, extra, input, loose, early>>

\* What follows a length or discriminant n: the data of a string, the elements,
\* or the contents of the variant, unless the type has none of that index.
AfterNumber(ty, n) ==
  CASE ty.t \in {"str", "bytes"} -> Continue(<<Frame("data", ty, n, Zero)>>, << >>)
    [] ty.t \in {"seq", "map"}   -> Continue(<<Frame("elems", ty, n, Zero)>>, <<SeqOrMap(n)>>)
    [] ty.t = "enum" /\ n < Len(ty.of)
         -> Continue(Wants(ty.of[n + 1].of), <<Variant(n)>>)
    [] OTHER -> FailWith("Serde")

\* What a number does not tell of its bytes: the longest form of a u32 is written
\* with 240 as its first byte, and read with others.
Vague(u, first, n) ==
  \/ n = Huge
  \/ u = U32 /\ DecodedLen(first) = FullLen(U32) /\ first # ByteOf(240)

ReadNumberOthers ==
  /\ At("others")
  /\ LET ty  == Top.ty
         end == NumberEnd(ty)
         len == DecodedLen(Top.first)
         num == Decode(NumberType(ty), len, Top.first,
                       IF end = "front" THEN R!FirstBytes(len - 1)
                       ELSE R!LastBytes(len - 1), debug)
     IN /\ Reads(end, len - 1, num.err)
        /\ IF ReadFailed THEN FailWith(ReadError(num.err)) ELSE AfterNumber(ty, Number(num.val))
        /\ loose' = (loose \/ (~ReadFailed /\ Vague(NumberType(ty), Top.first, Number(num.val))))
  /\ UNCHANGED <<setting, extra, input, early>>

\* visit_bytebuf: the callback looks at the text before it is consumed.
ReadData ==
  /\ At("data")
  /\ LET err == IF Top.ty.t = "bytes" \/ IsUtf8(R!FirstBytes(Top.n)) THEN "Ok"
                ELSE "InvalidUtf8Encoding"
     IN /\ Reads("front", Top.n, err)
        /\ IF ReadFailed THEN FailWith(ReadError(err))
           ELSE Continue(<< >>, <<Bytes(reply'.bytes)>>)
  /\ UNCHANGED <<setting, extra, input, loose, early>>

\* deserialize_tuple: as many elements as the type has, with nothing to read
\* but the elements.
EnterTuple ==
  /\ AtType({"tuple"})
  /\ Continue(Wants(Top.ty.of), <<Compound>>)
  /\ UNCHANGED <<setting, extra, input, loose, early, reader>>

\* Mutants: one element too many; a seq that ends with the input.
NextElementOneMore ==
  /\ At("elems")
  /\ IF Top.n >= 0
     THEN Continue(Append(Wants(Top.ty.of), [Top EXCEPT !.n = @ - 1]), << >>)
     ELSE Continue(<< >>, << >>)
  /\ UNCHANGED <<setting, extra, input, loose, early, reader>>

NextElementWhileInput ==
  /\ At("elems")
  /\ IF Top.n > 0 /\ rest # << >>
     THEN Continue(Append(Wants(Top.ty.of), [Top EXCEPT !.n = @ - 1]), << >>)
     ELSE Continue(<< >>, << >>)
  /\ UNCHANGED <<setting, extra, input, loose, early, reader>>

\* next_element_seed, next_key_seed and next_value_seed, for a visitor that asks
\* until it is told there are no more.
NextElement ==
  /\ At("elems")
  /\ IF Top.n > 0
     THEN Continue(Append(Wants(Top.ty.of), [Top EXCEPT !.n = @ - 1]), << >>)
     ELSE Continue(<< >>, << >>)
  /\ UNCHANGED <<setting, extra, input, loose, early, reader>>

\* A visitor may return before it was told that there are no more elements.  What
\* called it goes on where the reader stands.
StopEarly ==
  /\ At("elems") /\ Top.n > 0
  /\ Continue(<< >>, << >>)
  /\ early' = TRUE
  /\ UNCHANGED <<setting, extra, input, loose, reader>>

\* The data format does not describe itself.
Refuse ==
  /\ AtType({"any", "identifier", "ignored"})
  /\ FailWith(CASE Top.ty.t = "any"        -> "DeserializeAnyNotSupported"
            [] Top.ty.t = "identifier" -> "DeserializeIdentifierNotSupported"
            [] Top.ty.t = "ignored"    -> "DeserializeIgnoredAny")
  /\ UNCHANGED <<setting, extra, input, loose, early, reader>>

\* The value is complete.  Nobody asks whether the input is.
Finish ==
  /\ pc = "reading" /\ todo = << >>
  /\ outcome' = "Ok" /\ pc' = "done"
  /\ UNCHANGED <<setting, extra, input, todo, got, loose, early, reader>>

Step ==
  \/ Open
  \/ ReadPrimitive
  \/ ReadOption
  \/ ReadNumberFirst
  \/ ReadNumberOthers
  \/ ReadData
  \/ EnterTuple
  \/ NextElement
  \/ StopEarly
  \/ Refuse
  \/ Finish

Next == Deliver \/ Step

\* A deserializer that was called is sequential code and goes on.
Spec == Init /\ [][Next]_vars /\ WF_vars(Step)

-----------------------------------------------------------------------------

\* Type invariant: the reader has no more than the input, the counts of the
\* functions at work stay counts, and only errors of the code are returned.
TypeOK ==
  /\ pc \in {"sent", "open", "reading", "done"}
  /\ {input, rest, extra} \subseteq Seq(BitByte) /\ Len(rest) <= Len(input)
  /\ \A i \in DOMAIN todo : todo[i].n \in 0..Huge /\ todo[i].first \in BitByte
  /\ outcome \in {"none", "Ok", "PrematureEndOfInput", "InvalidUtf8Encoding",
                  "InvalidTagEncoding", "InvalidVarintEncoding", "Serde",
                  "DeserializeAnyNotSupported", "DeserializeIdentifierNotSupported",
                  "DeserializeIgnoredAny"}

\* The calls that a value of a type may begin with, and the types of its parts,
\* as its Serialize and Deserialize implementations agree on them.
Begun(ty, call) ==
  CASE ty.t = "fixed" -> call.op = "prim" /\ Len(call.bytes) = ty.size
    [] ty.t = "bool"  -> call \in {Prim(<<ByteOf(0)>>), Prim(<<ByteOf(1)>>)}
    [] ty.t = "char"  -> call.op = "prim" /\ Len(call.bytes) = ty.size /\ IsChar(call.bytes)
    [] ty.t = "str"   -> call.op = "bytes" /\ Len(call.bytes) < Huge /\ IsUtf8(call.bytes)
    [] ty.t = "bytes" -> call.op = "bytes" /\ Len(call.bytes) < Huge
    [] ty.t = "option" -> call.op \in {"none", "some"}
    [] ty.t = "tuple"  -> call.op = "compound"
    [] ty.t \in {"seq", "map"} -> call.op = "seq" /\ call.n < Huge
    [] ty.t = "enum"   -> call.op = "variant" /\ call.n < Huge /\ call.n < Len(ty.of)
    [] OTHER -> FALSE

Copies(n, types) == FlattenSeq([i \in 1..n |-> types])

PartsOf(ty, call) ==
  CASE call.op \in {"some", "compound"} -> ty.of
    [] call.op = "seq"     -> Copies(call.n, ty.of)
    [] call.op = "variant" -> ty.of[call.n + 1].of
    [] OTHER -> << >>

\* The types of what is still to come of a value after each of its calls, and
\* whether the calls are those of a value of its type.
Fits(types, call) == types # << >> /\ Begun(Head(types), call)

Wanted(s) ==
  LET wanted[k \in 0..Len(s.calls)] ==
        IF k = 0 THEN <<s.ty>>
        ELSE IF Fits(wanted[k - 1], s.calls[k])
             THEN PartsOf(Head(wanted[k - 1]), s.calls[k]) \o Tail(wanted[k - 1])
             ELSE << >>
  IN wanted

Readable(s) ==
  /\ \A k \in 1..Len(s.calls) : Fits(Wanted(s)[k - 1], s.calls[k])
  /\ Wanted(s)[Len(s.calls)] = << >>

Intact == input = InOrder(FrontOf(lenEnd, sample.calls) \o extra \o BackOf(lenEnd, sample.calls))
Torn   == extra = << >> /\ IsStrictPrefix(InOrder(input), Record)

\* A record is read back as the value it was made from, in every format and
\* order, and what other values left between its ends is then all the reader
\* has: one value can be read after another from the same reader.
RoundTrip ==
  pc = "done" /\ Intact /\ Readable(sample) /\ ~early =>
    outcome = "Ok" /\ got = sample.calls /\ rest = extra

\* The bytes the function at work has consumed without having told a visitor:
\* the first byte of a varint, or the length of a string.
Held(end) ==
  CASE todo # << >> /\ Top.f = "others" /\ NumberEnd(Top.ty) = end -> <<Top.first>>
    [] todo # << >> /\ Top.f = "data" -> LenAt(lenEnd, end, Top.n)
    [] OTHER -> << >>

\* The checks of a value that come after its bytes were consumed.
FailedAfterReading ==
  \/ outcome \in {"InvalidTagEncoding", "Serde"}
  \/ outcome \in {"InvalidUtf8Encoding", "InvalidVarintEncoding"} /\ Top.f = "want"

\* At every moment the bytes consumed at the two ends are the encoding of what
\* the visitors were told, byte for byte, and of the length at hand; elements that a
\* visitor leaves unread are still there, and read as what comes next.  So an input
\* that is accepted is the only record of its value (with debug assertions, but
\* for a bool), and a read or a callback that fails, as on a text that is not
\* UTF-8, leaves what it looked at in the reader.
EveryByteAccounted ==
  debug /\ ~loose /\ pc \in {"reading", "done"} /\ ~FailedAfterReading =>
    InOrder(input) = FrontOf(lenEnd, got) \o Held("front") \o rest
                       \o Held("back") \o BackOf(lenEnd, got)

\* With all lengths at the front a record that is cut off anywhere is missed at
\* its end, and not taken for another value.
TornIsRefused ==
  pc = "done" /\ lenEnd = "front" /\ Torn /\ Readable(sample) /\ ~early =>
    outcome = "PrematureEndOfInput"

\* Every call ends, whatever the input: counts that come from the input count
\* down, and functions return to those that called them.
EveryCallEnds == pc = "open" ~> pc = "done"

\* lib.rs:24: "encoding puts lengths of variable-size sequences to the end of
\* serialized data, so resulting encoding is prefix-free": no record of a value
\* is the start of the record of another value of the same type.
PrefixFree ==
  pc = "done" /\ debug /\ Torn /\ ~early => ~(outcome = "Ok" /\ rest = << >>)

=============================================================================
