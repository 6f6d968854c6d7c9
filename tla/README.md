# A verification of ordcode

ordcode (`src/`) serializes Rust values to byte strings, through serde or
directly for primitive types, so that (for the default parameters) byte strings
compare like the values. It is small, sequential and allocates almost nothing;
what makes it hard is that one slice is filled and emptied from both ends, that
sizes are computed by one piece of code and consumed by another, that integers
change shape at every seventh bit, and that each call may be refused halfway.

The project has TLA+ models of the parts, TLC runs that check them on small
instances, and TLAPS proofs for every size. `PROJECT.json` lists the components,
runs, mutants, findings, hazards and theorems, and maps each definition to the
lines of `src/` it stands for.

## Inventory

| component | source | state | operations |
|---|---|---|---|
| double-ended writer | `buf.rs` 158-219 | slice, `head`, `tail` | `new`, `write`, `write_tail`, `finalize`, `is_complete` |
| double-ended reader | `buf.rs` 8-144 | the slice that remains | `peek`, `advance`, `read`, the same at the tail, `io::Read`, `is_complete` |
| adapters | `buf.rs` 116-137, 221-288 | none | `ReadFromTail`, `WriteToTail`, `WriteToHead`, `Vec<u8>` as a writer |
| varints | `varint.rs` 8-188 | none | lengths, `varu_to_writer`, `varu_from_reader`, `varu_to_slice`, `varu_from_slice` for u32 and u64 |
| length encoders | `varint.rs` 193-296 | none | `calc_size`, `read`, `write`: lengths at the tail or the head, discriminants at the head |
| byte strings | `bytes_esc.rs` | none | serialize, measure, deserialize to a vector or a writer; the forms without escapes, also to a `String` |
| serializer | `ord_ser.rs` | the writer | serde's `Serializer` and its compounds |
| size calculator | `size_calc.rs` | `size` | the same trait, adding sizes |
| deserializer | `ord_de.rs` | the reader | serde's `Deserializer`, sequence, map and variant access |
| primitives | `primitives.rs` | none | integers, bool, char, floats to ordered bytes and back, `invert_buffer` |
| entry points | `lib.rs` | none | `calc_size`, `ser_to_*`, `de_from_*` |
| parameters, errors | `params.rs`, `errors.rs` | none | order, endianness, choice of length encoders; error codes |

Interaction is by calls only. An entry point owns a slice or vector, wraps it in
a writer or reader, and lets the value (serde's generated code, outside the
crate) call the serializer or deserializer, which call primitives and length
encoders, which call `write`/`write_tail` or pass callbacks to `read`/`read_tail`.
There are no threads and nothing is persisted. What is hard is the order of calls
at the two ends, the limits of buffers, calls that fail between two writes or
two reads, and arithmetic at the boundaries; `PROJECT.json` lists these hazards
at their lines with the properties that cover them.

What makes each component correct: the writer keeps what it accepted and never
lets its ends cross; the reader hands out every byte once, in order, or nothing;
a varint is read back by its reader and delimits itself, and its size is known
beforehand; an escaped string is order-preserving, prefix-free and read back; the
calculated size is the size written; an entry point gives the record of the
value or the one error the circumstances call for; the deserializer inverts the
serializer; a primitive sorts like its bytes and is read back bit by bit.

## Modules

**TwoEndedStore** is the abstract specification of the double-ended buffer: two
byte strings, a capacity, a flag for "joined". **DeBytesWriter** is the code:
`buf`, `head` and `tail` are the fields, one action per method with its overflow
branch first, as in the code. `final` is the caller's copy of the length that
the first `finalize` returned: the code does not keep it, and neither the
caller nor the writer could tell data from slack without it. `ret` is what the
last call returned. `Store!Spec`, with `front` and `back` read off the slice, is
a PROPERTY and a theorem.

**DeBytesReader** keeps the remaining slice; `read` is peek, callback and advance
in one action, with a branch for a failing callback. `advance(n)` has the guard
`n <= Len(rest)`, the obligation the trait's doc puts on its caller (line 12 of
`buf.rs`). **DeChannel** composes the two: the writer is filled, finalized, and
the reader is built on the length that `finalize` returned. Its history variables
are what the properties are about: what was written at either end, what each call
read, and what it had asked for, so that a call that takes fewer bytes and answers
Ok does not go unnoticed (`ReadsAllOrNothing`).

**Varint** has the integer encodings at their real widths, with bytes and words
as bit functions: a shift is an index shift, bits that leave the word are lost.
`U64` and `U32` carry what differs between the two implementations of the trait.
**VarintStream** is the life of one integer: two calls of `write` into a buffer
with room for only part of it, truncation, following data, a reader of either
width and build, or a slice given to `varu_to_slice`.

**BytesEsc** is the life of one byte string, escaped or plain. `Piece` is the
argument of each call of `write`; the readers advance one round of the loop of
`apply_over_esc` at a time, first to measure and then to copy. `rest` is the
reader's buffer: it moves only when the code calls `advance`. The plain forms
(`PlainPiece`, `CopyPlain`) write the string at once or, descending, byte by byte,
and read all that remains.

**RecordFormat** has the data format of the serializer call by call. A value is
the sequence of calls its `Serialize` implementation makes; `Pieces` is what the
serializer writes for a call, `Size` what the size calculator adds for it. Both
look at a single call, because the code does: the compound serializers only
hand calls on. The formats differ in the end that takes the lengths, the parameter
`lenEnd` of the operators. **Serializer** runs the entry points over these: `SizeCall` steps
through the calls with the size calculator, `SerializeCall` and `WritePiece`
with the serializer, one write at a time, on a TwoEndedStore. **SerializeApi** is
the specification of the entry points: one request, one answer, computed from
the record of the value and the room, with no buffer and no writes. A value may
make other calls when the vector's second pass is made over it (`Unstable`): the
answer is then an error or an exact record. `calc_size` ends after the first pass
(`Measure`). A user of the crate may also make a `Serializer` over a writer that has
no tail, `Vec<u8>` or `WriteToHead`: `EndOf` sends every piece to the front, and
SerializeApi says that the record then has its lengths where they are written, as
the format with lengths at the front has.

**Deserializer** reads values back, over DeBytesReader. A type is what its
`Deserialize` implementation asks for. `todo` is the call stack: functions that
want a value of a type, a varint of which the first byte is read, data whose
length is known, a sequence or map with elements to come. `got` is what the
visitors were told, in the vocabulary of RecordFormat, so that it can be compared
with the calls that wrote the record; the reader may be set up for either kind of
length encoder. The caller's bytes are a record, a record with those of other
values between its ends, the start of a record, or one with a changed byte.
`loose` is a history variable: it marks runs in which `got` says less than was
read (every byte but 0 is the bool `true`; lengths from 2^30 on are not kept apart;
the u32 reader does not look at three bits of the first byte of its longest form,
`varint.rs:173`). Which calls are those of a value of a type is what its `Serialize`
and `Deserialize` implementations agree on: `Begun` says which call a value may begin
with, `PartsOf` what types its parts have, and `Readable` that the calls of a sample
are, one after the other, what its type asks for. The samples need not be: what the
properties say of any input is said of those, too.
A visitor need not read a sequence to its end (`StopEarly`): what called it goes on
where the reader stands, and `early` remembers that, since the value is then not
the one that was written.

**Primitives** has the encodings of integers, floats, bool and char at their real
widths, as operators on words (bit functions, as in Varint): the bias of signed
integers, the mask of floats, the complement of `ord_cond!`, and the layout of
`to_bytes!` and `from_bytes!`, for the parameters of `params.rs`; what depends on the
endianness of the target takes it as `target`. The macros of the source are instantiated for sizes;
here the size is a field of the type. **KeyStore** is what the crate is for
(`lib.rs:4`): values are made into keys, by `to_writer` with parameters of their own
for each field, or by `Serializer` with `RecordFormat`; a database, external to the
crate, keeps byte strings in order; a scan meets the keys and decodes them with
`from_reader`. Other programs may put keys there (`InsertForeign`). Records are not
decoded in this module, which is the subject of Deserializer. The order of values
that the scan is held against is defined on values alone: two's complement, IEEE
754, option before content, the first differing part.

MC modules extend these and define the values the `.cfg` files substitute. The
operators marked "Mutant" are faulty versions of a definition, each the form of
a plausible mistake in the code; `PROJECT.json` pairs each with the property that
catches it. No specification uses them.

## Runs

| run | instance | shows |
|---|---|---|
| `writer` | 4 bytes, two byte values, chunks of 0 to 3, any initial contents | all call sequences: the space is finite and explored in full |
| `channel` | 4 bytes, chunks of 1 or 2, up to 3 writes and 3 consuming reads | every way to lay a record and take it apart |
| `varint` | the words around every power of two of both widths; each room 0 to 9; raw inputs with every length of first byte | round trip, shortest form, truncation, both readers, both widths |
| `bytes_esc` | strings of up to 3 bytes over the bytes with a meaning, escaped and plain; raw inputs of up to 4; room up to 8 | order, also of strings one of which begins the other; round trip; truncation; malformed input; that a string measured is copied; end of every scan |
| `keys` | 14 primitive types (8 to 128 bits) with 5 sets of parameters on both kinds of target; keys of an i16 and an f32 in all four directions; records with options, variants, texts, vectors in 4 formats; tables of 2 keys | a scan meets values in order, keys are read back, foreign keys are refused or exact |
| `serializer` | 17 values with every kind of call, one- and two-byte lengths, failing values, values that change between two passes; room 0 to 8; slices, vectors, writers without a tail, the size alone | sizes agree call by call; the entry points implement SerializeApi; every call returns |
| `deserializer` | 18 samples with every kind of type, nested once, one- and two-byte lengths and discriminants; cut off anywhere, each byte replaced by 5 others | round trip; what is consumed at each moment; torn records; every call ends |
| `finalize_again`, `wide_reader`, `short_slice`, `reader_advance`, `prefix_free` | as the run of the same module | five statements of the documentation that the code does not keep |

Bounds. Nothing in the writer depends on more of a slice than where `head` and
`tail` are, so that four bytes have all relative positions: empty, touching, one
apart, tail longer and shorter than the gap. Two byte values are enough to see
two bytes exchanged. A varint's form depends on its bit length only, and each bit
length has its smallest and its largest word in the run. The escapes look at two
neighbouring bytes; strings of three have every pair at the start, middle and
end. Values of the serializer run to seven bytes, the room to eight: one too
large, exact, and cut off at each write. A byte of a record is replaced by the
first byte of the longest varint of either width and of a varint of two bytes, a small
length, and a byte that is in no text; lengths have 64 bits there and discriminants 32
(lengths of 32 bits are left to the theorems, which hold for either); `from_utf8` is a constant of the model, and in this
instance, where no two bytes make a longer UTF-8 sequence, it accepts ASCII. Order
and distinctness of keys are properties of pairs, so that tables of two keys are
enough; the words are the extremes of each type, the neighbours of zero and of the
sign change, and for floats (whose f64 list is that of f32 in the upper half, and
one more) both infinities, the largest and least normal and subnormal numbers, both
zeros, and NaNs of both signs.

Deadlock checking is off where a model is the life of one datum and ends, or
where calls are bounded.

Fairness. Only `Serializer`, `Deserializer` and `BytesEsc` state any: weak fairness
of the steps of a running function. The code is sequential and does not block, so that a
function that was called goes on. Nothing forces a caller to call.

## Findings

* `finalize` (`buf.rs:177`): a second call returns the length of the slice, the
  doc (`buf.rs:175`) says the data length. TwoEndedStore describes what the code
  does (`Rejoin`).
* `varint.rs:130`: the 64-bit reader does not read the five-byte form of the
  32-bit writer (values from 2^28 on), against the comment at `varint.rs:190`.
  `ShortFormsAgree` is what remains true.
* `varu_to_slice` (`varint.rs:74`, `77`): needs a slice longer than the
  `varu_encoded_len()` its doc names (`varint.rs:27`), and for a u64 of nine bytes
  leaves the first byte as it was. `SliceReadsBack` is what remains true.
* `apply_over_esc` (`bytes_esc.rs:29`): advances by what it has not scanned.
  After a string is read the reader is not behind it, against the purpose of a
  prefix-free encoding (`bytes_esc.rs:1`). Every other property of the readers
  holds, because the callbacks see the right bytes.

* (No run of its own.) That serialization "preserves lexicographic ordering of
  values" (`lib.rs:2`) is true only in the form of `ScanInOrder`: at the first part in
  which two values differ, if that is not a text one of which begins the other, not a
  sequence of another length, and not a discriminant from 128 on. Beyond that the
  code does otherwise: of `("a", "c")` and `("ab", "a")` the first is less and has the
  greater record, since `c` is compared with `b`; so is the vector `[1]` less than `[1, 2]`
  and its record `01 03` greater than `01 02 05`; and the discriminant 128 is `02 02`, less
  than `03`, that of 1. Escaped strings, too, are not in order where one begins the
  other and goes on with a byte less than the escape: `a` is `61 F8 01` and `ab` is
  `61 62 F8 01`. `OrderKept` says of every pair of strings whether its order is kept.
  The run `keys` has values of which it checks only that their keys differ: the
  operator `Kept` names the pairs whose order it does check.
* (No run of its own.) The 32-bit reader looks at the first byte of its longest form only
  for its lowest bit set (`varint.rs:173`): of the eight bytes 16, 48, ..., 240 the
  writer uses the last, and the others are read as the same value, in debug
  builds, too, although these refuse the longer forms of a value. `Vague` excepts
  these from `EveryByteAccounted`.
* The format of AscendingOrder is not prefix-free (`lib.rs:24`): a length behind the
  data can be taken for data. The string of 48 letters `a` is 49 bytes `a`, because
  97 is the varint of 48, and these are the start of the record of a longer
  string. `TornIsRefused` holds where lengths are at the front.

## Proofs

Seven modules hold the theorems, and one the lemmas they share. Each theorem is for all
values of the constants that meet the named assumption of its module; the assumptions
type the constants, and TLC evaluates them in the runs. With these every invariant and
every action property that a run checks, and both refinements, are proved.

| module | theorems | assumption |
|---|---|---|
| `DeBytesWriterProofs` | `TypeOK`, `EndsNeverCross`, `AcceptedBytesStay`, `ImplementsStore` | `WriterAssumption` |
| `DeChannelProofs` | `TypeOK`, `RecordConserved`, `TailIsQueue`, `CompleteMeansAllTaken`, `ReadsAllOrNothing` | `ChannelAssumption` |
| `VarintStreamProofs` | `TypeOK` and the seven other invariants of the run `varint` | `ValueAssumption` |
| `BytesEscProofs` | `TypeOK`, the five other invariants of the run `bytes_esc`, `MeasuredLengthIsCopied` | `BytesEscAssumption` |
| `KeyStoreProofs` | `TypeOK`, `ScanInOrder`, `KeysReadBack`, `DecodeIsExact`; of the operators `EncodeOrder`, `DecodeEncode`, `KeysDiffer`, `KeysOrdered` | `StoreAssumption` |
| `SerializerProofs` | `TypeOK`, `SizeIsExact`, `RoomIsBalanced`, `ImplementsApi`; of the operators `SizeOfRecord` | `SerializerAssumption` |
| `DeserializerProofs` | `TypeOK`, `EveryByteAccounted`, `RoundTrip`, `TornIsRefused` | `DeserializerAssumption` |
| `DataFacts` | lemmas on sequences and on varints | |

**Induction over data.** The library's induction theorems take an operator as a
parameter, which no installed prover can instantiate. `DataFacts` derives
induction for sets instead: `LeastOf` from the well-foundedness of the naturals,
`Induction` from that, `AppendInduction` and `PrependInduction` for sequences.
`FlattenSeq` of the community modules chooses a recursive function: `Recursion`
shows that one exists and `FlattenIsPartial` that it has the partial concatenations.
The rest is what concatenation, reversal and flattening do to a chain of pieces to
which one is added at an end, or which is cut around its i-th piece.

**Writer.** The inductive invariant adds to `TypeOK` that the ends are in order, and
that once `finalize` was called `head = tail`. `TypeOK` alone is not inductive: that
`tail - Len(v)` is an offset follows from the check only if `head >= 0` and
`head <= tail`, and `N - (tail - head)` is a length only then. The second part
makes a finalized writer refuse every nonempty chunk, which is why its data is
frozen. `Refinement` maps `front` to the first `head` bytes and `back` to the bytes from
`tail` on, and after `finalize` `front` to the first `final` bytes and `back` to
the empty string. Every writer action maps to the store action of its name
(`Finalize` to `Join` or `Rejoin`). The lemmas on `CopyInto` and `CollapseGap`
say which subsequence of the slice changes and how.

**Channel.** The record is the pieces written at the front, in order, and those written
at the tail, in the opposite order; what was read is a part of it at either end. The
invariant says so with `FlattenSeq` of the history, and that the writer's slice holds the
same bytes; reading peels a piece off (`PeelEnds`, `SamePieces`).

**Varints.** `DataFacts` proves of every word of either width: which form it is
written in, that the first byte tells the length, that the decoder undoes the
encoder and refuses what is too short, and that no shorter form exists. The invariant
`VInv` says where the writer is within the encoding (nothing, its first byte, all of it)
and that the input is then a part of it; it was checked by TLC over the
`varint` run before it was proved.

**Byte strings.** A string is cut at its first byte with an escape (`FirstEscape`),
and how an encoding begins tells how the string does (`HeadOfForm`): by induction an encoding
is of one string only (`Unique`) and never begins another (`PrefixFree`). For the
order, two strings neither of which begins the other part at some byte (`Parting`), and
their encodings do so there, in the same way or the opposite (`LessAtParting`,
`SortsAlike`). Where one begins the other, the encoding of the longer has its next byte,
or an escape, where that of the shorter has the terminator (`GoesOnWith`). The readers' invariant says that what was scanned so far is the
encoding of what was copied, and what is ahead is the rest of it (`Round`, `Advance`).
Its quantifiers range over all byte strings, so that TLC checks only the conjuncts
that are properties of the run.

**Keys.** All orders come down to one: two words, or bytes, compare at their highest
different bit (`HighDiff`). The bias of signed integers and the mask of floats turn the
order of numbers into that of unsigned words (`RankOrder`), the big-endian layout turns
it into that of byte strings (`ToBytesOrder`), the complement turns it round
(`NotOrder`): together `EncodeOrder`. Byte strings that differ at a place where both
have a byte (`Before`) keep their order whatever is put around them (`BeforeWithin`).
A key is cut around the first part in which two values differ (`FlattenAround`): what is
before it is the same, so that the order of the parts is the order of the keys
(`DirectOrder`, and `PartOrder` with `RecordOrder` for records). Keys of primitives are
told apart because they are decoded (`DirectRead`). Records are told apart by the first
different part: by its bytes at the front, or, for texts and sequences of
AscendingOrder whose bytes at the front may agree, by their lengths, of which the
encoding read from the back is self-delimiting (`PartApart`, `TurnedApart`,
`RecordsDiffer`). `StoreAssumption` says of a `Serialize` type what these proofs need of
it: values of one type make the same calls until one of them depends on the value, and
lengths and indices have at most four bytes, which the operator `WordOf` can hold. The invariant of the
scan (`Inv`) says that it has met its keys in ascending order, that each key of the
table was met or is ahead, and that what was decoded is `ValueOf` of the key met. That the least key
ahead exists (`LeastIs`) is by induction on the number of keys; TLC checked `Inv` on all
states of the run `keys`.

**Serializer.** What is proved of one call first: the pieces it writes are, put together
at either end, its part of the record, and have the length that its size is (`CallPieces`,
with `VarintWritten` for lengths and discriminants). By induction over the calls the
sizes add up to the length of the record (`SizeOfRecord`), and those of a part of the
calls and the rest to that of all (`SizesAdd`); the sums are recursive functions, of
which `SumExists` shows that there is one. A value is divided into the calls taken, none of
which fails, and those to come (`Divided`); `GoesOn` says where it stops. The
invariant (`Inv`) says that with the pieces to come the two ends of the
buffer are those of the record of the calls taken (`Serializing`), that the room is
what was calculated or given (`Entered`), and that an answer is `Outcome` of the
request; the two properties alone say nothing of which bytes are where. From it the bytes in the
buffer are never more than the record has (`InvFilling`), so that a write is refused only
when the record does not fit, and whenever the buffer is not full at the end the record
is shorter. Every step but `Call` and the one that ends the call is then a stutter of
SerializeApi. `SerializerAssumption` types the constants: values are sequences of
calls of the kinds of RecordFormat, with bytes, a natural number or an error. TLC
checked `Inv` on all states of the run `serializer`.

**Deserializer.** `Types` is any set of types closed under parts, recursive types
included; `Sample` any set of calls. `DeserializerAssumption` types them and nothing
more: it does not say that a sample is a value of its type, nor that an input is a
record. Every action is first reduced to what it does (`PrimitiveDoes`, `NumberOthersDoes`,
...: which bytes leave the reader at which end, and what is told or held), and
three invariants are proved from that, each with those before it.

* `TypeInv` is about the call stack. `TypeOK` is not inductive: that a number has a
  value at all takes that its first byte was accepted for its type, one step before
  the others are read, and that what reads elements has a type with elements. And only the innermost function is inside a number or a text (`Resting` are
  the others), without which an end of the reader might belong to two functions.
* `Accounted` is `EveryByteAccounted` with concatenation as one operator: what is
  consumed at the front, held from there, left, held from the back, consumed at the
  back (`Whole`). A step that reads moves bytes from what is left to what is held
  (`HoldsMore`), or it tells the visitor, and then what was held and read is what the
  call told is written as (`TellsAll`). For numbers this needs that the bytes
  are the only encoding of the number (`Canonical`): the debug check for overlong forms, and the reason for `loose`.
* `ReadInv` is the round trip by induction over the calls of a value. The visitors
  were told its first k calls; the types that the functions on the stack
  have still to read (`Unroll`) are those that the value has after k calls (`Wanted`); and
  what is left, with what is missing of the record (`Missing`), is what the calls to
  come are written as, or the rest of the number or text at hand (`Comes`). A
  function that wants a value so finds a call of its type and the bytes of
  this call at the end it reads (`AtWant`). `RoundTrip` is the case in which nothing is
  missing. `TornIsRefused` is the case in which something is: with all lengths at
  the front every function finds what the record has there or too little, and too
  little it must meet, because at the end of the calls nothing would be missing.

Writing these proofs changed the model. `got` has the compounds now, so that it
can be compared with the calls of the value without a filter; `readable`, which had been a
field of the samples that was believed, is the definition `Readable`; and
`EveryByteAccounted` was false for a u32, in its longest form, of another first byte than
240, a length of which no run has: `Vague` is the result. Earlier proofs
showed two definitions of RecordFormat and Deserializer to have a `CASE` with guards that
overlap, which leaves the value open where TLC takes the first; they have one value since.

What stays with TLC: liveness (`EveryScanEnds`, `EveryCallReturns`, `EveryCallEnds`), which
is out of reach of the prover, and the violations. A serde record is not decoded in
`KeyStore`: that it is, is `RecordIsReadBack`.

## Not modelled

Texts of errors, trait plumbing (the forwarding of traits to references), formatting
of docs, and serde's own code are left out. Of the visitors of a user's own, those
that read a key of a map and not its value, or stop inside a tuple, are left out;
those that stop between two elements are modelled. The contents of a vector's spare
capacity, and the slack behind a record in the caller's slice (which
`ser_to_buf_ordered` inverts with the record for Descending) are abstracted, and so is
the caller's slice after `de_from_bytes_ordered`, which documents that it inverts it.
A value that is decoded with other parameters than it was encoded with is declared
undefined by the code (`primitives.rs:11`) and is not tried. `Deserializer` takes the
bytes of a primitive as they are; what they mean is in `Primitives`.

## What is left

Of the properties that the runs check, the three on liveness have no proof. The
measures that they rest on are visible in the invariants: what is ahead of a scan
(`BytesEscProofs`), the calls to come (`SerializerProofs`), and the counts and types on
the stack with the bytes that are left (`DeserializerProofs`).
