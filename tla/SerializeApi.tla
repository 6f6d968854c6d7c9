---------------------------- MODULE SerializeApi ----------------------------
(***************************************************************************)
(* What the entry points of src/src/lib.rs promise, with no buffer, no     *)
(* size calculation and no order of writes: a caller asks for a value to   *)
(* be serialized, or only measured, and gets one answer, which depends on  *)
(* the record of the value and on the room the caller gave.  Two more      *)
(* requests are those of a caller who makes a Serializer over a writer     *)
(* without a tail: a Vec<u8>, or WriteToHead of a slice (src/src/buf.rs).  *)
(***************************************************************************)
EXTENDS RecordFormat

CONSTANTS
  LenEnd,   \* the end that takes lengths
  Value,    \* the values (sequences of calls) that are serialized
  Unstable, \* those a value may turn into when it is serialized again
  MaxRoom   \* bound on the buffer a caller provides

VARIABLES
  request,  \* the call a caller made
  answer    \* what it returned

vars == <<request, answer>>

NoRequest ==
  [api |-> "none", order |-> "Ascending", first |-> << >>, calls |-> << >>, room |-> 0]

\* The error or Ok, the bytes the caller then has, and the number returned.
Answer(err, data, len) == [err |-> err, data |-> data, len |-> len]
Error(err) == Answer(err, << >>, 0)
NoAnswer == Error("none")

Measured == {"buf", "head", "size"}  \* calls that return the length
Headed   == {"head", "grow"}         \* writers without a tail: lengths go to the front
Exact    == {"vec", "exact"}         \* no room may be left

\* ser_to_vec_ordered serializes the value twice, to learn its size and to fill
\* the vector: an implementation of Serialize that reads changing data may make
\* other calls the second time.  The others serialize it once, into the room
\* they are given, and ser_to_buf_asc_exact is always ascending.
Once(calls) == [first : {calls}, calls : {calls}]

Passes == (UNION {Once(c) : c \in Value}) \cup [first : Value, calls : Unstable]

On(api, order, passes, room) ==
  [api |-> api, order |-> order, first |-> passes.first, calls |-> passes.calls,
   room |-> room]

Request ==
  {On("vec", order, p, 0) : order \in {"Ascending", "Descending"}, p \in Passes}
    \cup {On("buf", order, p, n) : order \in {"Ascending", "Descending"},
                                   p \in UNION {Once(c) : c \in Value}, n \in 0..MaxRoom}
    \cup {On("exact", "Ascending", p, n) : p \in UNION {Once(c) : c \in Value},
                                           n \in 0..MaxRoom}
    \cup {On("head", "Ascending", p, n) : p \in UNION {Once(c) : c \in Value},
                                          n \in 0..MaxRoom}
    \cup {On(api, "Ascending", p, 0) : api \in {"size", "grow"},
                                       p \in UNION {Once(c) : c \in Value}}

\* A value that cannot be serialized fails as soon as the call that cannot is
\* reached, unless the room ends before.
Outcome(r) ==
  LET calls  == BeforeFail(r.calls)
      record == RecordOf(IF r.api \in Headed THEN "front" ELSE LenEnd, calls)
      room   == CASE r.api = "vec"              -> Len(RecordOf(LenEnd, BeforeFail(r.first)))
                  [] r.api \in {"size", "grow"} -> Len(record)
                  [] OTHER                      -> r.room
  IN IF r.api = "vec" /\ Fails(r.first) THEN Error(Failure(r.first))
     ELSE CASE Len(record) > room -> Error("BufferOverflow")
            [] Len(record) <= room /\ Fails(r.calls) -> Error(Failure(r.calls))
            [] r.api \in Exact /\ Len(record) < room /\ ~Fails(r.calls)
                 -> Error("BufferUnderflow")
            [] OTHER -> Answer("Ok",
                          CASE r.api = "size"         -> << >>
                            [] r.order = "Descending" -> ComplementBytes(record)
                            [] OTHER                  -> record,
                          IF r.api \in Measured THEN Len(record) ELSE 0)

Init == request = NoRequest /\ answer = NoAnswer

Ask ==
  /\ request = NoRequest
  /\ request' \in Request
  /\ UNCHANGED answer

Return ==
  /\ request # NoRequest /\ answer = NoAnswer
  /\ answer' = Outcome(request)
  /\ UNCHANGED request

Next == Ask \/ Return

Spec == Init /\ [][Next]_vars

=============================================================================
