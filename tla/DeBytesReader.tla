--------------------------- MODULE DeBytesReader ---------------------------
(***************************************************************************)
(* The double-ended read buffer DeBytesReader of src/src/buf.rs: a slice   *)
(* that shrinks from its start (read, advance) or from its end (read_tail, *)
(* advance_tail).  The state is the slice that remains; the data a call    *)
(* hands to its callback is in the reply.                                  *)
(***************************************************************************)
EXTENDS Integers, Sequences

CONSTANTS
  Byte,    \* the values a byte can take
  MaxRead  \* bound on the length a caller asks for

VARIABLES
  rest,   \* the bytes not yet consumed
  reply   \* what the last call returned

vars == <<rest, reply>>

Answer(call, err, bytes) == [call |-> call, err |-> err, bytes |-> bytes]

FirstBytes(n) == SubSeq(rest, 1, n)
LastBytes(n)  == SubSeq(rest, Len(rest) - n + 1, Len(rest))
DropFirst(n)  == SubSeq(rest, n + 1, Len(rest))

\* Mutants: advance_tail that cuts from the start, or one byte too many.
DropLastFromStart(n) == DropFirst(n)
DropLastOneMore(n)   == SubSeq(rest, 1, Len(rest) - n - 1)

DropLast(n) == SubSeq(rest, 1, Len(rest) - n)

-----------------------------------------------------------------------------

\* DeBytesReader::new
Init ==
  /\ rest \in Seq(Byte)
  /\ reply = Answer("new", "Ok", << >>)

\* peek and peek_tail: the callback sees n bytes, or is not called.
PeekAt(call, n, seen) ==
  /\ reply' = IF n <= Len(rest) THEN Answer(call, "Ok", seen)
              ELSE Answer(call, "PrematureEndOfInput", << >>)
  /\ UNCHANGED rest

Peek(n)     == PeekAt("peek", n, FirstBytes(n))
PeekTail(n) == PeekAt("peek_tail", n, LastBytes(n))

\* advance and advance_tail: "n should be smaller than remaining buffer size"
\* is the caller's obligation, a larger n panics.
Advance(n) ==
  /\ n <= Len(rest)
  /\ rest' = DropFirst(n)
  /\ reply' = Answer("advance", "Ok", FirstBytes(n))

AdvanceTail(n) ==
  /\ n <= Len(rest)
  /\ rest' = DropLast(n)
  /\ reply' = Answer("advance_tail", "Ok", LastBytes(n))

\* Mutant: the data is consumed before the callback has accepted it.
ReadAtConsumesFirst(call, n, seen, remaining) ==
  /\ n <= Len(rest)
  /\ reply' \in {Answer(call, "Ok", seen), Answer(call, "CallbackError", << >>)}
  /\ rest' = remaining

\* Mutant: at the end of the input a call is served what there is.
ReadAtShort(call, n, seen, remaining) ==
  \/ /\ n > Len(rest)
     /\ reply' = Answer(call, "Ok", rest)
     /\ rest' = << >>
  \/ /\ n <= Len(rest)
     /\ reply' = Answer(call, "Ok", seen)
     /\ rest' = remaining
  \/ /\ n <= Len(rest)
     /\ reply' = Answer(call, "CallbackError", << >>)
     /\ UNCHANGED rest

\* read and read_tail: peek, then advance unless peek or its callback failed.
ReadAt(call, n, seen, remaining) ==
  \/ /\ n > Len(rest)
     /\ reply' = Answer(call, "PrematureEndOfInput", << >>)
     /\ UNCHANGED rest
  \/ /\ n <= Len(rest)
     /\ reply' = Answer(call, "Ok", seen)
     /\ rest' = remaining
  \/ /\ n <= Len(rest)
     /\ reply' = Answer(call, "CallbackError", << >>)
     /\ UNCHANGED rest

Read(n)     == ReadAt("read", n, FirstBytes(n), DropFirst(n))
ReadTail(n) == ReadAt("read_tail", n, LastBytes(n), DropLast(n))

\* std::io::Read::read into a buffer of n bytes: never an error, may be short.
IoRead(n) ==
  LET m == IF n <= Len(rest) THEN n ELSE Len(rest)
  IN /\ reply' = Answer("io_read", "Ok", FirstBytes(m))
     /\ rest' = DropFirst(m)

IsComplete ==
  /\ reply' = Answer("is_complete",
                     IF rest = << >> THEN "Ok" ELSE "BufferUnderflow", << >>)
  /\ UNCHANGED rest

Next ==
  \/ \E n \in 0..MaxRead : \/ Peek(n)
                           \/ PeekTail(n)
                           \/ Advance(n)
                           \/ AdvanceTail(n)
                           \/ Read(n)
                           \/ ReadTail(n)
                           \/ IoRead(n)
  \/ IsComplete

Spec == Init /\ [][Next]_vars

=============================================================================
