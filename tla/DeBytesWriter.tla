--------------------------- MODULE DeBytesWriter ---------------------------
(***************************************************************************)
(* The double-ended write buffer DeBytesWriter of src/src/buf.rs: one      *)
(* caller-provided slice, filled from its start by write and from its end  *)
(* by write_tail, and closed up by finalize.  Offsets are those of the     *)
(* code, so the byte at offset k is buf[k + 1].  Every method may be       *)
(* called at any time, also after an error and after finalize, since they  *)
(* all take &mut self (or &self).                                          *)
(***************************************************************************)
EXTENDS Integers, Sequences

CONSTANTS
  Byte,   \* the values a byte can take
  N,      \* the length of the slice the writer borrows
  Chunk   \* the byte strings a caller may write in one call

ASSUME WriterAssumption == N \in Nat /\ Chunk \subseteq Seq(Byte)

VARIABLES
  buf,    \* the borrowed slice
  head,   \* offset of the first free byte
  tail,   \* offset of the first byte written from the end
  final,  \* the length the caller got from its first finalize, Open before
  ret     \* what the last call returned

vars == <<buf, head, tail, final, ret>>

Open == -1

Reply(call, err, len) == [call |-> call, err |-> err, len |-> len]

\* buf[at .. at + v.len()].copy_from_slice(v)
CopyInto(at, v) ==
  [i \in 1..N |-> IF i \in at + 1 .. at + Len(v) THEN v[i - at] ELSE buf[i]]

\* Mutant: finalize moves one byte of the tail too few.
CollapseGapShort ==
  [i \in 1..N |-> IF i \in head + 1 .. head + (N - tail) - 1
                  THEN buf[i + (tail - head)] ELSE buf[i]]

\* buf.copy_within(tail.., head)
CollapseGap ==
  [i \in 1..N |-> IF i \in head + 1 .. head + (N - tail)
                  THEN buf[i + (tail - head)] ELSE buf[i]]

-----------------------------------------------------------------------------

\* DeBytesWriter::new: the slice may hold anything.
Init ==
  /\ buf \in [1..N -> Byte]
  /\ head = 0
  /\ tail = N
  /\ final = Open
  /\ ret = Reply("new", "Ok", 0)

Write(v) ==
  \/ /\ head + Len(v) > tail
     /\ ret' = Reply("write", "BufferOverflow", 0)
     /\ UNCHANGED <<buf, head, tail, final>>
  \/ /\ head + Len(v) <= tail
     /\ buf' = CopyInto(head, v)
     /\ head' = head + Len(v)
     /\ ret' = Reply("write", "Ok", 0)
     /\ UNCHANGED <<tail, final>>

\* Mutants: write_tail that checks its own end only, that is off by one in its
\* check, that lays down its bytes in the order a reader of the end meets them.
WriteTailUnchecked(v) ==
  /\ Len(v) <= tail
  /\ buf' = CopyInto(tail - Len(v), v)
  /\ tail' = tail - Len(v)
  /\ ret' = Reply("write_tail", "Ok", 0)
  /\ UNCHANGED <<head, final>>

WriteTailOffByOne(v) ==
  /\ head + Len(v) <= tail + 1
  /\ buf' = CopyInto(tail - Len(v), v)
  /\ tail' = tail - Len(v)
  /\ ret' = Reply("write_tail", "Ok", 0)
  /\ UNCHANGED <<head, final>>

WriteTailReversed(v) ==
  /\ head + Len(v) <= tail
  /\ buf' = CopyInto(tail - Len(v), [i \in 1..Len(v) |-> v[Len(v) + 1 - i]])
  /\ tail' = tail - Len(v)
  /\ ret' = Reply("write_tail", "Ok", 0)
  /\ UNCHANGED <<head, final>>

WriteTail(v) ==
  \/ /\ head + Len(v) > tail
     /\ ret' = Reply("write_tail", "BufferOverflow", 0)
     /\ UNCHANGED <<buf, head, tail, final>>
  \/ /\ head + Len(v) <= tail
     /\ buf' = CopyInto(tail - Len(v), v)
     /\ tail' = tail - Len(v)
     /\ ret' = Reply("write_tail", "Ok", 0)
     /\ UNCHANGED <<head, final>>

\* final is the caller's: it keeps the length its first finalize returned.
Keep(len) == final' = IF final = Open THEN len ELSE final

\* Mutant: finalize that does not use up the gap it closed.
FinalizeKeepsGap ==
  /\ buf' = CollapseGap
  /\ ret' = Reply("finalize", "Ok", N - (tail - head))
  /\ Keep(N - (tail - head))
  /\ UNCHANGED <<head, tail>>

Finalize ==
  \/ /\ head = tail
     /\ ret' = Reply("finalize", "Ok", N)
     /\ Keep(N)
     /\ UNCHANGED <<buf, head, tail>>
  \/ /\ head # tail
     /\ buf' = CollapseGap
     /\ head' = tail
     /\ ret' = Reply("finalize", "Ok", N - (tail - head))
     /\ Keep(N - (tail - head))
     /\ UNCHANGED tail

IsComplete ==
  /\ ret' = Reply("is_complete", IF head = tail THEN "Ok" ELSE "BufferUnderflow", 0)
  /\ UNCHANGED <<buf, head, tail, final>>

Next ==
  \/ \E v \in Chunk : Write(v) \/ WriteTail(v)
  \/ Finalize
  \/ IsComplete

Spec == Init /\ [][Next]_vars

-----------------------------------------------------------------------------

\* The data as the caller sees it: the two written ends while the writer is
\* open, the first final bytes of the slice afterwards.
FrontData == IF final = Open THEN SubSeq(buf, 1, head) ELSE SubSeq(buf, 1, final)
BackData  == IF final = Open THEN SubSeq(buf, tail + 1, N) ELSE << >>

Store == INSTANCE TwoEndedStore
           WITH cap <- N, front <- FrontData, back <- BackData,
                sealed <- (final # Open)

\* Type invariant of the writer.
TypeOK ==
  /\ buf \in [1..N -> Byte]
  /\ head \in 0..N
  /\ tail \in 0..N
  /\ final \in 0..N \cup {Open}
  /\ ret \in [call : {"new", "write", "write_tail", "finalize", "is_complete"},
              err : {"Ok", "BufferOverflow", "BufferUnderflow"}, len : 0..N]

\* The two ends never cross, whatever calls were refused before, and a
\* finalized writer is left with no room: the slice arithmetic of write,
\* write_tail and finalize cannot underflow or index out of bounds.
EndsNeverCross ==
  /\ head <= tail
  /\ final # Open => head = tail

\* A byte accepted at either end stays what it was while the writer is open:
\* neither end overwrites the other, and a refused call writes nothing.  After
\* finalize the data is frozen: no later call changes a byte of it.
AcceptedBytesStay ==
  [][/\ final' = Open => \A i \in 1..N : i <= head \/ i > tail => buf'[i] = buf[i]
     /\ final # Open => \A i \in 1..final : buf'[i] = buf[i]]_vars

\* The writer implements the abstract store: in every step the caller gets the
\* reply and the data the store promises, finalize included.
ImplementsStore == Store!Spec

\* buf.rs:175: finalize "Returns data length, which is smaller or equal to the
\* original buffer size".
FinalizeReturnsDataLength ==
  ret.call = "finalize" => ret.len = Len(FrontData) + Len(BackData)

=============================================================================
