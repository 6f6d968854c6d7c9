--------------------------- MODULE TwoEndedStore ---------------------------
(***************************************************************************)
(* What a double-ended write buffer promises to its caller (the traits     *)
(* WriteBytes and TailWriteBytes and the methods finalize and is_complete  *)
(* of src/src/buf.rs), with no buffer in it: two byte strings that grow    *)
(* towards each other until cap bytes are used, and are joined once.       *)
(* DeBytesWriter is shown to implement this specification.                 *)
(***************************************************************************)
EXTENDS Integers, Sequences

CONSTANTS
  Chunk   \* the byte strings a caller may write in one call

VARIABLES
  cap,     \* how many bytes the store can hold
  front,   \* bytes accepted by write, oldest first
  back,    \* bytes accepted by write_tail, most recent chunk first
  sealed,  \* whether the two have been joined
  ret      \* what the last call returned

vars == <<cap, front, back, sealed, ret>>

Reply(call, err, len) == [call |-> call, err |-> err, len |-> len]

\* A sealed store has no room left, however little it holds.
Room == IF sealed THEN 0 ELSE cap - Len(front) - Len(back)

-----------------------------------------------------------------------------

Init ==
  /\ cap \in Nat
  /\ front = << >>
  /\ back = << >>
  /\ sealed = FALSE
  /\ ret = Reply("new", "Ok", 0)

\* Mutant: a write that is not checked against the room.
PutFrontUnchecked(v) ==
  /\ front' = front \o v
  /\ ret' = Reply("write", "Ok", 0)
  /\ UNCHANGED <<cap, back, sealed>>

PutFront(v) ==
  /\ Len(v) <= Room
  /\ front' = front \o v
  /\ ret' = Reply("write", "Ok", 0)
  /\ UNCHANGED <<cap, back, sealed>>

PutBack(v) ==
  /\ Len(v) <= Room
  /\ back' = v \o back
  /\ ret' = Reply("write_tail", "Ok", 0)
  /\ UNCHANGED <<cap, front, sealed>>

\* A refused call leaves no trace in the store.
Refuse(call, v) ==
  /\ Len(v) > Room
  /\ ret' = Reply(call, "BufferOverflow", 0)
  /\ UNCHANGED <<cap, front, back, sealed>>

\* The first join reports how much data there is.
Join ==
  /\ ~sealed
  /\ front' = front \o back
  /\ back' = << >>
  /\ sealed' = TRUE
  /\ ret' = Reply("finalize", "Ok", Len(front) + Len(back))
  /\ UNCHANGED cap

\* A sealed store no longer knows the length of its data: it reports cap.
Rejoin ==
  /\ sealed
  /\ ret' = Reply("finalize", "Ok", cap)
  /\ UNCHANGED <<cap, front, back, sealed>>

AskComplete ==
  /\ ret' = Reply("is_complete", IF Room = 0 THEN "Ok" ELSE "BufferUnderflow", 0)
  /\ UNCHANGED <<cap, front, back, sealed>>

Next ==
  \/ \E v \in Chunk : \/ PutFront(v)
                      \/ PutBack(v)
                      \/ Refuse("write", v)
                      \/ Refuse("write_tail", v)
  \/ Join
  \/ Rejoin
  \/ AskComplete

Spec == Init /\ [][Next]_vars

=============================================================================
