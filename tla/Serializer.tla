----------------------------- MODULE Serializer -----------------------------
(***************************************************************************)
(* Serializing a value: the entry points calc_size, ser_to_buf_ordered,    *)
(* ser_to_buf_asc_exact and ser_to_vec_ordered of src/src/lib.rs, driving  *)
(* Serializer (src/src/ord_ser.rs) over a double-ended buffer and, for the *)
(* vector, SizeCalc (src/src/size_calc.rs) before it.  The buffer is the   *)
(* TwoEndedStore that DeBytesWriter implements: here a step of the         *)
(* serializer is a step of the store.  A caller may also make a Serializer *)
(* over WriteToHead, which turns every write into one at the head, or over *)
(* a Vec<u8>, which grows (src/src/buf.rs).                                *)
(***************************************************************************)
EXTENDS RecordFormat

CONSTANTS
  LenEnd,   \* the end that takes lengths
  Value,    \* the values (sequences of calls) that are serialized
  Unstable, \* those a value may turn into when it is serialized again
  MaxRoom   \* bound on the buffer a caller provides

VARIABLES
  request,  \* the call of the entry point
  pc,       \* idle, sizing, serializing, ordering, done
  todo,     \* the calls the value has still to make in this pass
  pend,     \* the writes the current call has still to make
  size,     \* SizeCalc::size
  cap, front, back, sealed, ret,  \* the buffer
  answer    \* what the entry point returned

ASSUME SerializerAssumption ==
  /\ LenType \in Type /\ LenEnd \in {"front", "back"} /\ MaxRoom \in Nat
  /\ \A v \in Value \cup Unstable : /\ v \in Seq({v[i] : i \in DOMAIN v})
                                   /\ \A i \in DOMAIN v : IsCall(v[i])

store == <<cap, front, back, sealed, ret>>
vars  == <<request, pc, todo, pend, size, store, answer>>

Store == INSTANCE TwoEndedStore WITH Chunk <- Seq(BitByte)
Api   == INSTANCE SerializeApi

Init ==
  /\ Api!Init
  /\ pc = "idle" /\ todo = << >> /\ pend = << >> /\ size = 0
  /\ cap = 0 /\ front = << >> /\ back = << >> /\ sealed = FALSE
  /\ ret = Store!Reply("new", "Ok", 0)

\* An entry point is called: the vector is sized first, a slice is used as it is.
Call ==
  /\ pc = "idle"
  /\ Api!Ask
  /\ todo' = request'.first
  /\ pc' = IF request'.api \in {"vec", "size"} THEN "sizing" ELSE "serializing"
  /\ cap' = request'.room
  /\ UNCHANGED <<pend, size, front, back, sealed, ret>>

Finish(err, data, len) == pc' = "done" /\ answer' = Api!Answer(err, data, len)
FinishWith(err) == Finish(err, << >>, 0)

\* calc_size: SizeCalc is given the calls of the first pass.
SizeCall ==
  /\ pc = "sizing"
  /\ todo # << >>
  /\ todo' = Tail(todo)
  /\ \/ /\ Head(todo).op = "fail"
        /\ FinishWith(Head(todo).err)
        /\ UNCHANGED size
     \/ /\ Head(todo).op # "fail"
        /\ size' = size + Size(Head(todo))
        /\ UNCHANGED <<pc, answer>>
  /\ UNCHANGED <<request, pend, store>>

\* calc_size returns the size, and that is all that was asked for ...
Measure ==
  /\ pc = "sizing"
  /\ todo = << >>
  /\ request.api = "size"
  /\ Finish("Ok", << >>, size)
  /\ UNCHANGED <<request, todo, pend, size, store>>

\* ... or it is for vec![0_u8; calc_size(..)?] and DeBytesWriter::new
Allocate ==
  /\ pc = "sizing"
  /\ todo = << >>
  /\ request.api = "vec"
  /\ cap' = size
  /\ todo' = request.calls
  /\ pc' = "serializing"
  /\ UNCHANGED <<request, pend, size, front, back, sealed, ret, answer>>

\* A call of Serializer hands its writes to the buffer, or fails at once.
SerializeCall ==
  /\ pc = "serializing"
  /\ pend = << >> /\ todo # << >>
  /\ todo' = Tail(todo)
  /\ \/ /\ Head(todo).op = "fail"
        /\ FinishWith(Head(todo).err)
        /\ UNCHANGED pend
     \/ /\ Head(todo).op # "fail"
        /\ pend' = Pieces(LenEnd, Head(todo))
        /\ UNCHANGED <<pc, answer>>
  /\ UNCHANGED <<request, size, store>>

\* The end a piece is written at: WriteToHead::write_tail and write_tail of a
\* Vec<u8> do what write does.
EndOf(p) == IF request.api \in Api!Headed THEN "front" ELSE p.end

\* The store takes a piece, or refuses it; a Vec<u8> takes any.
Take(p) ==
  \/ /\ request.api # "grow"
     /\ IF EndOf(p) = "front" THEN Store!PutFront(p.bytes) ELSE Store!PutBack(p.bytes)
  \/ /\ request.api = "grow"
     /\ front' = front \o p.bytes
     /\ cap' = cap + Len(p.bytes)
     /\ UNCHANGED <<back, sealed, ret>>

Decline(p) ==
  /\ request.api # "grow"
  /\ Store!Refuse(IF EndOf(p) = "front" THEN "write" ELSE "write_tail", p.bytes)

\* Mutant: a refused write is tried again.
WritePieceRetries ==
  /\ pc = "serializing"
  /\ pend # << >>
  /\ \/ Take(Head(pend)) /\ pend' = Tail(pend)
     \/ Decline(Head(pend)) /\ UNCHANGED pend
  /\ UNCHANGED <<request, pc, todo, size, answer>>

\* One of these writes is made; an error ends the call and the entry point,
\* with the earlier writes of the value in the buffer.
WritePiece ==
  /\ pc = "serializing"
  /\ pend # << >>
  /\ \/ /\ Take(Head(pend))
        /\ pend' = Tail(pend)
        /\ UNCHANGED <<pc, answer>>
     \/ /\ Decline(Head(pend))
        /\ FinishWith(ret'.err)
        /\ UNCHANGED pend
  /\ UNCHANGED <<request, todo, size>>

\* The value is written: finalize for a slice that may be larger, is_complete
\* where the size must be exact, nothing for a Vec<u8>.
Close ==
  /\ pc = "serializing"
  /\ pend = << >> /\ todo = << >>
  /\ \/ /\ request.api \in {"buf", "head"}
        /\ Store!Join
        /\ pc' = "ordering"
        /\ UNCHANGED answer
     \/ /\ request.api \in Api!Exact
        /\ Store!AskComplete
        /\ IF ret'.err = "Ok" THEN pc' = "ordering" /\ UNCHANGED answer
           ELSE FinishWith(ret'.err)
     \/ /\ request.api = "grow"
        /\ pc' = "ordering"
        /\ UNCHANGED <<answer, store>>
  /\ UNCHANGED <<request, todo, pend, size>>

\* invert_buffer for the descending order; what finalize returned is returned.
Order ==
  /\ pc = "ordering"
  /\ Finish("Ok", IF request.order = "Descending"
                  THEN ComplementBytes(front \o back) ELSE front \o back,
            IF request.api \in {"buf", "head"} THEN ret.len ELSE 0)
  /\ UNCHANGED <<request, todo, pend, size, store>>

Step == SizeCall \/ Measure \/ Allocate \/ SerializeCall \/ WritePiece \/ Close \/ Order

Next == Call \/ Step

\* The entry points are sequential code: once called they run to their end.
Spec == Init /\ [][Next]_vars /\ WF_vars(Step)

-----------------------------------------------------------------------------

\* Type invariant: the buffer holds bytes, and never more than it has room for.
TypeOK ==
  /\ pc \in {"idle", "sizing", "serializing", "ordering", "done"}
  /\ request \in Api!Request \cup {Api!NoRequest}
  /\ size \in Nat /\ cap \in Nat
  /\ {front, back, answer.data} \subseteq Seq(BitByte)
  /\ Len(front) + Len(back) <= cap
  /\ sealed \in BOOLEAN

\* The size calculated in advance is the room the serializer takes, so that
\* ser_to_vec_ordered neither overflows nor underfills the vector it allocates
\* for a value that makes the same calls twice.  The two implementations of
\* serde's Serializer share no code.
SizeIsExact ==
  request.api = "vec" /\ request.first = request.calls => answer.err \notin {"BufferOverflow", "BufferUnderflow"}

\* While the value is being written the bytes in the buffer, those of the
\* current call and those of the calls to come always add up to the size that
\* was allocated: the sizes agree call by call and not only in total.
RoomIsBalanced ==
  pc = "serializing" /\ request.api = "vec" /\ request.first = request.calls =>
    Len(front) + Len(back) + SizeOfPieces(pend) + SizeOfCalls(todo) = cap

\* Every entry point gives the caller the record of the format, or the one
\* error the format and the room call for, whatever the buffer went through.  A
\* value that changed after its size was calculated never ends in a record that
\* is cut off or padded.
ImplementsApi == Api!Spec

\* Every call of an entry point returns: no value, buffer size or refused write
\* leaves the serializer waiting for a step that never comes.
EveryCallReturns ==
  request # Api!NoRequest ~> answer # Api!NoAnswer

=============================================================================
