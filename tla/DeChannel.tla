----------------------------- MODULE DeChannel -----------------------------
(***************************************************************************)
(* A record passed through a double-ended buffer: a DeBytesWriter fills a  *)
(* slice, finalize closes it up, and a DeBytesReader over the first len    *)
(* bytes takes it apart, each end in its own order and in any              *)
(* interleaving with the other.  This is how every Serializer and          *)
(* Deserializer of the crate move their data (ser_to_buf_ordered and       *)
(* de_from_bytes_asc of src/src/lib.rs).  The history variables record     *)
(* what went in, what was asked for and what came out.                     *)
(***************************************************************************)
EXTENDS Integers, Sequences, SequencesExt

CONSTANTS
  Byte,      \* the values a byte can take
  N,         \* the length of the slice the writer borrows
  Chunk,     \* the byte strings a caller may write in one call
  MaxRead,   \* bound on the length a reader asks for
  MaxCalls   \* bound on the number of writes and on the number of reads

ASSUME ChannelAssumption ==
  N \in Nat /\ Chunk \subseteq Seq(Byte) /\ MaxRead \in Nat

VARIABLES
  buf, head, tail, final, ret,  \* the writer
  rest, reply,                  \* the reader
  reading,   \* whether the record was handed to the reader
  sentHead,  \* history: chunks accepted by write, in order
  sentTail,  \* history: chunks accepted by write_tail, in order
  gotHead,   \* history: pieces consumed from the start, in order
  gotTail,   \* history: pieces consumed from the end, in order
  asked      \* history: the length the last call of the reader asked for

writer  == <<buf, head, tail, final, ret>>
reader  == <<rest, reply>>
history == <<sentHead, sentTail, gotHead, gotTail, asked>>
vars    == <<writer, reader, reading, history>>

W == INSTANCE DeBytesWriter
R == INSTANCE DeBytesReader

Init ==
  /\ W!Init
  /\ rest = << >> /\ reply = R!Answer("new", "Ok", << >>)
  /\ reading = FALSE
  /\ sentHead = << >> /\ sentTail = << >>
  /\ gotHead = << >> /\ gotTail = << >>
  /\ asked = 0

\* A write refused for lack of room leaves no entry in the history.
Put(v) ==
  /\ ~reading
  /\ Len(sentHead) + Len(sentTail) < MaxCalls
  /\ \/ /\ W!Write(v)
        /\ sentHead' = IF ret'.err = "Ok" THEN Append(sentHead, v) ELSE sentHead
        /\ UNCHANGED sentTail
     \/ /\ W!WriteTail(v)
        /\ sentTail' = IF ret'.err = "Ok" THEN Append(sentTail, v) ELSE sentTail
        /\ UNCHANGED sentHead
  /\ UNCHANGED <<reader, reading, gotHead, gotTail, asked>>

\* The record is final: DeBytesReader::new(&buf[..len]).
HandOver ==
  /\ ~reading
  /\ W!Finalize
  /\ reading' = TRUE
  /\ rest' = SubSeq(buf', 1, ret'.len)
  /\ reply' = R!Answer("new", "Ok", << >>)
  /\ UNCHANGED history

\* A call that consumes from the start, with the piece it consumed.
TakeHead(n) ==
  /\ R!Read(n) \/ R!Advance(n) \/ R!IoRead(n)
  /\ gotHead' = IF rest' # rest THEN Append(gotHead, reply'.bytes) ELSE gotHead
  /\ asked' = n
  /\ UNCHANGED gotTail

\* A call that consumes from the end.
TakeTail(n) ==
  /\ R!ReadTail(n) \/ R!AdvanceTail(n)
  /\ gotTail' = IF rest' # rest THEN Append(gotTail, reply'.bytes) ELSE gotTail
  /\ asked' = n
  /\ UNCHANGED gotHead

Look ==
  /\ \/ R!IsComplete /\ asked' = 0
     \/ \E n \in 0..MaxRead : /\ R!Peek(n) \/ R!PeekTail(n)
                             /\ asked' = n
  /\ UNCHANGED <<gotHead, gotTail>>

Take ==
  /\ reading
  /\ Len(gotHead) + Len(gotTail) < MaxCalls
  /\ Look \/ \E n \in 0..MaxRead : TakeHead(n) \/ TakeTail(n)
  /\ UNCHANGED <<writer, reading, sentHead, sentTail>>

Next ==
  \/ \E v \in Chunk : Put(v)
  \/ HandOver
  \/ Take

Spec == Init /\ [][Next]_vars

-----------------------------------------------------------------------------

\* A chain of pieces taken or laid from the end, in the order of the buffer.
FromEnd(pieces) == FlattenSeq(Reverse(pieces))

\* Type invariant of the composition.
TypeOK ==
  /\ W!TypeOK
  /\ rest \in Seq(Byte)
  /\ reading \in BOOLEAN
  /\ {sentHead, sentTail, gotHead, gotTail} \subseteq Seq(Seq(Byte))
  /\ asked \in 0..MaxRead

\* Nothing is lost, invented or reordered: what was taken from the start, what
\* remains and what was taken from the end always make up the record, which is
\* what the two ends wrote.  The gap finalize closes and the order of the tail
\* chunks are exactly what a test of one interleaving does not show.
RecordConserved ==
  reading => FlattenSeq(gotHead) \o rest \o FromEnd(gotTail)
             = FlattenSeq(sentHead) \o FromEnd(sentTail)

\* The tail is a queue of chunks: a reader that takes from the end the lengths
\* that were written there, in the order of the writes, gets the chunks that
\* were written, whatever it takes from the start in between.  This is what
\* lets the Deserializer read back lengths interleaved with data.
TailIsQueue ==
  \A k \in 1..Len(gotTail) :
    (/\ k <= Len(sentTail)
     /\ \A j \in 1..k : Len(gotTail[j]) = Len(sentTail[j]))
    => gotTail[k] = sentTail[k]

\* The bytes due to a caller that asks for n: all of them, and only for
\* std::io::Read what is left when that is less.
Due(call, n) == IF call = "io_read" /\ n > Len(rest) THEN Len(rest) ELSE n

\* What one call of the reader does to the bytes that are left.
AllOrNone ==
  /\ IF reply'.err = "Ok" /\ reply'.call \notin {"peek", "peek_tail", "is_complete"}
     THEN /\ Len(reply'.bytes) = Due(reply'.call, asked')
          /\ Len(rest) = Len(rest') + Due(reply'.call, asked')
     ELSE rest' = rest
  /\ reply'.err = "PrematureEndOfInput" => asked' > Len(rest)

\* A reader call that consumes hands over and removes all it asked for, or it
\* fails and removes nothing (only std::io::Read may be short, when it empties
\* the buffer): read at either end is never served the part that is left, and
\* reports the end of the input only when it asked for more than that.  A
\* failed call, or one that only looks, can be followed by any other as if it
\* had not been made.
ReadsAllOrNothing == [][reading => AllOrNone]_vars

\* is_complete tells the consumer that it has all bytes of the record.
CompleteMeansAllTaken ==
  reading /\ reply.call = "is_complete" =>
    (reply.err = "Ok" <=> Len(FlattenSeq(gotHead)) + Len(FlattenSeq(gotTail))
                          = Len(FlattenSeq(sentHead)) + Len(FlattenSeq(sentTail)))

=============================================================================
