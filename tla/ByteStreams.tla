----------------------------- MODULE ByteStreams -----------------------------
(***************************************************************************)
(* src/src/byte_stream.{hh,cc}: the bounded in-memory pipe that sits on     *)
(* both sides of a TCP peer.  A ByteStream is a value here (a record with   *)
(* the fields of the class), because the TCP sender and the reassembler     *)
(* each own one and update it in the middle of a larger step.               *)
(***************************************************************************)
EXTENDS Integers, Sequences

Smaller(a, b) == IF a <= b THEN a ELSE b
Larger(a, b)  == IF a >= b THEN a ELSE b
Prefix(s, n)  == SubSeq(s, 1, n)
Suffix(s, n)  == SubSeq(s, n + 1, Len(s))   \* without the first n elements

ByteStreamOf(Byte) ==
  [stream : Seq(Byte), is_closed : BOOLEAN, pushed : Nat, popped : Nat,
   capacity : Nat, error : BOOLEAN]

NewByteStream(capacity) ==
  [stream |-> <<>>, is_closed |-> FALSE, pushed |-> 0, popped |-> 0,
   capacity |-> capacity, error |-> FALSE]

AvailableCapacity(bs) == bs.capacity - Len(bs.stream)

BytesBuffered(bs) == Len(bs.stream)

IsFinished(bs) == bs.is_closed /\ bs.stream = <<>>

\* Writer::push keeps what fits and drops the rest; on a closed or full
\* stream it does nothing.
Push(bs, data) ==
  LET n == Smaller(AvailableCapacity(bs), Len(data))
  IN  IF bs.is_closed \/ AvailableCapacity(bs) = 0
        THEN bs
        ELSE [bs EXCEPT !.stream = @ \o Prefix(data, n), !.pushed = @ + n]

Close(bs) == [bs EXCEPT !.is_closed = TRUE]

SetError(bs) == [bs EXCEPT !.error = TRUE]

\* Reader::pop; on an empty stream it does nothing.
Pop(bs, len) ==
  LET n == Smaller(len, Len(bs.stream))
  IN  [bs EXCEPT !.stream = Suffix(@, n), !.popped = @ + n]
==============================================================================
