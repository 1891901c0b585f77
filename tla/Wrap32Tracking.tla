--------------------------- MODULE Wrap32Tracking ---------------------------
(***************************************************************************)
(* How TCPReceiver::receive keeps count of a stream whose numbers arrive    *)
(* wrapped (tcp_receiver.cc:10-53).  Each segment that brings bytes or a    *)
(* FIN is unwrapped against a checkpoint, the index in the stream of the    *)
(* byte after those of the last such segment; other segments do not move    *)
(* it.  Segments may arrive out of order, be lost and be repeated.          *)
(*                                                                         *)
(* The bytes themselves are the business of TCPReceiver and Reassembly:     *)
(* here the reassembler may have all of them at any time after a FIN.       *)
(***************************************************************************)
EXTENDS Wrap32, TCPMessages

CONSTANT Shape   \* what segments may be: [payload, FIN, RST]

ASSUME ShapeAssumption ==
  Shape \subseteq [payload : Seq(Nat), FIN : BOOLEAN, RST : BOOLEAN]

VARIABLES zero_point,  \* the initial sequence number of the other TCP
          ISN,         \* that number once the SYN has arrived
          checkpoint,
          stream,      \* "open", "ending" after a FIN, "closed" by the reassembler
          counted,     \* history: the number that the last segment was taken for
          sent         \* history: its own number and the size of its payload

vars == <<zero_point, ISN, checkpoint, stream, counted, sent>>

TypeOK ==
  /\ zero_point \in Raw
  /\ ISN \in {NoSeqno, zero_point}
  /\ checkpoint \in Word
  /\ stream \in {"open", "ending", "closed"}
  /\ counted \in Word
  /\ sent \in [number : Word, size : Nat]

Init ==
  /\ zero_point \in Raw
  /\ ISN = NoSeqno
  /\ checkpoint = 0
  /\ stream = "open"
  /\ counted = 0
  /\ sent = [number |-> 0, size |-> 0]

\* The segment with absolute sequence number n; the first is the SYN.
Numbered(n, shape) ==
  [seqno |-> Wrap(n, zero_point), SYN |-> n = 0, payload |-> shape.payload,
   FIN |-> shape.FIN, RST |-> shape.RST]

\* The number of the last byte of a payload that starts at a number.  The SYN
\* has a number of its own, before the payload that it may carry.
LastByte(number, size) == IF number = 0 THEN size ELSE number + size - 1

\* What the other TCP must see to: a segment that is counted starts less than
\* half the sequence space from the last byte of the one counted before it, and
\* the stream ends before 64 bits do.
Near(n, size) ==
  /\ 2 * AbsDiff(n, LastByte(sent.number, sent.size)) < SeqSpace
  /\ LastByte(n, size) \in Word

\* A reset, anything after the end of the stream, a second SYN, and anything
\* before the first.
Ignores(m) ==
  \/ m.RST
  \/ stream = "closed"
  \/ m.SYN = (ISN # NoSeqno)

AcceptSyn(m) == ISN' = IF m.SYN THEN m.seqno ELSE ISN

Bare(m) == m.payload = <<>> /\ ~ m.FIN

\* How far the reassembler may be after an insertion.
Progress(FIN) == IF FIN \/ stream = "ending" THEN {"ending", "closed"} ELSE {"open"}

\* Wrong on purpose: the checkpoint stays where the payload begins.
CountStart(n, m) ==
  LET absolute_seqn == Unwrap(m.seqno, ISN', checkpoint)
      reassembler_index == IF m.SYN THEN 0 ELSE U64(absolute_seqn - 1)
  IN  /\ Near(n, Len(m.payload))
      /\ counted' = absolute_seqn
      /\ checkpoint' = reassembler_index
      /\ stream' \in Progress(m.FIN)
      /\ sent' = [number |-> n, size |-> Len(m.payload)]

\* A payload goes to the reassembler.  A SYN has index 0 whatever its number is.
Count(n, m) ==
  LET absolute_seqn == Unwrap(m.seqno, ISN', checkpoint)
      reassembler_index == IF m.SYN THEN 0 ELSE U64(absolute_seqn - 1)
  IN  /\ Near(n, Len(m.payload))
      /\ counted' = absolute_seqn
      /\ checkpoint' = U64(reassembler_index + Len(m.payload))
      /\ stream' \in Progress(m.FIN)
      /\ sent' = [number |-> n, size |-> Len(m.payload)]

\* The message m arrives; its absolute sequence number is n.
Receive(n, m) ==
  /\ UNCHANGED zero_point
  /\ \/ /\ Ignores(m)
        /\ UNCHANGED <<ISN, checkpoint, stream, counted, sent>>
     \/ /\ ~ Ignores(m) /\ Bare(m)
        /\ AcceptSyn(m)
        /\ UNCHANGED <<checkpoint, stream, counted, sent>>
     \/ /\ ~ Ignores(m) /\ ~ Bare(m)
        /\ AcceptSyn(m)
        /\ Count(n, m)

Next == \E n \in Word, shape \in Shape : Receive(n, Numbered(n, shape))

Spec == Init /\ [][Next]_vars

-----------------------------------------------------------------------------
\* The receiver never loses count, however often the raw numbers wrap round
\* and whichever segments it ignores: every segment is taken for the number it
\* was sent with, not that number plus or minus a multiple of 2^32, though it
\* is compared with a checkpoint that is an index in the stream and lies a
\* payload further on (tcp_receiver.cc:43-53, wrapping_integers.cc:13-33).
InStep == counted = sent.number

\* unwrap returns, of all the words that have the given raw number, one that
\* is closest to the checkpoint (the contract in wrapping_integers.hh:19-25),
\* also where the 64-bit arithmetic wraps round at either end.
UnwrapIsClosest ==
  \A raw \in Raw :
    LET u == Unwrap(raw, zero_point, checkpoint)
    IN  /\ u \in Word
        /\ Wrap(u, zero_point) = raw
        /\ \A m \in Word :
             Wrap(m, zero_point) = raw => AbsDiff(checkpoint, u) <= AbsDiff(checkpoint, m)
=============================================================================
