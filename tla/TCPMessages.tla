---------------------------- MODULE TCPMessages ----------------------------
(***************************************************************************)
(* src/util/tcp_sender_message.hh, tcp_receiver_message.hh and              *)
(* tcp_segment.cc: what two TCP peers say to each other.  The sender        *)
(* message of one peer and its receiver message travel in one segment.      *)
(***************************************************************************)
EXTENDS Integers, Sequences

NoSeqno == -1          \* an empty optional<Wrap32>

\* A TCPSenderMessage without the RST flag.
SenderMessage(seqno, syn, payload, fin) ==
  [seqno |-> seqno, SYN |-> syn, payload |-> payload, FIN |-> fin, RST |-> FALSE]

\* How many sequence numbers a message occupies.
SequenceLength(m) ==
  (IF m.SYN THEN 1 ELSE 0) + Len(m.payload) + (IF m.FIN THEN 1 ELSE 0)

\* TCPSegment::serialize followed by TCPSegment::parse.  There is one RST flag
\* on the wire: a reset of either half arrives as a reset of both.
Segment(sent, received) ==
  [seqno |-> sent.seqno, SYN |-> sent.SYN, payload |-> sent.payload, FIN |-> sent.FIN,
   ackno |-> received.ackno, window_size |-> received.window_size,
   RST |-> sent.RST \/ received.RST]
=============================================================================
