---------------------------- MODULE TCPReceiver ----------------------------
(***************************************************************************)
(* src/src/tcp_receiver.{hh,cc}: the receiving half of a TCP peer.  It      *)
(* turns the wrapped sequence numbers of segments into stream indices for   *)
(* the reassembler and answers with an acknowledgment number and a window.  *)
(***************************************************************************)
EXTENDS Reassembly, TCPMessages

CONSTANT MaxWindow     \* UINT16_MAX, the largest window a segment can carry

ASSUME WindowAssumption == MaxWindow \in Nat

NewTCPReceiver(capacity) ==
  [reassembler |-> NewReassembler(capacity), ISN |-> NoSeqno, ackno |-> NoSeqno,
   checkpoint |-> 0, received_SYN |-> FALSE, rst |-> FALSE]

Inbound(rcv) == rcv.reassembler.output

\* Nothing changes after the end of the stream, on a repeated SYN, and before
\* the first SYN.
Ignores(rcv, m) ==
  \/ Inbound(rcv).is_closed
  \/ rcv.received_SYN = m.SYN

\* Remember the initial sequence number.
AcceptSyn(rcv, m) ==
  IF m.SYN
    THEN [rcv EXCEPT !.ISN = m.seqno, !.received_SYN = TRUE, !.ackno = WrapPlus(m.seqno, 1)]
    ELSE rcv

\* The next sequence number wanted: the SYN and, once it is reached, the FIN
\* count as one each.
AcknoFor(ISN, inbound) ==
  WrapPlus(ISN, inbound.pushed + 1 + (IF inbound.is_closed THEN 1 ELSE 0))

\* Stream index of the payload.  A segment without SYN whose sequence number
\* is the ISN gets index -1, that is, 2^64 - 1.
StreamIndex(rcv, m) ==
  IF m.SYN THEN 0 ELSE U64(Unwrap(m.seqno, rcv.ISN, rcv.checkpoint) - 1)

\* Wrong on purpose: the end of the last segment is acknowledged, though there
\* may be a gap before it.
InsertPayloadAckingLast(rcv, m) ==
  LET index == StreamIndex(rcv, m)
      reassembler == Insert(rcv.reassembler, index, m.payload, m.FIN)
  IN  [rcv EXCEPT !.reassembler = reassembler,
                  !.checkpoint  = U64(index + Len(m.payload)),
                  !.ackno       = WrapPlus(rcv.ISN, index + 1 + Len(m.payload))]

InsertPayload(rcv, m) ==
  LET index == StreamIndex(rcv, m)
      reassembler == Insert(rcv.reassembler, index, m.payload, m.FIN)
  IN  [rcv EXCEPT !.reassembler = reassembler,
                  !.checkpoint  = U64(index + Len(m.payload)),
                  !.ackno       = AcknoFor(rcv.ISN, reassembler.output)]

ReceiverReceive(rcv, m) ==
  LET synced == AcceptSyn(rcv, m)
  IN  CASE m.RST -> [rcv EXCEPT !.rst = TRUE, !.reassembler.output = SetError(@)]
        [] ~ m.RST /\ Ignores(rcv, m) -> rcv
        [] ~ m.RST /\ ~ Ignores(rcv, m) /\ m.payload = <<>> /\ ~ m.FIN -> synced
        [] OTHER -> InsertPayload(synced, m)

\* TCPReceiver::send
ReceiverSend(rcv) ==
  [ackno       |-> rcv.ackno,
   window_size |-> Smaller(AvailableCapacity(Inbound(rcv)), MaxWindow),
   RST         |-> rcv.rst \/ Inbound(rcv).error]
=============================================================================
