------------------------------- MODULE TCPPeer -------------------------------
(***************************************************************************)
(* src/util/tcp_peer.hh: a TCP sender and a TCP receiver that share one     *)
(* connection.  The sender message of every segment travels with what the   *)
(* receiver has to say, and what arrives is given to both halves.           *)
(*                                                                         *)
(* A peer is a record; push, tick and receive return it with the segments   *)
(* transmitted, [peer, out].  The two clocks cumulative_time_ and           *)
(* time_of_last_receipt_ are only used for their difference, idle, which    *)
(* counts no further than the bound it is compared with.                    *)
(***************************************************************************)
EXTENDS TCPSender, TCPReceiver

CONSTANT LingerTimeouts     \* a peer lingers for this many timeouts: 10

ASSUME LingerAssumption == LingerTimeouts \in Nat

LingerTime == LingerTimeouts * RtTimeout

NewTCPPeer(isn, sendCapacity, recvCapacity) ==
  [sender |-> NewTCPSender(sendCapacity, isn),
   receiver |-> NewTCPReceiver(recvCapacity),
   linger_after_streams_finish |-> TRUE, idle |-> 0]

SomeError(p) == Inbound(p.receiver).error \/ p.sender.input.error

\* Wrong on purpose: what is in flight does not keep the peer awake.
ActiveUntilSent(p) ==
  /\ ~ SomeError(p)
  /\ \/ ~ IsFinished(p.sender.input)
     \/ ~ Inbound(p.receiver).is_closed
     \/ p.linger_after_streams_finish /\ p.idle < LingerTime

Active(p) ==
  /\ ~ SomeError(p)
  /\ \/ p.sender.bytes_unack > 0
     \/ ~ IsFinished(p.sender.input)
     \/ ~ Inbound(p.receiver).is_closed
     \/ p.linger_after_streams_finish /\ p.idle < LingerTime

\* What TCPPeer::send() puts on the wire for each message of the sender.
WithReceiverSend(receiver, messages) ==
  [i \in DOMAIN messages |-> Segment(messages[i], ReceiverSend(receiver))]

PeerPush(p) ==
  LET step == SenderPush(p.sender)
  IN  [peer |-> [p EXCEPT !.sender = step.snd], out |-> WithReceiverSend(p.receiver, step.out)]

PeerTick(p, ms) ==
  LET step == SenderTick(p.sender, ms)
  IN  [peer |-> [p EXCEPT !.sender = step.snd, !.idle = Smaller(@ + ms, LingerTime)],
       out  |-> WithReceiverSend(p.receiver, step.out)]

\* Wrong on purpose: a FIN on its own is not answered.
NeedsReplyToData(p, segment) == segment.SYN \/ segment.payload # <<>>

\* A segment that occupies sequence numbers, or a keep-alive, wants a reply.
NeedsReply(p, segment) ==
  \/ SequenceLength(segment) > 0
  \/ p.receiver.ackno # NoSeqno /\ WrapPlus(segment.seqno, 1) = p.receiver.ackno

\* The inbound stream ended first: the other side will not need us to linger.
StopsLingering(p) == Inbound(p.receiver).is_closed /\ ~ IsFinished(p.sender.input)

\* An inactive peer ignores what it receives.
PeerReceive(p, segment) ==
  LET receiver == ReceiverReceive(p.receiver, segment)
      pushed   == SenderPush(SenderReceive(p.sender, segment))
      reply    == IF NeedsReply(p, segment) /\ pushed.out = <<>>
                    THEN <<EmptyMessage(pushed.snd)>>
                    ELSE <<>>
      received == [p EXCEPT !.receiver = receiver, !.sender = pushed.snd, !.idle = 0]
  IN  IF ~ Active(p)
        THEN [peer |-> p, out |-> <<>>]
        ELSE [peer |-> [received EXCEPT !.linger_after_streams_finish =
                                           @ /\ ~ StopsLingering(received)],
              out  |-> WithReceiverSend(receiver, pushed.out \o reply)]
=============================================================================
