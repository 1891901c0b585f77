----------------------------- MODULE TCPSender -----------------------------
(***************************************************************************)
(* src/src/tcp_sender.{hh,cc}: the sending half of a TCP peer.  It cuts the *)
(* outbound stream into segments, keeps them until they are acknowledged,   *)
(* and retransmits the oldest when its timer runs out.                      *)
(*                                                                         *)
(* A member function that calls transmit() is an operator from a step       *)
(* [snd, out] to a step: snd is the sender, out the messages transmitted.   *)
(***************************************************************************)
EXTENDS ByteStreams, Wrap32, TCPMessages, Powers, SequencesExt

CONSTANTS MaxPayload,     \* TCPConfig::MAX_PAYLOAD_SIZE
          RtTimeout,      \* initial_RTO_ms_
          MaxRTO,         \* bound of the model on RTO, which the code doubles for ever
          MaxRetx         \* bound of the model on consecutive_retransmissions_

ASSUME SenderAssumption ==
  /\ MaxPayload \in Nat \ {0}
  /\ RtTimeout \in Nat \ {0}
  /\ MaxRTO \in Nat /\ MaxRTO >= RtTimeout
  /\ MaxRetx \in Nat
  /\ MaxRTO <= RtTimeout * TwoTo[MaxRetx]  \* no bound is reached long before the other

NoProbe == -1             \* an empty optional<uint64_t>

NewTCPSender(capacity, isn) ==
  [input |-> NewByteStream(capacity), isn |-> isn, window_size |-> 1,
   outstanding |-> <<>>, next_seqno |-> 0, syn_sent |-> FALSE, bytes_unack |-> 0,
   consecutive_retransmissions |-> 0, RTO |-> RtTimeout, timer |-> 0,
   timer_active |-> FALSE, fin_set |-> FALSE, zero_window_probe_sent |-> FALSE,
   zero_window_probe_seqno |-> NoProbe, fin_ready |-> FALSE]

NextSeqno(snd) == Wrap(snd.next_seqno, snd.isn)

\* TCPSender::make_empty_message
EmptyMessage(snd) ==
  [SenderMessage(NextSeqno(snd), FALSE, <<>>, FALSE) EXCEPT !.RST = snd.input.error]

\* The absolute sequence number of a wrapped one, as the sender reads it.
SeqnoOf(snd, seqno) == Unwrap(seqno, snd.isn, snd.next_seqno)

\* Wrong on purpose: what is in flight does not count.
WholeWindow(snd) == snd.window_size

AvailableWindow(snd) == Larger(snd.window_size - snd.bytes_unack, 0)

-----------------------------------------------------------------------------
(* push() *)

\* What follows every transmit() in push(): the message is outstanding, and
\* the timer runs.
Send(step, m) ==
  LET snd == step.snd
      len == SequenceLength(m)
  IN  [snd |-> [snd EXCEPT !.outstanding  = Append(@, m),
                           !.next_seqno   = @ + len,
                           !.bytes_unack  = @ + len,
                           !.fin_set      = @ \/ m.FIN,
                           !.timer        = IF snd.timer_active THEN @ ELSE 0,
                           !.timer_active = TRUE],
       out |-> Append(step.out, m)]

SendAll(step, messages) == FoldLeft(Send, step, messages)

\* Take n bytes from the outbound stream.
TakeBytes(step, n) == [step EXCEPT !.snd.input = Pop(@, n)]

\* The first message: SYN, and what else the window admits beside it.
PushSyn(step) ==
  LET snd   == step.snd
      room  == Larger(AvailableWindow(snd) - 1, 0)
      n     == Smaller(Smaller(room, MaxPayload), BytesBuffered(snd.input))
      rest  == Pop(snd.input, n)
      fin   == IsFinished(rest) /\ room > 1 + n
      begin == [TakeBytes(step, n) EXCEPT !.snd.syn_sent = TRUE]
  IN  IF snd.syn_sent
        THEN step
        ELSE Send(begin, SenderMessage(snd.isn, TRUE, Prefix(snd.input.stream, n), fin))

\* The loop that fills the window: n bytes in segments of MaxPayload, with the
\* FIN on the last one if it is the end of the stream and there is room for it.
PushData(step) ==
  LET snd   == step.snd
      n     == Smaller(AvailableWindow(snd), BytesBuffered(snd.input))
      fin   == snd.input.is_closed /\ n = BytesBuffered(snd.input) /\ AvailableWindow(snd) > n
      count == (n + MaxPayload - 1) \div MaxPayload
      segment(i) ==
        SenderMessage(Wrap(snd.next_seqno + (i - 1) * MaxPayload, snd.isn), FALSE,
                SubSeq(snd.input.stream, (i - 1) * MaxPayload + 1, Smaller(i * MaxPayload, n)),
                fin /\ i = count)
  IN  SendAll(TakeBytes(step, n), [i \in 1 .. count |-> segment(i)])

SendFin(step) == Send(step, SenderMessage(NextSeqno(step.snd), FALSE, <<>>, TRUE))

\* The FIN on its own, when the window has room for it.
PushFin(step) ==
  IF ~ step.snd.fin_set /\ IsFinished(step.snd.input) /\ AvailableWindow(step.snd) > 0
    THEN SendFin(step)
    ELSE step

\* The FIN on its own after the last probe was acknowledged, whatever the
\* window.
PushFinReady(step) ==
  IF step.snd.fin_ready /\ ~ step.snd.fin_set
    THEN [SendFin(step) EXCEPT !.snd.fin_ready = FALSE]
    ELSE step

\* Wrong on purpose: a closed window is not probed.
PushNoProbe(step) == step

\* One byte into a closed window, to learn when it opens.
PushProbe(step) ==
  LET snd   == step.snd
      probe == Send(TakeBytes(step, 1),
                    SenderMessage(NextSeqno(snd), FALSE, Prefix(snd.input.stream, 1), FALSE))
  IN  IF snd.window_size = 0 /\ ~ snd.zero_window_probe_sent /\ BytesBuffered(snd.input) > 0
        THEN [probe EXCEPT !.snd.zero_window_probe_sent  = TRUE,
                           !.snd.zero_window_probe_seqno = SeqnoOf(probe.snd, NextSeqno(snd))]
        ELSE step

\* Wrong on purpose: an error is not announced.
SenderPushSilent(snd) ==
  LET step == [snd |-> snd, out |-> <<>>]
  IN  IF snd.input.error
        THEN step
        ELSE PushProbe(PushFinReady(PushFin(PushData(PushSyn(step)))))

SenderPush(snd) ==
  LET step == [snd |-> snd, out |-> <<>>]
  IN  IF snd.input.error
        THEN [step EXCEPT !.out = <<EmptyMessage(snd)>>]
        ELSE PushProbe(PushFinReady(PushFin(PushData(PushSyn(step)))))

-----------------------------------------------------------------------------
(* receive() *)

SegmentEnd(snd, m) == SeqnoOf(snd, m.seqno) + SequenceLength(m)

\* Wrong on purpose: a segment is forgotten one number too early.
CountAckedEarly(snd, ackno) ==
  CHOOSE k \in 0 .. Len(snd.outstanding) :
    /\ \A i \in 1 .. k : SegmentEnd(snd, snd.outstanding[i]) <= ackno + 1
    /\ k < Len(snd.outstanding) => SegmentEnd(snd, snd.outstanding[k + 1]) > ackno + 1

\* How many of the outstanding messages, from the oldest, ackno covers whole.
CountAcked(snd, ackno) ==
  CHOOSE k \in 0 .. Len(snd.outstanding) :
    /\ \A i \in 1 .. k : SegmentEnd(snd, snd.outstanding[i]) <= ackno
    /\ k < Len(snd.outstanding) => SegmentEnd(snd, snd.outstanding[k + 1]) > ackno

\* The oldest message has been acknowledged.  When it was the last probe,
\* another may be sent, and the FIN, if only the FIN is left.
PopOldest(snd, m) ==
  LET unack    == snd.bytes_unack - SequenceLength(m)
      wasProbe == snd.zero_window_probe_seqno = SeqnoOf(snd, m.seqno)
      finIsDue == ~ snd.fin_set /\ IsFinished(snd.input) /\ unack = 0
  IN  [snd EXCEPT !.outstanding = Tail(@),
                  !.bytes_unack = unack,
                  !.zero_window_probe_sent  = @ /\ ~ wasProbe,
                  !.zero_window_probe_seqno = IF wasProbe THEN NoProbe ELSE @,
                  !.fin_ready = @ \/ (wasProbe /\ finIsDue)]

PopAll(snd, acked) == FoldLeft(PopOldest, snd, acked)

\* Wrong on purpose: the timeout stays as long as it was, or the timer is not
\* started again.
RestartTimerOnly(snd) ==
  [snd EXCEPT !.timer        = IF snd.outstanding # <<>> THEN 0 ELSE @,
              !.timer_active = snd.outstanding # <<>>,
              !.consecutive_retransmissions = 0]
StopTimer(snd) ==
  [snd EXCEPT !.timer_active = FALSE, !.RTO = RtTimeout, !.consecutive_retransmissions = 0]

\* New data was acknowledged: the timer starts again for what is left, with
\* the initial timeout.
RestartTimer(snd) ==
  [snd EXCEPT !.timer        = IF snd.outstanding # <<>> THEN 0 ELSE @,
              !.timer_active = snd.outstanding # <<>>,
              !.RTO          = RtTimeout,
              !.consecutive_retransmissions = 0]

\* An ackno takes effect when it is new and acknowledges nothing unsent.
AcceptAck(snd, ackno) ==
  LET acked == SubSeq(snd.outstanding, 1, CountAcked(snd, ackno))
      stale == ackno <= snd.next_seqno - snd.bytes_unack
  IN  IF stale \/ ackno > snd.next_seqno \/ acked = <<>>
        THEN snd
        ELSE RestartTimer(PopAll(snd, acked))

\* The window is taken from every message, before its ackno is looked at.
UpdateWindow(snd, window) ==
  [snd EXCEPT !.window_size = window,
              !.zero_window_probe_sent = @ /\ window = 0]

Reset(snd) ==
  [snd EXCEPT !.input = SetError(@), !.outstanding = <<>>, !.timer_active = FALSE]

SenderReceive(snd, m) ==
  LET updated == UpdateWindow(snd, m.window_size)
  IN  CASE m.RST -> Reset(snd)
        [] ~ m.RST /\ m.ackno = NoSeqno -> updated
        [] OTHER -> AcceptAck(updated, SeqnoOf(snd, m.ackno))

-----------------------------------------------------------------------------
(* tick() *)

\* The timeout after n retransmissions in a row.
RtoAfter(n) == Smaller(RtTimeout * TwoTo[n], MaxRTO)

\* The timer only runs while something is outstanding.  When it runs out the
\* oldest message is sent again; into an open window, the timeout doubles.
Backoff(snd) ==
  IF snd.window_size > 0
    THEN [snd EXCEPT !.consecutive_retransmissions = Smaller(@ + 1, MaxRetx),
                     !.RTO = Smaller(@ * 2, MaxRTO)]
    ELSE snd

SenderTick(snd, ms) ==
  LET running == snd.outstanding # <<>> /\ snd.timer_active
      timer   == snd.timer + ms
  IN  CASE ~ running -> [snd |-> snd, out |-> <<>>]
        [] running /\ timer < snd.RTO -> [snd |-> [snd EXCEPT !.timer = timer], out |-> <<>>]
        [] OTHER -> [snd |-> [Backoff(snd) EXCEPT !.timer = 0], out |-> <<Head(snd.outstanding)>>]
=============================================================================
