----------------------------- MODULE MinnowSocket -----------------------------
(***************************************************************************)
(* src/util/tcp_minnow_socket_impl.hh: the three rules of the event loop of *)
(* a TCPMinnowSocket.  The state of the thread is a record: the socket's    *)
(* variables, the local socket pair, the segments that wait in the          *)
(* datagram adapter, and the TCP receiver of the other host.                *)
(*                                                                         *)
(* The other host is external: it gets every segment at once and in order.  *)
(***************************************************************************)
EXTENDS TCPPeer, FileDescriptors

SocketRules == <<"segment", "outbound", "inbound">>

NewSocket(isn, sendCapacity, recvCapacity) ==
  [tcp |-> NewTCPPeer(isn, sendCapacity, recvCapacity),
   eof |-> FALSE, inbound_shutdown |-> FALSE, outbound_shutdown |-> FALSE]

Writer(st) == st.sock.tcp.sender.input
Reader(st) == Inbound(st.sock.tcp.receiver)

IsIn(rule) == rule # "inbound"

\* Inbound bytes have ended, cleanly or not.
InboundOver(st) == IsFinished(Reader(st)) \/ Reader(st).error

Interest(rule, st) ==
  CASE rule = "segment"  -> Active(st.sock.tcp)
    [] rule = "outbound" -> /\ Active(st.sock.tcp) /\ ~ st.sock.outbound_shutdown
                            /\ AvailableCapacity(Writer(st)) > 0
    [] rule = "inbound"  -> \/ BytesBuffered(Reader(st)) > 0
                            \/ InboundOver(st) /\ ~ st.sock.inbound_shutdown

Cancel(rule, st) ==
  IF rule = "outbound"
    THEN [st EXCEPT !.sock.tcp.sender.input = Close(@), !.sock.outbound_shutdown = TRUE]
    ELSE st

Error(rule, st) ==
  CASE rule = "segment"  -> st
    [] rule = "outbound" -> [st EXCEPT !.sock.tcp.sender.input = SetError(@)]
    [] rule = "inbound"  -> [st EXCEPT !.sock.tcp.receiver.reassembler.output = SetError(@)]

Eof(rule, st) == rule = "outbound" /\ st.sock.eof

Closed(rule, st) == FALSE

Events(rule, st) ==
  IF rule = "segment"
    THEN IF st.inbox # <<>> THEN {"in"} ELSE {}
    ELSE PairEvents(st.pair, "thread")

-----------------------------------------------------------------------------
\* The peer does something, and what it transmits reaches the other host.
Transmits(st, step) ==
  [st EXCEPT !.sock.tcp = step.peer,
             !.remote = FoldLeft(ReceiverReceive, @, step.out)]

\* Rule 1.
ReceiveSegment(st) ==
  {[st |-> Transmits([st EXCEPT !.inbox = Tail(@)], PeerReceive(st.sock.tcp, Head(st.inbox))),
    served |-> TRUE, fate |-> "ok"]}

WithEof(st, eof) ==
  IF st.sock.eof \/ eof
    THEN [st EXCEPT !.sock.eof = TRUE, !.sock.outbound_shutdown = TRUE,
                    !.sock.tcp.sender.input = Close(@)]
    ELSE st

\* Rule 2.
TakeOutbound(st) ==
  LET got    == ReadFd(st.pair["thread"].queue, st.pair["thread"].rd, AvailableCapacity(Writer(st)))
      pushed == WithEof([st EXCEPT !.pair["thread"].queue = got.rest,
                                   !.sock.tcp.sender.input = Push(@, got.data)], got.eof)
  IN  {[st |-> Transmits(pushed, PeerPush(pushed.sock.tcp)),
        served |-> got.served, fate |-> "ok"]}

\* Wrong on purpose: shut down in both directions.
ShutInboundBoth(st) ==
  IF InboundOver(st)
    THEN [st EXCEPT !.pair = ShutdownBoth(@), !.sock.inbound_shutdown = TRUE]
    ELSE st

ShutInbound(st) ==
  IF InboundOver(st)
    THEN [st EXCEPT !.pair = ShutdownWrite(@, "thread"), !.sock.inbound_shutdown = TRUE]
    ELSE st

\* Wrong on purpose: the end is not passed on.
GiveInboundOnly(st) ==
  LET had == BytesBuffered(Reader(st)) > 0
      put == WriteFd(st.pair, "thread", Reader(st).stream)
  IN  IF had
        THEN {[st |-> [st EXCEPT !.pair = put.pair,
                                 !.sock.tcp.receiver.reassembler.output = Pop(@, put.written)],
               served |-> TRUE, fate |-> put.fate]}
        ELSE {[st |-> st, served |-> FALSE, fate |-> "ok"]}

\* Rule 3.
GiveInbound(st) ==
  LET had  == BytesBuffered(Reader(st)) > 0
      put  == WriteFd(st.pair, "thread", Reader(st).stream)
      next == IF had
                THEN [st EXCEPT !.pair = put.pair,
                                !.sock.tcp.receiver.reassembler.output = Pop(@, put.written)]
                ELSE st
  IN  {[st |-> ShutInbound(next), served |-> had \/ InboundOver(next),
        fate |-> IF had THEN put.fate ELSE "ok"]}

Callback(rule, st) ==
  CASE rule = "segment"  -> ReceiveSegment(st)
    [] rule = "outbound" -> TakeOutbound(st)
    [] rule = "inbound"  -> GiveInbound(st)

\* wait_next_event() of the socket.
Loop == INSTANCE EventLoop
=============================================================================
