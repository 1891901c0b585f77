------------------------------ MODULE StreamCopy ------------------------------
(***************************************************************************)
(* src/apps/bidirectional_stream_copy.cc: bytes go from standard input      *)
(* through a ByteStream to the socket, and from the socket through another  *)
(* to standard output.  The state of the thread is a record: its variables, *)
(* the two standard streams of the process and the local socket pair.       *)
(***************************************************************************)
EXTENDS FileDescriptors

CONSTANT CopyCapacity       \* buffer_size

CopyRules == <<"input", "to socket", "from socket", "output">>

NewCopy ==
  [outbound |-> NewByteStream(CopyCapacity), inbound |-> NewByteStream(CopyCapacity),
   outbound_shutdown |-> FALSE, inbound_shutdown |-> FALSE,
   input_eof |-> FALSE, socket_eof |-> FALSE, output_closed |-> FALSE]

IsIn(rule) == rule \in {"input", "from socket"}

SomeStreamError(c) == c.outbound.error \/ c.inbound.error

\* Wrong on purpose: a full ByteStream is filled, too.
FillableWhenFull(c, bs) == ~ SomeStreamError(c) /\ ~ bs.is_closed

\* A ByteStream takes more from its source, or has more for its destination.
Fillable(c, bs) ==
  ~ SomeStreamError(c) /\ AvailableCapacity(bs) > 0 /\ ~ bs.is_closed
Drains(bs, shutdown) == BytesBuffered(bs) > 0 \/ (IsFinished(bs) /\ ~ shutdown)

Interest(rule, st) ==
  CASE rule = "input"       -> Fillable(st.copy, st.copy.outbound)
    [] rule = "to socket"   -> Drains(st.copy.outbound, st.copy.outbound_shutdown)
    [] rule = "from socket" -> Fillable(st.copy, st.copy.inbound)
    [] rule = "output"      -> Drains(st.copy.inbound, st.copy.inbound_shutdown)

Cancel(rule, st) ==
  IF rule \in {"input", "to socket"}
    THEN [st EXCEPT !.copy.outbound = Close(@)]
    ELSE [st EXCEPT !.copy.inbound = Close(@)]

Error(rule, st) ==
  [st EXCEPT !.copy.outbound = SetError(@), !.copy.inbound = SetError(@)]

Eof(rule, st) == IF rule = "input" THEN st.copy.input_eof ELSE st.copy.socket_eof

Closed(rule, st) == rule = "output" /\ st.copy.output_closed

\* Standard input ends with a hang-up when it is a pipe, and readable for ever
\* when it is a file.  The reader of standard output may have gone.
Events(rule, st) ==
  CASE rule = "input" ->
         (IF st.stdin.queue # <<>> \/ st.stdin.broken \/ (st.stdin.ended /\ ~ st.stdin.hangs)
            THEN {"in"} ELSE {})
           \cup (IF st.stdin.ended /\ st.stdin.hangs THEN {"hup"} ELSE {})
    [] rule = "output" -> {"out"} \cup (IF st.stdout.broken THEN {"err"} ELSE {})
    [] OTHER -> PairEvents(st.pair, "owner")

-----------------------------------------------------------------------------
(* The callbacks: sets of outcomes [st, served, fate].                      *)

\* What was read goes into a ByteStream, which is closed at the end.
Filled(bs, got) == IF got.eof THEN Close(Push(bs, got.data)) ELSE Push(bs, got.data)

ReadInput(st) ==
  LET got == ReadFd(st.stdin.queue, st.stdin.ended, AvailableCapacity(st.copy.outbound))
  IN  IF st.stdin.broken
        THEN {[st |-> st, served |-> FALSE, fate |-> "threw"]}
        ELSE {[st |-> [st EXCEPT !.stdin.queue = got.rest,
                                 !.copy.outbound = Filled(@, got),
                                 !.copy.input_eof = @ \/ got.eof],
               served |-> got.served, fate |-> "ok"]}

ReadSocket(st) ==
  LET got == ReadFd(st.pair["owner"].queue, st.pair["owner"].rd, AvailableCapacity(st.copy.inbound))
  IN  {[st |-> [st EXCEPT !.pair["owner"].queue = got.rest,
                          !.copy.inbound = Filled(@, got),
                          !.copy.socket_eof = @ \/ got.eof],
        served |-> got.served, fate |-> "ok"]}

\* Once all is written and no more will come, the socket is shut down.
ShutSocket(st) ==
  IF IsFinished(st.copy.outbound)
    THEN [st EXCEPT !.pair = ShutdownWrite(@, "owner"), !.copy.outbound_shutdown = TRUE]
    ELSE st

WriteSocket(st) ==
  LET had  == BytesBuffered(st.copy.outbound) > 0
      put  == WriteFd(st.pair, "owner", st.copy.outbound.stream)
      next == IF had
                THEN [st EXCEPT !.pair = put.pair, !.copy.outbound = Pop(@, put.written)]
                ELSE st
  IN  {[st |-> ShutSocket(next), served |-> had \/ IsFinished(next.copy.outbound),
        fate |-> IF had THEN put.fate ELSE "ok"]}

CloseOutput(st) ==
  IF IsFinished(st.copy.inbound)
    THEN [st EXCEPT !.copy.output_closed = TRUE, !.copy.inbound_shutdown = TRUE]
    ELSE st

\* Standard output takes one byte or more; with its reader gone the process is
\* killed.
WriteOutput(st) ==
  LET inbound == st.copy.inbound
      after(n) == [st EXCEPT !.stdout.bytes = @ \o Prefix(inbound.stream, n),
                             !.copy.inbound = Pop(@, n)]
  IN  CASE BytesBuffered(inbound) = 0 ->
             {[st |-> CloseOutput(st), served |-> FALSE, fate |-> "ok"]}
        [] BytesBuffered(inbound) > 0 /\ st.stdout.broken ->
             {[st |-> st, served |-> FALSE, fate |-> "killed"]}
        [] OTHER -> { [st |-> CloseOutput(after(n)), served |-> TRUE, fate |-> "ok"] :
                      n \in 1 .. BytesBuffered(inbound) }

Callback(rule, st) ==
  CASE rule = "input"       -> ReadInput(st)
    [] rule = "to socket"   -> WriteSocket(st)
    [] rule = "from socket" -> ReadSocket(st)
    [] rule = "output"      -> WriteOutput(st)

\* wait_next_event() of this loop.
Loop == INSTANCE EventLoop
=============================================================================
