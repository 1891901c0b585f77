----------------------------- MODULE CopyProgram -----------------------------
(***************************************************************************)
(* The program of src/apps/tcp_ipv4.cc and endtoend.cc, whole: main()       *)
(* connects or listens, copies between the standard streams and the socket  *)
(* (StreamCopy), and waits until the connection is closed, while the second *)
(* thread of the socket runs the TCP peer (MinnowSocket).  The threads      *)
(* share the local socket pair, the _abort flag and the end of the second   *)
(* one; each runs an event loop, one iteration in two steps.                *)
(*                                                                         *)
(* The other host and the users of the standard streams are external.  One  *)
(* fault of the chosen kind may strike: the other host resets the           *)
(* connection, reading standard input fails, or the reader of standard      *)
(* output goes away.                                                        *)
(***************************************************************************)
EXTENDS TCPPeer, FileDescriptors

CONSTANTS CopyCapacity, SendCapacity, RecvCapacity,
          LocalISN, RemoteISN,
          Worlds                   \* the circumstances, one per behaviour: a set

\* Whether main() listens or connects, whether standard input ends with a
\* hang-up (a pipe) or stays readable (a file), which fault may strike, and how
\* many bytes go from standard input to the other host and back.
World == [listens : BOOLEAN, hangs : BOOLEAN, fault : {"none", "reset", "input", "output"},
          out : Nat, back : Nat]

ASSUME ProgramAssumption ==
  /\ {SendCapacity, RecvCapacity} \subseteq Nat
  /\ CopyCapacity \in Nat \ {0}
  /\ {LocalISN, RemoteISN} \subseteq Raw
  /\ Worlds \subseteq World

Copy == INSTANCE StreamCopy
Sock == INSTANCE MinnowSocket

VARIABLES sock,       \* the socket's variables, its TCPPeer among them
          inbox,      \* segments waiting in the datagram adapter
          pair,       \* the two ends of the local socket pair
          copy,       \* the variables of bidirectional_stream_copy
          stdin, stdout,
          tcpLoop,    \* the event loop of the socket: its rules and where it is
          copyLoop,   \* the event loop of bidirectional_stream_copy
          owner,      \* where main() is
          fate,       \* how the callback that ended the program ended
          received,   \* the TCP receiver of the other host
          remote,     \* what the other host has sent: the SYN, bytes, the FIN
          world,      \* the circumstances
          struck      \* whether the fault has struck

vars == <<sock, inbox, pair, copy, stdin, stdout, tcpLoop, copyLoop, owner, fate,
          received, remote, world, struck>>

tcpVars    == <<sock, inbox, received, tcpLoop>>
copyVars   == <<copy, stdin, stdout, copyLoop>>
remoteVars == <<remote, world, struck>>

NewLoop(rules) == [at |-> "poll", rules |-> rules, asked |-> {}, revents |-> << >>]

Init ==
  /\ sock = Sock!NewSocket(LocalISN, SendCapacity, RecvCapacity)
  /\ inbox = <<>>
  /\ pair = NewPair
  /\ copy = Copy!NewCopy
  /\ world \in Worlds /\ struck = FALSE
  /\ stdin = [queue |-> <<>>, typed |-> 0, ended |-> FALSE, hangs |-> world.hangs, broken |-> FALSE]
  /\ stdout = [bytes |-> <<>>, broken |-> FALSE]
  /\ tcpLoop = NewLoop(Sock!SocketRules)
  /\ copyLoop = NewLoop(Copy!CopyRules)
  /\ owner = "starting"
  /\ fate = "ok"
  /\ received = NewTCPReceiver(world.out + 1)
  /\ remote = [syn |-> FALSE, sent |-> 0, fin |-> FALSE]

Alive == owner # "dead"

-----------------------------------------------------------------------------
(* The TCP loop, run by main() inside connect() or listen_and_accept() and  *)
(* then by the second thread.                                               *)

TcpState == [sock |-> sock, pair |-> pair, inbox |-> inbox, remote |-> received]

\* connect() sends the SYN; listen_and_accept() only waits.
Start ==
  /\ owner = "starting"
  /\ LET next == IF world.listens THEN TcpState
                                  ELSE Sock!Transmits(TcpState, PeerPush(sock.tcp))
     IN  sock' = next.sock /\ received' = next.remote
  /\ owner' = "connecting"
  /\ UNCHANGED <<inbox, pair, tcpLoop, fate>> /\ UNCHANGED copyVars /\ UNCHANGED remoteVars

\* The conditions of the two loops: the handshake is not over.
Connecting(tcp) ==
  IF world.listens
    THEN tcp.receiver.ackno = NoSeqno \/ tcp.sender.bytes_unack > 0
    ELSE tcp.sender.bytes_unack = 1

\* The end of an iteration: time passes for an active peer, and the connection
\* is up when the handshake is over.
EndIteration(st, rules, ms) ==
  LET next == IF Active(st.sock.tcp) THEN Sock!Transmits(st, PeerTick(st.sock.tcp, ms)) ELSE st
  IN  /\ sock' = next.sock /\ inbox' = next.inbox /\ received' = next.remote /\ pair' = next.pair
      /\ tcpLoop' = NewLoop(rules)
      /\ owner' = IF owner = "connecting" /\ ~ Connecting(next.sock.tcp) THEN "copying" ELSE owner

\* The loop is left.  In connect() this only ends the handshake, and the
\* second thread starts; there it shuts the local socket down, and the TCPPeer
\* is gone.
LeaveLoop(st, rules) ==
  /\ sock' = st.sock /\ inbox' = st.inbox /\ received' = st.remote
  /\ IF owner = "connecting"
       THEN owner' = "copying" /\ pair' = st.pair /\ tcpLoop' = NewLoop(rules)
       ELSE /\ pair' = ShutdownBoth(st.pair)
            /\ tcpLoop' = [NewLoop(rules) EXCEPT !.at = "ended"]
            /\ UNCHANGED owner

\* Wrong on purpose: _abort is never set.
NeverAbort == FALSE

\* The flag _abort.
Abort == owner = "destructing"

\* After wait_next_event() the loop looks at _abort.
Continue(st, rules, ms) == IF Abort THEN LeaveLoop(st, rules) ELSE EndIteration(st, rules, ms)

TcpRuns == Alive /\ owner # "starting"

\* Up to poll(), which gives up after TCP_TICK_MS.
TcpPoll ==
  LET swept   == Sock!Loop!Sweep(TcpState, tcpLoop.rules)
      revents == Sock!Loop!Revents(swept)
  IN  /\ TcpRuns /\ tcpLoop.at = "poll"
      /\ UNCHANGED fate /\ UNCHANGED copyVars /\ UNCHANGED remoteVars
      /\ CASE swept.asked = {} -> LeaveLoop(swept.st, swept.rules)
           [] swept.asked # {} /\ (\A r \in DOMAIN revents : revents[r] = {}) ->
                Continue(swept.st, swept.rules, 1)
           [] OTHER -> /\ sock' = swept.st.sock
                       /\ tcpLoop' = [at |-> "serve", rules |-> swept.rules,
                                      asked |-> swept.asked, revents |-> revents]
                       /\ UNCHANGED <<inbox, received, pair, owner>>

\* After poll(); the clock may have advanced.
TcpServe(ms) ==
  /\ TcpRuns /\ tcpLoop.at = "serve"
  /\ UNCHANGED copyVars /\ UNCHANGED remoteVars
  /\ \E result \in Sock!Loop!Serve(TcpState, tcpLoop.rules, tcpLoop.asked, tcpLoop.revents) :
       IF result.fate = "ok"
         THEN Continue(result.st, result.rules, ms) /\ UNCHANGED fate
         ELSE fate' = result.fate /\ owner' = "dead" /\ UNCHANGED tcpVars /\ UNCHANGED pair

-----------------------------------------------------------------------------
(* main() after connect() or listen_and_accept()                            *)

CopyState == [copy |-> copy, stdin |-> stdin, stdout |-> stdout, pair |-> pair]

\* wait_until_closed() shuts the socket down and joins the second thread.
WaitUntilClosed(st) == owner' = "closing" /\ pair' = ShutdownBoth(st.pair)

\* Up to poll(), which waits for as long as it takes.
CopyPoll ==
  LET swept   == Copy!Loop!Sweep(CopyState, copyLoop.rules)
      revents == Copy!Loop!Revents(swept)
  IN  /\ owner = "copying" /\ copyLoop.at = "poll"
      /\ UNCHANGED <<stdin, stdout, fate>> /\ UNCHANGED tcpVars /\ UNCHANGED remoteVars
      /\ copy' = swept.st.copy
      /\ \/ /\ swept.asked = {}
            /\ WaitUntilClosed(swept.st)
            /\ copyLoop' = [NewLoop(swept.rules) EXCEPT !.at = "ended"]
         \/ /\ swept.asked # {} /\ \E r \in DOMAIN revents : revents[r] # {}
            /\ copyLoop' = [at |-> "serve", rules |-> swept.rules,
                            asked |-> swept.asked, revents |-> revents]
            /\ UNCHANGED <<owner, pair>>

\* After poll().  An exception leaves main() through the destructor of the
\* socket, which sets _abort and joins.
CopyServe ==
  /\ owner = "copying" /\ copyLoop.at = "serve"
  /\ UNCHANGED tcpVars /\ UNCHANGED remoteVars
  /\ \E result \in Copy!Loop!Serve(CopyState, copyLoop.rules, copyLoop.asked, copyLoop.revents) :
       /\ copy' = result.st.copy /\ stdin' = result.st.stdin /\ stdout' = result.st.stdout
       /\ pair' = result.st.pair
       /\ copyLoop' = NewLoop(result.rules)
       /\ fate' = result.fate
       /\ owner' = CASE result.fate = "ok"     -> owner
                     [] result.fate = "killed" -> "dead"
                     [] OTHER                  -> "destructing"

\* join() returns once the second thread has ended.
Join ==
  /\ owner \in {"closing", "destructing"} /\ tcpLoop.at = "ended"
  /\ owner' = IF owner = "closing" THEN "done" ELSE "failed"
  /\ UNCHANGED <<pair, fate>> /\ UNCHANGED tcpVars /\ UNCHANGED copyVars /\ UNCHANGED remoteVars

-----------------------------------------------------------------------------
(* The users of the standard streams                                        *)

StdinData  == [i \in 1 .. world.out |-> i]
RemoteData == [i \in 1 .. world.back |-> world.out + i]

External == UNCHANGED <<sock, pair, copy, tcpLoop, copyLoop, owner, fate, received>> /\ Alive

Type ==
  /\ ~ stdin.ended /\ stdin.typed < world.out
  /\ stdin' = [stdin EXCEPT !.typed = @ + 1, !.queue = Append(@, StdinData[stdin.typed + 1])]
  /\ External /\ UNCHANGED <<inbox, stdout>> /\ UNCHANGED remoteVars

EndInput ==
  /\ ~ stdin.ended /\ stdin.typed = world.out
  /\ stdin' = [stdin EXCEPT !.ended = TRUE]
  /\ External /\ UNCHANGED <<inbox, stdout>> /\ UNCHANGED remoteVars

Strike(fault) ==
  world.fault = fault /\ ~ struck /\ struck' = TRUE /\ UNCHANGED world

BreakInput ==
  /\ Strike("input")
  /\ stdin' = [stdin EXCEPT !.broken = TRUE]
  /\ External /\ UNCHANGED <<inbox, stdout, remote>>

BreakOutput ==
  /\ Strike("output") /\ ~ copy.output_closed
  /\ stdout' = [stdout EXCEPT !.broken = TRUE]
  /\ External /\ UNCHANGED <<inbox, stdin, remote>>

-----------------------------------------------------------------------------
(* The other host.  It sends the next segment when the last one has been    *)
(* read, and only into an open window.                                      *)

RemoteSeqno == Wrap((IF remote.syn THEN 1 ELSE 0) + remote.sent + (IF remote.fin THEN 1 ELSE 0), RemoteISN)

ResetSent == world.fault = "reset" /\ struck

Sends(message) ==
  /\ inbox = <<>> /\ tcpLoop.at # "ended" /\ owner # "starting"
  /\ ~ ResetSent
  /\ inbox' = <<Segment(message, ReceiverSend(received))>>
  /\ External /\ UNCHANGED <<stdin, stdout>>

RemoteSyn ==
  /\ ~ remote.syn /\ (world.listens \/ received.received_SYN)
  /\ Sends(SenderMessage(RemoteSeqno, TRUE, <<>>, FALSE))
  /\ remote' = [remote EXCEPT !.syn = TRUE] /\ UNCHANGED <<world, struck>>

CanSend ==
  /\ remote.syn /\ received.received_SYN /\ ~ remote.fin
  /\ AvailableCapacity(Inbound(sock.tcp.receiver)) > 0

RemoteByte ==
  /\ CanSend /\ remote.sent < world.back
  /\ Sends(SenderMessage(RemoteSeqno, FALSE, <<RemoteData[remote.sent + 1]>>, FALSE))
  /\ remote' = [remote EXCEPT !.sent = @ + 1] /\ UNCHANGED <<world, struck>>

RemoteFin ==
  /\ CanSend /\ remote.sent = world.back
  /\ Sends(SenderMessage(RemoteSeqno, FALSE, <<>>, TRUE))
  /\ remote' = [remote EXCEPT !.fin = TRUE] /\ UNCHANGED <<world, struck>>

RemoteAck ==
  /\ remote.syn /\ received.received_SYN /\ sock.tcp.sender.bytes_unack > 0
  /\ Sends(SenderMessage(RemoteSeqno, FALSE, <<>>, FALSE))
  /\ UNCHANGED remoteVars

RemoteReset ==
  /\ received.received_SYN /\ Strike("reset")
  /\ inbox = <<>> /\ tcpLoop.at # "ended"
  /\ inbox' = <<Segment([SenderMessage(RemoteSeqno, FALSE, <<>>, FALSE) EXCEPT !.RST = TRUE],
                        ReceiverSend(received))>>
  /\ External /\ UNCHANGED <<stdin, stdout, remote>>

RemoteSegment == RemoteSyn \/ RemoteByte \/ RemoteFin \/ RemoteAck

-----------------------------------------------------------------------------
Next ==
  \/ Start
  \/ TcpPoll
  \/ \E ms \in 0 .. 1 : TcpServe(ms)
  \/ CopyPoll
  \/ CopyServe
  \/ Join
  \/ Type
  \/ EndInput
  \/ BreakInput
  \/ BreakOutput
  \/ RemoteSegment
  \/ RemoteReset

Spec == Init /\ [][Next]_vars

Calm == world.fault = "none"

\* When an iteration of the TCP loop does something, other than waiting.
TcpLoopBusy ==
  LET swept == Sock!Loop!Sweep(TcpState, tcpLoop.rules)
      revents == Sock!Loop!Revents(swept)
  IN  \/ swept.asked = {} \/ Abort
      \/ \E r \in DOMAIN revents : revents[r] # {}
      \/ Active(sock.tcp) /\ Sock!Transmits(TcpState, PeerTick(sock.tcp, 1)) # TcpState

CopyLoopWakes ==
  LET swept == Copy!Loop!Sweep(CopyState, copyLoop.rules)
      revents == Copy!Loop!Revents(swept)
  IN  swept.asked = {} \/ \E r \in DOMAIN revents : revents[r] # {}

RemoteHasSegment ==
  /\ Alive /\ owner # "starting" /\ inbox = <<>> /\ tcpLoop.at # "ended" /\ ~ ResetSent
  /\ \/ ~ remote.syn /\ (world.listens \/ received.received_SYN)
     \/ CanSend
     \/ remote.syn /\ received.received_SYN /\ sock.tcp.sender.bytes_unack > 0

\* Both threads run; time passes, however often the loop turns; the other host
\* answers.  Standard input is used to its end when no fault is due.  As in
\* TCPConnection, the enabling condition of <<A>>_vars is written out.
Fairness ==
  /\ ([]<>~(owner = "starting") \/ []<><<Start>>_vars)
  /\ ([]<>~(TcpRuns /\ tcpLoop.at = "poll" /\ TcpLoopBusy) \/ []<><<TcpPoll>>_vars)
  /\ ([]<>~(TcpRuns /\ tcpLoop.at = "serve") \/ []<><<TcpServe(0) \/ TcpServe(1)>>_vars)
  /\ (<>[]~(TcpRuns /\ tcpLoop.at = "serve") \/ []<><<TcpServe(1)>>_vars)
  /\ ([]<>~(owner = "copying" /\ copyLoop.at = "poll" /\ CopyLoopWakes) \/ []<><<CopyPoll>>_vars)
  /\ ([]<>~(owner = "copying" /\ copyLoop.at = "serve") \/ []<><<CopyServe>>_vars)
  /\ ([]<>~(owner \in {"closing", "destructing"} /\ tcpLoop.at = "ended") \/ []<><<Join>>_vars)
  /\ ([]<>~RemoteHasSegment \/ []<><<RemoteSegment>>_vars)
  /\ ([]<>~(Calm /\ Alive /\ ~ stdin.ended) \/ []<><<Type \/ EndInput>>_vars)

FairSpec == Spec /\ Fairness

-----------------------------------------------------------------------------
(* Properties *)

\* The users of the standard streams get the service of ReliableStream from
\* end to end, through two threads, four streams and two event loops: whatever
\* fails, what comes out is a prefix of what went in, and when nothing fails
\* the end is seen only after all of it.
Stream == INSTANCE ReliableStream WITH
  Side      <- {"local", "remote"},
  AppByte   <- UNION { 1 .. w.out + w.back : w \in Worlds },
  MaxWrite  <- 1,
  written   <- [s \in {"local", "remote"} |->
                  IF s = "local" THEN Prefix(StdinData, stdin.typed)
                                 ELSE Prefix(RemoteData, remote.sent)],
  closed    <- [s \in {"local", "remote"} |-> IF s = "local" THEN stdin.ended ELSE remote.fin],
  delivered <- [s \in {"local", "remote"} |->
                  IF s = "local" THEN stdout.bytes ELSE Inbound(received).stream],
  ended     <- [s \in {"local", "remote"} |->
                  Calm /\ IF s = "local" THEN copy.output_closed ELSE Inbound(received).is_closed]

ImplementsStream == Stream!StreamSpec

\* Neither event loop ever takes a callback for a busy wait
\* (eventloop.cc:215-219), and no write finds the room gone that poll()
\* reported: the only exception is the one of a broken standard input.
NoSpuriousException == fate # "busy" /\ (fate = "threw" => stdin.broken)

\* A thread writes to a socket that the other one has shut down, which kills
\* the process, only after a reset or with the reader of standard output gone:
\* otherwise each thread shuts the pair down when the other has nothing more
\* to write.
KilledOnlyAfterFault == fate = "killed" => struck /\ world.fault \in {"reset", "output"}

\* When nothing fails, the program ends by itself: all of standard input and
\* its end have reached the other host, and all that the other host sent has
\* been written to standard output, which is closed.
ProgramFinishes ==
  Calm => <>(/\ owner = "done"
             /\ Inbound(received).stream = StdinData /\ Inbound(received).is_closed
             /\ stdout.bytes = RemoteData /\ copy.output_closed)

\* A reset ends the program, even if standard input never does: no rule of the
\* copying loop waits for ever for a socket that nobody serves.
ResetEndsProgram ==
  (world.fault = "reset" /\ struck) ~> owner \in {"done", "dead"}

\* The destructor of a socket in use returns: the second thread leaves its
\* loop wherever it is, and the join ends (tcp_minnow_socket_impl.hh:190-201).
AbortEndsThread == owner = "destructing" ~> owner = "failed"

\* Rule 3 hands on "the possibility of a partial write (i.e., only pop what
\* was actually written)" (tcp_minnow_socket_impl.hh:141-143): the local
\* socket is shut down for writing once there is nothing left to write.
ShutDownWhenAllIsWritten ==
  tcpLoop.at # "ended" /\ sock.inbound_shutdown => Inbound(sock.tcp.receiver).stream = <<>>
=============================================================================
