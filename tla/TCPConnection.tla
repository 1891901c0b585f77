---------------------------- MODULE TCPConnection ----------------------------
(***************************************************************************)
(* Two TCP peers, the applications that use them and the network between    *)
(* them.  Each peer is driven by the event loop of a TCPMinnowSocket        *)
(* (src/util/tcp_minnow_socket_impl.hh): a segment arrives (rule 1), the    *)
(* application writes or closes (rule 2), the application reads (rule 3),   *)
(* time passes (_tcp_loop).  The client calls connect(), the server         *)
(* listen_and_accept().  The network may lose, repeat and reorder segments. *)
(*                                                                         *)
(* The i-th byte that an application writes has the value i - 1.  Time is   *)
(* counted in ticks of any length that divides the timeouts.                *)
(***************************************************************************)
EXTENDS TCPPeer

CONSTANTS StreamSize,     \* [Side -> Nat], how many bytes each application writes
          ISN,            \* [Side -> Raw], the initial sequence numbers
          SendCapacity,   \* capacity of the outbound streams
          RecvCapacity,   \* capacity of the inbound streams
          SameClock,      \* whether time passes at the same pace on both sides
          MaxInFlight,    \* bound: time passes only with so many segments on their way
          MaxReorder,     \* bound: how many segments one may overtake
          Budgets         \* bound: what may go wrong, one of these per behaviour

Side == {"client", "server"}
Other(s) == IF s = "client" THEN "server" ELSE "client"

\* How many segments are lost and repeated by the network, how many resets
\* come from outside, and how many sockets are destructed while in use.
Fault == {"lost", "duplicated", "resets", "destroyed"}

\* The network may keep a segment for ever, so all the numbers of a stream, and
\* those a receiver may still be asked for, must be told apart by unwrap.
ASSUME ConnectionAssumption ==
  /\ StreamSize \in [Side -> Nat]
  /\ ISN \in [Side -> Raw]
  /\ SendCapacity \in Nat /\ RecvCapacity \in Nat
  /\ SameClock \in BOOLEAN
  /\ \A s \in Side : 2 * (StreamSize[s] + RecvCapacity + 2) < SeqSpace
  /\ {MaxInFlight, MaxReorder} \subseteq Nat /\ Budgets \subseteq [Fault -> Nat]

VARIABLES peer,       \* per side: its TCPPeer
          network,    \* per side: the segments it has sent that are on their way
          consumed,   \* per side: history, the bytes its application has read
          destroyed,  \* per side: its socket has been destructed, its thread has ended
          budget      \* what may still go wrong

vars == <<peer, network, consumed, destroyed, budget>>

Snd(s) == peer[s].sender
Inb(s) == Inbound(peer[s].receiver)
Data(s) == [i \in 1 .. StreamSize[s] |-> i - 1]

\* The oldest sequence number not yet acknowledged, as an absolute number.
Una(s) == Snd(s).next_seqno - Snd(s).bytes_unack

Init ==
  /\ peer = [s \in Side |-> NewTCPPeer(ISN[s], SendCapacity, RecvCapacity)]
  /\ network = [s \in Side |-> <<>>]
  /\ consumed = [s \in Side |-> <<>>]
  /\ destroyed = [s \in Side |-> FALSE]
  /\ budget \in Budgets

\* One more fault of a kind.
Spend(fault) == budget[fault] > 0 /\ budget' = [budget EXCEPT ![fault] = @ - 1]

\* The loop of side s runs a handler of its peer, which transmits what it
\* returns.
Handle(s, step) ==
  /\ ~ destroyed[s]
  /\ peer' = [peer EXCEPT ![s] = step.peer]
  /\ network' = [network EXCEPT ![s] = @ \o step.out]

-----------------------------------------------------------------------------
(* The sockets *)

\* connect(): the first push() sends the SYN.
Connect ==
  /\ ~ Snd("client").syn_sent
  /\ UNCHANGED <<consumed, destroyed, budget>>
  /\ Handle("client", PeerPush(peer["client"]))

\* connect() returns when the SYN is acknowledged, listen_and_accept() when
\* moreover the SYN of the other side has arrived.
Established(s) ==
  /\ Una(s) > 0
  /\ s = "server" => peer[s].receiver.ackno # NoSeqno

\* Rule 2 reads bytes from the application, what the outbound stream can hold
\* at most, and pushes them.
Rule2Interest(s) ==
  /\ Active(peer[s])
  /\ ~ Snd(s).input.is_closed
  /\ AvailableCapacity(Snd(s).input) > 0

Write(s, n) ==
  /\ Established(s) /\ Rule2Interest(s)
  /\ n <= AvailableCapacity(Snd(s).input)
  /\ Snd(s).input.pushed + n <= StreamSize[s]
  /\ UNCHANGED <<consumed, destroyed, budget>>
  /\ LET data == SubSeq(Data(s), Snd(s).input.pushed + 1, Snd(s).input.pushed + n)
     IN  Handle(s, PeerPush([peer[s] EXCEPT !.sender.input = Push(@, data)]))

\* Rule 2 meets the end of the application's data.
CloseOutbound(s) ==
  /\ Established(s) /\ Rule2Interest(s)
  /\ Snd(s).input.pushed = StreamSize[s]
  /\ UNCHANGED <<consumed, destroyed, budget>>
  /\ Handle(s, PeerPush([peer[s] EXCEPT !.sender.input = Close(@)]))

\* Rule 3 hands inbound bytes to the application; the write to the socket may
\* be partial.  Nothing is transmitted.
Read(s, n) ==
  /\ ~ destroyed[s]
  /\ n <= BytesBuffered(Inb(s))
  /\ consumed' = [consumed EXCEPT ![s] = @ \o Prefix(Inb(s).stream, n)]
  /\ peer' = [peer EXCEPT ![s].receiver.reassembler.output = Pop(@, n)]
  /\ UNCHANGED <<network, destroyed, budget>>

\* ~TCPMinnowSocket on a connection in use: the thread is told to leave its
\* loop, and the TCPPeer is destroyed.
Destroy(s) ==
  /\ ~ destroyed[s]
  /\ Spend("destroyed")
  /\ Established(s) /\ Active(peer[s])
  /\ destroyed' = [destroyed EXCEPT ![s] = TRUE]
  /\ UNCHANGED <<peer, network, consumed>>

-----------------------------------------------------------------------------
(* Time *)

Running(s) == ~ destroyed[s] /\ (s = "client" => Snd(s).syn_sent)

Ticks(s) == Running(s) /\ Active(peer[s])

MayTick == Len(network["client"]) + Len(network["server"]) <= MaxInFlight

\* The loop of s measures one unit of time.
Tick(s) ==
  /\ ~ SameClock /\ MayTick
  /\ Ticks(s)
  /\ UNCHANGED <<consumed, destroyed, budget>>
  /\ Handle(s, PeerTick(peer[s], 1))

\* Both loops measure one unit of time.
TickTogether ==
  LET step(s) == IF Ticks(s) THEN PeerTick(peer[s], 1) ELSE [peer |-> peer[s], out |-> <<>>]
  IN  /\ SameClock /\ MayTick
      /\ \E s \in Side : Ticks(s)
      /\ UNCHANGED <<consumed, destroyed, budget>>
      /\ peer' = [s \in Side |-> step(s).peer]
      /\ network' = [s \in Side |-> network[s] \o step(s).out]

-----------------------------------------------------------------------------
(* The network *)

Without(seq, i) == RemoveAt(seq, i)

\* A listening adapter passes on nothing before the first SYN.
Unwanted(s, segment) ==
  s = "server" /\ ~ Snd(s).syn_sent /\ (~ segment.SYN \/ segment.RST)

\* Rule 1: the i-th segment on its way to s arrives.
Deliver(s, i) ==
  LET from    == Other(s)
      segment == network[from][i]
      step    == IF Unwanted(s, segment) \/ destroyed[s]
                   THEN [peer |-> peer[s], out |-> <<>>]
                   ELSE PeerReceive(peer[s], segment)
  IN  /\ i \in DOMAIN network[from]
      /\ UNCHANGED <<consumed, destroyed, budget>>
      /\ peer' = [peer EXCEPT ![s] = step.peer]
      /\ network' = [network EXCEPT ![from] = Without(@, i), ![s] = @ \o step.out]

Lose(s, i) ==
  /\ i \in DOMAIN network[s]
  /\ Spend("lost")
  /\ network' = [network EXCEPT ![s] = Without(@, i)]
  /\ UNCHANGED <<peer, consumed, destroyed>>

\* A copy arrives later than everything on its way now.
Duplicate(s, i) ==
  /\ i \in DOMAIN network[s]
  /\ Spend("duplicated")
  /\ network' = [network EXCEPT ![s] = Append(@, @[i])]
  /\ UNCHANGED <<peer, consumed, destroyed>>

\* The other host, which need not run this program, resets the connection.
ForeignReset(s) ==
  /\ Spend("resets")
  /\ Running(Other(s))
  /\ LET reset == [EmptyMessage(Snd(s)) EXCEPT !.RST = TRUE]
     IN  network' = [network EXCEPT ![s] = Append(@, Segment(reset, ReceiverSend(peer[s].receiver)))]
  /\ UNCHANGED <<peer, consumed, destroyed>>

-----------------------------------------------------------------------------
WriteSome(s)   == \E n \in 1 .. SendCapacity : Write(s, n)
ReadSome(s)    == \E n \in 1 .. RecvCapacity : Read(s, n)
DeliverSome(s) == \E i \in 1 .. MaxReorder + 1 : Deliver(s, i)
LoseSome(s)    == \E i \in DOMAIN network[s] : Lose(s, i)
DuplicateSome(s) == \E i \in DOMAIN network[s] : Duplicate(s, i)

Next ==
  \/ Connect
  \/ TickTogether
  \/ \E s \in Side :
       \/ WriteSome(s)
       \/ CloseOutbound(s)
       \/ ReadSome(s)
       \/ DeliverSome(s)
       \/ Tick(s)
       \/ Destroy(s)
       \/ LoseSome(s)
       \/ DuplicateSome(s)
       \/ ForeignReset(s)

Spec == Init /\ [][Next]_vars

-----------------------------------------------------------------------------
(* Fairness: the event loop serves every rule that stays ready,             *)
(* applications write all they have, close and keep reading, and segments   *)
(* that are not lost arrive.  Each WeaklyFair(E, A) is WF_vars(A) with the   *)
(* enabling condition E of <<A>>_vars written out.                          *)
CanUse(s) == ~ destroyed[s] /\ Established(s) /\ Rule2Interest(s)

\* A tick that only finds everything at rest changes nothing.
TickCounts(s) ==
  /\ MayTick /\ Ticks(s)
  /\ peer[s].idle < LingerTime \/ (Snd(s).outstanding # <<>> /\ Snd(s).timer_active)

Fairness ==
  /\ ([]<>~(~ Snd("client").syn_sent /\ ~ destroyed["client"]) \/ []<><<Connect>>_vars)
  /\ ([]<>~(SameClock /\ \E s \in Side : TickCounts(s)) \/ []<><<TickTogether>>_vars)
  /\ \A s \in Side :
       /\ ([]<>~(CanUse(s) /\ Snd(s).input.pushed < StreamSize[s]) \/ []<><<WriteSome(s)>>_vars)
       /\ ([]<>~(CanUse(s) /\ Snd(s).input.pushed = StreamSize[s]) \/ []<><<CloseOutbound(s)>>_vars)
       /\ ([]<>~(~ destroyed[s] /\ Inb(s).stream # <<>>) \/ []<><<ReadSome(s)>>_vars)
       /\ ([]<>~(network[Other(s)] # <<>>) \/ []<><<DeliverSome(s)>>_vars)
       /\ ([]<>~(TickCounts(s) /\ ~ SameClock) \/ []<><<Tick(s)>>_vars)

FairSpec == Spec /\ Fairness

-----------------------------------------------------------------------------
(* Properties *)

\* The values of the bytes that the applications write.
AppData == UNION { { Data(s)[i] : i \in DOMAIN Data(s) } : s \in Side }

\* The two applications get the service of ReliableStream, whatever happens to
\* the segments: what has reached one side is what it has read and what waits
\* for it in its inbound stream.
Stream == INSTANCE ReliableStream WITH
  AppByte   <- AppData,
  MaxWrite  <- SendCapacity,
  written   <- [s \in Side |-> Prefix(Data(s), Snd(s).input.pushed)],
  closed    <- [s \in Side |-> Snd(s).input.is_closed],
  delivered <- [s \in Side |-> consumed[s] \o Inb(s).stream],
  ended     <- [s \in Side |-> Inb(s).is_closed]

ImplementsStream == Stream!StreamSpec

\* How many sequence numbers of the other side, SYN and FIN included, s has
\* put in place for good.
InPlace(s) ==
  (IF peer[s].receiver.received_SYN THEN 1 ELSE 0) + Inb(s).pushed
    + (IF Inb(s).is_closed THEN 1 ELSE 0)

\* A sender never believes more to be delivered than the receiver has put in
\* place, and forgets a segment only then: acknowledgments that are late,
\* repeated or out of order, and those whose window is closed, take nothing
\* from what may still have to be sent again.
AckedIsInPlace == \A s \in Side : Una(s) <= InPlace(Other(s))

\* What a sender holds for retransmission is exactly what lies between the
\* oldest unacknowledged number and the next one, without gap or overlap, and
\* while there is anything its timer runs and has not expired.
OutstandingIsRecoverable ==
  \A s \in Side :
    LET os == Snd(s).outstanding
        start(i) == SeqnoOf(Snd(s), os[i].seqno)
        end(i)   == SegmentEnd(Snd(s), os[i])
    IN  ~ Snd(s).input.error =>
          /\ os = <<>> => Snd(s).bytes_unack = 0
          /\ os # <<>> => /\ start(1) = Una(s)
                          /\ end(Len(os)) = Snd(s).next_seqno
                          /\ Snd(s).timer_active
                          /\ Snd(s).timer < Snd(s).RTO
          /\ \A i \in 1 .. Len(os) - 1 : end(i) = start(i + 1)

Quiet(s) == ~ Active(peer[s]) /\ ~ SomeError(peer[s])

\* A peer that goes quiet without an error has done all there is to do with
\* the data: every byte of both directions has been written and has arrived.
\* From then on it answers nothing (TCPPeer::active, tcp_peer.hh:39-48).
QuietMeansDelivered ==
  \A s, t \in Side : Quiet(s) => Inb(t).pushed = StreamSize[Other(t)]

\* Nor does it leave the other side waiting for the end of its stream: "handle
\* case where FIN couldnt fit but we still need to send it" (tcp_sender.cc:100).
QuietMeansEnded == \A s, t \in Side : Quiet(s) => Inb(t).is_closed

\* The end of what s may send, as an absolute sequence number: one SYN, and
\* the bytes that the other side has room for.  It moves only when the other
\* application reads.
RightEdge(s) == 1 + Inb(Other(s)).popped + RecvCapacity

\* A sender never runs more than one sequence number, a probe, past the window
\* of the receiver: "the number of sequence numbers that the TCP receiver is
\* interested to receive, starting from the ackno"
\* (tcp_receiver_message.hh:15-16).
RespectsWindow == \A s \in Side : Snd(s).next_seqno <= RightEdge(s) + 1

\* The timeout is the initial one doubled for every retransmission since the
\* last new acknowledgment; probes of a closed window do not count.
BackoffInStep ==
  \A s \in Side : Snd(s).RTO = RtoAfter(Snd(s).consecutive_retransmissions)

\* "When a connected socket is destructed, it will send a RST"
\* (tcp_minnow_socket.hh:34).
DestructionSendsRst ==
  [][\A s \in Side : destroyed'[s] /\ ~ destroyed[s] =>
       \E i \in DOMAIN network'[s] : network'[s][i].RST]_vars

\* A reset that reaches one peer ends the connection on both sides, when no
\* segment is lost and neither socket is destructed: the peer that gets it
\* passes it on once, before it goes silent (tcp_sender.cc:23-29).
ErrorReachesBoth ==
  budget["lost"] = 0 =>
    ((\E s \in Side : SomeError(peer[s])) ~> (\A s \in Side : ~ Active(peer[s]) \/ destroyed[s]))

\* Every byte that an application writes is read by the other one: lost
\* segments are sent again and a closed window is probed until it opens.
EverythingIsRead == <>(\A s \in Side : consumed[s] = Data(Other(s)))

\* Without a reset or a destructed socket both applications see the end, and
\* both peers come to rest.
Finishes ==
  (budget["resets"] = 0 /\ budget["destroyed"] = 0) =>
    <>(\A s \in Side : IsFinished(Inb(s)) /\ ~ Active(peer[s]))
=============================================================================
