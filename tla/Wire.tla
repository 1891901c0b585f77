-------------------------------- MODULE Wire --------------------------------
(***************************************************************************)
(* The way of segments from other hosts to the sequence numbers of a TCP    *)
(* receiver: wrapped into datagrams by the adapter of the other host,       *)
(* forwarded by a router, damaged, unwrapped by the adapter of this host,   *)
(* and numbered as Wrap32Tracking says.                                     *)
(*                                                                         *)
(* This host listens, or is connected to one of the callers.  Its link is a *)
(* TUN device behind a LossyFdAdapter (src/apps/tcp_ipv4.cc) or an Ethernet *)
(* (src/apps/endtoend.cc).                                                  *)
(***************************************************************************)
EXTENDS Wrap32Tracking, TCPOverIP, FiniteSets

CONSTANTS Caller,     \* the ends that other hosts send from
          Forwarded,  \* the callers that are behind a router
          Contact,    \* the ends they send to
          Local,      \* the end of this host that a client connects from
          OwnEthernet, RouterEthernet, \* the ends of the Ethernet link
          Damage      \* what may happen to a byte: [at, plus]

\* A sequence number has at most 32 bits, and a segment fits into a datagram.
ASSUME WireAssumption ==
  /\ Caller \subseteq Endpoints /\ Forwarded \subseteq Caller
  /\ Contact \subseteq Endpoints /\ Local \in Contact
  /\ \A shape \in Shape :
       /\ shape.payload \in Seq(Byte)
       /\ TotalLength(Len(shape.payload)) = 2 * HEADER_LENGTH + Len(shape.payload)
  /\ OwnEthernet \in [1 .. 6 -> Byte] /\ RouterEthernet \in [1 .. 6 -> Byte]
  /\ (SeqSpace - 1) \div 65536 < 65536

VARIABLES link,       \* "tun" or "ethernet"
          adapter,    \* the adapter of this host
          connection  \* history: whose segments reached the TCP peer, and as
                      \* sent to which end

wireVars == <<vars, link, adapter, connection>>

DEFAULT_CAPACITY == 64000   \* the window of every message

\* A numbered segment with an acknowledgment; the first has none.
MessageNumbered(n, shape) ==
  Segment(Numbered(n, shape),
          [ackno |-> IF n = 0 THEN NoSeqno ELSE zero_point, RST |-> FALSE,
           window_size |-> DEFAULT_CAPACITY])

\* What a router sends on (Router::route); no time to live is short here.
Forward(input) ==
  LET parsed == ParseDatagram(input)
      header == [parsed.header EXCEPT !.ttl = parsed.header.ttl - 1]
  IN  DatagramBytes([parsed EXCEPT !.header = ComputeChecksum(header)])

Forwards(c, input) == IF c \in Forwarded THEN Forward(input) ELSE input

\* What arrives, on the link of this host, of a message from a caller.
OnTheWay(c, to, message) ==
  LET input == Forwards(c, WrapTcpInIp(NewAdapter(c, to, FALSE), message))
  IN  IF link = "tun"
        THEN input
        ELSE FrameBytes([dst |-> OwnEthernet, src |-> RouterEthernet, type |-> TYPE_IPv4,
                         payload |-> input])

\* read() of the adapter.
ReadLink(input) ==
  IF link = "tun" THEN ReadTun(adapter, input) ELSE ReadFrame(adapter, OwnEthernet, input)

Damaged(input, damage) ==
  IF damage.at \in DOMAIN input
    THEN [input EXCEPT ![damage.at] = (@ + damage.plus) % 256]
    ELSE input

-----------------------------------------------------------------------------
\* listen_and_accept() binds to a port only; connect() knows both ends.
WireInit ==
  /\ Init
  /\ connection = {}
  /\ link \in {"tun", "ethernet"}
  /\ \/ adapter = NewAdapter(Endpoint(AnyEndpoint.ip, Local.port), AnyEndpoint, TRUE)
     \/ \E c \in Caller : adapter = NewAdapter(Local, c, FALSE)

\* A segment is read, and given to the receiver.  LossyFdAdapter::read drops
\* what the adapter has already read: the adapter may have taken a connection
\* from a SYN that TCP never sees.
Read(c, to, n, shape) ==
  LET result == ReadLink(OnTheWay(c, to, MessageNumbered(n, shape)))
  IN  /\ adapter' = result.adapter
      /\ UNCHANGED link
      /\ \/ /\ ~ result.error
            /\ connection' = connection \cup {<<c, to>>}
            /\ Receive(n, result.message)
         \/ /\ result.error \/ link = "tun"
            /\ UNCHANGED <<vars, connection>>

WireNext ==
  \E c \in Caller, to \in Contact, n \in Word, shape \in Shape : Read(c, to, n, shape)

WireSpec == WireInit /\ [][WireNext]_wireVars

-----------------------------------------------------------------------------
\* However segments of several callers mix, all that reach the TCP peer belong
\* to one connection: one caller, which sends to one address of this host
\* (tcp_over_ip.cc:27-69).
OneConnection == Cardinality(connection) <= 1

\* What this host answers reaches the caller it took the connection from, is
\* accepted there and says what was said, with or without a router between
\* (tcp_over_ip.cc:54-61,76-96).
AnswersReachCaller ==
  \A pair \in connection, n \in {0, sent.number}, shape \in Shape :
    LET answer == MessageNumbered(n, shape)
        result == ReadTun(NewAdapter(pair[1], pair[2], FALSE),
                          Forwards(pair[1], WrapTcpInIp(adapter, answer)))
    IN  ~ result.error /\ result.message = answer

\* A segment with a damaged byte, in one of the headers or in the payload, is not
\* taken for another segment (ipv4_header.cc:46-51, tcp_segment.cc:14-20).
DamageIsNoticed ==
  \A pair \in connection, shape \in Shape :
    LET message == MessageNumbered(sent.number, shape)
        input   == OnTheWay(pair[1], pair[2], message)
    IN  \A damage \in Damage :
          LET result == ReadLink(Damaged(input, damage))
          IN  ~ result.error => result.message = message
=============================================================================
