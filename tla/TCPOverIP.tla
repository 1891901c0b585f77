------------------------------ MODULE TCPOverIP ------------------------------
(***************************************************************************)
(* src/util/tcp_over_ip.cc: the adapter of a TCP socket puts the segments   *)
(* of one connection into IPv4 datagrams and picks them out of the          *)
(* datagrams that arrive.  Its state (fd_adapter.hh) is the two ends of the *)
(* connection, each an address with a port, and the listening flag.         *)
(***************************************************************************)
EXTENDS Headers

Endpoint(ip, port) == [ip |-> ip, port |-> port]
Endpoints == [ip : Half \X Half, port : Half]
AnyEndpoint == Endpoint(<<0, 0>>, 0)      \* Address { "0", 0 }

NewAdapter(source, destination, listening) ==
  [source |-> source, destination |-> destination, listening |-> listening]

TotalLength(size) == (HEADER_LENGTH + HEADER_LENGTH + size) % 65536

\* wrap_tcp_in_ip(), and the datagram serialized (tuntap_adapter.cc).
WrapTcpInIp(adapter, message) ==
  LET segment == [src_port |-> adapter.source.port, dst_port |-> adapter.destination.port,
                  message |-> message]
      header  == [NewHeader EXCEPT !.src = adapter.source.ip, !.dst = adapter.destination.ip,
                                   !.len = TotalLength(Len(message.payload))]
  IN  DatagramBytes([header  |-> ComputeChecksum(header),
                     payload |-> ChecksummedBytes(segment, PseudoChecksum(header))])

-----------------------------------------------------------------------------
\* The datagram is from the peer and for this host, as far as that is known.
Related(adapter, header) ==
  \/ adapter.listening
  \/ header.dst = adapter.source.ip /\ header.src = adapter.destination.ip

\* Wrong on purpose: the adapter goes on listening.
ListenOn(adapter, header, segment) ==
  NewAdapter(Endpoint(header.dst, adapter.source.port),
             Endpoint(header.src, segment.src_port), TRUE)

\* Wrong on purpose: the address that was contacted is not taken over.
TargetOnly(adapter, header, segment) ==
  NewAdapter(adapter.source, Endpoint(header.src, segment.src_port), FALSE)

\* A listening adapter takes both ends of the connection from the first SYN.
Target(adapter, header, segment) ==
  NewAdapter(Endpoint(header.dst, adapter.source.port),
             Endpoint(header.src, segment.src_port), FALSE)

\* The segment in a datagram, if it is valid and for this port.
SegmentFor(adapter, datagram) ==
  LET parsed == ParseSegment(datagram.payload, PseudoChecksum(datagram.header))
  IN  IF /\ Related(adapter, datagram.header)
         /\ datagram.header.proto = PROTO_TCP
         /\ ~ parsed.error
         /\ parsed.segment.dst_port = adapter.source.port
        THEN parsed
        ELSE Failure

\* unwrap_tcp_in_ip() of a datagram, if it could be parsed: the adapter
\* afterwards, and the message if there is one.
UnwrapTcpInIp(adapter, datagram) ==
  LET found    == IF datagram.error THEN Failure ELSE SegmentFor(adapter, datagram)
      nothing  == [adapter |-> adapter, error |-> TRUE]
      passed   == [adapter |-> adapter, error |-> FALSE, message |-> found.segment.message]
  IN  CASE found.error -> nothing
        [] ~ found.error /\ adapter.listening ->
             IF found.segment.message.SYN /\ ~ found.segment.message.RST
               THEN [passed EXCEPT !.adapter = Target(adapter, datagram.header, found.segment)]
               ELSE nothing
        [] OTHER ->
             IF found.segment.src_port = adapter.destination.port THEN passed ELSE nothing

-----------------------------------------------------------------------------
\* The two ways of a datagram to the adapter: a TUN device gives it as it is
\* (TCPOverIPv4OverTunFdAdapter::read); an Ethernet link in a frame, for the
\* interface with this address or for all (NetworkInterfaceAdapter::read).
ReadTun(adapter, input) == UnwrapTcpInIp(adapter, ParseDatagram(input))

ReadFrame(adapter, ethernet, input) ==
  LET parsed == ParseFrame(input)
      carries == /\ ~ parsed.error
                 /\ parsed.frame.dst \in {ETHERNET_BROADCAST, ethernet}
                 /\ parsed.frame.type = TYPE_IPv4
  IN  UnwrapTcpInIp(adapter, IF carries THEN ParseDatagram(parsed.frame.payload) ELSE Failure)
=============================================================================
