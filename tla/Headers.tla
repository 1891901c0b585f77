------------------------------- MODULE Headers -------------------------------
(***************************************************************************)
(* The bytes of an Ethernet frame with an IPv4 datagram with a TCP segment: *)
(* src/util/ethernet_header.cc, ipv4_header.cc and tcp_segment.cc over      *)
(* src/util/parser.cc.                                                      *)
(*                                                                         *)
(* The buffers of a Parser or a Serializer are one sequence of bytes; how   *)
(* they are cut into strings is left out.  An IP address is the pair of its *)
(* 16-bit halves, an Ethernet address the sequence of its six bytes.        *)
(***************************************************************************)
EXTENDS Checksum, TCPMessages

HEADER_LENGTH == 20   \* of both headers, in bytes
PROTO_TCP == 6
DEFAULT_TTL == 128

\* A value without its lowest bytes: value >> (8 * count).
ShiftedRight(value, count) ==
  LET shifted[k \in 0 .. count] == IF k = 0 THEN value ELSE shifted[k - 1] \div 256
  IN  shifted[count]

\* Serializer::integer.
Integer(value, size) == [i \in 1 .. size |-> ShiftedRight(value, size - i) % 256]

\* Parser::integer, at an offset from the start of the input.
IntegerAt(input, offset, size) ==
  LET value[i \in 0 .. size] == IF i = 0 THEN 0 ELSE 256 * value[i - 1] + input[offset + i]
  IN  value[size]

\* Parser::remove_prefix; it stops at the end of the input.
RemovePrefix(input, count) == SubSeq(input, count + 1, Len(input))

\* Parser::truncate, of buffers none of which is partly consumed; a longer
\* length changes nothing.
Truncate(input, count) == SubSeq(input, 1, IF count < Len(input) THEN count ELSE Len(input))

Flag(set, bit) == IF set THEN bit ELSE 0
IsSet(value, bit) == (value \div bit) % 2 = 1

AddressBytes(address) == Integer(address[1], 2) \o Integer(address[2], 2)
AddressAt(input, offset) == <<IntegerAt(input, offset, 2), IntegerAt(input, offset + 2, 2)>>

Failure == [error |-> TRUE]

-----------------------------------------------------------------------------
ETHERNET_LENGTH == 14
TYPE_IPv4 == 2048
ETHERNET_BROADCAST == [i \in 1 .. 6 |-> 255]

\* EthernetFrame::serialize.
FrameBytes(frame) == frame.dst \o frame.src \o Integer(frame.type, 2) \o frame.payload

\* EthernetFrame::parse.
ParseFrame(input) ==
  IF Len(input) < ETHERNET_LENGTH
    THEN Failure
    ELSE [error |-> FALSE,
          frame |-> [dst |-> SubSeq(input, 1, 6), src |-> SubSeq(input, 7, 12),
                     type |-> IntegerAt(input, 12, 2),
                     payload |-> RemovePrefix(input, ETHERNET_LENGTH)]]

-----------------------------------------------------------------------------
\* A new IPv4Header.
NewHeader ==
  [ver |-> 4, hlen |-> HEADER_LENGTH \div 4, tos |-> 0, len |-> 0, id |-> 0,
   df |-> TRUE, mf |-> FALSE, offset |-> 0, ttl |-> DEFAULT_TTL, proto |-> PROTO_TCP,
   cksum |-> 0, src |-> <<0, 0>>, dst |-> <<0, 0>>]

PayloadLength(header) == (header.len - 4 * header.hlen) % 65536

PseudoChecksum(header) ==
  header.src[1] + header.src[2] + header.dst[1] + header.dst[2]
    + header.proto + PayloadLength(header)

\* IPv4Header::serialize.
HeaderBytes(header) ==
  Integer(16 * header.ver + header.hlen, 1) \o Integer(header.tos, 1)
    \o Integer(header.len, 2) \o Integer(header.id, 2)
    \o Integer(Flag(header.df, 16384) + Flag(header.mf, 8192) + header.offset, 2)
    \o Integer(header.ttl, 1) \o Integer(header.proto, 1) \o Integer(header.cksum, 2)
    \o AddressBytes(header.src) \o AddressBytes(header.dst)

\* IPv4Header::compute_checksum.
ComputeChecksum(header) ==
  [header EXCEPT !.cksum = Value(Add(NewChecksum(0), HeaderBytes([header EXCEPT !.cksum = 0])))]

HeaderAt(input) ==
  LET fo == IntegerAt(input, 6, 2)
  IN  [ver |-> input[1] \div 16, hlen |-> input[1] % 16, tos |-> input[2],
       len |-> IntegerAt(input, 2, 2), id |-> IntegerAt(input, 4, 2),
       df |-> IsSet(fo, 16384), mf |-> IsSet(fo, 8192), offset |-> fo % 8192,
       ttl |-> input[9], proto |-> input[10], cksum |-> IntegerAt(input, 10, 2),
       src |-> AddressAt(input, 12), dst |-> AddressAt(input, 16)]

\* The checksum is taken over the fields as they were understood, so neither
\* options nor the reserved bit of the flags count.
GoodHeader(header) ==
  /\ header.ver = 4
  /\ header.hlen >= 5
  /\ ComputeChecksum(header).cksum = header.cksum

\* IPv4Datagram::parse.
ParseDatagram(input) ==
  IF Len(input) < HEADER_LENGTH \/ ~ GoodHeader(HeaderAt(input))
    THEN Failure
    ELSE LET header == HeaderAt(input)
         IN  [error |-> FALSE, header |-> header,
              payload |-> Truncate(RemovePrefix(input, 4 * header.hlen), PayloadLength(header))]

\* IPv4Datagram::serialize.
DatagramBytes(datagram) == HeaderBytes(datagram.header) \o datagram.payload

-----------------------------------------------------------------------------
\* TCPSegment::serialize.
SegmentBytes(segment, cksum) ==
  Integer(segment.src_port, 2) \o Integer(segment.dst_port, 2)
    \o Integer(segment.message.seqno, 4)
    \o Integer(IF segment.message.ackno = NoSeqno THEN 0 ELSE segment.message.ackno, 4)
    \o Integer((HEADER_LENGTH \div 4) * 16, 1)
    \o Integer(Flag(segment.message.ackno # NoSeqno, 16) + Flag(segment.message.RST, 4)
                 + Flag(segment.message.SYN, 2) + Flag(segment.message.FIN, 1), 1)
    \o Integer(segment.message.window_size, 2) \o Integer(cksum, 2) \o Integer(0, 2)
    \o segment.message.payload

\* TCPSegment::compute_checksum, then serialize.
ChecksummedBytes(segment, pseudo) ==
  SegmentBytes(segment, Value(Add(NewChecksum(pseudo), SegmentBytes(segment, 0))))

SegmentAt(input) ==
  LET flags == input[14]
  IN  [src_port |-> IntegerAt(input, 0, 2), dst_port |-> IntegerAt(input, 2, 2),
       message |-> [seqno |-> IntegerAt(input, 4, 4),
                    ackno |-> IF IsSet(flags, 16) THEN IntegerAt(input, 8, 4) ELSE NoSeqno,
                    RST |-> IsSet(flags, 4), SYN |-> IsSet(flags, 2), FIN |-> IsSet(flags, 1),
                    window_size |-> IntegerAt(input, 14, 2),
                    payload |-> RemovePrefix(input, 4 * (input[13] \div 16))]]

\* Wrong on purpose: the checksum is not verified.
ParseUnverified(input, pseudo) ==
  IF Len(input) < HEADER_LENGTH \/ input[13] \div 16 < HEADER_LENGTH \div 4
    THEN Failure
    ELSE [error |-> FALSE, segment |-> SegmentAt(input)]

\* TCPSegment::parse.  A data offset past the end leaves no payload.
ParseSegment(input, pseudo) ==
  IF \/ Value(Add(NewChecksum(pseudo), input)) # 0
     \/ Len(input) < HEADER_LENGTH
     \/ input[13] \div 16 < HEADER_LENGTH \div 4
    THEN Failure
    ELSE [error |-> FALSE, segment |-> SegmentAt(input)]
=============================================================================
