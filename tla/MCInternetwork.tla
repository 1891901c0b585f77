--------------------------- MODULE MCInternetwork ---------------------------
EXTENDS Internetwork

\* The two networks of endtoend.cc, with addresses of 4 bits: 00__ with host 1
\* behind router A, 11__ with host 13 behind router B, and 10__ between
\* the routers.  Each router has a default route to the other, so that a
\* datagram for 01__ goes round between them.
MCHost == {1, 13}
MCGateway == [h \in MCHost |-> IF h = 13 THEN 12 ELSE 0]
MCRouter == {"A", "B"}
MCPorts == [r \in MCRouter |-> IF r = "A" THEN <<0, 8>> ELSE <<12, 9>>]

Attach(prefix, n) == [prefix |-> prefix, prefix_length |-> 2, next_hop |-> NoHop, interface_num |-> n]
Default(hop) == [prefix |-> 0, prefix_length |-> 0, next_hop |-> hop, interface_num |-> 2]
MCTable == [r \in MCRouter |-> IF r = "A" THEN <<Attach(0, 1), Attach(8, 2), Default(9)>>
                                          ELSE <<Attach(8, 2), Attach(12, 1), Default(8)>>]

MCSegment == {"left", "middle", "right"}
MCAttached == ("left" :> <<0, 1>>) @@ ("middle" :> <<8, 9>>) @@ ("right" :> <<12, 13>>)

Packet(from, dst, ttl) == [from |-> from, dst |-> dst, ttl |-> ttl]
MCTraffic == {Packet(1, 13, 3), Packet(13, 4, 3)}
=============================================================================
