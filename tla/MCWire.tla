------------------------------- MODULE MCWire -------------------------------
EXTENDS Wire

MCNear  == Endpoint(<<2560, 2>>, 1024)     \* 10.0.0.2, on the same link
MCFar   == Endpoint(<<44052, 65535>>, 1024) \* behind a router
MCHere  == Endpoint(<<2560, 1>>, 80)
MCAlias == Endpoint(<<2560, 9>>, 80)       \* another address of this host
MCOther == Endpoint(<<2560, 1>>, 81)       \* another port

MCCaller == {MCNear, MCFar}
MCForwarded == {MCFar}
MCContact == {MCHere, MCAlias, MCOther}
MCLocal == MCHere

\* An odd number of bytes, nothing, nothing but a FIN, and a reset.
MCShape ==
  {[payload |-> <<>>, FIN |-> FALSE, RST |-> FALSE],
   [payload |-> <<0, 255, 104>>, FIN |-> FALSE, RST |-> FALSE],
   [payload |-> <<>>, FIN |-> TRUE, RST |-> FALSE],
   [payload |-> <<>>, FIN |-> FALSE, RST |-> TRUE]}

MCOwnEthernet == <<2, 0, 0, 1, 1, 1>>
MCRouterEthernet == <<2, 0, 0, 9, 9, 9>>

\* Every byte in three ways; adding 6 makes an ARP frame of an IPv4 frame.
MCDamage == [at : 1 .. 57, plus : {1, 6, 128}]
=============================================================================
