------------------------------ MODULE Routing ------------------------------
(***************************************************************************)
(* src/src/router.{hh,cc}: a router forwards the datagrams its interfaces   *)
(* have received, each along the route with the longest prefix that         *)
(* matches its destination.                                                 *)
(*                                                                         *)
(* The vector interfaces_ is a sequence of interfaces (ARP.tla), numbered   *)
(* from 1.  A datagram is a record with at least dst and ttl; a route is    *)
(* [prefix, prefix_length, next_hop, interface_num].  Addresses are numbers *)
(* of AddressBits bits.                                                     *)
(***************************************************************************)
EXTENDS ARP, Powers, SequencesExt

CONSTANTS AddressBits, \* 32
          NoHop,       \* next_hop of a route to an attached network
          NoRoute      \* no route matches

ASSUME AddressAssumption == AddressBits \in Nat

IPAddress == 0 .. TwoTo[AddressBits] - 1

Bit(address, i) == (address \div TwoTo[i]) % 2

\* Wrong on purpose: one bit less is compared.
MatchesLess(route, dst) ==
  \A i \in AddressBits - route.prefix_length + 1 .. AddressBits - 1 :
    Bit(route.prefix, i) = Bit(dst, i)

Matches(route, dst) ==
  \A i \in AddressBits - route.prefix_length .. AddressBits - 1 :
    Bit(route.prefix, i) = Bit(dst, i)

\* Wrong on purpose: the shortest prefix comes first.
ShortestFirst(routes) ==
  \A i, j \in DOMAIN routes : i < j => routes[i].prefix_length <= routes[j].prefix_length

LongestFirst(routes) ==
  \A i, j \in DOMAIN routes : i < j => routes[i].prefix_length >= routes[j].prefix_length

Arrangements(routes) ==
  { [i \in DOMAIN routes |-> routes[p[i]]] : p \in Bijection(DOMAIN routes, DOMAIN routes) }

\* The tables that add_route() may leave.  std::sort is not stable: routes of
\* equal length may be in any order.
WithRoute(routes, route) == { t \in Arrangements(Append(routes, route)) : LongestFirst(t) }

\* The first match in the table.
RouteFor(routes, dst) ==
  LET matching == { i \in DOMAIN routes : Matches(routes[i], dst) }
  IN  IF matching = {} THEN NoRoute ELSE routes[CHOOSE i \in matching : \A j \in matching : i <= j]

HopOf(route, datagram) == IF route.next_hop = NoHop THEN datagram.dst ELSE route.next_hop

\* Wrong on purpose: a datagram is forwarded with the ttl it came with.
KeepTtl(datagram) == datagram

Aged(datagram) == [datagram EXCEPT !.ttl = @ - 1]

Expired(datagram) == datagram.ttl <= 1

\* One round of the loop over the datagrams received; ports is
\* [interfaces, out], out the frames transmitted by each interface.
Forward(ports, routes, datagram) ==
  LET route == RouteFor(routes, datagram.dst)
      n     == route.interface_num
      step  == SendDatagram(ports.interfaces[n], Aged(datagram), HopOf(route, datagram))
  IN  IF Expired(datagram) \/ route = NoRoute
        THEN ports
        ELSE [interfaces |-> [ports.interfaces EXCEPT ![n] = step.nic],
              out        |-> [ports.out EXCEPT ![n] = @ \o step.out]]

\* Wrong on purpose: only the first interface is looked at.
ReceivedByFirst(interfaces) == interfaces[1].datagrams_received

ReceivedBy(interfaces) ==
  FlattenSeq([n \in DOMAIN interfaces |-> interfaces[n].datagrams_received])

NothingReceived(interfaces) ==
  [n \in DOMAIN interfaces |-> [interfaces[n] EXCEPT !.datagrams_received = <<>>]]

Silent(interfaces) == [n \in DOMAIN interfaces |-> <<>>]

\* route(): all that the interfaces have received, interface by interface.
\* With an empty table it does nothing.
RouteAll(interfaces, routes) ==
  IF routes = <<>>
    THEN [interfaces |-> interfaces, out |-> Silent(interfaces)]
    ELSE FoldLeft(LAMBDA ports, datagram : Forward(ports, routes, datagram),
                  [interfaces |-> NothingReceived(interfaces), out |-> Silent(interfaces)],
                  ReceivedBy(interfaces))
=============================================================================
