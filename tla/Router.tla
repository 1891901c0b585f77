------------------------------- MODULE Router -------------------------------
(***************************************************************************)
(* A router at work (src/src/router.cc): routes are added, datagrams for    *)
(* any destination arrive at its interfaces, neighbours answer or fail to   *)
(* answer ARP requests, and its owner calls route() and tick().             *)
(* The n-th datagram that arrives has id n.  A neighbour is an IP address,  *)
(* and has the same Ethernet address.                                       *)
(***************************************************************************)
EXTENDS Routing

CONSTANTS OwnAddress,   \* a sequence: the address of each interface
          Neighbour,    \* the addresses of the neighbours
          Routes,       \* the routes that may be added
          Destinations, \* of the datagrams that arrive
          Lifetimes,    \* their time to live
          MaxDatagrams  \* bound of the model on the datagrams that arrive

Interface == DOMAIN OwnAddress

ASSUME RouterAssumption ==
  /\ OwnAddress \in Seq(IPAddress) /\ Neighbour \subseteq IPAddress
  /\ Routes \subseteq [prefix : IPAddress, prefix_length : 0 .. AddressBits,
                       next_hop : IPAddress \cup {NoHop}, interface_num : Interface]
  /\ NoRoute \notin Routes /\ NoHop \notin IPAddress
  /\ Destinations \subseteq IPAddress /\ Lifetimes \subseteq Nat
  /\ Garbled \notin [id : Nat, dst : IPAddress, ttl : Nat]
  /\ MaxDatagrams \in Nat

VARIABLES interfaces, \* interfaces_
          routes,     \* the routing table
          added,      \* history: the routes that were added
          arrived,    \* history: the datagrams that arrived, and where
          sent        \* history: the frames transmitted by each interface

vars == <<interfaces, routes, added, arrived, sent>>

Init ==
  /\ interfaces = [n \in Interface |-> NewInterface(OwnAddress[n], OwnAddress[n])]
  /\ routes = <<>>
  /\ added = {}
  /\ arrived = <<>>
  /\ sent = [n \in Interface |-> <<>>]

AddRoute(route) ==
  /\ routes' \in WithRoute(routes, route)
  /\ added' = added \cup {route}
  /\ UNCHANGED <<interfaces, arrived, sent>>

Transmits(out) == sent' = [n \in Interface |-> sent[n] \o out[n]]

\* The n-th interface receives a frame.
Receives(n, frame) ==
  LET step == RecvFrame(interfaces[n], frame)
  IN  /\ interfaces' = [interfaces EXCEPT ![n] = step.nic]
      /\ Transmits([Silent(interfaces) EXCEPT ![n] = step.out])
      /\ UNCHANGED <<routes, added>>

Arrive(n, dst, ttl) ==
  LET datagram == [id |-> Len(arrived) + 1, dst |-> dst, ttl |-> ttl]
  IN  /\ Len(arrived) < MaxDatagrams
      /\ arrived' = Append(arrived, [datagram |-> datagram, at |-> n])
      /\ \E src \in Neighbour :
           Receives(n, [dst |-> OwnAddress[n], src |-> src, type |-> "IPv4", payload |-> datagram])

Answer(n, hop) ==
  /\ hop \in DOMAIN interfaces[n].arp_timestamps
  /\ Receives(n, [dst |-> OwnAddress[n], src |-> hop, type |-> "ARP",
                  payload |-> [opcode |-> "reply", sender_ethernet |-> hop, sender_ip |-> hop,
                               target_ethernet |-> OwnAddress[n], target_ip |-> OwnAddress[n]]])
  /\ UNCHANGED arrived

Route ==
  LET ports == RouteAll(interfaces, routes)
  IN  /\ interfaces' = ports.interfaces
      /\ Transmits(ports.out)
      /\ UNCHANGED <<routes, added, arrived>>

Tick ==
  /\ interfaces' = [n \in Interface |-> InterfaceTick(interfaces[n], 1)]
  /\ UNCHANGED <<routes, added, arrived, sent>>

AddSome == \E route \in Routes \ added : AddRoute(route)

Next ==
  \/ AddSome
  \/ \E n \in Interface, dst \in Destinations, ttl \in Lifetimes : Arrive(n, dst, ttl)
  \/ \E n \in Interface, hop \in Neighbour : Answer(n, hop)
  \/ Route
  \/ Tick

Spec == Init /\ [][Next]_vars

-----------------------------------------------------------------------------
\* The addresses with the prefix of a route are a block of this size.
BlockSize(route) == TwoTo[AddressBits - route.prefix_length]
Covers(route, dst) == dst \div BlockSize(route) = route.prefix \div BlockSize(route)

Longest(set) == { r \in set : \A other \in set : other.prefix_length <= r.prefix_length }
Matching(dst) == { r \in added : Matches(r, dst) }
BestRoutes(dst) == Longest({ r \in added : Covers(r, dst) })

\* Where a datagram is: received and not yet routed, waiting for the address of
\* its next hop, or sent.
Ids == 1 .. MaxDatagrams
Positions(queue, n) == { k \in DOMAIN queue : queue[k].id = n }
ReceivedAt(n) ==
  UNION { {i} \X Positions(interfaces[i].datagrams_received, n) : i \in Interface }
WaitingAt(n) ==
  UNION { {i} \X {hop} \X Positions(WaitingFor(interfaces[i], hop), n)
          : i \in Interface, hop \in IPAddress }
SentAt(n) ==
  UNION { {i} \X { k \in DOMAIN sent[i] : sent[i][k].type = "IPv4" /\ sent[i][k].payload.id = n }
          : i \in Interface }

Gone(n) ==
  n \in DOMAIN arrived /\ ReceivedAt(n) = {} /\ WaitingAt(n) = {} /\ SentAt(n) = {}

\* The datagrams among the frames of an interface to a next hop, and all that
\* goes to that hop: what has left for it and what waits to.
IsFor(frame, hop) == frame.type = "IPv4" /\ frame.dst = hop
Left(frames, hop) == { frames[k].payload : k \in { j \in DOMAIN frames : IsFor(frames[j], hop) } }
Onward(i, hop) == Left(sent[i], hop) \cup Range(WaitingFor(interfaces[i], hop))

\* Two datagrams that came by one interface go on in the order they came.
InTurn(a, b) == arrived[a.id].at = arrived[b.id].at => a.id < b.id

\* The table answers every lookup with a longest match among all the routes
\* added, in whatever order they came (router.cc:20-25, 47-65).
LongestPrefix ==
  \A dst \in IPAddress :
    IF Matching(dst) = {} THEN RouteFor(routes, dst) = NoRoute
                          ELSE RouteFor(routes, dst) \in Longest(Matching(dst))

\* Datagrams that come by one interface and go on by one interface to the same
\* next hop do not overtake each other, those that wait for ARP included.
OrderKept ==
  \A i \in Interface, hop \in IPAddress :
    LET frames  == sent[i]
        waiting == WaitingFor(interfaces[i], hop)
        toHop   == { k \in DOMAIN frames : IsFor(frames[k], hop) }
    IN  /\ \A j, k \in toHop : j < k => InTurn(frames[j].payload, frames[k].payload)
        /\ \A j, k \in DOMAIN waiting : j < k => InTurn(waiting[j], waiting[k])
        /\ \A j \in toHop, k \in DOMAIN waiting : InTurn(frames[j].payload, waiting[k])

\* route() hands each datagram to the interface of a best route, for its hop:
\* one of the longest among the prefixes whose block holds the destination.
FollowsBestRoute ==
  [][\A n \in Ids, i \in Interface, hop \in IPAddress :
       ReceivedAt(n) # {} /\ (\E datagram \in Onward(i, hop)' : datagram.id = n)
         => \E route \in BestRoutes(arrived[n].datagram.dst) :
              route.interface_num = i /\ HopOf(route, arrived[n].datagram) = hop]_vars

\* A datagram is lost only where the code means to drop it: its time to live is
\* over, no route covers its destination, or its next hop did not answer.
DroppedForReason ==
  [][\A n \in Ids :
       ~ Gone(n) /\ Gone(n)' =>
         \/ /\ ReceivedAt(n) # {}
            /\ \/ arrived[n].datagram.ttl <= 1
               \/ BestRoutes(arrived[n].datagram.dst) = {}
         \/ \E place \in WaitingAt(n) :
              interfaces[place[1]].arp_timestamps[place[2]] + 1 >= RequestTimeout]_vars
=============================================================================
