---------------------------- MODULE Internetwork ----------------------------
(***************************************************************************)
(* Hosts and routers on network segments, as src/tests/router.cc and        *)
(* src/apps/endtoend.cc put them together from NetworkInterface and         *)
(* Router.  All interfaces run the same code; the addresses of their        *)
(* neighbours are found by ARP between them.                                *)
(*                                                                         *)
(* An interface is named by its IP address, and has the same Ethernet       *)
(* address.                                                                 *)
(***************************************************************************)
EXTENDS Routing, FiniteSets

CONSTANTS Host,         \* the addresses of the hosts
          Gateway,      \* the next hop of each host for all it sends
          Router,       \* the routers
          Ports,        \* the addresses of each router, a sequence
          Table,        \* the routes of each router, a sequence
          Segment,      \* the segments
          Attached,     \* the addresses on each segment, a sequence
          Traffic,      \* what hosts send: [from, dst, ttl]
          MaxDatagrams, \* bound of the model on the datagrams sent
          MaxLosses     \* bound of the model on the frames lost

ASSUME TopologyAssumption ==
  /\ Host \subseteq IPAddress /\ Gateway \in [Host -> IPAddress]
  /\ \A r \in Router : Ports[r] \in Seq(IPAddress) /\ LongestFirst(Table[r])
  /\ MaxDatagrams \in Nat /\ MaxLosses \in Nat

VARIABLES hosts,   \* the interface of each host
          routers, \* the interfaces of each router
          wire,    \* the frames on each segment, with their senders
          read,    \* the datagrams each host has taken from its interface
          given,   \* history: the datagrams sent
          losses,  \* frames lost
          calm     \* nothing is lost and answers are faster than any timeout

vars == <<hosts, routers, wire, read, given, losses, calm>>

Init ==
  /\ hosts = [h \in Host |-> NewInterface(h, h)]
  /\ routers = [r \in Router |-> [n \in DOMAIN Ports[r] |-> NewInterface(Ports[r][n], Ports[r][n])]]
  /\ wire = [s \in Segment |-> <<>>]
  /\ read = [h \in Host |-> <<>>]
  /\ given = <<>>
  /\ losses = 0
  /\ calm \in BOOLEAN

SegmentOf(address) == CHOOSE s \in Segment : \E i \in DOMAIN Attached[s] : Attached[s][i] = address

\* transmit() by one interface (NetworkSegment::transmit).
OnWire(w, address, frames) ==
  [w EXCEPT ![SegmentOf(address)] =
     @ \o [i \in DOMAIN frames |-> [from |-> address, frame |-> frames[i]]]]

\* Host::send_to, NetworkInterfaceAdapter::write.
Send(h, dst, ttl) ==
  LET datagram == [id |-> Len(given) + 1, dst |-> dst, ttl |-> ttl]
      step     == SendDatagram(hosts[h], datagram, Gateway[h])
  IN  /\ Len(given) < MaxDatagrams
      /\ given' = Append(given, datagram)
      /\ hosts' = [hosts EXCEPT ![h] = step.nic]
      /\ wire' = OnWire(wire, h, step.out)
      /\ UNCHANGED <<routers, read, losses, calm>>

\* The oldest frame of a segment is received by all other interfaces on it
\* (NetworkSegment::run).
Carry(s) ==
  LET first   == Head(wire[s])
      others  == SelectSeq(Attached[s], LAMBDA a : a # first.from)
      Nic(a)  == IF a \in Host THEN hosts[a]
                 ELSE LET r == CHOOSE r \in Router : a \in Range(Ports[r])
                      IN  routers[r][CHOOSE n \in DOMAIN Ports[r] : Ports[r][n] = a]
      result  == [a \in Range(others) |-> RecvFrame(Nic(a), first.frame)]
      answers == FlattenSeq([i \in DOMAIN others |->
                     [k \in DOMAIN result[others[i]].out |->
                        [from |-> others[i], frame |-> result[others[i]].out[k]]]])
  IN  /\ wire[s] # <<>>
      /\ hosts' = [h \in Host |-> IF h \in DOMAIN result THEN result[h].nic ELSE hosts[h]]
      /\ routers' = [r \in Router |-> [n \in DOMAIN Ports[r] |->
                       IF Ports[r][n] \in DOMAIN result THEN result[Ports[r][n]].nic ELSE routers[r][n]]]
      /\ wire' = [wire EXCEPT ![s] = Tail(@) \o answers]
      /\ UNCHANGED <<read, given, losses, calm>>

\* A frame is lost: the segment between the routers of endtoend.cc is a UDP
\* socket.
Lose(s) ==
  /\ wire[s] # <<>>
  /\ losses < MaxLosses /\ ~ calm
  /\ losses' = losses + 1
  /\ wire' = [wire EXCEPT ![s] = Tail(@)]
  /\ UNCHANGED <<hosts, routers, read, given, calm>>

Route(r) ==
  LET ports == RouteAll(routers[r], Table[r])
  IN  /\ ReceivedBy(routers[r]) # <<>>
      /\ routers' = [routers EXCEPT ![r] = ports.interfaces]
      /\ wire' = FoldLeft(LAMBDA w, n : OnWire(w, Ports[r][n], ports.out[n]), wire,
                          [n \in DOMAIN Ports[r] |-> n])
      /\ UNCHANGED <<hosts, read, given, losses, calm>>

\* A host takes the oldest datagram received (Host::check,
\* NetworkInterfaceAdapter::read).
Read(h) ==
  /\ hosts[h].datagrams_received # <<>>
  /\ read' = [read EXCEPT ![h] = Append(@, Head(hosts[h].datagrams_received))]
  /\ hosts' = [hosts EXCEPT ![h].datagrams_received = Tail(@)]
  /\ UNCHANGED <<routers, wire, given, losses, calm>>

\* tick() of a host, and of all interfaces of a router (endtoend.cc:277).  On a
\* calm network time passes only while nothing is on its way.
MayTick ==
  calm => /\ \A s \in Segment : wire[s] = <<>>
             /\ \A r \in Router : ReceivedBy(routers[r]) = <<>>

TickHost(h) ==
  /\ MayTick
  /\ hosts' = [hosts EXCEPT ![h] = InterfaceTick(@, 1)]
  /\ UNCHANGED <<routers, wire, read, given, losses, calm>>

TickRouter(r) ==
  /\ MayTick
  /\ routers' = [routers EXCEPT ![r] = [n \in DOMAIN Ports[r] |-> InterfaceTick(@[n], 1)]]
  /\ UNCHANGED <<hosts, wire, read, given, losses, calm>>

Next ==
  \/ \E t \in Traffic : Send(t.from, t.dst, t.ttl)
  \/ \E s \in Segment : Carry(s) \/ Lose(s)
  \/ \E r \in Router : Route(r) \/ TickRouter(r)
  \/ \E h \in Host : Read(h) \/ TickHost(h)

Spec == Init /\ [][Next]_vars

\* Segments carry frames, and the programs of routers and hosts keep calling
\* route(), tick() and reading.  Each disjunction is WF_vars of its action, with
\* the condition that enables it and changes something written out.
Ages(nic) == DOMAIN nic.cache \cup DOMAIN nic.arp_timestamps # {}

Fairness ==
  /\ \A s \in Segment : []<>(wire[s] = <<>>) \/ []<><<Carry(s)>>_vars
  /\ \A r \in Router :
       /\ []<>(ReceivedBy(routers[r]) = <<>>) \/ []<><<Route(r)>>_vars
       /\ \/ []<>~(MayTick /\ \E n \in DOMAIN Ports[r] : Ages(routers[r][n]))
          \/ []<><<TickRouter(r)>>_vars
  /\ \A h \in Host :
       /\ []<>(hosts[h].datagrams_received = <<>>) \/ []<><<Read(h)>>_vars
       /\ []<>~(MayTick /\ Ages(hosts[h])) \/ []<><<TickHost(h)>>_vars

FairSpec == Spec /\ Fairness

-----------------------------------------------------------------------------
Datagram == [id : 1 .. MaxDatagrams, dst : { t.dst : t \in Traffic }, ttl : Nat]

AllInterfaces == { hosts[h] : h \in Host } \cup UNION { Range(routers[r]) : r \in Router }
Waiting(nic) == UNION { Range(nic.datagram_q[hop]) : hop \in DOMAIN nic.datagram_q }
OnWires ==
  { f.frame.payload : f \in { g \in UNION { Range(wire[s]) : s \in Segment } : g.frame.type = "IPv4" } }

\* The datagrams sent that are neither read nor received by a host nor lost.
Travelling ==
  OnWires \cup UNION { Waiting(nic) : nic \in AllInterfaces }
          \cup UNION { Range(ReceivedBy(routers[r])) : r \in Router }

ReceivedAt(h) == read[h] \o hosts[h].datagrams_received

\* The internetwork is a best-effort service: nothing is duplicated, nothing
\* comes to a host it is not addressed to, nothing lost comes back, whatever
\* the routes, the answers of ARP and the losses.
Service ==
  INSTANCE BestEffort
    WITH Hosts <- Host,
         Datagrams <- [id : 1 .. MaxDatagrams, dst : { t.dst : t \in Traffic }],
         travelling <- { [id |-> d.id, dst |-> d.dst] : d \in Travelling },
         given <- { given[i].id : i \in DOMAIN given },
         delivered <- [h \in Host |-> [i \in DOMAIN ReceivedAt(h) |-> ReceivedAt(h)[i].id]]
ImplementsService == Service!ServiceSpec

IsTravelling(n) == \E d \in Travelling : d.id = n
Arrived(n) == \E h \in Host : \E i \in DOMAIN ReceivedAt(h) : ReceivedAt(h)[i].id = n

\* No datagram travels for ever, not even where routes form a loop.
LoopsEnd == \A n \in 1 .. MaxDatagrams : IsTravelling(n) ~> ~ IsTravelling(n)

\* On a calm network a datagram for a host, with enough time to live, gets there:
\* ARP finds every address on the way, whatever it found or forgot before.
ReachesHost ==
  \A n \in 1 .. MaxDatagrams :
    (calm /\ n \in DOMAIN given /\ given[n].dst \in Host /\ given[n].ttl > Cardinality(Router))
      ~> Arrived(n)
=============================================================================
