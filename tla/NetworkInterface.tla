-------------------------- MODULE NetworkInterface --------------------------
(***************************************************************************)
(* A network interface at work (src/src/network_interface.cc): datagrams    *)
(* are given to it, frames arrive, time passes.  The n-th datagram given to *)
(* it is the number n.                                                      *)
(***************************************************************************)
EXTENDS ARP, SequencesExt

CONSTANTS Hop,           \* IP addresses of the neighbours
          Ethernet,      \* Ethernet addresses of the neighbours
          OwnIP, OwnEthernet,
          TickLengths,   \* the arguments tick() is called with
          MaxDatagrams,  \* bound of the model on the datagrams sent
          MaxReceived    \* bound of the model on the datagrams not yet read

ArpMessages ==
  [opcode : {"request", "reply"}, sender_ethernet : Ethernet, sender_ip : Hop,
   target_ethernet : {OwnEthernet}, target_ip : Hop \cup {OwnIP}]

ASSUME InterfaceAssumption ==
  /\ TickLengths \subseteq Nat \ {0}
  /\ MaxDatagrams \in Nat /\ MaxReceived \in Nat
  /\ OwnEthernet # Broadcast /\ OwnIP \notin Hop
  /\ Garbled \notin ArpMessages

VARIABLES nic,       \* the NetworkInterface
          out,       \* the frames transmitted in the last step
          given,     \* history: the next hop of every datagram, in order
          sent,      \* history: the datagrams transmitted, in order
          requested, \* history: time since the last request for a hop
          heard      \* history: the last ARP message of a hop, and its age

vars == <<nic, out, given, sent, requested, heard>>

\* Histories count no further than the interface can tell apart.
Capped(n, bound) == IF n <= bound THEN n ELSE bound

IsRequestFor(frame, hop) ==
  frame.type = "ARP" /\ frame.payload.opcode = "request" /\ frame.payload.target_ip = hop

\* The datagrams in a sequence of frames.
Payloads(frames) ==
  LET among[k \in 0 .. Len(frames)] ==
        IF k = 0 THEN <<>>
        ELSE IF frames[k].type = "IPv4" THEN Append(among[k - 1], frames[k].payload)
        ELSE among[k - 1]
  IN  among[Len(frames)]

Init ==
  /\ nic = NewInterface(OwnEthernet, OwnIP)
  /\ out = <<>>
  /\ given = <<>>
  /\ sent = <<>>
  /\ requested = [h \in Hop |-> RequestTimeout]
  /\ heard = [h \in Hop |-> [ethernet |-> NoAddress, age |-> MappingLifetime]]

\* What the interface does, and what an observer of its port writes down.
Does(step) ==
  /\ nic' = step.nic
  /\ out' = step.out
  /\ sent' = sent \o Payloads(step.out)
  /\ requested' = [h \in Hop |->
       IF \E i \in DOMAIN step.out : IsRequestFor(step.out[i], h) THEN 0 ELSE requested[h]]

Send(hop) ==
  /\ Len(given) < MaxDatagrams
  /\ given' = Append(given, hop)
  /\ Does(SendDatagram(nic, Len(given) + 1, hop))
  /\ UNCHANGED heard

\* Frames are for us, by name or by broadcast, or for someone else.
Destinations == {Broadcast, OwnEthernet} \cup Ethernet

ReceiveArp(arp, dst) ==
  /\ Does(RecvFrame(nic, [dst |-> dst, src |-> arp.sender_ethernet, type |-> "ARP",
                          payload |-> arp]))
  /\ heard' = IF dst \in {Broadcast, OwnEthernet}
                THEN [heard EXCEPT ![arp.sender_ip] =
                        [ethernet |-> arp.sender_ethernet, age |-> 0]]
                ELSE heard
  /\ UNCHANGED given

\* A datagram, or something that does not parse.
ReceiveIPv4(src, dst, payload) ==
  /\ Len(nic.datagrams_received) < MaxReceived
  /\ Does(RecvFrame(nic, [dst |-> dst, src |-> src, type |-> "IPv4", payload |-> payload]))
  /\ UNCHANGED <<given, heard>>

\* The owner takes the oldest datagram received.
TakeReceived ==
  /\ nic.datagrams_received # <<>>
  /\ Does([nic |-> [nic EXCEPT !.datagrams_received = Tail(@)], out |-> <<>>])
  /\ UNCHANGED <<given, heard>>

Tick(ms) ==
  /\ nic' = InterfaceTick(nic, ms)
  /\ out' = <<>>
  /\ requested' = [h \in Hop |-> Capped(requested[h] + ms, RequestTimeout)]
  /\ heard' = [h \in Hop |-> [heard[h] EXCEPT !.age = Capped(@ + ms, MappingLifetime)]]
  /\ UNCHANGED <<given, sent>>

TickSome == \E ms \in TickLengths : Tick(ms)

Next ==
  \/ \E hop \in Hop : Send(hop)
  \/ \E arp \in ArpMessages, dst \in Destinations : ReceiveArp(arp, dst)
  \/ \E src \in Ethernet, dst \in Destinations, payload \in {0, Garbled} :
       ReceiveIPv4(src, dst, payload)
  \/ TakeReceived
  \/ TickSome

Spec == Init /\ [][Next]_vars

\* tick() is called for as long as the interface exists.
FairSpec == Spec /\ WF_vars(TickSome)

-----------------------------------------------------------------------------
Increasing(numbers) == \A i, j \in DOMAIN numbers : i < j => numbers[i] < numbers[j]

TypeOK ==
  /\ DOMAIN nic.cache \subseteq Hop
  /\ \A h \in DOMAIN nic.cache : nic.cache[h] \in [ethernet : Ethernet, age : Nat]
  /\ DOMAIN nic.arp_timestamps \subseteq Hop
  /\ \A h \in DOMAIN nic.arp_timestamps : nic.arp_timestamps[h] \in Nat
  /\ DOMAIN nic.datagram_q \subseteq Hop
  /\ \A h \in DOMAIN nic.datagram_q : nic.datagram_q[h] \in Seq(1 .. Len(given))
  /\ given \in Seq(Hop)
  /\ requested \in [Hop -> 0 .. RequestTimeout]
  /\ heard \in [Hop -> [ethernet : Ethernet \cup {NoAddress}, age : 0 .. MappingLifetime]]

\* A datagram only waits while the answer to a request for its next hop may
\* still come: never with the address known, never without a request, which
\* would leave it there for good.
WaitsOnlyForAnswer ==
  \A h \in DOMAIN nic.datagram_q : h \in DOMAIN nic.arp_timestamps /\ h \notin DOMAIN nic.cache

\* To each next hop datagrams go out once and in the order they were given,
\* those that waited before those that found the address known.
InOrderOnce ==
  /\ \A i, j \in DOMAIN sent : i < j /\ given[sent[i]] = given[sent[j]] => sent[i] < sent[j]
  /\ \A h \in DOMAIN nic.datagram_q :
       /\ Increasing(nic.datagram_q[h])
       /\ \A i \in DOMAIN sent, j \in DOMAIN nic.datagram_q[h] :
            given[sent[i]] = h => sent[i] < nic.datagram_q[h][j]

\* The cache holds exactly the neighbours heard of in the last 30 seconds, each
\* with the address it announced last.
CacheIsCurrent ==
  /\ DOMAIN nic.cache = { h \in Hop : heard[h].age < MappingLifetime }
  /\ \A h \in DOMAIN nic.cache : nic.cache[h] = heard[h]

\* A datagram goes to the address its next hop announced last, and no other.
GoesToNextHop ==
  [][\A i \in DOMAIN out' :
       out'[i].type = "IPv4" => out'[i].dst = heard'[given'[out'[i].payload]].ethernet]_vars

\* No request is repeated within 5 seconds (network_interface.cc:57).
RequestsAreRare ==
  [][\A h \in Hop : (\E i \in DOMAIN out' : IsRequestFor(out'[i], h)) =>
                      requested[h] = RequestTimeout]_vars

Waits(n) == \E h \in Hop : n \in Range(WaitingFor(nic, h))
Gone(n) == n \in DOMAIN given /\ n \notin Range(sent) /\ ~ Waits(n)

\* A datagram is only dropped when the last request for its next hop has been
\* unanswered for 5 seconds (network_interface.cc:164-181).
DroppedOnlyOverdue ==
  [][\A n \in 1 .. MaxDatagrams :
       ~ Gone(n) /\ Gone(n)' => requested'[given'[n]] = RequestTimeout]_vars

\* No datagram waits for ever.
NothingWaitsForEver == \A n \in 1 .. MaxDatagrams : Waits(n) ~> ~ Waits(n)
=============================================================================
