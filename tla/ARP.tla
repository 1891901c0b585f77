--------------------------------- MODULE ARP ---------------------------------
(***************************************************************************)
(* src/src/network_interface.{hh,cc}: a network interface sends IP          *)
(* datagrams in Ethernet frames.  It learns the Ethernet address of a next  *)
(* hop from ARP messages; datagrams for a hop whose address it does not     *)
(* know wait until the answer to its request arrives or is overdue.         *)
(*                                                                         *)
(* An interface is a record; its operations return it with the frames       *)
(* transmitted, [nic, out].  Times are in units of any length.  datagram_q  *)
(* is a queue per next hop: the code keeps one vector, but only ever looks  *)
(* in it for the datagrams of one hop.                                      *)
(***************************************************************************)
EXTENDS Integers, Sequences

CONSTANTS Broadcast,       \* ETHERNET_BROADCAST
          NoAddress,       \* the all-zero Ethernet address
          Garbled,         \* a payload that does not parse
          MappingLifetime, \* a mapping is remembered for 30 seconds
          RequestTimeout   \* a request is not repeated for 5 seconds

ASSUME TimesAssumption ==
  MappingLifetime \in Nat \ {0} /\ RequestTimeout \in Nat \ {0}

Updated(f, key, value) == [k \in DOMAIN f \cup {key} |-> IF k = key THEN value ELSE f[k]]
NoKeys == [k \in {} |-> 0]

NewInterface(ethernet, ip) ==
  [ethernet_address |-> ethernet, ip_address |-> ip, cache |-> NoKeys,
   arp_timestamps |-> NoKeys, datagram_q |-> NoKeys, datagrams_received |-> <<>>]

Frame(nic, dst, type, payload) ==
  [dst |-> dst, src |-> nic.ethernet_address, type |-> type, payload |-> payload]

ArpRequest(nic, hop) ==
  [opcode |-> "request", sender_ethernet |-> nic.ethernet_address,
   sender_ip |-> nic.ip_address, target_ethernet |-> NoAddress, target_ip |-> hop]

ArpReply(nic, arp) ==
  [opcode |-> "reply", sender_ethernet |-> nic.ethernet_address, sender_ip |-> nic.ip_address,
   target_ethernet |-> arp.sender_ethernet, target_ip |-> arp.sender_ip]

-----------------------------------------------------------------------------
\* Wrong on purpose: any datagrams that wait, whatever they wait for.
WaitingForAny(nic, hop) ==
  IF DOMAIN nic.datagram_q = {} THEN <<>> ELSE nic.datagram_q[CHOOSE h \in DOMAIN nic.datagram_q : TRUE]

WaitingFor(nic, hop) == IF hop \in DOMAIN nic.datagram_q THEN nic.datagram_q[hop] ELSE <<>>

\* Wrong on purpose: what was sent stays in the queue.
KeepAll(nic, hops) == nic.datagram_q

NotWaitingFor(nic, hops) == [hop \in DOMAIN nic.datagram_q \ hops |-> nic.datagram_q[hop]]

\* Wrong on purpose: every datagram that must wait causes a request.
AlwaysRequest(nic, hop) == TRUE

MayRequest(nic, hop) ==
  hop \in DOMAIN nic.arp_timestamps => nic.arp_timestamps[hop] >= RequestTimeout

\* Wrong on purpose: the newest datagram is the first to go.
EnqueueFirst(nic, datagram, hop) ==
  [nic EXCEPT !.datagram_q = Updated(@, hop, <<datagram>> \o WaitingFor(nic, hop))]

Enqueue(nic, datagram, hop) ==
  [nic EXCEPT !.datagram_q = Updated(@, hop, Append(WaitingFor(nic, hop), datagram))]

NoteRequest(nic, hop) == [nic EXCEPT !.arp_timestamps = Updated(@, hop, 0)]

SendDatagram(nic, datagram, hop) ==
  LET queued == Enqueue(nic, datagram, hop)
  IN  IF hop \in DOMAIN nic.cache
        THEN [nic |-> nic, out |-> <<Frame(nic, nic.cache[hop].ethernet, "IPv4", datagram)>>]
        ELSE IF MayRequest(nic, hop)
          THEN [nic |-> NoteRequest(queued, hop),
                out |-> <<Frame(nic, Broadcast, "ARP", ArpRequest(nic, hop))>>]
          ELSE [nic |-> queued, out |-> <<>>]

Learn(nic, arp) ==
  [nic EXCEPT !.cache = Updated(@, arp.sender_ip, [ethernet |-> arp.sender_ethernet, age |-> 0])]

\* The sender of an ARP message, asked for or not, is remembered, and what was
\* waiting for it goes out; a request for our own address is answered.
RecvArp(nic, arp) ==
  LET waited == WaitingFor(nic, arp.sender_ip)
      sent   == [i \in DOMAIN waited |->
                   Frame(nic, arp.sender_ethernet, "IPv4", waited[i])]
      reply  == IF arp.opcode = "request" /\ arp.target_ip = nic.ip_address
                  THEN <<Frame(nic, arp.sender_ethernet, "ARP", ArpReply(nic, arp))>>
                  ELSE <<>>
  IN  [nic |-> [Learn(nic, arp) EXCEPT !.datagram_q = NotWaitingFor(nic, {arp.sender_ip})],
       out |-> sent \o reply]

Ours(nic, frame) == frame.dst \in {Broadcast, nic.ethernet_address}

RecvFrame(nic, frame) ==
  LET ours == Ours(nic, frame) /\ frame.payload # Garbled
  IN  IF ours /\ frame.type = "ARP"
        THEN RecvArp(nic, frame.payload)
        ELSE IF ours /\ frame.type = "IPv4"
          THEN [nic |-> [nic EXCEPT !.datagrams_received = Append(@, frame.payload)], out |-> <<>>]
          ELSE [nic |-> nic, out |-> <<>>]

\* Wrong on purpose: a mapping lives a little too long.
AgeCacheLate(cache, ms) ==
  [hop \in { h \in DOMAIN cache : cache[h].age + ms <= MappingLifetime } |->
     [cache[hop] EXCEPT !.age = @ + ms]]

\* Mappings grow old and are forgotten.
AgeCache(cache, ms) ==
  [hop \in { h \in DOMAIN cache : cache[h].age + ms < MappingLifetime } |->
     [cache[hop] EXCEPT !.age = @ + ms]]

\* So do requests, and with an overdue one all that waits for its answer.
AgeRequests(timestamps, ms) ==
  [hop \in { h \in DOMAIN timestamps : timestamps[h] + ms < RequestTimeout } |->
     timestamps[hop] + ms]

\* Wrong on purpose: one overdue answer makes all of them overdue.
AllOverdue(nic, ms) ==
  IF \E hop \in DOMAIN nic.arp_timestamps : nic.arp_timestamps[hop] + ms >= RequestTimeout
    THEN DOMAIN nic.arp_timestamps
    ELSE {}

Overdue(nic, ms) ==
  { hop \in DOMAIN nic.arp_timestamps : nic.arp_timestamps[hop] + ms >= RequestTimeout }

\* Wrong on purpose: overdue requests are forgotten, what waits for them is not.
TickWithoutDrop(nic, ms) ==
  [nic EXCEPT !.cache = AgeCache(@, ms), !.arp_timestamps = AgeRequests(@, ms)]

InterfaceTick(nic, ms) ==
  [nic EXCEPT !.cache = AgeCache(@, ms),
              !.datagram_q = NotWaitingFor(nic, Overdue(nic, ms)),
              !.arp_timestamps = AgeRequests(@, ms)]
==============================================================================
