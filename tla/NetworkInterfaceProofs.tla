----------------------- MODULE NetworkInterfaceProofs -----------------------
(***************************************************************************)
(* Theorems about the network interface, for any number of neighbours,      *)
(* datagrams and timeouts.                                                  *)
(***************************************************************************)
EXTENDS NetworkInterface, SequenceTheorems, WellFoundedInduction, TLAPS

\* The parts of the interface, named so that each has a type of its own.
cache  == nic.cache
asked  == nic.arp_timestamps
queue  == nic.datagram_q

\* A record with the members of the class, and the addresses it was built with.
NicShape ==
  nic = [ethernet_address |-> OwnEthernet, ip_address |-> OwnIP, cache |-> cache,
         arp_timestamps |-> asked, datagram_q |-> queue,
         datagrams_received |-> nic.datagrams_received]

\* The interface remembers a request for as long as it is not overdue, and
\* knows its age.
RequestsTracked ==
  \A h \in Hop : IF h \in DOMAIN asked
                   THEN asked[h] = requested[h] /\ requested[h] < RequestTimeout
                   ELSE requested[h] = RequestTimeout

\* What waits for a hop was given for that hop.
QueuedForHop ==
  \A h \in DOMAIN queue : \A i \in DOMAIN queue[h] : given[queue[h][i]] = h

IInv == NicShape /\ TypeOK /\ WaitsOnlyForAnswer /\ CacheIsCurrent
          /\ RequestsTracked /\ QueuedForHop

-----------------------------------------------------------------------------
(* The datagrams among the frames transmitted *)

LEMMA NatHasMinimum ==
  ASSUME NEW T, T \subseteq Nat, T # {}
  PROVE  \E x \in T : \A y \in T : x <= y
<1>1. \E x \in T : \A y \in T : ~ (<<y, x>> \in OpToRel(<, Nat))
  BY NatLessThanWellFounded, WFMin
<1>2. PICK x \in T : \A y \in T : ~ (<<y, x>> \in OpToRel(<, Nat))
  BY <1>1
<1>3. \A y \in T : ~ (y < x)
  BY <1>2 DEF OpToRel
<1> QED
  BY <1>3

\* g builds up the datagrams in the n frames, frame by frame.
BuildsUp(g, frames, n) ==
  /\ Len(frames) = n
  /\ g = [k \in 0 .. n |->
            IF k = 0 THEN <<>>
            ELSE IF frames[k].type = "IPv4" THEN Append(g[k - 1], frames[k].payload)
            ELSE g[k - 1]]

\* So stated, one value after the other.
LEMMA BuildsUpStepwise ==
  ASSUME NEW n \in Nat, NEW frames, Len(frames) = n, NEW g,
         g = [k \in 0 .. n |-> g[k]], g[0] = <<>>,
         \A k \in 1 .. n : g[k] = IF frames[k].type = "IPv4"
                                    THEN Append(g[k - 1], frames[k].payload) ELSE g[k - 1]
  PROVE  BuildsUp(g, frames, n)
<1>1. \A k \in 0 .. n : k # 0 => k \in 1 .. n
  OBVIOUS
<1>2. \A k \in 0 .. n :
        g[k] = IF k = 0 THEN <<>>
               ELSE IF frames[k].type = "IPv4" THEN Append(g[k - 1], frames[k].payload)
               ELSE g[k - 1]
  BY <1>1
<1> QED
  BY <1>2, Zenon DEF BuildsUp

\* What is built up is the datagrams: there is only one way to do it.
LEMMA PayloadsAre ==
  ASSUME NEW n \in Nat, NEW frames, NEW g, BuildsUp(g, frames, n)
  PROVE  Payloads(frames) = g[n]
<1> DEFINE Builds(f) ==
             f = [k \in 0 .. n |->
                    IF k = 0 THEN <<>>
                    ELSE IF frames[k].type = "IPv4" THEN Append(f[k - 1], frames[k].payload)
                    ELSE f[k - 1]]
           among == CHOOSE f : Builds(f)
<1>0. Len(frames) = n
  BY DEF BuildsUp
<1>1. Builds(g)
  BY Zenon DEF BuildsUp
<1>2. Builds(among)
  BY <1>1, Zenon
<1>3. Payloads(frames) = among[n]
  BY <1>0, Zenon DEF Payloads
<1> HIDE DEF among
<1>4. \A k \in 0 .. n : among[k] = g[k]
  <2> SUFFICES ASSUME NEW j \in 0 .. n, among[j] # g[j] PROVE FALSE
    OBVIOUS
  <2> DEFINE D == { i \in 0 .. n : among[i] # g[i] }
  <2>0. D \subseteq Nat /\ D # {}
    OBVIOUS
  <2> HIDE DEF D
  <2>9. PICK k \in D : \A i \in D : k <= i
    BY <2>0, NatHasMinimum
  <2>1. /\ k \in 0 .. n /\ among[k] # g[k]
        /\ \A i \in 0 .. n : among[i] # g[i] => k <= i
    BY <2>9 DEF D
  <2>2. k # 0
    BY <1>1, <1>2, <2>1, Zenon
  <2>3. k \in 0 .. n /\ k - 1 \in 0 .. n /\ k - 1 < k
    BY <2>1, <2>2
  <2>4. among[k - 1] = g[k - 1]
    BY <2>1, <2>3
  <2>5. among[k] = IF frames[k].type = "IPv4" THEN Append(among[k - 1], frames[k].payload)
                   ELSE among[k - 1]
    BY <1>2, <2>2, <2>3, Zenon
  <2>6. g[k] = IF frames[k].type = "IPv4" THEN Append(g[k - 1], frames[k].payload) ELSE g[k - 1]
    BY <1>1, <2>2, <2>3, Zenon
  <2> QED
    BY <2>1, <2>4, <2>5, <2>6
<1> QED
  BY <1>3, <1>4

\* No frames, no datagrams.
LEMMA PayloadsOfNone == Payloads(<<>>) = <<>>
<1> DEFINE g == [k \in 0 .. 0 |-> <<>>]
<1>1. BuildsUp(g, <<>>, 0)
  <2>1. Len(<<>>) = 0 /\ \A k \in 0 .. 0 : k = 0
    OBVIOUS
  <2> QED
    BY <2>1, Zenon DEF BuildsUp
<1>2. g[0] = <<>>
  OBVIOUS
<1> HIDE DEF g
<1> QED
  BY <1>1, <1>2, PayloadsAre

\* One frame.
LEMMA PayloadsOfOne ==
  ASSUME NEW frame
  PROVE  Payloads(<<frame>>) = IF frame.type = "IPv4" THEN <<frame.payload>> ELSE <<>>
<1> DEFINE one == IF frame.type = "IPv4" THEN <<frame.payload>> ELSE <<>>
           frames == <<frame>>
           g == [k \in 0 .. 1 |-> IF k = 0 THEN <<>> ELSE one]
<1>1. Len(frames) = 1 /\ frames[1] = frame
  OBVIOUS
<1>2. g = [k \in 0 .. 1 |-> g[k]] /\ g[0] = <<>> /\ g[1] = one
  OBVIOUS
<1>3. one = IF frame.type = "IPv4" THEN Append(<<>>, frame.payload) ELSE <<>>
  OBVIOUS
<1> HIDE DEF g, frames, one
<1>4. ASSUME NEW k \in 1 .. 1
      PROVE  g[k] = IF frames[k].type = "IPv4"
                      THEN Append(g[k - 1], frames[k].payload) ELSE g[k - 1]
  <2>1. k = 1 /\ k - 1 = 0
    OBVIOUS
  <2> QED
    BY <1>1, <1>2, <1>3, <2>1, Zenon
<1>5. BuildsUp(g, frames, 1)
  BY <1>1, <1>2, <1>4, BuildsUpStepwise
<1>6. Payloads(frames) = g[1]
  BY <1>5, PayloadsAre
<1> QED
  BY <1>2, <1>6 DEF frames, one

\* What waited, and then perhaps a reply.
LEMMA PayloadsOfAnswer ==
  ASSUME NEW T, NEW waited \in Seq(T), NEW frames, NEW n \in Nat, Len(frames) = n,
         Len(waited) <= n,
         \A k \in 1 .. Len(waited) : frames[k].type = "IPv4" /\ frames[k].payload = waited[k],
         \A k \in Len(waited) + 1 .. n : frames[k].type # "IPv4"
  PROVE  Payloads(frames) = waited
<1> DEFINE m == Len(waited)
           g == [k \in 0 .. n |-> IF k <= m THEN SubSeq(waited, 1, k) ELSE waited]
<1>0. m \in Nat /\ m <= n
  BY LenProperties
<1>1. g = [k \in 0 .. n |-> g[k]] /\ g[0] = <<>> /\ g[n] = waited
  <2>1. SubSeq(waited, 1, 0) = <<>> /\ SubSeq(waited, 1, m) = waited
    BY SubSeqEmpty, SubSeqFull
  <2>2. n <= m => n = m
    BY <1>0
  <2> HIDE DEF m
  <2> QED
    BY <1>0, <2>1, <2>2
<1>2. ASSUME NEW k \in 1 .. n
      PROVE  g[k] = IF frames[k].type = "IPv4" THEN Append(g[k - 1], frames[k].payload) ELSE g[k - 1]
  <2>1. CASE k <= m
    <3>1. k \in 1 .. m /\ 1 \in 1 .. m /\ k - 1 \in 0 .. n /\ k - 1 <= m /\ k \in 0 .. n
      BY <1>0, <2>1
    <3>2. SubSeq(waited, 1, k) = SubSeq(waited, 1, k - 1) \o <<waited[k]>>
      BY <3>1, SubSeqRecursiveSecond
    <3>3. SubSeq(waited, 1, k - 1) \in Seq(T) /\ waited[k] \in T
      BY <3>1, SubSeqProperties, ElementOfSeq
    <3>4. Append(SubSeq(waited, 1, k - 1), waited[k]) = SubSeq(waited, 1, k - 1) \o <<waited[k]>>
      BY <3>3, AppendIsConcat
    <3>5. g[k] = SubSeq(waited, 1, k) /\ g[k - 1] = SubSeq(waited, 1, k - 1)
      BY <2>1, <3>1
    <3> HIDE DEF g
    <3> QED
      BY <3>1, <3>2, <3>4, <3>5
  <2>2. CASE ~ (k <= m)
    <3>1. k \in m + 1 .. n /\ k - 1 \in 0 .. n /\ k \in 0 .. n /\ (k - 1 <= m => k - 1 = m)
      BY <1>0, <2>2
    <3>2. SubSeq(waited, 1, m) = waited
      BY SubSeqFull
    <3>3. g[k] = waited /\ g[k - 1] = waited
      <4> HIDE DEF m
      <4> QED
        BY <2>2, <3>1, <3>2
    <3> HIDE DEF g
    <3> QED
      BY <3>1, <3>3
  <2> QED
    BY <2>1, <2>2
<1> HIDE DEF g
<1>3. BuildsUp(g, frames, n)
  BY <1>1, <1>2, BuildsUpStepwise
<1> QED
  BY <1>1, <1>3, PayloadsAre

-----------------------------------------------------------------------------
\* Initially nothing is known and nothing waits.
LEMMA InitIInv == Init => IInv
<1> SUFFICES ASSUME Init PROVE IInv
  OBVIOUS
<1>1. /\ cache = NoKeys /\ asked = NoKeys /\ queue = NoKeys
      /\ NicShape
  BY DEF Init, NewInterface, NicShape, cache, asked, queue
<1>2. DOMAIN NoKeys = {}
  BY DEF NoKeys
<1>3. TypeOK
  BY <1>1, <1>2, TimesAssumption DEF Init, TypeOK, cache, asked, queue
<1>4. WaitsOnlyForAnswer
  BY <1>1, <1>2 DEF WaitsOnlyForAnswer, queue
<1>5. CacheIsCurrent
  BY <1>1, <1>2, TimesAssumption DEF CacheIsCurrent, cache, Init
<1>6. RequestsTracked /\ QueuedForHop
  BY <1>1, <1>2 DEF RequestsTracked, QueuedForHop, Init
<1> QED
  BY <1>1, <1>3, <1>4, <1>5, <1>6 DEF IInv

\* The invariant, part by part.
LEMMA Types ==
  ASSUME IInv
  PROVE  /\ NicShape
         /\ DOMAIN cache \subseteq Hop
         /\ \A h \in DOMAIN cache : cache[h] \in [ethernet : Ethernet, age : Nat]
         /\ DOMAIN asked \subseteq Hop /\ \A h \in DOMAIN asked : asked[h] \in Nat
         /\ DOMAIN queue \subseteq Hop
         /\ \A h \in DOMAIN queue : queue[h] \in Seq(1 .. Len(given))
         /\ given \in Seq(Hop)
         /\ requested \in [Hop -> 0 .. RequestTimeout]
         /\ heard \in [Hop -> [ethernet : Ethernet \cup {NoAddress}, age : 0 .. MappingLifetime]]
<1> QED
  BY DEF IInv, TypeOK, cache, asked, queue

\* What waits for a hop has been given.
LEMMA WaitingType ==
  ASSUME IInv, NEW hop PROVE WaitingFor(nic, hop) \in Seq(1 .. Len(given))
<1>1. CASE hop \in DOMAIN queue
  BY <1>1, Types DEF WaitingFor, queue
<1>2. CASE hop \notin DOMAIN queue
  BY <1>2 DEF WaitingFor, queue
<1> QED
  BY <1>1, <1>2

\* Member by member, an interface on which a datagram has been queued.
LEMMA MembersEnqueue ==
  ASSUME NEW C, NEW A, NEW Q, NEW R, NEW hop, NEW n,
         nic = [ethernet_address |-> OwnEthernet, ip_address |-> OwnIP, cache |-> C,
                arp_timestamps |-> A, datagram_q |-> Q, datagrams_received |-> R]
  PROVE  Enqueue(nic, n, hop) =
           [ethernet_address |-> OwnEthernet, ip_address |-> OwnIP, cache |-> C,
            arp_timestamps |-> A,
            datagram_q |-> Updated(Q, hop, Append(WaitingFor(nic, hop), n)),
            datagrams_received |-> R]
<1> QED
  BY DEF Enqueue

\* A datagram is sent, or waits with a request on its way.
LEMMA SendStep == ASSUME IInv, NEW hop \in Hop, Send(hop) PROVE IInv'
<1> DEFINE n    == Len(given) + 1
           step == SendDatagram(nic, n, hop)
           more == Updated(queue, hop, Append(WaitingFor(nic, hop), n))
<1>1. /\ nic' = step.nic /\ out' = step.out
      /\ given' = Append(given, hop) /\ heard' = heard
      /\ requested' = [h \in Hop |->
           IF \E i \in DOMAIN out' : IsRequestFor(out'[i], h) THEN 0 ELSE requested[h]]
  BY DEF Send, Does
<1>2. /\ given' \in Seq(Hop) /\ given \in Seq(Hop) /\ n \in 1 .. Len(given') /\ Len(given') = n
      /\ given'[n] = hop /\ \A k \in 1 .. Len(given) : given'[k] = given[k]
  BY <1>1 DEF IInv, TypeOK
<1>3. CASE hop \in DOMAIN cache
  <2>1. nic' = nic /\ out' = <<Frame(nic, cache[hop].ethernet, "IPv4", n)>>
    BY <1>1, <1>3 DEF SendDatagram, cache
  <2>2. requested' = requested
    BY <1>1, <2>1 DEF IsRequestFor, Frame, IInv, TypeOK
  <2>3. NicShape' /\ cache' = cache /\ asked' = asked /\ queue' = queue
    BY <2>1, Types DEF NicShape, cache, asked, queue
  <2>4. TypeOK'
    <3>1. \A h \in DOMAIN queue : queue[h] \in Seq(1 .. Len(given'))
      BY <1>2, Types
    <3> QED
      BY <1>1, <1>2, <2>2, <2>3, <3>1 DEF IInv, TypeOK, cache, asked, queue
  <2>5. WaitsOnlyForAnswer' /\ CacheIsCurrent' /\ RequestsTracked'
    BY <1>1, <2>2, <2>3 DEF IInv, WaitsOnlyForAnswer, CacheIsCurrent, RequestsTracked, cache, asked, queue
  <2>6. QueuedForHop'
    <3> SUFFICES ASSUME NEW h \in DOMAIN queue, NEW i \in DOMAIN queue[h]
                 PROVE  given'[queue[h][i]] = h
      BY <2>3 DEF QueuedForHop
    <3>1. queue[h][i] \in 1 .. Len(given) /\ given[queue[h][i]] = h
      BY Types DEF IInv, QueuedForHop
    <3> QED
      BY <1>2, <3>1
  <2> QED
    BY <2>3, <2>4, <2>5, <2>6 DEF IInv
<1>4. CASE hop \notin DOMAIN cache
  <2>1. /\ NicShape' /\ cache' = cache /\ queue' = more
        /\ asked' = IF MayRequest(nic, hop) THEN Updated(asked, hop, 0) ELSE asked
        /\ out' = IF MayRequest(nic, hop) THEN <<Frame(nic, Broadcast, "ARP", ArpRequest(nic, hop))>>
                                          ELSE <<>>
    <3>1. /\ Enqueue(nic, n, hop) =
               [ethernet_address |-> OwnEthernet, ip_address |-> OwnIP, cache |-> cache,
                arp_timestamps |-> asked, datagram_q |-> more,
                datagrams_received |-> nic.datagrams_received]
      BY Types, MembersEnqueue DEF NicShape, queue, WaitingFor
    <3>2. NoteRequest(Enqueue(nic, n, hop), hop) =
               [ethernet_address |-> OwnEthernet, ip_address |-> OwnIP, cache |-> cache,
                arp_timestamps |-> Updated(asked, hop, 0), datagram_q |-> more,
                datagrams_received |-> nic.datagrams_received]
      BY <3>1 DEF NoteRequest
    <3> HIDE DEF n, more
    <3> QED
      BY <1>1, <1>4, <3>1, <3>2 DEF step, SendDatagram, NicShape, cache, asked, queue
  <2>2. MayRequest(nic, hop) => hop \notin DOMAIN asked
    BY Types, TimesAssumption DEF MayRequest, IInv, RequestsTracked, asked
  <2>3. hop \in DOMAIN asked'
    BY <2>1 DEF MayRequest, Updated, asked
  <2>4. /\ RequestsTracked'
        /\ requested' \in [Hop -> 0 .. RequestTimeout]
        /\ DOMAIN asked' \subseteq Hop /\ \A h \in DOMAIN asked' : asked'[h] \in Nat
        /\ DOMAIN asked \subseteq DOMAIN asked'
    <3>1. CASE MayRequest(nic, hop)
      <4>1. \A h \in Hop : (\E i \in DOMAIN out' : IsRequestFor(out'[i], h)) <=> h = hop
        BY <3>1, <2>1 DEF IsRequestFor, Frame, ArpRequest
      <4>2. \A h \in Hop : requested'[h] = IF h = hop THEN 0 ELSE requested[h]
        BY <4>1, <1>1
      <4>3. asked' = [h \in DOMAIN asked \cup {hop} |-> IF h = hop THEN 0 ELSE asked[h]]
        BY <2>1, <3>1 DEF Updated
      <4>4. RequestsTracked'
        <5>1. \A h \in Hop : h # hop =>
                (h \in DOMAIN asked' <=> h \in DOMAIN asked) /\ (h \in DOMAIN asked => asked'[h] = asked[h])
          BY <4>3
        <5> HIDE DEF asked
        <5>2. RequestsTracked
          BY DEF IInv
        <5> QED
          BY <4>2, <4>3, <5>1, <5>2, TimesAssumption DEF RequestsTracked, asked
      <4>5. requested' \in [Hop -> 0 .. RequestTimeout]
        BY <1>1, <4>2, TimesAssumption DEF IInv, TypeOK
      <4>6. DOMAIN asked' \subseteq Hop /\ (\A h \in DOMAIN asked' : asked'[h] \in Nat)
            /\ DOMAIN asked \subseteq DOMAIN asked'
        BY <4>3 DEF IInv, TypeOK, asked
      <4> QED
        BY <4>4, <4>5, <4>6
    <3>2. CASE ~ MayRequest(nic, hop)
      <4>1. requested' = requested /\ asked' = asked
        BY <1>1, <2>1, <3>2 DEF IsRequestFor, IInv, TypeOK
      <4> QED
        BY <4>1 DEF RequestsTracked, IInv, TypeOK, asked
    <3> QED
      BY <3>1, <3>2
  <2>5. /\ DOMAIN queue' = DOMAIN queue \cup {hop}
        /\ queue'[hop] = Append(WaitingFor(nic, hop), n)
        /\ \A h \in DOMAIN queue : h # hop => queue'[h] = queue[h]
    BY <2>1 DEF Updated
  <2>6. WaitingFor(nic, hop) \in Seq(1 .. Len(given))
    BY WaitingType
  <2>7. /\ DOMAIN queue' \subseteq Hop
        /\ \A h \in DOMAIN queue' : queue'[h] \in Seq(1 .. Len(given'))
    <3>1. Seq(1 .. Len(given)) \subseteq Seq(1 .. n)
      <4>1. 1 .. Len(given) \subseteq 1 .. n
        BY <1>2
      <4> QED
        BY <4>1
    <3>2. Append(WaitingFor(nic, hop), n) \in Seq(1 .. n)
      BY <1>2, <2>6, <3>1
    <3> HIDE DEF n
    <3> QED
      BY <1>2, <2>5, <3>1, <3>2, Types
  <2>8. QueuedForHop'
    <3> SUFFICES ASSUME NEW h \in DOMAIN queue', NEW i \in DOMAIN queue'[h]
                 PROVE  given'[queue'[h][i]] = h
      BY DEF QueuedForHop
    <3>1. CASE h # hop
      <4>1. h \in DOMAIN queue /\ queue'[h] = queue[h] /\ queue[h] \in Seq(1 .. Len(given))
        BY <2>5, <3>1, Types
      <4>2. given[queue[h][i]] = h /\ queue[h][i] \in 1 .. Len(given)
        BY <4>1 DEF QueuedForHop, IInv
      <4> QED
        BY <1>2, <4>1, <4>2
    <3>2. CASE h = hop /\ i = Len(WaitingFor(nic, hop)) + 1
      BY <1>2, <2>5, <2>6, <3>2
    <3>3. CASE h = hop /\ i # Len(WaitingFor(nic, hop)) + 1
      <4>1. i \in DOMAIN WaitingFor(nic, hop) /\ queue'[h][i] = WaitingFor(nic, hop)[i]
        BY <2>5, <2>6, <3>3
      <4> QED
        <5>1. hop \in DOMAIN queue /\ WaitingFor(nic, hop) = queue[hop]
          BY <4>1 DEF WaitingFor, queue
        <5>2. queue[hop][i] \in 1 .. Len(given) /\ given[queue[hop][i]] = hop
          BY <2>6, <4>1, <5>1 DEF QueuedForHop, IInv
        <5> QED
          BY <1>2, <3>3, <4>1, <5>1, <5>2
    <3> QED
      BY <3>1, <3>2, <3>3
  <2>9. TypeOK'
    BY <1>1, <1>2, <2>1, <2>4, <2>7 DEF TypeOK, IInv, cache, asked, queue
  <2>10. WaitsOnlyForAnswer'
    BY <1>4, <2>1, <2>3, <2>4, <2>5 DEF WaitsOnlyForAnswer, IInv, cache, asked, queue
  <2>11. CacheIsCurrent'
    BY <1>1, <2>1 DEF CacheIsCurrent, IInv, cache
  <2> QED
    BY <2>1, <2>4, <2>8, <2>9, <2>10, <2>11 DEF IInv
<1> QED
  BY <1>3, <1>4

-----------------------------------------------------------------------------
\* Member by member, an interface that has learnt an address and emptied the
\* queue for it.
LEMMA MembersRecvArp ==
  ASSUME NEW C, NEW A, NEW Q, NEW R, NEW arp, NEW hop,
         nic = [ethernet_address |-> OwnEthernet, ip_address |-> OwnIP, cache |-> C,
                arp_timestamps |-> A, datagram_q |-> Q, datagrams_received |-> R]
  PROVE  [Learn(nic, arp) EXCEPT !.datagram_q = NotWaitingFor(nic, {hop})] =
           [ethernet_address |-> OwnEthernet, ip_address |-> OwnIP,
            cache |-> Updated(C, arp.sender_ip, [ethernet |-> arp.sender_ethernet, age |-> 0]),
            arp_timestamps |-> A,
            datagram_q |-> [h \in DOMAIN Q \ {hop} |-> Q[h]],
            datagrams_received |-> R]
<1>1. Learn(nic, arp) =
        [ethernet_address |-> OwnEthernet, ip_address |-> OwnIP,
         cache |-> Updated(C, arp.sender_ip, [ethernet |-> arp.sender_ethernet, age |-> 0]),
         arp_timestamps |-> A, datagram_q |-> Q, datagrams_received |-> R]
  BY DEF Learn
<1>2. NotWaitingFor(nic, {hop}) = [h \in DOMAIN Q \ {hop} |-> Q[h]]
  BY DEF NotWaitingFor
<1> QED
  BY <1>1, <1>2

\* An element of a concatenation comes from one of the two sequences.
LEMMA ConcatElement ==
  ASSUME NEW S, NEW s \in Seq(S), NEW t \in Seq(S), NEW i \in DOMAIN (s \o t)
  PROVE  \/ i \in DOMAIN s /\ (s \o t)[i] = s[i]
         \/ i - Len(s) \in DOMAIN t /\ (s \o t)[i] = t[i - Len(s)]
<1> QED
  OBVIOUS

\* What an ARP message makes the interface do: nothing when it is for another;
\* otherwise it is learnt, and out goes what waited, and perhaps a reply.
LEMMA ArpEffect ==
  ASSUME IInv, NEW arp \in ArpMessages, NEW dst \in Destinations, ReceiveArp(arp, dst)
  PROVE  \/ UNCHANGED <<nic, given, requested, heard>> /\ out' = <<>>
         \/ /\ NicShape'
            /\ cache' = Updated(cache, arp.sender_ip,
                                [ethernet |-> arp.sender_ethernet, age |-> 0])
            /\ asked' = asked
            /\ queue' = [h \in DOMAIN queue \ {arp.sender_ip} |-> queue[h]]
            /\ UNCHANGED <<given, requested>>
            /\ heard' = [heard EXCEPT ![arp.sender_ip] =
                           [ethernet |-> arp.sender_ethernet, age |-> 0]]
            /\ Payloads(out') = WaitingFor(nic, arp.sender_ip)
            /\ \A i \in DOMAIN out' :
                 \/ /\ out'[i].type = "IPv4" /\ out'[i].dst = arp.sender_ethernet
                    /\ arp.sender_ip \in DOMAIN queue
                    /\ \E k \in DOMAIN queue[arp.sender_ip] :
                         out'[i].payload = queue[arp.sender_ip][k]
                 \/ out'[i].type = "ARP" /\ out'[i].payload.opcode = "reply"
<1> DEFINE frame == [dst |-> dst, src |-> arp.sender_ethernet, type |-> "ARP", payload |-> arp]
           step  == RecvFrame(nic, frame)
<1>1. /\ nic' = step.nic /\ out' = step.out /\ given' = given
      /\ requested' = [h \in Hop |->
           IF \E i \in DOMAIN out' : IsRequestFor(out'[i], h) THEN 0 ELSE requested[h]]
      /\ heard' = IF dst \in {Broadcast, OwnEthernet}
                THEN [heard EXCEPT ![arp.sender_ip] =
                        [ethernet |-> arp.sender_ethernet, age |-> 0]]
                ELSE heard
  BY DEF ReceiveArp, Does
<1>2. nic.ethernet_address = OwnEthernet /\ arp # Garbled
  BY Types, InterfaceAssumption DEF NicShape
<1>3. CASE dst \notin {Broadcast, OwnEthernet}
  <2>1. step = [nic |-> nic, out |-> <<>>]
    BY <1>2, <1>3 DEF RecvFrame, Ours
  <2>2. nic' = nic /\ out' = <<>> /\ heard' = heard
    BY <1>1, <1>3, <2>1
  <2>3. requested' = requested
    BY <1>1, <2>2, Types
  <2> QED
    BY <1>1, <2>2, <2>3
<1>4. CASE dst \in {Broadcast, OwnEthernet}
  <2> DEFINE waited == WaitingFor(nic, arp.sender_ip)
             ip     == [i \in DOMAIN waited |-> Frame(nic, arp.sender_ethernet, "IPv4", waited[i])]
             reply  == IF arp.opcode = "request" /\ arp.target_ip = nic.ip_address
                         THEN <<Frame(nic, arp.sender_ethernet, "ARP", ArpReply(nic, arp))>>
                         ELSE <<>>
  <2>1. step = RecvArp(nic, arp)
    BY <1>2, <1>4 DEF RecvFrame, Ours
  <2>2. /\ nic' = [Learn(nic, arp) EXCEPT !.datagram_q = NotWaitingFor(nic, {arp.sender_ip})]
        /\ out' = ip \o reply
    <3>1. RecvArp(nic, arp) =
            [nic |-> [Learn(nic, arp) EXCEPT !.datagram_q = NotWaitingFor(nic, {arp.sender_ip})],
             out |-> ip \o reply]
      BY Zenon DEF RecvArp
    <3> HIDE DEF ip, reply, step
    <3> QED
      BY <1>1, <2>1, <3>1
  <2>3. nic' = [ethernet_address |-> OwnEthernet, ip_address |-> OwnIP,
                cache |-> Updated(cache, arp.sender_ip,
                                  [ethernet |-> arp.sender_ethernet, age |-> 0]),
                arp_timestamps |-> asked,
                datagram_q |-> [h \in DOMAIN queue \ {arp.sender_ip} |-> queue[h]],
                datagrams_received |-> nic.datagrams_received]
    <3>1. nic = [ethernet_address |-> OwnEthernet, ip_address |-> OwnIP, cache |-> cache,
                 arp_timestamps |-> asked, datagram_q |-> queue,
                 datagrams_received |-> nic.datagrams_received]
      BY Types DEF NicShape
    <3> DEFINE R == nic.datagrams_received
               hop == arp.sender_ip
    <3> HIDE DEF R, hop
    <3>2. [Learn(nic, arp) EXCEPT !.datagram_q = NotWaitingFor(nic, {hop})] =
            [ethernet_address |-> OwnEthernet, ip_address |-> OwnIP,
             cache |-> Updated(cache, arp.sender_ip, [ethernet |-> arp.sender_ethernet, age |-> 0]),
             arp_timestamps |-> asked, datagram_q |-> [h \in DOMAIN queue \ {hop} |-> queue[h]],
             datagrams_received |-> R]
      BY <3>1, MembersRecvArp DEF R
    <3> QED
      BY <2>2, <3>2, Zenon DEF R, hop
  <2>4. waited \in Seq(1 .. Len(given))
    BY WaitingType
  <2>5. \A i \in DOMAIN ip : /\ ip[i].type = "IPv4" /\ ip[i].dst = arp.sender_ethernet
                             /\ ip[i].payload = waited[i]
    BY DEF Frame
  <2>6. \A i \in DOMAIN reply : reply[i].type = "ARP" /\ reply[i].payload.opcode = "reply"
    BY DEF Frame, ArpReply
  <2>7. PICK S : ip \in Seq(S) /\ reply \in Seq(S)
    <3>1. DOMAIN waited = 1 .. Len(waited) /\ Len(waited) \in Nat
      BY <2>4
    <3> DEFINE A == { ip[i] : i \in DOMAIN ip }
               x == Frame(nic, arp.sender_ethernet, "ARP", ArpReply(nic, arp))
               B == { x }
    <3>2. ip \in [1 .. Len(waited) -> A \cup B]
      BY <3>1
    <3>3. reply \in Seq(A \cup B)
      <4>1. reply = <<>> \/ reply = <<x>>
        OBVIOUS
      <4> HIDE DEF reply, A, x
      <4>2. x \in A \cup B
        OBVIOUS
      <4>3. ASSUME NEW T, NEW y \in T PROVE <<>> \in Seq(T) /\ <<y>> \in Seq(T)
        OBVIOUS
      <4> HIDE DEF B
      <4> QED
        BY <4>1, <4>2, <4>3
    <3> HIDE DEF ip, waited, A, B
    <3>4. ip \in Seq(A \cup B)
      BY <3>1, <3>2
    <3> HIDE DEF reply
    <3> QED
      BY <3>3, <3>4
  <2>8. \A i \in DOMAIN out' :
           \/ i \in DOMAIN ip /\ out'[i] = ip[i]
           \/ i - Len(ip) \in DOMAIN reply /\ out'[i] = reply[i - Len(ip)]
    <3> HIDE DEF ip, reply
    <3> QED
      <4>1. ASSUME NEW i \in DOMAIN (ip \o reply)
            PROVE  \/ i \in DOMAIN ip /\ (ip \o reply)[i] = ip[i]
                   \/ i - Len(ip) \in DOMAIN reply /\ (ip \o reply)[i] = reply[i - Len(ip)]
        BY ONLY <2>7, <4>1, ConcatElement
      <4> QED
        BY <2>2, <4>1
  <2>9. \A i \in DOMAIN waited : /\ arp.sender_ip \in DOMAIN queue
                                 /\ i \in DOMAIN queue[arp.sender_ip]
                                 /\ waited[i] = queue[arp.sender_ip][i]
    BY DEF WaitingFor, queue
  <2>14. DOMAIN ip = DOMAIN waited
    OBVIOUS
  <2>10. \A i \in DOMAIN out' :
           \/ /\ out'[i].type = "IPv4" /\ out'[i].dst = arp.sender_ethernet
              /\ arp.sender_ip \in DOMAIN queue
              /\ \E k \in DOMAIN queue[arp.sender_ip] :
                   out'[i].payload = queue[arp.sender_ip][k]
           \/ out'[i].type = "ARP" /\ out'[i].payload.opcode = "reply"
    <3> HIDE DEF ip, reply, waited
    <3> QED
      BY <2>5, <2>6, <2>8, <2>9, <2>14
  <2>11. \A h \in Hop : ~ \E i \in DOMAIN out' : IsRequestFor(out'[i], h)
    BY <2>10 DEF IsRequestFor
  <2>12. requested' = requested
    BY <1>1, <2>11, Types
  <2>13. /\ NicShape' /\ asked' = asked
         /\ cache' = Updated(cache, arp.sender_ip, [ethernet |-> arp.sender_ethernet, age |-> 0])
         /\ queue' = [h \in DOMAIN queue \ {arp.sender_ip} |-> queue[h]]
    BY <2>3 DEF NicShape, cache, asked, queue
  <2>15. Payloads(out') = waited
    <3> DEFINE m == Len(waited)
               n == Len(ip) + Len(reply)
    <3>1. Len(ip) = m /\ m \in Nat /\ Len(reply) \in Nat /\ ip \o reply \in Seq(S)
          /\ Len(ip \o reply) = n /\ n \in Nat /\ m <= n /\ DOMAIN ip = 1 .. m
          /\ DOMAIN reply = 1 .. Len(reply)
      <4>1. DOMAIN waited = 1 .. m /\ m \in Nat
        BY <2>4, LenProperties
      <4> HIDE DEF ip, reply, waited, m
      <4>2. Len(ip) \in Nat /\ DOMAIN ip = 1 .. Len(ip) /\ Len(reply) \in Nat
            /\ DOMAIN reply = 1 .. Len(reply)
        BY <2>7, LenProperties
      <4>3. 1 .. m = 1 .. Len(ip)
        BY <2>14, <4>1, <4>2
      <4>4. m = Len(ip)
        <5> DEFINE l == Len(ip)
        <5>1. l \in Nat /\ 1 .. m = 1 .. l
          BY <4>2, <4>3
        <5> HIDE DEF l
        <5>2. (l # 0 => l \in 1 .. m) /\ (m # 0 => m \in 1 .. l)
          BY <4>1, <5>1
        <5> QED
          BY <4>1, <5>1, <5>2 DEF l
      <4> QED
        BY <2>7, <4>1, <4>2, <4>4, ConcatProperties
    <3>2. ASSUME NEW k \in 1 .. n
          PROVE  (ip \o reply)[k] = IF k <= m THEN ip[k] ELSE reply[k - m]
      <4> HIDE DEF ip, reply, waited, m
      <4> QED
        BY <2>7, <3>1, ConcatProperties
    <3> HIDE DEF ip, reply, waited, m, n
    <3>3. ASSUME NEW k \in 1 .. m
          PROVE  (ip \o reply)[k].type = "IPv4" /\ (ip \o reply)[k].payload = waited[k]
      <4>1. k \in 1 .. n /\ k <= m /\ k \in DOMAIN ip
        BY <3>1
      <4> QED
        BY <2>5, <3>2, <4>1
    <3>4. ASSUME NEW k \in m + 1 .. n
          PROVE  (ip \o reply)[k].type # "IPv4"
      <4>1. k \in 1 .. n /\ ~ (k <= m) /\ k - m \in DOMAIN reply
        BY <3>1 DEF n
      <4> QED
        BY <2>6, <3>2, <4>1
    <3>5. Payloads(ip \o reply) = waited
      BY <2>4, <3>1, <3>3, <3>4, PayloadsOfAnswer DEF m
    <3> QED
      BY <2>2, <3>5
  <2> QED
    BY <1>1, <1>4, <2>10, <2>12, <2>13, <2>15
<1> QED
  BY <1>3, <1>4

\* An ARP message preserves the invariant.
LEMMA ArpStep ==
  ASSUME IInv, NEW arp \in ArpMessages, NEW dst \in Destinations, ReceiveArp(arp, dst)
  PROVE  IInv'
<1>1. CASE UNCHANGED <<nic, given, requested, heard>>
  BY <1>1 DEF IInv, NicShape, TypeOK, WaitsOnlyForAnswer, CacheIsCurrent, RequestsTracked,
    QueuedForHop, cache, asked, queue
<1>2. CASE ~ UNCHANGED <<nic, given, requested, heard>>
  <2> DEFINE from == arp.sender_ip
             news == [ethernet |-> arp.sender_ethernet, age |-> 0]
  <2>1. /\ NicShape'
        /\ cache' = Updated(cache, from, news)
        /\ asked' = asked
        /\ queue' = [h \in DOMAIN queue \ {from} |-> queue[h]]
        /\ UNCHANGED <<given, requested>>
        /\ heard' = [heard EXCEPT ![from] = news]
    BY <1>2, ArpEffect
  <2>2. from \in Hop /\ news \in [ethernet : Ethernet, age : Nat] /\ news.age = 0
    BY DEF ArpMessages
  <2> HIDE DEF from, news
  <2>3. /\ DOMAIN cache' = DOMAIN cache \cup {from}
        /\ cache'[from] = news
        /\ \A h \in DOMAIN cache : h # from => cache'[h] = cache[h]
    BY <2>1 DEF Updated
  <2>4. /\ DOMAIN queue' = DOMAIN queue \ {from}
        /\ \A h \in DOMAIN queue' : queue'[h] = queue[h]
    BY <2>1
  <2>5. news \in [ethernet : Ethernet \cup {NoAddress}, age : 0 .. MappingLifetime]
    BY <2>2, TimesAssumption DEF news
  <2>6. heard' \in [Hop -> [ethernet : Ethernet \cup {NoAddress}, age : 0 .. MappingLifetime]]
        /\ \A h \in Hop : heard'[h] = IF h = from THEN news ELSE heard[h]
    BY <2>1, <2>2, <2>5, Types
  <2>7. TypeOK'
    BY <2>1, <2>2, <2>3, <2>4, <2>6, Types DEF TypeOK, cache, asked, queue
  <2>8. WaitsOnlyForAnswer'
    BY <2>1, <2>3, <2>4 DEF IInv, WaitsOnlyForAnswer, cache, asked, queue
  <2>9. CacheIsCurrent'
    BY <2>2, <2>3, <2>6, Types, TimesAssumption DEF IInv, CacheIsCurrent, cache
  <2>10. RequestsTracked' /\ QueuedForHop'
    BY <2>1, <2>4 DEF IInv, RequestsTracked, QueuedForHop
  <2> QED
    BY <2>1, <2>7, <2>8, <2>9, <2>10 DEF IInv
<1> QED
  BY <1>1, <1>2

\* Datagrams that arrive, and that the owner takes, touch nothing else.
LEMMA ReceivedEffect ==
  ASSUME NicShape,
         \/ TakeReceived
         \/ \E src \in Ethernet, dst \in Destinations, payload \in {0, Garbled} :
              ReceiveIPv4(src, dst, payload)
  PROVE  /\ NicShape' /\ cache' = cache /\ asked' = asked /\ queue' = queue
         /\ out' = <<>> /\ UNCHANGED <<given, heard>>
         /\ requested' = [h \in Hop |->
              IF \E i \in DOMAIN out' : IsRequestFor(out'[i], h) THEN 0 ELSE requested[h]]
<1> DEFINE Received(R) == [nic EXCEPT !.datagrams_received = R]
           Unseen == Does([nic |-> nic, out |-> <<>>])
           Seen   == \E R : Does([nic |-> Received(R), out |-> <<>>])
<1>1. (Unseen \/ Seen) /\ UNCHANGED <<given, heard>>
  <2>1. CASE TakeReceived
    BY <2>1, Zenon DEF TakeReceived
  <2>2. ASSUME NEW src \in Ethernet, NEW dst \in Destinations, NEW payload \in {0, Garbled},
               ReceiveIPv4(src, dst, payload)
        PROVE  (Unseen \/ Seen) /\ UNCHANGED <<given, heard>>
    <3> DEFINE frame == [dst |-> dst, src |-> src, type |-> "IPv4", payload |-> payload]
    <3>1. \/ RecvFrame(nic, frame) = [nic |-> nic, out |-> <<>>]
          \/ RecvFrame(nic, frame) =
               [nic |-> Received(Append(nic.datagrams_received, frame.payload)), out |-> <<>>]
      <4>1. frame.type # "ARP"
        OBVIOUS
      <4> HIDE DEF frame
      <4> QED
        BY <4>1, Zenon DEF RecvFrame, Ours
    <3>2. Does(RecvFrame(nic, frame)) /\ UNCHANGED <<given, heard>>
      BY <2>2, Zenon DEF ReceiveIPv4
    <3> HIDE DEF frame
    <3> QED
      BY <3>1, <3>2, Zenon
  <2> QED
    BY <2>1, <2>2
<1>2. CASE Unseen
  BY <1>1, <1>2 DEF Does, NicShape, cache, asked, queue
<1>3. CASE Seen
  <2>1. PICK R : Does([nic |-> Received(R), out |-> <<>>])
    BY <1>3, Zenon
  <2>2. Received(R) = [ethernet_address |-> OwnEthernet, ip_address |-> OwnIP, cache |-> cache,
                       arp_timestamps |-> asked, datagram_q |-> queue, datagrams_received |-> R]
    BY DEF NicShape
  <2> HIDE DEF Received
  <2> QED
    BY <1>1, <2>1, <2>2 DEF Does, NicShape, cache, asked, queue
<1> QED
  BY <1>1, <1>2, <1>3

\* So they preserve the invariant.
LEMMA ReceivedStep ==
  ASSUME IInv,
         \/ TakeReceived
         \/ \E src \in Ethernet, dst \in Destinations, payload \in {0, Garbled} :
              ReceiveIPv4(src, dst, payload)
  PROVE  IInv' /\ out' = <<>>
<1>1. /\ NicShape' /\ cache' = cache /\ asked' = asked /\ queue' = queue
      /\ out' = <<>> /\ UNCHANGED <<given, heard>>
      /\ requested' = [h \in Hop |->
           IF \E i \in DOMAIN out' : IsRequestFor(out'[i], h) THEN 0 ELSE requested[h]]
  BY ReceivedEffect, Types
<1>2. requested' = requested
  BY <1>1, Types
<1> QED
  BY <1>1, <1>2 DEF IInv, TypeOK, WaitsOnlyForAnswer, CacheIsCurrent, RequestsTracked,
    QueuedForHop, cache, asked, queue

-----------------------------------------------------------------------------
\* Member by member, an interface for which time has passed.
LEMMA MembersTick ==
  ASSUME NEW C, NEW A, NEW Q, NEW R, NEW ms,
         nic = [ethernet_address |-> OwnEthernet, ip_address |-> OwnIP, cache |-> C,
                arp_timestamps |-> A, datagram_q |-> Q, datagrams_received |-> R]
  PROVE  InterfaceTick(nic, ms) =
           [ethernet_address |-> OwnEthernet, ip_address |-> OwnIP,
            cache |-> AgeCache(C, ms), arp_timestamps |-> AgeRequests(A, ms),
            datagram_q |-> [h \in DOMAIN Q \ Overdue(nic, ms) |-> Q[h]],
            datagrams_received |-> R]
<1>1. NotWaitingFor(nic, Overdue(nic, ms)) = [h \in DOMAIN Q \ Overdue(nic, ms) |-> Q[h]]
  BY DEF NotWaitingFor
<1> DEFINE rest == NotWaitingFor(nic, Overdue(nic, ms))
           aged == [ethernet_address |-> OwnEthernet, ip_address |-> OwnIP,
                    cache |-> AgeCache(C, ms), arp_timestamps |-> A, datagram_q |-> Q,
                    datagrams_received |-> R]
           left == [ethernet_address |-> OwnEthernet, ip_address |-> OwnIP,
                    cache |-> AgeCache(C, ms), arp_timestamps |-> A, datagram_q |-> rest,
                    datagrams_received |-> R]
<1> HIDE DEF rest
<1>2. nic.cache = C /\ nic.arp_timestamps = A
  OBVIOUS
<1>3. [nic EXCEPT !.cache = AgeCache(C, ms)] = aged
  OBVIOUS
<1>4. [aged EXCEPT !.datagram_q = rest] = left
  OBVIOUS
<1>5. [left EXCEPT !.arp_timestamps = AgeRequests(A, ms)] =
        [ethernet_address |-> OwnEthernet, ip_address |-> OwnIP,
         cache |-> AgeCache(C, ms), arp_timestamps |-> AgeRequests(A, ms),
         datagram_q |-> rest, datagrams_received |-> R]
  OBVIOUS
<1> HIDE DEF aged, left
<1>6. InterfaceTick(nic, ms) =
        [[[nic EXCEPT !.cache = AgeCache(nic.cache, ms)] EXCEPT !.datagram_q = rest]
           EXCEPT !.arp_timestamps = AgeRequests(nic.arp_timestamps, ms)]
  BY Zenon DEF InterfaceTick, rest
<1>7. InterfaceTick(nic, ms) = [left EXCEPT !.arp_timestamps = AgeRequests(A, ms)]
  BY <1>2, <1>3, <1>4, <1>6, Zenon
<1> QED
  BY <1>1, <1>5, <1>7 DEF rest

\* What the members are after a tick.
LEMMA TickEffect ==
  ASSUME NicShape, NEW ms, Tick(ms)
  PROVE  /\ NicShape' /\ cache' = AgeCache(cache, ms) /\ asked' = AgeRequests(asked, ms)
         /\ queue' = [h \in DOMAIN queue \ Overdue(nic, ms) |-> queue[h]]
<1> DEFINE R == nic.datagrams_received
<1>1. nic' = [ethernet_address |-> OwnEthernet, ip_address |-> OwnIP,
              cache |-> AgeCache(cache, ms), arp_timestamps |-> AgeRequests(asked, ms),
              datagram_q |-> [h \in DOMAIN queue \ Overdue(nic, ms) |-> queue[h]],
              datagrams_received |-> R]
  <2>1. nic = [ethernet_address |-> OwnEthernet, ip_address |-> OwnIP, cache |-> cache,
               arp_timestamps |-> asked, datagram_q |-> queue, datagrams_received |-> R]
    BY DEF NicShape
  <2>2. nic' = InterfaceTick(nic, ms)
    BY DEF Tick
  <2> HIDE DEF R
  <2> QED
    BY <2>1, <2>2, MembersTick
<1> QED
  BY <1>1 DEF NicShape, cache, asked, queue

\* Time passes: mappings, requests and what waits grow old together.
LEMMA TickStep == ASSUME IInv, NEW ms \in TickLengths, Tick(ms) PROVE IInv'
<1>1. ms \in Nat \ {0}
  BY InterfaceAssumption
<1>2. /\ NicShape' /\ cache' = AgeCache(cache, ms) /\ asked' = AgeRequests(asked, ms)
      /\ queue' = [h \in DOMAIN queue \ Overdue(nic, ms) |-> queue[h]]
  BY TickEffect, Types
<1>3. /\ given' = given
      /\ requested' = [h \in Hop |-> Capped(requested[h] + ms, RequestTimeout)]
      /\ heard' = [h \in Hop |-> [heard[h] EXCEPT !.age = Capped(@ + ms, MappingLifetime)]]
  BY DEF Tick
<1>4. /\ DOMAIN asked' = { h \in DOMAIN asked : asked[h] + ms < RequestTimeout }
      /\ \A h \in DOMAIN asked' : asked'[h] = asked[h] + ms
  BY <1>2 DEF AgeRequests
<1>5. /\ DOMAIN cache' = { h \in DOMAIN cache : cache[h].age + ms < MappingLifetime }
      /\ \A h \in DOMAIN cache' : cache'[h] = [cache[h] EXCEPT !.age = @ + ms]
  BY <1>2 DEF AgeCache
<1>6. /\ DOMAIN queue' = { h \in DOMAIN queue : ~ (h \in DOMAIN asked /\ asked[h] + ms >= RequestTimeout) }
      /\ \A h \in DOMAIN queue' : queue'[h] = queue[h]
  BY <1>2 DEF Overdue, asked
<1>7. \A h \in Hop :
        /\ heard'[h] \in [ethernet : Ethernet \cup {NoAddress}, age : 0 .. MappingLifetime]
        /\ heard'[h].ethernet = heard[h].ethernet
        /\ heard'[h].age = Capped(heard[h].age + ms, MappingLifetime)
  BY <1>1, <1>3, Types, TimesAssumption DEF Capped
<1>8. \A h \in Hop : requested'[h] \in 0 .. RequestTimeout
                     /\ requested'[h] = Capped(requested[h] + ms, RequestTimeout)
  BY <1>1, <1>3, Types, TimesAssumption DEF Capped
<1>9. TypeOK'
  <2>1. \A h \in DOMAIN cache' : cache'[h] \in [ethernet : Ethernet, age : Nat]
    <3>1. ASSUME NEW r \in [ethernet : Ethernet, age : Nat]
          PROVE  [r EXCEPT !.age = @ + ms] \in [ethernet : Ethernet, age : Nat]
      BY <1>1
    <3> QED
      BY <1>5, <3>1, Types, Zenon
  <2>2. requested' \in [Hop -> 0 .. RequestTimeout]
    BY <1>3, <1>8
  <2>3. heard' \in [Hop -> [ethernet : Ethernet \cup {NoAddress}, age : 0 .. MappingLifetime]]
    BY <1>3, <1>7
  <2>4. \A h \in DOMAIN asked' : asked'[h] \in Nat
    BY <1>1, <1>4, Types
  <2> QED
    BY <1>3, <1>4, <1>5, <1>6, <2>1, <2>2, <2>3, <2>4, Types DEF TypeOK, cache, asked, queue
<1>10. WaitsOnlyForAnswer'
  BY <1>1, <1>4, <1>5, <1>6, Types, TimesAssumption
     DEF IInv, WaitsOnlyForAnswer, cache, asked, queue
<1>11. CacheIsCurrent'
  <2>1. \A h \in Hop : h \in DOMAIN cache <=> heard[h].age < MappingLifetime
    BY DEF IInv, CacheIsCurrent, cache
  <2>2. \A h \in DOMAIN cache : cache[h] = heard[h]
    BY DEF IInv, CacheIsCurrent, cache
  <2>3. \A h \in Hop : h \in DOMAIN cache' <=> heard'[h].age < MappingLifetime
    BY <1>1, <1>5, <1>7, <2>1, <2>2, Types, TimesAssumption DEF Capped
  <2>4. \A h \in DOMAIN cache' : cache'[h] = heard'[h]
    BY <1>1, <1>3, <1>5, <2>2, Types, TimesAssumption DEF Capped
  <2> QED
    BY <1>5, <2>3, <2>4, Types DEF CacheIsCurrent, cache
<1>12. RequestsTracked'
  BY <1>1, <1>4, <1>8, Types, TimesAssumption DEF IInv, RequestsTracked, Capped
<1>13. QueuedForHop'
  BY <1>3, <1>6 DEF IInv, QueuedForHop
<1> QED
  BY <1>2, <1>9, <1>10, <1>11, <1>12, <1>13 DEF IInv

-----------------------------------------------------------------------------
\* The invariant is inductive.
LEMMA NextIInv == IInv /\ [Next]_vars => IInv'
<1> SUFFICES ASSUME IInv, [Next]_vars PROVE IInv'
  OBVIOUS
<1>1. ASSUME NEW hop \in Hop, Send(hop) PROVE IInv'
  BY <1>1, SendStep
<1>2. ASSUME NEW arp \in ArpMessages, NEW dst \in Destinations, ReceiveArp(arp, dst) PROVE IInv'
  BY <1>2, ArpStep
<1>3. CASE \/ TakeReceived
           \/ \E src \in Ethernet, dst \in Destinations, payload \in {0, Garbled} :
                ReceiveIPv4(src, dst, payload)
  BY <1>3, ReceivedStep
<1>4. CASE TickSome
  BY <1>4, TickStep DEF TickSome
<1>5. CASE UNCHANGED vars
  BY <1>5 DEF vars, IInv, NicShape, TypeOK, WaitsOnlyForAnswer, CacheIsCurrent, RequestsTracked,
    QueuedForHop, cache, asked, queue
<1> QED
  BY <1>1, <1>2, <1>3, <1>4, <1>5 DEF Next

LEMMA InductiveInvariant == Spec => []IInv
<1> QED
  BY InitIInv, NextIInv, PTL DEF Spec

\* The tables of the interface hold what they should.
THEOREM TypeCorrect == Spec => []TypeOK
<1>1. IInv => TypeOK
  BY DEF IInv
<1> QED
  BY <1>1, InductiveInvariant, PTL

\* A datagram never waits without a request that can still be answered, nor
\* with the address known.
THEOREM NothingWaitsInVain == Spec => []WaitsOnlyForAnswer
<1>1. IInv => WaitsOnlyForAnswer
  BY DEF IInv
<1> QED
  BY <1>1, InductiveInvariant, PTL

\* The cache is what was heard in the last 30 seconds, whatever the messages
\* and the lengths of the ticks.
THEOREM CacheIsFresh == Spec => []CacheIsCurrent
<1>1. IInv => CacheIsCurrent
  BY DEF IInv
<1> QED
  BY <1>1, InductiveInvariant, PTL

\* What a datagram to be sent puts on the wire.
LEMMA SendFrames ==
  ASSUME IInv, NEW hop \in Hop, Send(hop), NEW i \in DOMAIN out'
  PROVE  \/ /\ out'[i].type = "IPv4" /\ hop \in DOMAIN cache
            /\ out'[i].dst = cache[hop].ethernet /\ out'[i].payload = Len(given) + 1
         \/ /\ out'[i].type = "ARP" /\ out'[i].payload.target_ip = hop
            /\ requested[hop] = RequestTimeout
<1> DEFINE n == Len(given) + 1
<1>1. out' = SendDatagram(nic, n, hop).out
  BY DEF Send, Does
<1>2. CASE hop \in DOMAIN cache
  BY <1>1, <1>2 DEF SendDatagram, Frame, cache
<1>3. CASE hop \notin DOMAIN cache
  <2>1. MayRequest(nic, hop) => requested[hop] = RequestTimeout
    BY Types, TimesAssumption DEF MayRequest, IInv, RequestsTracked, asked
  <2>2. out' = IF MayRequest(nic, hop)
                 THEN <<Frame(nic, Broadcast, "ARP", ArpRequest(nic, hop))>>
                 ELSE <<>>
    BY <1>1, <1>3 DEF SendDatagram, cache
  <2> QED
    BY <2>1, <2>2 DEF Frame, ArpRequest
<1> QED
  BY <1>2, <1>3

\* Passing time and taking datagrams transmit nothing.
LEMMA SilentSteps ==
  ASSUME IInv,
         \/ TakeReceived
         \/ \E src \in Ethernet, dst \in Destinations, payload \in {0, Garbled} :
              ReceiveIPv4(src, dst, payload)
         \/ TickSome
  PROVE  out' = <<>>
<1> QED
  BY ReceivedStep DEF TickSome, Tick

\* No request is sent within 5 seconds of another for the same address.
THEOREM RequestsStayRare == Spec => RequestsAreRare
<1> DEFINE Rare == \A h \in Hop : (\E i \in DOMAIN out' : IsRequestFor(out'[i], h)) =>
                                     requested[h] = RequestTimeout
<1>1. IInv /\ [Next]_vars => [Rare]_vars
  <2> SUFFICES ASSUME IInv, Next PROVE Rare
    OBVIOUS
  <2>1. ASSUME NEW hop \in Hop, Send(hop) PROVE Rare
    <3> SUFFICES ASSUME NEW h \in Hop, NEW i \in DOMAIN out', IsRequestFor(out'[i], h)
                 PROVE  requested[h] = RequestTimeout
      OBVIOUS
    <3> QED
      BY <2>1, SendFrames DEF IsRequestFor
  <2>2. ASSUME NEW arp \in ArpMessages, NEW dst \in Destinations, ReceiveArp(arp, dst) PROVE Rare
    <3> SUFFICES ASSUME NEW i \in DOMAIN out', NEW h \in Hop PROVE ~ IsRequestFor(out'[i], h)
      OBVIOUS
    <3>1. out' # <<>>
      OBVIOUS
    <3>2. out'[i].type = "IPv4" \/ out'[i].payload.opcode = "reply"
      BY <2>2, <3>1, ArpEffect, Zenon
    <3> QED
      BY <3>2 DEF IsRequestFor
  <2> QED
    BY <2>1, <2>2, SilentSteps DEF Next
<1> QED
  BY <1>1, InductiveInvariant, PTL DEF Spec, RequestsAreRare

\* Every datagram that leaves goes to the address its next hop announced last.
THEOREM ReachesNextHop == Spec => GoesToNextHop
<1> DEFINE Right == \A i \in DOMAIN out' :
       out'[i].type = "IPv4" => out'[i].dst = heard'[given'[out'[i].payload]].ethernet
<1>1. IInv /\ [Next]_vars => [Right]_vars
  <2> SUFFICES ASSUME IInv, Next PROVE Right
    OBVIOUS
  <2>1. ASSUME NEW hop \in Hop, Send(hop) PROVE Right
    <3> SUFFICES ASSUME NEW i \in DOMAIN out', out'[i].type = "IPv4"
                 PROVE  out'[i].dst = heard'[given'[out'[i].payload]].ethernet
      OBVIOUS
    <3>1. /\ hop \in DOMAIN cache /\ out'[i].dst = cache[hop].ethernet
          /\ out'[i].payload = Len(given) + 1
      BY <2>1, SendFrames
    <3>2. given'[Len(given) + 1] = hop /\ heard' = heard
      BY <2>1, Types DEF Send
    <3>3. cache[hop] = heard[hop]
      BY <3>1 DEF IInv, CacheIsCurrent, cache
    <3> QED
      BY <3>1, <3>2, <3>3
  <2>2. ASSUME NEW arp \in ArpMessages, NEW dst \in Destinations, ReceiveArp(arp, dst) PROVE Right
    <3> DEFINE from == arp.sender_ip
    <3> SUFFICES ASSUME NEW i \in DOMAIN out', out'[i].type = "IPv4"
                 PROVE  out'[i].dst = heard'[given'[out'[i].payload]].ethernet
      OBVIOUS
    <3>1. /\ given' = given
          /\ heard' = [heard EXCEPT ![from] = [ethernet |-> arp.sender_ethernet, age |-> 0]]
          /\ out'[i].dst = arp.sender_ethernet /\ from \in DOMAIN queue
          /\ \E k \in DOMAIN queue[from] : out'[i].payload = queue[from][k]
      <4>1. out' # <<>> /\ out'[i].type # "ARP"
        OBVIOUS
      <4> QED
        BY <2>2, <4>1, ArpEffect, Zenon
    <3>2. given[out'[i].payload] = from
      BY <3>1 DEF IInv, QueuedForHop
    <3>3. from \in Hop
      BY DEF ArpMessages
    <3> HIDE DEF from
    <3> QED
      BY <3>1, <3>2, <3>3, Types
  <2> QED
    BY <2>1, <2>2, SilentSteps DEF Next
<1> QED
  BY <1>1, InductiveInvariant, PTL DEF Spec, GoesToNextHop

-----------------------------------------------------------------------------
(* The order of datagrams, and those that are dropped *)

\* What has been sent, and what waits, was given.
Ordered == sent \in Seq(1 .. Len(given)) /\ InOrderOnce

\* A datagram given to the interface goes out at once, when nothing waits for
\* its hop, or joins those that wait for it.
LEMMA SendEffect ==
  ASSUME IInv, NEW hop \in Hop, Send(hop)
  PROVE  /\ given' = Append(given, hop)
         /\ \/ /\ sent' = sent \o <<Len(given) + 1>> /\ queue' = queue /\ hop \notin DOMAIN queue
            \/ /\ sent' = sent \o <<>>
               /\ DOMAIN queue' = DOMAIN queue \cup {hop}
               /\ queue'[hop] = Append(WaitingFor(nic, hop), Len(given) + 1)
               /\ \A h \in DOMAIN queue : h # hop => queue'[h] = queue[h]
<1> DEFINE n    == Len(given) + 1
           step == SendDatagram(nic, n, hop)
           more == Updated(queue, hop, Append(WaitingFor(nic, hop), n))
<1>1. nic' = step.nic /\ sent' = sent \o Payloads(step.out) /\ given' = Append(given, hop)
  BY DEF Send, Does
<1>2. CASE hop \in DOMAIN cache
  <2>1. step = [nic |-> nic, out |-> <<Frame(nic, cache[hop].ethernet, "IPv4", n)>>]
    BY <1>2 DEF SendDatagram, cache
  <2>2. Payloads(step.out) = <<n>>
    <3> DEFINE frame == Frame(nic, cache[hop].ethernet, "IPv4", n)
    <3>1. frame.type = "IPv4" /\ frame.payload = n
      BY DEF Frame
    <3> HIDE DEF frame, n, step
    <3>2. Payloads(<<frame>>) = <<n>>
      BY <3>1, PayloadsOfOne
    <3> QED
      BY <2>1, <3>2 DEF frame
  <2>3. queue' = queue /\ hop \notin DOMAIN queue
    BY <1>1, <1>2, <2>1 DEF IInv, WaitsOnlyForAnswer, cache, queue
  <2> QED
    BY <1>1, <2>2, <2>3
<1>3. CASE hop \notin DOMAIN cache
  <2>1. Enqueue(nic, n, hop) =
               [ethernet_address |-> OwnEthernet, ip_address |-> OwnIP, cache |-> cache,
                arp_timestamps |-> asked, datagram_q |-> more,
                datagrams_received |-> nic.datagrams_received]
    BY Types, MembersEnqueue DEF NicShape, queue, WaitingFor
  <2>2. NoteRequest(Enqueue(nic, n, hop), hop) =
               [ethernet_address |-> OwnEthernet, ip_address |-> OwnIP, cache |-> cache,
                arp_timestamps |-> Updated(asked, hop, 0), datagram_q |-> more,
                datagrams_received |-> nic.datagrams_received]
    BY <2>1 DEF NoteRequest
  <2> DEFINE asks == Frame(nic, Broadcast, "ARP", ArpRequest(nic, hop))
  <2> HIDE DEF n, more
  <2>3. \/ step = [nic |-> NoteRequest(Enqueue(nic, n, hop), hop), out |-> <<asks>>]
        \/ step = [nic |-> Enqueue(nic, n, hop), out |-> <<>>]
    BY <1>3, Zenon DEF SendDatagram, cache
  <2>4. step.nic.datagram_q = more /\ (step.out = <<asks>> \/ step.out = <<>>)
    BY <2>1, <2>2, <2>3
  <2>5. Payloads(step.out) = <<>>
    <3>1. asks.type # "IPv4"
      BY DEF Frame
    <3> HIDE DEF asks, step
    <3> QED
      BY <2>4, <3>1, PayloadsOfOne, PayloadsOfNone
  <2>6. queue' = more
    BY <1>1, <2>4 DEF queue
  <2>7. /\ DOMAIN queue' = DOMAIN queue \cup {hop}
        /\ queue'[hop] = Append(WaitingFor(nic, hop), n)
        /\ \A h \in DOMAIN queue : h # hop => queue'[h] = queue[h]
    BY <2>6 DEF Updated, more
  <2> QED
    BY <1>1, <2>5, <2>7 DEF n
<1> QED
  BY <1>2, <1>3

\* An ARP message sends what waits for its sender, or nothing.
LEMMA ArpSends ==
  ASSUME IInv, NEW arp \in ArpMessages, NEW dst \in Destinations, ReceiveArp(arp, dst)
  PROVE  /\ given' = given
         /\ \/ sent' = sent \o <<>> /\ queue' = queue
            \/ /\ sent' = sent \o WaitingFor(nic, arp.sender_ip)
               /\ queue' = [h \in DOMAIN queue \ {arp.sender_ip} |-> queue[h]]
<1>1. sent' = sent \o Payloads(out') /\ given' = given
  BY DEF ReceiveArp, Does
<1>2. \/ nic' = nic /\ out' = <<>>
      \/ /\ Payloads(out') = WaitingFor(nic, arp.sender_ip)
         /\ queue' = [h \in DOMAIN queue \ {arp.sender_ip} |-> queue[h]]
  BY ArpEffect
<1> QED
  BY <1>1, <1>2, PayloadsOfNone DEF queue

\* Otherwise nothing is sent and nothing is added.
LEMMA OtherSends ==
  ASSUME IInv,
         \/ TakeReceived
         \/ \E src \in Ethernet, dst \in Destinations, payload \in {0, Garbled} :
              ReceiveIPv4(src, dst, payload)
         \/ \E ms \in TickLengths : Tick(ms)
  PROVE  /\ given' = given /\ (sent' = sent \o <<>> \/ sent' = sent)
         /\ DOMAIN queue' \subseteq DOMAIN queue
         /\ \A h \in DOMAIN queue' : queue'[h] = queue[h]
<1>1. ASSUME NEW ms \in TickLengths, Tick(ms)
      PROVE  /\ given' = given /\ sent' = sent /\ DOMAIN queue' \subseteq DOMAIN queue
             /\ \A h \in DOMAIN queue' : queue'[h] = queue[h]
  <2>1. queue' = [h \in DOMAIN queue \ Overdue(nic, ms) |-> queue[h]]
    BY <1>1, TickEffect, Types
  <2> QED
    BY <1>1, <2>1 DEF Tick
<1>2. CASE \/ TakeReceived
           \/ \E src \in Ethernet, dst \in Destinations, payload \in {0, Garbled} :
                ReceiveIPv4(src, dst, payload)
  <2>1. queue' = queue /\ out' = <<>> /\ given' = given
    BY <1>2, ReceivedEffect, Types
  <2>2. sent' = sent \o Payloads(out')
    BY <1>2, Zenon DEF TakeReceived, ReceiveIPv4, Does
  <2> QED
    BY <2>1, <2>2, PayloadsOfNone
<1> QED
  BY <1>1, <1>2

\* What waits for a hop is given, and given for that hop.
LEMMA QueueTypes ==
  ASSUME IInv, NEW h \in DOMAIN queue
  PROVE  /\ queue[h] \in Seq(1 .. Len(given)) /\ h \in Hop
         /\ \A i \in DOMAIN queue[h] : queue[h][i] \in 1 .. Len(given) /\ given[queue[h][i]] = h
<1> QED
  BY Types, ElementOfSeq DEF IInv, QueuedForHop

\* The order, for one sequence of numbers that goes out after another.
Follows(before, after, g) ==
  /\ \A i, j \in DOMAIN before : i < j /\ g[before[i]] = g[before[j]] => before[i] < before[j]
  /\ \A i, j \in DOMAIN after : i < j /\ g[after[i]] = g[after[j]] => after[i] < after[j]
  /\ \A i \in DOMAIN before, j \in DOMAIN after : g[before[i]] = g[after[j]] => before[i] < after[j]

LEMMA JoinedInOrder ==
  ASSUME NEW n \in Nat, NEW before \in Seq(1 .. n), NEW after \in Seq(1 .. n), NEW g,
         Follows(before, after, g)
  PROVE  /\ before \o after \in Seq(1 .. n)
         /\ \A i, j \in DOMAIN (before \o after) :
              i < j /\ g[(before \o after)[i]] = g[(before \o after)[j]]
                => (before \o after)[i] < (before \o after)[j]
<1> DEFINE line == before \o after
           b == Len(before)
<1>1. /\ b \in Nat /\ DOMAIN before = 1 .. b /\ DOMAIN after = 1 .. Len(after)
      /\ line \in Seq(1 .. n) /\ Len(after) \in Nat /\ DOMAIN line = 1 .. b + Len(after)
      /\ \A i \in 1 .. b + Len(after) : line[i] = IF i <= b THEN before[i] ELSE after[i - b]
  BY LenProperties, ConcatProperties
<1> HIDE DEF line, b
<1> DEFINE c == Len(after)
<1>3. b \in Nat /\ c \in Nat
  BY <1>1
<1>4. \A i \in 1 .. b + c : /\ i <= b => i \in DOMAIN before /\ line[i] = before[i]
                            /\ ~ (i <= b) => i - b \in DOMAIN after /\ line[i] = after[i - b]
  <2> SUFFICES ASSUME NEW i \in 1 .. b + c
               PROVE  /\ i <= b => i \in DOMAIN before /\ line[i] = before[i]
                      /\ ~ (i <= b) => i - b \in DOMAIN after /\ line[i] = after[i - b]
    OBVIOUS
  <2>1. line[i] = IF i <= b THEN before[i] ELSE after[i - b]
    BY <1>1
  <2>2. DOMAIN before = 1 .. b /\ DOMAIN after = 1 .. c
    BY <1>1
  <2> HIDE DEF c
  <2>3. (i <= b => i \in 1 .. b) /\ (~ (i <= b) => i - b \in 1 .. c)
    BY ONLY <1>3, i \in 1 .. b + c
  <2> QED
    BY <2>1, <2>2, <2>3, Zenon
<1>5. DOMAIN line = 1 .. b + c
  BY <1>1
<1> HIDE DEF c
<1>2. ASSUME NEW i \in DOMAIN line, NEW j \in DOMAIN line, i < j, g[line[i]] = g[line[j]]
      PROVE  line[i] < line[j]
  <2>0. i \in 1 .. b + c /\ j \in 1 .. b + c /\ i \in Int /\ j \in Int /\ b \in Int
    BY <1>3, <1>5
  <2>1. CASE j <= b
    <3>1. i <= b
      BY ONLY <1>2, <2>0, <2>1
    <3>2. i \in DOMAIN before /\ j \in DOMAIN before /\ line[i] = before[i] /\ line[j] = before[j]
      BY <1>4, <2>0, <2>1, <3>1, Zenon
    <3> QED
      BY <1>2, <3>2 DEF Follows
  <2>2. CASE i <= b /\ ~ (j <= b)
    <3>1. i \in DOMAIN before /\ j - b \in DOMAIN after /\ line[i] = before[i] /\ line[j] = after[j - b]
      BY <1>4, <2>0, <2>2, Zenon
    <3> QED
      BY <1>2, <3>1 DEF Follows
  <2>3. CASE ~ (i <= b)
    <3>1. ~ (j <= b) /\ i - b < j - b
      BY ONLY <1>2, <2>0, <2>3
    <3>2. /\ i - b \in DOMAIN after /\ j - b \in DOMAIN after
          /\ line[i] = after[i - b] /\ line[j] = after[j - b]
      BY <1>4, <2>0, <2>3, <3>1, Zenon
    <3> QED
      BY <1>2, <3>1, <3>2 DEF Follows
  <2> QED
    BY <2>1, <2>2, <2>3
<1> QED
  BY <1>1, <1>2 DEF line

\* The parts of the order.
LEMMA OrderParts ==
  ASSUME IInv, Ordered
  PROVE  /\ sent \in Seq(1 .. Len(given)) /\ Len(given) \in Nat /\ given \in Seq(Hop)
         /\ \A i \in DOMAIN sent : sent[i] \in 1 .. Len(given)
         /\ \A i, j \in DOMAIN sent : i < j /\ given[sent[i]] = given[sent[j]] => sent[i] < sent[j]
         /\ \A h \in DOMAIN queue :
              /\ \A i, j \in DOMAIN queue[h] : i < j => queue[h][i] < queue[h][j]
              /\ \A i \in DOMAIN sent, j \in DOMAIN queue[h] :
                   given[sent[i]] = h => sent[i] < queue[h][j]
         /\ sent \o <<>> = sent
<1>1. sent \in Seq(1 .. Len(given)) /\ given \in Seq(Hop) /\ Len(given) \in Nat
  BY Types, LenProperties DEF Ordered
<1>2. DOMAIN sent = 1 .. Len(sent) /\ sent \o <<>> = sent
  BY <1>1, LenProperties, ConcatEmptySeq
<1>3. \A i \in DOMAIN sent : sent[i] \in 1 .. Len(given)
  BY <1>1, <1>2, ElementOfSeq
<1> QED
  BY <1>1, <1>2, <1>3 DEF Ordered, InOrderOnce, Increasing, queue

\* What waits for a hop comes after what was sent to it.
LEMMA WaitingFollows ==
  ASSUME IInv, Ordered, NEW hop
  PROVE  Follows(sent, WaitingFor(nic, hop), given)
<1>1. CASE hop \in DOMAIN queue
  <2>1. WaitingFor(nic, hop) = queue[hop]
    BY <1>1 DEF WaitingFor, queue
  <2>2. \A i \in DOMAIN queue[hop] : given[queue[hop][i]] = hop
    BY <1>1, QueueTypes
  <2> QED
    BY <1>1, <2>1, <2>2, OrderParts DEF Follows
<1>2. CASE hop \notin DOMAIN queue
  <2>1. WaitingFor(nic, hop) = <<>>
    BY <1>2 DEF WaitingFor, queue
  <2>2. DOMAIN <<>> = {}
    OBVIOUS
  <2> QED
    BY <2>1, <2>2, OrderParts DEF Follows
<1> QED
  BY <1>1, <1>2

\* The order after an ARP message, a tick or a datagram received.
LEMMA ArpOrdered ==
  ASSUME IInv, Ordered, NEW from, given' = given,
         sent' = sent \o WaitingFor(nic, from),
         queue' = [h \in DOMAIN queue \ {from} |-> queue[h]]
  PROVE  Ordered'
<1> DEFINE W == WaitingFor(nic, from)
           n == Len(given)
<1>1. W \in Seq(1 .. n) /\ n \in Nat /\ sent \in Seq(1 .. n)
  BY WaitingType, OrderParts
<1>2. Follows(sent, W, given)
  BY WaitingFollows
<1>6. \A j \in DOMAIN W : given[W[j]] = from
  BY QueueTypes DEF WaitingFor, queue
<1> HIDE DEF W
<1>3. /\ sent' \in Seq(1 .. n)
      /\ \A i, j \in DOMAIN sent' : i < j /\ given[sent'[i]] = given[sent'[j]] => sent'[i] < sent'[j]
  <2>1. /\ sent \o W \in Seq(1 .. n)
        /\ \A i, j \in DOMAIN (sent \o W) :
             i < j /\ given[(sent \o W)[i]] = given[(sent \o W)[j]] => (sent \o W)[i] < (sent \o W)[j]
    BY <1>1, <1>2, JoinedInOrder
  <2> QED
    BY <2>1 DEF W
<1>4. ASSUME NEW h \in DOMAIN queue', NEW i \in DOMAIN sent', NEW j \in DOMAIN queue'[h],
             given[sent'[i]] = h
      PROVE  sent'[i] < queue'[h][j]
  <2>1. h \in DOMAIN queue /\ h # from /\ queue'[h] = queue[h]
    BY <1>4
  <2>2. \/ i \in DOMAIN sent /\ sent'[i] = sent[i]
        \/ \E k \in DOMAIN W : sent'[i] = W[k]
    <3>1. sent' = sent \o W
      BY DEF W
    <3>2. \/ i \in DOMAIN sent /\ (sent \o W)[i] = sent[i]
          \/ i - Len(sent) \in DOMAIN W /\ (sent \o W)[i] = W[i - Len(sent)]
      BY <1>1, <3>1, ConcatElement
    <3> QED
      BY <3>1, <3>2
  <2> QED
    BY <1>4, <1>6, <2>1, <2>2, OrderParts
<1>5. \A h \in DOMAIN queue' : \A i, j \in DOMAIN queue'[h] : i < j => queue'[h][i] < queue'[h][j]
  BY OrderParts
<1> QED
  BY <1>3, <1>4, <1>5 DEF Ordered, InOrderOnce, Increasing, queue

LEMMA OtherOrdered ==
  ASSUME IInv, Ordered, given' = given, sent' = sent, DOMAIN queue' \subseteq DOMAIN queue,
         \A h \in DOMAIN queue' : queue'[h] = queue[h]
  PROVE  Ordered'
<1> QED
  BY OrderParts DEF Ordered, InOrderOnce, Increasing, queue

\* The order after a datagram has been given to the interface: its number is
\* the greatest so far.
LEMMA SendOrdered ==
  ASSUME IInv, Ordered, NEW hop \in Hop, Send(hop)
  PROVE  Ordered'
<1> DEFINE n == Len(given)
           m == n + 1
<1>1. /\ n \in Nat /\ m \in Nat /\ given' = Append(given, hop) /\ Len(given') = m
      /\ given'[m] = hop /\ \A i \in 1 .. n : given'[i] = given[i] /\ i < m /\ i \in 1 .. m
      /\ m \in 1 .. m
  <2>1. given' = Append(given, hop)
    BY SendEffect
  <2> QED
    BY <2>1, OrderParts
<1>2. sent \in Seq(1 .. m) /\ \A i \in DOMAIN sent : sent[i] \in 1 .. n
  <2>1. Seq(1 .. n) \subseteq Seq(1 .. m)
    BY <1>1
  <2> QED
    BY <2>1, OrderParts
<1>3. \A h \in DOMAIN queue : \A j \in DOMAIN queue[h] : queue[h][j] \in 1 .. n
  BY QueueTypes
<1>4. \A i \in DOMAIN sent : given'[sent[i]] = given[sent[i]]
  BY <1>1, <1>2
<1> HIDE DEF n, m
<1>5. CASE sent' = sent \o <<m>> /\ queue' = queue /\ hop \notin DOMAIN queue
  <2> DEFINE one == <<m>>
  <2>1. one \in Seq(1 .. m) /\ DOMAIN one = {1} /\ one[1] = m
    BY <1>1
  <2> HIDE DEF one
  <2>2. Follows(sent, one, given')
    BY <1>1, <1>2, <1>4, <2>1, OrderParts DEF Follows
  <2>3. /\ sent \o one \in Seq(1 .. m)
        /\ \A i, j \in DOMAIN (sent \o one) :
             i < j /\ given'[(sent \o one)[i]] = given'[(sent \o one)[j]]
               => (sent \o one)[i] < (sent \o one)[j]
    BY <1>1, <1>2, <2>1, <2>2, JoinedInOrder
  <2>4. sent' = sent \o one
    BY <1>5 DEF one
  <2>5. ASSUME NEW h \in DOMAIN queue, NEW i \in DOMAIN sent', NEW j \in DOMAIN queue[h],
               given'[sent'[i]] = h
        PROVE  sent'[i] < queue[h][j]
    <3>1. \/ i \in DOMAIN sent /\ sent'[i] = sent[i]
          \/ \E k \in DOMAIN one : sent'[i] = one[k]
      <4>1. \/ i \in DOMAIN sent /\ (sent \o one)[i] = sent[i]
            \/ i - Len(sent) \in DOMAIN one /\ (sent \o one)[i] = one[i - Len(sent)]
        BY <1>2, <2>1, <2>4, ConcatElement
      <4> QED
        BY <2>4, <4>1
    <3>2. sent'[i] # m
      BY <1>1, <1>5, <2>5
    <3>3. i \in DOMAIN sent /\ sent'[i] = sent[i]
      BY <2>1, <3>1, <3>2
    <3> QED
      BY <1>4, <2>5, <3>3, OrderParts
  <2> QED
    BY <1>1, <1>5, <2>3, <2>4, <2>5, OrderParts DEF Ordered, InOrderOnce, Increasing, queue
<1>6. CASE /\ sent' = sent \o <<>>
           /\ DOMAIN queue' = DOMAIN queue \cup {hop}
           /\ queue'[hop] = Append(WaitingFor(nic, hop), m)
           /\ \A h \in DOMAIN queue : h # hop => queue'[h] = queue[h]
  <2> DEFINE W == WaitingFor(nic, hop)
             b == Len(W)
  <2>1. W \in Seq(1 .. n) /\ Follows(sent, W, given) /\ \A j \in DOMAIN W : given[W[j]] = hop
    BY WaitingType, WaitingFollows, QueueTypes DEF WaitingFor, queue, n
  <2>2. sent' = sent
    BY <1>6, OrderParts
  <2> HIDE DEF W
  <2>3. /\ b \in Nat /\ DOMAIN W = 1 .. b /\ \A j \in 1 .. b : W[j] \in 1 .. n
        /\ DOMAIN Append(W, m) = 1 .. b + 1 /\ Append(W, m)[b + 1] = m
        /\ \A j \in 1 .. b : Append(W, m)[j] = W[j]
    <3>1. W \in Seq(1 .. m)
      <4>1. Seq(1 .. n) \subseteq Seq(1 .. m)
        BY <1>1
      <4> QED
        BY <2>1, <4>1
    <3>2. b \in Nat /\ DOMAIN W = 1 .. b
      BY <2>1, LenProperties
    <3>3. \A j \in 1 .. b : W[j] \in 1 .. n
      BY <2>1, ElementOfSeq
    <3> HIDE DEF b
    <3>4. /\ Append(W, m) \in Seq(1 .. m) /\ Len(Append(W, m)) = b + 1 /\ Append(W, m)[b + 1] = m
          /\ \A j \in 1 .. b : Append(W, m)[j] = W[j]
      BY <1>1, <3>1, AppendProperties DEF b
    <3> QED
      BY <3>2, <3>3, <3>4, LenProperties
  <2>4. ASSUME NEW h \in DOMAIN queue', NEW i \in DOMAIN queue'[h], NEW j \in DOMAIN queue'[h], i < j
        PROVE  queue'[h][i] < queue'[h][j]
    <3>1. CASE h = hop
      <4>1. queue'[h] = Append(W, m)
        BY <1>6, <3>1 DEF W
      <4>2. i \in 1 .. b
        BY <2>3, <2>4, <4>1
      <4>3. CASE j \in 1 .. b
        BY <2>1, <2>3, <2>4, <4>1, <4>2, <4>3 DEF Follows
      <4>4. CASE j = b + 1
        BY <1>1, <2>3, <4>1, <4>2, <4>4
      <4> QED
        BY <2>3, <4>1, <4>3, <4>4
    <3>2. CASE h # hop
      BY <1>6, <2>4, <3>2, OrderParts
    <3> QED
      BY <3>1, <3>2
  <2>5. ASSUME NEW h \in DOMAIN queue', NEW i \in DOMAIN sent, NEW j \in DOMAIN queue'[h],
               given'[sent[i]] = h
        PROVE  sent[i] < queue'[h][j]
    <3>0. given[sent[i]] = h /\ sent[i] \in 1 .. n
      BY <1>2, <1>4, <2>5
    <3>1. CASE h = hop
      <4>1. queue'[h] = Append(W, m)
        BY <1>6, <3>1 DEF W
      <4>2. CASE j \in 1 .. b
        BY <2>1, <2>3, <3>0, <3>1, <4>1, <4>2 DEF Follows
      <4>3. CASE j = b + 1
        BY <1>1, <2>3, <3>0, <4>1, <4>3
      <4> QED
        BY <2>3, <4>1, <4>2, <4>3
    <3>2. CASE h # hop
      BY <1>6, <3>0, <3>2, OrderParts
    <3> QED
      BY <3>1, <3>2
  <2> QED
    BY <1>1, <1>2, <1>4, <2>2, <2>4, <2>5, OrderParts DEF Ordered, InOrderOnce, Increasing, queue
<1> QED
  BY <1>5, <1>6, SendEffect DEF m, n

\* Every step keeps the order.
LEMMA StaysOrdered == IInv /\ Ordered /\ [Next]_vars => Ordered'
<1> SUFFICES ASSUME IInv, Ordered, [Next]_vars PROVE Ordered'
  OBVIOUS
<1>1. ASSUME NEW hop \in Hop, Send(hop) PROVE Ordered'
  BY <1>1, SendOrdered
<1>2. ASSUME NEW arp \in ArpMessages, NEW dst \in Destinations, ReceiveArp(arp, dst) PROVE Ordered'
  <2>1. CASE sent' = sent \o <<>> /\ queue' = queue /\ given' = given
    BY <2>1, OrderParts, OtherOrdered
  <2> QED
    BY <1>2, <2>1, ArpSends, ArpOrdered
<1>3. CASE \/ TakeReceived
           \/ \E src \in Ethernet, dst \in Destinations, payload \in {0, Garbled} :
                ReceiveIPv4(src, dst, payload)
           \/ TickSome
  BY <1>3, OtherSends, OtherOrdered, OrderParts DEF TickSome
<1>4. CASE UNCHANGED vars
  BY <1>4, OtherOrdered DEF vars, queue
<1> QED
  BY <1>1, <1>2, <1>3, <1>4 DEF Next

LEMMA InitOrdered == Init => Ordered
<1> SUFFICES ASSUME Init PROVE Ordered
  OBVIOUS
<1>1. sent = <<>> /\ DOMAIN nic.datagram_q = {} /\ DOMAIN sent = {} /\ sent \in Seq(1 .. Len(given))
  BY DEF Init, NewInterface, NoKeys
<1> QED
  BY <1>1 DEF Ordered, InOrderOnce

\* Datagrams go out to each next hop once and in the order they were given,
\* however long the answers to the requests take.
THEOREM SentInOrder == Spec => []InOrderOnce
<1>1. Ordered => InOrderOnce
  BY DEF Ordered
<1> QED
  BY <1>1, InitOrdered, StaysOrdered, InductiveInvariant, PTL DEF Spec

\* A datagram that is neither gone nor sent waits in the queue of its hop.
LEMMA StillWaiting ==
  ASSUME IInv, NEW n, n \in DOMAIN given, ~ Gone(n), \A i \in DOMAIN sent : sent[i] # n
  PROVE  \E h \in DOMAIN queue : h \in Hop /\ given[n] = h /\ \E j \in DOMAIN queue[h] : queue[h][j] = n
<1>1. Waits(n)
  BY Zenon DEF Gone, Range
<1>2. PICK h \in Hop : n \in Range(WaitingFor(nic, h))
  BY <1>1 DEF Waits
<1>3. h \in DOMAIN queue
  BY <1>2 DEF WaitingFor, queue, Range
<1>4. \E j \in DOMAIN queue[h] : queue[h][j] = n
  BY <1>2, <1>3 DEF WaitingFor, queue, Range
<1> QED
  BY <1>2, <1>3, <1>4, QueueTypes

\* One that is gone after a step is in no queue then, and was not sent.
LEMMA GoneNowhere ==
  ASSUME NEW n, Gone(n)'
  PROVE  /\ n \in DOMAIN given' /\ \A i \in DOMAIN sent' : sent'[i] # n
         /\ \A h \in Hop : h \in DOMAIN queue' => \A j \in DOMAIN queue'[h] : queue'[h][j] # n
<1>1. n \in DOMAIN given' /\ n \notin Range(sent') /\ \A h \in Hop : n \notin Range(WaitingFor(nic', h))
  BY Zenon DEF Gone, Waits
<1>2. \A i \in DOMAIN sent' : sent'[i] # n
  BY <1>1 DEF Range
<1>3. ASSUME NEW h \in Hop, h \in DOMAIN queue', NEW j \in DOMAIN queue'[h] PROVE queue'[h][j] # n
  <2>1. WaitingFor(nic', h) = queue'[h]
    BY <1>3 DEF WaitingFor, queue
  <2> QED
    BY <1>1, <1>3, <2>1 DEF Range
<1> QED
  BY <1>1, <1>2, <1>3

Avoids(numbers, n) == \A i \in DOMAIN numbers : numbers[i] # n

\* What was sent stays sent.
LEMMA SentStays ==
  ASSUME NEW S, NEW old \in Seq(S), NEW more \in Seq(S), NEW n, Avoids(old \o more, n)
  PROVE  Avoids(old, n) /\ Avoids(more, n)
<1>1. /\ Len(old) \in Nat /\ Len(more) \in Nat /\ DOMAIN old = 1 .. Len(old)
      /\ DOMAIN more = 1 .. Len(more) /\ DOMAIN (old \o more) = 1 .. Len(old) + Len(more)
      /\ \A i \in 1 .. Len(old) + Len(more) :
           (old \o more)[i] = IF i <= Len(old) THEN old[i] ELSE more[i - Len(old)]
  BY LenProperties, ConcatProperties
<1>2. ASSUME NEW i \in DOMAIN old PROVE old[i] # n
  <2>1. i \in 1 .. Len(old) + Len(more) /\ i <= Len(old)
    BY <1>1
  <2> QED
    BY <1>1, <2>1 DEF Avoids
<1>3. ASSUME NEW i \in DOMAIN more PROVE more[i] # n
  <2> DEFINE k == Len(old) + i
  <2>1. k \in 1 .. Len(old) + Len(more) /\ ~ (k <= Len(old)) /\ k - Len(old) = i
    BY <1>1
  <2> QED
    BY <1>1, <2>1 DEF Avoids
<1> QED
  BY <1>2, <1>3 DEF Avoids

\* Giving a datagram to the interface loses none.
LEMMA SendKeeps ==
  ASSUME IInv, Ordered, NEW hop \in Hop, Send(hop), NEW n, Gone(n)'
  PROVE  Gone(n)
<1> DEFINE N == Len(given)
           m == N + 1
<1>1. N \in Nat /\ DOMAIN given = 1 .. N /\ DOMAIN given' = 1 .. m
  <2>1. given' = Append(given, hop) /\ given \in Seq(Hop) /\ N \in Nat
    BY SendEffect, OrderParts
  <2>2. given' \in Seq(Hop) /\ Len(given') = m
    BY <2>1, AppendProperties
  <2> HIDE DEF N
  <2> QED
    BY <2>1, <2>2, LenProperties DEF N
<1>2. sent \in Seq(1 .. m) /\ <<m>> \in Seq(1 .. m) /\ m \in 1 .. m
  <2>1. Seq(1 .. N) \subseteq Seq(1 .. m)
    BY <1>1
  <2> QED
    BY <1>1, <2>1, OrderParts
<1> HIDE DEF N, m
<1>3. CASE sent' = sent \o <<m>> /\ queue' = queue
  <2>1. /\ \A i \in DOMAIN sent : sent[i] # n
        /\ n # m
    <3>1. Avoids(sent', n)
      BY GoneNowhere DEF Avoids
    <3> DEFINE one == <<m>>
    <3>2. one \in Seq(1 .. m) /\ 1 \in DOMAIN one /\ one[1] = m
      BY <1>2
    <3>3. sent' = sent \o one
      BY <1>3
    <3> HIDE DEF one
    <3>4. Avoids(sent, n) /\ Avoids(one, n)
      BY <1>2, <3>1, <3>2, <3>3, SentStays
    <3> QED
      BY <3>2, <3>4 DEF Avoids
  <2>2. n \in DOMAIN given
    BY <1>1, <2>1, GoneNowhere DEF m
  <2> QED
    BY <1>3, <2>1, <2>2, StillWaiting, GoneNowhere
<1>4. CASE /\ sent' = sent
           /\ DOMAIN queue' = DOMAIN queue \cup {hop}
           /\ queue'[hop] = Append(WaitingFor(nic, hop), m)
           /\ \A h \in DOMAIN queue : h # hop => queue'[h] = queue[h]
  <2> DEFINE W == WaitingFor(nic, hop)
             b == Len(W)
  <2>1. /\ DOMAIN W = 1 .. b /\ b \in Nat /\ queue'[hop] = Append(W, m)
        /\ DOMAIN Append(W, m) = 1 .. b + 1 /\ Append(W, m)[b + 1] = m
        /\ \A j \in 1 .. b : Append(W, m)[j] = W[j]
    <3>1. W \in Seq(1 .. m)
      <4>1. W \in Seq(1 .. N) /\ Seq(1 .. N) \subseteq Seq(1 .. m)
        BY <1>1, WaitingType DEF N, m
      <4> QED
        BY <4>1
    <3> HIDE DEF W
    <3>2. b \in Nat /\ DOMAIN W = 1 .. b
      BY <3>1, LenProperties
    <3> HIDE DEF b
    <3>3. /\ Append(W, m) \in Seq(1 .. m) /\ Len(Append(W, m)) = b + 1 /\ Append(W, m)[b + 1] = m
          /\ \A j \in 1 .. b : Append(W, m)[j] = W[j]
      BY <1>2, <3>1, AppendProperties DEF b
    <3> QED
      BY <1>4, <3>2, <3>3, LenProperties DEF W
  <2>2. hop \in DOMAIN queue => W = queue[hop]
    BY DEF WaitingFor, queue
  <2> HIDE DEF W, b
  <2>3. n # m
    <3>1. b + 1 \in DOMAIN queue'[hop] /\ queue'[hop][b + 1] = m /\ hop \in DOMAIN queue'
      BY <1>4, <2>1
    <3> QED
      BY <3>1, GoneNowhere
  <2>4. n \in DOMAIN given /\ \A i \in DOMAIN sent : sent[i] # n
    BY <1>1, <1>4, <2>3, GoneNowhere DEF m
  <2>5. SUFFICES ASSUME ~ Gone(n) PROVE FALSE
    OBVIOUS
  <2>6. PICK h \in DOMAIN queue : h \in Hop /\ \E j \in DOMAIN queue[h] : queue[h][j] = n
    BY <2>4, <2>5, StillWaiting
  <2>7. PICK j \in DOMAIN queue[h] : queue[h][j] = n
    BY <2>6
  <2>8. j \in DOMAIN queue'[h] /\ queue'[h][j] = n /\ h \in DOMAIN queue'
    <3>1. CASE h = hop
      <4>1. j \in 1 .. b /\ W[j] = n /\ j \in 1 .. b + 1
        BY <2>1, <2>2, <2>7, <3>1
      <4> QED
        BY <1>4, <2>1, <3>1, <4>1
    <3>2. CASE h # hop
      BY <1>4, <2>7, <3>2
    <3> QED
      BY <3>1, <3>2
  <2> QED
    BY <2>6, <2>8, GoneNowhere
<1> QED
  BY <1>3, <1>4, SendEffect, OrderParts DEF m, N

\* Nor does an ARP message.
LEMMA ArpKeeps ==
  ASSUME IInv, Ordered, NEW arp \in ArpMessages, NEW dst \in Destinations, ReceiveArp(arp, dst),
         NEW n, Gone(n)'
  PROVE  Gone(n)
<1>1. given' = given /\ n \in DOMAIN given
  BY ArpSends, GoneNowhere
<1>2. CASE sent' = sent \o <<>> /\ queue' = queue
  BY <1>1, <1>2, OrderParts, StillWaiting, GoneNowhere
<1>3. CASE /\ sent' = sent \o WaitingFor(nic, arp.sender_ip)
           /\ queue' = [h \in DOMAIN queue \ {arp.sender_ip} |-> queue[h]]
  <2> DEFINE from == arp.sender_ip
             W == WaitingFor(nic, from)
             S == 1 .. Len(given)
  <2>1. sent \in Seq(S) /\ W \in Seq(S)
    BY OrderParts, WaitingType
  <2>2. from \in DOMAIN queue => W = queue[from]
    BY DEF WaitingFor, queue
  <2>3. /\ queue' = [h \in DOMAIN queue \ {from} |-> queue[h]]
        /\ sent' = sent \o W
    BY <1>3
  <2> HIDE DEF from, W, S
  <2>4. (\A i \in DOMAIN sent : sent[i] # n) /\ (\A i \in DOMAIN W : W[i] # n)
    <3>1. Avoids(sent \o W, n)
      BY <2>3, GoneNowhere DEF Avoids
    <3>2. Avoids(sent, n) /\ Avoids(W, n)
      BY <2>1, <3>1, SentStays
    <3> QED
      BY <3>2 DEF Avoids
  <2>5. SUFFICES ASSUME ~ Gone(n) PROVE FALSE
    OBVIOUS
  <2>6. PICK h \in DOMAIN queue : h \in Hop /\ \E j \in DOMAIN queue[h] : queue[h][j] = n
    BY <1>1, <2>4, <2>5, StillWaiting
  <2>7. h # from
    BY <2>2, <2>4, <2>6
  <2> QED
    BY <2>3, <2>6, <2>7, GoneNowhere
<1> QED
  BY <1>2, <1>3, ArpSends

\* A datagram is given up only when no answer for its hop came in time.
THEOREM DropsOnlyOverdue == Spec => DroppedOnlyOverdue
<1> DEFINE Kept == \A n \in 1 .. MaxDatagrams :
       ~ Gone(n) /\ Gone(n)' => requested'[given'[n]] = RequestTimeout
<1>1. IInv /\ Ordered /\ [Next]_vars => [Kept]_vars
  <2> SUFFICES ASSUME IInv, Ordered, Next, NEW n \in 1 .. MaxDatagrams, ~ Gone(n), Gone(n)'
               PROVE  requested'[given'[n]] = RequestTimeout
    OBVIOUS
  <2>1. ~ \E hop \in Hop : Send(hop)
    BY SendKeeps
  <2>2. ~ \E arp \in ArpMessages, dst \in Destinations : ReceiveArp(arp, dst)
    BY ArpKeeps
  <2>3. ~ \/ TakeReceived
          \/ \E src \in Ethernet, dst \in Destinations, payload \in {0, Garbled} :
               ReceiveIPv4(src, dst, payload)
    <3> SUFFICES ASSUME \/ TakeReceived
                        \/ \E src \in Ethernet, dst \in Destinations, payload \in {0, Garbled} :
                             ReceiveIPv4(src, dst, payload)
                 PROVE  FALSE
      OBVIOUS
    <3>1. queue' = queue /\ given' = given /\ sent' = sent
      BY ReceivedEffect, OtherSends, OrderParts, Types
    <3> QED
      BY <3>1, StillWaiting, GoneNowhere
  <2>4. PICK ms \in TickLengths : Tick(ms)
    BY <2>1, <2>2, <2>3 DEF Next, TickSome
  <2>5. /\ queue' = [h \in DOMAIN queue \ Overdue(nic, ms) |-> queue[h]]
        /\ given' = given /\ sent' = sent
        /\ requested' = [h \in Hop |-> Capped(requested[h] + ms, RequestTimeout)]
    BY <2>4, TickEffect, Types DEF Tick
  <2>6. PICK h \in DOMAIN queue : h \in Hop /\ given[n] = h /\ \E j \in DOMAIN queue[h] : queue[h][j] = n
    BY <2>5, StillWaiting, GoneNowhere
  <2>7. h \in Overdue(nic, ms)
    BY <2>5, <2>6, GoneNowhere
  <2>8. requested[h] + ms >= RequestTimeout /\ requested[h] \in 0 .. RequestTimeout /\ ms \in Nat
    BY <2>6, <2>7, Types, InterfaceAssumption DEF Overdue, IInv, RequestsTracked, asked
  <2>9. requested'[h] = RequestTimeout
    BY <2>5, <2>6, <2>8, TimesAssumption DEF Capped
  <2> QED
    BY <2>5, <2>6, <2>9
<1>2. Spec => []Ordered
  BY InitOrdered, StaysOrdered, InductiveInvariant, PTL DEF Spec
<1> QED
  BY <1>1, <1>2, InductiveInvariant, PTL DEF Spec, DroppedOnlyOverdue
=============================================================================
