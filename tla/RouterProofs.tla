---------------------------- MODULE RouterProofs ----------------------------
(***************************************************************************)
(* A router, for every network of interfaces, every set of routes and every *)
(* order of what happens to it: the table answers every lookup with a       *)
(* longest match; datagrams that come by one interface and go on to one     *)
(* next hop keep their order; each goes by a best route; and none is lost   *)
(* but where the code means to drop it.                                     *)
(***************************************************************************)
EXTENDS Router, TLAPS, WellFoundedInduction, SequenceTheorems

-----------------------------------------------------------------------------
\* A set of positions that is not empty has a first one, so the first match in
\* the table (router.cc:48-65) is well defined.
LEMMA FirstExists ==
  ASSUME NEW S \in SUBSET Nat, S # {}
  PROVE  \E i \in S : \A j \in S : i <= j
<1>1. PICK i \in S : \A j \in S : ~ (<<j, i>> \in OpToRel(<, Nat))
  BY NatLessThanWellFounded, WFMin
<1>2. \A j \in S : ~ (j < i)
  BY <1>1 DEF OpToRel
<1> QED
  BY <1>2

\* A set of numbers with 0 and the successor of each of its members has all.
LEMMA SetInduction ==
  ASSUME NEW T, 0 \in T, \A n \in Nat : n \in T => n + 1 \in T
  PROVE  Nat \subseteq T
<1> SUFFICES ASSUME NEW n \in Nat, n \notin T PROVE FALSE
  OBVIOUS
<1> DEFINE D == Nat \ T
<1>1. D \in SUBSET Nat /\ D # {}
  OBVIOUS
<1>2. PICK k \in D : \A i \in D : k <= i
  BY <1>1, FirstExists
<1>3. k \in Nat /\ k \notin T /\ k # 0
  BY <1>2
<1>4. k - 1 \in Nat /\ k - 1 < k /\ (k - 1) + 1 = k
  BY <1>3
<1>5. k - 1 \in T
  BY <1>2, <1>4
<1> QED
  BY <1>3, <1>4, <1>5

Doubles(g, n) == g \in [0 .. n -> Nat \ {0}] /\ g[0] = 1 /\ \A k \in 1 .. n : g[k] = 2 * g[k - 1]

\* The powers of two up to the n-th.
LEMMA DoublesExists ==
  \A n \in Nat : \E g : Doubles(g, n)
<1> DEFINE T == { n \in Nat : \E g : Doubles(g, n) }
<1>1. 0 \in T
  <2>1. Doubles([k \in 0 .. 0 |-> 1], 0)
    BY DEF Doubles
  <2> QED
    BY <2>1
<1>2. ASSUME NEW n \in Nat, n \in T PROVE n + 1 \in T
  <2>1. PICK g : Doubles(g, n)
    BY <1>2
  <2> DEFINE h == [k \in 0 .. n + 1 |-> IF k = n + 1 THEN 2 * g[n] ELSE g[k]]
  <2>2. Doubles(h, n + 1)
    <3>1. h \in [0 .. n + 1 -> Nat \ {0}]
      <4>1. n \in 0 .. n /\ \A k \in 0 .. n + 1 : k # n + 1 => k \in 0 .. n
        OBVIOUS
      <4>2. \A k \in 0 .. n : g[k] \in Nat \ {0}
        BY <2>1 DEF Doubles
      <4> QED
        BY <4>1, <4>2
    <3>2. h[0] = 1
      BY <2>1 DEF Doubles
    <3>3. ASSUME NEW k \in 1 .. n + 1 PROVE h[k] = 2 * h[k - 1]
      <4>1. k \in 0 .. n + 1 /\ k - 1 \in 0 .. n + 1 /\ k - 1 # n + 1
        OBVIOUS
      <4>2. k # n + 1 => k \in 1 .. n
        OBVIOUS
      <4>3. h[k - 1] = g[k - 1]
        BY <4>1
      <4>4. CASE k = n + 1
        <5>1. k - 1 = n
          BY <4>4
        <5> QED
          BY <4>1, <4>3, <4>4, <5>1
      <4>5. CASE k # n + 1
        BY <2>1, <4>1, <4>2, <4>3, <4>5 DEF Doubles
      <4> QED
        BY <4>4, <4>5
    <3> QED
      BY <3>1, <3>2, <3>3 DEF Doubles
  <2> QED
    BY <2>2
<1> HIDE DEF T
<1>3. Nat \subseteq T
  BY <1>1, <1>2, SetInduction
<1> QED
  BY <1>3 DEF T

\* The values of two such functions agree where both are defined.
LEMMA DoublesUnique ==
  ASSUME NEW m \in Nat, NEW n \in Nat, m <= n, NEW g, NEW h, Doubles(g, m), Doubles(h, n)
  PROVE  g[m] = h[m]
<1> DEFINE T == { k \in Nat : k <= m => g[k] = h[k] }
<1>1. 0 \in T
  BY DEF Doubles
<1>2. ASSUME NEW k \in Nat, k \in T PROVE k + 1 \in T
  <2> SUFFICES ASSUME k + 1 <= m PROVE g[k + 1] = h[k + 1]
    OBVIOUS
  <2>1. k + 1 \in 1 .. m /\ k + 1 \in 1 .. n /\ (k + 1) - 1 = k
    OBVIOUS
  <2>2. g[k] = h[k]
    BY <1>2
  <2> QED
    BY <2>1, <2>2 DEF Doubles
<1> HIDE DEF T
<1>3. Nat \subseteq T
  BY <1>1, <1>2, SetInduction
<1> QED
  BY <1>3 DEF T

\* The function TwoTo is what its definition says.
LEMMA TwoToFacts ==
  /\ TwoTo[0] = 1
  /\ \A n \in Nat : TwoTo[n] \in Nat \ {0} /\ TwoTo[n + 1] = 2 * TwoTo[n]
<1> DEFINE some(n) == CHOOSE g : Doubles(g, n)
           f == [n \in Nat |-> some(n)[n]]
           Body(t) == [n \in Nat |-> IF n = 0 THEN 1 ELSE 2 * t[n - 1]]
<1>1. \A n \in Nat : Doubles(some(n), n)
  BY DoublesExists
<1>2. f[0] = 1 /\ \A n \in Nat : f[n] \in Nat \ {0}
  <2> HIDE DEF some
  <2>1. 0 \in Nat /\ \A n \in Nat : n \in 0 .. n
    OBVIOUS
  <2>2. some(0)[0] = 1 /\ \A n \in Nat : some(n)[n] \in Nat \ {0}
    BY <1>1, <2>1 DEF Doubles
  <2> QED
    BY <2>2
<1>3. ASSUME NEW n \in Nat, n # 0 PROVE f[n] = 2 * f[n - 1]
  <2>1. n - 1 \in Nat /\ n - 1 <= n /\ n \in 1 .. n
    BY <1>3
  <2>2. some(n)[n] = 2 * some(n)[n - 1]
    BY <1>1, <2>1 DEF Doubles
  <2>3. some(n - 1)[n - 1] = some(n)[n - 1]
    <3>1. Doubles(some(n - 1), n - 1) /\ Doubles(some(n), n)
      BY <1>1, <2>1
    <3> HIDE DEF some
    <3> QED
      BY <2>1, <3>1, DoublesUnique
  <2> HIDE DEF some
  <2> QED
    BY <2>1, <2>2, <2>3
<1> HIDE DEF some
<1>4. f = Body(f)
  <2>1. \A n \in Nat : f[n] = Body(f)[n]
    BY <1>2, <1>3
  <2> QED
    BY <2>1
<1>5. TwoTo = CHOOSE t : t = Body(t)
  BY Zenon DEF TwoTo
<1> HIDE DEF f
<1>6. TwoTo = Body(TwoTo)
  <2> HIDE DEF Body
  <2> QED
    BY <1>4, <1>5
<1> DEFINE T == { n \in Nat : TwoTo[n] \in Nat \ {0} }
<1>7. TwoTo[0] = 1
  BY <1>6
<1>8. \A n \in Nat : TwoTo[n + 1] = 2 * TwoTo[n]
  <2> SUFFICES ASSUME NEW n \in Nat PROVE TwoTo[n + 1] = 2 * TwoTo[n]
    OBVIOUS
  <2>1. n + 1 \in Nat /\ n + 1 # 0 /\ (n + 1) - 1 = n
    OBVIOUS
  <2>2. TwoTo[n + 1] = Body(TwoTo)[n + 1]
    BY <1>6
  <2> QED
    BY <2>1, <2>2
<1>9. 0 \in T /\ \A n \in Nat : n \in T => n + 1 \in T
  BY <1>7, <1>8
<1> HIDE DEF T
<1>10. Nat \subseteq T
  BY <1>9, SetInduction
<1> QED
  BY <1>7, <1>8, <1>10 DEF T

-----------------------------------------------------------------------------
(* Prefixes *)

\* Division, with the facts that determine it.
LEMMA DivMod ==
  ASSUME NEW a \in Nat, NEW w \in Nat \ {0}
  PROVE  /\ a \div w \in Nat /\ a % w \in 0 .. w - 1
         /\ a = w * (a \div w) + (a % w)
  BY SMT

\* A number between w * q and the next multiple of w has the quotient q.
LEMMA DivUnique ==
  ASSUME NEW w \in Nat \ {0}, NEW q \in Nat, NEW a \in Nat, w * q <= a, a < w * q + w
  PROVE  a \div w = q
  BY SMT

\* A number from its i-th bit on is its (i+1)-st bit on, and that bit.
LEMMA OneMoreBit ==
  ASSUME NEW a \in Nat, NEW i \in Nat
  PROVE  /\ a \div TwoTo[i] \in Nat /\ Bit(a, i) \in {0, 1}
         /\ a \div TwoTo[i] = 2 * (a \div TwoTo[i + 1]) + Bit(a, i)
<1> DEFINE w == TwoTo[i]
           q == a \div w
           b == q % 2
<1>1. w \in Nat \ {0} /\ TwoTo[i + 1] = 2 * w
  BY TwoToFacts
<1> HIDE DEF w
<1>2. q \in Nat /\ w * q <= a /\ a < w * q + w
  <2>1. q \in Nat /\ a % w \in 0 .. w - 1 /\ a = w * q + (a % w)
    BY <1>1, DivMod
  <2>2. w * q \in Nat
    BY <1>1, <2>1
  <2> DEFINE wq == w * q
             r  == a % w
  <2> HIDE DEF q, wq, r
  <2> QED
    BY <1>1, <2>1, <2>2 DEF wq, r
<1>3. 2 \in Nat \ {0}
  OBVIOUS
<1> DEFINE h == q \div 2
<1>4. h \in Nat /\ b \in {0, 1} /\ q = 2 * h + b
  <2> HIDE DEF q
  <2> QED
    BY <1>2, <1>3, DivMod
<1> HIDE DEF q, h, b
<1>5. a \div (2 * w) = h
  <2>1. 2 * w \in Nat \ {0}
    BY <1>1
  <2>2. w * q = (2 * w) * h + w * b
    BY <1>1, <1>4
  <2>3. w * b \in Nat /\ w * b <= w
    BY <1>1, <1>4
  <2> DEFINE v == 2 * w
             m == v * h
             wq == w * q
             wb == w * b
  <2>4. m \in Nat
    BY <1>1, <1>4
  <2>7. wq \in Nat
    BY <1>1, <1>2
  <2>5. m <= a
    <3> HIDE DEF m, wq, wb
    <3> QED BY <1>2, <2>2, <2>3, <2>4, <2>7 DEF m, wq, wb
  <2>6. a < m + v
    <3>1. wq <= m + w /\ a < wq + w
      <4> HIDE DEF m, wq, wb
      <4> QED BY <1>1, <1>2, <2>2, <2>3, <2>4, <2>7 DEF m, wq, wb
    <3> HIDE DEF m, wq
    <3> QED BY <1>1, <2>4, <2>7, <3>1
  <2> HIDE DEF v
  <2> QED
    BY <1>4, <2>1, <2>5, <2>6, DivUnique DEF v
<1> QED
  BY <1>1, <1>2, <1>4, <1>5 DEF Bit, w, q, b

\* Two addresses that agree in their bits from the m-th on are in the same
\* block of size 2^m, and only those.
LEMMA BitsAreBlock ==
  ASSUME NEW a \in IPAddress, NEW b \in IPAddress
  PROVE  \A k \in 0 .. AddressBits :
           (\A i \in AddressBits - k .. AddressBits - 1 : Bit(a, i) = Bit(b, i))
             <=> a \div TwoTo[AddressBits - k] = b \div TwoTo[AddressBits - k]
<1> DEFINE B == AddressBits
           Agree(k) == \A i \in B - k .. B - 1 : Bit(a, i) = Bit(b, i)
           T == { k \in Nat : k <= B => (Agree(k) <=> a \div TwoTo[B - k] = b \div TwoTo[B - k]) }
<1>1. B \in Nat /\ TwoTo[B] \in Nat \ {0} /\ a \in Nat /\ b \in Nat /\ a < TwoTo[B] /\ b < TwoTo[B]
  BY AddressAssumption, TwoToFacts DEF IPAddress
<1>2. 0 \in T
  <2>1. a \div TwoTo[B] = 0 /\ b \div TwoTo[B] = 0
    <3> DEFINE w == TwoTo[B]
    <3>1. w * 0 = 0 /\ w \in Nat \ {0} /\ a < w /\ b < w
      BY <1>1
    <3> HIDE DEF w
    <3>2. 0 \in Nat /\ w * 0 <= a /\ w * 0 <= b /\ a < w * 0 + w /\ b < w * 0 + w
      BY <1>1, <3>1
    <3>3. a \div w = 0 /\ b \div w = 0
      BY <1>1, <3>1, <3>2, DivUnique
    <3> QED
      BY <3>3 DEF w
  <2>2. Agree(0) /\ B - 0 = B
    BY <1>1
  <2> QED
    BY <2>1, <2>2
<1>3. ASSUME NEW k \in Nat, k \in T PROVE k + 1 \in T
  <2> SUFFICES ASSUME k + 1 <= B
               PROVE  Agree(k + 1) <=> a \div TwoTo[B - (k + 1)] = b \div TwoTo[B - (k + 1)]
    OBVIOUS
  <2> DEFINE m == B - (k + 1)
             am == a \div TwoTo[m]
             bm == b \div TwoTo[m]
             an == a \div TwoTo[m + 1]
             bn == b \div TwoTo[m + 1]
  <2>1. m \in Nat /\ m + 1 = B - k /\ k <= B
    BY <1>1
  <2>2. Agree(k) <=> an = bn
    BY <1>3, <2>1
  <2>3. Agree(k + 1) <=> Agree(k) /\ Bit(a, m) = Bit(b, m)
    <3>1. \A i \in B - (k + 1) .. B - 1 : i = m \/ i \in B - k .. B - 1
      BY <1>1
    <3>2. m \in B - (k + 1) .. B - 1 /\ \A i \in B - k .. B - 1 : i \in B - (k + 1) .. B - 1
      BY <1>1, <2>1
    <3> QED
      BY <3>1, <3>2
  <2>4. /\ am = 2 * an + Bit(a, m) /\ bm = 2 * bn + Bit(b, m)
        /\ Bit(a, m) \in {0, 1} /\ Bit(b, m) \in {0, 1}
    BY <1>1, <2>1, OneMoreBit
  <2>5. an \in Nat /\ bn \in Nat
    <3>1. m + 1 \in Nat
      BY <2>1
    <3> HIDE DEF m
    <3> QED
      BY <1>1, <3>1, OneMoreBit
  <2> DEFINE x == Bit(a, m)
             y == Bit(b, m)
  <2>6. am = bm <=> an = bn /\ x = y
    <3> HIDE DEF am, bm, an, bn, x, y
    <3> QED BY <2>4, <2>5 DEF x, y
  <2> QED
    BY <2>2, <2>3, <2>6
<1> HIDE DEF T
<1>4. \A k \in Nat : k \in T
  BY <1>2, <1>3, SetInduction
<1> QED
  BY <1>1, <1>4 DEF T

\* The comparison of bits (router.cc:48-60) finds the addresses that the prefix
\* of a route covers.
LEMMA MatchesIsCovers ==
  ASSUME NEW route \in Routes, NEW dst \in IPAddress
  PROVE  Matches(route, dst) <=> Covers(route, dst)
<1>1. route.prefix \in IPAddress /\ route.prefix_length \in 0 .. AddressBits
  BY RouterAssumption
<1>2. /\ \A i \in AddressBits - route.prefix_length .. AddressBits - 1 :
           Bit(route.prefix, i) = Bit(dst, i)
      <=> route.prefix \div TwoTo[AddressBits - route.prefix_length]
            = dst \div TwoTo[AddressBits - route.prefix_length]
  BY <1>1, BitsAreBlock
<1> QED
  BY <1>2 DEF Matches, Covers, BlockSize

-----------------------------------------------------------------------------
(* The routing table *)

InTable(table) == { table[i] : i \in DOMAIN table }

\* The table holds exactly the routes added, sorted.
TableInv ==
  /\ routes \in Seq(Routes)
  /\ LongestFirst(routes)
  /\ InTable(routes) = added

\* In a sorted table the first match is as long as any other: why route() may
\* stop at it (router.cc:63).
LEMMA FirstIsLongest ==
  ASSUME NEW R, \A r \in R : r.prefix_length \in Nat,
         NEW table \in Seq(R), LongestFirst(table), NEW dst
  PROVE  LET matching == { r \in InTable(table) : Matches(r, dst) }
         IN  IF matching = {} THEN RouteFor(table, dst) = NoRoute
                              ELSE RouteFor(table, dst) \in Longest(matching)
<1> DEFINE at == { i \in DOMAIN table : Matches(table[i], dst) }
           first == CHOOSE i \in at : \A j \in at : i <= j
           matching == { r \in InTable(table) : Matches(r, dst) }
<1>1. matching = { table[i] : i \in at }
  BY DEF InTable
<1>2. RouteFor(table, dst) = IF at = {} THEN NoRoute ELSE table[first]
  BY DEF RouteFor
<1>3. CASE at = {}
  BY <1>1, <1>2, <1>3
<1>4. CASE at # {}
  <2>1. at \in SUBSET Nat
    OBVIOUS
  <2>2. first \in at /\ \A j \in at : first <= j
    <3>1. \E i \in at : \A j \in at : i <= j
      BY <1>4, <2>1, FirstExists
    <3> HIDE DEF at
    <3> QED
      BY <3>1
  <2>3. \A j \in at : table[j].prefix_length <= table[first].prefix_length
    <3> SUFFICES ASSUME NEW j \in at
                 PROVE  table[j].prefix_length <= table[first].prefix_length
      OBVIOUS
    <3>1. j \in DOMAIN table /\ first \in DOMAIN table /\ first <= j
      BY <2>2
    <3>2. table[j] \in R /\ table[first] \in R /\ j \in Nat /\ first \in Nat
      BY <3>1
    <3>3. first = j \/ first < j
      BY <3>1, <3>2
    <3> HIDE DEF first, at
    <3> QED
      BY <3>1, <3>2, <3>3 DEF LongestFirst
  <2> HIDE DEF first, at
  <2> QED
    BY <1>1, <1>2, <1>4, <2>2, <2>3 DEF Longest
<1> QED
  BY <1>3, <1>4

\* add_route() keeps the table sorted and loses no route (router.cc:20-25).
LEMMA AddKeepsTable ==
  ASSUME NEW R, NEW table \in Seq(R), NEW route \in R,
         NEW next \in WithRoute(table, route)
  PROVE  /\ next \in Seq(R)
         /\ LongestFirst(next)
         /\ InTable(next) = InTable(table) \cup {route}
<1> DEFINE longer == Append(table, route)
           D == DOMAIN longer
<1>1. longer \in Seq(R) /\ D = 1 .. Len(table) + 1
      /\ longer[Len(table) + 1] = route /\ \A i \in DOMAIN table : longer[i] = table[i]
  OBVIOUS
<1>2. PICK p \in Bijection(D, D) : next = [i \in D |-> longer[p[i]]]
  BY DEF WithRoute, Arrangements
<1>3. p \in [D -> D] /\ \A j \in D : \E i \in D : p[i] = j
  BY <1>2 DEF Bijection, Surjection
<1>4. InTable(longer) = InTable(table) \cup {route}
  BY <1>1 DEF InTable
<1> HIDE DEF longer
<1>5. next \in Seq(R)
  <2>1. next \in [1 .. Len(table) + 1 -> R]
    BY <1>1, <1>2, <1>3
  <2> QED
    BY <2>1
<1>6. InTable(next) = InTable(longer)
  BY <1>2, <1>3 DEF InTable
<1> QED
  BY <1>4, <1>5, <1>6 DEF WithRoute

\* No step but add_route() changes the table.
LEMMA TableStep ==
  ASSUME TableInv, [Next]_vars
  PROVE  TableInv'
<1>1. CASE AddSome
  <2>1. PICK route \in Routes \ added : AddRoute(route)
    BY <1>1 DEF AddSome
  <2> QED
    BY <2>1, AddKeepsTable DEF TableInv, AddRoute
<1>2. CASE UNCHANGED <<routes, added>>
  BY <1>2 DEF TableInv
<1>3. ASSUME NEW n \in Interface, NEW dst \in Destinations, NEW ttl \in Lifetimes,
             Arrive(n, dst, ttl)
      PROVE  UNCHANGED <<routes, added>>
  BY <1>3 DEF Arrive, Receives
<1>4. ASSUME NEW n \in Interface, NEW hop \in Neighbour, Answer(n, hop)
      PROVE  UNCHANGED <<routes, added>>
  BY <1>4 DEF Answer, Receives
<1>5. Route \/ Tick \/ UNCHANGED vars => UNCHANGED <<routes, added>>
  BY DEF Route, Tick, vars
<1> QED
  BY <1>1, <1>2, <1>3, <1>4, <1>5 DEF Next

\* Every lookup finds a longest match among all the routes ever added.
THEOREM LookupIsLongest == Spec => []LongestPrefix
<1>1. Init => TableInv
  BY DEF Init, TableInv, LongestFirst, InTable
<1>2. TableInv /\ [Next]_vars => TableInv'
  BY TableStep
<1>3. TableInv => LongestPrefix
  <2> SUFFICES ASSUME TableInv, NEW dst \in IPAddress
               PROVE  IF Matching(dst) = {} THEN RouteFor(routes, dst) = NoRoute
                                            ELSE RouteFor(routes, dst) \in Longest(Matching(dst))
    BY DEF LongestPrefix
  <2>1. \A r \in Routes : r.prefix_length \in Nat
    BY RouterAssumption, AddressAssumption
  <2> QED
    BY <2>1, FirstIsLongest DEF TableInv, Matching
<1> QED
  BY <1>1, <1>2, <1>3, PTL DEF Spec

-----------------------------------------------------------------------------
(* The values of the members of an interface *)

\* The values of the members of an interface.
Datagram == [id : Nat, dst : IPAddress, ttl : Nat]

PartialTo(V) == UNION { [S -> V] : S \in SUBSET IPAddress }
Mapping == [ethernet : IPAddress, age : Nat]
Mappings == PartialTo(Mapping)
Timestamps == PartialTo(Nat)
Queues == PartialTo(Seq(Datagram))

NicRecord ==
  [ethernet_address : IPAddress, ip_address : IPAddress, cache : Mappings,
   arp_timestamps : Timestamps, datagram_q : Queues, datagrams_received : Seq(Datagram)]

ArpPayload ==
  [opcode : {"request", "reply"}, sender_ethernet : IPAddress, sender_ip : IPAddress,
   target_ethernet : IPAddress \cup {NoAddress}, target_ip : IPAddress]

FrameRecord ==
  [dst : IPAddress \cup {Broadcast}, src : IPAddress, type : {"ARP"}, payload : ArpPayload]
    \cup [dst : IPAddress, src : IPAddress, type : {"IPv4"}, payload : Datagram]

\* What holds of the n-th interface: a neighbour has the Ethernet address that
\* is its IP address, and nothing waits for an address that is known.
NicOf(n, nic) ==
  /\ nic \in NicRecord
  /\ nic.ethernet_address = OwnAddress[n]
  /\ \A h \in DOMAIN nic.cache : nic.cache[h].ethernet = h
  /\ DOMAIN nic.cache \cap DOMAIN nic.datagram_q = {}

\* All that goes to a next hop, and its order.
Going(frames, waiting, hop) == Left(frames, hop) \cup Range(waiting)

Turn(arr, a, b) == arr[a.id].at = arr[b.id].at => a.id < b.id

Order(frames, waiting, hop, arr) ==
  /\ \A j, k \in DOMAIN frames :
       j < k /\ IsFor(frames[j], hop) /\ IsFor(frames[k], hop)
         => Turn(arr, frames[j].payload, frames[k].payload)
  /\ \A j, k \in DOMAIN waiting : j < k => Turn(arr, waiting[j], waiting[k])
  /\ \A d \in Left(frames, hop), e \in Range(waiting) : Turn(arr, d, e)

-----------------------------------------------------------------------------
(* Functions on some of the addresses *)

\* A function on some addresses, and its domain and values.
LEMMA PartialIn ==
  ASSUME NEW V, NEW S \in SUBSET IPAddress, NEW f \in [S -> V]
  PROVE  f \in PartialTo(V)
BY DEF PartialTo

\* A partial function has keys that are addresses and its values in its range.
LEMMA PartialFacts ==
  ASSUME NEW V, NEW f \in PartialTo(V)
  PROVE  /\ DOMAIN f \in SUBSET IPAddress
         /\ f \in [DOMAIN f -> V]
BY DEF PartialTo

\* So is the function with the value of one key replaced or added.
LEMMA UpdatedPartial ==
  ASSUME NEW V, NEW f \in PartialTo(V), NEW key \in IPAddress, NEW v \in V
  PROVE  Updated(f, key, v) \in PartialTo(V)
<1> DEFINE g == Updated(f, key, v)
           S == DOMAIN f \cup {key}
<1>1. g = [k \in S |-> IF k = key THEN v ELSE f[k]]
  BY DEF Updated
<1> HIDE DEF g
<1>2. S \in SUBSET IPAddress /\ f \in [DOMAIN f -> V]
  BY PartialFacts
<1>3. g \in [S -> V]
  BY <1>1, <1>2
<1>4. g \in PartialTo(V)
  BY <1>2, <1>3, PartialIn
<1> QED
  BY <1>4 DEF g

\* What waits for a hop is a sequence of datagrams.
LEMMA QueueFacts ==
  ASSUME NEW nic \in NicRecord, NEW hop \in IPAddress
  PROVE  /\ WaitingFor(nic, hop) \in Seq(Datagram)
         /\ hop \notin DOMAIN nic.datagram_q => WaitingFor(nic, hop) = <<>>
<1>1. nic.datagram_q \in PartialTo(Seq(Datagram))
  BY DEF NicRecord, Queues
<1>2. <<>> \in Seq(Datagram)
  BY EmptySeq
<1> QED
  BY <1>1, <1>2, PartialFacts DEF WaitingFor

-----------------------------------------------------------------------------
(* The order of what goes to a hop *)

\* The datagrams among the frames of two bursts.
LEMMA LeftConcat ==
  ASSUME NEW R, NEW a \in Seq(R), NEW b \in Seq(R), NEW hop
  PROVE  Left(a \o b, hop) = Left(a, hop) \cup Left(b, hop)
<1> DEFINE m == Len(a)
           n == Len(b)
           c == a \o b
<1>1. /\ m \in Nat /\ n \in Nat /\ DOMAIN c = 1 .. m + n
      /\ DOMAIN a = 1 .. m /\ DOMAIN b = 1 .. n
      /\ \A k \in 1 .. m : c[k] = a[k] /\ k \in 1 .. m + n
      /\ \A k \in 1 .. n : c[m + k] = b[k] /\ m + k \in 1 .. m + n
      /\ \A k \in 1 .. m + n : k \in 1 .. m \/ (k - m \in 1 .. n /\ k = m + (k - m))
  BY ConcatProperties, LenProperties
<1> HIDE DEF m, n, c
<1>2. ASSUME NEW k \in DOMAIN c, IsFor(c[k], hop)
      PROVE  c[k].payload \in Left(a, hop) \cup Left(b, hop)
  <2>1. CASE k \in 1 .. m
    BY <1>1, <1>2, <2>1 DEF Left
  <2>2. CASE k - m \in 1 .. n /\ k = m + (k - m)
    <3>1. c[k] = b[k - m] /\ k - m \in DOMAIN b
      BY <1>1, <2>2
    <3> QED
      BY <1>2, <3>1 DEF Left
  <2> QED
    BY <1>1, <2>1, <2>2
<1>3. ASSUME NEW k \in DOMAIN a, IsFor(a[k], hop) PROVE a[k].payload \in Left(c, hop)
  <2>1. k \in DOMAIN c /\ c[k] = a[k]
    BY <1>1
  <2> QED
    BY <1>3, <2>1 DEF Left
<1>4. ASSUME NEW k \in DOMAIN b, IsFor(b[k], hop) PROVE b[k].payload \in Left(c, hop)
  <2>1. m + k \in DOMAIN c /\ c[m + k] = b[k]
    BY <1>1
  <2> QED
    BY <1>4, <2>1 DEF Left
<1>5. Left(c, hop) \subseteq Left(a, hop) \cup Left(b, hop)
  BY <1>2 DEF Left
<1>6. Left(a, hop) \subseteq Left(c, hop) /\ Left(b, hop) \subseteq Left(c, hop)
  BY <1>3, <1>4 DEF Left
<1> QED
  BY <1>5, <1>6 DEF c

\* A burst keeps the order when all of it is in turn after what went before.
LEMMA OrderConcat ==
  ASSUME NEW R, NEW a \in Seq(R), NEW b \in Seq(R), NEW hop, NEW w, NEW w2, NEW arr,
         Order(a, w, hop, arr), Order(b, w2, hop, arr),
         \A d \in Left(a, hop), e \in Going(b, w2, hop) : Turn(arr, d, e)
  PROVE  Order(a \o b, w2, hop, arr)
<1> DEFINE m == Len(a)
           n == Len(b)
           c == a \o b
<1>1. /\ m \in Nat /\ n \in Nat /\ DOMAIN c = 1 .. m + n
      /\ DOMAIN a = 1 .. m /\ DOMAIN b = 1 .. n
      /\ \A k \in 1 .. m : c[k] = a[k]
      /\ \A k \in 1 .. n : c[m + k] = b[k]
  BY ConcatProperties, LenProperties
<1>2. Left(c, hop) = Left(a, hop) \cup Left(b, hop)
  BY LeftConcat
<1> HIDE DEF m, n, c
<1>3. ASSUME NEW j \in DOMAIN c, NEW k \in DOMAIN c, j < k, IsFor(c[j], hop), IsFor(c[k], hop)
      PROVE  Turn(arr, c[j].payload, c[k].payload)
  <2>1. CASE k <= m
    <3>1. j \in DOMAIN a /\ k \in DOMAIN a /\ c[j] = a[j] /\ c[k] = a[k]
      BY <1>1, <1>3, <2>1
    <3> QED
      BY <1>3, <3>1 DEF Order
  <2>2. CASE ~ (k <= m) /\ j <= m
    <3>1. j \in DOMAIN a /\ c[j] = a[j] /\ k - m \in DOMAIN b /\ c[k] = b[k - m]
      <4>1. k - m \in 1 .. n /\ m + (k - m) = k
        BY <1>1, <1>3, <2>2
      <4>2. j \in 1 .. m
        BY <1>1, <1>3, <2>2
      <4> QED
        BY <1>1, <4>1, <4>2
    <3>2. c[j].payload \in Left(a, hop) /\ c[k].payload \in Left(b, hop)
      BY <1>3, <3>1 DEF Left
    <3> QED
      BY <3>2 DEF Going
  <2>3. CASE ~ (j <= m)
    <3>1. j - m \in 1 .. n /\ m + (j - m) = j /\ k - m \in 1 .. n /\ m + (k - m) = k
          /\ j - m < k - m
      BY <1>1, <1>3, <2>3
    <3>2. c[j] = b[j - m] /\ c[k] = b[k - m] /\ j - m \in DOMAIN b /\ k - m \in DOMAIN b
      BY <1>1, <3>1
    <3> QED
      BY <1>3, <3>1, <3>2 DEF Order
  <2> QED
    BY <2>1, <2>2, <2>3
<1>4. \A j, k \in DOMAIN w2 : j < k => Turn(arr, w2[j], w2[k])
  BY DEF Order
<1>5. \A d \in Left(c, hop), e \in Range(w2) : Turn(arr, d, e)
  BY <1>2 DEF Order, Going
<1> QED
  BY <1>3, <1>4, <1>5 DEF Order, c

\* Frames of which none is for the hop do not matter to it.
LEMMA OrderOther ==
  ASSUME NEW R, NEW a \in Seq(R), NEW b \in Seq(R), NEW hop, NEW w, NEW arr,
         Order(a, w, hop, arr), Left(b, hop) = {}
  PROVE  Order(a \o b, w, hop, arr)
<1>1. \A k \in DOMAIN b : ~ IsFor(b[k], hop)
  BY DEF Left
<1>2. Order(b, w, hop, arr)
  BY <1>1 DEF Order
<1>3. \A d \in Left(a, hop), e \in Going(b, w, hop) : Turn(arr, d, e)
  BY DEF Order, Going
<1> QED
  BY <1>2, <1>3, OrderConcat

\* A datagram that has to wait goes last.
LEMMA WaitsLast ==
  ASSUME NEW a, NEW w \in Seq(Datagram), NEW d \in Datagram, NEW hop, NEW arr,
         Order(a, w, hop, arr), \A e \in Going(a, w, hop) : Turn(arr, e, d)
  PROVE  /\ Order(a, Append(w, d), hop, arr)
         /\ Range(Append(w, d)) = Range(w) \cup {d}
<1> DEFINE n == Len(w)
           x == Append(w, d)
<1>1. /\ n \in Nat /\ DOMAIN w = 1 .. n /\ DOMAIN x = 1 .. n + 1
      /\ x[n + 1] = d /\ \A k \in 1 .. n : x[k] = w[k]
  BY AppendProperties, LenProperties
<1> HIDE DEF n, x
<1>2. \A k \in 1 .. n + 1 : k \in 1 .. n \/ k = n + 1
  BY <1>1
<1>3. Range(x) = Range(w) \cup {d}
  BY <1>1, <1>2 DEF Range
<1>4. ASSUME NEW j \in DOMAIN x, NEW k \in DOMAIN x, j < k PROVE Turn(arr, x[j], x[k])
  <2>1. j \in 1 .. n
    BY <1>1, <1>4
  <2>2. CASE k \in 1 .. n
    BY <1>1, <1>4, <2>1, <2>2 DEF Order
  <2>3. CASE k = n + 1
    BY <1>1, <2>1, <2>3 DEF Going, Range
  <2> QED
    BY <1>1, <1>2, <2>2, <2>3
<1>5. \A e \in Left(a, hop) : Turn(arr, e, d)
  BY DEF Going
<1> QED
  BY <1>3, <1>4, <1>5 DEF Order, x

-----------------------------------------------------------------------------
(* send_datagram() *)

\* The datagrams among no frame and one.
LEMMA LeftFew ==
  ASSUME NEW hop
  PROVE  /\ Left(<<>>, hop) = {}
         /\ \A f : Left(<<f>>, hop) = IF IsFor(f, hop) THEN {f.payload} ELSE {}
<1>1. Left(<<>>, hop) = {}
  BY DEF Left
<1>2. ASSUME NEW f PROVE Left(<<f>>, hop) = IF IsFor(f, hop) THEN {f.payload} ELSE {}
  <2> DEFINE s == <<f>>
  <2>1. DOMAIN s = {1} /\ s[1] = f
    OBVIOUS
  <2> HIDE DEF s
  <2>2. Left(s, hop) = IF IsFor(f, hop) THEN {f.payload} ELSE {}
    BY <2>1 DEF Left
  <2> QED
    BY <2>2 DEF s
<1> QED
  BY <1>1, <1>2

\* The empty sequence and a sequence of one element.
LEMMA FewInSeq ==
  ASSUME NEW R
  PROVE  /\ <<>> \in Seq(R)
         /\ \A f \in R : <<f>> \in Seq(R)
BY EmptySeq

\* The datagram goes out at once, with nothing before it, or joins what waits
\* for its hop.
Sending(nic, datagram, hop, step) ==
  \/ /\ WaitingFor(nic, hop) = <<>> /\ step.nic = nic
     /\ \E f \in FrameRecord : step.out = <<f>> /\ IsFor(f, hop) /\ f.payload = datagram
  \/ /\ WaitingFor(step.nic, hop) = Append(WaitingFor(nic, hop), datagram)
     /\ \A h \in IPAddress : Left(step.out, h) = {}
     /\ \A h \in IPAddress : h # hop => WaitingFor(step.nic, h) = WaitingFor(nic, h)

\* send_datagram() sends the datagram or queues it (network_interface.cc:40-80).
LEMMA SendEffect ==
  ASSUME NEW n \in Interface, NEW nic, NicOf(n, nic), NEW d \in Datagram, NEW hop \in IPAddress
  PROVE  LET step == SendDatagram(nic, d, hop)
         IN  /\ NicOf(n, step.nic) /\ step.out \in Seq(FrameRecord)
             /\ step.nic.datagrams_received = nic.datagrams_received
             /\ Sending(nic, d, hop, step)
<1> DEFINE step == SendDatagram(nic, d, hop)
           waited == WaitingFor(nic, hop)
           q == Updated(nic.datagram_q, hop, Append(waited, d))
           queued == Enqueue(nic, d, hop)
           t == Updated(nic.arp_timestamps, hop, 0)
           asked == NoteRequest(queued, hop)
           f == Frame(nic, nic.cache[hop].ethernet, "IPv4", d)
           g == Frame(nic, Broadcast, "ARP", ArpRequest(nic, hop))
<1>1. /\ nic \in NicRecord /\ nic.datagram_q \in Queues /\ nic.arp_timestamps \in Timestamps
      /\ nic.cache \in Mappings /\ nic.ethernet_address \in IPAddress
      /\ nic.ip_address \in IPAddress
  BY DEF NicOf, NicRecord
<1>2. waited \in Seq(Datagram) /\ (hop \notin DOMAIN nic.datagram_q => waited = <<>>)
  BY <1>1, QueueFacts
<1>3. CASE hop \in DOMAIN nic.cache
  <2>1. step = [nic |-> nic, out |-> <<f>>]
    BY <1>3 DEF SendDatagram
  <2>2. f = [dst |-> hop, src |-> nic.ethernet_address, type |-> "IPv4", payload |-> d]
    BY <1>3 DEF Frame, NicOf
  <2> HIDE DEF f
  <2>3. f \in FrameRecord /\ IsFor(f, hop) /\ f.payload = d
    BY <1>1, <2>2 DEF FrameRecord, IsFor
  <2>4. <<f>> \in Seq(FrameRecord)
    BY <2>3, FewInSeq
  <2>5. waited = <<>>
    BY <1>2, <1>3 DEF NicOf
  <2> HIDE DEF step
  <2>6. step.nic = nic /\ step.out = <<f>>
    BY <2>1
  <2>7. Sending(nic, d, hop, step)
    BY <2>3, <2>5, <2>6 DEF Sending
  <2> QED
    BY <2>4, <2>6, <2>7 DEF step
<1>4. CASE hop \notin DOMAIN nic.cache
  <2>1. \/ step = [nic |-> asked, out |-> <<g>>]
        \/ step = [nic |-> queued, out |-> <<>>]
    BY <1>4 DEF SendDatagram
  <2> HIDE DEF step
  <2>2. Append(waited, d) \in Seq(Datagram)
    BY <1>2, AppendProperties
  <2>3. /\ q \in Queues /\ DOMAIN q = DOMAIN nic.datagram_q \cup {hop}
        /\ q[hop] = Append(waited, d)
        /\ \A h \in DOMAIN nic.datagram_q : h # hop => q[h] = nic.datagram_q[h]
    <3> DEFINE old == nic.datagram_q
               more == Append(waited, d)
    <3>1. old \in PartialTo(Seq(Datagram)) /\ more \in Seq(Datagram)
      BY <1>1, <2>2 DEF Queues
    <3>2. q = Updated(old, hop, more)
      OBVIOUS
    <3> HIDE DEF waited, old, more, q
    <3>3. q \in PartialTo(Seq(Datagram))
      BY <3>1, <3>2, UpdatedPartial
    <3>4. /\ DOMAIN q = DOMAIN old \cup {hop} /\ q[hop] = more
          /\ \A h \in DOMAIN old : h # hop => q[h] = old[h]
      BY <3>2 DEF Updated
    <3> QED
      BY <3>3, <3>4 DEF Queues, old, more
  <2>4. t \in Timestamps
    BY <1>1, UpdatedPartial DEF Timestamps
  <2>5. queued = [nic EXCEPT !.datagram_q = q]
    BY <1>1 DEF Enqueue, NicRecord
  <2> HIDE DEF q, t, queued
  <2>6. /\ queued \in NicRecord /\ queued.datagram_q = q /\ queued.cache = nic.cache
        /\ queued.ethernet_address = nic.ethernet_address
        /\ queued.datagrams_received = nic.datagrams_received
        /\ queued.arp_timestamps = nic.arp_timestamps
    BY <1>1, <2>3, <2>5 DEF NicRecord
  <2>7. asked = [queued EXCEPT !.arp_timestamps = t]
    BY <2>6 DEF NoteRequest, NicRecord, t
  <2> HIDE DEF asked
  <2>8. /\ asked \in NicRecord /\ asked.datagram_q = q /\ asked.cache = nic.cache
        /\ asked.ethernet_address = nic.ethernet_address
        /\ asked.datagrams_received = nic.datagrams_received
    BY <2>4, <2>6, <2>7 DEF NicRecord
  <2>9. /\ step.nic \in NicRecord /\ step.nic.datagram_q = q /\ step.nic.cache = nic.cache
        /\ step.nic.ethernet_address = nic.ethernet_address
        /\ step.nic.datagrams_received = nic.datagrams_received
    BY <2>1, <2>6, <2>8
  <2>10. NicOf(n, step.nic)
    BY <1>4, <2>3, <2>9 DEF NicOf
  <2>11. g \in FrameRecord /\ \A h : ~ IsFor(g, h)
    <3>1. g = [dst |-> Broadcast, src |-> nic.ethernet_address, type |-> "ARP",
               payload |-> ArpRequest(nic, hop)]
      BY DEF Frame
    <3>2. ArpRequest(nic, hop) \in ArpPayload
      BY <1>1 DEF ArpRequest, ArpPayload
    <3> HIDE DEF g
    <3> QED
      BY <1>1, <3>1, <3>2 DEF FrameRecord, IsFor
  <2> HIDE DEF g
  <2>12. step.out \in Seq(FrameRecord) /\ \A h : Left(step.out, h) = {}
    <3>1. step.out = <<g>> \/ step.out = <<>>
      BY <2>1
    <3>2. <<g>> \in Seq(FrameRecord) /\ <<>> \in Seq(FrameRecord)
      BY <2>11, FewInSeq
    <3>3. \A h : Left(<<g>>, h) = {} /\ Left(<<>>, h) = {}
      BY <2>11, LeftFew
    <3> QED
      BY <3>1, <3>2, <3>3
  <2>13. WaitingFor(step.nic, hop) = Append(waited, d)
    BY <2>3, <2>9 DEF WaitingFor
  <2>14. ASSUME NEW h \in IPAddress, h # hop PROVE WaitingFor(step.nic, h) = WaitingFor(nic, h)
    BY <2>3, <2>9, <2>14 DEF WaitingFor
  <2>15. Sending(nic, d, hop, step)
    BY <2>12, <2>13, <2>14 DEF Sending
  <2> QED
    BY <2>9, <2>10, <2>12, <2>15 DEF step
<1> QED
  BY <1>3, <1>4

-----------------------------------------------------------------------------
(* recv_frame() *)

\* The neighbour has answered: all that waited for it goes out.
Answered(nic, hop, step) ==
  /\ WaitingFor(step.nic, hop) = <<>>
  /\ \A h \in IPAddress : h # hop => WaitingFor(step.nic, h) = WaitingFor(nic, h)
  /\ Len(step.out) = Len(WaitingFor(nic, hop))
  /\ \A k \in DOMAIN step.out :
       /\ \A h : IsFor(step.out[k], h) <=> h = hop
       /\ step.out[k].payload = WaitingFor(nic, hop)[k]

Nothing(nic, step) == step.nic = nic /\ step.out = <<>>

\* An ARP reply for us teaches the address of its sender, and flushes its queue
\* (network_interface.cc:98-147).
LEMMA AnswerEffect ==
  ASSUME NEW n \in Interface, NEW nic, NicOf(n, nic), NEW hop \in IPAddress,
         NEW arp, arp \in ArpPayload, arp.opcode = "reply", arp.sender_ip = hop,
         arp.sender_ethernet = hop,
         NEW frame, frame.type = "ARP", frame.payload = arp
  PROVE  LET step == RecvFrame(nic, frame)
         IN  /\ NicOf(n, step.nic) /\ step.out \in Seq(FrameRecord)
             /\ step.nic.datagrams_received = nic.datagrams_received
             /\ Nothing(nic, step) \/ Answered(nic, hop, step)
<1> DEFINE step == RecvFrame(nic, frame)
           waited == WaitingFor(nic, hop)
           new == [ethernet |-> hop, age |-> 0]
           c == Updated(nic.cache, hop, new)
           q == NotWaitingFor(nic, {hop})
           went == [i \in DOMAIN waited |-> Frame(nic, hop, "IPv4", waited[i])]
           learnt == [nic EXCEPT !.cache = c]
           got == [learnt EXCEPT !.datagram_q = q]
<1>1. /\ nic \in NicRecord /\ nic.datagram_q \in Queues /\ nic.cache \in Mappings
      /\ nic.ethernet_address \in IPAddress
  BY DEF NicOf, NicRecord
<1>2. waited \in Seq(Datagram)
  BY <1>1, QueueFacts
<1>3. \/ step = [nic |-> nic, out |-> <<>>]
      \/ step = [nic |-> got, out |-> went \o <<>>]
  <2>1. step = [nic |-> nic, out |-> <<>>] \/ step = RecvArp(nic, arp)
    BY DEF RecvFrame
  <2>2. RecvArp(nic, arp) = [nic |-> [Learn(nic, arp) EXCEPT !.datagram_q = q],
                             out |-> went \o <<>>]
    BY DEF RecvArp
  <2>3. Learn(nic, arp) = learnt
    BY <1>1 DEF Learn, NicRecord
  <2> QED
    BY <2>1, <2>2, <2>3
<1> HIDE DEF step
<1>4. CASE step = [nic |-> nic, out |-> <<>>]
  <2>1. step.nic = nic /\ step.out = <<>> /\ <<>> \in Seq(FrameRecord)
    BY <1>4, FewInSeq
  <2> QED
    BY <2>1 DEF Nothing, step
<1>5. CASE step = [nic |-> got, out |-> went \o <<>>]
  <2> DEFINE m == Len(waited)
  <2>1. m \in Nat /\ DOMAIN waited = 1 .. m /\ \A i \in 1 .. m : waited[i] \in Datagram
    BY <1>2, LenProperties, ElementOfSeq
  <2> HIDE DEF waited, m
  <2>2. \A i \in 1 .. m : went[i] = [dst |-> hop, src |-> nic.ethernet_address,
                                     type |-> "IPv4", payload |-> waited[i]]
    BY <2>1 DEF Frame
  <2>3. \A i \in 1 .. m : went[i] \in FrameRecord /\ went[i].payload = waited[i]
                          /\ \A h : IsFor(went[i], h) <=> h = hop
    <3> SUFFICES ASSUME NEW i \in 1 .. m
                 PROVE  went[i] \in FrameRecord /\ went[i].payload = waited[i]
                        /\ \A h : IsFor(went[i], h) <=> h = hop
      OBVIOUS
    <3> DEFINE s == went[i]
    <3>1. s = [dst |-> hop, src |-> nic.ethernet_address, type |-> "IPv4", payload |-> waited[i]]
      BY <2>2
    <3> HIDE DEF s
    <3>2. waited[i] \in Datagram
      BY <2>1
    <3>3. s \in FrameRecord
      BY <1>1, <3>1, <3>2 DEF FrameRecord
    <3>4. \A h : IsFor(s, h) <=> h = hop
      BY <3>1 DEF IsFor
    <3>5. s.payload = waited[i]
      BY <3>1
    <3> QED
      BY <3>3, <3>4, <3>5 DEF s
  <2>4. went = [i \in 1 .. m |-> went[i]]
    BY <2>1
  <2> HIDE DEF went
  <2>5. went \in Seq(FrameRecord) /\ Len(went) = m /\ DOMAIN went = 1 .. m
    <3>1. went \in [1 .. m -> FrameRecord]
      BY <2>3, <2>4
    <3> QED
      BY <2>1, <3>1, SeqDef, LenProperties
  <2>6. went \o <<>> = went
    BY <2>5
  <2>7. c \in Mappings /\ DOMAIN c = DOMAIN nic.cache \cup {hop} /\ c[hop] = new
        /\ \A h \in DOMAIN nic.cache : h # hop => c[h] = nic.cache[h]
    <3>1. new \in Mapping
      BY DEF Mapping
    <3> DEFINE old == nic.cache
    <3>2. old \in PartialTo(Mapping) /\ c = Updated(old, hop, new)
      BY <1>1 DEF Mappings
    <3> HIDE DEF new, old, c
    <3>3. c \in PartialTo(Mapping)
      BY <3>1, <3>2, UpdatedPartial
    <3>4. /\ DOMAIN c = DOMAIN old \cup {hop} /\ c[hop] = new
          /\ \A h \in DOMAIN old : h # hop => c[h] = old[h]
      BY <3>2 DEF Updated
    <3> QED
      BY <3>3, <3>4 DEF Mappings, old
  <2>8. /\ q \in Queues /\ DOMAIN q = DOMAIN nic.datagram_q \ {hop}
        /\ \A h \in DOMAIN q : q[h] = nic.datagram_q[h]
    <3> DEFINE S == DOMAIN nic.datagram_q \ {hop}
    <3>1. q = [h \in S |-> nic.datagram_q[h]]
      BY DEF NotWaitingFor
    <3>2. S \in SUBSET IPAddress /\ nic.datagram_q \in [DOMAIN nic.datagram_q -> Seq(Datagram)]
      BY <1>1, PartialFacts DEF Queues
    <3> HIDE DEF q
    <3>3. q \in [S -> Seq(Datagram)]
      BY <3>1, <3>2
    <3>4. q \in Queues
      BY <3>2, <3>3, PartialIn DEF Queues
    <3> QED
      BY <3>1, <3>4
  <2>9. new.ethernet = hop
    OBVIOUS
  <2> HIDE DEF c, q, new
  <2>10. /\ learnt \in NicRecord /\ learnt.cache = c /\ learnt.datagram_q = nic.datagram_q
         /\ learnt.ethernet_address = nic.ethernet_address
         /\ learnt.datagrams_received = nic.datagrams_received
    BY <1>1, <2>7 DEF NicRecord
  <2> HIDE DEF learnt
  <2>11. /\ got \in NicRecord /\ got.cache = c /\ got.datagram_q = q
         /\ got.ethernet_address = nic.ethernet_address
         /\ got.datagrams_received = nic.datagrams_received
    BY <2>8, <2>10 DEF NicRecord
  <2> HIDE DEF got
  <2>12. step.nic = got /\ step.out = went
    BY <1>5, <2>6
  <2>13. NicOf(n, got)
    <3>1. \A h \in DOMAIN c : c[h].ethernet = h
      BY <2>7, <2>9 DEF NicOf
    <3>2. DOMAIN c \cap DOMAIN q = {}
      BY <2>7, <2>8 DEF NicOf
    <3> QED
      BY <2>11, <3>1, <3>2 DEF NicOf
  <2>14. WaitingFor(got, hop) = <<>>
    BY <2>8, <2>11 DEF WaitingFor
  <2>15. \A h \in IPAddress : h # hop => WaitingFor(got, h) = WaitingFor(nic, h)
    BY <2>8, <2>11 DEF WaitingFor
  <2>16. Answered(nic, hop, step)
    BY <2>3, <2>5, <2>12, <2>14, <2>15 DEF Answered, waited, m
  <2> QED
    BY <2>5, <2>11, <2>12, <2>13, <2>16 DEF step
<1> QED
  BY <1>3, <1>4, <1>5

\* A datagram for us is kept until route() takes it.
LEMMA ArrivalEffect ==
  ASSUME NEW n \in Interface, NEW nic, NicOf(n, nic), NEW d \in Datagram,
         NEW frame, frame.type = "IPv4", frame.payload = d, frame.dst = OwnAddress[n]
  PROVE  LET step == RecvFrame(nic, frame)
         IN  /\ NicOf(n, step.nic) /\ step.out = <<>>
             /\ step.nic.datagrams_received = Append(nic.datagrams_received, d)
             /\ step.nic.datagram_q = nic.datagram_q
<1> DEFINE r == Append(nic.datagrams_received, d)
           got == [nic EXCEPT !.datagrams_received = r]
<1>1. nic \in NicRecord /\ nic.datagrams_received \in Seq(Datagram)
      /\ nic.ethernet_address = OwnAddress[n]
  BY DEF NicOf, NicRecord
<1>2. d # Garbled
  BY RouterAssumption DEF Datagram
<1>3. RecvFrame(nic, frame) = [nic |-> got, out |-> <<>>]
  BY <1>1, <1>2 DEF RecvFrame, Ours, NicRecord
<1>4. r \in Seq(Datagram)
  BY <1>1, AppendProperties
<1> HIDE DEF r
<1>5. /\ got \in NicRecord /\ got.datagrams_received = r /\ got.datagram_q = nic.datagram_q
      /\ got.cache = nic.cache /\ got.ethernet_address = nic.ethernet_address
  BY <1>1, <1>4 DEF NicRecord
<1> HIDE DEF got
<1>6. NicOf(n, got)
  BY <1>5 DEF NicOf
<1> QED
  BY <1>3, <1>5, <1>6 DEF r

-----------------------------------------------------------------------------
(* tick() *)

\* tick() forgets old addresses and, of what waits, exactly what is overdue
\* (network_interface.cc:150-182).
LEMMA TickEffect ==
  ASSUME NEW n \in Interface, NEW nic, NicOf(n, nic)
  PROVE  LET new == InterfaceTick(nic, 1)
         IN  /\ NicOf(n, new) /\ new.datagrams_received = nic.datagrams_received
             /\ \A h \in IPAddress :
                  WaitingFor(new, h) = IF h \in Overdue(nic, 1) THEN <<>> ELSE WaitingFor(nic, h)
<1> DEFINE new == InterfaceTick(nic, 1)
           c == AgeCache(nic.cache, 1)
           q == NotWaitingFor(nic, Overdue(nic, 1))
           t == AgeRequests(nic.arp_timestamps, 1)
<1>1. /\ nic \in NicRecord /\ nic.datagram_q \in Queues /\ nic.cache \in Mappings
      /\ nic.arp_timestamps \in Timestamps
  BY DEF NicOf, NicRecord
<1>2. new = [nic EXCEPT !.cache = c, !.datagram_q = q, !.arp_timestamps = t]
  BY <1>1 DEF InterfaceTick, NicRecord
<1> HIDE DEF new
<1>3. /\ c \in Mappings /\ DOMAIN c \subseteq DOMAIN nic.cache
      /\ \A h \in DOMAIN c : c[h].ethernet = nic.cache[h].ethernet
  <2> DEFINE S == { h \in DOMAIN nic.cache : nic.cache[h].age + 1 < MappingLifetime }
  <2>1. S \in SUBSET IPAddress /\ nic.cache \in [DOMAIN nic.cache -> Mapping]
    BY <1>1, PartialFacts DEF Mappings
  <2>2. c = [h \in S |-> [nic.cache[h] EXCEPT !.age = @ + 1]]
    BY DEF AgeCache
  <2>3. S \subseteq DOMAIN nic.cache
    OBVIOUS
  <2> HIDE DEF c, S
  <2>4. ASSUME NEW h \in S
        PROVE  c[h] \in Mapping /\ c[h].ethernet = nic.cache[h].ethernet
    <3>1. nic.cache[h] \in Mapping
      BY <2>1, <2>3
    <3>2. c[h] = [nic.cache[h] EXCEPT !.age = @ + 1]
      BY <2>2
    <3> QED
      BY <3>1, <3>2 DEF Mapping
  <2>5. c \in [S -> Mapping] /\ DOMAIN c = S
    BY <2>2, <2>4
  <2>6. c \in Mappings
    BY <2>1, <2>5, PartialIn DEF Mappings
  <2> QED
    BY <2>3, <2>4, <2>5, <2>6
<1>4. /\ q \in Queues /\ DOMAIN q = DOMAIN nic.datagram_q \ Overdue(nic, 1)
      /\ \A h \in DOMAIN q : q[h] = nic.datagram_q[h]
  <2> DEFINE S == DOMAIN nic.datagram_q \ Overdue(nic, 1)
  <2>1. q = [h \in S |-> nic.datagram_q[h]]
    BY DEF NotWaitingFor
  <2>2. S \in SUBSET IPAddress /\ nic.datagram_q \in [DOMAIN nic.datagram_q -> Seq(Datagram)]
    BY <1>1, PartialFacts DEF Queues
  <2> HIDE DEF q
  <2>3. q \in [S -> Seq(Datagram)]
    BY <2>1, <2>2
  <2>4. q \in Queues
    BY <2>2, <2>3, PartialIn DEF Queues
  <2> QED
    BY <2>1, <2>4
<1>5. t \in Timestamps
  <2> DEFINE S == { h \in DOMAIN nic.arp_timestamps : nic.arp_timestamps[h] + 1 < RequestTimeout }
  <2>1. S \in SUBSET IPAddress /\ nic.arp_timestamps \in [DOMAIN nic.arp_timestamps -> Nat]
    BY <1>1, PartialFacts DEF Timestamps
  <2>2. t = [h \in S |-> nic.arp_timestamps[h] + 1]
    BY DEF AgeRequests
  <2>3. S \subseteq DOMAIN nic.arp_timestamps
    OBVIOUS
  <2> HIDE DEF t, S
  <2>4. t \in [S -> Nat]
    BY <2>1, <2>2, <2>3
  <2> QED
    BY <2>1, <2>4, PartialIn DEF Timestamps
<1> HIDE DEF c, q, t
<1>6. /\ new \in NicRecord /\ new.cache = c /\ new.datagram_q = q
      /\ new.ethernet_address = nic.ethernet_address
      /\ new.datagrams_received = nic.datagrams_received
  BY <1>1, <1>2, <1>3, <1>4, <1>5 DEF NicRecord
<1>7. NicOf(n, new)
  BY <1>3, <1>4, <1>6 DEF NicOf
<1>8. \A h \in IPAddress :
        WaitingFor(new, h) = IF h \in Overdue(nic, 1) THEN <<>> ELSE WaitingFor(nic, h)
  BY <1>4, <1>6 DEF WaitingFor
<1> QED
  BY <1>6, <1>7, <1>8 DEF new

-----------------------------------------------------------------------------
(* An interface and all the frames it has transmitted *)

GoingOf(frames, nic, hop) == Going(frames, WaitingFor(nic, hop), hop)

Port(n, frames, nic, arr) ==
  /\ NicOf(n, nic) /\ frames \in Seq(FrameRecord)
  /\ \A h \in IPAddress : Order(frames, WaitingFor(nic, h), h, arr)

AfterAll(arr, set, d) == \A e \in set : Turn(arr, e, d)

\* What the step of sending a datagram gives a port, as one predicate.
PortSent(n, frames, nic, arr, d, hop, step) ==
  /\ Port(n, frames \o step.out, step.nic, arr) /\ step.out \in Seq(FrameRecord)
  /\ step.nic.datagrams_received = nic.datagrams_received
  /\ \A h \in IPAddress :
       GoingOf(frames \o step.out, step.nic, h)
         = GoingOf(frames, nic, h) \cup (IF h = hop THEN {d} ELSE {})

\* A datagram that is in turn after all that goes to its hop keeps the order.
LEMMA PortSends ==
  ASSUME NEW n \in Interface, NEW frames, NEW nic, NEW arr, Port(n, frames, nic, arr),
         NEW d \in Datagram, NEW hop \in IPAddress,
         AfterAll(arr, GoingOf(frames, nic, hop), d),
         NEW step, step = SendDatagram(nic, d, hop)
  PROVE  PortSent(n, frames, nic, arr, d, hop, step)
<1>1. /\ NicOf(n, nic) /\ frames \in Seq(FrameRecord) /\ nic \in NicRecord
      /\ \A h \in IPAddress : Order(frames, WaitingFor(nic, h), h, arr)
  BY DEF Port, NicOf
<1>2. /\ NicOf(n, step.nic) /\ step.out \in Seq(FrameRecord)
      /\ step.nic.datagrams_received = nic.datagrams_received
      /\ Sending(nic, d, hop, step)
  BY <1>1, SendEffect
<1>3. frames \o step.out \in Seq(FrameRecord)
  BY <1>1, <1>2, ConcatProperties
<1>4. \A h \in IPAddress : Left(frames \o step.out, h) = Left(frames, h) \cup Left(step.out, h)
  BY <1>1, <1>2, LeftConcat
<1>5. SUFFICES ASSUME NEW h \in IPAddress
               PROVE  /\ Order(frames \o step.out, WaitingFor(step.nic, h), h, arr)
                      /\ GoingOf(frames \o step.out, step.nic, h)
                           = GoingOf(frames, nic, h) \cup (IF h = hop THEN {d} ELSE {})
  BY <1>2, <1>3 DEF Port, PortSent
<1> DEFINE w == WaitingFor(nic, h)
           x == WaitingFor(step.nic, h)
<1>6. Order(frames, w, h, arr) /\ w \in Seq(Datagram)
  BY <1>1, QueueFacts
<1>7. CASE WaitingFor(nic, hop) = <<>> /\ step.nic = nic
           /\ \E f \in FrameRecord : step.out = <<f>> /\ IsFor(f, hop) /\ f.payload = d
  <2>1. PICK f \in FrameRecord : step.out = <<f>> /\ IsFor(f, hop) /\ f.payload = d
    BY <1>7
  <2>2. IsFor(f, h) <=> h = hop
    BY <2>1 DEF IsFor
  <2>3. Left(step.out, h) = IF h = hop THEN {d} ELSE {}
    BY <2>1, <2>2, LeftFew
  <2>4. x = w
    BY <1>7
  <2>5. GoingOf(frames \o step.out, step.nic, h)
          = GoingOf(frames, nic, h) \cup (IF h = hop THEN {d} ELSE {})
    BY <1>4, <2>3, <2>4 DEF GoingOf, Going
  <2>6. CASE h # hop
    <3>1. Left(step.out, h) = {}
      BY <2>3, <2>6
    <3> HIDE DEF w, x
    <3>2. Order(frames \o step.out, w, h, arr)
      BY <1>1, <1>2, <1>6, <3>1, OrderOther
    <3> QED
      BY <2>4, <2>5, <3>2 DEF w, x
  <2>7. CASE h = hop
    <3>1. w = <<>>
      BY <1>7, <2>7
    <3> HIDE DEF w, x
    <3>2. Order(step.out, w, h, arr)
      <4>1. DOMAIN step.out = {1} /\ DOMAIN w = {} /\ Range(w) = {}
        BY <2>1, <3>1 DEF Range
      <4> QED
        BY <4>1 DEF Order
    <3>3. \A e \in Left(frames, h) : Turn(arr, e, d)
      BY <2>7 DEF AfterAll, GoingOf, Going
    <3>4. Going(step.out, w, h) = {d}
      BY <2>3, <2>7, <3>1 DEF Going, Range
    <3>5. Order(frames \o step.out, w, h, arr)
      BY <1>1, <1>2, <1>6, <3>2, <3>3, <3>4, OrderConcat
    <3> QED
      BY <2>4, <2>5, <3>5 DEF w, x
  <2> QED
    BY <2>6, <2>7
<1>8. CASE /\ WaitingFor(step.nic, hop) = Append(WaitingFor(nic, hop), d)
           /\ \A g \in IPAddress : Left(step.out, g) = {}
           /\ \A g \in IPAddress : g # hop => WaitingFor(step.nic, g) = WaitingFor(nic, g)
  <2>1. Left(step.out, h) = {}
    BY <1>8
  <2>2. Left(frames \o step.out, h) = Left(frames, h)
    BY <1>4, <2>1
  <2>3. Order(frames \o step.out, w, h, arr)
    <3> HIDE DEF w
    <3> QED
      BY <1>1, <1>2, <1>6, <2>1, OrderOther
  <2>4. CASE h # hop
    <3>1. x = w
      BY <1>8, <2>4
    <3>2. GoingOf(frames \o step.out, step.nic, h) = GoingOf(frames, nic, h)
      BY <2>2, <3>1 DEF GoingOf, Going
    <3> QED
      BY <2>3, <2>4, <3>1, <3>2
  <2>5. CASE h = hop
    <3>1. x = Append(w, d)
      BY <1>8, <2>5
    <3> DEFINE all == frames \o step.out
    <3>2. \A e \in Going(all, w, h) : Turn(arr, e, d)
      BY <2>2, <2>5 DEF AfterAll, GoingOf, Going
    <3> HIDE DEF w, x, all
    <3>3. Order(all, Append(w, d), h, arr) /\ Range(Append(w, d)) = Range(w) \cup {d}
      BY <1>6, <2>3, <3>2, WaitsLast DEF all
    <3>4. Going(all, x, h) = Going(frames, w, h) \cup {d}
      BY <2>2, <3>1, <3>3 DEF Going, all
    <3> QED
      BY <2>5, <3>1, <3>3, <3>4 DEF GoingOf, w, x, all
  <2> QED
    BY <2>4, <2>5
<1> QED
  BY <1>2, <1>7, <1>8 DEF Sending

\* The same of all arguments at once, for a proof that holds them as terms.
LEMMA PortSendsAll ==
  \A n \in Interface, d \in Datagram, hop \in IPAddress : \A frames, nic, arr, step :
    Port(n, frames, nic, arr) /\ AfterAll(arr, GoingOf(frames, nic, hop), d)
      /\ step = SendDatagram(nic, d, hop)
    => PortSent(n, frames, nic, arr, d, hop, step)
<1> TAKE n \in Interface, d \in Datagram, hop \in IPAddress
<1> TAKE frames, nic, arr, step
<1> HAVE /\ Port(n, frames, nic, arr) /\ AfterAll(arr, GoingOf(frames, nic, hop), d)
         /\ step = SendDatagram(nic, d, hop)
<1> QED
  BY PortSends, Zenon

\* The answer of a neighbour makes go what waited for it, in its order.
LEMMA PortAnswers ==
  ASSUME NEW n \in Interface, NEW frames, NEW nic, NEW arr, Port(n, frames, nic, arr),
         NEW hop \in IPAddress, NEW step, NicOf(n, step.nic), step.out \in Seq(FrameRecord),
         Nothing(nic, step) \/ Answered(nic, hop, step)
  PROVE  /\ Port(n, frames \o step.out, step.nic, arr)
         /\ \A h \in IPAddress :
              GoingOf(frames \o step.out, step.nic, h) = GoingOf(frames, nic, h)
<1>1. /\ NicOf(n, nic) /\ frames \in Seq(FrameRecord) /\ nic \in NicRecord
      /\ \A h \in IPAddress : Order(frames, WaitingFor(nic, h), h, arr)
  BY DEF Port, NicOf
<1>2. CASE Nothing(nic, step)
  <2>1. frames \o step.out = frames /\ step.nic = nic
    BY <1>1, <1>2, ConcatEmptySeq DEF Nothing
  <2> QED
    BY <2>1
<1>3. CASE Answered(nic, hop, step)
  <2>1. frames \o step.out \in Seq(FrameRecord)
    BY <1>1, ConcatProperties
  <2>2. SUFFICES ASSUME NEW h \in IPAddress
                 PROVE  /\ Order(frames \o step.out, WaitingFor(step.nic, h), h, arr)
                        /\ GoingOf(frames \o step.out, step.nic, h) = GoingOf(frames, nic, h)
    BY <2>1 DEF Port
  <2> DEFINE w == WaitingFor(nic, h)
             x == WaitingFor(step.nic, h)
             out == step.out
  <2>3. Order(frames, w, h, arr) /\ w \in Seq(Datagram)
    BY <1>1, QueueFacts
  <2>4. Left(frames \o out, h) = Left(frames, h) \cup Left(out, h)
    BY <1>1, LeftConcat
  <2>5. CASE h # hop
    <3>1. x = w /\ \A k \in DOMAIN out : ~ IsFor(out[k], h)
      BY <1>3, <2>5 DEF Answered
    <3>2. Left(out, h) = {}
      BY <3>1 DEF Left
    <3>3. Order(frames \o out, w, h, arr)
      <4> HIDE DEF w, out
      <4> QED
        BY <1>1, <2>3, <3>2, OrderOther DEF out
    <3>4. GoingOf(frames \o out, step.nic, h) = GoingOf(frames, nic, h)
      BY <2>4, <3>1, <3>2 DEF GoingOf, Going
    <3> QED
      BY <3>1, <3>3, <3>4
  <2>6. CASE h = hop
    <3>1. /\ x = <<>> /\ Len(out) = Len(w)
          /\ \A k \in DOMAIN out : IsFor(out[k], h) /\ out[k].payload = w[k]
      BY <1>3, <2>6 DEF Answered
    <3>2. DOMAIN out = DOMAIN w /\ out \in Seq(FrameRecord)
      <4>1. DOMAIN out = 1 .. Len(out) /\ DOMAIN w = 1 .. Len(w)
        BY <2>3, LenProperties
      <4> QED
        BY <3>1, <4>1
    <3>3. DOMAIN x = {} /\ Range(x) = {}
      BY <3>1 DEF Range
    <3> HIDE DEF w, x, out
    <3>4. Left(out, h) = Range(w)
      BY <3>1, <3>2 DEF Left, Range
    <3>5. Order(out, x, h, arr)
      BY <2>3, <3>1, <3>2, <3>3 DEF Order
    <3>6. \A d \in Left(frames, h), e \in Going(out, x, h) : Turn(arr, d, e)
      BY <2>3, <3>3, <3>4 DEF Order, Going
    <3>7. Order(frames \o out, x, h, arr)
      BY <1>1, <2>3, <3>2, <3>5, <3>6, OrderConcat
    <3>8. Going(frames \o out, x, h) = Going(frames, w, h)
      BY <2>4, <3>3, <3>4 DEF Going
    <3> QED
      BY <3>7, <3>8 DEF GoingOf, w, x, out
  <2> QED
    BY <2>5, <2>6
<1> QED
  BY <1>2, <1>3

\* tick() takes away what waits for an overdue answer, all of it.
LEMMA PortTicks ==
  ASSUME NEW n \in Interface, NEW frames, NEW nic, NEW arr, Port(n, frames, nic, arr),
         NEW new, new = InterfaceTick(nic, 1)
  PROVE  /\ Port(n, frames, new, arr)
         /\ new.datagrams_received = nic.datagrams_received
         /\ \A h \in IPAddress : GoingOf(frames, new, h) \subseteq GoingOf(frames, nic, h)
<1>1. /\ NicOf(n, nic) /\ frames \in Seq(FrameRecord)
      /\ \A h \in IPAddress : Order(frames, WaitingFor(nic, h), h, arr)
  BY DEF Port
<1>2. /\ NicOf(n, new) /\ new.datagrams_received = nic.datagrams_received
      /\ \A h \in IPAddress :
           WaitingFor(new, h) = IF h \in Overdue(nic, 1) THEN <<>> ELSE WaitingFor(nic, h)
  BY <1>1, TickEffect
<1>3. ASSUME NEW h \in IPAddress
      PROVE  /\ Order(frames, WaitingFor(new, h), h, arr)
             /\ GoingOf(frames, new, h) \subseteq GoingOf(frames, nic, h)
  <2>1. CASE WaitingFor(new, h) = WaitingFor(nic, h)
    BY <1>1, <2>1 DEF GoingOf
  <2>2. CASE WaitingFor(new, h) = <<>>
    <3> DEFINE x == WaitingFor(new, h)
    <3>1. DOMAIN x = {} /\ Range(x) = {}
      BY <2>2 DEF Range
    <3>2. Order(frames, WaitingFor(nic, h), h, arr)
      BY <1>1
    <3> HIDE DEF x
    <3>3. Order(frames, x, h, arr)
      BY <3>1, <3>2 DEF Order
    <3>4. Going(frames, x, h) \subseteq Going(frames, WaitingFor(nic, h), h)
      BY <3>1 DEF Going
    <3> QED
      BY <3>3, <3>4 DEF GoingOf, x
  <2> QED
    BY <1>2, <2>1, <2>2
<1> QED
  BY <1>1, <1>2, <1>3 DEF Port

\* The arrival of a further datagram changes no turn among those before it.
LEMMA PortLater ==
  ASSUME NEW n, NEW frames, NEW nic, NEW arr, Port(n, frames, nic, arr), NEW arr2,
         NEW nic2, NicOf(n, nic2), nic2.datagram_q = nic.datagram_q,
         \A h \in IPAddress : \A d, e \in GoingOf(frames, nic, h) :
           Turn(arr, d, e) => Turn(arr2, d, e)
  PROVE  Port(n, frames, nic2, arr2)
<1>1. ASSUME NEW h \in IPAddress PROVE Order(frames, WaitingFor(nic2, h), h, arr2)
  <2> DEFINE w == WaitingFor(nic, h)
  <2>1. WaitingFor(nic2, h) = w
    BY DEF WaitingFor
  <2>2. Order(frames, w, h, arr)
    BY DEF Port
  <2>3. \A d, e \in Going(frames, w, h) : Turn(arr, d, e) => Turn(arr2, d, e)
    BY DEF GoingOf
  <2> HIDE DEF w
  <2>4. ASSUME NEW j \in DOMAIN frames, NEW k \in DOMAIN frames, j < k,
               IsFor(frames[j], h), IsFor(frames[k], h)
        PROVE  Turn(arr2, frames[j].payload, frames[k].payload)
    <3>1. frames[j].payload \in Left(frames, h) /\ frames[k].payload \in Left(frames, h)
      BY <2>4 DEF Left
    <3> QED
      BY <2>2, <2>3, <2>4, <3>1 DEF Order, Going
  <2>5. ASSUME NEW j \in DOMAIN w, NEW k \in DOMAIN w, j < k PROVE Turn(arr2, w[j], w[k])
    <3>1. w[j] \in Range(w) /\ w[k] \in Range(w)
      BY DEF Range
    <3> QED
      BY <2>2, <2>3, <2>5, <3>1 DEF Order, Going
  <2>6. \A d \in Left(frames, h), e \in Range(w) : Turn(arr2, d, e)
    BY <2>2, <2>3 DEF Order, Going
  <2>7. Order(frames, w, h, arr2)
    BY <2>4, <2>5, <2>6 DEF Order
  <2> QED
    BY <2>1, <2>7
<1> QED
  BY <1>1 DEF Port

-----------------------------------------------------------------------------
(* The loop of route(), one datagram after the other *)

\* The function that the fold is computed with, on the subsets of 1 .. k.
IsFold(it, table, base, seq, k) ==
  it = [s \in SUBSET (1 .. k) |->
          IF s = {} THEN base ELSE Forward(it[s \ {Max(s)}], table, seq[Max(s)])]

\* That function exists, by induction on k.
LEMMA FoldExists ==
  ASSUME NEW table, NEW base, NEW seq
  PROVE  \A k \in Nat : \E it : IsFold(it, table, base, seq, k)
<1> DEFINE T == { k \in Nat : \E it : IsFold(it, table, base, seq, k) }
<1>1. 0 \in T
  <2> DEFINE it0 == [s \in SUBSET (1 .. 0) |-> base]
  <2>1. \A s \in SUBSET (1 .. 0) : s = {}
    OBVIOUS
  <2>2. IsFold(it0, table, base, seq, 0)
    BY <2>1, Zenon DEF IsFold
  <2> QED
    BY <2>2
<1>2. ASSUME NEW k \in Nat, k \in T PROVE k + 1 \in T
  <2>1. PICK it : IsFold(it, table, base, seq, k)
    BY <1>2
  <2> DEFINE new == [s \in SUBSET (1 .. k + 1) |->
                IF k + 1 \in s THEN Forward(it[s \ {k + 1}], table, seq[k + 1]) ELSE it[s]]
             body(s) == IF s = {} THEN base
                        ELSE Forward(new[s \ {Max(s)}], table, seq[Max(s)])
  <2>2. ASSUME NEW s \in SUBSET (1 .. k + 1) PROVE new[s] = body(s)
    <3>1. CASE k + 1 \in s
      <4>1. \A y \in s : y \in Int /\ k + 1 >= y
        OBVIOUS
      <4>2. Max(s) = k + 1
        <5>1. \E z \in s : \A y \in s : z >= y
          BY <3>1, <4>1
        <5>2. Max(s) \in s /\ \A y \in s : Max(s) >= y
          BY <5>1, Zenon DEF Max
        <5> DEFINE m == Max(s)
        <5>3. m \in s /\ m >= k + 1
          BY <3>1, <5>2
        <5> HIDE DEF m
        <5>4. m = k + 1
          BY <4>1, <5>3
        <5> QED
          BY <5>4 DEF m
      <4>3. s \ {k + 1} \in SUBSET (1 .. k + 1) /\ k + 1 \notin s \ {k + 1} /\ s # {}
        BY <3>1
      <4> QED
        BY <3>1, <4>2, <4>3
    <3>2. CASE k + 1 \notin s
      <4>1. s \in SUBSET (1 .. k)
        BY <3>2
      <4>2. it[s] = IF s = {} THEN base ELSE Forward(it[s \ {Max(s)}], table, seq[Max(s)])
        BY <2>1, <4>1, Zenon DEF IsFold
      <4>3. s \ {Max(s)} \in SUBSET (1 .. k + 1) /\ k + 1 \notin s \ {Max(s)}
        BY <3>2
      <4> QED
        BY <3>2, <4>2, <4>3
    <3> QED
      BY <3>1, <3>2
  <2>3. IsFold(new, table, base, seq, k + 1)
    <3>1. new = [s \in SUBSET (1 .. k + 1) |-> body(s)]
      <4>1. new = [s \in SUBSET (1 .. k + 1) |-> new[s]]
        BY Zenon
      <4> HIDE DEF new
      <4> QED
        BY <4>1, <2>2, Zenon
    <3> HIDE DEF new
    <3> QED
      BY <3>1, Zenon DEF IsFold
  <2> QED
    BY <2>3
<1> HIDE DEF T
<1>3. Nat \subseteq T
  BY <1>1, <1>2, SetInduction
<1> QED
  BY <1>3 DEF T

\* g is the history of ports through the loop over the datagrams seq.
ForwardedInTurn(g, nics, table, seq) ==
  /\ g[0] = [interfaces |-> NothingReceived(nics), out |-> Silent(nics)]
  /\ \A k \in 1 .. Len(seq) : g[k] = Forward(g[k - 1], table, seq[k])
  /\ RouteAll(nics, table) = g[Len(seq)]

\* What route() computes is the last of its rounds.
LEMMA RouteAllSteps ==
  ASSUME NEW S, NEW nics, NEW table, table # <<>>, ReceivedBy(nics) \in Seq(S)
  PROVE  \E g : ForwardedInTurn(g, nics, table, ReceivedBy(nics))
<1> DEFINE seq == ReceivedBy(nics)
           n == Len(seq)
           base == [interfaces |-> NothingReceived(nics), out |-> Silent(nics)]
           it == CHOOSE it : it = [s \in SUBSET DOMAIN seq |->
                   IF s = {} THEN base ELSE Forward(it[s \ {Max(s)}], table, seq[Max(s)])]
<1>1. DOMAIN seq = 1 .. n /\ n \in Nat
  OBVIOUS
<1>2. RouteAll(nics, table) = it[DOMAIN seq]
  <2> HIDE DEF Forward
  <2> QED
    BY DEF RouteAll, FoldLeft, MapThenFoldSet
<1> HIDE DEF base, seq
<1>3. IsFold(it, table, base, seq, n)
  <2>1. \E x : IsFold(x, table, base, seq, n)
    BY <1>1, FoldExists
  <2>2. it = CHOOSE x : IsFold(x, table, base, seq, n)
    BY <1>1, Zenon DEF IsFold
  <2> QED
    BY <2>1, <2>2, Zenon
<1> HIDE DEF it
<1> DEFINE g == [k \in 0 .. n |-> it[1 .. k]]
<1>4. g[0] = base
  <2>1. 1 .. 0 = {} /\ {} \in SUBSET (1 .. n) /\ 0 \in 0 .. n
    BY <1>1
  <2>2. it[{}] = base
    BY <1>3, <2>1, Zenon DEF IsFold
  <2> QED
    BY <2>1, <2>2
<1>5. ASSUME NEW k \in 1 .. n PROVE g[k] = Forward(g[k - 1], table, seq[k])
  <2>1. 1 .. k \in SUBSET (1 .. n) /\ 1 .. k # {} /\ (1 .. k) \ {k} = 1 .. k - 1
        /\ k \in 0 .. n /\ k - 1 \in 0 .. n
    <3> HIDE DEF n
    <3>1. k \in 1 .. k /\ k \in Nat /\ k \in 0 .. n /\ k - 1 \in 0 .. n /\ k <= n
      BY <1>1
    <3>2. \A i \in 1 .. k : i \in 1 .. n
      BY <1>1, <3>1
    <3>3. \A i : i \in (1 .. k) \ {k} <=> i \in 1 .. k - 1
      BY <3>1
    <3>4. (1 .. k) \ {k} = 1 .. k - 1
      BY <3>3, Zenon
    <3> QED
      BY <3>1, <3>2, <3>4
  <2>2. Max(1 .. k) = k
    BY DEF Max
  <2>3. it[1 .. k] = Forward(it[(1 .. k) \ {Max(1 .. k)}], table, seq[Max(1 .. k)])
    BY <1>3, <2>1, Zenon DEF IsFold
  <2> QED
    BY <2>1, <2>2, <2>3, Zenon
<1>6. RouteAll(nics, table) = g[n]
  BY <1>1, <1>2
<1> QED
  <2> HIDE DEF g
  <2> QED
    BY <1>4, <1>5, <1>6 DEF ForwardedInTurn, base, seq

-----------------------------------------------------------------------------
(* FlattenSeq, one sequence after the other *)

Flattens(g, seqs, n) ==
  g = [i \in 1 .. n |-> IF i = 1 THEN seqs[i] ELSE g[i - 1] \o seqs[i]]

\* Such a function exists, by induction on n.
LEMMA FlattenExists ==
  ASSUME NEW seqs
  PROVE  \A n \in Nat : \E g : Flattens(g, seqs, n)
<1> DEFINE T == { n \in Nat : \E g : Flattens(g, seqs, n) }
<1>1. 0 \in T
  <2> DEFINE g0 == [i \in 1 .. 0 |-> {}]
  <2>1. \A i \in 1 .. 0 : FALSE
    OBVIOUS
  <2>2. Flattens(g0, seqs, 0)
    BY <2>1, Zenon DEF Flattens
  <2> QED
    BY <2>2
<1>2. ASSUME NEW n \in Nat, n \in T PROVE n + 1 \in T
  <2>1. PICK g : Flattens(g, seqs, n)
    BY <1>2
  <2> DEFINE last == IF n + 1 = 1 THEN seqs[n + 1] ELSE g[n] \o seqs[n + 1]
             h == [i \in 1 .. n + 1 |-> IF i = n + 1 THEN last ELSE g[i]]
             body(i) == IF i = 1 THEN seqs[i] ELSE h[i - 1] \o seqs[i]
  <2>2. ASSUME NEW i \in 1 .. n + 1 PROVE h[i] = body(i)
    <3>1. i # 1 => i - 1 \in 1 .. n + 1 /\ i - 1 # n + 1
      OBVIOUS
    <3>2. i # 1 => h[i - 1] = g[i - 1]
      BY <3>1
    <3>3. CASE i = n + 1
      <4>1. i - 1 = n
        BY <3>3
      <4>2. h[i] = last
        BY <3>3
      <4> HIDE DEF h
      <4> QED
        BY <3>2, <3>3, <4>1, <4>2
    <3>4. CASE i # n + 1
      <4>1. i \in 1 .. n /\ h[i] = g[i]
        BY <3>4
      <4>2. g[i] = IF i = 1 THEN seqs[i] ELSE g[i - 1] \o seqs[i]
        BY <2>1, <4>1, Zenon DEF Flattens
      <4> HIDE DEF h
      <4> QED
        BY <3>2, <4>1, <4>2
    <3> QED
      BY <3>3, <3>4
  <2>3. Flattens(h, seqs, n + 1)
    <3>1. h = [i \in 1 .. n + 1 |-> body(i)]
      <4>1. h = [i \in 1 .. n + 1 |-> h[i]]
        BY Zenon
      <4> HIDE DEF h
      <4> QED
        BY <4>1, <2>2, Zenon
    <3> HIDE DEF h
    <3> QED
      BY <3>1, Zenon DEF Flattens
  <2> QED
    BY <2>3
<1> HIDE DEF T
<1>3. Nat \subseteq T
  BY <1>1, <1>2, SetInduction
<1> QED
  BY <1>3 DEF T

\* seq is made of the members of the first n of seqs, and what comes from one
\* of them is in its order, as rel has it.
Made(seq, seqs, n, rel) ==
  /\ \A m \in DOMAIN seq : \E i \in 1 .. n : seq[m] \in Range(seqs[i])
  /\ \A i \in 1 .. n : Range(seqs[i]) \subseteq Range(seq)
  /\ \A j, k \in DOMAIN seq : j < k => <<seq[j], seq[k]>> \in rel

\* FlattenSeq makes its result of the members of seqs, in an order that rel has
\* when rel has the order within each of them and from each to the next ones.
LEMMA Flattened ==
  ASSUME NEW R, NEW seqs \in Seq(Seq(R)), NEW rel,
         \A i \in DOMAIN seqs : \A j, k \in DOMAIN seqs[i] :
           j < k => <<seqs[i][j], seqs[i][k]>> \in rel,
         \A i, j \in DOMAIN seqs : i < j =>
           \A a \in Range(seqs[i]), b \in Range(seqs[j]) : <<a, b>> \in rel
  PROVE  FlattenSeq(seqs) \in Seq(R) /\ Made(FlattenSeq(seqs), seqs, Len(seqs), rel)
<1> DEFINE n == Len(seqs)
<1>1. n \in Nat /\ DOMAIN seqs = 1 .. n /\ \A i \in 1 .. n : seqs[i] \in Seq(R)
  BY LenProperties, ElementOfSeq
<1>2. CASE n = 0
  <2>1. seqs = <<>>
    BY <1>2, EmptySeq
  <2>2. FlattenSeq(seqs) = <<>>
    BY <1>2, <2>1 DEF FlattenSeq
  <2>3. <<>> \in Seq(R) /\ DOMAIN <<>> = {}
    BY EmptySeq
  <2> QED
    BY <1>1, <1>2, <2>2, <2>3 DEF Made
<1>3. CASE n # 0
  <2> DEFINE f == CHOOSE g : Flattens(g, seqs, n)
  <2>1. Flattens(f, seqs, n)
    BY <1>1, FlattenExists
  <2>2. FlattenSeq(seqs) = f[n]
    BY <1>3, Zenon DEF FlattenSeq, Flattens
  <2> HIDE DEF f, n
  <2>3. \A i \in 1 .. n : f[i] = IF i = 1 THEN seqs[i] ELSE f[i - 1] \o seqs[i]
    BY <2>1, Zenon DEF Flattens
  <2> DEFINE T == { k \in Nat : k + 1 <= n =>
                      f[k + 1] \in Seq(R) /\ Made(f[k + 1], seqs, k + 1, rel) }
  <2>4. 0 \in T
    <3> SUFFICES ASSUME 1 <= n PROVE f[1] \in Seq(R) /\ Made(f[1], seqs, 1, rel)
      OBVIOUS
    <3>1. 1 \in 1 .. n /\ f[1] = seqs[1]
      BY <1>1, <2>3
    <3>2. \A m \in DOMAIN f[1] : f[1][m] \in Range(seqs[1])
      BY <3>1 DEF Range
    <3>3. 1 .. 1 = {1}
      OBVIOUS
    <3> QED
      BY <1>1, <3>1, <3>2, <3>3 DEF Made
  <2>5. ASSUME NEW k \in Nat, k \in T PROVE k + 1 \in T
    <3> SUFFICES ASSUME k + 2 <= n
                 PROVE  f[k + 2] \in Seq(R) /\ Made(f[k + 2], seqs, k + 2, rel)
      OBVIOUS
    <3> DEFINE a == f[k + 1]
               b == seqs[k + 2]
               c == f[k + 2]
               p == Len(a)
               q == Len(b)
    <3>1. k + 1 <= n /\ k + 2 \in 1 .. n /\ k + 2 # 1 /\ (k + 2) - 1 = k + 1
      BY <1>1
    <3>2. a \in Seq(R) /\ Made(a, seqs, k + 1, rel) /\ b \in Seq(R)
      BY <1>1, <2>5, <3>1
    <3>3. c = a \o b
      BY <2>3, <3>1
    <3> HIDE DEF a, b, c
    <3>4. /\ c \in Seq(R) /\ p \in Nat /\ q \in Nat /\ DOMAIN c = 1 .. p + q
          /\ DOMAIN a = 1 .. p /\ DOMAIN b = 1 .. q
          /\ \A m \in 1 .. p : c[m] = a[m] /\ m \in 1 .. p + q
          /\ \A m \in 1 .. q : c[p + m] = b[m] /\ p + m \in 1 .. p + q
          /\ \A m \in 1 .. p + q : m \in 1 .. p \/ (m - p \in 1 .. q /\ m = p + (m - p))
      BY <3>2, <3>3, ConcatProperties, LenProperties
    <3> HIDE DEF p, q
    <3>5. Range(c) = Range(a) \cup Range(b)
      <4>1. ASSUME NEW m \in DOMAIN c PROVE c[m] \in Range(a) \cup Range(b)
        <5>1. CASE m \in 1 .. p
          BY <3>4, <5>1 DEF Range
        <5>2. CASE m - p \in 1 .. q /\ m = p + (m - p)
          <6>1. c[m] = b[m - p] /\ m - p \in DOMAIN b
            BY <3>4, <5>2
          <6> QED
            BY <6>1 DEF Range
        <5> QED
          BY <3>4, <5>1, <5>2
      <4>2. ASSUME NEW m \in DOMAIN a PROVE a[m] \in Range(c)
        <5>1. m \in DOMAIN c /\ c[m] = a[m]
          BY <3>4
        <5> QED
          BY <5>1 DEF Range
      <4>3. ASSUME NEW m \in DOMAIN b PROVE b[m] \in Range(c)
        <5>1. p + m \in DOMAIN c /\ c[p + m] = b[m]
          BY <3>4
        <5> QED
          BY <5>1 DEF Range
      <4> QED
        BY <4>1, <4>2, <4>3 DEF Range
    <3>6. \A i \in 1 .. k + 2 : i \in 1 .. k + 1 \/ i = k + 2
      OBVIOUS
    <3>7. \A i \in 1 .. k + 1 : i \in 1 .. k + 2 /\ i \in 1 .. n /\ i < k + 2
      BY <1>1, <3>1
    <3>8. \A i \in 1 .. k + 2 : Range(seqs[i]) \subseteq Range(c)
      BY <3>2, <3>5, <3>6 DEF Made, b
    <3>9. \A x \in Range(a) : \E i \in 1 .. k + 1 : x \in Range(seqs[i])
      BY <3>2 DEF Made, Range
    <3>10. ASSUME NEW m \in DOMAIN c PROVE \E i \in 1 .. k + 2 : c[m] \in Range(seqs[i])
      <4>1. c[m] \in Range(a) \/ c[m] \in Range(b)
        BY <3>5 DEF Range
      <4>2. k + 2 \in 1 .. k + 2
        OBVIOUS
      <4> QED
        BY <3>7, <3>9, <4>1, <4>2 DEF b
    <3>11. \A x \in Range(a), y \in Range(b) : <<x, y>> \in rel
      <4> SUFFICES ASSUME NEW x \in Range(a), NEW y \in Range(b) PROVE <<x, y>> \in rel
        OBVIOUS
      <4>1. PICK i \in 1 .. k + 1 : x \in Range(seqs[i])
        BY <3>9
      <4>2. i \in DOMAIN seqs /\ k + 2 \in DOMAIN seqs /\ i < k + 2
        BY <1>1, <3>1, <3>7
      <4> QED
        BY <4>1, <4>2 DEF b
    <3>12. ASSUME NEW j \in DOMAIN c, NEW m \in DOMAIN c, j < m PROVE <<c[j], c[m]>> \in rel
      <4>1. CASE m <= p
        <5>1. j \in DOMAIN a /\ m \in DOMAIN a /\ c[j] = a[j] /\ c[m] = a[m]
          BY <3>4, <3>12, <4>1
        <5> QED
          BY <3>2, <3>12, <5>1 DEF Made
      <4>2. CASE ~ (m <= p) /\ j <= p
        <5>1. j \in 1 .. p /\ m - p \in 1 .. q /\ m = p + (m - p)
          BY <3>4, <3>12, <4>2
        <5>2. c[j] = a[j] /\ c[m] = b[m - p]
          BY <3>4, <5>1
        <5>3. c[j] \in Range(a) /\ c[m] \in Range(b)
          BY <3>4, <5>1, <5>2 DEF Range
        <5> QED
          BY <3>11, <5>3
      <4>3. CASE ~ (j <= p)
        <5>1. j - p \in 1 .. q /\ p + (j - p) = j /\ m - p \in 1 .. q /\ p + (m - p) = m
              /\ j - p < m - p
          BY <3>4, <3>12, <4>3
        <5>2. c[j] = b[j - p] /\ c[m] = b[m - p] /\ j - p \in DOMAIN b /\ m - p \in DOMAIN b
          BY <3>4, <5>1
        <5>3. k + 2 \in DOMAIN seqs
          BY <1>1, <3>1
        <5> QED
          BY <5>1, <5>2, <5>3 DEF b
      <4> QED
        BY <4>1, <4>2, <4>3
    <3>13. Made(c, seqs, k + 2, rel)
      BY <3>8, <3>10, <3>12 DEF Made
    <3> QED
      BY <3>4, <3>13 DEF c
  <2> HIDE DEF T
  <2>6. Nat \subseteq T
    BY <2>4, <2>5, SetInduction
  <2>7. n - 1 \in Nat /\ (n - 1) + 1 = n
    BY <1>1, <1>3
  <2>8. f[n] \in Seq(R) /\ Made(f[n], seqs, n, rel)
    <3>1. n - 1 \in T
      BY <2>6, <2>7
    <3>2. \A k \in T : k + 1 <= n => f[k + 1] \in Seq(R) /\ Made(f[k + 1], seqs, k + 1, rel)
      BY DEF T
    <3>3. n <= n
      BY <1>1
    <3> QED
      BY <2>7, <3>1, <3>2, <3>3
  <2> QED
    BY <2>2, <2>8 DEF n
<1> QED
  BY <1>2, <1>3

-----------------------------------------------------------------------------
(* route() *)

\* d is forwarded by the n-th interface to the hop.
GoesBy(table, d, n, hop) ==
  /\ ~ Expired(d) /\ RouteFor(table, d.dst) # NoRoute
  /\ RouteFor(table, d.dst).interface_num = n /\ HopOf(RouteFor(table, d.dst), d) = hop

\* What the first k of the datagrams seq add to what goes to the hop.
Forwarded(table, seq, k, n, hop) ==
  { Aged(seq[m]) : m \in { j \in 1 .. k : GoesBy(table, seq[j], n, hop) } }

\* The datagrams of seq may be forwarded in their order: each is in turn after
\* those before it and after all that the interfaces have sent.
InOrder(seq, nics, frames, arr) ==
  /\ \A j, k \in DOMAIN seq : j < k => Turn(arr, seq[j], seq[k])
  /\ \A n \in Interface, h \in IPAddress, k \in DOMAIN seq :
       \A e \in GoingOf(frames[n], nics[n], h) : Turn(arr, e, seq[k])

\* The interfaces as they are after k rounds of the loop.
Round(ports, k, table, seq, nics, frames, arr) ==
  /\ DOMAIN ports.interfaces = Interface /\ DOMAIN ports.out = Interface
  /\ \A n \in Interface :
       /\ Port(n, frames[n] \o ports.out[n], ports.interfaces[n], arr)
       /\ ports.out[n] \in Seq(FrameRecord)
       /\ ports.interfaces[n].datagrams_received = <<>>
       /\ \A h \in IPAddress :
            GoingOf(frames[n] \o ports.out[n], ports.interfaces[n], h)
              = GoingOf(frames[n], nics[n], h) \cup Forwarded(table, seq, k, n, h)

\* A datagram that is not expired stays one with its time to live reduced.
LEMMA AgedDatagram ==
  ASSUME NEW d \in Datagram, ~ Expired(d)
  PROVE  Aged(d) \in Datagram /\ Aged(d).id = d.id /\ Aged(d).dst = d.dst
<1> DEFINE a == Aged(d)
<1>1. d.ttl \in Nat /\ ~ (d.ttl <= 1)
  BY DEF Expired, Datagram
<1>2. d.ttl - 1 \in Nat
  BY <1>1
<1> DEFINE t == d.ttl - 1
<1>3. a = [d EXCEPT !.ttl = t]
  BY DEF Aged
<1> HIDE DEF a, t
<1>4. a \in Datagram /\ a.id = d.id /\ a.dst = d.dst
  BY <1>2, <1>3 DEF Datagram, t
<1> QED
  BY <1>4 DEF a

\* A route that is found is one of the table.
LEMMA RouteFound ==
  ASSUME NEW table \in Seq(Routes), NEW dst, RouteFor(table, dst) # NoRoute
  PROVE  RouteFor(table, dst) \in Routes
<1> DEFINE at == { i \in DOMAIN table : Matches(table[i], dst) }
           first == CHOOSE i \in at : \A j \in at : i <= j
<1>1. RouteFor(table, dst) = IF at = {} THEN NoRoute ELSE table[first]
  BY DEF RouteFor
<1>2. at # {} /\ RouteFor(table, dst) = table[first]
  BY <1>1
<1>3. at \in SUBSET Nat /\ \A i \in at : table[i] \in Routes
  OBVIOUS
<1>4. first \in at
  <2>1. \E i \in at : \A j \in at : i <= j
    BY <1>2, <1>3, FirstExists
  <2> HIDE DEF at
  <2> QED
    BY <2>1
<1> HIDE DEF first, at
<1> QED
  BY <1>2, <1>3, <1>4

\* A route leads to an interface and a hop.
LEMMA RouteFields ==
  ASSUME NEW route \in Routes, NEW d \in Datagram
  PROVE  route.interface_num \in Interface /\ HopOf(route, d) \in IPAddress
<1>1. route \in [prefix : IPAddress, prefix_length : 0 .. AddressBits,
                 next_hop : IPAddress \cup {NoHop}, interface_num : Interface]
  BY RouterAssumption
<1> QED
  BY <1>1 DEF HopOf, Datagram

\* A round adds to what is forwarded at most its own datagram.
LEMMA OneMoreForwarded ==
  ASSUME NEW table, NEW seq, NEW k \in Nat, NEW n, NEW h
  PROVE  Forwarded(table, seq, k + 1, n, h)
           = Forwarded(table, seq, k, n, h)
               \cup (IF GoesBy(table, seq[k + 1], n, h) THEN {Aged(seq[k + 1])} ELSE {})
<1>1. \A j : j \in 1 .. k + 1 <=> j \in 1 .. k \/ j = k + 1
  OBVIOUS
<1> QED
  BY <1>1, Zenon DEF Forwarded

\* A round whose datagram does not go by a hop adds nothing to it.
LEMMA NoMoreForwarded ==
  ASSUME NEW table, NEW seq, NEW k \in Nat, NEW n, NEW h, ~ GoesBy(table, seq[k + 1], n, h)
  PROVE  Forwarded(table, seq, k + 1, n, h) = Forwarded(table, seq, k, n, h)
<1>1. Forwarded(table, seq, k + 1, n, h)
        = Forwarded(table, seq, k, n, h)
            \cup (IF GoesBy(table, seq[k + 1], n, h) THEN {Aged(seq[k + 1])} ELSE {})
  BY OneMoreForwarded
<1> QED
  BY <1>1

\* One round of the loop keeps the order and adds its datagram, if it has a
\* route and is not expired, to what goes to one hop.
LEMMA RoundStep ==
  ASSUME NEW table \in Seq(Routes), NEW seq \in Seq(Datagram), NEW nics, NEW arr,
         NEW frames, frames \in [Interface -> Seq(FrameRecord)],
         InOrder(seq, nics, frames, arr),
         NEW k \in Nat, k + 1 \in DOMAIN seq, NEW ports,
         Round(ports, k, table, seq, nics, frames, arr)
  PROVE  Round(Forward(ports, table, seq[k + 1]), k + 1, table, seq, nics, frames, arr)
<1> DEFINE d == seq[k + 1]
           route == RouteFor(table, d.dst)
           n == route.interface_num
           hop == HopOf(route, d)
           step == SendDatagram(ports.interfaces[n], Aged(d), hop)
           new == Forward(ports, table, d)
<1>1. d \in Datagram
  OBVIOUS
<1>2. CASE Expired(d) \/ route = NoRoute
  <2>1. new = ports
    BY <1>2 DEF Forward
  <2>2. \A i, h : ~ GoesBy(table, seq[k + 1], i, h)
    BY <1>2 DEF GoesBy
  <2>3. \A i, h : Forwarded(table, seq, k + 1, i, h) = Forwarded(table, seq, k, i, h)
    BY <2>2, NoMoreForwarded
  <2> QED
    BY <2>1, <2>3 DEF Round
<1>3. CASE ~ Expired(d) /\ route # NoRoute
  <2> DEFINE nic == ports.interfaces[n]
             all == frames[n] \o ports.out[n]
  <2>1. n \in Interface /\ hop \in IPAddress
    BY <1>1, <1>3, RouteFound, RouteFields
  <2>2. Aged(d) \in Datagram /\ Aged(d).id = d.id
    BY <1>1, <1>3, AgedDatagram
  <2>3. new = [interfaces |-> [ports.interfaces EXCEPT ![n] = step.nic],
               out        |-> [ports.out EXCEPT ![n] = @ \o step.out]]
    BY <1>3 DEF Forward
  <2>4. \A i, h : GoesBy(table, seq[k + 1], i, h) <=> i = n /\ h = hop
    BY <1>3 DEF GoesBy
  <2> HIDE DEF new, d, n, hop, step, route
  <2>5. /\ Port(n, all, nic, arr) /\ ports.out[n] \in Seq(FrameRecord)
        /\ nic.datagrams_received = <<>> /\ frames[n] \in Seq(FrameRecord)
        /\ \A h \in IPAddress : GoingOf(all, nic, h)
             = GoingOf(frames[n], nics[n], h) \cup Forwarded(table, seq, k, n, h)
    BY <2>1 DEF Round
  <2>6. \A e \in GoingOf(all, nic, hop) : Turn(arr, e, Aged(d))
    <3> SUFFICES ASSUME NEW e \in GoingOf(all, nic, hop) PROVE Turn(arr, e, Aged(d))
      OBVIOUS
    <3>1. CASE e \in GoingOf(frames[n], nics[n], hop)
      <4>1. Turn(arr, e, d)
        BY <2>1, <3>1 DEF InOrder, d
      <4> QED
        BY <2>2, <4>1 DEF Turn
    <3>2. CASE e \in Forwarded(table, seq, k, n, hop)
      <4>1. PICK m \in 1 .. k : e = Aged(seq[m]) /\ GoesBy(table, seq[m], n, hop)
        BY <3>2 DEF Forwarded
      <4>2. m \in DOMAIN seq /\ m < k + 1
        OBVIOUS
      <4>3. Turn(arr, seq[m], d)
        BY <4>2 DEF InOrder, d
      <4>4. Aged(seq[m]).id = seq[m].id
        BY <4>1, <4>2, AgedDatagram DEF GoesBy
      <4> QED
        BY <2>2, <4>1, <4>3, <4>4 DEF Turn
    <3> QED
      BY <2>1, <2>5, <3>1, <3>2
  <2> HIDE DEF all, nic
  <2>7. step = SendDatagram(nic, Aged(d), hop)
    BY DEF step, nic
  <2>8. /\ Port(n, all \o step.out, step.nic, arr) /\ step.out \in Seq(FrameRecord)
        /\ step.nic.datagrams_received = nic.datagrams_received
        /\ \A h \in IPAddress :
             GoingOf(all \o step.out, step.nic, h)
               = GoingOf(all, nic, h) \cup (IF h = hop THEN {Aged(d)} ELSE {})
    <3> DEFINE a == Aged(d)
    <3>1. AfterAll(arr, GoingOf(all, nic, hop), a)
      BY <2>6 DEF AfterAll
    <3>2. a \in Datagram
      BY <2>2
    <3>3. Port(n, all, nic, arr) /\ step = SendDatagram(nic, a, hop)
      BY <2>5, <2>7
    <3> HIDE DEF a
    <3>4. PortSent(n, all, nic, arr, a, hop, step)
      BY ONLY <2>1, <3>1, <3>2, <3>3, PortSendsAll, Zenon
    <3> QED
      BY <3>4 DEF PortSent, a
  <2> DEFINE outn == ports.out[n]
             out1 == outn \o step.out
  <2>9. out1 \in Seq(FrameRecord) /\ all \o step.out = frames[n] \o out1
    <3> DEFINE f == frames[n]
               o == step.out
    <3>1. f \in Seq(FrameRecord) /\ outn \in Seq(FrameRecord) /\ o \in Seq(FrameRecord)
      BY <2>5, <2>8
    <3>2. all \o o = (f \o outn) \o o
      BY DEF all
    <3> HIDE DEF f, outn, o
    <3>3. (f \o outn) \o o = f \o (outn \o o)
      BY ONLY <3>1, ConcatAssociative
    <3>4. outn \o o \in Seq(FrameRecord)
      BY ONLY <3>1, ConcatProperties
    <3> QED
      BY <3>2, <3>3, <3>4 DEF f, o
  <2>10. /\ DOMAIN new.interfaces = Interface /\ DOMAIN new.out = Interface
         /\ new.interfaces[n] = step.nic /\ new.out[n] = out1
         /\ \A i \in Interface : i # n => new.interfaces[i] = ports.interfaces[i]
                                          /\ new.out[i] = ports.out[i]
    BY <2>1, <2>3 DEF Round
  <2> HIDE DEF out1, outn
  <2>11. ASSUME NEW i \in Interface
         PROVE  /\ Port(i, frames[i] \o new.out[i], new.interfaces[i], arr)
                /\ new.out[i] \in Seq(FrameRecord)
                /\ new.interfaces[i].datagrams_received = <<>>
                /\ \A h \in IPAddress :
                     GoingOf(frames[i] \o new.out[i], new.interfaces[i], h)
                       = GoingOf(frames[i], nics[i], h) \cup Forwarded(table, seq, k + 1, i, h)
    <3>1. CASE i = n
      <4>1. frames[i] \o new.out[i] = all \o step.out /\ new.interfaces[i] = step.nic
            /\ new.out[i] = out1
        BY <2>9, <2>10, <3>1
      <4>2. ASSUME NEW h \in IPAddress
            PROVE  GoingOf(all \o step.out, step.nic, h)
                     = GoingOf(frames[n], nics[n], h) \cup Forwarded(table, seq, k + 1, n, h)
        <5>1. Forwarded(table, seq, k + 1, n, h)
                = Forwarded(table, seq, k, n, h) \cup (IF h = hop THEN {Aged(d)} ELSE {})
          BY <2>4, OneMoreForwarded DEF d
        <5> QED
          BY <2>5, <2>8, <5>1
      <4> QED
        BY <2>5, <2>8, <2>9, <3>1, <4>1, <4>2
    <3>2. CASE i # n
      <4>1. new.interfaces[i] = ports.interfaces[i] /\ new.out[i] = ports.out[i]
        BY <2>10, <3>2
      <4>2. \A h : ~ GoesBy(table, seq[k + 1], i, h)
        BY <2>4, <3>2
      <4>3. \A h : Forwarded(table, seq, k + 1, i, h) = Forwarded(table, seq, k, i, h)
        BY <4>2, NoMoreForwarded
      <4> QED
        BY <4>1, <4>3 DEF Round
    <3> QED
      BY <3>1, <3>2
  <2>12. Round(new, k + 1, table, seq, nics, frames, arr)
    BY <2>10, <2>11 DEF Round
  <2> QED
    BY <2>12 DEF new, d
<1> QED
  BY <1>2, <1>3

\* Before the loop nothing has been forwarded and nothing is left to receive.
LEMMA RoundZero ==
  ASSUME NEW table, NEW seq, NEW nics, DOMAIN nics = Interface, NEW arr,
         NEW frames, frames \in [Interface -> Seq(FrameRecord)],
         \A n \in Interface : Port(n, frames[n], nics[n], arr)
  PROVE  Round([interfaces |-> NothingReceived(nics), out |-> Silent(nics)], 0,
               table, seq, nics, frames, arr)
<1> DEFINE ports == [interfaces |-> NothingReceived(nics), out |-> Silent(nics)]
<1>1. /\ DOMAIN ports.interfaces = Interface /\ DOMAIN ports.out = Interface
      /\ \A n \in Interface : /\ ports.out[n] = <<>>
                              /\ ports.interfaces[n] = [nics[n] EXCEPT !.datagrams_received = <<>>]
  BY DEF NothingReceived, Silent
<1> HIDE DEF ports
<1>2. ASSUME NEW n \in Interface
      PROVE  /\ Port(n, frames[n] \o ports.out[n], ports.interfaces[n], arr)
             /\ ports.out[n] \in Seq(FrameRecord)
             /\ ports.interfaces[n].datagrams_received = <<>>
             /\ \A h \in IPAddress :
                  GoingOf(frames[n] \o ports.out[n], ports.interfaces[n], h)
                    = GoingOf(frames[n], nics[n], h) \cup Forwarded(table, seq, 0, n, h)
  <2> DEFINE nic == nics[n]
             new == ports.interfaces[n]
             none == <<>>
  <2>1. nic \in NicRecord /\ NicOf(n, nic)
    BY DEF Port, NicOf
  <2>2. none \in Seq(Datagram) /\ none \in Seq(FrameRecord)
    BY EmptySeq
  <2>3. new = [nic EXCEPT !.datagrams_received = none]
    BY <1>1
  <2> HIDE DEF none, nic, new
  <2>4. /\ new \in NicRecord /\ new.cache = nic.cache /\ new.datagram_q = nic.datagram_q
        /\ new.ethernet_address = nic.ethernet_address /\ new.datagrams_received = none
    BY <2>1, <2>2, <2>3 DEF NicRecord
  <2>5. NicOf(n, new)
    BY <2>1, <2>4 DEF NicOf
  <2>6. \A h : WaitingFor(new, h) = WaitingFor(nic, h)
    BY <2>4 DEF WaitingFor
  <2>7. frames[n] \o ports.out[n] = frames[n]
    BY <1>1, ConcatEmptySeq
  <2>8. Port(n, frames[n], new, arr)
    BY <2>5, <2>6 DEF Port, nic
  <2>9. \A h : Forwarded(table, seq, 0, n, h) = {}
    BY DEF Forwarded
  <2>10. \A h : GoingOf(frames[n], new, h) = GoingOf(frames[n], nic, h)
    BY <2>6 DEF GoingOf
  <2>11. ports.out[n] = none
    BY <1>1 DEF none
  <2> QED
    BY <2>2, <2>4, <2>7, <2>8, <2>9, <2>10, <2>11 DEF none, nic, new
<1>3. Round(ports, 0, table, seq, nics, frames, arr)
  BY <1>1, <1>2 DEF Round
<1> QED
  BY <1>3 DEF ports

\* All the rounds.
LEMMA AllRounds ==
  ASSUME NEW table \in Seq(Routes), table # <<>>, NEW nics, DOMAIN nics = Interface, NEW arr,
         ReceivedBy(nics) \in Seq(Datagram),
         NEW frames, frames \in [Interface -> Seq(FrameRecord)],
         \A n \in Interface : Port(n, frames[n], nics[n], arr),
         InOrder(ReceivedBy(nics), nics, frames, arr)
  PROVE  Round(RouteAll(nics, table), Len(ReceivedBy(nics)), table, ReceivedBy(nics),
               nics, frames, arr)
<1> DEFINE seq == ReceivedBy(nics)
<1>1. PICK g : ForwardedInTurn(g, nics, table, seq)
  BY RouteAllSteps
<1> HIDE DEF seq
<1> DEFINE T == { k \in Nat : k <= Len(seq) => Round(g[k], k, table, seq, nics, frames, arr) }
<1>2. 0 \in T
  BY <1>1, RoundZero DEF ForwardedInTurn
<1>3. ASSUME NEW k \in Nat, k \in T PROVE k + 1 \in T
  <2> SUFFICES ASSUME k + 1 <= Len(seq)
               PROVE  Round(g[k + 1], k + 1, table, seq, nics, frames, arr)
    OBVIOUS
  <2>1. seq \in Seq(Datagram) /\ InOrder(seq, nics, frames, arr)
    BY DEF seq
  <2>2. k + 1 \in 1 .. Len(seq) /\ k + 1 \in DOMAIN seq /\ k <= Len(seq) /\ (k + 1) - 1 = k
    BY <2>1, LenProperties
  <2>3. g[k + 1] = Forward(g[k], table, seq[k + 1])
    BY <1>1, <2>2 DEF ForwardedInTurn
  <2>4. Round(g[k], k, table, seq, nics, frames, arr)
    BY <1>3, <2>2
  <2> QED
    BY <2>1, <2>2, <2>3, <2>4, RoundStep
<1> HIDE DEF T
<1>4. Len(seq) \in Nat /\ Len(seq) \in T
  <2>1. Len(seq) \in Nat
    BY LenProperties DEF seq
  <2> QED
    BY <1>2, <1>3, <2>1, SetInduction
<1>5. Round(g[Len(seq)], Len(seq), table, seq, nics, frames, arr)
  BY <1>4 DEF T
<1> QED
  BY <1>1, <1>5 DEF ForwardedInTurn, seq

-----------------------------------------------------------------------------
(* The inductive invariant *)

Arrivals == [datagram : Datagram, at : Interface]

\* The datagrams received and not yet routed by the n-th interface are as they
\* arrived there, in that order.
ReceivedOf(n, nic, arr) ==
  LET queue == nic.datagrams_received
  IN  /\ \A k \in DOMAIN queue : /\ queue[k].id \in DOMAIN arr
                                 /\ queue[k] = arr[queue[k].id].datagram
                                 /\ arr[queue[k].id].at = n
      /\ \A j, k \in DOMAIN queue : j < k => queue[j].id < queue[k].id

\* What has been routed arrived before what has not.
RoutedBefore(n, nics, frames, arr) ==
  \A i \in Interface, h \in IPAddress : \A d \in GoingOf(frames[i], nics[i], h) :
    \A e \in Range(nics[n].datagrams_received) : Turn(arr, d, e)

RouterInv ==
  /\ arrived \in Seq(Arrivals) /\ \A n \in DOMAIN arrived : arrived[n].datagram.id = n
  /\ DOMAIN interfaces = Interface /\ sent \in [Interface -> Seq(FrameRecord)]
  /\ \A n \in Interface :
       /\ Port(n, sent[n], interfaces[n], arrived)
       /\ \A h \in IPAddress : \A d \in GoingOf(sent[n], interfaces[n], h) :
            d.id \in DOMAIN arrived
       /\ ReceivedOf(n, interfaces[n], arrived)
       /\ RoutedBefore(n, interfaces, sent, arrived)
  /\ TableInv

-----------------------------------------------------------------------------
(* The datagrams that route() takes *)

\* In the sequence of all that has been received the datagrams of an interface
\* are in their order.
LEMMA ReceivedInOrder ==
  ASSUME RouterInv
  PROVE  LET seq == ReceivedBy(interfaces)
         IN  /\ seq \in Seq(Datagram)
             /\ Range(seq) = UNION { Range(interfaces[n].datagrams_received) : n \in Interface }
             /\ InOrder(seq, interfaces, sent, arrived)
<1> DEFINE queue(n) == interfaces[n].datagrams_received
           seqs == [n \in Interface |-> queue(n)]
           seq == FlattenSeq(seqs)
           rel == { p \in Datagram \X Datagram : Turn(arrived, p[1], p[2]) }
           N == Len(OwnAddress)
<1>1. DOMAIN interfaces = Interface /\ ReceivedBy(interfaces) = seq
  BY DEF RouterInv, ReceivedBy
<1>2. N \in Nat /\ Interface = 1 .. N
  BY RouterAssumption, LenProperties DEF Interface
<1> HIDE DEF N
<1>3. \A n \in Interface : queue(n) \in Seq(Datagram) /\ ReceivedOf(n, interfaces[n], arrived)
  BY DEF RouterInv, Port, NicOf, NicRecord
<1> HIDE DEF seq
<1>4. seqs \in Seq(Seq(Datagram)) /\ DOMAIN seqs = 1 .. N /\ Len(seqs) = N
      /\ \A n \in Interface : seqs[n] = queue(n)
  <2>1. seqs \in [1 .. N -> Seq(Datagram)]
    BY <1>2, <1>3
  <2>2. \A n \in Interface : seqs[n] = queue(n)
    OBVIOUS
  <2> HIDE DEF seqs
  <2>3. seqs \in Seq(Seq(Datagram))
    BY <1>2, <2>1, SeqDef
  <2> QED
    BY <1>2, <2>1, <2>2, <2>3, LenProperties
<1> HIDE DEF seqs
<1>5. ASSUME NEW n \in Interface, NEW j \in DOMAIN queue(n), NEW k \in DOMAIN queue(n), j < k
      PROVE  <<queue(n)[j], queue(n)[k]>> \in rel
  <2>1. queue(n)[j] \in Datagram /\ queue(n)[k] \in Datagram
    BY <1>3, ElementOfSeq, LenProperties
  <2>2. queue(n)[j].id < queue(n)[k].id
    BY <1>3, <1>5 DEF ReceivedOf
  <2> QED
    BY <2>1, <2>2 DEF Turn
<1>6. ASSUME NEW n \in Interface, NEW a \in Range(queue(n))
      PROVE  a \in Datagram /\ arrived[a.id].at = n
  <2>1. PICK k \in DOMAIN queue(n) : a = queue(n)[k]
    BY DEF Range
  <2>2. arrived[queue(n)[k].id].at = n
    BY <1>3 DEF ReceivedOf
  <2> QED
    BY <1>3, <2>1, <2>2, ElementOfSeq, LenProperties
<1>7. ASSUME NEW i \in Interface, NEW j \in Interface, i < j,
             NEW a \in Range(queue(i)), NEW b \in Range(queue(j))
      PROVE  <<a, b>> \in rel
  <2>1. i # j
    BY <1>2, <1>7
  <2> QED
    BY <1>6, <2>1 DEF Turn
<1>8. seq \in Seq(Datagram) /\ Made(seq, seqs, N, rel)
  <2>1. \A i \in DOMAIN seqs : \A j, k \in DOMAIN seqs[i] :
          j < k => <<seqs[i][j], seqs[i][k]>> \in rel
    BY <1>2, <1>4, <1>5
  <2>2. \A i, j \in DOMAIN seqs : i < j =>
          \A a \in Range(seqs[i]), b \in Range(seqs[j]) : <<a, b>> \in rel
    <3> SUFFICES ASSUME NEW i \in DOMAIN seqs, NEW j \in DOMAIN seqs, i < j,
                        NEW a \in Range(seqs[i]), NEW b \in Range(seqs[j])
                 PROVE  <<a, b>> \in rel
      OBVIOUS
    <3>1. i \in Interface /\ j \in Interface /\ seqs[i] = queue(i) /\ seqs[j] = queue(j)
      BY <1>2, <1>4
    <3> HIDE DEF rel, queue
    <3> QED
      BY <1>7, <3>1
  <2> HIDE DEF rel
  <2> QED
    BY <1>4, <2>1, <2>2, Flattened DEF seq
<1>9. Range(seq) = UNION { Range(queue(n)) : n \in Interface }
  <2>1. ASSUME NEW d \in Range(seq) PROVE \E n \in Interface : d \in Range(queue(n))
    <3>1. PICK m \in DOMAIN seq : d = seq[m]
      BY DEF Range
    <3> QED
      BY <1>2, <1>4, <1>8, <3>1 DEF Made
  <2>2. ASSUME NEW n \in Interface PROVE Range(queue(n)) \subseteq Range(seq)
    BY <1>2, <1>4, <1>8 DEF Made
  <2> QED
    BY <2>1, <2>2
<1>10. InOrder(seq, interfaces, sent, arrived)
  <2>1. ASSUME NEW j \in DOMAIN seq, NEW k \in DOMAIN seq, j < k
        PROVE  Turn(arrived, seq[j], seq[k])
    <3>1. <<seq[j], seq[k]>> \in rel
      BY <1>8, <2>1 DEF Made
    <3> DEFINE p == <<seq[j], seq[k]>>
    <3>2. p[1] = seq[j] /\ p[2] = seq[k]
      OBVIOUS
    <3> QED
      BY <3>1, <3>2
  <2>2. ASSUME NEW n \in Interface, NEW h \in IPAddress, NEW k \in DOMAIN seq,
               NEW e \in GoingOf(sent[n], interfaces[n], h)
        PROVE  Turn(arrived, e, seq[k])
    <3>1. PICK i \in Interface : seq[k] \in Range(queue(i))
      BY <1>9 DEF Range
    <3>2. RoutedBefore(i, interfaces, sent, arrived)
      BY DEF RouterInv
    <3> QED
      BY <3>1, <3>2 DEF RoutedBefore
  <2> QED
    BY <2>1, <2>2 DEF InOrder
<1> QED
  BY <1>1, <1>8, <1>9, <1>10

-----------------------------------------------------------------------------
(* The actions *)

\* The length of the sequence of all that route() takes.
Taken == Len(ReceivedBy(interfaces))

\* What route() does to the ports and to what goes to each hop.
LEMMA RouteEffect ==
  ASSUME RouterInv, Route, routes # <<>>
  PROVE  /\ DOMAIN interfaces' = Interface /\ sent' \in [Interface -> Seq(FrameRecord)]
         /\ \A n \in Interface :
              /\ Port(n, sent'[n], interfaces'[n], arrived)
              /\ interfaces'[n].datagrams_received = <<>>
              /\ \A h \in IPAddress :
                   GoingOf(sent'[n], interfaces'[n], h)
                     = GoingOf(sent[n], interfaces[n], h)
                         \cup Forwarded(routes, ReceivedBy(interfaces), Taken, n, h)
<1> DEFINE seq == ReceivedBy(interfaces)
           ports == RouteAll(interfaces, routes)
<1>1. /\ DOMAIN interfaces = Interface /\ sent \in [Interface -> Seq(FrameRecord)]
      /\ \A n \in Interface : Port(n, sent[n], interfaces[n], arrived)
      /\ routes \in Seq(Routes)
  BY DEF RouterInv, TableInv
<1>2. seq \in Seq(Datagram) /\ InOrder(seq, interfaces, sent, arrived)
  BY ReceivedInOrder
<1>3. Round(ports, Len(seq), routes, seq, interfaces, sent, arrived)
  BY <1>1, <1>2, AllRounds
<1>4. interfaces' = ports.interfaces /\ sent' = [n \in Interface |-> sent[n] \o ports.out[n]]
  BY DEF Route, Transmits
<1> HIDE DEF ports, seq
<1>5. \A n \in Interface : /\ sent'[n] = sent[n] \o ports.out[n]
                           /\ interfaces'[n] = ports.interfaces[n]
                           /\ ports.out[n] \in Seq(FrameRecord)
                           /\ sent[n] \in Seq(FrameRecord)
  BY <1>1, <1>3, <1>4 DEF Round
<1>6. \A n \in Interface : sent[n] \o ports.out[n] \in Seq(FrameRecord)
  BY <1>5, ConcatProperties
<1>7. DOMAIN interfaces' = Interface /\ sent' \in [Interface -> Seq(FrameRecord)]
  BY <1>3, <1>4, <1>6 DEF Round
<1>8. Taken = Len(seq)
  BY DEF Taken, seq
<1> QED
  BY <1>3, <1>5, <1>7, <1>8 DEF Round, seq

\* A step after which no interface has received or has to send anything new.
LEMMA Steady ==
  ASSUME RouterInv, TableInv', arrived' = arrived,
         DOMAIN interfaces' = Interface, sent' \in [Interface -> Seq(FrameRecord)],
         \A n \in Interface :
           /\ Port(n, sent'[n], interfaces'[n], arrived)
           /\ interfaces'[n].datagrams_received = interfaces[n].datagrams_received
           /\ \A h \in IPAddress :
                GoingOf(sent'[n], interfaces'[n], h) \subseteq GoingOf(sent[n], interfaces[n], h)
  PROVE  RouterInv'
<1> SUFFICES ASSUME NEW n \in Interface
             PROVE  /\ \A h \in IPAddress : \A d \in GoingOf(sent'[n], interfaces'[n], h) :
                         d.id \in DOMAIN arrived
                    /\ ReceivedOf(n, interfaces'[n], arrived)
                    /\ RoutedBefore(n, interfaces', sent', arrived)
  BY DEF RouterInv
<1>1. \A h \in IPAddress : \A d \in GoingOf(sent'[n], interfaces'[n], h) : d.id \in DOMAIN arrived
  BY DEF RouterInv
<1>2. ReceivedOf(n, interfaces'[n], arrived)
  <2>1. ReceivedOf(n, interfaces[n], arrived)
    BY DEF RouterInv
  <2> QED
    BY <2>1 DEF ReceivedOf
<1>3. RoutedBefore(n, interfaces', sent', arrived)
  <2>1. RoutedBefore(n, interfaces, sent, arrived)
    BY DEF RouterInv
  <2> QED
    BY <2>1 DEF RoutedBefore
<1> QED
  BY <1>1, <1>2, <1>3

\* What a step changes when one interface does one thing.
LEMMA OneReceives ==
  ASSUME RouterInv, NEW n \in Interface, NEW frame, Receives(n, frame),
         NEW step, step = RecvFrame(interfaces[n], frame), step.out \in Seq(FrameRecord)
  PROVE  /\ DOMAIN interfaces' = Interface /\ sent' \in [Interface -> Seq(FrameRecord)]
         /\ interfaces'[n] = step.nic /\ sent'[n] = sent[n] \o step.out
         /\ \A m \in Interface : m # n => interfaces'[m] = interfaces[m] /\ sent'[m] = sent[m]
         /\ UNCHANGED <<routes, added>>
<1> DEFINE out == [Silent(interfaces) EXCEPT ![n] = step.out]
<1>1. DOMAIN interfaces = Interface /\ sent \in [Interface -> Seq(FrameRecord)]
  BY DEF RouterInv
<1>2. /\ interfaces' = [interfaces EXCEPT ![n] = step.nic]
      /\ sent' = [m \in Interface |-> sent[m] \o out[m]]
      /\ UNCHANGED <<routes, added>>
  BY DEF Receives, Transmits
<1>3. out[n] = step.out /\ \A m \in Interface : m # n => out[m] = <<>>
  BY <1>1 DEF Silent
<1> HIDE DEF out
<1>4. \A m \in Interface : m # n => sent[m] \o out[m] = sent[m]
  BY <1>1, <1>3, ConcatEmptySeq
<1>5. sent[n] \o step.out \in Seq(FrameRecord)
  BY <1>1, ConcatProperties
<1>6. /\ sent'[n] = sent[n] \o step.out
      /\ \A m \in Interface : m # n => sent'[m] = sent[m]
      /\ DOMAIN sent' = Interface
  BY <1>2, <1>3, <1>4
<1>7. sent' = [m \in Interface |-> sent'[m]]
  BY <1>2
<1>8. \A m \in Interface : sent'[m] \in Seq(FrameRecord)
  BY <1>1, <1>5, <1>6
<1>9. sent' \in [Interface -> Seq(FrameRecord)]
  BY <1>7, <1>8
<1> QED
  BY <1>1, <1>2, <1>6, <1>9

\* The frame of an answer.
AnswerFrame(n, hop) ==
  [dst |-> OwnAddress[n], src |-> hop, type |-> "ARP",
   payload |-> [opcode |-> "reply", sender_ethernet |-> hop, sender_ip |-> hop,
                target_ethernet |-> OwnAddress[n], target_ip |-> OwnAddress[n]]]

\* An answer takes nothing away from what goes to a hop and adds nothing to it.
LEMMA AnswerSteady ==
  ASSUME RouterInv, NEW n \in Interface, NEW hop \in Neighbour, Answer(n, hop)
  PROVE  /\ DOMAIN interfaces' = Interface /\ sent' \in [Interface -> Seq(FrameRecord)]
         /\ UNCHANGED <<routes, added, arrived>>
         /\ \A m \in Interface :
              /\ Port(m, sent'[m], interfaces'[m], arrived)
              /\ interfaces'[m].datagrams_received = interfaces[m].datagrams_received
              /\ \A h \in IPAddress :
                   GoingOf(sent'[m], interfaces'[m], h) = GoingOf(sent[m], interfaces[m], h)
<1> DEFINE frame == AnswerFrame(n, hop)
           arp == [opcode |-> "reply", sender_ethernet |-> hop, sender_ip |-> hop,
                   target_ethernet |-> OwnAddress[n], target_ip |-> OwnAddress[n]]
           step == RecvFrame(interfaces[n], frame)
<1>1. \A m \in Interface : Port(m, sent[m], interfaces[m], arrived)
  BY DEF RouterInv
<1>2. hop \in IPAddress /\ OwnAddress[n] \in IPAddress
  BY RouterAssumption DEF Interface
<1>3. frame.type = "ARP" /\ frame.payload = arp
  BY DEF AnswerFrame
<1>4. arp \in ArpPayload /\ arp.opcode = "reply" /\ arp.sender_ip = hop /\ arp.sender_ethernet = hop
  BY <1>2 DEF ArpPayload
<1>5. Receives(n, frame) /\ arrived' = arrived
  BY DEF Answer, AnswerFrame
<1>6. NicOf(n, interfaces[n])
  BY <1>1 DEF Port
<1> HIDE DEF frame, arp
<1>7. /\ NicOf(n, step.nic) /\ step.out \in Seq(FrameRecord)
      /\ step.nic.datagrams_received = interfaces[n].datagrams_received
      /\ Nothing(interfaces[n], step) \/ Answered(interfaces[n], hop, step)
  BY <1>2, <1>3, <1>4, <1>6, AnswerEffect
<1> HIDE DEF step
<1>8. /\ Port(n, sent[n] \o step.out, step.nic, arrived)
      /\ \A h \in IPAddress :
           GoingOf(sent[n] \o step.out, step.nic, h) = GoingOf(sent[n], interfaces[n], h)
  BY <1>1, <1>2, <1>7, PortAnswers
<1>9. /\ DOMAIN interfaces' = Interface /\ sent' \in [Interface -> Seq(FrameRecord)]
      /\ interfaces'[n] = step.nic /\ sent'[n] = sent[n] \o step.out
      /\ \A m \in Interface : m # n => interfaces'[m] = interfaces[m] /\ sent'[m] = sent[m]
      /\ UNCHANGED <<routes, added>>
  BY <1>5, <1>7, OneReceives DEF step
<1>10. ASSUME NEW m \in Interface
       PROVE  /\ Port(m, sent'[m], interfaces'[m], arrived)
              /\ interfaces'[m].datagrams_received = interfaces[m].datagrams_received
              /\ \A h \in IPAddress :
                   GoingOf(sent'[m], interfaces'[m], h) = GoingOf(sent[m], interfaces[m], h)
  <2>1. CASE m = n
    BY <1>7, <1>8, <1>9, <2>1
  <2>2. CASE m # n
    BY <1>1, <1>9, <2>2
  <2> QED
    BY <2>1, <2>2
<1> QED
  BY <1>5, <1>9, <1>10

\* tick() gives no next hop anything new.
LEMMA TickSteady ==
  ASSUME RouterInv, Tick
  PROVE  /\ DOMAIN interfaces' = Interface /\ sent' \in [Interface -> Seq(FrameRecord)]
         /\ UNCHANGED <<routes, added, arrived, sent>>
         /\ \A n \in Interface :
              /\ interfaces'[n] = InterfaceTick(interfaces[n], 1)
              /\ Port(n, sent'[n], interfaces'[n], arrived)
              /\ interfaces'[n].datagrams_received = interfaces[n].datagrams_received
              /\ \A h \in IPAddress :
                   GoingOf(sent'[n], interfaces'[n], h) \subseteq GoingOf(sent[n], interfaces[n], h)
<1>1. /\ \A n \in Interface : Port(n, sent[n], interfaces[n], arrived)
      /\ sent \in [Interface -> Seq(FrameRecord)]
  BY DEF RouterInv
<1>2. /\ interfaces' = [n \in Interface |-> InterfaceTick(interfaces[n], 1)]
      /\ UNCHANGED <<routes, added, arrived, sent>>
  BY DEF Tick
<1>3. \A n \in Interface : interfaces'[n] = InterfaceTick(interfaces[n], 1)
  BY <1>2
<1>4. DOMAIN interfaces' = Interface
  BY <1>2
<1>5. ASSUME NEW n \in Interface
      PROVE  /\ Port(n, sent[n], interfaces'[n], arrived)
             /\ interfaces'[n].datagrams_received = interfaces[n].datagrams_received
             /\ \A h \in IPAddress :
                  GoingOf(sent[n], interfaces'[n], h) \subseteq GoingOf(sent[n], interfaces[n], h)
  <2>1. interfaces'[n] = InterfaceTick(interfaces[n], 1) /\ Port(n, sent[n], interfaces[n], arrived)
    BY <1>1, <1>3
  <2> QED
    BY <2>1, PortTicks
<1> QED
  BY <1>1, <1>2, <1>3, <1>4, <1>5

\* With an empty table route() leaves everything as it is.
LEMMA NothingRouted ==
  ASSUME RouterInv, Route, routes = <<>>
  PROVE  UNCHANGED vars
<1>1. DOMAIN interfaces = Interface /\ sent \in [Interface -> Seq(FrameRecord)]
  BY DEF RouterInv
<1>2. RouteAll(interfaces, routes) = [interfaces |-> interfaces, out |-> Silent(interfaces)]
  BY DEF RouteAll
<1>3. /\ interfaces' = interfaces /\ UNCHANGED <<routes, added, arrived>>
      /\ sent' = [n \in Interface |-> sent[n] \o Silent(interfaces)[n]]
  <2> DEFINE ports == RouteAll(interfaces, routes)
  <2>1. ports.interfaces = interfaces /\ ports.out = Silent(interfaces)
    BY <1>2
  <2>2. /\ interfaces' = ports.interfaces /\ UNCHANGED <<routes, added, arrived>>
        /\ sent' = [n \in Interface |-> sent[n] \o ports.out[n]]
    BY DEF Route, Transmits
  <2> HIDE DEF ports
  <2> QED
    BY <2>1, <2>2
<1>4. \A n \in Interface : sent[n] \o Silent(interfaces)[n] = sent[n]
  BY <1>1, ConcatEmptySeq DEF Silent
<1>5. sent' = [n \in Interface |-> sent[n]]
  BY <1>3, <1>4
<1>6. sent' = sent
  BY <1>1, <1>5
<1> QED
  BY <1>3, <1>6 DEF vars

\* route() keeps the invariant.
LEMMA RouteStep ==
  ASSUME RouterInv, TableInv', Route
  PROVE  RouterInv'
<1>1. CASE routes = <<>>
  BY <1>1, NothingRouted DEF RouterInv, vars
<1>2. CASE routes # <<>>
  <2> DEFINE seq == ReceivedBy(interfaces)
  <2>1. /\ DOMAIN interfaces' = Interface /\ sent' \in [Interface -> Seq(FrameRecord)]
        /\ \A n \in Interface :
             /\ Port(n, sent'[n], interfaces'[n], arrived)
             /\ interfaces'[n].datagrams_received = <<>>
             /\ \A h \in IPAddress :
                  GoingOf(sent'[n], interfaces'[n], h)
                    = GoingOf(sent[n], interfaces[n], h) \cup Forwarded(routes, seq, Taken, n, h)
    BY <1>2, RouteEffect
  <2>2. arrived' = arrived
    BY DEF Route
  <2>3. /\ seq \in Seq(Datagram) /\ Taken = Len(seq)
        /\ Range(seq) = UNION { Range(interfaces[n].datagrams_received) : n \in Interface }
    BY ReceivedInOrder DEF Taken
  <2> HIDE DEF seq
  <2>4. \A m \in DOMAIN seq : seq[m].id \in DOMAIN arrived
    <3> SUFFICES ASSUME NEW m \in DOMAIN seq PROVE seq[m].id \in DOMAIN arrived
      OBVIOUS
    <3>1. PICK n \in Interface : seq[m] \in Range(interfaces[n].datagrams_received)
      BY <2>3 DEF Range
    <3>2. ReceivedOf(n, interfaces[n], arrived)
      BY DEF RouterInv
    <3> QED
      BY <3>1, <3>2 DEF ReceivedOf, Range
  <2>5. ASSUME NEW n \in Interface, NEW h \in IPAddress,
               NEW d \in Forwarded(routes, seq, Taken, n, h)
        PROVE  d.id \in DOMAIN arrived
    <3>1. PICK m \in 1 .. Taken : d = Aged(seq[m]) /\ GoesBy(routes, seq[m], n, h)
      BY DEF Forwarded
    <3>2. m \in DOMAIN seq /\ seq[m] \in Datagram
      BY <2>3, LenProperties, ElementOfSeq
    <3>3. d.id = seq[m].id
      BY <3>1, <3>2, AgedDatagram DEF GoesBy
    <3> QED
      BY <2>4, <3>2, <3>3
  <2>6. ASSUME NEW n \in Interface
        PROVE  /\ \A h \in IPAddress : \A d \in GoingOf(sent'[n], interfaces'[n], h) :
                    d.id \in DOMAIN arrived
               /\ ReceivedOf(n, interfaces'[n], arrived)
               /\ RoutedBefore(n, interfaces', sent', arrived)
    <3>1. \A h \in IPAddress : \A d \in GoingOf(sent[n], interfaces[n], h) : d.id \in DOMAIN arrived
      BY DEF RouterInv
    <3>2. \A h \in IPAddress : \A d \in GoingOf(sent'[n], interfaces'[n], h) : d.id \in DOMAIN arrived
      BY <2>1, <2>5, <3>1
    <3> DEFINE queue == interfaces'[n].datagrams_received
    <3>3. queue = <<>>
      BY <2>1
    <3> HIDE DEF queue
    <3>4. DOMAIN queue = {} /\ Range(queue) = {}
      BY <3>3 DEF Range
    <3> QED
      BY <3>2, <3>4 DEF ReceivedOf, RoutedBefore, queue
  <2> QED
    BY <2>1, <2>2, <2>6 DEF RouterInv
<1> QED
  BY <1>1, <1>2

\* What the arrival of a datagram changes, and what it does not.
LEMMA ArriveEffect ==
  ASSUME RouterInv, NEW n \in Interface, NEW dst \in Destinations, NEW ttl \in Lifetimes,
         Arrive(n, dst, ttl),
         NEW d, d = [id |-> Len(arrived) + 1, dst |-> dst, ttl |-> ttl]
  PROVE  /\ d \in Datagram /\ arrived' = Append(arrived, [datagram |-> d, at |-> n])
         /\ DOMAIN interfaces' = Interface /\ UNCHANGED <<routes, added, sent>>
         /\ NicOf(n, interfaces'[n]) /\ interfaces'[n].datagram_q = interfaces[n].datagram_q
         /\ interfaces'[n].datagrams_received = Append(interfaces[n].datagrams_received, d)
         /\ \A m \in Interface : m # n => interfaces'[m] = interfaces[m]
<1>1. d \in Datagram /\ d = [id |-> Len(arrived) + 1, dst |-> dst, ttl |-> ttl]
  <2>1. Len(arrived) + 1 \in Nat
    BY LenProperties DEF RouterInv
  <2> QED
    BY <2>1, RouterAssumption DEF Datagram
<1>2. PICK src \in Neighbour :
        Receives(n, [dst |-> OwnAddress[n], src |-> src, type |-> "IPv4", payload |-> d])
  BY DEF Arrive
<1> DEFINE frame == [dst |-> OwnAddress[n], src |-> src, type |-> "IPv4", payload |-> d]
           step == RecvFrame(interfaces[n], frame)
<1>3. frame.type = "IPv4" /\ frame.payload = d /\ frame.dst = OwnAddress[n]
  OBVIOUS
<1>4. NicOf(n, interfaces[n]) /\ sent \in [Interface -> Seq(FrameRecord)]
  BY DEF RouterInv, Port
<1>5. Receives(n, frame)
  BY <1>2
<1> HIDE DEF frame
<1>6. /\ NicOf(n, step.nic) /\ step.out = <<>>
      /\ step.nic.datagrams_received = Append(interfaces[n].datagrams_received, d)
      /\ step.nic.datagram_q = interfaces[n].datagram_q
  BY <1>1, <1>3, <1>4, ArrivalEffect
<1> HIDE DEF step
<1>7. step.out \in Seq(FrameRecord)
  BY <1>6, EmptySeq
<1>8. /\ DOMAIN interfaces' = Interface /\ sent' \in [Interface -> Seq(FrameRecord)]
      /\ interfaces'[n] = step.nic /\ sent'[n] = sent[n] \o step.out
      /\ \A m \in Interface : m # n => interfaces'[m] = interfaces[m] /\ sent'[m] = sent[m]
      /\ UNCHANGED <<routes, added>>
  BY <1>5, <1>7, OneReceives DEF step
<1>9. sent'[n] = sent[n]
  BY <1>4, <1>6, <1>8, ConcatEmptySeq
<1>10. sent' = sent
  <2>1. \A m \in Interface : sent'[m] = sent[m]
    BY <1>8, <1>9
  <2> QED
    BY <1>4, <1>8, <2>1
<1>11. arrived' = Append(arrived, [datagram |-> d, at |-> n])
  BY DEF Arrive
<1> QED
  BY <1>1, <1>6, <1>8, <1>10, <1>11

\* The arrival of a datagram keeps the invariant.
LEMMA ArriveStep ==
  ASSUME RouterInv, TableInv', NEW n \in Interface, NEW dst \in Destinations,
         NEW ttl \in Lifetimes, Arrive(n, dst, ttl)
  PROVE  RouterInv'
<1> DEFINE d == [id |-> Len(arrived) + 1, dst |-> dst, ttl |-> ttl]
           x == [datagram |-> d, at |-> n]
           N == Len(arrived)
<1>1. d.id = N + 1 /\ x.datagram = d /\ x.at = n
  OBVIOUS
<1> HIDE DEF d
<1>2. /\ d \in Datagram /\ arrived' = Append(arrived, x)
      /\ DOMAIN interfaces' = Interface /\ UNCHANGED <<routes, added, sent>>
      /\ NicOf(n, interfaces'[n]) /\ interfaces'[n].datagram_q = interfaces[n].datagram_q
      /\ interfaces'[n].datagrams_received = Append(interfaces[n].datagrams_received, d)
      /\ \A m \in Interface : m # n => interfaces'[m] = interfaces[m]
  BY ArriveEffect DEF d
<1>3. x \in Arrivals
  BY <1>2 DEF Arrivals
<1> HIDE DEF x
<1>4. /\ arrived' \in Seq(Arrivals) /\ N \in Nat /\ DOMAIN arrived = 1 .. N
      /\ DOMAIN arrived' = 1 .. N + 1 /\ arrived'[N + 1] = x
      /\ \A k \in 1 .. N : arrived'[k] = arrived[k]
  <2>1. arrived \in Seq(Arrivals)
    BY DEF RouterInv
  <2> QED
    BY <1>2, <1>3, <2>1, AppendProperties, LenProperties
<1> HIDE DEF N
<1>5. \A k \in DOMAIN arrived' : arrived'[k].datagram.id = k
  <2>1. \A k \in 1 .. N : arrived[k].datagram.id = k
    BY <1>4 DEF RouterInv
  <2>2. \A k \in 1 .. N + 1 : k \in 1 .. N \/ k = N + 1
    BY <1>4
  <2> QED
    BY <1>1, <1>4, <2>1, <2>2
\* Turns among the datagrams that arrived before, and of the new one.
<1>6. \A a, b : a.id \in 1 .. N /\ b.id \in 1 .. N /\ Turn(arrived, a, b) => Turn(arrived', a, b)
  BY <1>4 DEF Turn
<1>7. \A a : a.id \in 1 .. N => Turn(arrived', a, d)
  BY <1>1, <1>4 DEF Turn
<1>8. ASSUME NEW m \in Interface
      PROVE  /\ Port(m, sent[m], interfaces[m], arrived)
             /\ \A h \in IPAddress : \A e \in GoingOf(sent[m], interfaces[m], h) : e.id \in 1 .. N
             /\ ReceivedOf(m, interfaces[m], arrived)
             /\ RoutedBefore(m, interfaces, sent, arrived)
             /\ NicOf(m, interfaces[m])
  BY <1>4 DEF RouterInv, Port
<1>9. ASSUME NEW m \in Interface
      PROVE  /\ NicOf(m, interfaces'[m]) /\ interfaces'[m].datagram_q = interfaces[m].datagram_q
             /\ \A h : GoingOf(sent[m], interfaces'[m], h) = GoingOf(sent[m], interfaces[m], h)
  <2>1. NicOf(m, interfaces'[m]) /\ interfaces'[m].datagram_q = interfaces[m].datagram_q
    BY <1>2, <1>8
  <2> QED
    BY <2>1 DEF GoingOf, WaitingFor
<1>10. ASSUME NEW m \in Interface PROVE Port(m, sent[m], interfaces'[m], arrived')
  <2>1. \A h \in IPAddress : \A a, b \in GoingOf(sent[m], interfaces[m], h) :
          Turn(arrived, a, b) => Turn(arrived', a, b)
    BY <1>6, <1>8
  <2> QED
    BY <1>8, <1>9, <2>1, PortLater
<1>11. ASSUME NEW m \in Interface
       PROVE  /\ ReceivedOf(m, interfaces'[m], arrived')
              /\ Range(interfaces'[m].datagrams_received)
                   \subseteq Range(interfaces[m].datagrams_received) \cup {d}
  <2> DEFINE old == interfaces[m].datagrams_received
             queue == interfaces'[m].datagrams_received
  <2>1. /\ old \in Seq(Datagram)
        /\ \A k \in DOMAIN old : /\ old[k].id \in 1 .. N /\ old[k] = arrived[old[k].id].datagram
                                 /\ arrived[old[k].id].at = m
        /\ \A j, k \in DOMAIN old : j < k => old[j].id < old[k].id
    <3>1. ReceivedOf(m, interfaces[m], arrived) /\ interfaces[m] \in NicRecord
      BY <1>8 DEF NicOf
    <3> QED
      BY <1>4, <3>1 DEF ReceivedOf, NicRecord
  <2>2. \A k \in DOMAIN old : /\ old[k].id \in 1 .. N + 1
                              /\ old[k] = arrived'[old[k].id].datagram
                              /\ arrived'[old[k].id].at = m
    BY <1>4, <2>1
  <2>3. CASE m # n
    <3>1. queue = old
      BY <1>2, <2>3
    <3> QED
      BY <1>4, <2>1, <2>2, <3>1 DEF ReceivedOf
  <2>4. CASE m = n
    <3> DEFINE L == Len(old)
    <3>1. queue = Append(old, d)
      BY <1>2, <2>4
    <3>2. /\ L \in Nat /\ DOMAIN old = 1 .. L /\ DOMAIN queue = 1 .. L + 1
          /\ queue[L + 1] = d /\ \A k \in 1 .. L : queue[k] = old[k]
      BY <1>2, <2>1, <3>1, AppendProperties, LenProperties
    <3> HIDE DEF old, queue, L
    <3>3. \A k \in 1 .. L + 1 : k \in 1 .. L \/ k = L + 1
      BY <3>2
    <3>4. Range(queue) \subseteq Range(old) \cup {d}
      BY <3>2, <3>3 DEF Range
    <3>5. d.id \in 1 .. N + 1 /\ d = arrived'[d.id].datagram /\ arrived'[d.id].at = m
      <4>1. N + 1 \in 1 .. N + 1
        BY <1>4
      <4> QED
        BY <1>1, <1>4, <2>4, <4>1
    <3>6. ASSUME NEW k \in DOMAIN queue
          PROVE  /\ queue[k].id \in DOMAIN arrived' /\ queue[k] = arrived'[queue[k].id].datagram
                 /\ arrived'[queue[k].id].at = m
      BY <1>4, <2>2, <3>2, <3>3, <3>5
    <3>7. ASSUME NEW j \in DOMAIN queue, NEW k \in DOMAIN queue, j < k
          PROVE  queue[j].id < queue[k].id
      <4>1. j \in 1 .. L
        BY <3>2, <3>7
      <4>2. queue[j] = old[j] /\ old[j].id \in 1 .. N
        BY <2>1, <3>2, <4>1
      <4>3. CASE k \in 1 .. L
        BY <2>1, <3>2, <3>7, <4>1, <4>3
      <4>4. CASE k = L + 1
        BY <1>1, <1>4, <3>2, <4>2, <4>4
      <4> QED
        BY <3>2, <3>3, <4>3, <4>4
    <3> QED
      BY <3>4, <3>6, <3>7 DEF ReceivedOf, old, queue
  <2> QED
    BY <2>3, <2>4
<1>12. ASSUME NEW m \in Interface PROVE RoutedBefore(m, interfaces', sent, arrived')
  <2> SUFFICES ASSUME NEW i \in Interface, NEW h \in IPAddress,
                      NEW a \in GoingOf(sent[i], interfaces'[i], h),
                      NEW e \in Range(interfaces'[m].datagrams_received)
               PROVE  Turn(arrived', a, e)
    BY DEF RoutedBefore
  <2>1. a \in GoingOf(sent[i], interfaces[i], h) /\ a.id \in 1 .. N
    BY <1>8, <1>9
  <2>2. CASE e = d
    BY <1>7, <2>1, <2>2
  <2>3. CASE e \in Range(interfaces[m].datagrams_received)
    <3>1. Turn(arrived, a, e)
      BY <1>8, <2>1, <2>3 DEF RoutedBefore
    <3>2. e.id \in 1 .. N
      BY <1>4, <1>8, <2>3 DEF ReceivedOf, Range
    <3> QED
      BY <1>6, <2>1, <3>1, <3>2
  <2> QED
    BY <1>11, <2>2, <2>3
<1>13. \A m \in Interface : \A h \in IPAddress :
         \A e \in GoingOf(sent[m], interfaces'[m], h) : e.id \in DOMAIN arrived'
  <2>1. \A k \in 1 .. N : k \in 1 .. N + 1
    BY <1>4
  <2> QED
    BY <1>4, <1>8, <1>9, <2>1
<1>14. sent' = sent /\ sent \in [Interface -> Seq(FrameRecord)]
  BY <1>2 DEF RouterInv
<1> QED
  BY <1>2, <1>4, <1>5, <1>10, <1>11, <1>12, <1>13, <1>14 DEF RouterInv

\* A new router satisfies the invariant.
LEMMA RouterInit ==
  ASSUME Init
  PROVE  RouterInv
<1>1. /\ interfaces = [n \in Interface |-> NewInterface(OwnAddress[n], OwnAddress[n])]
      /\ routes = <<>> /\ added = {} /\ arrived = <<>> /\ sent = [n \in Interface |-> <<>>]
  BY DEF Init
<1>2. TableInv
  BY <1>1 DEF TableInv, LongestFirst, InTable
<1>3. arrived \in Seq(Arrivals) /\ DOMAIN arrived = {}
  BY <1>1, EmptySeq
<1>4. DOMAIN interfaces = Interface /\ sent \in [Interface -> Seq(FrameRecord)]
  <2>1. <<>> \in Seq(FrameRecord)
    BY EmptySeq
  <2> QED
    BY <1>1, <2>1
<1>5. ASSUME NEW n \in Interface
      PROVE  /\ Port(n, sent[n], interfaces[n], arrived)
             /\ \A h \in IPAddress : GoingOf(sent[n], interfaces[n], h) = {}
             /\ ReceivedOf(n, interfaces[n], arrived)
             /\ Range(interfaces[n].datagrams_received) = {}
  <2> DEFINE nic == interfaces[n]
             a == OwnAddress[n]
             none == <<>>
             empty == NoKeys
  <2>1. a \in IPAddress
    BY RouterAssumption DEF Interface
  <2>2. none \in Seq(Datagram) /\ none \in Seq(FrameRecord) /\ DOMAIN none = {}
    BY EmptySeq
  <2>3. \A V : empty \in PartialTo(V)
    <3>1. {} \in SUBSET IPAddress /\ \A V : empty \in [{} -> V]
      BY DEF NoKeys
    <3> HIDE DEF empty
    <3> QED
      BY <3>1, PartialIn
  <2>4. DOMAIN empty = {}
    BY DEF NoKeys
  <2>5. nic = [ethernet_address |-> a, ip_address |-> a, cache |-> empty,
               arp_timestamps |-> empty, datagram_q |-> empty, datagrams_received |-> none]
    BY <1>1 DEF NewInterface
  <2>6. sent[n] = none
    BY <1>1
  <2> HIDE DEF nic, a, none, empty
  <2>7. empty \in Mappings /\ empty \in Timestamps /\ empty \in Queues
    BY <2>3 DEF Mappings, Timestamps, Queues
  <2>8. /\ nic \in NicRecord /\ nic.cache = empty /\ nic.datagram_q = empty
        /\ nic.ethernet_address = a /\ nic.datagrams_received = none
    BY <2>1, <2>2, <2>5, <2>7 DEF NicRecord
  <2>9. NicOf(n, nic)
    BY <2>4, <2>8 DEF NicOf, a
  <2>10. \A h : WaitingFor(nic, h) = <<>>
    BY <2>4, <2>8 DEF WaitingFor
  <2>11. \A h : Order(none, <<>>, h, arrived) /\ Going(none, <<>>, h) = {}
    <3>1. DOMAIN none = {} /\ DOMAIN <<>> = {}
      BY <2>2
    <3>2. Range(<<>>) = {} /\ \A h : Left(none, h) = {}
      BY <3>1 DEF Range, Left
    <3> QED
      BY <3>1, <3>2 DEF Order, Going
  <2>12. Port(n, none, nic, arrived) /\ \A h : GoingOf(none, nic, h) = {}
    BY <2>2, <2>9, <2>10, <2>11 DEF Port, GoingOf
  <2>13. ReceivedOf(n, nic, arrived) /\ Range(nic.datagrams_received) = {}
    BY <2>2, <2>8 DEF ReceivedOf, Range
  <2> QED
    BY <2>6, <2>12, <2>13 DEF nic
<1>6. \A n \in Interface : RoutedBefore(n, interfaces, sent, arrived)
  BY <1>5 DEF RoutedBefore
<1> QED
  BY <1>2, <1>3, <1>4, <1>5, <1>6 DEF RouterInv

\* Every step keeps the invariant.
LEMMA RouterStep ==
  ASSUME RouterInv, [Next]_vars
  PROVE  RouterInv'
<1>1. TableInv'
  BY TableStep DEF RouterInv
<1>2. CASE AddSome
  <2>1. UNCHANGED <<interfaces, arrived, sent>>
    BY <1>2 DEF AddSome, AddRoute
  <2> QED
    BY <1>1, <2>1 DEF RouterInv
<1>3. ASSUME NEW n \in Interface, NEW dst \in Destinations, NEW ttl \in Lifetimes,
             Arrive(n, dst, ttl)
      PROVE  RouterInv'
  BY <1>1, <1>3, ArriveStep
<1>4. ASSUME NEW n \in Interface, NEW hop \in Neighbour, Answer(n, hop)
      PROVE  RouterInv'
  BY <1>1, <1>4, AnswerSteady, Steady
<1>5. CASE Route
  BY <1>1, <1>5, RouteStep
<1>6. CASE Tick
  BY <1>1, <1>6, TickSteady, Steady
<1>7. CASE UNCHANGED vars
  BY <1>1, <1>7 DEF vars, RouterInv
<1> QED
  BY <1>2, <1>3, <1>4, <1>5, <1>6, <1>7 DEF Next

\* The inductive invariant of the router: every interface is in its types, holds
\* nothing back for an address it knows, keeps what it received as it arrived,
\* and has let go no datagram before one that arrived earlier by the same way.
THEOREM RouterInvariance == Spec => []RouterInv
<1>1. Init => RouterInv
  BY RouterInit
<1>2. RouterInv /\ [Next]_vars => RouterInv'
  BY RouterStep
<1> QED
  BY <1>1, <1>2, PTL DEF Spec

\* In every run the datagrams that come by one interface and go on by one
\* interface to one next hop do so in their order: those that had to wait for its
\* address are not overtaken by those that found it known (router.cc:29-77,
\* network_interface.cc:40-147).
THEOREM OrderStaysKept == Spec => []OrderKept
<1>1. RouterInv => OrderKept
  <2> SUFFICES ASSUME RouterInv, NEW i \in Interface, NEW hop \in IPAddress
               PROVE  LET frames  == sent[i]
                          waiting == WaitingFor(interfaces[i], hop)
                          toHop   == { k \in DOMAIN frames : IsFor(frames[k], hop) }
                      IN  /\ \A j, k \in toHop :
                               j < k => InTurn(frames[j].payload, frames[k].payload)
                          /\ \A j, k \in DOMAIN waiting : j < k => InTurn(waiting[j], waiting[k])
                          /\ \A j \in toHop, k \in DOMAIN waiting :
                               InTurn(frames[j].payload, waiting[k])
    BY DEF OrderKept
  <2> DEFINE frames == sent[i]
             waiting == WaitingFor(interfaces[i], hop)
             toHop == { k \in DOMAIN frames : IsFor(frames[k], hop) }
  <2>1. Order(frames, waiting, hop, arrived)
    BY DEF RouterInv, Port
  <2>2. \A a, b : InTurn(a, b) <=> Turn(arrived, a, b)
    BY DEF InTurn, Turn
  <2> HIDE DEF frames, waiting
  <2>3. \A j \in toHop : frames[j].payload \in Left(frames, hop)
    BY DEF Left
  <2>4. \A k \in DOMAIN waiting : waiting[k] \in Range(waiting)
    BY DEF Range
  <2>5. \A j, k \in toHop : j < k => InTurn(frames[j].payload, frames[k].payload)
    BY <2>1, <2>2 DEF Order
  <2>6. \A j, k \in DOMAIN waiting : j < k => InTurn(waiting[j], waiting[k])
    BY <2>1, <2>2 DEF Order
  <2>7. \A j \in toHop, k \in DOMAIN waiting : InTurn(frames[j].payload, waiting[k])
    BY <2>1, <2>2, <2>3, <2>4 DEF Order
  <2> QED
    BY <2>5, <2>6, <2>7 DEF frames, waiting
<1> QED
  BY <1>1, RouterInvariance, PTL

-----------------------------------------------------------------------------
(* Where datagrams are *)

IsReceived(n, nics) == \E i \in Interface : \E d \in Range(nics[i].datagrams_received) : d.id = n

IsGoing(n, frames, nics) ==
  \E i \in Interface, h \in IPAddress : \E d \in GoingOf(frames[i], nics[i], h) : d.id = n

\* ReceivedAt, WaitingAt and SentAt say where a datagram is, before and after a
\* step.
LEMMA WhereReceived ==
  ASSUME NEW n
  PROVE  /\ ReceivedAt(n) # {} <=> IsReceived(n, interfaces)
         /\ ReceivedAt(n)' # {} <=> IsReceived(n, interfaces')
<1> DEFINE At(nics) == UNION { {i} \X Positions(nics[i].datagrams_received, n) : i \in Interface }
<1>1. ASSUME NEW nics PROVE At(nics) # {} <=> IsReceived(n, nics)
  <2>1. ASSUME At(nics) # {} PROVE IsReceived(n, nics)
    <3>1. PICK i \in Interface : {i} \X Positions(nics[i].datagrams_received, n) # {}
      BY <2>1
    <3>2. PICK k : k \in Positions(nics[i].datagrams_received, n)
      BY <3>1
    <3> QED
      BY <3>2 DEF Positions, IsReceived, Range
  <2>2. ASSUME IsReceived(n, nics) PROVE At(nics) # {}
    <3>1. PICK i \in Interface : \E d \in Range(nics[i].datagrams_received) : d.id = n
      BY <2>2 DEF IsReceived
    <3>2. PICK k \in DOMAIN nics[i].datagrams_received : nics[i].datagrams_received[k].id = n
      BY <3>1 DEF Range
    <3>3. k \in Positions(nics[i].datagrams_received, n)
      BY <3>2 DEF Positions
    <3>4. <<i, k>> \in {i} \X Positions(nics[i].datagrams_received, n)
      BY <3>3
    <3>5. <<i, k>> \in At(nics)
      BY <3>4
    <3> QED
      BY <3>5
  <2> QED
    BY <2>1, <2>2
<1>2. ReceivedAt(n) = At(interfaces) /\ ReceivedAt(n)' = At(interfaces')
  BY DEF ReceivedAt
<1> HIDE DEF At
<1> QED
  BY <1>1, <1>2

IsWaiting(n, nics) ==
  \E i \in Interface, h \in IPAddress : \E d \in Range(WaitingFor(nics[i], h)) : d.id = n

\* A datagram has a place in WaitingAt exactly when it waits in an interface.
LEMMA WhereWaiting ==
  ASSUME NEW n
  PROVE  /\ WaitingAt(n) # {} <=> IsWaiting(n, interfaces)
         /\ WaitingAt(n)' # {} <=> IsWaiting(n, interfaces')
         /\ \A i \in Interface, h \in IPAddress : \A k \in DOMAIN WaitingFor(interfaces[i], h) :
              WaitingFor(interfaces[i], h)[k].id = n => <<i, h, k>> \in WaitingAt(n)
<1> DEFINE Places(nics, i, h) == {i} \X {h} \X Positions(WaitingFor(nics[i], h), n)
           At(nics) == UNION { Places(nics, i, h) : i \in Interface, h \in IPAddress }
<1>1. ASSUME NEW nics, NEW i \in Interface, NEW h \in IPAddress,
             NEW k \in DOMAIN WaitingFor(nics[i], h), WaitingFor(nics[i], h)[k].id = n
      PROVE  <<i, h, k>> \in At(nics)
  <2>1. k \in Positions(WaitingFor(nics[i], h), n)
    BY <1>1 DEF Positions
  <2>2. <<i, h, k>> \in Places(nics, i, h)
    BY <2>1
  <2> HIDE DEF Places
  <2> QED
    BY <2>2
<1>2. ASSUME NEW nics PROVE At(nics) # {} <=> IsWaiting(n, nics)
  <2>1. ASSUME At(nics) # {} PROVE IsWaiting(n, nics)
    <3>1. PICK i \in Interface, h \in IPAddress :
            {i} \X {h} \X Positions(WaitingFor(nics[i], h), n) # {}
      BY <2>1
    <3>2. PICK k : k \in Positions(WaitingFor(nics[i], h), n)
      BY <3>1
    <3> QED
      BY <3>2 DEF Positions, IsWaiting, Range
  <2>2. ASSUME IsWaiting(n, nics) PROVE At(nics) # {}
    <3>1. PICK i \in Interface, h \in IPAddress : \E d \in Range(WaitingFor(nics[i], h)) : d.id = n
      BY <2>2 DEF IsWaiting
    <3>2. PICK k \in DOMAIN WaitingFor(nics[i], h) : WaitingFor(nics[i], h)[k].id = n
      BY <3>1 DEF Range
    <3>3. <<i, h, k>> \in At(nics)
      BY <1>1, <3>2
    <3> QED
      BY <3>3
  <2> QED
    BY <2>1, <2>2
<1>3. WaitingAt(n) = At(interfaces) /\ WaitingAt(n)' = At(interfaces')
  BY DEF WaitingAt
<1> HIDE DEF At
<1> QED
  BY <1>1, <1>2, <1>3

IsSent(n, frames) ==
  \E i \in Interface : \E k \in DOMAIN frames[i] :
    frames[i][k].type = "IPv4" /\ frames[i][k].payload.id = n

\* A datagram has a place in SentAt exactly when a frame has taken it along.
LEMMA WhereSent ==
  ASSUME NEW n
  PROVE  /\ SentAt(n) # {} <=> IsSent(n, sent)
         /\ SentAt(n)' # {} <=> IsSent(n, sent')
<1> DEFINE Places(frames, i) ==
             { k \in DOMAIN frames[i] : frames[i][k].type = "IPv4" /\ frames[i][k].payload.id = n }
           At(frames) == UNION { {i} \X Places(frames, i) : i \in Interface }
<1>1. ASSUME NEW frames PROVE At(frames) # {} <=> IsSent(n, frames)
  <2>1. ASSUME At(frames) # {} PROVE IsSent(n, frames)
    <3>1. PICK i \in Interface : {i} \X Places(frames, i) # {}
      BY <2>1
    <3>2. PICK k : k \in Places(frames, i)
      BY <3>1
    <3> QED
      BY <3>2 DEF IsSent
  <2>2. ASSUME IsSent(n, frames) PROVE At(frames) # {}
    <3>0. PICK i \in Interface : \E k \in DOMAIN frames[i] :
            frames[i][k].type = "IPv4" /\ frames[i][k].payload.id = n
      BY <2>2 DEF IsSent
    <3>1. PICK k \in DOMAIN frames[i] :
            frames[i][k].type = "IPv4" /\ frames[i][k].payload.id = n
      BY <3>0
    <3>2. k \in Places(frames, i)
      BY <3>1
    <3> HIDE DEF Places
    <3>3. <<i, k>> \in {i} \X Places(frames, i)
      BY <3>2
    <3>4. <<i, k>> \in At(frames)
      BY <3>3
    <3> QED
      BY <3>4
  <2> QED
    BY <2>1, <2>2
<1>2. SentAt(n) = At(sent) /\ SentAt(n)' = At(sent')
  BY DEF SentAt
<1> HIDE DEF At
<1> QED
  BY <1>1, <1>2

\* What goes to a next hop has been sent or waits.
LEMMA WhereGoing ==
  ASSUME NEW n, NEW frames \in [Interface -> Seq(FrameRecord)], NEW nics
  PROVE  IsGoing(n, frames, nics) <=> IsWaiting(n, nics) \/ IsSent(n, frames)
<1>1. ASSUME IsGoing(n, frames, nics) PROVE IsWaiting(n, nics) \/ IsSent(n, frames)
  <2>1. PICK i \in Interface, h \in IPAddress : \E d \in GoingOf(frames[i], nics[i], h) : d.id = n
    BY <1>1 DEF IsGoing
  <2>2. PICK d \in GoingOf(frames[i], nics[i], h) : d.id = n
    BY <2>1
  <2>3. CASE d \in Range(WaitingFor(nics[i], h))
    BY <2>2, <2>3 DEF IsWaiting
  <2>4. CASE d \in Left(frames[i], h)
    <3>1. PICK k \in DOMAIN frames[i] : IsFor(frames[i][k], h) /\ d = frames[i][k].payload
      BY <2>4 DEF Left
    <3> QED
      BY <2>2, <3>1 DEF IsFor, IsSent
  <2> QED
    BY <2>3, <2>4 DEF GoingOf, Going
<1>2. ASSUME IsWaiting(n, nics) PROVE IsGoing(n, frames, nics)
  BY <1>2 DEF IsWaiting, IsGoing, GoingOf, Going
<1>3. ASSUME IsSent(n, frames) PROVE IsGoing(n, frames, nics)
  <2>0. PICK i \in Interface : \E k \in DOMAIN frames[i] :
          frames[i][k].type = "IPv4" /\ frames[i][k].payload.id = n
    BY <1>3 DEF IsSent
  <2>1. PICK k \in DOMAIN frames[i] :
          frames[i][k].type = "IPv4" /\ frames[i][k].payload.id = n
    BY <2>0
  <2> DEFINE f == frames[i][k]
  <2>2. f \in FrameRecord
    <3>1. frames[i] \in Seq(FrameRecord)
      OBVIOUS
    <3> QED
      BY <3>1, ElementOfSeq, LenProperties
  <2> DEFINE h == f.dst
  <2>3. h \in IPAddress /\ IsFor(f, h)
    BY <2>1, <2>2 DEF FrameRecord, IsFor
  <2>4. f.payload \in Left(frames[i], h)
    BY <2>3 DEF Left
  <2> QED
    BY <2>1, <2>3, <2>4 DEF IsGoing, GoingOf, Going
<1> QED
  BY <1>1, <1>2, <1>3

\* A datagram that an interface has received is the one that arrived there, and
\* nothing with its number goes to a next hop yet.
LEMMA NotYetRouted ==
  ASSUME RouterInv, NEW n, NEW m \in Interface,
         NEW e \in Range(interfaces[m].datagrams_received), e.id = n
  PROVE  /\ n \in DOMAIN arrived /\ e = arrived[n].datagram
         /\ ~ IsGoing(n, sent, interfaces)
<1>1. /\ ReceivedOf(m, interfaces[m], arrived) /\ RoutedBefore(m, interfaces, sent, arrived)
      /\ arrived \in Seq(Arrivals)
  BY DEF RouterInv
<1>2. n \in DOMAIN arrived /\ e = arrived[n].datagram
  BY <1>1 DEF ReceivedOf, Range
<1>3. n \in Nat
  BY <1>1, <1>2, LenProperties
<1>4. ASSUME IsGoing(n, sent, interfaces) PROVE FALSE
  <2>1. PICK i \in Interface, h \in IPAddress :
          \E d \in GoingOf(sent[i], interfaces[i], h) : d.id = n
    BY <1>4 DEF IsGoing
  <2>2. PICK d \in GoingOf(sent[i], interfaces[i], h) : d.id = n
    BY <2>1
  <2>3. Turn(arrived, d, e)
    BY <1>1 DEF RoutedBefore
  <2>4. n < n
    BY <2>2, <2>3 DEF Turn
  <2> QED
    BY <1>3, <2>4
<1> QED
  BY <1>2, <1>4

\* The lookup finds a best route, if there is one.
LEMMA LookupIsBest ==
  ASSUME TableInv, NEW dst \in IPAddress
  PROVE  IF BestRoutes(dst) = {} THEN RouteFor(routes, dst) = NoRoute
         ELSE RouteFor(routes, dst) \in BestRoutes(dst) /\ RouteFor(routes, dst) # NoRoute
<1>1. added \subseteq Routes /\ routes \in Seq(Routes) /\ LongestFirst(routes)
  <2>1. routes \in Seq(Routes) /\ InTable(routes) = added
    BY DEF TableInv
  <2> QED
    BY <2>1 DEF TableInv, InTable
<1>2. Matching(dst) = { r \in added : Covers(r, dst) }
  BY <1>1, MatchesIsCovers DEF Matching
<1>3. IF Matching(dst) = {} THEN RouteFor(routes, dst) = NoRoute
                            ELSE RouteFor(routes, dst) \in Longest(Matching(dst))
  <2>1. \A r \in Routes : r.prefix_length \in Nat
    BY RouterAssumption, AddressAssumption
  <2> QED
    BY <1>1, <2>1, FirstIsLongest DEF TableInv, Matching
<1>4. BestRoutes(dst) = Longest(Matching(dst)) /\ Longest(Matching(dst)) \subseteq Matching(dst)
  BY <1>2 DEF BestRoutes, Longest
<1>5. NoRoute \notin Matching(dst)
  BY <1>1, RouterAssumption DEF Matching
<1> QED
  BY <1>3, <1>4, <1>5

\* The datagrams that route() takes are those that were received.
LEMMA TakenIsReceived ==
  ASSUME RouterInv, NEW m \in 1 .. Taken
  PROVE  /\ ReceivedBy(interfaces)[m] \in Datagram
         /\ \E i \in Interface :
              ReceivedBy(interfaces)[m] \in Range(interfaces[i].datagrams_received)
<1> DEFINE seq == ReceivedBy(interfaces)
<1>1. /\ seq \in Seq(Datagram)
      /\ Range(seq) = UNION { Range(interfaces[n].datagrams_received) : n \in Interface }
  BY ReceivedInOrder
<1>2. m \in DOMAIN seq
  BY <1>1, LenProperties DEF Taken
<1> HIDE DEF seq
<1>3. seq[m] \in Datagram /\ seq[m] \in Range(seq)
  BY <1>1, <1>2, ElementOfSeq, LenProperties DEF Range
<1> QED
  BY <1>1, <1>3 DEF seq

\* And all that was received is taken.
LEMMA ReceivedIsTaken ==
  ASSUME RouterInv, NEW i \in Interface, NEW e \in Range(interfaces[i].datagrams_received)
  PROVE  \E m \in 1 .. Taken : ReceivedBy(interfaces)[m] = e
<1> DEFINE seq == ReceivedBy(interfaces)
<1>1. /\ seq \in Seq(Datagram)
      /\ Range(seq) = UNION { Range(interfaces[n].datagrams_received) : n \in Interface }
  BY ReceivedInOrder
<1>2. e \in Range(seq)
  BY <1>1
<1> HIDE DEF seq
<1> QED
  BY <1>1, <1>2, LenProperties DEF Range, Taken, seq

-----------------------------------------------------------------------------
(* Where route() sends datagrams, and which it drops *)

\* Only route() gives a next hop a datagram that did not go to it before.
LEMMA OnlyRouteAdds ==
  ASSUME RouterInv, Next, ~ Route
  PROVE  /\ \A i \in Interface, h \in IPAddress :
              GoingOf(sent'[i], interfaces'[i], h) \subseteq GoingOf(sent[i], interfaces[i], h)
         /\ \A n : IsReceived(n, interfaces) => IsReceived(n, interfaces')
         /\ ~ Tick => \A i \in Interface, h \in IPAddress :
              GoingOf(sent'[i], interfaces'[i], h) = GoingOf(sent[i], interfaces[i], h)
<1>1. CASE AddSome
  <2>1. UNCHANGED <<interfaces, sent>>
    BY <1>1 DEF AddSome, AddRoute
  <2> QED
    BY <2>1
<1>2. ASSUME NEW m \in Interface, NEW dst \in Destinations, NEW ttl \in Lifetimes,
             Arrive(m, dst, ttl)
      PROVE  /\ \A i \in Interface, h \in IPAddress :
                  GoingOf(sent'[i], interfaces'[i], h) = GoingOf(sent[i], interfaces[i], h)
             /\ \A n : IsReceived(n, interfaces) => IsReceived(n, interfaces')
  <2> DEFINE d == [id |-> Len(arrived) + 1, dst |-> dst, ttl |-> ttl]
             old == interfaces[m].datagrams_received
             queue == interfaces'[m].datagrams_received
  <2> HIDE DEF d
  <2>1. /\ d \in Datagram /\ arrived' = Append(arrived, [datagram |-> d, at |-> m])
        /\ DOMAIN interfaces' = Interface /\ UNCHANGED <<routes, added, sent>>
        /\ NicOf(m, interfaces'[m]) /\ interfaces'[m].datagram_q = interfaces[m].datagram_q
        /\ interfaces'[m].datagrams_received = Append(interfaces[m].datagrams_received, d)
        /\ \A i \in Interface : i # m => interfaces'[i] = interfaces[i]
    BY <1>2, ArriveEffect DEF d
  <2>2. \A i \in Interface : interfaces'[i].datagram_q = interfaces[i].datagram_q
    BY <2>1
  <2>3. \A i \in Interface, h \in IPAddress :
          GoingOf(sent'[i], interfaces'[i], h) = GoingOf(sent[i], interfaces[i], h)
    BY <2>1, <2>2 DEF GoingOf, WaitingFor
  <2>4. old \in Seq(Datagram)
    BY DEF RouterInv, Port, NicOf, NicRecord
  <2>5. Range(old) \subseteq Range(queue)
    <3> DEFINE L == Len(old)
    <3>1. L \in Nat /\ DOMAIN old = 1 .. L /\ DOMAIN queue = 1 .. L + 1
          /\ \A k \in 1 .. L : queue[k] = old[k] /\ k \in 1 .. L + 1
      BY <2>1, <2>4, AppendProperties, LenProperties
    <3> HIDE DEF old, queue, L
    <3> QED
      BY <3>1 DEF Range
  <2>6. \A i \in Interface :
          Range(interfaces[i].datagrams_received) \subseteq Range(interfaces'[i].datagrams_received)
    BY <2>1, <2>5
  <2> QED
    BY <2>3, <2>6 DEF IsReceived
<1>3. ASSUME NEW m \in Interface, NEW hop \in Neighbour, Answer(m, hop)
      PROVE  /\ \A i \in Interface, h \in IPAddress :
                  GoingOf(sent'[i], interfaces'[i], h) = GoingOf(sent[i], interfaces[i], h)
             /\ \A n : IsReceived(n, interfaces) => IsReceived(n, interfaces')
  <2>1. \A i \in Interface :
          /\ interfaces'[i].datagrams_received = interfaces[i].datagrams_received
          /\ \A h \in IPAddress :
               GoingOf(sent'[i], interfaces'[i], h) = GoingOf(sent[i], interfaces[i], h)
    BY <1>3, AnswerSteady
  <2> QED
    BY <2>1 DEF IsReceived
<1>4. CASE Tick
  <2>1. \A i \in Interface :
          /\ interfaces'[i].datagrams_received = interfaces[i].datagrams_received
          /\ \A h \in IPAddress :
               GoingOf(sent'[i], interfaces'[i], h) \subseteq GoingOf(sent[i], interfaces[i], h)
    BY <1>4, TickSteady
  <2> QED
    BY <1>4, <2>1 DEF IsReceived
<1> QED
  BY <1>1, <1>2, <1>3, <1>4 DEF Next

\* Whatever route() hands to an interface for a next hop goes by a longest one
\* among the prefixes added that cover its destination, the comparison of bits
\* and the sorted table included (router.cc:38-77).
THEOREM BestRouteFollowed == Spec => FollowsBestRoute
<1> DEFINE Followed ==
      \A n \in Ids, i \in Interface, hop \in IPAddress :
        ReceivedAt(n) # {} /\ (\E datagram \in Onward(i, hop)' : datagram.id = n)
          => \E route \in BestRoutes(arrived[n].datagram.dst) :
               route.interface_num = i /\ HopOf(route, arrived[n].datagram) = hop
<1>1. RouterInv /\ [Next]_vars => [Followed]_vars
  <2> SUFFICES ASSUME RouterInv, Next, NEW n \in Ids, NEW i \in Interface, NEW hop \in IPAddress,
                      ReceivedAt(n) # {}, NEW d \in Onward(i, hop)', d.id = n
               PROVE  \E route \in BestRoutes(arrived[n].datagram.dst) :
                        route.interface_num = i /\ HopOf(route, arrived[n].datagram) = hop
    OBVIOUS
  <2>1. d \in GoingOf(sent'[i], interfaces'[i], hop)
    BY DEF Onward, GoingOf, Going
  <2>2. PICK m \in Interface : \E e \in Range(interfaces[m].datagrams_received) : e.id = n
    BY WhereReceived DEF IsReceived
  <2>3. ~ IsGoing(n, sent, interfaces)
    BY <2>2, NotYetRouted
  <2>4. d \notin GoingOf(sent[i], interfaces[i], hop)
    BY <2>3 DEF IsGoing
  <2>5. Route
    BY <2>1, <2>4, OnlyRouteAdds
  <2>6. routes # <<>>
    <3> SUFFICES ASSUME routes = <<>> PROVE FALSE
      OBVIOUS
    <3>1. UNCHANGED <<interfaces, sent>>
      BY <2>5, NothingRouted DEF vars
    <3> QED
      BY <2>1, <2>4, <3>1
  <2>7. d \in Forwarded(routes, ReceivedBy(interfaces), Taken, i, hop)
    BY <2>1, <2>4, <2>5, <2>6, RouteEffect
  <2>8. PICK k \in 1 .. Taken : d = Aged(ReceivedBy(interfaces)[k])
                                /\ GoesBy(routes, ReceivedBy(interfaces)[k], i, hop)
    BY <2>7 DEF Forwarded
  <2> DEFINE e == ReceivedBy(interfaces)[k]
  <2>9. e \in Datagram /\ \E j \in Interface : e \in Range(interfaces[j].datagrams_received)
    BY TakenIsReceived
  <2>10. e.id = n
    BY <2>8, <2>9, AgedDatagram DEF GoesBy
  <2>11. e = arrived[n].datagram
    BY <2>9, <2>10, NotYetRouted
  <2> HIDE DEF e
  <2>12. GoesBy(routes, e, i, hop) /\ e.dst \in IPAddress
    BY <2>8, <2>9 DEF e, Datagram
  <2>13. RouteFor(routes, e.dst) \in BestRoutes(e.dst)
    BY <2>12, LookupIsBest DEF GoesBy, RouterInv
  <2> QED
    BY <2>11, <2>12, <2>13 DEF GoesBy
<1> QED
  BY <1>1, RouterInvariance, PTL DEF Spec, FollowsBestRoute

\* A datagram that a router has taken in is lost only when its time to live is
\* over, when no route covers its destination, or when its next hop has not
\* answered in time (router.cc:40-46, 66-68; network_interface.cc:164-181).
THEOREM DropsForReason == Spec => DroppedForReason
<1> DEFINE Kept ==
      \A n \in Ids :
        ~ Gone(n) /\ Gone(n)' =>
          \/ /\ ReceivedAt(n) # {}
             /\ \/ arrived[n].datagram.ttl <= 1
                \/ BestRoutes(arrived[n].datagram.dst) = {}
          \/ \E place \in WaitingAt(n) :
               interfaces[place[1]].arp_timestamps[place[2]] + 1 >= RequestTimeout
<1>1. RouterInv /\ RouterInv' /\ [Next]_vars => [Kept]_vars
  <2> SUFFICES ASSUME RouterInv, RouterInv', Next, NEW n \in Ids, ~ Gone(n), Gone(n)'
               PROVE  \/ /\ ReceivedAt(n) # {}
                         /\ \/ arrived[n].datagram.ttl <= 1
                            \/ BestRoutes(arrived[n].datagram.dst) = {}
                      \/ \E place \in WaitingAt(n) :
                           interfaces[place[1]].arp_timestamps[place[2]] + 1 >= RequestTimeout
    OBVIOUS
  <2>1. sent \in [Interface -> Seq(FrameRecord)] /\ sent' \in [Interface -> Seq(FrameRecord)]
    BY DEF RouterInv
  <2>2. /\ n \in DOMAIN arrived' /\ ~ IsReceived(n, interfaces')
        /\ ~ IsGoing(n, sent', interfaces')
    BY <2>1, WhereReceived, WhereWaiting, WhereSent, WhereGoing DEF Gone
  <2>3. n \in DOMAIN arrived
    <3> SUFFICES ASSUME n \notin DOMAIN arrived PROVE FALSE
      OBVIOUS
    <3>1. PICK m \in Interface, dst \in Destinations, ttl \in Lifetimes : Arrive(m, dst, ttl)
      BY <2>2 DEF Next, AddSome, AddRoute, Answer, Route, Tick
    <3> DEFINE d == [id |-> Len(arrived) + 1, dst |-> dst, ttl |-> ttl]
               x == [datagram |-> d, at |-> m]
               old == interfaces[m].datagrams_received
    <3>2. d.id = Len(arrived) + 1
      OBVIOUS
    <3>3. /\ d \in Datagram /\ arrived' = Append(arrived, x)
          /\ interfaces'[m].datagrams_received = Append(old, d)
      BY <3>1, ArriveEffect
    <3> HIDE DEF d
    <3>4. arrived \in Seq(Arrivals) /\ x \in Arrivals /\ old \in Seq(Datagram)
      BY <3>3 DEF Arrivals, RouterInv, Port, NicOf, NicRecord
    <3> HIDE DEF x, old
    <3>5. DOMAIN arrived = 1 .. Len(arrived) /\ DOMAIN arrived' = 1 .. Len(arrived) + 1
          /\ Len(arrived) \in Nat
      BY <3>3, <3>4, AppendProperties, LenProperties
    <3>6. n = d.id
      BY <2>2, <3>2, <3>5
    <3>7. d \in Range(Append(old, d))
      <4>1. Append(old, d)[Len(old) + 1] = d /\ Len(old) + 1 \in DOMAIN Append(old, d)
        BY <3>3, <3>4, AppendProperties, LenProperties
      <4> QED
        BY <4>1 DEF Range
    <3> QED
      BY <2>2, <3>3, <3>6, <3>7 DEF IsReceived
  <2>4. IsReceived(n, interfaces) \/ IsGoing(n, sent, interfaces)
    BY <2>1, <2>3, WhereReceived, WhereWaiting, WhereSent, WhereGoing DEF Gone
  <2>5. CASE Route /\ routes # <<>>
    <3>1. \A i \in Interface, h \in IPAddress :
            GoingOf(sent'[i], interfaces'[i], h)
              = GoingOf(sent[i], interfaces[i], h)
                  \cup Forwarded(routes, ReceivedBy(interfaces), Taken, i, h)
      BY <2>5, RouteEffect
    <3>2. ~ IsGoing(n, sent, interfaces)
      BY <2>2, <3>1 DEF IsGoing
    <3>3. PICK j \in Interface : \E e \in Range(interfaces[j].datagrams_received) : e.id = n
      BY <2>4, <3>2 DEF IsReceived
    <3>4. PICK e \in Range(interfaces[j].datagrams_received) : e.id = n
      BY <3>3
    <3>5. e = arrived[n].datagram /\ ReceivedAt(n) # {}
      BY <3>4, NotYetRouted, WhereReceived DEF IsReceived
    <3>6. PICK m \in 1 .. Taken : ReceivedBy(interfaces)[m] = e
      BY ReceivedIsTaken
    <3>7. e \in Datagram
      BY <3>6, TakenIsReceived
    <3>8. CASE Expired(e)
      BY <3>5, <3>8 DEF Expired
    <3>9. CASE RouteFor(routes, e.dst) = NoRoute
      <4>1. e.dst \in IPAddress
        BY <3>7 DEF Datagram
      <4>2. BestRoutes(e.dst) = {}
        BY <3>9, <4>1, LookupIsBest DEF RouterInv
      <4> QED
        BY <3>5, <4>2
    <3>10. CASE ~ Expired(e) /\ RouteFor(routes, e.dst) # NoRoute
      <4> DEFINE route == RouteFor(routes, e.dst)
                 i == route.interface_num
                 h == HopOf(route, e)
      <4>1. GoesBy(routes, e, i, h)
        BY <3>10 DEF GoesBy
      <4>2. i \in Interface /\ h \in IPAddress
        BY <3>7, <3>10, RouteFound, RouteFields DEF RouterInv, TableInv
      <4> HIDE DEF i, h
      <4>3. Aged(e) \in Forwarded(routes, ReceivedBy(interfaces), Taken, i, h)
        BY <3>6, <4>1 DEF Forwarded
      <4>4. Aged(e).id = n
        BY <3>4, <3>7, <3>10, AgedDatagram
      <4> QED
        BY <2>2, <3>1, <4>2, <4>3, <4>4 DEF IsGoing
    <3> QED
      BY <3>8, <3>9, <3>10
  <2>6. CASE Route /\ routes = <<>>
    <3>1. UNCHANGED <<interfaces, sent>>
      BY <2>6, NothingRouted DEF vars
    <3> QED
      BY <2>2, <2>4, <3>1
  <2>7. CASE ~ Route
    <3>1. IsGoing(n, sent, interfaces) /\ Tick
      BY <2>2, <2>4, <2>7, OnlyRouteAdds DEF IsGoing
    <3>2. /\ sent' = sent
          /\ \A i \in Interface : interfaces'[i] = InterfaceTick(interfaces[i], 1)
      BY <3>1, TickSteady
    <3>3. ~ IsSent(n, sent)
      BY <2>1, <2>2, <3>2, WhereGoing
    <3>4. IsWaiting(n, interfaces)
      BY <2>1, <3>1, <3>3, WhereGoing
    <3>5. ~ IsWaiting(n, interfaces')
      BY <2>1, <2>2, WhereGoing
    <3>6. PICK i \in Interface, h \in IPAddress :
            \E d \in Range(WaitingFor(interfaces[i], h)) : d.id = n
      BY <3>4 DEF IsWaiting
    <3>7. WaitingFor(interfaces'[i], h) # WaitingFor(interfaces[i], h)
      BY <3>5, <3>6 DEF IsWaiting
    <3>8. h \in Overdue(interfaces[i], 1)
      <4>1. NicOf(i, interfaces[i])
        BY DEF RouterInv, Port
      <4> QED
        BY <3>2, <3>7, <4>1, TickEffect
    <3>9. interfaces[i].arp_timestamps[h] + 1 >= RequestTimeout
      BY <3>8 DEF Overdue
    <3>10. PICK k \in DOMAIN WaitingFor(interfaces[i], h) : WaitingFor(interfaces[i], h)[k].id = n
      BY <3>6 DEF Range
    <3> DEFINE place == <<i, h, k>>
    <3>11. place \in WaitingAt(n)
      BY <3>10, WhereWaiting
    <3>12. place[1] = i /\ place[2] = h
      OBVIOUS
    <3> HIDE DEF place
    <3>13. interfaces[place[1]].arp_timestamps[place[2]] + 1 >= RequestTimeout
      BY <3>9, <3>12
    <3> QED
      BY <3>11, <3>13
  <2> QED
    BY <2>5, <2>6, <2>7
<1> QED
  BY <1>1, RouterInvariance, PTL DEF Spec, DroppedForReason
=============================================================================
