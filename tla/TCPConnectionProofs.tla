------------------------- MODULE TCPConnectionProofs -------------------------
(***************************************************************************)
(* Proofs about TCPConnection, for every size of the streams and of the     *)
(* buffers, and whatever the network does except in WindowStaysRespected.   *)
(***************************************************************************)
EXTENDS TCPConnection, TCPSenderProofs

-----------------------------------------------------------------------------
(* The receiver of a stream *)

AcknoType == Raw \cup {NoSeqno}

ReceiverRecord ==
  [reassembler : ReassemblerOf(Nat), ISN : AcknoType, ackno : AcknoType, checkpoint : Nat,
   received_SYN : BOOLEAN, rst : BOOLEAN]

\* A receiver of the stream D of a sender whose outbound stream is in: it holds
\* bytes of the stream in their places, knows the end only when there is one,
\* and acknowledges what it has put in place.
ReceiverOf(rcv, D, in, isn) ==
  /\ rcv \in ReceiverRecord
  /\ Assembled(rcv.reassembler, Nat, D, in.pushed, RecvCapacity)
  /\ rcv.reassembler.total_size # NoSize => in.is_closed
  /\ rcv.checkpoint <= in.pushed
  /\ rcv.received_SYN => rcv.ISN = isn /\ rcv.ackno = AcknoFor(isn, Inbound(rcv))
  /\ ~ rcv.received_SYN => /\ rcv.ackno = NoSeqno
                           /\ Inbound(rcv).pushed = 0 /\ ~ Inbound(rcv).is_closed

PutInPlace(rcv) ==
  (IF rcv.received_SYN THEN 1 ELSE 0) + Inbound(rcv).pushed
    + (IF Inbound(rcv).is_closed THEN 1 ELSE 0)

\* An acknowledgment of something that has been put in place.
AckOf(ackno, rcv, isn) ==
  ackno = NoSeqno \/ \E x \in 1 .. PutInPlace(rcv) : ackno = Wrap(x, isn)

\* The receiver q is rcv, some time later.
Receives(rcv, q, D, in, isn) ==
  /\ ReceiverOf(q, D, in, isn)
  /\ PutInPlace(rcv) <= PutInPlace(q)
  /\ Inbound(q).popped = Inbound(rcv).popped
  /\ Inbound(rcv).pushed <= Inbound(q).pushed
  /\ Inbound(rcv).is_closed => Inbound(q).is_closed /\ Inbound(q).pushed = Inbound(rcv).pushed

LEMMA ReceiverTypes ==
  ASSUME NEW rcv, NEW D, NEW in, NEW isn, ReceiverOf(rcv, D, in, isn), InputOf(in, D)
  PROVE  /\ rcv.reassembler \in ReassemblerOf(Nat) /\ Inbound(rcv) \in ByteStreamOf(Nat)
         /\ Inbound(rcv).pushed \in Nat /\ Inbound(rcv).popped \in Nat
         /\ Inbound(rcv).pushed <= in.pushed /\ in.pushed <= Len(D)
         /\ in.pushed \in Nat /\ Len(D) \in Nat /\ D \in Seq(Nat)
         /\ Inbound(rcv).is_closed \in BOOLEAN /\ rcv.received_SYN \in BOOLEAN
         /\ Inbound(rcv).is_closed => in.is_closed /\ Inbound(rcv).pushed = in.pushed
         /\ PutInPlace(rcv) \in 0 .. Len(D) + 2
<1>1. /\ rcv \in ReceiverRecord /\ rcv.reassembler \in ReassemblerOf(Nat)
      /\ Assembled(rcv.reassembler, Nat, D, in.pushed, RecvCapacity)
      /\ rcv.received_SYN \in BOOLEAN
  BY DEF ReceiverOf, ReceiverRecord
<1>2. /\ D \in Seq(Nat) /\ in.pushed \in Nat /\ in.pushed <= Len(D) /\ Len(D) \in Nat
  BY LenProperties DEF InputOf, ByteStreamOf
<1>3. /\ Inbound(rcv) \in ByteStreamOf(Nat) /\ Inbound(rcv).pushed <= in.pushed
      /\ Inbound(rcv).pushed \in Nat /\ Inbound(rcv).popped \in Nat
      /\ Inbound(rcv).is_closed \in BOOLEAN
  BY <1>1, AssembledTypes DEF Typed, Inbound, ByteStreamOf
<1>4. Inbound(rcv).is_closed => in.is_closed /\ Inbound(rcv).pushed = in.pushed
  <2> SUFFICES ASSUME Inbound(rcv).is_closed
               PROVE  in.is_closed /\ Inbound(rcv).pushed = in.pushed
    OBVIOUS
  <2>1. /\ rcv.reassembler.total_size = Inbound(rcv).pushed
        /\ rcv.reassembler.total_size \in {NoSize, in.pushed}
    BY <1>1 DEF Assembled, Inbound
  <2>2. rcv.reassembler.total_size # NoSize
    BY <1>3, <2>1 DEF NoSize
  <2> QED
    BY <2>1, <2>2 DEF ReceiverOf
<1>5. PutInPlace(rcv) \in 0 .. Len(D) + 2
  <2> DEFINE p == Inbound(rcv).pushed
             a == IF rcv.received_SYN THEN 1 ELSE 0
             b == IF Inbound(rcv).is_closed THEN 1 ELSE 0
  <2>1. a \in 0 .. 1 /\ b \in 0 .. 1 /\ p \in Nat /\ p <= Len(D) /\ Len(D) \in Nat
    BY <1>2, <1>3
  <2>2. PutInPlace(rcv) = a + p + b
    BY DEF PutInPlace
  <2> HIDE DEF a, b, p
  <2> QED
    BY <2>1, <2>2
<1> QED
  BY <1>1, <1>2, <1>3, <1>4, <1>5

\* A number that is acknowledged is a position in the stream.
LEMMA AcknoIsPlace ==
  ASSUME NEW isn \in Raw, NEW k \in Nat, k < SeqSpace
  PROVE  WrapPlus(isn, k) = Wrap(k, isn) /\ WrapPlus(isn, k) \in Raw
<1>1. SeqSpace \in Nat \ {0} /\ isn \in Nat
  BY Widths DEF Raw
<1>2. k % SeqSpace = k
  BY <1>1, ModSmall
<1>3. isn + k = k + isn /\ isn + k \in Int
  BY <1>1
<1>4. (isn + k) % SeqSpace \in 0 .. SeqSpace - 1
  BY <1>1, <1>3
<1> QED
  BY <1>2, <1>3, <1>4 DEF WrapPlus, Wrap, Raw

LEMMA Acknowledges ==
  ASSUME NEW rcv, NEW D, NEW in, NEW isn \in Raw, ReceiverOf(rcv, D, in, isn), InputOf(in, D),
         Small(D)
  PROVE  AckOf(rcv.ackno, rcv, isn)
<1>1. CASE ~ rcv.received_SYN
  BY <1>1 DEF ReceiverOf, AckOf
<1>2. CASE rcv.received_SYN
  <2> DEFINE k == PutInPlace(rcv)
             p == Inbound(rcv).pushed
             c == IF Inbound(rcv).is_closed THEN 1 ELSE 0
  <2>1. p \in Nat /\ c \in Nat /\ k \in 0 .. Len(D) + 2 /\ Len(D) \in Nat
    BY ReceiverTypes
  <2>2. k = 1 + p + c
    BY <1>2 DEF PutInPlace
  <2>3. rcv.ackno = WrapPlus(isn, p + 1 + c)
    BY <1>2 DEF ReceiverOf, AcknoFor
  <2> HIDE DEF k, p, c
  <2>4. p + 1 + c = k /\ k \in 1 .. k /\ k \in Nat
    BY <2>1, <2>2
  <2>5. k < SeqSpace
    <3>1. SeqSpace \in Nat
      BY Widths
    <3> QED
      BY <2>1, <2>4, <3>1 DEF Small
  <2>6. rcv.ackno = Wrap(k, isn)
    BY <2>3, <2>4, <2>5, AcknoIsPlace
  <2> QED
    BY <2>4, <2>6 DEF AckOf, k
<1> QED
  BY <1>1, <1>2 DEF ReceiverOf, ReceiverRecord

LEMMA ReceiverResets ==
  ASSUME NEW rcv, NEW D, NEW in, NEW isn, ReceiverOf(rcv, D, in, isn), InputOf(in, D),
         NEW m, m.RST
  PROVE  Receives(rcv, ReceiverReceive(rcv, m), D, in, isn)
<1> DEFINE q == ReceiverReceive(rcv, m)
           r == rcv.reassembler
           out == SetError(r.output)
           new == [r EXCEPT !.output = out]
<1>1. /\ rcv \in ReceiverRecord /\ r \in ReassemblerOf(Nat) /\ r.output \in ByteStreamOf(Nat)
      /\ Assembled(r, Nat, D, in.pushed, RecvCapacity)
  BY ReceiverTypes DEF ReceiverOf, Inbound
<1>2. /\ out \in ByteStreamOf(Nat) /\ out.stream = r.output.stream
      /\ out.pushed = r.output.pushed /\ out.popped = r.output.popped
      /\ out.is_closed = r.output.is_closed /\ out.capacity = r.output.capacity
  BY <1>1 DEF SetError, ByteStreamOf
<1> HIDE DEF out
<1>3. /\ new \in ReassemblerOf(Nat) /\ new.output = out /\ new.buf = r.buf
      /\ new.occupancy = r.occupancy /\ new.total_size = r.total_size
  BY <1>1, <1>2 DEF ReassemblerOf
<1>4. q = [rcv EXCEPT !.rst = TRUE, !.reassembler = new]
  BY <1>1 DEF out, ReceiverRecord, ReceiverReceive
<1> HIDE DEF new, q
<1>5. /\ q \in ReceiverRecord /\ q.reassembler = new /\ q.ISN = rcv.ISN /\ q.ackno = rcv.ackno
      /\ q.checkpoint = rcv.checkpoint /\ q.received_SYN = rcv.received_SYN
  BY <1>1, <1>3, <1>4 DEF ReceiverRecord
<1>6. Assembled(new, Nat, D, in.pushed, RecvCapacity)
  <2>1. AvailableCapacity(out) = AvailableCapacity(r.output)
    BY <1>2 DEF AvailableCapacity
  <2> HIDE DEF r
  <2> QED
    <3>1. Assembled(r, Nat, D, in.pushed, RecvCapacity)
      BY <1>1
    <3>2. /\ new \in ReassemblerOf(Nat) /\ new.output.stream = r.output.stream
          /\ new.output.pushed = r.output.pushed /\ new.output.popped = r.output.popped
          /\ new.output.is_closed = r.output.is_closed /\ new.output.capacity = r.output.capacity
          /\ AvailableCapacity(new.output) = AvailableCapacity(r.output)
          /\ new.buf = r.buf /\ new.occupancy = r.occupancy /\ new.total_size = r.total_size
      BY <1>2, <1>3, <2>1
    <3> QED
      BY ONLY <3>1, <3>2 DEF Assembled
<1>7. /\ Inbound(q).pushed = Inbound(rcv).pushed /\ Inbound(q).popped = Inbound(rcv).popped
      /\ Inbound(q).is_closed = Inbound(rcv).is_closed /\ Inbound(rcv).pushed \in Nat
  BY <1>2, <1>3, <1>5, ReceiverTypes DEF Inbound
<1>8. PutInPlace(rcv) = PutInPlace(q) /\ PutInPlace(rcv) \in Nat
  BY <1>5, <1>7, ReceiverTypes DEF PutInPlace
<1>9. AcknoFor(isn, Inbound(q)) = AcknoFor(isn, Inbound(rcv))
  BY <1>7 DEF AcknoFor
<1>10. ReceiverOf(q, D, in, isn)
  BY <1>3, <1>5, <1>6, <1>7, <1>9 DEF ReceiverOf
<1>11. Receives(rcv, q, D, in, isn)
  BY <1>7, <1>8, <1>10 DEF Receives
<1> QED
  BY <1>11 DEF q

LEMMA ReceiverSame ==
  ASSUME NEW rcv, NEW D, NEW in, NEW isn, ReceiverOf(rcv, D, in, isn), InputOf(in, D)
  PROVE  Receives(rcv, rcv, D, in, isn)
BY ReceiverTypes DEF Receives

\* A SYN is the sequence number 0 of the stream.
LEMMA SynIsFirst ==
  ASSUME NEW m, NEW isn \in Raw, NEW D, NEW in, Sound(m, isn, D, in), ~ m.RST, m.SYN
  PROVE  m.seqno = isn /\ Carries(m, 0, isn, D, in)
<1>1. PICK a \in Nat : Carries(m, a, isn, D, in)
  BY DEF Sound
<1>2. a = 0 /\ m.seqno = Wrap(a, isn)
  BY <1>1 DEF Carries
<1> QED
  BY <1>1, <1>2, WrapZero

\* The initial sequence number is learnt from the SYN.
LEMMA SynAccepted ==
  ASSUME NEW rcv, NEW D, NEW in, NEW isn \in Raw, ReceiverOf(rcv, D, in, isn), InputOf(in, D),
         Small(D), NEW m, Sound(m, isn, D, in), ~ m.RST, m.SYN \in BOOLEAN, ~ Ignores(rcv, m)
  PROVE  /\ Receives(rcv, AcceptSyn(rcv, m), D, in, isn)
         /\ AcceptSyn(rcv, m).received_SYN
         /\ AcceptSyn(rcv, m).reassembler = rcv.reassembler
<1> DEFINE ackno == WrapPlus(isn, 1)
           q == AcceptSyn(rcv, m)
<1>1. CASE ~ m.SYN
  <2>1. rcv.received_SYN /\ q = rcv
    BY <1>1, ReceiverTypes DEF Ignores, AcceptSyn
  <2> QED
    BY <2>1, ReceiverSame
<1>2. CASE m.SYN
  <2>1. ~ rcv.received_SYN /\ m.seqno = isn
    BY <1>2, SynIsFirst, ReceiverTypes DEF Ignores
  <2>2. Inbound(rcv).pushed = 0 /\ ~ Inbound(rcv).is_closed /\ rcv \in ReceiverRecord
    BY <2>1 DEF ReceiverOf
  <2>3. ackno \in Raw
    <3>1. SeqSpace \in Nat /\ 1 < SeqSpace
      BY Widths
    <3> QED
      BY <3>1, AcknoIsPlace
  <2>4. q = [rcv EXCEPT !.ISN = isn, !.received_SYN = TRUE, !.ackno = ackno]
    BY <1>2, <2>1 DEF AcceptSyn
  <2> HIDE DEF ackno, q
  <2>5. /\ q \in ReceiverRecord /\ q.ISN = isn /\ q.received_SYN = TRUE /\ q.ackno = ackno
        /\ q.reassembler = rcv.reassembler /\ q.checkpoint = rcv.checkpoint
    BY <2>2, <2>3, <2>4 DEF ReceiverRecord, AcknoType
  <2>6. Inbound(q) = Inbound(rcv)
    BY <2>5 DEF Inbound
  <2>7. ackno = AcknoFor(isn, Inbound(q))
    BY <2>2, <2>6 DEF ackno, AcknoFor
  <2>8. ReceiverOf(q, D, in, isn)
    BY <2>5, <2>6, <2>7 DEF ReceiverOf
  <2>9. PutInPlace(rcv) = 0 /\ PutInPlace(q) = 1
    BY <2>1, <2>2, <2>5, <2>6 DEF PutInPlace
  <2>10. Receives(rcv, q, D, in, isn)
    BY <2>2, <2>6, <2>8, <2>9 DEF Receives
  <2> QED
    BY <2>5, <2>10 DEF q
<1> QED
  BY <1>1, <1>2

LEMMA InsertKeepsPopped ==
  ASSUME NEW r \in ReassemblerOf(Nat), NEW first, NEW data, NEW last
  PROVE  /\ Insert(r, first, data, last).output.popped = r.output.popped
         /\ Insert(r, first, data, last).total_size
              = IF last THEN U64(first + Len(data)) ELSE r.total_size
<1> DEFINE total == IF last THEN U64(first + Len(data)) ELSE r.total_size
           buf   == FilledBuf(r, first, data)
           occ   == FilledOccupancy(r, first, data)
           count == LeadingCount(occ, Len(buf))
           pushed == Push(r.output, Prefix(buf, count))
           out    == CloseIfComplete(pushed, total)
<1>1. Insert(r, first, data, last).output = out
      /\ Insert(r, first, data, last).total_size = total
  BY DEF Insert
<1> HIDE DEF total, buf, occ, count
<1>2. r.output \in ByteStreamOf(Nat)
  BY DEF ReassemblerOf
<1>3. out.popped = r.output.popped
  BY <1>2 DEF CloseIfComplete, Close, Push, ByteStreamOf
<1> QED
  BY <1>1, <1>3 DEF total

\* The stream index that the receiver computes is where the payload belongs.
Fits(m, a, D, in) ==
  /\ a \in Nat /\ a <= Len(D) + 1 /\ IndexOf(a) \in Nat /\ Len(m.payload) \in Nat
  /\ IndexOf(a) + Len(m.payload) <= in.pushed
  /\ IndexOf(a) + Len(m.payload) \in Nat
  /\ \A i \in 1 .. Len(m.payload) : m.payload[i] = D[IndexOf(a) + i]
  /\ m.FIN => in.is_closed /\ IndexOf(a) + Len(m.payload) = in.pushed

LEMMA CarriesFits ==
  ASSUME NEW m, NEW a, NEW isn, NEW D, NEW in, InputOf(in, D), Carries(m, a, isn, D, in)
  PROVE  Fits(m, a, D, in)
<1>1. a \in Nat /\ Len(m.payload) \in Nat
  BY LenProperties DEF Carries
<1>2. IndexOf(a) \in Nat /\ a <= IndexOf(a) + 1
  BY <1>1 DEF IndexOf
<1>3. in.pushed \in Nat /\ in.pushed <= Len(D) /\ Len(D) \in Nat
  BY LenProperties DEF InputOf, ByteStreamOf
<1> DEFINE x == IndexOf(a)
           n == Len(m.payload)
<1>4. x + n <= in.pushed
  BY DEF Carries
<1>5. x \in Nat /\ n \in Nat /\ a <= x + 1
  BY <1>1, <1>2
<1> HIDE DEF x, n
<1>6. x + n \in Nat /\ a <= Len(D) + 1
  BY <1>1, <1>3, <1>4, <1>5
<1> QED
  BY <1>1, <1>2, <1>4, <1>6 DEF Fits, Carries, x, n

LEMMA IndexFound ==
  ASSUME NEW rcv, NEW D, NEW in, NEW isn \in Raw, ReceiverOf(rcv, D, in, isn), InputOf(in, D),
         Small(D), rcv.received_SYN, NEW m, NEW a, Carries(m, a, isn, D, in), m.SYN \in BOOLEAN
  PROVE  StreamIndex(rcv, m) = IndexOf(a)
<1>1. Fits(m, a, D, in)
  BY CarriesFits
<1>2. a \in Nat /\ a <= Len(D) + 1 /\ Len(D) \in Nat /\ D \in Seq(Nat)
  BY <1>1, ReceiverTypes DEF Fits
<1>3. CASE a = 0
  BY <1>3 DEF Carries, StreamIndex, IndexOf
<1>4. CASE a # 0
  <2>1. rcv.checkpoint \in 0 .. Len(D) + 2
    <3>1. rcv.checkpoint \in Nat /\ rcv.checkpoint <= in.pushed /\ in.pushed \in Nat
          /\ in.pushed <= Len(D)
      BY ReceiverTypes DEF ReceiverOf, ReceiverRecord
    <3> QED
      BY <1>2, <3>1
  <2>2. a \in 0 .. Len(D) + 2
    BY <1>2
  <2>3. Unwrap(Wrap(a, isn), isn, rcv.checkpoint) = a
    BY <1>2, <2>1, <2>2, SeqnoRecovered
  <2>4. m.seqno = Wrap(a, isn) /\ ~ m.SYN /\ rcv.ISN = isn
    BY <1>4 DEF Carries, ReceiverOf
  <2>5. U64(a - 1) = a - 1
    <3>1. a - 1 \in Int /\ 0 <= a - 1 /\ a - 1 < WordSpace /\ WordSpace \in Nat \ {0}
      BY <1>2, <1>4, Widths DEF Small
    <3> QED
      BY <3>1, ModSmall DEF U64
  <2> QED
    BY <1>4, <2>3, <2>4, <2>5 DEF StreamIndex, IndexOf
<1> QED
  BY <1>3, <1>4

LEMMA PayloadInserted ==
  ASSUME NEW rcv, NEW D, NEW in, NEW isn \in Raw, ReceiverOf(rcv, D, in, isn), InputOf(in, D),
         Small(D), rcv.received_SYN, NEW m, m.payload \in Seq(Nat), m.FIN \in BOOLEAN,
         m.SYN \in BOOLEAN, NEW a, Carries(m, a, isn, D, in)
  PROVE  Receives(rcv, InsertPayload(rcv, m), D, in, isn)
<1> DEFINE r     == rcv.reassembler
           first == IndexOf(a)
           n     == Len(m.payload)
           new   == Insert(r, first, m.payload, m.FIN)
           ack   == AcknoFor(isn, new.output)
           q     == InsertPayload(rcv, m)
           limit == in.pushed
           W     == WantedSlots(r.output, first, n)
<1>1. /\ first \in Nat /\ n \in Nat /\ first + n <= limit /\ first + n \in Nat
      /\ \A i \in 1 .. n : m.payload[i] = D[first + i]
      /\ m.FIN => in.is_closed /\ first + n = limit
  BY CarriesFits DEF Fits
<1>2. /\ limit \in Nat /\ limit <= Len(D) /\ Len(D) \in Nat /\ r \in ReassemblerOf(Nat)
      /\ Assembled(r, Nat, D, limit, RecvCapacity)
  BY ReceiverTypes DEF ReceiverOf
<1>3. limit < WordSpace /\ WordSpace \in Nat \ {0}
  BY <1>2, Widths DEF Small
<1>4. StreamIndex(rcv, m) = first /\ rcv.ISN = isn
  BY IndexFound DEF ReceiverOf
<1> HIDE DEF limit, r, first
<1>5. Truthful(r, Nat, D, limit, first, m.payload, m.FIN) /\ U64(first + n) = first + n
  BY <1>1, <1>2, <1>3, SubstringTruthful
<1>6. Assembled(new, Nat, D, limit, RecvCapacity) /\ Advances(r, new, limit, W)
  BY <1>2, <1>5, InsertAssembles
<1>7. /\ new.output.popped = r.output.popped
      /\ new.total_size = IF m.FIN THEN first + n ELSE r.total_size
  BY <1>2, <1>5, InsertKeepsPopped
<1>8. q = [rcv EXCEPT !.reassembler = new, !.checkpoint = first + n, !.ackno = ack]
  BY <1>4, <1>5 DEF InsertPayload, r
<1> HIDE DEF new, n, W
<1>9. /\ new \in ReassemblerOf(Nat) /\ new.output.pushed \in Nat
      /\ new.output.is_closed \in BOOLEAN
  <2>1. Typed(new, Nat, D, limit, RecvCapacity)
    BY <1>6, AssembledTypes
  <2> QED
    BY <1>6, <2>1 DEF Assembled, Typed
<1>10. ack \in AcknoType
  <2> DEFINE k == new.output.pushed + 1 + (IF new.output.is_closed THEN 1 ELSE 0)
  <2>1. k \in Nat /\ isn \in Nat /\ SeqSpace \in Nat \ {0}
    BY <1>9, Widths DEF Raw
  <2> HIDE DEF k
  <2>2. (isn + k) % SeqSpace \in Raw
    <3>1. isn + k \in Int
      BY <2>1
    <3> QED
      BY <2>1, <3>1 DEF Raw
  <2> QED
    BY <2>2 DEF AcknoType, AcknoFor, WrapPlus, k
<1> HIDE DEF ack, q
<1>11. /\ q \in ReceiverRecord /\ q.reassembler = new /\ q.ISN = rcv.ISN /\ q.ackno = ack
       /\ q.checkpoint = first + n /\ q.received_SYN = rcv.received_SYN
  BY <1>1, <1>8, <1>9, <1>10 DEF ReceiverRecord, ReceiverOf, n
<1>12. /\ r.output.pushed \in Nat /\ r.output.pushed <= new.output.pushed
       /\ r.output.is_closed => new.output.is_closed /\ new.output.pushed = r.output.pushed
  <2>1. /\ Inbound(rcv).pushed \in Nat
        /\ Inbound(rcv).is_closed => Inbound(rcv).pushed = in.pushed
    BY ReceiverTypes
  <2>2. /\ new.output.pushed \in r.output.pushed .. limit
        /\ r.output.is_closed => new.output.is_closed
    BY <1>6 DEF Advances
  <2> QED
    BY <1>2, <1>9, <2>1, <2>2 DEF Inbound, r, limit
<1>13. new.total_size # NoSize => in.is_closed
  <2>1. r.total_size # NoSize => in.is_closed
    BY DEF ReceiverOf, r
  <2> QED
    BY <1>1, <1>7, <2>1
<1>14. ReceiverOf(q, D, in, isn)
  <2>1. Inbound(q) = new.output
    BY <1>11 DEF Inbound
  <2>2. q.checkpoint <= in.pushed
    BY <1>1, <1>11 DEF limit, n
  <2> QED
    BY <1>4, <1>6, <1>11, <1>13, <2>1, <2>2 DEF ReceiverOf, ack, limit
<1>15. PutInPlace(rcv) <= PutInPlace(q)
  <2> DEFINE c(x) == IF x.is_closed THEN 1 ELSE 0
             old == r.output
             now == new.output
  <2>1. PutInPlace(rcv) = 1 + old.pushed + c(old) /\ PutInPlace(q) = 1 + now.pushed + c(now)
    BY <1>11 DEF PutInPlace, Inbound, r
  <2>2. old.pushed \in Nat /\ now.pushed \in Nat /\ old.pushed <= now.pushed
        /\ (old.is_closed => now.is_closed)
    BY <1>9, <1>12
  <2>3. c(old) <= c(now) /\ c(old) \in Nat /\ c(now) \in Nat
    BY <2>2
  <2> HIDE DEF old, now, c
  <2>4. 1 + old.pushed + c(old) <= 1 + now.pushed + c(now)
    BY ONLY <2>2, <2>3
  <2> QED
    BY <2>1, <2>4
<1>16. Receives(rcv, q, D, in, isn)
  BY <1>7, <1>11, <1>12, <1>14, <1>15 DEF Receives, Inbound, r
<1> QED
  BY <1>16 DEF q
\* receive(), with what the sender of the stream may have put on its way.
LEMMA ReceiverReceiveStep ==
  ASSUME NEW rcv, NEW D, NEW in, NEW isn \in Raw, ReceiverOf(rcv, D, in, isn), InputOf(in, D),
         Small(D), NEW m, m.payload \in Seq(Nat), m.FIN \in BOOLEAN, m.SYN \in BOOLEAN,
         m.RST \in BOOLEAN, Sound(m, isn, D, in)
  PROVE  Receives(rcv, ReceiverReceive(rcv, m), D, in, isn)
<1> DEFINE synced == AcceptSyn(rcv, m)
<1>1. CASE m.RST
  BY <1>1, ReceiverResets
<1>2. CASE ~ m.RST /\ Ignores(rcv, m)
  BY <1>2, ReceiverSame DEF ReceiverReceive
<1>3. CASE ~ m.RST /\ ~ Ignores(rcv, m)
  <2>1. Receives(rcv, synced, D, in, isn) /\ synced.received_SYN
    BY <1>3, SynAccepted
  <2>2. CASE m.payload = <<>> /\ ~ m.FIN
    <3>1. ReceiverReceive(rcv, m) = synced
      BY <1>3, <2>2 DEF ReceiverReceive
    <3> QED
      BY <2>1, <3>1
  <2>3. CASE ~ (m.payload = <<>> /\ ~ m.FIN)
    <3>1. ReceiverReceive(rcv, m) = InsertPayload(synced, m)
      BY <1>3, <2>3 DEF ReceiverReceive
    <3>2. PICK a : Carries(m, a, isn, D, in)
      BY <1>3, <2>3 DEF Sound
    <3> HIDE DEF synced
    <3>3. ReceiverOf(synced, D, in, isn)
      BY <2>1 DEF Receives
    <3> DEFINE q == InsertPayload(synced, m)
    <3>4. Receives(synced, q, D, in, isn)
      BY <2>1, <3>2, <3>3, PayloadInserted
    <3> HIDE DEF q
    <3>5. Receives(rcv, q, D, in, isn)
      <4>1. ReceiverOf(q, D, in, isn)
        BY <3>4 DEF Receives
      <4>2. PutInPlace(rcv) \in Nat /\ PutInPlace(synced) \in Nat /\ PutInPlace(q) \in Nat
            /\ Inbound(rcv).pushed \in Nat /\ Inbound(synced).pushed \in Nat
            /\ Inbound(q).pushed \in Nat
        BY <3>3, <4>1, ReceiverTypes
      <4> QED
        BY <2>1, <3>4, <4>1, <4>2 DEF Receives
    <3> QED
      BY <3>1, <3>5 DEF q
  <2> QED
    BY <2>2, <2>3
<1> QED
  BY <1>1, <1>2, <1>3

\* The other application writes or closes: there is more to come.
LEMMA ReceiverGrows ==
  ASSUME NEW rcv, NEW D, NEW in, NEW more, NEW isn, ReceiverOf(rcv, D, in, isn), InputOf(in, D),
         InputOf(more, D), Grows(in, more)
  PROVE  ReceiverOf(rcv, D, more, isn)
<1> DEFINE r == rcv.reassembler
           out == r.output
<1>1. /\ Assembled(r, Nat, D, in.pushed, RecvCapacity)
      /\ in.pushed \in Nat /\ out.pushed \in Nat /\ out.pushed <= in.pushed
  BY ReceiverTypes DEF ReceiverOf, Inbound
<1>2. more.pushed \in Nat /\ in.pushed <= more.pushed /\ more.pushed <= Len(D) /\ Len(D) \in Nat
  BY LenProperties DEF InputOf, ByteStreamOf, Grows
<1>3. r.total_size \in {NoSize, more.pushed}
  BY <1>1 DEF Assembled, ReceiverOf, Grows
<1>4. \A i \in r.occupancy : out.pushed + i <= more.pushed
  <2> TAKE i \in r.occupancy
  <2>1. out.pushed + i <= in.pushed /\ i \in Nat
    BY <1>1 DEF Assembled, ReassemblerOf
  <2> QED
    BY <1>1, <1>2, <2>1
<1>5. more.pushed \in 0 .. Len(D) /\ out.pushed <= more.pushed
  BY <1>1, <1>2
<1>6. Assembled(r, Nat, D, more.pushed, RecvCapacity)
  BY <1>1, <1>3, <1>4, <1>5 DEF Assembled
<1>7. rcv.checkpoint <= more.pushed
  <2>1. rcv.checkpoint \in Nat /\ rcv.checkpoint <= in.pushed
    BY DEF ReceiverOf, ReceiverRecord
  <2> QED
    BY <1>1, <1>2, <2>1
<1> QED
  BY <1>6, <1>7 DEF ReceiverOf, Grows

LEMMA ReceiverReads ==
  ASSUME NEW rcv, NEW D, NEW in, NEW isn, ReceiverOf(rcv, D, in, isn), InputOf(in, D),
         NEW n \in 0 .. Len(Inbound(rcv).stream)
  PROVE  LET q == [rcv EXCEPT !.reassembler.output = Pop(@, n)]
         IN  /\ ReceiverOf(q, D, in, isn) /\ q.ackno = rcv.ackno
             /\ PutInPlace(q) = PutInPlace(rcv)
             /\ Inbound(q).popped = Inbound(rcv).popped + n
             /\ Inbound(q).pushed = Inbound(rcv).pushed
             /\ Inbound(q).is_closed = Inbound(rcv).is_closed
<1> DEFINE q == [rcv EXCEPT !.reassembler.output = Pop(@, n)]
           r == rcv.reassembler
           new == [r EXCEPT !.output = Pop(@, n)]
<1>1. /\ rcv \in ReceiverRecord /\ r \in ReassemblerOf(Nat) /\ r.output \in ByteStreamOf(Nat)
      /\ Assembled(r, Nat, D, in.pushed, RecvCapacity)
  BY ReceiverTypes DEF ReceiverOf, Inbound
<1>2. n \in 0 .. Len(r.output.stream)
  BY DEF Inbound
<1> HIDE DEF new
<1>3. new = [r EXCEPT !.output = Pop(r.output, n)]
  BY DEF new
<1>4. /\ Assembled(new, Nat, D, in.pushed, RecvCapacity) /\ new \in ReassemblerOf(Nat)
      /\ new.total_size = r.total_size
      /\ new.output.popped = r.output.popped + n /\ new.output.pushed = r.output.pushed
      /\ new.output.is_closed = r.output.is_closed
  <2> HIDE DEF r
  <2>1. ReadFrom(r, new, Nat, D, in.pushed, RecvCapacity, n)
    BY <1>1, <1>2, <1>3, PopAssembles
  <2> QED
    BY <2>1 DEF ReadFrom
<1>5. q = [rcv EXCEPT !.reassembler = new]
  BY <1>1, <1>3 DEF ReceiverRecord
<1> HIDE DEF q
<1>6. /\ q \in ReceiverRecord /\ q.reassembler = new /\ q.ISN = rcv.ISN /\ q.ackno = rcv.ackno
      /\ q.checkpoint = rcv.checkpoint /\ q.received_SYN = rcv.received_SYN
  BY <1>1, <1>4, <1>5 DEF ReceiverRecord
<1>7. /\ Inbound(q).popped = Inbound(rcv).popped + n /\ Inbound(q).pushed = Inbound(rcv).pushed
      /\ Inbound(q).is_closed = Inbound(rcv).is_closed
  BY <1>4, <1>6 DEF Inbound
<1>8. PutInPlace(q) = PutInPlace(rcv) /\ AcknoFor(isn, Inbound(q)) = AcknoFor(isn, Inbound(rcv))
  BY <1>6, <1>7 DEF PutInPlace, AcknoFor
<1>9. ReceiverOf(q, D, in, isn)
  BY <1>4, <1>6, <1>7, <1>8 DEF ReceiverOf
<1> QED
  BY <1>6, <1>7, <1>8, <1>9 DEF q

LEMMA NewReceiver ==
  ASSUME NEW D, D \in Seq(Nat), NEW in, InputOf(in, D), in.pushed = 0, ~ in.is_closed, NEW isn
  PROVE  ReceiverOf(NewTCPReceiver(RecvCapacity), D, in, isn)
<1> DEFINE rcv == NewTCPReceiver(RecvCapacity)
           r == NewReassembler(RecvCapacity)
<1>1. 0 \in 0 .. Len(D) /\ RecvCapacity \in Nat
  BY LenProperties, ConnectionAssumption
<1>2. Assembled(r, Nat, D, 0, RecvCapacity) /\ r \in ReassemblerOf(Nat)
  BY <1>1, NewReassemblerAssembled DEF Assembled
<1>3. r.total_size = NoSize /\ r.output.pushed = 0 /\ ~ r.output.is_closed
  BY DEF NewReassembler, NewByteStream
<1>4. rcv = [reassembler |-> r, ISN |-> NoSeqno, ackno |-> NoSeqno, checkpoint |-> 0,
             received_SYN |-> FALSE, rst |-> FALSE]
  BY DEF NewTCPReceiver
<1> HIDE DEF rcv, r
<1>5. rcv \in ReceiverRecord
  BY <1>2, <1>4 DEF ReceiverRecord, AcknoType
<1>6. Inbound(rcv) = r.output
  BY <1>4 DEF Inbound
<1>7. ReceiverOf(rcv, D, in, isn)
  BY <1>2, <1>3, <1>4, <1>5, <1>6 DEF ReceiverOf
<1> QED
  BY <1>7 DEF rcv

-----------------------------------------------------------------------------
(* What a peer does *)

PeerRecord ==
  [sender : SenderRecord, receiver : ReceiverRecord, linger_after_streams_finish : BOOLEAN,
   idle : Nat]

SegmentRecord ==
  [seqno : Raw, SYN : BOOLEAN, payload : Seq(Nat), FIN : BOOLEAN, ackno : AcknoType,
   window_size : Nat, RST : BOOLEAN]

\* The segments that the peer p of side s may have sent.
Sent(s, p) ==
  { m \in SegmentRecord : /\ Sound(m, ISN[s], Data(s), p.sender.input)
                          /\ AckOf(m.ackno, p.receiver, ISN[Other(s)]) }

\* p is the peer of side s while q is the peer of the other side.
PeerOf(s, p, q) ==
  /\ p \in PeerRecord
  /\ SenderOf(p.sender, Data(s)) /\ p.sender.isn = ISN[s]
  /\ ReceiverOf(p.receiver, Data(Other(s)), q.sender.input, ISN[Other(s)])
  /\ First(p.sender) <= PutInPlace(q.receiver)

\* The peer p of side s has become now, while the other one was q.
MovesTo(s, p, now, q) ==
  /\ now \in PeerRecord
  /\ SenderOf(now.sender, Data(s)) /\ now.sender.isn = ISN[s]
  /\ Grows(p.sender.input, now.sender.input)
  /\ First(now.sender) <= PutInPlace(q.receiver)
  /\ ReceiverOf(now.receiver, Data(Other(s)), q.sender.input, ISN[Other(s)])
  /\ PutInPlace(p.receiver) <= PutInPlace(now.receiver)
  /\ Inbound(p.receiver).pushed <= Inbound(now.receiver).pushed
  /\ Inbound(p.receiver).is_closed =>
       Inbound(now.receiver).is_closed /\ Inbound(now.receiver).pushed = Inbound(p.receiver).pushed

\* The handlers of the peer neither write nor read for the application.
Answers(s, p, step, q) ==
  /\ MovesTo(s, p, step.peer, q)
  /\ step.out \in Seq(Sent(s, step.peer))
  /\ Inbound(step.peer.receiver).popped = Inbound(p.receiver).popped
  /\ step.peer.sender.input.pushed = p.sender.input.pushed
  /\ step.peer.sender.input.is_closed = p.sender.input.is_closed

LEMMA SideFacts ==
  ASSUME NEW s \in Side
  PROVE  /\ Other(s) \in Side /\ Other(Other(s)) = s /\ Other(s) # s
         /\ Data(s) \in Seq(Nat) /\ Len(Data(s)) = StreamSize[s] /\ StreamSize[s] \in Nat
         /\ Small(Data(s)) /\ ISN[s] \in Raw
<1>1. Other(s) \in Side /\ Other(Other(s)) = s /\ Other(s) # s
  BY DEF Other, Side
<1>2. StreamSize[s] \in Nat /\ ISN[s] \in Raw /\ RecvCapacity \in Nat /\ SeqSpace \in Nat
      /\ 2 * (StreamSize[s] + RecvCapacity + 2) < SeqSpace
  BY ConnectionAssumption, Widths
<1>3. Data(s) \in [1 .. StreamSize[s] -> Nat]
  BY <1>2 DEF Data
<1>4. Data(s) \in Seq(Nat) /\ Len(Data(s)) = StreamSize[s]
  BY <1>2, <1>3, FunctionIsSeq
<1>5. Small(Data(s))
  BY <1>2, <1>4 DEF Small
<1> QED
  BY <1>1, <1>2, <1>4, <1>5

LEMMA PeerTypes ==
  ASSUME NEW s \in Side, NEW p, NEW q, PeerOf(s, p, q), PeerOf(Other(s), q, p)
  PROVE  /\ p \in PeerRecord /\ q \in PeerRecord
         /\ p.sender \in SenderRecord /\ q.sender \in SenderRecord
         /\ p.receiver \in ReceiverRecord /\ q.receiver \in ReceiverRecord
         /\ InputOf(p.sender.input, Data(s)) /\ InputOf(q.sender.input, Data(Other(s)))
         /\ p.sender.input.pushed \in Nat
         /\ PutInPlace(p.receiver) \in Nat /\ PutInPlace(q.receiver) \in Nat
         /\ Inbound(p.receiver).pushed \in Nat
<1>1. /\ p \in PeerRecord /\ q \in PeerRecord
      /\ p.sender \in SenderRecord /\ q.sender \in SenderRecord
      /\ p.receiver \in ReceiverRecord /\ q.receiver \in ReceiverRecord
  BY DEF PeerOf, PeerRecord
<1>2. InputOf(p.sender.input, Data(s)) /\ InputOf(q.sender.input, Data(Other(s)))
  BY DEF PeerOf, SenderOf
<1>3. ReceiverOf(p.receiver, Data(Other(s)), q.sender.input, ISN[Other(s)])
  BY DEF PeerOf
<1>4. ReceiverOf(q.receiver, Data(s), p.sender.input, ISN[s])
  BY SideFacts DEF PeerOf
<1>5. PutInPlace(p.receiver) \in 0 .. Len(Data(Other(s))) + 2 /\ Inbound(p.receiver).pushed \in Nat
  BY <1>2, <1>3, ReceiverTypes
<1>6. PutInPlace(q.receiver) \in 0 .. Len(Data(s)) + 2
  BY <1>2, <1>4, ReceiverTypes
<1> QED
  BY <1>1, <1>2, <1>5, <1>6 DEF InputOf, ByteStreamOf

LEMMA StaysPut ==
  ASSUME NEW s \in Side, NEW p, NEW q, PeerOf(s, p, q), PeerOf(Other(s), q, p)
  PROVE  MovesTo(s, p, p, q)
BY PeerTypes DEF PeerOf, MovesTo, Grows

\* Both peers move at once.
LEMMA BothMove ==
  ASSUME NEW s \in Side, NEW p, NEW q, PeerOf(s, p, q), PeerOf(Other(s), q, p),
         NEW p2, NEW q2, MovesTo(s, p, p2, q), MovesTo(Other(s), q, q2, p)
  PROVE  PeerOf(s, p2, q2)
<1>1. /\ InputOf(q.sender.input, Data(Other(s))) /\ InputOf(q2.sender.input, Data(Other(s)))
      /\ Grows(q.sender.input, q2.sender.input)
  BY PeerTypes DEF MovesTo, SenderOf
<1>2. ReceiverOf(p2.receiver, Data(Other(s)), q.sender.input, ISN[Other(s)])
  BY DEF MovesTo
<1>3. ReceiverOf(p2.receiver, Data(Other(s)), q2.sender.input, ISN[Other(s)])
  BY <1>1, <1>2, ReceiverGrows
<1>4. First(p2.sender) <= PutInPlace(q2.receiver)
  <2>1. First(p2.sender) \in 0 .. p2.sender.next_seqno /\ p2.sender.next_seqno \in Nat
    BY DEF MovesTo, SenderOf, SenderRecord
  <2>2. First(p2.sender) <= PutInPlace(q.receiver) /\ PutInPlace(q.receiver) <= PutInPlace(q2.receiver)
    BY DEF MovesTo
  <2>3. PutInPlace(q.receiver) \in Nat
    BY PeerTypes
  <2>4. PutInPlace(q2.receiver) \in Nat
    <3>1. ReceiverOf(q2.receiver, Data(s), p.sender.input, ISN[s])
      BY SideFacts DEF MovesTo
    <3>2. InputOf(p.sender.input, Data(s))
      BY PeerTypes
    <3>3. PutInPlace(q2.receiver) \in 0 .. Len(Data(s)) + 2
      BY <3>1, <3>2, ReceiverTypes
    <3> QED
      BY <3>3, SideFacts
  <2> QED
    BY <2>1, <2>2, <2>3, <2>4
<1> QED
  BY <1>3, <1>4 DEF PeerOf, MovesTo

\* What was sent before stays true.
LEMMA SentStays ==
  ASSUME NEW s \in Side, NEW p, NEW q, PeerOf(s, p, q), PeerOf(Other(s), q, p),
         NEW p2, MovesTo(s, p, p2, q)
  PROVE  Sent(s, p) \subseteq Sent(s, p2)
<1> SUFFICES ASSUME NEW m \in Sent(s, p) PROVE m \in Sent(s, p2)
  OBVIOUS
<1>1. p.sender.input.pushed \in Nat /\ PutInPlace(p.receiver) \in Nat
  BY PeerTypes
<1>2. p2.sender.input.pushed \in Nat
  BY DEF MovesTo, SenderOf, InputOf, ByteStreamOf
<1>3. Sound(m, ISN[s], Data(s), p2.sender.input)
  BY <1>1, <1>2, SoundGrows DEF Sent, MovesTo
<1>4. PutInPlace(p2.receiver) \in Nat
  <2>1. ReceiverOf(p2.receiver, Data(Other(s)), q.sender.input, ISN[Other(s)])
    BY DEF MovesTo
  <2>2. InputOf(q.sender.input, Data(Other(s)))
    BY PeerTypes
  <2>3. PutInPlace(p2.receiver) \in 0 .. Len(Data(Other(s))) + 2
    BY <2>1, <2>2, ReceiverTypes
  <2> QED
    BY <2>3, SideFacts
<1>5. AckOf(m.ackno, p2.receiver, ISN[Other(s)])
  <2>1. AckOf(m.ackno, p.receiver, ISN[Other(s)])
    BY DEF Sent
  <2>2. \A x \in 1 .. PutInPlace(p.receiver) : x \in 1 .. PutInPlace(p2.receiver)
    BY <1>1, <1>4 DEF MovesTo
  <2> QED
    BY <2>1, <2>2 DEF AckOf
<1> QED
  BY <1>3, <1>5 DEF Sent

-----------------------------------------------------------------------------
(* What the handlers of a peer do *)

\* What a step of the sender transmits is sound for the sender it results in.
LEMMA StepSends ==
  ASSUME NEW before, NEW step, NEW D, SenderOf(before, D), StepOf(before, step, D)
  PROVE  /\ step.out \in Seq(MessageRecord) /\ step.snd \in SenderRecord
         /\ \A i \in 1 .. Len(step.out) : Sound(step.out[i], before.isn, D, step.snd.input)
         /\ Grows(before.input, step.snd.input)
<1>1. /\ before.input.pushed \in Nat /\ step.snd.input.pushed = before.input.pushed
      /\ step.snd.input.is_closed = before.input.is_closed
      /\ step.out \in Seq(MessageRecord) /\ step.snd \in SenderRecord
  BY DEF SenderOf, InputOf, ByteStreamOf, StepOf, Keeps, StepRecord
<1>2. Grows(before.input, step.snd.input)
  BY <1>1 DEF Grows
<1>3. ASSUME NEW i \in 1 .. Len(step.out) PROVE Sound(step.out[i], before.isn, D, step.snd.input)
  BY <1>1, <1>2, SoundGrows DEF StepOf
<1> QED
  BY <1>1, <1>2, <1>3

LEMMA ReceiverAcknowledges ==
  ASSUME NEW s \in Side, NEW rcv, NEW in,
         ReceiverOf(rcv, Data(Other(s)), in, ISN[Other(s)]), InputOf(in, Data(Other(s)))
  PROVE  /\ AckOf(rcv.ackno, rcv, ISN[Other(s)])
         /\ ReceiverSend(rcv) = [ackno |-> rcv.ackno, window_size |-> ReceiverSend(rcv).window_size,
                                 RST |-> ReceiverSend(rcv).RST]
         /\ rcv.ackno \in AcknoType
         /\ ReceiverSend(rcv).window_size \in Nat /\ ReceiverSend(rcv).RST \in BOOLEAN
<1>1. ISN[Other(s)] \in Raw /\ Small(Data(Other(s)))
  BY SideFacts
<1>2. AckOf(rcv.ackno, rcv, ISN[Other(s)])
  BY <1>1, Acknowledges
<1>3. rcv \in ReceiverRecord /\ rcv.ackno \in AcknoType /\ rcv.rst \in BOOLEAN
      /\ Inbound(rcv) \in ByteStreamOf(Nat) /\ Inbound(rcv).error \in BOOLEAN
  BY ReceiverTypes DEF ReceiverOf, ReceiverRecord, ByteStreamOf
<1>4. AvailableCapacity(Inbound(rcv)) \in Nat
  <2>1. Assembled(rcv.reassembler, Nat, Data(Other(s)), in.pushed, RecvCapacity)
    BY DEF ReceiverOf
  <2> QED
    BY <2>1, AssembledTypes DEF Typed, Inbound
<1>5. Smaller(AvailableCapacity(Inbound(rcv)), MaxWindow) \in Nat
  BY <1>4, WindowAssumption DEF Smaller
<1> QED
  BY <1>2, <1>3, <1>5 DEF ReceiverSend

LEMMA SentInSegments ==
  ASSUME NEW s \in Side, NEW p, NEW in, NEW messages \in Seq(MessageRecord),
         ReceiverOf(p.receiver, Data(Other(s)), in, ISN[Other(s)]), InputOf(in, Data(Other(s))),
         \A i \in 1 .. Len(messages) : Sound(messages[i], ISN[s], Data(s), p.sender.input)
  PROVE  WithReceiverSend(p.receiver, messages) \in Seq(Sent(s, p))
<1> DEFINE r == ReceiverSend(p.receiver)
           n == Len(messages)
<1>1. /\ AckOf(r.ackno, p.receiver, ISN[Other(s)]) /\ r.ackno \in AcknoType
      /\ r.window_size \in Nat /\ r.RST \in BOOLEAN
  BY ReceiverAcknowledges DEF ReceiverSend
<1> HIDE DEF r
<1>2. n \in Nat /\ DOMAIN messages = 1 .. n
  BY LenProperties
<1>3. ASSUME NEW i \in 1 .. n PROVE Segment(messages[i], r) \in Sent(s, p)
  <2> DEFINE m == messages[i]
             g == Segment(m, r)
  <2>1. m \in MessageRecord /\ Sound(m, ISN[s], Data(s), p.sender.input)
    BY ElementOfSeq
  <2>2. /\ g.seqno = m.seqno /\ g.SYN = m.SYN /\ g.payload = m.payload /\ g.FIN = m.FIN
        /\ g.ackno = r.ackno /\ g.RST = (m.RST \/ r.RST)
    BY DEF Segment
  <2>3. g \in SegmentRecord
    BY <1>1, <2>1 DEF Segment, SegmentRecord, MessageRecord
  <2> HIDE DEF g, m
  <2>4. Sound(g, ISN[s], Data(s), p.sender.input)
    <3>1. ASSUME NEW a \in Nat, Carries(m, a, ISN[s], Data(s), p.sender.input)
          PROVE  Carries(g, a, ISN[s], Data(s), p.sender.input)
      BY <2>2, <3>1 DEF Carries, SequenceLength
    <3> QED
      BY <2>1, <2>2, <3>1 DEF Sound
  <2>5. g \in Sent(s, p)
    BY <1>1, <2>2, <2>3, <2>4 DEF Sent
  <2> QED
    BY <2>5 DEF g, m
<1>4. [i \in 1 .. n |-> Segment(messages[i], r)] \in [1 .. n -> Sent(s, p)]
  BY <1>3
<1>5. [i \in 1 .. n |-> Segment(messages[i], r)] \in Seq(Sent(s, p))
  BY <1>2, <1>4, FunctionIsSeq
<1> QED
  BY <1>2, <1>5 DEF WithReceiverSend, r

\* A step of the sender alone.
LEMMA SenderMoves ==
  ASSUME NEW s \in Side, NEW p, NEW q, PeerOf(s, p, q), PeerOf(Other(s), q, p),
         NEW step, StepOf(p.sender, step, Data(s)), NEW idle \in Nat,
         NEW now, now = [p EXCEPT !.sender = step.snd, !.idle = idle],
         NEW both, both = [peer |-> now, out |-> WithReceiverSend(p.receiver, step.out)]
  PROVE  Answers(s, p, both, q)
<1>1. SenderOf(p.sender, Data(s)) /\ p.sender.isn = ISN[s] /\ p \in PeerRecord
  BY DEF PeerOf
<1>2. /\ step.out \in Seq(MessageRecord) /\ step.snd \in SenderRecord
      /\ \A i \in 1 .. Len(step.out) : Sound(step.out[i], ISN[s], Data(s), step.snd.input)
      /\ Grows(p.sender.input, step.snd.input)
  BY <1>1, StepSends
<1>3. now \in PeerRecord /\ now.sender = step.snd /\ now.receiver = p.receiver
  BY <1>1, <1>2 DEF PeerRecord
<1>4. /\ SenderOf(step.snd, Data(s)) /\ step.snd.isn = ISN[s]
      /\ First(step.snd) = First(p.sender)
      /\ step.snd.input.pushed = p.sender.input.pushed
      /\ step.snd.input.is_closed = p.sender.input.is_closed
  BY <1>1 DEF StepOf, Keeps
<1>5. MovesTo(s, p, p, q)
  BY StaysPut
<1>6. MovesTo(s, p, now, q)
  BY <1>2, <1>3, <1>4, <1>5 DEF MovesTo
<1>7. WithReceiverSend(now.receiver, step.out) \in Seq(Sent(s, now))
  <2>1. InputOf(q.sender.input, Data(Other(s)))
    BY PeerTypes
  <2>2. ReceiverOf(now.receiver, Data(Other(s)), q.sender.input, ISN[Other(s)])
    BY <1>6 DEF MovesTo
  <2> QED
    BY <1>2, <1>3, <2>1, <2>2, SentInSegments
<1>8. both.peer = now /\ both.out \in Seq(Sent(s, now))
  BY <1>3, <1>7
<1> QED
  BY <1>3, <1>4, <1>6, <1>8 DEF Answers

LEMMA PeerPushStep ==
  ASSUME NEW s \in Side, NEW p, NEW q, PeerOf(s, p, q), PeerOf(Other(s), q, p)
  PROVE  Answers(s, p, PeerPush(p), q)
<1> DEFINE step == SenderPush(p.sender)
           now  == [p EXCEPT !.sender = step.snd]
<1>1. StepOf(p.sender, step, Data(s))
  BY SenderPushStep, SideFacts DEF PeerOf
<1>2. PeerPush(p) = [peer |-> now, out |-> WithReceiverSend(p.receiver, step.out)]
  BY DEF PeerPush
<1> HIDE DEF step
<1>3. p.idle \in Nat /\ p \in PeerRecord
  BY DEF PeerOf, PeerRecord
<1>4. now = [p EXCEPT !.sender = step.snd, !.idle = p.idle]
  BY <1>3 DEF PeerRecord
<1> HIDE DEF now
<1> QED
  BY <1>1, <1>2, <1>3, <1>4, SenderMoves

LEMMA PeerTickStep ==
  ASSUME NEW s \in Side, NEW p, NEW q, PeerOf(s, p, q), PeerOf(Other(s), q, p)
  PROVE  Answers(s, p, PeerTick(p, 1), q)
<1> DEFINE step == SenderTick(p.sender, 1)
           idle == Smaller(p.idle + 1, LingerTime)
           now  == [p EXCEPT !.sender = step.snd, !.idle = idle]
<1>1. StepOf(p.sender, step, Data(s))
  BY SenderTickStep DEF PeerOf
<1>2. PeerTick(p, 1) = [peer |-> now, out |-> WithReceiverSend(p.receiver, step.out)]
  BY DEF PeerTick
<1> HIDE DEF step
<1>3. idle \in Nat
  <2>1. p.idle \in Nat
    BY DEF PeerOf, PeerRecord
  <2>2. LingerTime \in Nat
    BY LingerAssumption, SenderAssumption DEF LingerTime
  <2> QED
    BY <2>1, <2>2 DEF Smaller
<1> HIDE DEF idle
<1> QED
  BY <1>1, <1>2, <1>3, SenderMoves

\* What the sender of a peer makes of a segment of the other peer.
LEMMA SenderHears ==
  ASSUME NEW s \in Side, NEW p, NEW q, PeerOf(s, p, q), PeerOf(Other(s), q, p),
         NEW m \in Sent(Other(s), q)
  PROVE  \E x \in 0 .. Len(Data(s)) + 2 :
           /\ Acks(p.sender, SenderReceive(p.sender, m), x, Data(s))
           /\ x <= PutInPlace(q.receiver)
<1>1. /\ SenderOf(p.sender, Data(s)) /\ p.sender.isn = ISN[s] /\ Small(Data(s))
      /\ m.window_size \in Nat
  BY SideFacts DEF PeerOf, Sent, SegmentRecord
<1>2. PutInPlace(q.receiver) \in 0 .. Len(Data(s)) + 2 /\ Len(Data(s)) \in Nat
  <2>1. ReceiverOf(q.receiver, Data(s), p.sender.input, ISN[s])
    BY SideFacts DEF PeerOf
  <2>2. InputOf(p.sender.input, Data(s))
    BY PeerTypes
  <2> QED
    BY <2>1, <2>2, ReceiverTypes
<1>3. AckOf(m.ackno, q.receiver, ISN[s])
  BY SideFacts DEF Sent
<1>4. CASE m.ackno = NoSeqno
  <2>1. 0 \in 0 .. Len(Data(s)) + 2 /\ 0 <= PutInPlace(q.receiver)
    BY <1>2
  <2>2. Acks(p.sender, SenderReceive(p.sender, m), 0, Data(s))
    BY <1>1, <1>4, <2>1, SenderReceiveStep
  <2> QED
    BY <2>1, <2>2
<1>5. CASE \E x \in 1 .. PutInPlace(q.receiver) : m.ackno = Wrap(x, ISN[s])
  <2>1. PICK x \in 1 .. PutInPlace(q.receiver) : m.ackno = Wrap(x, ISN[s])
    BY <1>5
  <2>2. x \in 0 .. Len(Data(s)) + 2 /\ x <= PutInPlace(q.receiver)
    BY <1>2
  <2>3. Acks(p.sender, SenderReceive(p.sender, m), x, Data(s))
    BY <1>1, <2>1, <2>2, SenderReceiveStep
  <2> QED
    BY <2>2, <2>3
<1> QED
  BY <1>3, <1>4, <1>5 DEF AckOf

LEMMA EmptyMessageSound ==
  ASSUME NEW snd, NEW D, SenderOf(snd, D), NEW isn, NEW in
  PROVE  EmptyMessage(snd) \in MessageRecord /\ Sound(EmptyMessage(snd), isn, D, in)
<1>1. snd.isn \in Raw /\ snd.next_seqno \in Nat /\ snd.input.error \in BOOLEAN
  BY DEF SenderOf, SenderRecord, InputOf, ByteStreamOf
<1>2. NextSeqno(snd) \in Raw
  BY <1>1, BaseOfWrap DEF NextSeqno
<1>3. EmptyMessage(snd) \in MessageRecord
  BY <1>1, <1>2, EmptySeq DEF EmptyMessage, SenderMessage, MessageRecord
<1>4. EmptyMessage(snd).SYN = FALSE /\ EmptyMessage(snd).FIN = FALSE /\ EmptyMessage(snd).payload = <<>>
  BY <1>1 DEF EmptyMessage, SenderMessage
<1> QED
  BY <1>3, <1>4 DEF Sound

\* An active peer gives a segment to its sender, which pushes, and answers with
\* what its receiver has to say then.
Replies(p, m, step) ==
  \/ step = [peer |-> p, out |-> <<>>]
  \/ /\ ~ p.sender.input.error
     /\ step.peer.sender = SenderPush(SenderReceive(p.sender, m)).snd
     /\ \E all \in Seq(MessageRecord) : step.out = WithReceiverSend(step.peer.receiver, all)

\* A segment of the other peer arrives.
LEMMA PeerReceiveStep ==
  ASSUME NEW s \in Side, NEW p, NEW q, PeerOf(s, p, q), PeerOf(Other(s), q, p),
         NEW m \in Sent(Other(s), q)
  PROVE  Answers(s, p, PeerReceive(p, m), q) /\ Replies(p, m, PeerReceive(p, m))
<1> DEFINE receiver == ReceiverReceive(p.receiver, m)
           heard    == SenderReceive(p.sender, m)
           pushed   == SenderPush(heard)
           reply    == IF NeedsReply(p, m) /\ pushed.out = <<>>
                         THEN <<EmptyMessage(pushed.snd)>> ELSE <<>>
           received == [p EXCEPT !.receiver = receiver, !.sender = pushed.snd, !.idle = 0]
           linger   == p.linger_after_streams_finish /\ ~ StopsLingering(received)
           now      == [received EXCEPT !.linger_after_streams_finish = linger]
           D        == Data(s)
           E        == Data(Other(s))
           in       == q.sender.input
<1>1. CASE ~ Active(p)
  <2>1. PeerReceive(p, m) = [peer |-> p, out |-> <<>>]
    BY <1>1 DEF PeerReceive
  <2>2. MovesTo(s, p, p, q)
    BY StaysPut
  <2>3. <<>> \in Seq(Sent(s, p))
    OBVIOUS
  <2> QED
    BY <2>1, <2>2, <2>3 DEF Answers, Replies
<1>2. CASE Active(p)
  <2>1. PeerReceive(p, m) = [peer |-> now, out |-> WithReceiverSend(receiver, pushed.out \o reply)]
    <3>1. received.linger_after_streams_finish = p.linger_after_streams_finish
      BY DEF PeerOf, PeerRecord
    <3> QED
      BY <1>2, <3>1 DEF PeerReceive
  <2>2. Receives(p.receiver, receiver, E, in, ISN[Other(s)])
    <3>1. /\ ReceiverOf(p.receiver, E, in, ISN[Other(s)]) /\ InputOf(in, E)
          /\ Small(E) /\ ISN[Other(s)] \in Raw
      BY PeerTypes, SideFacts DEF PeerOf
    <3>2. /\ m.payload \in Seq(Nat) /\ m.FIN \in BOOLEAN /\ m.SYN \in BOOLEAN /\ m.RST \in BOOLEAN
          /\ Sound(m, ISN[Other(s)], E, in)
      BY DEF Sent, SegmentRecord
    <3> QED
      BY <3>1, <3>2, ReceiverReceiveStep
  <2>3. PICK x \in 0 .. Len(D) + 2 : /\ Acks(p.sender, heard, x, D)
                                     /\ x <= PutInPlace(q.receiver)
    BY SenderHears
  <2> HIDE DEF receiver, heard
  <2>4. SenderOf(heard, D) /\ heard.isn = ISN[s]
    BY <2>3 DEF Acks, PeerOf
  <2>5. StepOf(heard, pushed, D)
    BY <2>4, SideFacts, SenderPushStep
  <2> HIDE DEF pushed
  <2>6. /\ pushed.out \in Seq(MessageRecord) /\ pushed.snd \in SenderRecord
        /\ \A i \in 1 .. Len(pushed.out) : Sound(pushed.out[i], ISN[s], D, pushed.snd.input)
        /\ SenderOf(pushed.snd, D) /\ Keeps(heard, pushed.snd)
    BY <2>4, <2>5, StepSends DEF StepOf
  <2>7. /\ received.sender = pushed.snd /\ received.receiver = receiver
        /\ received \in PeerRecord
    <3>1. receiver \in ReceiverRecord
      BY <2>2 DEF Receives, ReceiverOf
    <3> QED
      BY <2>6, <3>1 DEF PeerOf, PeerRecord
  <2> HIDE DEF received
  <2>8. now \in PeerRecord /\ now.sender = pushed.snd /\ now.receiver = receiver
    <3>1. linger \in BOOLEAN
      BY DEF PeerOf, PeerRecord
    <3> HIDE DEF linger
    <3> QED
      BY <2>7, <3>1 DEF PeerRecord
  <2> HIDE DEF now, linger
  <2>9. /\ pushed.snd.isn = ISN[s]
        /\ pushed.snd.input.pushed = p.sender.input.pushed
        /\ pushed.snd.input.is_closed = p.sender.input.is_closed
    BY <2>3, <2>4, <2>6 DEF Acks, Keeps
  <2>10. Grows(p.sender.input, pushed.snd.input)
    BY <2>9, PeerTypes DEF Grows
  <2>11. First(pushed.snd) <= PutInPlace(q.receiver)
    <3>1. First(pushed.snd) = First(p.sender) \/ First(pushed.snd) <= x
      BY <2>3, <2>6 DEF Acks, Keeps
    <3>2. First(pushed.snd) \in Int
      BY <2>6 DEF SenderOf
    <3>3. First(p.sender) <= PutInPlace(q.receiver) /\ PutInPlace(q.receiver) \in Nat
      BY PeerTypes DEF PeerOf
    <3>4. x \in Int
      BY <2>3
    <3> HIDE DEF First, PutInPlace
    <3> QED
      BY <2>3, <3>1, <3>2, <3>3, <3>4
  <2>12. MovesTo(s, p, now, q)
    BY <2>2, <2>6, <2>8, <2>9, <2>10, <2>11 DEF MovesTo, Receives
  <2> DEFINE all == pushed.out \o reply
  <2>13. all \in Seq(MessageRecord) /\ \A i \in 1 .. Len(all) : Sound(all[i], ISN[s], D, pushed.snd.input)
    <3>1. CASE reply = <<>>
      <4>1. \A t \in Seq(MessageRecord) : t \o <<>> = t
        OBVIOUS
      <4>2. pushed.out \o reply = pushed.out
        BY <2>6, <3>1, <4>1, Zenon
      <4> QED
        BY <2>6, <4>2
    <3>2. CASE reply = <<EmptyMessage(pushed.snd)>> /\ pushed.out = <<>>
      <4>1. all = <<EmptyMessage(pushed.snd)>>
        <5>1. <<>> \o <<EmptyMessage(pushed.snd)>> = <<EmptyMessage(pushed.snd)>>
          OBVIOUS
        <5> QED
          BY <3>2, <5>1
      <4>2. /\ EmptyMessage(pushed.snd) \in MessageRecord
            /\ Sound(EmptyMessage(pushed.snd), ISN[s], D, pushed.snd.input)
        BY <2>6, EmptyMessageSound
      <4> HIDE DEF all, EmptyMessage
      <4> QED
        BY <4>1, <4>2
    <3>3. reply = <<>> \/ (reply = <<EmptyMessage(pushed.snd)>> /\ pushed.out = <<>>)
      BY Zenon
    <3> QED
      BY <3>1, <3>2, <3>3
  <2> HIDE DEF all
  <2>14. WithReceiverSend(now.receiver, all) \in Seq(Sent(s, now))
    <3>1. ReceiverOf(now.receiver, E, in, ISN[Other(s)]) /\ InputOf(in, E)
      BY <2>12, PeerTypes DEF MovesTo
    <3> QED
      BY <2>8, <2>13, <3>1, SentInSegments
  <2>15. Inbound(now.receiver).popped = Inbound(p.receiver).popped
    BY <2>2, <2>8 DEF Receives
  <2>16. PeerReceive(p, m) = [peer |-> now, out |-> WithReceiverSend(now.receiver, all)]
    BY <2>1, <2>8 DEF all
  <2> HIDE DEF reply
  <2>17. ~ p.sender.input.error
    BY <1>2 DEF Active, SomeError
  <2>18. Replies(p, m, PeerReceive(p, m))
    BY <2>8, <2>13, <2>16, <2>17 DEF Replies, pushed, heard
  <2> QED
    BY <2>8, <2>9, <2>12, <2>14, <2>15, <2>16, <2>18 DEF Answers
<1> QED
  BY <1>1, <1>2

-----------------------------------------------------------------------------
(* The two peers and the network *)

LEMMA MovesOn ==
  ASSUME NEW s \in Side, NEW p, NEW q, PeerOf(s, p, q), PeerOf(Other(s), q, p),
         NEW p2, MovesTo(s, p, p2, q), PeerOf(Other(s), q, p2), NEW p3, MovesTo(s, p2, p3, q)
  PROVE  MovesTo(s, p, p3, q)
<1>1. /\ p.sender.input.pushed \in Nat /\ PutInPlace(p.receiver) \in Nat
      /\ Inbound(p.receiver).pushed \in Nat
  BY PeerTypes
<1>2. InputOf(q.sender.input, Data(Other(s)))
  BY PeerTypes
<1>3. \A now : MovesTo(s, p, now, q) \/ MovesTo(s, p2, now, q) =>
        /\ now.sender.input.pushed \in Nat /\ PutInPlace(now.receiver) \in Nat
        /\ Inbound(now.receiver).pushed \in Nat
  <2> TAKE now
  <2> HAVE MovesTo(s, p, now, q) \/ MovesTo(s, p2, now, q)
  <2>1. InputOf(now.sender.input, Data(s))
        /\ ReceiverOf(now.receiver, Data(Other(s)), q.sender.input, ISN[Other(s)])
    BY DEF MovesTo, SenderOf
  <2>2. PutInPlace(now.receiver) \in 0 .. Len(Data(Other(s))) + 2 /\ Inbound(now.receiver).pushed \in Nat
    BY <1>2, <2>1, ReceiverTypes
  <2> QED
    BY <2>1, <2>2 DEF InputOf, ByteStreamOf
<1>4. /\ p2.sender.input.pushed \in Nat /\ PutInPlace(p2.receiver) \in Nat
      /\ Inbound(p2.receiver).pushed \in Nat
      /\ p3.sender.input.pushed \in Nat /\ PutInPlace(p3.receiver) \in Nat
      /\ Inbound(p3.receiver).pushed \in Nat
  BY <1>3
<1>5. Grows(p.sender.input, p3.sender.input)
  BY <1>1, <1>4 DEF MovesTo, Grows
<1>6. PutInPlace(p.receiver) <= PutInPlace(p3.receiver)
  <2>1. PutInPlace(p.receiver) <= PutInPlace(p2.receiver) /\ PutInPlace(p2.receiver) <= PutInPlace(p3.receiver)
    BY DEF MovesTo
  <2> QED
    BY <1>1, <1>4, <2>1
<1>7. /\ Inbound(p.receiver).pushed <= Inbound(p3.receiver).pushed
      /\ Inbound(p.receiver).is_closed =>
           Inbound(p3.receiver).is_closed /\ Inbound(p3.receiver).pushed = Inbound(p.receiver).pushed
  BY <1>1, <1>4 DEF MovesTo
<1> QED
  BY <1>5, <1>6, <1>7 DEF MovesTo

\* The application writes or closes: its outbound stream becomes in.
Grew(s, p, q, in, p2) ==
  /\ MovesTo(s, p, p2, q) /\ PeerOf(s, p2, q) /\ PeerOf(Other(s), q, p2)
  /\ p2.sender.input = in /\ p2.receiver = p.receiver

LEMMA PeerGrows ==
  ASSUME NEW s \in Side, NEW p, NEW q, PeerOf(s, p, q), PeerOf(Other(s), q, p),
         NEW in, InputOf(in, Data(s)), in.popped = p.sender.input.popped,
         in.error = p.sender.input.error, Grows(p.sender.input, in),
         NEW p2, p2 = [p EXCEPT !.sender.input = in]
  PROVE  Grew(s, p, q, in, p2)
<1> DEFINE snd == [p.sender EXCEPT !.input = in]
<1>1. SenderOf(p.sender, Data(s)) /\ p \in PeerRecord /\ p.sender.isn = ISN[s]
  BY DEF PeerOf
<1>2. Grown(p.sender, snd, in, Data(s))
  BY <1>1, SenderGrows
<1>3. p2 = [p EXCEPT !.sender = snd]
  BY <1>1 DEF PeerRecord
<1> HIDE DEF snd
<1>4. snd \in SenderRecord /\ snd.input = in
  BY <1>2 DEF Grown, SenderOf
<1>5. p2 \in PeerRecord /\ p2.sender = snd /\ p2.receiver = p.receiver
  BY <1>1, <1>3, <1>4 DEF PeerRecord
<1>6. MovesTo(s, p, p, q) /\ MovesTo(Other(s), q, q, p)
  BY StaysPut, SideFacts
<1>7. MovesTo(s, p, p2, q)
  BY <1>1, <1>2, <1>4, <1>5, <1>6 DEF MovesTo, Grown
<1>8. PeerOf(s, p2, q)
  BY <1>6, <1>7, BothMove
<1>9. PeerOf(Other(s), q, p2)
  <2>1. PeerOf(Other(Other(s)), p, q) /\ MovesTo(Other(Other(s)), p, p2, q) /\ Other(s) \in Side
    BY <1>7, SideFacts
  <2> QED
    BY <1>6, <2>1, BothMove
<1> QED
  BY <1>4, <1>5, <1>7, <1>8, <1>9 DEF Grew

\* Both applications, and what they leave to the network.
World(pe, net, con) ==
  /\ pe \in [Side -> PeerRecord]
  /\ net \in [Side -> Seq(SegmentRecord)]
  /\ con \in [Side -> Seq(Nat)]
  /\ \A s \in Side : /\ PeerOf(s, pe[s], pe[Other(s)])
                     /\ net[s] \in Seq(Sent(s, pe[s]))
                     /\ con[s] = Prefix(Data(Other(s)), Inbound(pe[s].receiver).popped)

LEMMA WorldFacts ==
  ASSUME NEW pe, NEW net, NEW con, World(pe, net, con), NEW s \in Side
  PROVE  /\ Other(s) \in Side /\ Other(Other(s)) = s /\ Other(s) # s
         /\ PeerOf(s, pe[s], pe[Other(s)]) /\ PeerOf(Other(s), pe[Other(s)], pe[s])
         /\ net[s] \in Seq(Sent(s, pe[s])) /\ net[Other(s)] \in Seq(Sent(Other(s), pe[Other(s)]))
         /\ con[s] = Prefix(Data(Other(s)), Inbound(pe[s].receiver).popped)
BY SideFacts DEF World

LEMMA SentIsSegments ==
  ASSUME NEW s, NEW p
  PROVE  Seq(Sent(s, p)) \subseteq Seq(SegmentRecord)
<1>1. Sent(s, p) \subseteq SegmentRecord
  BY DEF Sent
<1>2. \A S, T : S \subseteq T => Seq(S) \subseteq Seq(T)
  OBVIOUS
<1> QED
  BY <1>1, <1>2

LEMMA AllMove ==
  ASSUME NEW pe, NEW net, NEW con, World(pe, net, con),
         NEW pe2, pe2 \in [Side -> PeerRecord],
         \A s \in Side : MovesTo(s, pe[s], pe2[s], pe[Other(s)]),
         NEW net2, net2 \in [Side -> Seq(SegmentRecord)],
         \A s \in Side : net2[s] \in Seq(Sent(s, pe2[s])),
         NEW con2, con2 \in [Side -> Seq(Nat)],
         \A s \in Side : con2[s] = Prefix(Data(Other(s)), Inbound(pe2[s].receiver).popped)
  PROVE  World(pe2, net2, con2)
<1>1. ASSUME NEW s \in Side PROVE PeerOf(s, pe2[s], pe2[Other(s)])
  <2>1. PeerOf(s, pe[s], pe[Other(s)]) /\ PeerOf(Other(s), pe[Other(s)], pe[s])
        /\ Other(s) \in Side /\ Other(Other(s)) = s
    BY WorldFacts
  <2>2. MovesTo(s, pe[s], pe2[s], pe[Other(s)]) /\ MovesTo(Other(s), pe[Other(s)], pe2[Other(s)], pe[s])
    BY <2>1
  <2> QED
    BY <2>1, <2>2, BothMove
<1> QED
  BY <1>1 DEF World

\* The peer of one side moves; what the other one has on its way is still what
\* it has sent.
OnlyMoves(s, pe, pe2) ==
  /\ pe2 \in [Side -> PeerRecord] /\ pe2[Other(s)] = pe[Other(s)]
  /\ MovesTo(s, pe[s], pe2[s], pe[Other(s)])

LEMMA OneMoves ==
  ASSUME NEW pe, NEW net, NEW con, World(pe, net, con), NEW s \in Side,
         NEW pe2, OnlyMoves(s, pe, pe2),
         NEW net2, net2 \in [Side -> Seq(SegmentRecord)],
         net2[s] \in Seq(Sent(s, pe2[s])),
         net2[Other(s)] \in Seq(Sent(Other(s), pe[Other(s)])),
         NEW con2, con2 \in [Side -> Seq(Nat)], con2[Other(s)] = con[Other(s)],
         con2[s] = Prefix(Data(Other(s)), Inbound(pe2[s].receiver).popped)
  PROVE  World(pe2, net2, con2)
<1>1. pe2 \in [Side -> PeerRecord] /\ pe2[Other(s)] = pe[Other(s)]
      /\ MovesTo(s, pe[s], pe2[s], pe[Other(s)])
      /\ \A t \in Side : t = s \/ t = Other(s)
  BY DEF OnlyMoves, Side, Other
<1>2. ASSUME NEW t \in Side
      PROVE  /\ MovesTo(t, pe[t], pe2[t], pe[Other(t)])
             /\ net2[t] \in Seq(Sent(t, pe2[t]))
             /\ con2[t] = Prefix(Data(Other(t)), Inbound(pe2[t].receiver).popped)
  <2>1. CASE t = s
    BY <1>1, <2>1
  <2>2. CASE t = Other(s)
    <3>1. MovesTo(t, pe[t], pe[t], pe[Other(t)])
      BY WorldFacts, StaysPut
    <3>2. con[t] = Prefix(Data(Other(t)), Inbound(pe[t].receiver).popped)
      BY WorldFacts
    <3> QED
      BY <1>1, <2>2, <3>1, <3>2
  <2> QED
    BY <1>1, <2>1, <2>2
<1> QED
  BY <1>1, <1>2, AllMove

LEMMA SeqsOf ==
  ASSUME NEW S
  PROVE  /\ \A a, b \in Seq(S) : a \o b \in Seq(S)
         /\ \A a \in Seq(S) : \A x \in S : Append(a, x) \in Seq(S)
         /\ \A a \in Seq(S) : \A i \in DOMAIN a : a[i] \in S /\ Without(a, i) \in Seq(S)
         /\ \A T : S \subseteq T => Seq(S) \subseteq Seq(T)
<1>1. \A a, b \in Seq(S) : a \o b \in Seq(S)
  BY ConcatProperties
<1>2. \A a \in Seq(S) : \A x \in S : Append(a, x) \in Seq(S)
  OBVIOUS
<1>3. ASSUME NEW a \in Seq(S), NEW i \in DOMAIN a PROVE a[i] \in S /\ Without(a, i) \in Seq(S)
  <2>1. DOMAIN a = 1 .. Len(a) /\ Len(a) \in Nat /\ i \in 1 .. Len(a)
    BY LenProperties
  <2>2. \A j \in 1 .. Len(a) : a[j] \in S
    BY ElementOfSeq
  <2>3. SubSeq(a, 1, i - 1) \in Seq(S)
    <3>1. \A j \in 1 .. i - 1 : a[j] \in S
      BY <2>1, <2>2
    <3> QED
      BY <2>1, <3>1, SubSeqProperties
  <2>4. SubSeq(a, i + 1, Len(a)) \in Seq(S)
    <3>1. \A j \in i + 1 .. Len(a) : a[j] \in S
      BY <2>1, <2>2
    <3> QED
      BY <2>1, <3>1, SubSeqProperties
  <2> QED
    BY <1>1, <2>1, <2>2, <2>3, <2>4 DEF Without, RemoveAt
<1>4. \A T : S \subseteq T => Seq(S) \subseteq Seq(T)
  OBVIOUS
<1> QED
  BY <1>1, <1>2, <1>3, <1>4

\* The peer p of s becomes step.peer and transmits step.out; the application
\* has read nothing.
Becomes(s, p, step, q) ==
  /\ MovesTo(s, p, step.peer, q)
  /\ step.out \in Seq(Sent(s, step.peer))
  /\ Inbound(step.peer.receiver).popped = Inbound(p.receiver).popped

SameInput(p, now) ==
  /\ now.sender.input.pushed = p.sender.input.pushed
  /\ now.sender.input.is_closed = p.sender.input.is_closed

SameOutput(p, now) ==
  /\ Inbound(now.receiver).pushed = Inbound(p.receiver).pushed
  /\ Inbound(now.receiver).is_closed = Inbound(p.receiver).is_closed

LEMMA PushingPeer ==
  ASSUME NEW s \in Side, NEW p, NEW q, PeerOf(s, p, q), PeerOf(Other(s), q, p)
  PROVE  /\ Becomes(s, p, PeerPush(p), q)
         /\ SameInput(p, PeerPush(p).peer) /\ SameOutput(p, PeerPush(p).peer)
<1>1. Answers(s, p, PeerPush(p), q)
  BY PeerPushStep
<1>2. PeerPush(p).peer.receiver = p.receiver
  BY DEF PeerPush, PeerOf, PeerRecord
<1> QED
  BY <1>1, <1>2 DEF Answers, Becomes, SameInput, SameOutput

LEMMA TickingPeer ==
  ASSUME NEW s \in Side, NEW p, NEW q, PeerOf(s, p, q), PeerOf(Other(s), q, p)
  PROVE  /\ Becomes(s, p, PeerTick(p, 1), q)
         /\ SameInput(p, PeerTick(p, 1).peer) /\ SameOutput(p, PeerTick(p, 1).peer)
<1>1. Answers(s, p, PeerTick(p, 1), q)
  BY PeerTickStep
<1>2. PeerTick(p, 1).peer.receiver = p.receiver
  BY DEF PeerTick, PeerOf, PeerRecord
<1> QED
  BY <1>1, <1>2 DEF Answers, Becomes, SameInput, SameOutput

LEMMA RestingPeer ==
  ASSUME NEW s \in Side, NEW p, NEW q, PeerOf(s, p, q), PeerOf(Other(s), q, p),
         NEW step, step = [peer |-> p, out |-> <<>>]
  PROVE  /\ Becomes(s, p, step, q) /\ SameInput(p, step.peer) /\ SameOutput(p, step.peer)
<1>1. MovesTo(s, p, p, q)
  BY StaysPut
<1> QED
  BY <1>1 DEF Becomes, SameInput, SameOutput

\* The application of s has written n bytes or closed, and the peer pushes.
Produces(s, p, step, q, n, closed) ==
  /\ Becomes(s, p, step, q) /\ SameOutput(p, step.peer)
  /\ step.peer.sender.input.pushed = p.sender.input.pushed + n
  /\ step.peer.sender.input.is_closed = closed

LEMMA GrowingPeer ==
  ASSUME NEW s \in Side, NEW p, NEW q, PeerOf(s, p, q), PeerOf(Other(s), q, p),
         NEW in, NEW n, NEW closed, Extends(p.sender.input, in, Data(s), n, closed),
         NEW p2, p2 = [p EXCEPT !.sender.input = in]
  PROVE  Produces(s, p, PeerPush(p2), q, n, closed)
<1> DEFINE step == PeerPush(p2)
<1>1. Grew(s, p, q, in, p2)
  BY PeerGrows DEF Extends
<1>2. /\ MovesTo(s, p, p2, q) /\ PeerOf(s, p2, q) /\ PeerOf(Other(s), q, p2)
      /\ p2.sender.input = in /\ p2.receiver = p.receiver
  BY <1>1 DEF Grew
<1> HIDE DEF step
<1>3. Becomes(s, p2, step, q) /\ SameInput(p2, step.peer) /\ SameOutput(p2, step.peer)
  BY <1>2, PushingPeer DEF step
<1>4. MovesTo(s, p, step.peer, q)
  BY <1>2, <1>3, MovesOn DEF Becomes
<1>5. Produces(s, p, step, q, n, closed)
  BY <1>2, <1>3, <1>4 DEF Extends, Produces, Becomes, SameInput, SameOutput
<1> QED
  BY <1>5 DEF step

\* The peer has more to send, or nothing more, and pushes.
PushesMore(s, p, step) ==
  \E in, n, closed : /\ Extends(p.sender.input, in, Data(s), n, closed)
                     /\ step = PeerPush([p EXCEPT !.sender.input = in])

LEMMA WritingPeer ==
  ASSUME NEW s \in Side, NEW p, NEW q, PeerOf(s, p, q), PeerOf(Other(s), q, p),
         NEW n \in Nat, ~ p.sender.input.is_closed,
         n <= AvailableCapacity(p.sender.input), AvailableCapacity(p.sender.input) > 0,
         p.sender.input.pushed + n <= StreamSize[s],
         NEW data, data = SubSeq(Data(s), p.sender.input.pushed + 1, p.sender.input.pushed + n),
         NEW step, step = PeerPush([p EXCEPT !.sender.input = Push(@, data)])
  PROVE  Produces(s, p, step, q, n, FALSE) /\ PushesMore(s, p, step)
<1> DEFINE old == p.sender.input
           in  == Push(old, data)
           p2  == [p EXCEPT !.sender.input = in]
           D   == Data(s)
<1>1. /\ InputOf(old, D) /\ ~ old.is_closed
      /\ n <= AvailableCapacity(old) /\ AvailableCapacity(old) # 0
      /\ old.pushed + n <= Len(D) /\ data = SubSeq(D, old.pushed + 1, old.pushed + n)
  BY PeerTypes, SideFacts
<1>2. Extends(old, in, D, n, FALSE)
  <2> HIDE DEF old, D
  <2> QED
    BY <1>1, WriteInput
<1>3. [p EXCEPT !.sender.input = Push(@, data)] = p2
  BY DEF PeerOf, PeerRecord, SenderRecord
<1> HIDE DEF in
<1>4. p2 = [p EXCEPT !.sender.input = in]
  OBVIOUS
<1> HIDE DEF p2
<1>5. Produces(s, p, PeerPush(p2), q, n, FALSE)
  BY <1>2, <1>4, GrowingPeer
<1>6. PushesMore(s, p, PeerPush(p2))
  BY <1>2, <1>4 DEF PushesMore
<1> QED
  BY <1>3, <1>5, <1>6

LEMMA ClosingPeer ==
  ASSUME NEW s \in Side, NEW p, NEW q, PeerOf(s, p, q), PeerOf(Other(s), q, p),
         p.sender.input.pushed = StreamSize[s],
         NEW step, step = PeerPush([p EXCEPT !.sender.input = Close(@)])
  PROVE  Produces(s, p, step, q, 0, TRUE) /\ PushesMore(s, p, step)
<1> DEFINE old == p.sender.input
           in  == Close(old)
           p2  == [p EXCEPT !.sender.input = in]
           D   == Data(s)
<1>1. InputOf(old, D) /\ old.pushed = Len(D)
  BY PeerTypes, SideFacts
<1>2. Extends(old, in, D, 0, TRUE)
  <2> HIDE DEF old, D
  <2> QED
    BY <1>1, CloseInput
<1>3. [p EXCEPT !.sender.input = Close(@)] = p2
  BY DEF PeerOf, PeerRecord, SenderRecord
<1> HIDE DEF in
<1>4. p2 = [p EXCEPT !.sender.input = in]
  OBVIOUS
<1> HIDE DEF p2
<1>5. Produces(s, p, PeerPush(p2), q, 0, TRUE)
  BY <1>2, <1>4, GrowingPeer
<1>6. PushesMore(s, p, PeerPush(p2))
  BY <1>2, <1>4 DEF PushesMore
<1> QED
  BY <1>3, <1>5, <1>6

LEMMA PrefixJoin ==
  ASSUME NEW D \in Seq(Nat), NEW a \in Nat, NEW seq \in Seq(Nat), a + Len(seq) <= Len(D),
         \A i \in 1 .. Len(seq) : seq[i] = D[a + i]
  PROVE  Prefix(D, a) \o seq = Prefix(D, a + Len(seq))
<1> DEFINE n == Len(seq)
           x == Prefix(D, a)
           y == Prefix(D, a + n)
<1>1. n \in Nat /\ Len(D) \in Nat /\ a \in 0 .. Len(D) /\ a + n \in 0 .. Len(D)
  BY LenProperties
<1>2. x \in Seq(Nat) /\ Len(x) = a /\ \A i \in 1 .. a : x[i] = D[i]
  BY <1>1, PrefixOf
<1>3. y \in Seq(Nat) /\ Len(y) = a + n /\ \A i \in 1 .. a + n : y[i] = D[i]
  BY <1>1, PrefixOf
<1> HIDE DEF x, y
<1>4. /\ x \o seq \in Seq(Nat) /\ Len(x \o seq) = a + n
      /\ \A i \in 1 .. a + n : (x \o seq)[i] = IF i <= a THEN x[i] ELSE seq[i - a]
  BY <1>2, ConcatProperties
<1>5. ASSUME NEW i \in 1 .. a + n PROVE (x \o seq)[i] = y[i]
  <2>1. CASE i <= a
    <3>1. i \in 1 .. a
      BY <1>1, <2>1
    <3>2. (x \o seq)[i] = x[i]
      BY <1>4, <2>1
    <3> QED
      BY <1>2, <1>3, <3>1, <3>2
  <2>2. CASE ~ i <= a
    <3>1. i - a \in 1 .. n /\ a + (i - a) = i
      BY <1>1, <2>2
    <3>2. seq[i - a] = D[i]
      BY <3>1
    <3> QED
      BY <1>3, <1>4, <2>2, <3>2
  <2> QED
    BY <2>1, <2>2
<1>6. x \o seq = y
  BY <1>3, <1>4, <1>5, SeqEqual
<1> QED
  BY <1>6 DEF x, y

LEMMA OutputFacts ==
  ASSUME NEW s \in Side, NEW p, NEW q, PeerOf(s, p, q), PeerOf(Other(s), q, p)
  PROVE  /\ Inbound(p.receiver).stream \in Seq(Nat)
         /\ Inbound(p.receiver).popped \in Nat /\ Inbound(p.receiver).pushed \in Nat
         /\ Inbound(p.receiver).pushed
              = Inbound(p.receiver).popped + Len(Inbound(p.receiver).stream)
         /\ Inbound(p.receiver).pushed <= Len(Data(Other(s)))
         /\ \A i \in 1 .. Len(Inbound(p.receiver).stream) :
              Inbound(p.receiver).stream[i] = Data(Other(s))[Inbound(p.receiver).popped + i]
<1> DEFINE rcv == p.receiver
           in == q.sender.input
           D == Data(Other(s))
<1>1. ReceiverOf(rcv, D, in, ISN[Other(s)]) /\ InputOf(in, D)
  BY PeerTypes DEF PeerOf
<1>2. /\ Inbound(rcv).pushed \in Nat /\ Inbound(rcv).popped \in Nat
      /\ Inbound(rcv) \in ByteStreamOf(Nat)
      /\ Inbound(rcv).pushed <= in.pushed /\ in.pushed <= Len(D) /\ in.pushed \in Nat
      /\ Len(D) \in Nat
  BY <1>1, ReceiverTypes
<1>3. /\ Inbound(rcv).pushed = Inbound(rcv).popped + Len(Inbound(rcv).stream)
      /\ \A i \in 1 .. Len(Inbound(rcv).stream) :
              Inbound(rcv).stream[i] = D[Inbound(rcv).popped + i]
  BY <1>1 DEF ReceiverOf, Assembled, Inbound
<1>4. Inbound(rcv).stream \in Seq(Nat)
  BY <1>2 DEF ByteStreamOf
<1>5. Inbound(rcv).pushed <= Len(D)
  BY <1>2
<1> QED
  BY <1>2, <1>3, <1>4, <1>5

\* What has reached a side is a prefix of what the other one writes.
LEMMA DeliveredIsPrefix ==
  ASSUME NEW pe, NEW net, NEW con, World(pe, net, con), NEW s \in Side
  PROVE  con[s] \o Inbound(pe[s].receiver).stream
           = Prefix(Data(Other(s)), Inbound(pe[s].receiver).pushed)
<1> DEFINE out == Inbound(pe[s].receiver)
           D == Data(Other(s))
<1>1. PeerOf(s, pe[s], pe[Other(s)]) /\ PeerOf(Other(s), pe[Other(s)], pe[s])
      /\ con[s] = Prefix(D, out.popped) /\ D \in Seq(Nat)
  BY WorldFacts, SideFacts
<1>2. /\ out.stream \in Seq(Nat) /\ out.popped \in Nat /\ out.pushed = out.popped + Len(out.stream)
      /\ out.pushed <= Len(D)
      /\ \A i \in 1 .. Len(out.stream) : out.stream[i] = D[out.popped + i]
  BY <1>1, OutputFacts
<1> HIDE DEF out, D
<1>3. Prefix(D, out.popped) \o out.stream = Prefix(D, out.popped + Len(out.stream))
  BY <1>1, <1>2, PrefixJoin
<1>4. con[s] \o out.stream = Prefix(D, out.pushed)
  BY <1>1, <1>2, <1>3
<1> QED
  BY <1>4 DEF out, D

LEMMA HandleWorld ==
  ASSUME NEW pe, NEW net, NEW con, World(pe, net, con), NEW s \in Side,
         NEW step, Becomes(s, pe[s], step, pe[Other(s)]),
         NEW pe2, pe2 = [pe EXCEPT ![s] = step.peer],
         NEW net2, net2 = [net EXCEPT ![s] = @ \o step.out]
  PROVE  World(pe2, net2, con)
<1>1. /\ PeerOf(s, pe[s], pe[Other(s)]) /\ PeerOf(Other(s), pe[Other(s)], pe[s])
      /\ net[s] \in Seq(Sent(s, pe[s])) /\ net[Other(s)] \in Seq(Sent(Other(s), pe[Other(s)]))
      /\ con[s] = Prefix(Data(Other(s)), Inbound(pe[s].receiver).popped)
      /\ Other(s) \in Side /\ Other(s) # s
  BY WorldFacts
<1>2. /\ MovesTo(s, pe[s], step.peer, pe[Other(s)])
      /\ step.out \in Seq(Sent(s, step.peer))
      /\ Inbound(step.peer.receiver).popped = Inbound(pe[s].receiver).popped
  BY DEF Becomes
<1>3. Sent(s, pe[s]) \subseteq Sent(s, step.peer)
  BY <1>1, <1>2, SentStays
<1>4. net[s] \o step.out \in Seq(Sent(s, step.peer))
  BY <1>1, <1>2, <1>3, SeqsOf
<1>5. OnlyMoves(s, pe, pe2) /\ pe2[s] = step.peer
  <2>1. step.peer \in PeerRecord /\ pe \in [Side -> PeerRecord]
    BY <1>2 DEF MovesTo, World
  <2>2. pe2 \in [Side -> PeerRecord] /\ pe2[s] = step.peer /\ pe2[Other(s)] = pe[Other(s)]
    BY <1>1, <2>1
  <2> QED
    BY <1>2, <2>2 DEF OnlyMoves
<1>6. /\ net2 \in [Side -> Seq(SegmentRecord)] /\ net2[s] = net[s] \o step.out
      /\ net2[Other(s)] = net[Other(s)] /\ con \in [Side -> Seq(Nat)]
  BY <1>1, <1>4, SentIsSegments DEF World
<1>7. con[s] = Prefix(Data(Other(s)), Inbound(pe2[s].receiver).popped)
  BY <1>1, <1>2, <1>5
<1>8. /\ net2[s] \in Seq(Sent(s, pe2[s]))
      /\ net2[Other(s)] \in Seq(Sent(Other(s), pe[Other(s)]))
  BY <1>1, <1>4, <1>5, <1>6
<1> QED
  BY <1>5, <1>6, <1>7, <1>8, OneMoves

\* The i-th segment on its way to s arrives.
LEMMA DeliverWorld ==
  ASSUME NEW pe, NEW net, NEW con, World(pe, net, con), NEW s \in Side,
         NEW step, Becomes(s, pe[s], step, pe[Other(s)]), NEW i \in DOMAIN net[Other(s)],
         NEW pe2, pe2 = [pe EXCEPT ![s] = step.peer],
         NEW net2, net2 = [net EXCEPT ![Other(s)] = Without(@, i), ![s] = @ \o step.out]
  PROVE  World(pe2, net2, con)
<1>1. /\ PeerOf(s, pe[s], pe[Other(s)]) /\ PeerOf(Other(s), pe[Other(s)], pe[s])
      /\ net[s] \in Seq(Sent(s, pe[s])) /\ net[Other(s)] \in Seq(Sent(Other(s), pe[Other(s)]))
      /\ con[s] = Prefix(Data(Other(s)), Inbound(pe[s].receiver).popped)
      /\ Other(s) \in Side /\ Other(s) # s
  BY WorldFacts
<1>2. /\ MovesTo(s, pe[s], step.peer, pe[Other(s)])
      /\ step.out \in Seq(Sent(s, step.peer))
      /\ Inbound(step.peer.receiver).popped = Inbound(pe[s].receiver).popped
  BY DEF Becomes
<1>3. Sent(s, pe[s]) \subseteq Sent(s, step.peer)
  BY <1>1, <1>2, SentStays
<1>4. net[s] \o step.out \in Seq(Sent(s, step.peer))
      /\ Without(net[Other(s)], i) \in Seq(Sent(Other(s), pe[Other(s)]))
  BY <1>1, <1>2, <1>3, SeqsOf
<1>5. OnlyMoves(s, pe, pe2) /\ pe2[s] = step.peer
  <2>1. step.peer \in PeerRecord /\ pe \in [Side -> PeerRecord]
    BY <1>2 DEF MovesTo, World
  <2>2. pe2 \in [Side -> PeerRecord] /\ pe2[s] = step.peer /\ pe2[Other(s)] = pe[Other(s)]
    BY <1>1, <2>1
  <2> QED
    BY <1>2, <2>2 DEF OnlyMoves
<1>6. /\ net2 \in [Side -> Seq(SegmentRecord)] /\ net2[s] = net[s] \o step.out
      /\ net2[Other(s)] = Without(net[Other(s)], i) /\ con \in [Side -> Seq(Nat)]
  BY <1>1, <1>4, SentIsSegments DEF World
<1>7. con[s] = Prefix(Data(Other(s)), Inbound(pe2[s].receiver).popped)
  BY <1>1, <1>2, <1>5
<1>8. /\ net2[s] \in Seq(Sent(s, pe2[s]))
      /\ net2[Other(s)] \in Seq(Sent(Other(s), pe[Other(s)]))
  BY <1>1, <1>4, <1>5, <1>6
<1> QED
  BY <1>5, <1>6, <1>7, <1>8, OneMoves

\* Only the network changes, in one direction.
LEMMA NetWorld ==
  ASSUME NEW pe, NEW net, NEW con, World(pe, net, con), NEW s \in Side,
         NEW way \in Seq(Sent(s, pe[s])), NEW net2, net2 = [net EXCEPT ![s] = way]
  PROVE  World(pe, net2, con)
<1>1. /\ PeerOf(s, pe[s], pe[Other(s)]) /\ PeerOf(Other(s), pe[Other(s)], pe[s])
      /\ net[Other(s)] \in Seq(Sent(Other(s), pe[Other(s)]))
      /\ con[s] = Prefix(Data(Other(s)), Inbound(pe[s].receiver).popped)
      /\ Other(s) \in Side /\ Other(s) # s
  BY WorldFacts
<1>2. MovesTo(s, pe[s], pe[s], pe[Other(s)])
  BY <1>1, StaysPut
<1>3. OnlyMoves(s, pe, pe)
  BY <1>2 DEF OnlyMoves, World
<1>4. /\ net2 \in [Side -> Seq(SegmentRecord)] /\ net2[s] = way
      /\ net2[Other(s)] = net[Other(s)] /\ con \in [Side -> Seq(Nat)]
  BY <1>1, SentIsSegments DEF World
<1>5. /\ net2[s] \in Seq(Sent(s, pe[s]))
      /\ net2[Other(s)] \in Seq(Sent(Other(s), pe[Other(s)]))
  BY <1>1, <1>4
<1> QED
  BY <1>1, <1>3, <1>4, <1>5, OneMoves

\* The application of s reads n bytes.
Reads(s, n, pe, pe2, con, con2) ==
  /\ n \in Nat /\ n <= BytesBuffered(Inbound(pe[s].receiver))
  /\ pe2 = [pe EXCEPT ![s].receiver.reassembler.output = Pop(@, n)]
  /\ con2 = [con EXCEPT ![s] = @ \o Prefix(Inbound(pe[s].receiver).stream, n)]

LEMMA ReadWorld ==
  ASSUME NEW pe, NEW net, NEW con, World(pe, net, con), NEW s \in Side,
         NEW n, NEW pe2, NEW con2, Reads(s, n, pe, pe2, con, con2)
  PROVE  /\ World(pe2, net, con2)
         /\ SameInput(pe[s], pe2[s]) /\ SameOutput(pe[s], pe2[s])
         /\ pe2[Other(s)] = pe[Other(s)]
         /\ OnlyMoves(s, pe, pe2) /\ pe2[s].sender = pe[s].sender
         /\ Inbound(pe[s].receiver).popped <= Inbound(pe2[s].receiver).popped
<1> DEFINE p == pe[s]
           out == Inbound(p.receiver)
           rcv == [p.receiver EXCEPT !.reassembler.output = Pop(@, n)]
           p2 == [p EXCEPT !.receiver = rcv]
           D == Data(Other(s))
           in == pe[Other(s)].sender.input
<1>0. /\ n \in Nat /\ n <= BytesBuffered(Inbound(pe[s].receiver))
      /\ pe2 = [pe EXCEPT ![s].receiver.reassembler.output = Pop(@, n)]
      /\ con2 = [con EXCEPT ![s] = @ \o Prefix(Inbound(pe[s].receiver).stream, n)]
  BY DEF Reads
<1>1. /\ PeerOf(s, pe[s], pe[Other(s)]) /\ PeerOf(Other(s), pe[Other(s)], pe[s])
      /\ net[s] \in Seq(Sent(s, pe[s])) /\ net[Other(s)] \in Seq(Sent(Other(s), pe[Other(s)]))
      /\ con[s] = Prefix(Data(Other(s)), Inbound(pe[s].receiver).popped)
      /\ Other(s) \in Side /\ Other(s) # s /\ D \in Seq(Nat)
  BY WorldFacts, SideFacts
<1>2. /\ out.stream \in Seq(Nat) /\ out.popped \in Nat /\ out.pushed \in Nat
      /\ out.pushed = out.popped + Len(out.stream)
      /\ out.pushed <= Len(D)
      /\ \A i \in 1 .. Len(out.stream) : out.stream[i] = D[out.popped + i]
  BY <1>1, OutputFacts
<1>3. Len(out.stream) \in Nat /\ Len(D) \in Nat /\ n \in 0 .. Len(out.stream)
  <2>1. Len(out.stream) \in Nat /\ Len(D) \in Nat
    BY <1>1, <1>2, LenProperties
  <2> QED
    BY <1>0, <2>1 DEF BytesBuffered
<1>4. /\ ReceiverOf(rcv, D, in, ISN[Other(s)]) /\ PutInPlace(rcv) = PutInPlace(p.receiver)
      /\ Inbound(rcv).popped = out.popped + n /\ Inbound(rcv).pushed = out.pushed
      /\ Inbound(rcv).is_closed = out.is_closed /\ rcv.ackno = p.receiver.ackno
  <2>1. ReceiverOf(p.receiver, D, in, ISN[Other(s)]) /\ InputOf(in, D)
    BY <1>1, PeerTypes DEF PeerOf
  <2> QED
    BY <1>3, <2>1, ReceiverReads
<1>5. pe2 = [pe EXCEPT ![s] = p2]
  <2>1. p \in PeerRecord
    BY <1>1 DEF PeerOf
  <2> QED
    BY <1>0, <2>1 DEF World, PeerRecord
<1> HIDE DEF rcv
<1>6. p2 \in PeerRecord /\ p2.sender = p.sender /\ p2.receiver = rcv
  <2>1. p \in PeerRecord /\ rcv \in ReceiverRecord
    BY <1>1, <1>4 DEF PeerOf, ReceiverOf
  <2> QED
    BY <2>1 DEF PeerRecord
<1> HIDE DEF p2
<1>7. MovesTo(s, p, p2, pe[Other(s)])
  <2>1. MovesTo(s, p, p, pe[Other(s)])
    BY <1>1, StaysPut
  <2> QED
    BY <1>4, <1>6, <2>1 DEF MovesTo
<1>8. con[s] \o Prefix(out.stream, n) = Prefix(D, Inbound(p2.receiver).popped)
  <2> DEFINE part == Prefix(out.stream, n)
  <2>1. part \in Seq(Nat) /\ Len(part) = n /\ \A i \in 1 .. n : part[i] = out.stream[i]
    BY <1>2, <1>3, PrefixOf
  <2> HIDE DEF part, out, D
  <2>2. \A i \in 1 .. Len(part) : part[i] = D[out.popped + i]
    <3> TAKE i \in 1 .. Len(part)
    <3>1. i \in 1 .. n /\ i \in 1 .. Len(out.stream)
      BY <1>3, <2>1 DEF out
    <3>2. part[i] = out.stream[i]
      BY <2>1, <3>1 DEF out
    <3>3. out.stream[i] = D[out.popped + i]
      BY <1>2, <3>1 DEF out, D
    <3> QED
      BY <3>2, <3>3
  <2>3. out.popped + Len(part) <= Len(D)
    BY <1>2, <1>3, <2>1
  <2>4. Prefix(D, out.popped) \o part = Prefix(D, out.popped + Len(part))
    BY <1>1, <1>2, <2>1, <2>2, <2>3, PrefixJoin
  <2>5. con[s] = Prefix(D, out.popped) /\ out.popped + Len(part) = Inbound(p2.receiver).popped
    BY <1>1, <1>4, <1>6, <2>1 DEF out, D
  <2> QED
    BY <2>4, <2>5 DEF part
<1>9. Prefix(D, Inbound(p2.receiver).popped) \in Seq(Nat)
  <2>1. Inbound(p2.receiver).popped \in 0 .. Len(D)
    BY <1>2, <1>3, <1>4, <1>6
  <2> QED
    BY <1>1, <2>1, PrefixOf
<1>10. /\ con2 \in [Side -> Seq(Nat)] /\ con2[Other(s)] = con[Other(s)]
       /\ con2[s] = Prefix(D, Inbound(p2.receiver).popped)
  BY <1>0, <1>1, <1>8, <1>9 DEF World
<1>11. net[s] \in Seq(Sent(s, p2)) /\ net \in [Side -> Seq(SegmentRecord)]
  <2>1. Sent(s, p) \subseteq Sent(s, p2)
    BY <1>1, <1>7, SentStays
  <2> QED
    BY <1>1, <2>1, SeqsOf DEF World
<1>12. OnlyMoves(s, pe, pe2) /\ pe2[s] = p2
  <2>1. pe2 \in [Side -> PeerRecord] /\ pe2[s] = p2 /\ pe2[Other(s)] = pe[Other(s)]
    BY <1>1, <1>5, <1>6 DEF World
  <2> QED
    BY <1>7, <2>1 DEF OnlyMoves
<1>13. World(pe2, net, con2)
  <2>1. /\ net[s] \in Seq(Sent(s, pe2[s]))
        /\ con2[s] = Prefix(Data(Other(s)), Inbound(pe2[s].receiver).popped)
    BY <1>10, <1>11, <1>12
  <2>2. con2 \in [Side -> Seq(Nat)] /\ con2[Other(s)] = con[Other(s)]
    BY <1>10
  <2> HIDE DEF p, in, D, out
  <2> QED
    BY <1>1, <1>11, <1>12, <2>1, <2>2, OneMoves
<1>14. /\ out.popped <= Inbound(p2.receiver).popped
       /\ pe2[s].sender = p.sender
  <2>1. Inbound(p2.receiver).popped = out.popped + n
    BY <1>4, <1>6
  <2>2. pe2[s].sender = p.sender
    BY <1>6, <1>12
  <2>3. n \in Nat /\ out.popped \in Nat
    BY <1>2, <1>3
  <2> HIDE DEF out
  <2> QED
    BY <2>1, <2>2, <2>3
<1> QED
  BY <1>4, <1>6, <1>12, <1>13, <1>14 DEF SameInput, SameOutput, OnlyMoves

-----------------------------------------------------------------------------
(* The inductive invariant *)

TypeOK ==
  /\ peer \in [Side -> PeerRecord]
  /\ network \in [Side -> Seq(SegmentRecord)]
  /\ consumed \in [Side -> Seq(Nat)]
  /\ destroyed \in [Side -> BOOLEAN]
  /\ budget \in [Fault -> Nat]

IInv ==
  /\ TypeOK
  /\ World(peer, network, consumed)

\* What a step may do to the two streams: nothing, or one thing to one of them.
Writes(s, pe, pe2) ==
  \E n \in 1 .. SendCapacity :
    /\ ~ pe[s].sender.input.is_closed
    /\ pe2[s].sender.input.pushed = pe[s].sender.input.pushed + n
    /\ pe2[s].sender.input.is_closed = FALSE
    /\ SameOutput(pe[s], pe2[s])

Closes(s, pe, pe2) ==
  /\ pe2[s].sender.input.pushed = pe[s].sender.input.pushed
  /\ pe2[s].sender.input.is_closed = TRUE
  /\ SameOutput(pe[s], pe2[s])

Hears(s, pe, pe2) ==
  /\ SameInput(pe[s], pe2[s])
  /\ Inbound(pe[s].receiver).pushed <= Inbound(pe2[s].receiver).pushed
  /\ Inbound(pe[s].receiver).is_closed => SameOutput(pe[s], pe2[s])

Streams(pe, pe2) ==
  \/ \A s \in Side : SameInput(pe[s], pe2[s]) /\ SameOutput(pe[s], pe2[s])
  \/ \E s \in Side : /\ pe2[Other(s)] = pe[Other(s)]
                     /\ Writes(s, pe, pe2) \/ Closes(s, pe, pe2) \/ Hears(s, pe, pe2)

LEMMA OneSide ==
  ASSUME NEW pe, NEW pe2, NEW s \in Side, pe2[Other(s)] = pe[Other(s)],
         SameInput(pe[s], pe2[s]), SameOutput(pe[s], pe2[s])
  PROVE  Streams(pe, pe2)
<1>1. \A t \in Side : t = s \/ t = Other(s)
  BY DEF Side, Other
<1> QED
  BY <1>1, Zenon DEF Streams, SameInput, SameOutput

LEMMA NoStreams ==
  ASSUME NEW pe, NEW pe2, pe2 = pe
  PROVE  Streams(pe, pe2)
BY DEF Streams, SameInput, SameOutput

LEMMA SpendType ==
  ASSUME NEW fault \in Fault, budget \in [Fault -> Nat], Spend(fault)
  PROVE  budget' \in [Fault -> Nat]
BY DEF Spend

LEMMA HandleStep ==
  ASSUME IInv, NEW s \in Side, NEW step, Becomes(s, peer[s], step, peer[Other(s)]),
         peer' = [peer EXCEPT ![s] = step.peer],
         network' = [network EXCEPT ![s] = @ \o step.out],
         UNCHANGED <<consumed, destroyed, budget>>
  PROVE  IInv' /\ peer'[s] = step.peer /\ peer'[Other(s)] = peer[Other(s)]
<1>1. World(peer, network, consumed) /\ TypeOK
  BY DEF IInv
<1>2. World(peer', network', consumed)
  BY <1>1, HandleWorld
<1>3. World(peer', network', consumed')
  BY <1>2
<1>4. peer'[s] = step.peer /\ peer'[Other(s)] = peer[Other(s)]
  BY <1>1, SideFacts DEF TypeOK
<1>5. TypeOK'
  BY <1>1, <1>3 DEF TypeOK, World
<1> QED
  BY <1>3, <1>4, <1>5 DEF IInv

LEMMA Pair ==
  ASSUME IInv, NEW s \in Side
  PROVE  /\ PeerOf(s, peer[s], peer[Other(s)]) /\ PeerOf(Other(s), peer[Other(s)], peer[s])
         /\ network[s] \in Seq(Sent(s, peer[s]))
         /\ network[Other(s)] \in Seq(Sent(Other(s), peer[Other(s)]))
         /\ Other(s) \in Side /\ Other(s) # s
BY WorldFacts DEF IInv

LEMMA InitInvariant == Init => IInv
<1> SUFFICES ASSUME Init PROVE IInv
  OBVIOUS
<1>1. SendCapacity \in Nat /\ RecvCapacity \in Nat /\ Budgets \subseteq [Fault -> Nat]
  BY ConnectionAssumption
<1>2. ASSUME NEW s \in Side
      PROVE  /\ PeerOf(s, peer[s], peer[Other(s)])
             /\ Inbound(peer[s].receiver).popped = 0
  <2> DEFINE snd == NewTCPSender(SendCapacity, ISN[s])
             other == NewTCPSender(SendCapacity, ISN[Other(s)])
             rcv == NewTCPReceiver(RecvCapacity)
  <2>1. /\ Other(s) \in Side /\ Data(s) \in Seq(Nat) /\ Data(Other(s)) \in Seq(Nat)
        /\ ISN[s] \in Raw /\ ISN[Other(s)] \in Raw
    BY SideFacts
  <2>2. /\ peer[s] = [sender |-> snd, receiver |-> rcv,
                      linger_after_streams_finish |-> TRUE, idle |-> 0]
        /\ peer[Other(s)].sender = other /\ peer[Other(s)].receiver = rcv
    BY <2>1 DEF Init, NewTCPPeer
  <2>3. SenderOf(snd, Data(s)) /\ snd.isn = ISN[s] /\ First(snd) = 0
    BY <1>1, <2>1, NewSender
  <2>4. InputOf(other.input, Data(Other(s))) /\ other.input.pushed = 0 /\ ~ other.input.is_closed
    <3>1. SenderOf(other, Data(Other(s)))
      BY <1>1, <2>1, NewSender
    <3> QED
      BY <3>1 DEF SenderOf, NewTCPSender, NewByteStream
  <2>5. ReceiverOf(rcv, Data(Other(s)), other.input, ISN[Other(s)])
    BY <2>1, <2>4, NewReceiver
  <2>6. PutInPlace(rcv) = 0 /\ Inbound(rcv).popped = 0
    BY DEF NewTCPReceiver, Inbound, NewReassembler, NewByteStream, PutInPlace
  <2>7. snd \in SenderRecord /\ rcv \in ReceiverRecord
    BY <2>3, <2>5 DEF SenderOf, ReceiverOf
  <2> HIDE DEF snd, other, rcv
  <2>8. peer[s] \in PeerRecord /\ peer[s].sender = snd /\ peer[s].receiver = rcv
    BY <2>2, <2>7 DEF PeerRecord
  <2>9. First(snd) <= PutInPlace(rcv)
    BY <2>3, <2>6
  <2>10. /\ ReceiverOf(peer[s].receiver, Data(Other(s)), peer[Other(s)].sender.input, ISN[Other(s)])
         /\ First(peer[s].sender) <= PutInPlace(peer[Other(s)].receiver)
    BY <2>2, <2>5, <2>8, <2>9
  <2> QED
    BY <2>3, <2>6, <2>8, <2>10 DEF PeerOf
<1>3. \A s \in Side : Prefix(Data(Other(s)), 0) = <<>>
  <2> TAKE s \in Side
  <2>1. 0 < 1 /\ 0 \in Int /\ 1 \in Int
    OBVIOUS
  <2> QED
    BY <2>1, SubSeqEmpty DEF Prefix
<1>4. \A s \in Side : network[s] = <<>> /\ consumed[s] = <<>>
  BY DEF Init
<1>5. TypeOK
  <2>1. peer \in [Side -> PeerRecord]
    <3>1. \A s \in Side : peer[s] \in PeerRecord
      BY <1>2 DEF PeerOf
    <3> QED
      BY <3>1 DEF Init
  <2>2. network \in [Side -> Seq(SegmentRecord)] /\ consumed \in [Side -> Seq(Nat)]
    BY EmptySeq DEF Init
  <2> QED
    BY <1>1, <2>1, <2>2 DEF Init, TypeOK
<1>6. World(peer, network, consumed)
  <2>1. \A s \in Side : network[s] \in Seq(Sent(s, peer[s]))
    BY <1>4, EmptySeq
  <2>2. \A s \in Side : consumed[s] = Prefix(Data(Other(s)), Inbound(peer[s].receiver).popped)
    BY <1>2, <1>3, <1>4
  <2> QED
    BY <1>2, <1>5, <2>1, <2>2 DEF World, TypeOK
<1> QED
  BY <1>5, <1>6 DEF IInv

-----------------------------------------------------------------------------
(* One lemma per action *)

LEMMA ConnectStep ==
  ASSUME IInv, Connect
  PROVE  IInv' /\ Streams(peer, peer')
<1> DEFINE s == "client"
           step == PeerPush(peer[s])
<1>1. s \in Side
  BY DEF Side
<1>2. /\ peer' = [peer EXCEPT ![s] = step.peer]
      /\ network' = [network EXCEPT ![s] = @ \o step.out]
      /\ UNCHANGED <<consumed, destroyed, budget>>
  BY DEF Connect, Handle
<1> HIDE DEF s
<1>3. /\ Becomes(s, peer[s], step, peer[Other(s)])
      /\ SameInput(peer[s], step.peer) /\ SameOutput(peer[s], step.peer)
  BY <1>1, Pair, PushingPeer
<1> HIDE DEF step
<1>4. IInv' /\ peer'[s] = step.peer /\ peer'[Other(s)] = peer[Other(s)]
  BY <1>1, <1>2, <1>3, HandleStep
<1> QED
  BY <1>1, <1>3, <1>4, OneSide

LEMMA WriteStep ==
  ASSUME IInv, NEW s \in Side, WriteSome(s)
  PROVE  IInv' /\ Streams(peer, peer')
<1>1. PICK n \in 1 .. SendCapacity : Write(s, n)
  BY DEF WriteSome
<1> DEFINE in   == peer[s].sender.input
           data == SubSeq(Data(s), in.pushed + 1, in.pushed + n)
           step == PeerPush([peer[s] EXCEPT !.sender.input = Push(@, data)])
<1>2. /\ ~ in.is_closed /\ AvailableCapacity(in) > 0
      /\ n <= AvailableCapacity(in) /\ in.pushed + n <= StreamSize[s]
      /\ peer' = [peer EXCEPT ![s] = step.peer]
      /\ network' = [network EXCEPT ![s] = @ \o step.out]
      /\ UNCHANGED <<consumed, destroyed, budget>>
  BY <1>1 DEF Write, Rule2Interest, Snd, Handle
<1>3. n \in Nat
  BY ConnectionAssumption
<1>4. Produces(s, peer[s], step, peer[Other(s)], n, FALSE)
  BY <1>2, <1>3, Pair, WritingPeer
<1> HIDE DEF step
<1>5. IInv' /\ peer'[s] = step.peer /\ peer'[Other(s)] = peer[Other(s)]
  BY <1>2, <1>4, HandleStep DEF Produces
<1>6. Writes(s, peer, peer')
  BY <1>2, <1>4, <1>5 DEF Writes, Produces
<1> QED
  BY <1>5, <1>6 DEF Streams

LEMMA CloseStep ==
  ASSUME IInv, NEW s \in Side, CloseOutbound(s)
  PROVE  IInv' /\ Streams(peer, peer')
<1> DEFINE in   == peer[s].sender.input
           step == PeerPush([peer[s] EXCEPT !.sender.input = Close(@)])
<1>1. /\ in.pushed = StreamSize[s]
      /\ peer' = [peer EXCEPT ![s] = step.peer]
      /\ network' = [network EXCEPT ![s] = @ \o step.out]
      /\ UNCHANGED <<consumed, destroyed, budget>>
  BY DEF CloseOutbound, Snd, Handle
<1>2. Produces(s, peer[s], step, peer[Other(s)], 0, TRUE)
  BY <1>1, Pair, ClosingPeer
<1> HIDE DEF step
<1>3. IInv' /\ peer'[s] = step.peer /\ peer'[Other(s)] = peer[Other(s)]
  BY <1>1, <1>2, HandleStep DEF Produces
<1>4. in.pushed \in Nat
  BY Pair, PeerTypes
<1>5. Closes(s, peer, peer')
  BY <1>2, <1>3, <1>4 DEF Closes, Produces
<1> QED
  BY <1>3, <1>5 DEF Streams

LEMMA ReadStep ==
  ASSUME IInv, NEW s \in Side, ReadSome(s)
  PROVE  IInv' /\ Streams(peer, peer')
<1>1. PICK n \in 1 .. RecvCapacity : Read(s, n)
  BY DEF ReadSome
<1>2. /\ n <= BytesBuffered(Inbound(peer[s].receiver))
      /\ consumed' = [consumed EXCEPT ![s] = @ \o Prefix(Inbound(peer[s].receiver).stream, n)]
      /\ peer' = [peer EXCEPT ![s].receiver.reassembler.output = Pop(@, n)]
      /\ UNCHANGED <<network, destroyed, budget>>
  BY <1>1 DEF Read, Inb
<1>3. n \in Nat
  BY ConnectionAssumption
<1>4. World(peer, network, consumed) /\ TypeOK
  BY DEF IInv
<1>5. /\ World(peer', network, consumed')
      /\ SameInput(peer[s], peer'[s]) /\ SameOutput(peer[s], peer'[s])
      /\ peer'[Other(s)] = peer[Other(s)]
  <2>1. Reads(s, n, peer, peer', consumed, consumed')
    BY <1>2, <1>3 DEF Reads
  <2> QED
    BY <1>4, <2>1, ReadWorld
<1>6. World(peer', network', consumed')
  BY <1>2, <1>5
<1>7. TypeOK'
  BY <1>2, <1>4, <1>6 DEF TypeOK, World
<1> QED
  BY <1>5, <1>6, <1>7, OneSide DEF IInv

LEMMA TickStep ==
  ASSUME IInv, NEW s \in Side, Tick(s)
  PROVE  IInv' /\ Streams(peer, peer')
<1> DEFINE step == PeerTick(peer[s], 1)
<1>1. /\ peer' = [peer EXCEPT ![s] = step.peer]
      /\ network' = [network EXCEPT ![s] = @ \o step.out]
      /\ UNCHANGED <<consumed, destroyed, budget>>
  BY DEF Tick, Handle
<1>2. /\ Becomes(s, peer[s], step, peer[Other(s)])
      /\ SameInput(peer[s], step.peer) /\ SameOutput(peer[s], step.peer)
  BY Pair, TickingPeer
<1> HIDE DEF step
<1>3. IInv' /\ peer'[s] = step.peer /\ peer'[Other(s)] = peer[Other(s)]
  BY <1>1, <1>2, HandleStep
<1> QED
  BY <1>2, <1>3, OneSide

LEMMA TickTogetherStep ==
  ASSUME IInv, TickTogether
  PROVE  IInv' /\ Streams(peer, peer')
<1> DEFINE step(s) == IF Ticks(s) THEN PeerTick(peer[s], 1) ELSE [peer |-> peer[s], out |-> <<>>]
<1>1. /\ peer' = [s \in Side |-> step(s).peer]
      /\ network' = [s \in Side |-> network[s] \o step(s).out]
      /\ UNCHANGED <<consumed, destroyed, budget>>
  BY DEF TickTogether
<1>2. World(peer, network, consumed) /\ TypeOK
  BY DEF IInv
<1>3. ASSUME NEW s \in Side
      PROVE  /\ Becomes(s, peer[s], step(s), peer[Other(s)])
             /\ SameInput(peer[s], step(s).peer) /\ SameOutput(peer[s], step(s).peer)
  <2>1. CASE Ticks(s)
    <3>1. step(s) = PeerTick(peer[s], 1)
      BY <2>1
    <3> HIDE DEF step
    <3> QED
      BY <3>1, Pair, TickingPeer
  <2>2. CASE ~ Ticks(s)
    <3>1. step(s) = [peer |-> peer[s], out |-> <<>>]
      BY <2>2
    <3> HIDE DEF step
    <3> QED
      BY <3>1, Pair, RestingPeer
  <2> QED
    BY <2>1, <2>2
<1> HIDE DEF step
<1>4. ASSUME NEW s \in Side
      PROVE  /\ peer'[s] = step(s).peer /\ peer'[s] \in PeerRecord
             /\ MovesTo(s, peer[s], peer'[s], peer[Other(s)])
             /\ network'[s] \in Seq(Sent(s, peer'[s]))
             /\ network'[s] \in Seq(SegmentRecord)
             /\ consumed[s] = Prefix(Data(Other(s)), Inbound(peer'[s].receiver).popped)
  <2>1. peer'[s] = step(s).peer /\ network'[s] = network[s] \o step(s).out
    BY <1>1
  <2>2. MovesTo(s, peer[s], peer'[s], peer[Other(s)]) /\ step(s).out \in Seq(Sent(s, peer'[s]))
        /\ Inbound(peer'[s].receiver).popped = Inbound(peer[s].receiver).popped
    BY <1>3, <2>1 DEF Becomes
  <2>3. Sent(s, peer[s]) \subseteq Sent(s, peer'[s])
    BY <2>2, Pair, SentStays
  <2>4. network'[s] \in Seq(Sent(s, peer'[s]))
    BY <2>1, <2>2, <2>3, Pair, SeqsOf
  <2>5. consumed[s] = Prefix(Data(Other(s)), Inbound(peer[s].receiver).popped)
    BY <1>2 DEF World
  <2>6. network'[s] \in Seq(SegmentRecord)
    BY <2>4, SentIsSegments
  <2>7. peer'[s] \in PeerRecord
    BY <2>2 DEF MovesTo
  <2> QED
    BY <2>1, <2>2, <2>4, <2>5, <2>6, <2>7
<1>5. /\ peer' \in [Side -> PeerRecord] /\ network' \in [Side -> Seq(SegmentRecord)]
      /\ consumed \in [Side -> Seq(Nat)]
  <2>1. DOMAIN peer' = Side /\ DOMAIN network' = Side
        /\ peer' = [s \in Side |-> peer'[s]] /\ network' = [s \in Side |-> network'[s]]
    BY <1>1
  <2> QED
    BY <1>2, <1>4, <2>1 DEF TypeOK
<1>6. World(peer', network', consumed)
  BY <1>2, <1>4, <1>5, AllMove
<1>7. World(peer', network', consumed') /\ TypeOK'
  BY <1>1, <1>2, <1>5, <1>6 DEF TypeOK
<1>8. \A s \in Side : SameInput(peer[s], peer'[s]) /\ SameOutput(peer[s], peer'[s])
  BY <1>3, <1>4
<1> QED
  BY <1>7, <1>8 DEF IInv, Streams

LEMMA DeliverStep ==
  ASSUME IInv, NEW s \in Side, DeliverSome(s)
  PROVE  IInv' /\ Streams(peer, peer')
<1>1. PICK i \in 1 .. MaxReorder + 1 : Deliver(s, i)
  BY DEF DeliverSome
<1> DEFINE from == Other(s)
           m    == network[from][i]
           step == IF Unwanted(s, m) \/ destroyed[s]
                     THEN [peer |-> peer[s], out |-> <<>>]
                     ELSE PeerReceive(peer[s], m)
<1>2. /\ i \in DOMAIN network[from]
      /\ peer' = [peer EXCEPT ![s] = step.peer]
      /\ network' = [network EXCEPT ![from] = Without(@, i), ![s] = @ \o step.out]
      /\ UNCHANGED <<consumed, destroyed, budget>>
  BY <1>1 DEF Deliver
<1>3. World(peer, network, consumed) /\ TypeOK
  BY DEF IInv
<1>4. m \in Sent(Other(s), peer[Other(s)])
  BY <1>2, Pair, SeqsOf
<1>5. /\ Becomes(s, peer[s], step, peer[Other(s)])
      /\ SameInput(peer[s], step.peer)
  <2>1. CASE Unwanted(s, m) \/ destroyed[s]
    <3>1. step = [peer |-> peer[s], out |-> <<>>]
      BY <2>1
    <3> HIDE DEF step
    <3> QED
      BY <3>1, Pair, RestingPeer
  <2>2. CASE ~ (Unwanted(s, m) \/ destroyed[s])
    <3>1. step = PeerReceive(peer[s], m)
      BY <2>2
    <3>2. Answers(s, peer[s], PeerReceive(peer[s], m), peer[Other(s)])
      BY <1>4, Pair, PeerReceiveStep
    <3> HIDE DEF step
    <3> QED
      BY <3>1, <3>2 DEF Answers, Becomes, SameInput
  <2> QED
    BY <2>1, <2>2
<1> HIDE DEF step, m
<1>6. World(peer', network', consumed)
  BY <1>2, <1>3, <1>5, DeliverWorld
<1>7. World(peer', network', consumed') /\ TypeOK'
  BY <1>2, <1>3, <1>6 DEF TypeOK, World
<1>8. peer'[s] = step.peer /\ peer'[Other(s)] = peer[Other(s)]
  BY <1>2, <1>3, SideFacts DEF TypeOK
<1>9. Hears(s, peer, peer')
  BY <1>5, <1>8 DEF Becomes, MovesTo, Hears, SameOutput
<1> QED
  BY <1>7, <1>8, <1>9 DEF IInv, Streams

LEMMA NetworkStep ==
  ASSUME IInv, NEW s \in Side, NEW way, way \in Seq(Sent(s, peer[s])),
         network' = [network EXCEPT ![s] = way], UNCHANGED <<peer, consumed, destroyed>>,
         budget' \in [Fault -> Nat]
  PROVE  IInv' /\ Streams(peer, peer')
<1>1. World(peer, network, consumed) /\ TypeOK
  BY DEF IInv
<1>2. World(peer, network', consumed)
  BY <1>1, NetWorld
<1>3. World(peer', network', consumed') /\ TypeOK'
  BY <1>1, <1>2 DEF TypeOK, World
<1> QED
  BY <1>3, NoStreams DEF IInv

LEMMA LoseStep ==
  ASSUME IInv, NEW s \in Side, LoseSome(s)
  PROVE  IInv' /\ Streams(peer, peer')
<1>1. PICK i \in DOMAIN network[s] : Lose(s, i)
  BY DEF LoseSome
<1>2. /\ network' = [network EXCEPT ![s] = Without(network[s], i)]
      /\ UNCHANGED <<peer, consumed, destroyed>> /\ Spend("lost")
  BY <1>1 DEF Lose
<1>3. Without(network[s], i) \in Seq(Sent(s, peer[s]))
  BY Pair, SeqsOf
<1>4. budget' \in [Fault -> Nat]
  BY <1>2, SpendType DEF Fault, IInv, TypeOK
<1> QED
  BY <1>2, <1>3, <1>4, NetworkStep

LEMMA DuplicateStep ==
  ASSUME IInv, NEW s \in Side, DuplicateSome(s)
  PROVE  IInv' /\ Streams(peer, peer')
<1>1. PICK i \in DOMAIN network[s] : Duplicate(s, i)
  BY DEF DuplicateSome
<1> DEFINE way == Append(network[s], network[s][i])
<1>2. /\ network' = [network EXCEPT ![s] = way]
      /\ UNCHANGED <<peer, consumed, destroyed>> /\ Spend("duplicated")
  BY <1>1 DEF Duplicate
<1>3. way \in Seq(Sent(s, peer[s]))
  BY Pair, SeqsOf
<1>4. budget' \in [Fault -> Nat]
  BY <1>2, SpendType DEF Fault, IInv, TypeOK
<1> HIDE DEF way
<1> QED
  BY <1>2, <1>3, <1>4, NetworkStep

LEMMA ForeignResetStep ==
  ASSUME IInv, NEW s \in Side, ForeignReset(s)
  PROVE  IInv' /\ Streams(peer, peer')
<1> DEFINE p     == peer[s]
           reset == [EmptyMessage(p.sender) EXCEPT !.RST = TRUE]
           sent  == Segment(reset, ReceiverSend(p.receiver))
           way   == Append(network[s], sent)
<1>1. /\ network' = [network EXCEPT ![s] = way]
      /\ UNCHANGED <<peer, consumed, destroyed>> /\ Spend("resets")
  BY DEF ForeignReset, Snd
<1>2. reset \in MessageRecord /\ reset.RST
  <2>1. EmptyMessage(p.sender) \in MessageRecord
    BY Pair, EmptyMessageSound DEF PeerOf
  <2> HIDE DEF EmptyMessage, p
  <2> QED
    BY <2>1 DEF MessageRecord
<1> HIDE DEF reset
<1>3. sent \in Sent(s, p)
  <2> DEFINE one == <<reset>>
             all == WithReceiverSend(p.receiver, one)
  <2>1. one \in Seq(MessageRecord) /\ Len(one) = 1 /\ one[1] = reset /\ DOMAIN one = 1 .. 1
    BY <1>2
  <2>2. \A i \in 1 .. Len(one) : Sound(one[i], ISN[s], Data(s), p.sender.input)
    BY <1>2, <2>1 DEF Sound
  <2> HIDE DEF one
  <2>3. /\ InputOf(peer[Other(s)].sender.input, Data(Other(s)))
        /\ ReceiverOf(p.receiver, Data(Other(s)), peer[Other(s)].sender.input, ISN[Other(s)])
    BY Pair, PeerTypes DEF PeerOf
  <2>4. all \in Seq(Sent(s, p))
    <3> HIDE DEF p
    <3> QED
      BY <2>1, <2>2, <2>3, SentInSegments
  <2>5. all[1] = sent /\ DOMAIN all = 1 .. 1
    BY <2>1 DEF WithReceiverSend
  <2> HIDE DEF all, sent, p
  <2>6. 1 \in DOMAIN all
    BY <2>5
  <2>7. all[1] \in Sent(s, p)
    BY <2>4, <2>6, SeqsOf
  <2> QED
    BY <2>5, <2>7
<1>4. way \in Seq(Sent(s, peer[s]))
  <2> HIDE DEF sent
  <2> QED
    BY <1>3, Pair, SeqsOf
<1>5. budget' \in [Fault -> Nat]
  BY <1>1, SpendType DEF Fault, IInv, TypeOK
<1> HIDE DEF way
<1> QED
  BY <1>1, <1>4, <1>5, NetworkStep

LEMMA DestroyStep ==
  ASSUME IInv, NEW s \in Side, Destroy(s)
  PROVE  IInv' /\ Streams(peer, peer')
<1>1. /\ UNCHANGED <<peer, network, consumed>> /\ Spend("destroyed")
      /\ destroyed' = [destroyed EXCEPT ![s] = TRUE]
  BY DEF Destroy
<1>2. budget' \in [Fault -> Nat]
  BY <1>1, SpendType DEF Fault, IInv, TypeOK
<1>3. TypeOK' /\ World(peer', network', consumed')
  BY <1>1, <1>2 DEF IInv, TypeOK
<1> QED
  BY <1>1, <1>3, NoStreams DEF IInv

\* Every step keeps the invariant and does no more to the streams than it may.
LEMMA NextInvariant == IInv /\ [Next]_vars => IInv' /\ Streams(peer, peer')
<1> SUFFICES ASSUME IInv, [Next]_vars PROVE IInv' /\ Streams(peer, peer')
  OBVIOUS
<1>1. CASE Connect
  BY <1>1, ConnectStep
<1>2. CASE TickTogether
  BY <1>2, TickTogetherStep
<1>3. ASSUME NEW s \in Side, WriteSome(s) PROVE IInv' /\ Streams(peer, peer')
  BY <1>3, WriteStep
<1>4. ASSUME NEW s \in Side, CloseOutbound(s) PROVE IInv' /\ Streams(peer, peer')
  BY <1>4, CloseStep
<1>5. ASSUME NEW s \in Side, ReadSome(s) PROVE IInv' /\ Streams(peer, peer')
  BY <1>5, ReadStep
<1>6. ASSUME NEW s \in Side, DeliverSome(s) PROVE IInv' /\ Streams(peer, peer')
  BY <1>6, DeliverStep
<1>7. ASSUME NEW s \in Side, Tick(s) PROVE IInv' /\ Streams(peer, peer')
  BY <1>7, TickStep
<1>8. ASSUME NEW s \in Side, Destroy(s) PROVE IInv' /\ Streams(peer, peer')
  BY <1>8, DestroyStep
<1>9. ASSUME NEW s \in Side, LoseSome(s) PROVE IInv' /\ Streams(peer, peer')
  BY <1>9, LoseStep
<1>10. ASSUME NEW s \in Side, DuplicateSome(s) PROVE IInv' /\ Streams(peer, peer')
  BY <1>10, DuplicateStep
<1>11. ASSUME NEW s \in Side, ForeignReset(s) PROVE IInv' /\ Streams(peer, peer')
  BY <1>11, ForeignResetStep
<1>12. CASE UNCHANGED vars
  BY <1>12, NoStreams DEF vars, IInv, TypeOK
<1> QED
  BY <1>1, <1>2, <1>3, <1>4, <1>5, <1>6, <1>7, <1>8, <1>9, <1>10, <1>11, <1>12 DEF Next

\* The inductive invariant holds: every sender holds what may have to be sent
\* again, every receiver has put bytes of the stream in their places, and every
\* segment on its way tells the truth about both.
THEOREM Invariance == Spec => []IInv
<1>1. Init => IInv
  BY InitInvariant
<1>2. IInv /\ [Next]_vars => IInv'
  BY NextInvariant
<1> QED
  BY <1>1, <1>2, PTL DEF Spec

\* Whatever the network does, every variable has its type.
THEOREM TypeCorrect == Spec => []TypeOK
<1>1. IInv => TypeOK
  BY DEF IInv
<1> QED
  BY <1>1, Invariance, PTL

-----------------------------------------------------------------------------
(* What the invariant says of the two senders and the two receivers *)

\* A sender never believes more to be delivered than is in place at the other
\* side (TCPSender::receive, TCPReceiver::send).
THEOREM AckedStaysInPlace == Spec => []AckedIsInPlace
<1>1. IInv => AckedIsInPlace
  <2> SUFFICES ASSUME IInv, NEW s \in Side PROVE Una(s) <= InPlace(Other(s))
    BY DEF AckedIsInPlace
  <2>1. First(peer[s].sender) <= PutInPlace(peer[Other(s)].receiver)
    BY Pair DEF PeerOf
  <2> QED
    BY <2>1 DEF First, Una, Snd, PutInPlace, InPlace, Inb
<1> QED
  BY <1>1, Invariance, PTL

\* What may have to be sent again is kept, in one piece, and the timer runs for
\* it (TCPSender::push, receive and tick).
THEOREM OutstandingStaysRecoverable == Spec => []OutstandingIsRecoverable
<1>1. ASSUME IInv, NEW s \in Side, ~ Snd(s).input.error
      PROVE  LET os == Snd(s).outstanding
                 start(i) == SeqnoOf(Snd(s), os[i].seqno)
                 end(i)   == SegmentEnd(Snd(s), os[i])
             IN  /\ os = <<>> => Snd(s).bytes_unack = 0
                 /\ os # <<>> => /\ start(1) = Una(s)
                                 /\ end(Len(os)) = Snd(s).next_seqno
                                 /\ Snd(s).timer_active
                                 /\ Snd(s).timer < Snd(s).RTO
                 /\ \A i \in 1 .. Len(os) - 1 : end(i) = start(i + 1)
  <2> DEFINE snd == peer[s].sender
             D   == Data(s)
             os  == snd.outstanding
             n   == Len(os)
             start(i) == SeqnoOf(snd, os[i].seqno)
             end(i)   == SegmentEnd(snd, os[i])
  <2>1. /\ SenderOf(snd, D) /\ Small(D) /\ ~ snd.input.error /\ snd \in SenderRecord
        /\ os \in Seq(MessageRecord)
    BY <1>1, Pair, SideFacts DEF PeerOf, SenderOf, SenderRecord, Snd
  <2>2. PICK st : QueueAt(snd, D, st)
    BY <2>1 DEF SenderOf, Queue
  <2>3. \A i \in 1 .. n : start(i) = st[i] /\ end(i) = st[i + 1]
    BY <2>1, <2>2, SegmentsAt
  <2>4. /\ st[1] = First(snd) /\ st[n + 1] = snd.next_seqno /\ n \in Nat
        /\ snd.next_seqno \in Nat /\ snd.bytes_unack \in Int
    BY <2>1, <2>2, LenProperties DEF QueueAt, SenderRecord
  <2>5. Timed(snd)
    BY <2>1 DEF SenderOf
  <2> HIDE DEF start, end
  <2>6. CASE os = <<>>
    <3>1. n = 0
      BY <2>6
    <3>2. st[1] = snd.next_seqno
      BY <2>4, <3>1
    <3>3. snd.bytes_unack = 0
      BY <2>4, <3>2 DEF First
    <3>4. 1 .. n - 1 = {}
      BY <3>1
    <3> QED
      BY <2>6, <3>3, <3>4 DEF Snd
  <2>7. CASE os # <<>>
    <3>1. n > 0
      BY <2>1, <2>7, LenProperties, EmptySeq
    <3>2. 1 \in 1 .. n /\ n \in 1 .. n
      BY <2>4, <3>1
    <3>3. start(1) = First(snd) /\ end(n) = snd.next_seqno
      BY <2>3, <2>4, <3>2
    <3>4. snd.timer_active /\ snd.timer < snd.RTO
      BY <2>5, <2>7 DEF Timed
    <3>5. ASSUME NEW i \in 1 .. n - 1 PROVE end(i) = start(i + 1)
      <4>1. i \in 1 .. n /\ i + 1 \in 1 .. n
        BY <2>4
      <4> QED
        BY <2>3, <4>1
    <3> QED
      BY <2>7, <3>3, <3>4, <3>5 DEF Snd, Una, First, start, end
  <2> QED
    BY <2>6, <2>7
<1>2. IInv => OutstandingIsRecoverable
  BY <1>1 DEF OutstandingIsRecoverable
<1> QED
  BY <1>2, Invariance, PTL

\* The timeout of either side is the initial one doubled for every
\* retransmission since the last new acknowledgment, as push(), receive() and
\* tick() leave it (tcp_sender.cc).
THEOREM TimeoutStaysInStep == Spec => []BackoffInStep
<1>1. IInv => BackoffInStep
  <2> SUFFICES ASSUME IInv, NEW s \in Side
               PROVE  Snd(s).RTO = RtoAfter(Snd(s).consecutive_retransmissions)
    BY DEF BackoffInStep
  <2> QED
    BY Pair DEF PeerOf, SenderOf, Timed, Snd
<1> QED
  BY <1>1, Invariance, PTL

\* A sender that has had everything acknowledged, its FIN apart, has had every
\* byte delivered.
LEMMA FinishedIsDelivered ==
  ASSUME NEW s \in Side, NEW p, NEW q, PeerOf(s, p, q), PeerOf(Other(s), q, p),
         IsFinished(p.sender.input), p.sender.bytes_unack <= 0
  PROVE  Inbound(q.receiver).pushed = StreamSize[s]
<1> DEFINE snd == p.sender
           in  == snd.input
           out == Inbound(q.receiver)
           L   == StreamSize[s]
           first == First(snd)
<1>1. /\ SenderOf(snd, Data(s)) /\ InputOf(in, Data(s)) /\ Numbered(snd) /\ snd \in SenderRecord
      /\ first \in 0 .. snd.next_seqno /\ first <= PutInPlace(q.receiver)
  BY DEF PeerOf, SenderOf
<1>2. /\ in.pushed = L /\ in.popped = L /\ L \in Nat
  <2>1. in.is_closed /\ in.stream = <<>> /\ in.popped \in Nat
    BY <1>1 DEF IsFinished, InputOf, ByteStreamOf
  <2>2. in.pushed = L /\ in.pushed = in.popped + Len(in.stream) /\ L \in Nat
    BY <1>1, <2>1, SideFacts DEF InputOf
  <2>3. Len(in.stream) = 0
    BY <2>1
  <2> QED
    BY <2>1, <2>2, <2>3
<1>3. /\ out.pushed \in Nat /\ out.pushed <= in.pushed
      /\ out.is_closed => out.pushed = in.pushed
      /\ PutInPlace(q.receiver) \in Nat
  <2>1. ReceiverOf(q.receiver, Data(s), in, ISN[s])
    BY SideFacts DEF PeerOf
  <2> QED
    BY <1>1, <2>1, ReceiverTypes, PeerTypes
<1>4. first = snd.next_seqno /\ snd.next_seqno \in Nat
  <2>1. snd.next_seqno \in Nat /\ snd.bytes_unack \in Int /\ first = snd.next_seqno - snd.bytes_unack
    BY <1>1 DEF SenderRecord, First
  <2> QED
    BY <1>1, <2>1
<1>5. snd.next_seqno <= PutInPlace(q.receiver)
  BY <1>1, <1>4
<1>6. /\ ~ snd.syn_sent => L = 0
      /\ snd.syn_sent => snd.next_seqno >= 1 + L
  BY <1>1, <1>2 DEF Numbered
<1>7. ~ out.is_closed => PutInPlace(q.receiver) <= 1 + out.pushed
  BY <1>3 DEF PutInPlace
<1> HIDE DEF snd, in, out, L, first
<1>8. CASE out.is_closed
  BY <1>2, <1>3, <1>8 DEF L, out
<1>9. CASE ~ out.is_closed
  <2>1. out.pushed >= L
    BY <1>2, <1>3, <1>4, <1>5, <1>6, <1>7, <1>9
  <2>2. out.pushed = L
    BY <1>2, <1>3, <2>1
  <2> QED
    BY <2>2 DEF out, L
<1> QED
  BY <1>8, <1>9

\* A peer that stays silent without an error leaves no byte behind, in either
\* direction (TCPPeer::active).
THEOREM QuietStaysDelivered == Spec => []QuietMeansDelivered
<1>1. ASSUME IInv, NEW s \in Side, Quiet(s) PROVE Inb(s).pushed = StreamSize[Other(s)]
  <2> DEFINE p == peer[s]
             q == peer[Other(s)]
             D == Data(Other(s))
             in == q.sender.input
  <2>1. Inbound(p.receiver).is_closed
    BY <1>1 DEF Quiet, Active
  <2>2. ReceiverOf(p.receiver, D, in, ISN[Other(s)]) /\ InputOf(in, D)
    BY <1>1, Pair, PeerTypes DEF PeerOf
  <2>3. Inbound(p.receiver).pushed = in.pushed /\ in.is_closed
    BY <2>1, <2>2, ReceiverTypes
  <2>4. in.pushed = Len(D) /\ Len(D) = StreamSize[Other(s)]
    BY <2>2, <2>3, SideFacts DEF InputOf
  <2> QED
    BY <2>3, <2>4 DEF Inb
<1>2. ASSUME IInv, NEW s \in Side, Quiet(s) PROVE Inb(Other(s)).pushed = StreamSize[s]
  <2>1. IsFinished(peer[s].sender.input) /\ ~ peer[s].sender.bytes_unack > 0
    BY <1>2 DEF Quiet, Active
  <2>2. peer[s].sender.bytes_unack \in Int
    BY <1>2, Pair, PeerTypes DEF SenderRecord
  <2>3. peer[s].sender.bytes_unack <= 0
    BY <2>1, <2>2
  <2> QED
    BY <1>2, <2>1, <2>3, Pair, FinishedIsDelivered DEF Inb
<1>3. IInv => QuietMeansDelivered
  <2> SUFFICES ASSUME IInv, NEW s \in Side, NEW t \in Side, Quiet(s)
               PROVE  Inb(t).pushed = StreamSize[Other(t)]
    BY DEF QuietMeansDelivered
  <2>1. CASE t = s
    BY <1>1, <2>1
  <2>2. CASE t = Other(s)
    BY <1>2, <2>2, SideFacts
  <2> QED
    BY <2>1, <2>2 DEF Side, Other
<1> QED
  BY <1>3, Invariance, PTL

-----------------------------------------------------------------------------
(* The connection implements ReliableStream *)

\* Where the two streams are.
Places(pe, con) ==
  \A s \in Side :
    /\ pe[s].sender.input.pushed \in 0 .. Len(Data(s))
    /\ pe[s].sender.input.is_closed \in BOOLEAN
    /\ Inbound(pe[s].receiver).pushed \in 0 .. pe[Other(s)].sender.input.pushed
    /\ Inbound(pe[s].receiver).is_closed \in BOOLEAN
    /\ Inbound(pe[s].receiver).is_closed =>
         /\ pe[Other(s)].sender.input.is_closed
         /\ Inbound(pe[s].receiver).pushed = pe[Other(s)].sender.input.pushed
    /\ con[s] \o Inbound(pe[s].receiver).stream
         = Prefix(Data(Other(s)), Inbound(pe[s].receiver).pushed)

LEMMA WorldPlaces ==
  ASSUME NEW pe, NEW net, NEW con, World(pe, net, con)
  PROVE  Places(pe, con)
<1>1. ASSUME NEW s \in Side
      PROVE  /\ pe[s].sender.input.pushed \in 0 .. Len(Data(s))
             /\ pe[s].sender.input.is_closed \in BOOLEAN
             /\ Inbound(pe[s].receiver).pushed \in 0 .. pe[Other(s)].sender.input.pushed
             /\ Inbound(pe[s].receiver).is_closed \in BOOLEAN
             /\ Inbound(pe[s].receiver).is_closed =>
                  /\ pe[Other(s)].sender.input.is_closed
                  /\ Inbound(pe[s].receiver).pushed = pe[Other(s)].sender.input.pushed
  <2> DEFINE p == pe[s]
             in == pe[Other(s)].sender.input
  <2>1. PeerOf(s, pe[s], pe[Other(s)]) /\ PeerOf(Other(s), pe[Other(s)], pe[s])
    BY WorldFacts
  <2>2. /\ InputOf(p.sender.input, Data(s)) /\ InputOf(in, Data(Other(s)))
        /\ ReceiverOf(p.receiver, Data(Other(s)), in, ISN[Other(s)])
    BY <2>1, PeerTypes DEF PeerOf
  <2>3. /\ Inbound(p.receiver).pushed \in Nat /\ Inbound(p.receiver).pushed <= in.pushed
        /\ in.pushed \in Nat /\ Inbound(p.receiver).is_closed \in BOOLEAN
        /\ Inbound(p.receiver).is_closed => in.is_closed /\ Inbound(p.receiver).pushed = in.pushed
    BY <2>2, ReceiverTypes
  <2>4. /\ p.sender.input.pushed \in Nat /\ p.sender.input.pushed <= Len(Data(s))
        /\ Len(Data(s)) \in Nat /\ p.sender.input.is_closed \in BOOLEAN
    BY <2>2, LenProperties DEF InputOf, ByteStreamOf
  <2>5. /\ p.sender.input.pushed \in 0 .. Len(Data(s))
        /\ Inbound(p.receiver).pushed \in 0 .. in.pushed
    BY <2>3, <2>4
  <2> QED
    BY <2>3, <2>4, <2>5
<1> QED
  BY <1>1, DeliveredIsPrefix DEF Places

LEMMA FromOther == \A s \in Side : Stream!From(s) = Other(s)
<1> SUFFICES ASSUME NEW s \in Side PROVE Stream!From(s) = Other(s)
  OBVIOUS
<1>1. Other(s) \in Side /\ Other(s) # s /\ \A t \in Side : t # s => t = Other(s)
  BY DEF Side, Other
<1>2. Stream!From(s) \in Side /\ Stream!From(s) # s
  BY <1>1, Zenon DEF Stream!From
<1> QED
  BY <1>1, <1>2

LEMMA PrefixOfPrefix ==
  ASSUME NEW D \in Seq(Nat), NEW k \in 0 .. Len(D), NEW n \in 0 .. k
  PROVE  /\ SubSeq(Prefix(D, k), 1, n) = Prefix(D, n)
         /\ Len(Prefix(D, k)) = k
<1> DEFINE y == Prefix(D, k)
<1>1. n \in 0 .. Len(D) /\ Len(D) \in Nat
  BY LenProperties
<1>2. y \in Seq(Nat) /\ Len(y) = k /\ \A i \in 1 .. k : y[i] = D[i]
  BY PrefixOf
<1>3. /\ Prefix(D, n) \in Seq(Nat) /\ Len(Prefix(D, n)) = n
      /\ \A i \in 1 .. n : Prefix(D, n)[i] = D[i]
  BY <1>1, PrefixOf
<1> HIDE DEF y
<1>4. n \in 0 .. Len(y)
  BY <1>2
<1>5. /\ Prefix(y, n) \in Seq(Nat) /\ Len(Prefix(y, n)) = n
      /\ \A i \in 1 .. n : Prefix(y, n)[i] = y[i]
  BY <1>2, <1>4, PrefixOf
<1>6. \A i \in 1 .. n : Prefix(y, n)[i] = Prefix(D, n)[i]
  <2> TAKE i \in 1 .. n
  <2>1. i \in 1 .. k
    BY <1>1
  <2> QED
    BY <1>2, <1>3, <1>5, <2>1
<1>7. Prefix(y, n) = Prefix(D, n)
  BY <1>3, <1>5, <1>6, SeqEqual
<1> QED
  BY <1>2, <1>7 DEF y, Prefix

\* The bytes of D from a position on are values the applications write.
LEMMA PieceIsData ==
  ASSUME NEW s \in Side, NEW a \in 0 .. Len(Data(s)), NEW n \in 1 .. SendCapacity,
         a + n \in 0 .. Len(Data(s))
  PROVE  \E data \in BoundedSeq(AppData, SendCapacity) :
           Prefix(Data(s), a + n) = Prefix(Data(s), a) \o data
<1> DEFINE D == Data(s)
           data == SubSeq(D, a + 1, a + n)
<1>1. D \in Seq(Nat) /\ Len(D) \in Nat /\ SendCapacity \in Nat /\ DOMAIN D = 1 .. Len(D)
      /\ a + 1 \in Int /\ a + n \in Int /\ a \in Nat /\ n \in Nat /\ n \in 0 .. SendCapacity
  BY SideFacts, LenProperties, ConnectionAssumption
<1>2. \A i \in a + 1 .. a + n : i \in DOMAIN D /\ D[i] \in Nat
  <2> TAKE i \in a + 1 .. a + n
  <2>1. i \in 1 .. Len(D)
    BY <1>1
  <2> QED
    BY <1>1, <2>1, ElementOfSeq
<1>3. /\ data \in Seq(Nat) /\ Len(data) = n /\ \A i \in 1 .. n : data[i] = D[a + i]
  <2> HIDE DEF D
  <2>1. /\ data \in Seq(Nat) /\ Len(data) = IF a + 1 <= a + n THEN (a + n) - (a + 1) + 1 ELSE 0
        /\ \A i \in 1 .. (a + n) - (a + 1) + 1 : data[i] = D[a + 1 + i - 1]
    BY <1>1, <1>2, SubSeqProperties
  <2> HIDE DEF data
  <2> QED
    BY <1>1, <2>1
<1> HIDE DEF data
<1>4. \A i \in 1 .. n : data[i] \in AppData
  <2> TAKE i \in 1 .. n
  <2>1. a + i \in a + 1 .. a + n
    BY <1>1
  <2>2. data[i] = D[a + i] /\ a + i \in DOMAIN D
    BY <1>2, <1>3, <2>1
  <2> QED
    BY <2>2 DEF AppData
<1>5. data \in [1 .. n -> AppData]
  <2>1. data \in [1 .. n -> Nat]
    BY <1>3, LenProperties
  <2> QED
    BY <1>4, <2>1
<1>6. data \in BoundedSeq(AppData, SendCapacity)
  BY <1>1, <1>5 DEF BoundedSeq, SeqOf
<1>7. Prefix(D, a) \o data = Prefix(D, a + n)
  <2> HIDE DEF D
  <2>1. a + Len(data) <= Len(D) /\ \A i \in 1 .. Len(data) : data[i] = D[a + i]
    BY <1>1, <1>3 DEF D
  <2> QED
    BY <1>1, <1>3, <2>1, PrefixJoin
<1> QED
  BY <1>6, <1>7

LEMMA StreamStep ==
  ASSUME IInv, IInv', Streams(peer, peer')
  PROVE  [Stream!Next]_Stream!streamVars
<1> DEFINE w == [s \in Side |-> Prefix(Data(s), Snd(s).input.pushed)]
           c == [s \in Side |-> Snd(s).input.is_closed]
           d == [s \in Side |-> consumed[s] \o Inb(s).stream]
           e == [s \in Side |-> Inb(s).is_closed]
<1>1. Places(peer, consumed) /\ Places(peer', consumed')
  BY WorldPlaces DEF IInv
<1>2. ASSUME NEW s \in Side
      PROVE  /\ w[s] = Prefix(Data(s), peer[s].sender.input.pushed)
             /\ w'[s] = Prefix(Data(s), peer'[s].sender.input.pushed)
             /\ c[s] = peer[s].sender.input.is_closed /\ c'[s] = peer'[s].sender.input.is_closed
             /\ d[s] = Prefix(Data(Other(s)), Inbound(peer[s].receiver).pushed)
             /\ d'[s] = Prefix(Data(Other(s)), Inbound(peer'[s].receiver).pushed)
             /\ e[s] = Inbound(peer[s].receiver).is_closed
             /\ e'[s] = Inbound(peer'[s].receiver).is_closed
  BY <1>1 DEF Places, Snd, Inb
<1>3. /\ w = [s \in Side |-> w[s]] /\ w' = [s \in Side |-> w'[s]]
      /\ c = [s \in Side |-> c[s]] /\ c' = [s \in Side |-> c'[s]]
      /\ d = [s \in Side |-> d[s]] /\ d' = [s \in Side |-> d'[s]]
      /\ e = [s \in Side |-> e[s]] /\ e' = [s \in Side |-> e'[s]]
  OBVIOUS
<1>4. /\ Stream!streamVars = <<w, c, d, e>> /\ Stream!streamVars' = <<w', c', d', e'>>
  BY DEF Stream!streamVars
<1>5. ASSUME NEW s \in Side, ~ c[s], c' = c, d' = d, e' = e,
             NEW data \in BoundedSeq(AppData, SendCapacity), w' = [w EXCEPT ![s] = w[s] \o data]
      PROVE  Stream!WriteBytes(s)
  <2>1. data \in Stream!BoundedSeq(AppData, SendCapacity)
    BY <1>5 DEF Stream!BoundedSeq, Stream!SeqOf, BoundedSeq, SeqOf
  <2> QED
    BY <1>5, <2>1 DEF Stream!WriteBytes, Snd, Inb
<1>6. ASSUME NEW s \in Side, c' = [c EXCEPT ![s] = TRUE], w' = w, d' = d, e' = e
      PROVE  Stream!CloseStream(s)
  BY <1>6 DEF Stream!CloseStream, Snd, Inb
<1>7. ASSUME NEW s \in Side, ~ e[s], w' = w, c' = c,
             \E n \in Len(d[s]) .. Len(w[Stream!From(s)]) :
                  /\ d' = [d EXCEPT ![s] = SubSeq(w[Stream!From(s)], 1, n)]
                  /\ \/ e' = e
                     \/ /\ c[Stream!From(s)]
                        /\ n = Len(w[Stream!From(s)])
                        /\ e' = [e EXCEPT ![s] = TRUE]
      PROVE  Stream!DeliverBytes(s)
  BY <1>7 DEF Stream!DeliverBytes, Snd, Inb
<1>8. ASSUME NEW s \in Side PROVE Other(s) \in Side /\ Other(s) # s /\ Stream!From(s) = Other(s)
                                  /\ \A t \in Side : t = s \/ t = Other(s)
  BY FromOther, SideFacts DEF Side, Other
<1> HIDE DEF w, c, d, e
<1>9. CASE \A s \in Side : SameInput(peer[s], peer'[s]) /\ SameOutput(peer[s], peer'[s])
  <2>1. \A s \in Side : w'[s] = w[s] /\ c'[s] = c[s] /\ d'[s] = d[s] /\ e'[s] = e[s]
    BY <1>2, <1>9 DEF SameInput, SameOutput
  <2>2. w' = w /\ c' = c /\ d' = d /\ e' = e
    BY <1>3, <2>1
  <2> QED
    BY <1>4, <2>2
<1>10. ASSUME NEW s \in Side, peer'[Other(s)] = peer[Other(s)],
              Writes(s, peer, peer') \/ Closes(s, peer, peer') \/ Hears(s, peer, peer')
       PROVE  [Stream!Next]_Stream!streamVars
  <2> DEFINE t == Other(s)
  <2>1. /\ t \in Side /\ t # s /\ Stream!From(s) = t /\ \A x \in Side : x = s \/ x = t
    BY <1>8
  <2> HIDE DEF t
  <2>2. w'[t] = w[t] /\ c'[t] = c[t] /\ d'[t] = d[t] /\ e'[t] = e[t]
    BY <1>2, <1>10, <2>1 DEF t
  <2>3. CASE Writes(s, peer, peer')
    <3> DEFINE a == peer[s].sender.input.pushed
    <3>1. PICK n \in 1 .. SendCapacity :
            /\ ~ peer[s].sender.input.is_closed
            /\ peer'[s].sender.input.pushed = a + n
            /\ peer'[s].sender.input.is_closed = FALSE
            /\ SameOutput(peer[s], peer'[s])
      BY <2>3 DEF Writes
    <3>2. a \in 0 .. Len(Data(s)) /\ a + n \in 0 .. Len(Data(s)) /\ peer[s].sender.input.is_closed \in BOOLEAN
      BY <1>1, <3>1 DEF Places
    <3>3. PICK data \in BoundedSeq(AppData, SendCapacity) :
            Prefix(Data(s), a + n) = Prefix(Data(s), a) \o data
      BY <3>2, PieceIsData
    <3>4. w'[s] = w[s] \o data /\ ~ c[s] /\ c'[s] = c[s] /\ d'[s] = d[s] /\ e'[s] = e[s]
      BY <1>2, <3>1, <3>2, <3>3 DEF SameOutput
    <3>5. w' = [w EXCEPT ![s] = w[s] \o data] /\ c' = c /\ d' = d /\ e' = e
      BY <1>3, <2>1, <2>2, <3>4
    <3>6. Stream!WriteBytes(s)
      BY <1>5, <3>4, <3>5
    <3> QED
      BY <3>6 DEF Stream!Next
  <2>4. CASE Closes(s, peer, peer')
    <3>1. w'[s] = w[s] /\ c'[s] = TRUE /\ d'[s] = d[s] /\ e'[s] = e[s]
      BY <1>2, <2>4 DEF Closes, SameOutput
    <3>2. c' = [c EXCEPT ![s] = TRUE] /\ w' = w /\ d' = d /\ e' = e
      BY <1>3, <2>1, <2>2, <3>1
    <3>3. Stream!CloseStream(s)
      BY <1>6, <3>2
    <3> QED
      BY <3>3 DEF Stream!Next
  <2>5. CASE Hears(s, peer, peer') /\ ~ e[s]
    <3> DEFINE D == Data(t)
               k == peer[t].sender.input.pushed
               m == Inbound(peer[s].receiver).pushed
               n == Inbound(peer'[s].receiver).pushed
    <3>1. /\ k \in 0 .. Len(D) /\ m \in 0 .. k /\ n \in 0 .. k /\ m <= n
          /\ D \in Seq(Nat) /\ Len(D) \in Nat
          /\ Inbound(peer'[s].receiver).is_closed => peer[t].sender.input.is_closed /\ n = k
          /\ Inbound(peer'[s].receiver).is_closed \in BOOLEAN
      BY <1>1, <1>10, <2>1, <2>5, SideFacts, LenProperties DEF Places, Hears, t
    <3>2. /\ w[t] = Prefix(D, k) /\ d[s] = Prefix(D, m) /\ d'[s] = Prefix(D, n)
          /\ c[t] = peer[t].sender.input.is_closed
          /\ e[s] = Inbound(peer[s].receiver).is_closed
          /\ e'[s] = Inbound(peer'[s].receiver).is_closed
      BY <1>2, <2>1 DEF t
    <3>3. w'[s] = w[s] /\ c'[s] = c[s]
      BY <1>2, <2>5 DEF Hears, SameInput
    <3> HIDE DEF D, k, m, n
    <3>4. /\ Len(w[t]) = k /\ Len(d[s]) = m /\ SubSeq(w[t], 1, n) = d'[s]
      <4>1. m \in 0 .. Len(D)
        BY <3>1
      <4> QED
        BY <3>1, <3>2, <4>1, PrefixOfPrefix
    <3>5. n \in Len(d[s]) .. Len(w[t])
      BY <3>1, <3>4
    <3>6. w' = w /\ c' = c /\ d' = [d EXCEPT ![s] = SubSeq(w[t], 1, n)]
      BY <1>3, <2>1, <2>2, <3>3, <3>4
    <3>7. e' = e \/ (c[t] /\ n = Len(w[t]) /\ e' = [e EXCEPT ![s] = TRUE])
      <4>1. CASE e'[s] = TRUE
        <5>1. c[t] /\ n = Len(w[t])
          BY <3>1, <3>2, <3>4, <4>1
        <5>2. e' = [e EXCEPT ![s] = TRUE]
          BY <1>3, <2>1, <2>2, <4>1
        <5> QED
          BY <5>1, <5>2
      <4>2. CASE e'[s] = FALSE
        <5>1. e'[s] = e[s]
          <6>1. e[s] = FALSE
            BY <1>1, <2>5, <3>2 DEF Places
          <6> QED
            BY <4>2, <6>1
        <5> QED
          BY <1>3, <2>1, <2>2, <5>1
      <4> QED
        BY <3>1, <3>2, <4>1, <4>2
    <3>8. Stream!DeliverBytes(s)
      <4>1. \E j \in Len(d[s]) .. Len(w[Stream!From(s)]) :
                  /\ d' = [d EXCEPT ![s] = SubSeq(w[Stream!From(s)], 1, j)]
                  /\ \/ e' = e
                     \/ /\ c[Stream!From(s)]
                        /\ j = Len(w[Stream!From(s)])
                        /\ e' = [e EXCEPT ![s] = TRUE]
        BY <2>1, <3>5, <3>6, <3>7
      <4> QED
        BY <1>7, <2>5, <3>6, <4>1
    <3> QED
      BY <3>8 DEF Stream!Next
  <2>6. CASE Hears(s, peer, peer') /\ e[s]
    <3>1. w'[s] = w[s] /\ c'[s] = c[s] /\ d'[s] = d[s] /\ e'[s] = e[s]
      BY <1>2, <2>6 DEF Hears, SameInput, SameOutput
    <3>2. w' = w /\ c' = c /\ d' = d /\ e' = e
      BY <1>3, <2>1, <2>2, <3>1
    <3> QED
      BY <1>4, <3>2
  <2> QED
    BY <1>10, <2>3, <2>4, <2>5, <2>6
<1> QED
  BY <1>9, <1>10 DEF Streams

LEMMA StreamInit == Init => Stream!Init
<1> SUFFICES ASSUME Init PROVE Stream!Init
  OBVIOUS
<1>1. ASSUME NEW s \in Side
      PROVE  /\ Snd(s).input.pushed = 0 /\ Snd(s).input.is_closed = FALSE
             /\ consumed[s] = <<>> /\ Inb(s).stream = <<>> /\ Inb(s).is_closed = FALSE
  BY DEF Init, Snd, Inb, Inbound, NewTCPPeer, NewTCPSender, NewTCPReceiver, NewReassembler,
         NewByteStream
<1>2. \A s \in Side : Prefix(Data(s), 0) = <<>>
  <2> TAKE s \in Side
  <2>1. 0 < 1 /\ 0 \in Int /\ 1 \in Int
    OBVIOUS
  <2> QED
    BY <2>1, SubSeqEmpty DEF Prefix
<1>3. \A s \in Side : Prefix(Data(s), Snd(s).input.pushed) = <<>>
  BY <1>1, <1>2
<1>4. \A s \in Side : consumed[s] \o Inb(s).stream = <<>>
  <2> TAKE s \in Side
  <2>1. <<>> \o <<>> = <<>>
    OBVIOUS
  <2> QED
    BY <1>1, <2>1, Zenon
<1> QED
  BY <1>1, <1>3, <1>4 DEF Stream!Init

\* The refinement: whatever happens to the segments, each side gets the bytes
\* that the other one has written, once and in order, and their end after them
\* (the whole of TCPSender, TCPReceiver and Reassembler).
THEOREM StreamImplemented == Spec => ImplementsStream
<1>1. Init => Stream!Init
  BY StreamInit
<1>2. IInv /\ [Next]_vars => IInv' /\ [Stream!Next]_Stream!streamVars
  BY NextInvariant, StreamStep
<1>3. Spec => []IInv
  BY Invariance
<1> QED
  BY <1>1, <1>2, <1>3, PTL DEF Spec, ImplementsStream, Stream!StreamSpec
-----------------------------------------------------------------------------
(* The window, when segments stay in order *)

\* What a receiver has to say: where it is in the stream and up to where the
\* other side may send.
Place(ackno, isn) == IF ackno = NoSeqno THEN 0 ELSE Unwrap(ackno, isn, 0)

Offer(m, isn) ==
  [at |-> Place(m.ackno, isn), end |-> Place(m.ackno, isn) + m.window_size]

OfferNow(rcv, isn) == Offer(ReceiverSend(rcv), isn)

\* Before anything has arrived there is room at least for the SYN.
Proper(a) == a.at \in Nat /\ a.end \in Nat /\ (a.at = 0 => a.end > 0)

\* b takes back nothing that a has granted.
NoLess(a, b) == a.at <= b.at /\ a.end <= b.end

\* The offers that the segments of seq carry grow along the way, from what the
\* sender holds to what the receiver would say now.
Growing(held, seq, isn, now) ==
  /\ Proper(held) /\ Proper(now) /\ NoLess(held, now)
  /\ \A i \in 1 .. Len(seq) : /\ Proper(Offer(seq[i], isn))
                              /\ NoLess(held, Offer(seq[i], isn))
                              /\ NoLess(Offer(seq[i], isn), now)
  /\ \A i, j \in 1 .. Len(seq) :
       i <= j => NoLess(Offer(seq[i], isn), Offer(seq[j], isn))

Held(snd, x) == [at |-> x, end |-> x + snd.window_size]

\* The sender keeps to an offer of the receiver, and those on their way are no
\* less.
Ahead(snd, seq, rcv, isn) ==
  \E x \in Nat : Within(snd, x) /\ Growing(Held(snd, x), seq, isn, OfferNow(rcv, isn))

LEMMA NoLessTwice ==
  ASSUME NEW a, NEW b, NEW c, Proper(a), Proper(b), Proper(c), NoLess(a, b), NoLess(b, c)
  PROVE  NoLess(a, c)
BY DEF Proper, NoLess

LEMMA NoLessSame ==
  ASSUME NEW a, Proper(a)
  PROVE  NoLess(a, a)
BY DEF Proper, NoLess

LEMMA WithoutOne ==
  ASSUME NEW S, NEW seq \in Seq(S), NEW i \in 1 .. Len(seq)
  PROVE  /\ Len(Without(seq, i)) = Len(seq) - 1
         /\ \A j \in 1 .. Len(seq) - 1 :
              Without(seq, i)[j] = IF j < i THEN seq[j] ELSE seq[j + 1]
<1> DEFINE n == Len(seq)
           a == SubSeq(seq, 1, i - 1)
           b == SubSeq(seq, i + 1, n)
<1>1. n \in Nat /\ i \in Nat /\ i >= 1 /\ i <= n
  BY LenProperties
<1>2. \A j \in 1 .. n : seq[j] \in S
  BY ElementOfSeq
<1>3. a \in Seq(S) /\ Len(a) = i - 1 /\ \A j \in 1 .. i - 1 : a[j] = seq[j]
  <2>1. \A j \in 1 .. i - 1 : seq[j] \in S
    BY <1>1, <1>2
  <2>2. /\ a \in Seq(S) /\ Len(a) = (IF 1 <= i - 1 THEN (i - 1) - 1 + 1 ELSE 0)
        /\ \A j \in 1 .. (i - 1) - 1 + 1 : a[j] = seq[1 + j - 1]
    BY <1>1, <2>1, SubSeqProperties
  <2> HIDE DEF a, n
  <2>3. (i - 1) - 1 + 1 = i - 1 /\ Len(a) = i - 1
    BY <1>1, <2>2
  <2>4. \A j \in 1 .. i - 1 : 1 + j - 1 = j
    BY <1>1
  <2> QED
    BY <2>2, <2>3, <2>4
<1>4. b \in Seq(S) /\ Len(b) = n - i /\ \A j \in 1 .. n - i : b[j] = seq[i + j]
  <2>1. \A j \in i + 1 .. n : seq[j] \in S
    BY <1>1, <1>2
  <2>2. /\ b \in Seq(S) /\ Len(b) = (IF i + 1 <= n THEN n - (i + 1) + 1 ELSE 0)
        /\ \A j \in 1 .. n - (i + 1) + 1 : b[j] = seq[(i + 1) + j - 1]
    BY <1>1, <2>1, SubSeqProperties
  <2> HIDE DEF b, n
  <2>3. n - (i + 1) + 1 = n - i /\ Len(b) = n - i
    BY <1>1, <2>2
  <2>4. \A j \in 1 .. n - i : (i + 1) + j - 1 = i + j
    BY <1>1
  <2> QED
    BY <2>2, <2>3, <2>4
<1>5. Without(seq, i) = a \o b
  BY DEF Without, RemoveAt
<1> HIDE DEF a, b, n
<1>6. /\ Len(a \o b) = (i - 1) + (n - i)
      /\ \A j \in 1 .. (i - 1) + (n - i) :
           (a \o b)[j] = IF j <= i - 1 THEN a[j] ELSE b[j - (i - 1)]
  <2>1. a \in Seq(S) /\ b \in Seq(S)
    BY <1>3, <1>4
  <2>2. /\ Len(a \o b) = Len(a) + Len(b)
        /\ \A j \in 1 .. Len(a) + Len(b) :
             (a \o b)[j] = IF j <= Len(a) THEN a[j] ELSE b[j - Len(a)]
    BY ONLY <2>1, ConcatProperties
  <2>3. Len(a) = i - 1 /\ Len(b) = n - i
    BY <1>3, <1>4
  <2> QED
    BY ONLY <2>2, <2>3
<1>7. (i - 1) + (n - i) = n - 1
  BY <1>1
<1>8. ASSUME NEW j \in 1 .. n - 1 PROVE (a \o b)[j] = IF j < i THEN seq[j] ELSE seq[j + 1]
  <2>1. (a \o b)[j] = IF j <= i - 1 THEN a[j] ELSE b[j - (i - 1)]
    BY <1>6, <1>7
  <2>2. CASE j < i
    <3>1. j \in 1 .. i - 1 /\ j <= i - 1
      BY <1>1, <2>2
    <3> QED
      BY <1>3, <2>1, <2>2, <3>1
  <2>3. CASE ~ (j < i)
    <3>1. ~ (j <= i - 1) /\ j - (i - 1) \in 1 .. n - i /\ i + (j - (i - 1)) = j + 1
      BY <1>1, <2>3
    <3>2. b[j - (i - 1)] = seq[j + 1]
      BY <1>4, <3>1
    <3> QED
      BY <2>1, <2>3, <3>1, <3>2
  <2> QED
    BY <2>2, <2>3
<1> QED
  BY <1>5, <1>6, <1>7, <1>8 DEF n

\* One segment is gone.
LEMMA GrowingWithout ==
  ASSUME NEW S, NEW seq \in Seq(S), NEW i \in 1 .. Len(seq), NEW held, NEW isn, NEW now,
         Growing(held, seq, isn, now)
  PROVE  Growing(held, Without(seq, i), isn, now)
<1> DEFINE n == Len(seq)
           rest == Without(seq, i)
           k(j) == IF j < i THEN j ELSE j + 1
<1>1. n \in Nat /\ i \in 1 .. n
  BY LenProperties
<1>2. Len(rest) = n - 1 /\ \A j \in 1 .. n - 1 : rest[j] = IF j < i THEN seq[j] ELSE seq[j + 1]
  BY WithoutOne
<1> HIDE DEF rest, n
<1>3. \A j \in 1 .. n - 1 : k(j) \in 1 .. n
  BY <1>1
<1>4. \A j \in 1 .. n - 1 : rest[j] = seq[k(j)]
  BY <1>2
<1>5. \A j, l \in 1 .. n - 1 : j <= l => k(j) <= k(l)
  BY <1>1
<1> HIDE DEF k
<1>6. /\ Proper(held) /\ Proper(now) /\ NoLess(held, now)
      /\ \A j \in 1 .. n : /\ Proper(Offer(seq[j], isn))
                           /\ NoLess(held, Offer(seq[j], isn))
                           /\ NoLess(Offer(seq[j], isn), now)
      /\ \A j, l \in 1 .. n : j <= l => NoLess(Offer(seq[j], isn), Offer(seq[l], isn))
  BY Zenon DEF Growing, n
<1>7. ASSUME NEW j \in 1 .. Len(rest)
      PROVE  /\ Proper(Offer(rest[j], isn)) /\ NoLess(held, Offer(rest[j], isn))
             /\ NoLess(Offer(rest[j], isn), now)
  <2>1. rest[j] = seq[k(j)] /\ k(j) \in 1 .. n
    BY <1>2, <1>3, <1>4
  <2> QED
    BY <1>6, <2>1
<1>8. ASSUME NEW j \in 1 .. Len(rest), NEW l \in 1 .. Len(rest), j <= l
      PROVE  NoLess(Offer(rest[j], isn), Offer(rest[l], isn))
  <2>1. rest[j] = seq[k(j)] /\ k(j) \in 1 .. n /\ rest[l] = seq[k(l)] /\ k(l) \in 1 .. n
        /\ k(j) <= k(l)
    BY <1>2, <1>3, <1>4, <1>5, <1>8
  <2> QED
    BY <1>6, <2>1
<1>9. Growing(held, rest, isn, now)
  BY <1>6, <1>7, <1>8 DEF Growing
<1> QED
  BY <1>9 DEF rest

\* The first segment has arrived: its offer is the one that the sender holds.
LEMMA GrowingFromFirst ==
  ASSUME NEW S, NEW seq \in Seq(S), 1 \in 1 .. Len(seq), NEW held, NEW isn, NEW now,
         Growing(held, seq, isn, now)
  PROVE  Growing(Offer(seq[1], isn), Without(seq, 1), isn, now)
<1> DEFINE rest == Without(seq, 1)
           first == Offer(seq[1], isn)
           n == Len(seq)
<1>1. Growing(held, rest, isn, now)
  BY GrowingWithout
<1>2. n \in Nat /\ Len(rest) = n - 1 /\ \A j \in 1 .. n - 1 : rest[j] = IF j < 1 THEN seq[j] ELSE seq[j + 1]
  BY WithoutOne, LenProperties
<1> HIDE DEF rest
<1>3. Proper(first) /\ NoLess(first, now)
  BY DEF Growing
<1>4. ASSUME NEW j \in 1 .. Len(rest) PROVE NoLess(first, Offer(rest[j], isn))
  <2>1. rest[j] = seq[j + 1] /\ j + 1 \in 1 .. n /\ 1 <= j + 1
    BY <1>2
  <2>2. NoLess(Offer(seq[1], isn), Offer(seq[j + 1], isn))
    BY <2>1 DEF Growing
  <2> QED
    BY <2>1, <2>2
<1> HIDE DEF first
<1>5. Growing(first, rest, isn, now)
  BY <1>1, <1>3, <1>4 DEF Growing
<1> QED
  BY <1>5 DEF rest, first

\* The receiver has moved on and has sent more.
LEMMA GrowingOnwards ==
  ASSUME NEW S, NEW seq \in Seq(S), NEW out \in Seq(S), NEW held, NEW isn, NEW now, NEW then,
         Growing(held, seq, isn, now), Proper(then), NoLess(now, then),
         \A i \in 1 .. Len(out) : Offer(out[i], isn) = then
  PROVE  Growing(held, seq \o out, isn, then)
<1> DEFINE n == Len(seq)
           all == seq \o out
           offer(i) == Offer(all[i], isn)
<1>1. n \in Nat /\ Len(out) \in Nat
  BY LenProperties
<1>2. Len(all) = n + Len(out)
      /\ \A i \in 1 .. n + Len(out) : all[i] = IF i <= n THEN seq[i] ELSE out[i - n]
  BY ConcatProperties
<1> HIDE DEF all, n
<1>3. /\ Proper(held) /\ Proper(now) /\ NoLess(held, now)
      /\ \A j \in 1 .. n : /\ Proper(Offer(seq[j], isn))
                           /\ NoLess(held, Offer(seq[j], isn))
                           /\ NoLess(Offer(seq[j], isn), now)
      /\ \A j, l \in 1 .. n : j <= l => NoLess(Offer(seq[j], isn), Offer(seq[l], isn))
  BY Zenon DEF Growing, n
<1>4. NoLess(held, then) /\ NoLess(then, then)
  BY <1>3, NoLessTwice, NoLessSame
<1>5. ASSUME NEW i \in 1 .. Len(all)
      PROVE  \/ i \in 1 .. n /\ all[i] = seq[i]
             \/ ~ (i <= n) /\ offer(i) = then
  <2>1. CASE i <= n
    BY <1>1, <1>2, <2>1
  <2>2. CASE ~ (i <= n)
    <3>1. i - n \in 1 .. Len(out) /\ all[i] = out[i - n]
      BY <1>1, <1>2, <2>2
    <3> QED
      BY <2>2, <3>1
  <2> QED
    BY <2>1, <2>2
<1>6. ASSUME NEW i \in 1 .. Len(all)
      PROVE  Proper(offer(i)) /\ NoLess(held, offer(i)) /\ NoLess(offer(i), then)
  <2>1. CASE i \in 1 .. n /\ all[i] = seq[i]
    <3>1. Proper(offer(i)) /\ NoLess(held, offer(i)) /\ NoLess(offer(i), now)
      BY <1>3, <2>1
    <3> HIDE DEF offer
    <3> QED
      BY <1>3, <3>1, NoLessTwice
  <2>2. CASE offer(i) = then
    BY <1>4, <2>2
  <2> QED
    BY <1>5, <2>1, <2>2
<1>7. ASSUME NEW i \in 1 .. Len(all), NEW j \in 1 .. Len(all), i <= j
      PROVE  NoLess(offer(i), offer(j))
  <2>1. CASE i \in 1 .. n /\ all[i] = seq[i] /\ j \in 1 .. n /\ all[j] = seq[j]
    BY <1>3, <1>7, <2>1
  <2>2. CASE offer(j) = then
    BY <1>6, <2>2
  <2>3. CASE ~ (i <= n) /\ j \in 1 .. n
    BY <1>1, <1>7, <2>3
  <2> QED
    BY <1>5, <2>1, <2>2, <2>3
<1> HIDE DEF offer
<1>8. Growing(held, all, isn, then)
  BY <1>3, <1>4, <1>6, <1>7 DEF Growing, offer
<1> QED
  BY <1>8 DEF all

\* An acknowledgment number says where its receiver is.
LEMMA PlaceOf ==
  ASSUME NEW D, D \in Seq(Nat), Small(D), NEW isn \in Raw, NEW y \in 0 .. Len(D) + 2, NEW ackno,
         ackno = (IF y = 0 THEN NoSeqno ELSE Wrap(y, isn))
  PROVE  Place(ackno, isn) = y
<1>1. Len(D) \in Nat /\ 0 \in 0 .. Len(D) + 2
  BY LenProperties
<1>2. CASE y = 0
  BY <1>2 DEF Place
<1>3. CASE y # 0
  <2>1. y \in Nat /\ ackno = Wrap(y, isn)
    BY <1>1, <1>3
  <2>2. ackno \in Raw
    BY <2>1, BaseOfWrap
  <2>3. ackno # NoSeqno
    BY <2>2 DEF NoSeqno, Raw
  <2>4. Unwrap(ackno, isn, 0) = y
    BY <1>1, <2>1, SeqnoRecovered
  <2> QED
    BY <2>3, <2>4 DEF Place
<1> QED
  BY <1>2, <1>3

\* What is acknowledged is somewhere in the stream.
PlaceIn(m, D, isn) ==
  /\ Place(m.ackno, isn) \in 0 .. Len(D) + 2
  /\ m.ackno = (IF Place(m.ackno, isn) = 0 THEN NoSeqno ELSE Wrap(Place(m.ackno, isn), isn))

LEMMA PlaceOfAck ==
  ASSUME NEW rcv, NEW D, NEW in, NEW isn \in Raw, ReceiverOf(rcv, D, in, isn), InputOf(in, D),
         Small(D), NEW m, AckOf(m.ackno, rcv, isn)
  PROVE  PlaceIn(m, D, isn)
<1>1. PutInPlace(rcv) \in 0 .. Len(D) + 2 /\ D \in Seq(Nat) /\ Len(D) \in Nat
  BY ReceiverTypes
<1>2. PICK y \in 0 .. Len(D) + 2 : m.ackno = (IF y = 0 THEN NoSeqno ELSE Wrap(y, isn))
  <2>1. CASE m.ackno = NoSeqno
    <3>1. 0 \in 0 .. Len(D) + 2 /\ m.ackno = (IF 0 = 0 THEN NoSeqno ELSE Wrap(0, isn))
      BY <1>1, <2>1
    <3> QED
      BY <3>1
  <2>2. ASSUME NEW x \in 1 .. PutInPlace(rcv), m.ackno = Wrap(x, isn)
        PROVE  \E y \in 0 .. Len(D) + 2 : m.ackno = (IF y = 0 THEN NoSeqno ELSE Wrap(y, isn))
    <3>1. x \in 0 .. Len(D) + 2 /\ x # 0
      BY <1>1
    <3> QED
      BY <2>2, <3>1
  <2> QED
    BY <2>1, <2>2 DEF AckOf
<1>3. Place(m.ackno, isn) = y
  BY <1>1, <1>2, PlaceOf
<1> QED
  BY <1>2, <1>3 DEF PlaceIn

\* What a receiver would say now.
LEMMA OfferIsNow ==
  ASSUME NEW rcv, NEW D, NEW in, NEW isn \in Raw, ReceiverOf(rcv, D, in, isn), InputOf(in, D),
         Small(D)
  PROVE  /\ OfferNow(rcv, isn).at = PutInPlace(rcv)
         /\ OfferNow(rcv, isn).end
              = PutInPlace(rcv) + Smaller(AvailableCapacity(Inbound(rcv)), MaxWindow)
<1> DEFINE k == PutInPlace(rcv)
           p == Inbound(rcv).pushed
           c == IF Inbound(rcv).is_closed THEN 1 ELSE 0
<1>1. /\ p \in Nat /\ c \in Nat /\ k \in 0 .. Len(D) + 2 /\ Len(D) \in Nat /\ D \in Seq(Nat)
  BY ReceiverTypes
<1>2. rcv.ackno = (IF k = 0 THEN NoSeqno ELSE Wrap(k, isn))
  <2>1. CASE ~ rcv.received_SYN
    <3>1. rcv.ackno = NoSeqno /\ k = 0
      BY <2>1 DEF ReceiverOf, PutInPlace
    <3> QED
      BY <3>1
  <2>2. CASE rcv.received_SYN
    <3>1. k = 1 + p + c
      BY <2>2 DEF PutInPlace
    <3>2. rcv.ackno = WrapPlus(isn, p + 1 + c)
      BY <2>2 DEF ReceiverOf, AcknoFor
    <3> HIDE DEF k, p, c
    <3>3. p + 1 + c = k /\ k \in Nat /\ k # 0
      BY <1>1, <3>1
    <3>4. k < SeqSpace
      <4>1. SeqSpace \in Nat
        BY Widths
      <4> QED
        BY <1>1, <3>3, <4>1 DEF Small
    <3> QED
      BY <3>2, <3>3, <3>4, AcknoIsPlace
  <2> QED
    BY <2>1, <2>2 DEF ReceiverOf, ReceiverRecord
<1>3. Place(rcv.ackno, isn) = k
  BY <1>1, <1>2, PlaceOf
<1> QED
  BY <1>3 DEF OfferNow, Offer, ReceiverSend

\* A receiver offers room for what it has read away and not yet put in place.
RoomFacts(rcv) ==
  /\ PutInPlace(rcv) \in Nat /\ Inbound(rcv).popped \in Nat
  /\ Len(Inbound(rcv).stream) \in Nat /\ Len(Inbound(rcv).stream) <= RecvCapacity
  /\ Inbound(rcv).pushed = Inbound(rcv).popped + Len(Inbound(rcv).stream)
  /\ AvailableCapacity(Inbound(rcv)) = RecvCapacity - Len(Inbound(rcv).stream)
  /\ RecvCapacity \in Nat /\ MaxWindow \in Nat

LEMMA RoomOf ==
  ASSUME NEW rcv, NEW D, NEW in, NEW isn, ReceiverOf(rcv, D, in, isn), InputOf(in, D)
  PROVE  RoomFacts(rcv)
<1>1. Assembled(rcv.reassembler, Nat, D, in.pushed, RecvCapacity)
  BY DEF ReceiverOf
<1>2. Typed(rcv.reassembler, Nat, D, in.pushed, RecvCapacity)
  BY <1>1, AssembledTypes
<1>3. /\ Inbound(rcv).pushed = Inbound(rcv).popped + Len(Inbound(rcv).stream)
      /\ Len(Inbound(rcv).stream) <= RecvCapacity
  BY <1>1 DEF Assembled, Inbound
<1>4. /\ Len(Inbound(rcv).stream) \in Nat /\ Inbound(rcv).popped \in Nat
      /\ AvailableCapacity(Inbound(rcv)) = RecvCapacity - Len(Inbound(rcv).stream)
      /\ RecvCapacity \in Nat
  BY <1>2 DEF Typed, Inbound
<1>5. PutInPlace(rcv) \in Nat
  <2>1. PutInPlace(rcv) \in 0 .. Len(D) + 2 /\ Len(D) \in Nat
    BY ReceiverTypes
  <2> QED
    BY <2>1
<1> QED
  BY <1>3, <1>4, <1>5, WindowAssumption DEF RoomFacts

LEMMA OfferIsProper ==
  ASSUME NEW rcv, NEW D, NEW in, NEW isn \in Raw, ReceiverOf(rcv, D, in, isn), InputOf(in, D),
         Small(D), RecvCapacity > 0, MaxWindow > 0
  PROVE  Proper(OfferNow(rcv, isn))
<1> DEFINE k == PutInPlace(rcv)
           len == Len(Inbound(rcv).stream)
           a == OfferNow(rcv, isn)
<1>1. /\ k \in Nat /\ Inbound(rcv).popped \in Nat /\ len \in Nat /\ len <= RecvCapacity
      /\ Inbound(rcv).pushed = Inbound(rcv).popped + len
      /\ AvailableCapacity(Inbound(rcv)) = RecvCapacity - len
      /\ RecvCapacity \in Nat /\ MaxWindow \in Nat
  BY RoomOf DEF RoomFacts
<1>2. a.at = k /\ a.end = k + Smaller(RecvCapacity - len, MaxWindow)
  BY <1>1, OfferIsNow
<1>3. k = 0 => len = 0
  <2>1. k = 0 => Inbound(rcv).pushed = 0
    <3>1. Inbound(rcv).pushed \in Nat
      BY ReceiverTypes
    <3> QED
      BY <3>1 DEF PutInPlace
  <2> HIDE DEF k, len
  <2> QED
    BY <1>1, <2>1
<1> HIDE DEF k, len, a
<1>4. a.at \in Nat /\ a.end \in Nat /\ (a.at = 0 => a.end > 0)
  BY <1>1, <1>2, <1>3 DEF Smaller
<1> QED
  BY <1>4 DEF Proper, a

\* A receiver takes nothing back.
LEMMA OfferGrows ==
  ASSUME NEW rcv, NEW r2, NEW D, NEW in, NEW isn \in Raw, ReceiverOf(rcv, D, in, isn),
         ReceiverOf(r2, D, in, isn), InputOf(in, D), Small(D),
         PutInPlace(rcv) <= PutInPlace(r2), Inbound(rcv).popped <= Inbound(r2).popped,
         Inbound(rcv).is_closed => Inbound(r2).is_closed
  PROVE  NoLess(OfferNow(rcv, isn), OfferNow(r2, isn))
<1> DEFINE syn(r) == IF r.received_SYN THEN 1 ELSE 0
           fin(r) == IF Inbound(r).is_closed THEN 1 ELSE 0
           len(r) == Len(Inbound(r).stream)
           end(r) == syn(r) + fin(r) + Inbound(r).popped + RecvCapacity
<1>1. ASSUME NEW r, r \in {rcv, r2}
      PROVE  /\ PutInPlace(r) \in Nat /\ Inbound(r).popped \in Nat
             /\ syn(r) \in 0 .. 1 /\ fin(r) \in 0 .. 1
             /\ end(r) \in Nat
             /\ ~ r.received_SYN => PutInPlace(r) = 0
             /\ r.received_SYN => PutInPlace(r) > 0
             /\ OfferNow(r, isn).at = PutInPlace(r)
             /\ OfferNow(r, isn).end = Smaller(end(r), PutInPlace(r) + MaxWindow)
  <2>1. ReceiverOf(r, D, in, isn)
    BY <1>1
  <2>2. RoomFacts(r)
    BY <2>1, RoomOf
  <2>3. /\ PutInPlace(r) \in Nat /\ Inbound(r).popped \in Nat /\ len(r) \in Nat
        /\ Inbound(r).pushed = Inbound(r).popped + len(r)
        /\ AvailableCapacity(Inbound(r)) = RecvCapacity - len(r)
        /\ RecvCapacity \in Nat /\ MaxWindow \in Nat
    BY <2>2 DEF RoomFacts
  <2>4. /\ OfferNow(r, isn).at = PutInPlace(r)
        /\ OfferNow(r, isn).end = PutInPlace(r) + Smaller(RecvCapacity - len(r), MaxWindow)
    BY <2>1, <2>3, OfferIsNow
  <2>5. PutInPlace(r) = syn(r) + Inbound(r).pushed + fin(r) /\ syn(r) \in 0 .. 1 /\ fin(r) \in 0 .. 1
    BY DEF PutInPlace
  <2>6. ~ r.received_SYN => PutInPlace(r) = 0
    BY <2>1 DEF ReceiverOf, PutInPlace
  <2>7. r.received_SYN => syn(r) = 1
    OBVIOUS
  <2> HIDE DEF syn, fin, len
  <2>8. end(r) \in Nat /\ PutInPlace(r) + (RecvCapacity - len(r)) = end(r)
    BY <2>3, <2>5
  <2>9. PutInPlace(r) + Smaller(RecvCapacity - len(r), MaxWindow)
          = Smaller(end(r), PutInPlace(r) + MaxWindow)
    BY <2>3, <2>8 DEF Smaller
  <2>10. r.received_SYN => PutInPlace(r) > 0
    BY <2>3, <2>5, <2>7
  <2> QED
    BY <2>3, <2>4, <2>5, <2>6, <2>8, <2>9, <2>10
<1>2. syn(rcv) <= syn(r2) /\ fin(rcv) <= fin(r2)
  <2>1. rcv.received_SYN => r2.received_SYN
    BY <1>1
  <2> QED
    BY <2>1
<1> HIDE DEF syn, fin, len
<1>3. end(rcv) <= end(r2)
  BY <1>1, <1>2, ConnectionAssumption
<1> HIDE DEF end
<1>4. Smaller(end(rcv), PutInPlace(rcv) + MaxWindow) <= Smaller(end(r2), PutInPlace(r2) + MaxWindow)
  BY <1>1, <1>3, WindowAssumption DEF Smaller
<1> QED
  BY <1>1, <1>4 DEF NoLess

\* The sender moves and nothing arrives.
LEMMA AheadStays ==
  ASSUME NEW snd, NEW q, NEW seq, NEW rcv, NEW isn, Ahead(snd, seq, rcv, isn), Stays(snd, q)
  PROVE  Ahead(q, seq, rcv, isn)
<1>1. PICK x \in Nat : Within(snd, x) /\ Growing(Held(snd, x), seq, isn, OfferNow(rcv, isn))
  BY DEF Ahead
<1>2. Within(q, x) /\ Held(q, x) = Held(snd, x)
  BY <1>1 DEF Stays, Held
<1> QED
  BY <1>1, <1>2 DEF Ahead

\* A segment is lost, or arrives where nobody listens.
LEMMA AheadWithout ==
  ASSUME NEW S, NEW seq \in Seq(S), NEW i \in 1 .. Len(seq), NEW snd, NEW rcv, NEW isn,
         Ahead(snd, seq, rcv, isn)
  PROVE  Ahead(snd, Without(seq, i), rcv, isn)
<1>1. PICK x \in Nat : Within(snd, x) /\ Growing(Held(snd, x), seq, isn, OfferNow(rcv, isn))
  BY DEF Ahead
<1>2. Growing(Held(snd, x), Without(seq, i), isn, OfferNow(rcv, isn))
  BY <1>1, GrowingWithout
<1> QED
  BY <1>1, <1>2 DEF Ahead

\* The receiver moves and sends.
LEMMA AheadOnwards ==
  ASSUME NEW S, NEW seq \in Seq(S), NEW out \in Seq(S), NEW snd, NEW rcv, NEW r2, NEW isn,
         Ahead(snd, seq, rcv, isn), Proper(OfferNow(r2, isn)),
         NoLess(OfferNow(rcv, isn), OfferNow(r2, isn)),
         \A i \in 1 .. Len(out) : Offer(out[i], isn) = OfferNow(r2, isn)
  PROVE  Ahead(snd, seq \o out, r2, isn)
<1>1. PICK x \in Nat : Within(snd, x) /\ Growing(Held(snd, x), seq, isn, OfferNow(rcv, isn))
  BY DEF Ahead
<1>2. Growing(Held(snd, x), seq \o out, isn, OfferNow(r2, isn))
  BY <1>1, GrowingOnwards
<1> QED
  BY <1>1, <1>2 DEF Ahead

\* The first segment on the way reaches the sender.
LEMMA AheadHears ==
  ASSUME NEW S, NEW seq \in Seq(S), 1 \in 1 .. Len(seq), NEW snd, NEW D, SenderOf(snd, D),
         ~ snd.input.error, Small(D), NEW m, m = seq[1], m.window_size \in Nat,
         PlaceIn(m, D, snd.isn), NEW rcv, Ahead(snd, seq, rcv, snd.isn)
  PROVE  Ahead(SenderReceive(snd, m), Without(seq, 1), rcv, snd.isn)
<1> DEFINE q == SenderReceive(snd, m)
           y == Place(m.ackno, snd.isn)
           w == m.window_size
           isn == snd.isn
           now == OfferNow(rcv, isn)
<1>1. PICK x \in Nat : Within(snd, x) /\ Growing(Held(snd, x), seq, isn, now)
  BY DEF Ahead
<1>2. CASE m.RST
  <2>1. q = Reset(snd)
    BY <1>2 DEF SenderReceive
  <2>2. Within(q, x) /\ q.window_size = snd.window_size
    BY <1>1, <2>1, ResetWithin
  <2>3. Growing(Held(snd, x), Without(seq, 1), isn, now)
    BY <1>1, GrowingWithout
  <2> HIDE DEF q, now
  <2>4. Held(q, x) = Held(snd, x)
    BY <2>2 DEF Held
  <2> QED
    BY <2>2, <2>3, <2>4 DEF Ahead, q, now
<1>3. CASE ~ m.RST
  <2>1. /\ y \in 0 .. Len(D) + 2 /\ m.ackno = (IF y = 0 THEN NoSeqno ELSE Wrap(y, isn))
    BY DEF PlaceIn
  <2>2. Offer(m, isn) = [at |-> y, end |-> y + w]
    BY DEF Offer
  <2>3. /\ NoLess(Held(snd, x), Offer(m, isn)) /\ Proper(Offer(m, isn))
    BY <1>1 DEF Growing
  <2> HIDE DEF y, isn
  <2>4. x <= y /\ x + snd.window_size <= y + w /\ (y = 0 => y + w > 0)
    BY <2>2, <2>3 DEF NoLess, Held, Proper
  <2>5. y = 0 => w > 0
    BY <2>4
  <2>6. Within(q, y) /\ q.window_size = w
    BY <1>1, <1>3, <2>1, <2>4, <2>5, ReceiveWithin DEF isn
  <2>7. y \in Nat
    BY <2>2, <2>3 DEF Proper
  <2>8. Growing(Offer(m, isn), Without(seq, 1), isn, now)
    BY <1>1, GrowingFromFirst
  <2> HIDE DEF q, now
  <2>9. Held(q, y) = Offer(m, isn)
    BY <2>2, <2>6 DEF Held
  <2> QED
    BY <2>6, <2>7, <2>8, <2>9 DEF Ahead, q, isn, now
<1> QED
  BY <1>2, <1>3

-----------------------------------------------------------------------------
(* What the handlers of a peer tell the other one *)

\* Every segment of the step carries what the receiver has to say after it, and
\* that is no less than before.
Tells(s, p, step) ==
  /\ Proper(OfferNow(step.peer.receiver, ISN[Other(s)]))
  /\ NoLess(OfferNow(p.receiver, ISN[Other(s)]), OfferNow(step.peer.receiver, ISN[Other(s)]))
  /\ \A i \in 1 .. Len(step.out) :
       Offer(step.out[i], ISN[Other(s)]) = OfferNow(step.peer.receiver, ISN[Other(s)])

\* A receiver that listens, of any size, and a field that can say so.
WindowsOpen == RecvCapacity > 0 /\ MaxWindow > 0

LEMMA MovedOffer ==
  ASSUME WindowsOpen, NEW s \in Side, NEW p, NEW q, PeerOf(s, p, q), PeerOf(Other(s), q, p),
         NEW now, MovesTo(s, p, now, q),
         Inbound(p.receiver).popped <= Inbound(now.receiver).popped
  PROVE  /\ Proper(OfferNow(now.receiver, ISN[Other(s)]))
         /\ NoLess(OfferNow(p.receiver, ISN[Other(s)]), OfferNow(now.receiver, ISN[Other(s)]))
<1> DEFINE D == Data(Other(s))
           in == q.sender.input
           isn == ISN[Other(s)]
<1>1. /\ ReceiverOf(p.receiver, D, in, isn) /\ InputOf(in, D) /\ Small(D) /\ isn \in Raw
  BY PeerTypes, SideFacts DEF PeerOf
<1>2. /\ ReceiverOf(now.receiver, D, in, isn)
      /\ PutInPlace(p.receiver) <= PutInPlace(now.receiver)
      /\ Inbound(p.receiver).is_closed => Inbound(now.receiver).is_closed
  BY DEF MovesTo
<1>3. RecvCapacity > 0 /\ MaxWindow > 0
  BY DEF WindowsOpen
<1> HIDE DEF D, in, isn
<1>4. Proper(OfferNow(now.receiver, isn))
  BY <1>1, <1>2, <1>3, OfferIsProper
<1>5. NoLess(OfferNow(p.receiver, isn), OfferNow(now.receiver, isn))
  BY <1>1, <1>2, OfferGrows
<1> QED
  BY <1>4, <1>5 DEF isn

LEMMA SegmentsOffer ==
  ASSUME NEW rcv, NEW isn, NEW messages \in Seq(MessageRecord)
  PROVE  \A i \in 1 .. Len(WithReceiverSend(rcv, messages)) :
           Offer(WithReceiverSend(rcv, messages)[i], isn) = OfferNow(rcv, isn)
<1> DEFINE out == WithReceiverSend(rcv, messages)
           n == Len(messages)
<1>1. n \in Nat /\ DOMAIN messages = 1 .. n
  BY LenProperties
<1>2. out = [i \in 1 .. n |-> Segment(messages[i], ReceiverSend(rcv))]
  BY <1>1 DEF WithReceiverSend
<1>3. Len(out) = n
  BY <1>1, <1>2
<1> HIDE DEF n
<1>4. ASSUME NEW i \in 1 .. n PROVE Offer(out[i], isn) = OfferNow(rcv, isn)
  <2>1. out[i] = Segment(messages[i], ReceiverSend(rcv))
    BY <1>2
  <2> HIDE DEF out
  <2> QED
    BY <2>1 DEF Segment, Offer, OfferNow, ReceiverSend
<1> QED
  BY <1>3, <1>4

\* The handlers that leave the receiver alone.
Quietly(s, p, step) == Tells(s, p, step) /\ Stays(p.sender, step.peer.sender)

LEMMA SenderTells ==
  ASSUME WindowsOpen, NEW s \in Side, NEW p, NEW q, PeerOf(s, p, q), PeerOf(Other(s), q, p),
         NEW step, step.peer.receiver = p.receiver, NEW messages \in Seq(MessageRecord),
         step.out = WithReceiverSend(p.receiver, messages)
  PROVE  Tells(s, p, step)
<1>1. MovesTo(s, p, p, q)
  BY StaysPut
<1>2. Inbound(p.receiver).popped <= Inbound(p.receiver).popped
  <2>1. Inbound(p.receiver).popped \in Nat
    BY OutputFacts
  <2> QED
    BY <2>1
<1>3. /\ Proper(OfferNow(p.receiver, ISN[Other(s)]))
      /\ NoLess(OfferNow(p.receiver, ISN[Other(s)]), OfferNow(p.receiver, ISN[Other(s)]))
  BY <1>1, <1>2, MovedOffer
<1> QED
  BY <1>3, SegmentsOffer DEF Tells

LEMMA PushingTells ==
  ASSUME WindowsOpen, NEW s \in Side, NEW p, NEW q, PeerOf(s, p, q), PeerOf(Other(s), q, p)
  PROVE  Quietly(s, p, PeerPush(p))
<1> DEFINE step == SenderPush(p.sender)
           both == PeerPush(p)
<1>1. SenderOf(p.sender, Data(s)) /\ Small(Data(s)) /\ p \in PeerRecord
  BY SideFacts DEF PeerOf
<1>2. StepOf(p.sender, step, Data(s)) /\ Stays(p.sender, step.snd)
  BY <1>1, SenderPushStep, PushStays
<1>3. step.out \in Seq(MessageRecord)
  BY <1>2 DEF StepOf, StepRecord
<1>4. both = [peer |-> [p EXCEPT !.sender = step.snd],
              out |-> WithReceiverSend(p.receiver, step.out)]
  BY DEF PeerPush
<1> HIDE DEF step, both
<1>5. both.peer.receiver = p.receiver /\ both.peer.sender = step.snd
      /\ both.out = WithReceiverSend(p.receiver, step.out)
  BY <1>1, <1>4 DEF PeerRecord
<1>6. Tells(s, p, both)
  BY <1>3, <1>5, SenderTells
<1> QED
  BY <1>2, <1>5, <1>6 DEF Quietly, both

LEMMA TickingTells ==
  ASSUME WindowsOpen, NEW s \in Side, NEW p, NEW q, PeerOf(s, p, q), PeerOf(Other(s), q, p)
  PROVE  Quietly(s, p, PeerTick(p, 1))
<1> DEFINE step == SenderTick(p.sender, 1)
           idle == Smaller(p.idle + 1, LingerTime)
           both == PeerTick(p, 1)
<1>1. SenderOf(p.sender, Data(s)) /\ p \in PeerRecord
  BY DEF PeerOf
<1>2. StepOf(p.sender, step, Data(s)) /\ Stays(p.sender, step.snd)
  BY <1>1, SenderTickStep, TickStays
<1>3. step.out \in Seq(MessageRecord)
  BY <1>2 DEF StepOf, StepRecord
<1>4. both = [peer |-> [p EXCEPT !.sender = step.snd, !.idle = idle],
              out |-> WithReceiverSend(p.receiver, step.out)]
  BY DEF PeerTick
<1> HIDE DEF step, both, idle
<1>5. both.peer.receiver = p.receiver /\ both.peer.sender = step.snd
      /\ both.out = WithReceiverSend(p.receiver, step.out)
  BY <1>1, <1>4 DEF PeerRecord
<1>6. Tells(s, p, both)
  BY <1>3, <1>5, SenderTells
<1> QED
  BY <1>2, <1>5, <1>6 DEF Quietly, both

LEMMA RestingTells ==
  ASSUME WindowsOpen, NEW s \in Side, NEW p, NEW q, PeerOf(s, p, q), PeerOf(Other(s), q, p),
         NEW step, step = [peer |-> p, out |-> <<>>]
  PROVE  Quietly(s, p, step)
<1>1. <<>> \in Seq(MessageRecord) /\ DOMAIN <<>> = {}
  BY EmptySeq
<1>2. WithReceiverSend(p.receiver, <<>>) = <<>>
  BY <1>1 DEF WithReceiverSend
<1>3. step.peer = p /\ step.out = WithReceiverSend(p.receiver, <<>>)
  BY <1>2
<1>4. Tells(s, p, step)
  BY <1>1, <1>3, SenderTells
<1>5. Stays(p.sender, step.peer.sender)
  BY <1>3 DEF Stays
<1> QED
  BY <1>4, <1>5 DEF Quietly

LEMMA ProducingTells ==
  ASSUME WindowsOpen, NEW s \in Side, NEW p, NEW q, PeerOf(s, p, q), PeerOf(Other(s), q, p),
         NEW in, NEW n, NEW closed, Extends(p.sender.input, in, Data(s), n, closed),
         NEW p2, p2 = [p EXCEPT !.sender.input = in]
  PROVE  Quietly(s, p, PeerPush(p2))
<1> DEFINE both == PeerPush(p2)
           snd  == [p.sender EXCEPT !.input = in]
<1>1. Grew(s, p, q, in, p2)
  BY PeerGrows DEF Extends
<1>2. PeerOf(s, p2, q) /\ PeerOf(Other(s), q, p2) /\ p2.receiver = p.receiver
  BY <1>1 DEF Grew
<1>3. Tells(s, p2, both) /\ Stays(p2.sender, both.peer.sender)
  BY <1>2, PushingTells DEF Quietly
<1>4. SenderOf(p.sender, Data(s)) /\ in.error = p.sender.input.error /\ p \in PeerRecord
  BY DEF PeerOf, Extends
<1>5. p2.sender = snd
  BY <1>4 DEF PeerRecord
<1>6. Stays(p.sender, snd)
  BY <1>4, GrowthStays
<1> HIDE DEF snd, both
<1>7. Stays(p.sender, both.peer.sender)
  BY <1>3, <1>5, <1>6, StaysTwice
<1>8. Tells(s, p, both)
  BY <1>2, <1>3 DEF Tells
<1> QED
  BY <1>7, <1>8 DEF Quietly, both

\* A segment arrives: the peer tells what it has put in place with it.
LEMMA ReceivingTells ==
  ASSUME WindowsOpen, NEW s \in Side, NEW p, NEW q, PeerOf(s, p, q), PeerOf(Other(s), q, p),
         NEW m \in Sent(Other(s), q)
  PROVE  Tells(s, p, PeerReceive(p, m))
<1> DEFINE step == PeerReceive(p, m)
<1>1. Answers(s, p, step, q) /\ Replies(p, m, step)
  BY PeerReceiveStep
<1> HIDE DEF step
<1>2. CASE step = [peer |-> p, out |-> <<>>]
  BY <1>2, RestingTells DEF Quietly, step
<1>3. CASE step # [peer |-> p, out |-> <<>>]
  <2>1. PICK all \in Seq(MessageRecord) : step.out = WithReceiverSend(step.peer.receiver, all)
    BY <1>1, <1>3 DEF Replies
  <2>2. /\ MovesTo(s, p, step.peer, q)
        /\ Inbound(p.receiver).popped <= Inbound(step.peer.receiver).popped
    <3>1. Inbound(p.receiver).popped \in Nat
      BY OutputFacts
    <3> QED
      BY <1>1, <3>1 DEF Answers
  <2>3. /\ Proper(OfferNow(step.peer.receiver, ISN[Other(s)]))
        /\ NoLess(OfferNow(p.receiver, ISN[Other(s)]), OfferNow(step.peer.receiver, ISN[Other(s)]))
    BY <2>2, MovedOffer
  <2>4. \A i \in 1 .. Len(step.out) :
          Offer(step.out[i], ISN[Other(s)]) = OfferNow(step.peer.receiver, ISN[Other(s)])
    BY <2>1, SegmentsOffer
  <2>5. Tells(s, p, step)
    BY <2>3, <2>4 DEF Tells
  <2> QED
    BY <2>5 DEF step
<1> QED
  BY <1>2, <1>3 DEF step

\* And its sender keeps to the window that arrived.
LEMMA ReceivingAhead ==
  ASSUME NEW s \in Side, NEW p, NEW q, PeerOf(s, p, q), PeerOf(Other(s), q, p),
         NEW way \in Seq(Sent(Other(s), q)), 1 \in 1 .. Len(way),
         Ahead(p.sender, way, q.receiver, ISN[s])
  PROVE  Ahead(PeerReceive(p, way[1]).peer.sender, Without(way, 1), q.receiver, ISN[s])
<1> DEFINE m == way[1]
           step == PeerReceive(p, m)
           D == Data(s)
           heard == SenderReceive(p.sender, m)
<1>1. m \in Sent(Other(s), q)
  BY ElementOfSeq
<1>2. Replies(p, m, step)
  BY <1>1, PeerReceiveStep
<1>3. /\ SenderOf(p.sender, D) /\ Small(D) /\ p.sender.isn = ISN[s] /\ ISN[s] \in Raw
      /\ ReceiverOf(q.receiver, D, p.sender.input, ISN[s]) /\ InputOf(p.sender.input, D)
      /\ Other(Other(s)) = s
  BY PeerTypes, SideFacts DEF PeerOf
<1>4. PlaceIn(m, D, ISN[s]) /\ m.window_size \in Nat
  <2>1. AckOf(m.ackno, q.receiver, ISN[s]) /\ m.window_size \in Nat
    BY <1>1, <1>3 DEF Sent, SegmentRecord
  <2> HIDE DEF m, D
  <2> QED
    BY <1>3, <2>1, PlaceOfAck
<1> HIDE DEF step, heard
<1>5. CASE step = [peer |-> p, out |-> <<>>]
  <2>1. Ahead(p.sender, Without(way, 1), q.receiver, ISN[s])
    BY AheadWithout
  <2>2. step.peer.sender = p.sender
    BY <1>5
  <2> QED
    BY <2>1, <2>2 DEF step
<1>6. CASE /\ ~ p.sender.input.error
           /\ step.peer.sender = SenderPush(heard).snd
  <2>1. Ahead(heard, Without(way, 1), q.receiver, ISN[s])
    <3>1. m = way[1]
      OBVIOUS
    <3> HIDE DEF m
    <3> QED
      BY <1>3, <1>4, <1>6, <3>1, AheadHears DEF heard
  <2>2. SenderOf(heard, D)
    <3>1. PICK x \in 0 .. Len(D) + 2 : Acks(p.sender, heard, x, D)
      BY <1>1, SenderHears DEF heard
    <3> QED
      BY <3>1 DEF Acks
  <2>3. Stays(heard, step.peer.sender)
    BY <1>3, <1>6, <2>2, PushStays
  <2> QED
    BY <2>1, <2>3, AheadStays DEF step
<1> QED
  BY <1>2, <1>5, <1>6 DEF Replies, heard

-----------------------------------------------------------------------------
(* Both directions *)

\* Each side keeps to what the other one has told it.
Kept(pe, net) ==
  \A t \in Side : Ahead(pe[t].sender, net[Other(t)], pe[Other(t)].receiver, ISN[t])

\* The network may lose segments, and neither repeats nor reorders them.
KeepsOrder == MaxReorder = 0 /\ \A b \in Budgets : b["duplicated"] = 0

WindowInv == budget["duplicated"] = 0 /\ Kept(peer, network)

LEMMA TwoSides ==
  ASSUME NEW s \in Side
  PROVE  \A t \in Side : t = s \/ t = Other(s)
BY DEF Side, Other

LEMMA NetTypes ==
  ASSUME NEW pe, NEW net, NEW con, World(pe, net, con), NEW s \in Side
  PROVE  /\ net[s] \in Seq(SegmentRecord) /\ net[Other(s)] \in Seq(SegmentRecord)
         /\ pe[s] \in PeerRecord
BY SideFacts DEF World

\* The peer of s moves; what is on its way to s is now way.
LEMMA MovedKept ==
  ASSUME NEW pe, NEW net, NEW con, World(pe, net, con), Kept(pe, net), NEW s \in Side,
         NEW step, Becomes(s, pe[s], step, pe[Other(s)]), Tells(s, pe[s], step),
         NEW way, Ahead(step.peer.sender, way, pe[Other(s)].receiver, ISN[s]),
         NEW pe2, pe2[s] = step.peer, pe2[Other(s)] = pe[Other(s)],
         NEW net2, net2[s] = net[s] \o step.out, net2[Other(s)] = way
  PROVE  Kept(pe2, net2)
<1> SUFFICES ASSUME NEW t \in Side
             PROVE  Ahead(pe2[t].sender, net2[Other(t)], pe2[Other(t)].receiver, ISN[t])
  BY DEF Kept
<1>1. CASE t = s
  BY <1>1
<1>2. CASE t = Other(s)
  <2>1. Other(t) = s
    BY <1>2, SideFacts
  <2>2. Ahead(pe[t].sender, net[s], pe[s].receiver, ISN[t])
    BY <2>1 DEF Kept
  <2>3. net[s] \in Seq(SegmentRecord) /\ step.out \in Seq(SegmentRecord)
    BY NetTypes, SentIsSegments DEF Becomes
  <2>4. Ahead(pe[t].sender, net[s] \o step.out, step.peer.receiver, ISN[t])
    BY <1>2, <2>2, <2>3, AheadOnwards DEF Tells
  <2> QED
    BY <1>2, <2>1, <2>4
<1> QED
  BY <1>1, <1>2, TwoSides

LEMMA HandleKept ==
  ASSUME IInv, WindowInv, NEW s \in Side, NEW step, Becomes(s, peer[s], step, peer[Other(s)]),
         Quietly(s, peer[s], step),
         peer' = [peer EXCEPT ![s] = step.peer],
         network' = [network EXCEPT ![s] = @ \o step.out],
         UNCHANGED <<consumed, destroyed, budget>>
  PROVE  WindowInv'
<1>1. World(peer, network, consumed) /\ TypeOK /\ Kept(peer, network)
  BY DEF IInv, WindowInv
<1>2. /\ peer'[s] = step.peer /\ peer'[Other(s)] = peer[Other(s)]
      /\ network'[s] = network[s] \o step.out /\ network'[Other(s)] = network[Other(s)]
  BY <1>1, SideFacts DEF TypeOK
<1>3. Ahead(peer[s].sender, network[Other(s)], peer[Other(s)].receiver, ISN[s])
  BY <1>1 DEF Kept
<1>4. Ahead(step.peer.sender, network[Other(s)], peer[Other(s)].receiver, ISN[s])
  BY <1>3, AheadStays DEF Quietly
<1>5. Kept(peer', network')
  <2> DEFINE pe == peer'
             net == network'
             way == network[Other(s)]
  <2>1. /\ pe[s] = step.peer /\ pe[Other(s)] = peer[Other(s)]
        /\ net[s] = network[s] \o step.out /\ net[Other(s)] = way
        /\ Ahead(step.peer.sender, way, peer[Other(s)].receiver, ISN[s])
    BY <1>2, <1>4
  <2>2. Tells(s, peer[s], step)
    BY DEF Quietly
  <2> HIDE DEF pe, net, way
  <2>3. Kept(pe, net)
    BY <1>1, <2>1, <2>2, MovedKept
  <2> QED
    BY <2>3 DEF pe, net
<1> QED
  BY <1>5 DEF WindowInv

\* Only what is on its way from s changes.
LEMMA NetworkKept ==
  ASSUME IInv, WindowInv, NEW s \in Side, NEW way,
         Ahead(peer[Other(s)].sender, way, peer[s].receiver, ISN[Other(s)]),
         network' = [network EXCEPT ![s] = way], UNCHANGED peer,
         budget'["duplicated"] = budget["duplicated"]
  PROVE  WindowInv'
<1>1. TypeOK /\ Kept(peer, network)
  BY DEF IInv, WindowInv
<1>2. network'[s] = way /\ network'[Other(s)] = network[Other(s)]
  BY <1>1, SideFacts DEF TypeOK
<1>3. ASSUME NEW t \in Side
      PROVE  Ahead(peer[t].sender, network'[Other(t)], peer[Other(t)].receiver, ISN[t])
  <2>1. CASE t = s
    BY <1>1, <1>2, <2>1 DEF Kept
  <2>2. CASE t = Other(s)
    BY <1>2, <2>2, SideFacts
  <2> QED
    BY <2>1, <2>2, TwoSides
<1>4. Kept(peer', network')
  BY <1>3 DEF Kept
<1> QED
  BY <1>4 DEF WindowInv

LEMMA OtherFault ==
  ASSUME TypeOK, NEW fault \in Fault, fault # "duplicated", Spend(fault)
  PROVE  budget'["duplicated"] = budget["duplicated"]
BY DEF TypeOK, Spend, Fault

LEMMA InitKept ==
  ASSUME KeepsOrder, WindowsOpen, Init
  PROVE  WindowInv
<1>1. SendCapacity \in Nat /\ RecvCapacity \in Nat
  BY ConnectionAssumption
<1>2. ASSUME NEW t \in Side
      PROVE  Ahead(peer[t].sender, network[Other(t)], peer[Other(t)].receiver, ISN[t])
  <2> DEFINE snd == NewTCPSender(SendCapacity, ISN[t])
             u   == Other(t)
             rcv == peer[u].receiver
             held == Held(snd, 0)
             now == OfferNow(rcv, ISN[t])
  <2>1. /\ u \in Side /\ Other(u) = t /\ Data(t) \in Seq(Nat) /\ ISN[t] \in Raw
        /\ Small(Data(t))
    BY SideFacts
  <2>2. peer[t].sender = snd /\ network[u] = <<>>
    BY <2>1 DEF Init, NewTCPPeer
  <2>3. Within(snd, 0) /\ snd.window_size = 1
    BY <1>1, <2>1, NewSenderWithin
  <2>4. IInv
    BY InitInvariant
  <2>5. PeerOf(u, peer[u], peer[t]) /\ PeerOf(t, peer[t], peer[u])
    BY <2>1, <2>4, Pair
  <2>6. /\ ReceiverOf(rcv, Data(t), peer[t].sender.input, ISN[t])
        /\ InputOf(peer[t].sender.input, Data(t))
    BY <2>1, <2>5, PeerTypes DEF PeerOf
  <2> HIDE DEF snd
  <2>7. Proper(now)
    BY <2>1, <2>6, OfferIsProper DEF WindowsOpen
  <2>8. now.at = 0
    <3>1. now.at = PutInPlace(rcv)
      BY <2>1, <2>6, OfferIsNow
    <3>2. PutInPlace(rcv) = 0
      BY <2>1 DEF Init, NewTCPPeer, NewTCPReceiver, Inbound, NewReassembler, NewByteStream,
                  PutInPlace
    <3> QED
      BY <3>1, <3>2
  <2>9. held.at = 0 /\ held.end = 1
    BY <2>3 DEF Held
  <2> HIDE DEF held, now
  <2>10. Proper(held) /\ NoLess(held, now)
    BY <2>7, <2>8, <2>9 DEF Proper, NoLess
  <2>11. Growing(held, <<>>, ISN[t], now)
    <3>1. 1 .. Len(<<>>) = {}
      BY EmptySeq
    <3> QED
      BY <2>7, <2>10, <3>1 DEF Growing
  <2> QED
    BY <2>2, <2>3, <2>11 DEF Ahead, held, now
<1>3. budget["duplicated"] = 0
  BY DEF Init, KeepsOrder
<1> QED
  BY <1>2, <1>3 DEF WindowInv, Kept

LEMMA ConnectKept ==
  ASSUME WindowsOpen, IInv, WindowInv, Connect
  PROVE  WindowInv'
<1> DEFINE s == "client"
           step == PeerPush(peer[s])
<1>1. s \in Side
  BY DEF Side
<1>2. /\ peer' = [peer EXCEPT ![s] = step.peer]
      /\ network' = [network EXCEPT ![s] = @ \o step.out]
      /\ UNCHANGED <<consumed, destroyed, budget>>
  BY DEF Connect, Handle
<1> HIDE DEF s
<1>3. Becomes(s, peer[s], step, peer[Other(s)]) /\ Quietly(s, peer[s], step)
  BY <1>1, Pair, PushingPeer, PushingTells
<1> HIDE DEF step
<1> QED
  BY <1>1, <1>2, <1>3, HandleKept

LEMMA WriteKept ==
  ASSUME WindowsOpen, IInv, WindowInv, NEW s \in Side, WriteSome(s)
  PROVE  WindowInv'
<1>1. PICK n \in 1 .. SendCapacity : Write(s, n)
  BY DEF WriteSome
<1> DEFINE in   == peer[s].sender.input
           data == SubSeq(Data(s), in.pushed + 1, in.pushed + n)
           step == PeerPush([peer[s] EXCEPT !.sender.input = Push(@, data)])
<1>2. /\ ~ in.is_closed /\ AvailableCapacity(in) > 0
      /\ n <= AvailableCapacity(in) /\ in.pushed + n <= StreamSize[s]
      /\ peer' = [peer EXCEPT ![s] = step.peer]
      /\ network' = [network EXCEPT ![s] = @ \o step.out]
      /\ UNCHANGED <<consumed, destroyed, budget>>
  BY <1>1 DEF Write, Rule2Interest, Snd, Handle
<1>3. n \in Nat
  BY ConnectionAssumption
<1>4. Produces(s, peer[s], step, peer[Other(s)], n, FALSE) /\ PushesMore(s, peer[s], step)
  BY <1>2, <1>3, Pair, WritingPeer
<1> HIDE DEF step
<1>5. Quietly(s, peer[s], step)
  BY <1>4, Pair, ProducingTells DEF PushesMore
<1> QED
  BY <1>2, <1>4, <1>5, HandleKept DEF Produces

LEMMA CloseKept ==
  ASSUME WindowsOpen, IInv, WindowInv, NEW s \in Side, CloseOutbound(s)
  PROVE  WindowInv'
<1> DEFINE in   == peer[s].sender.input
           step == PeerPush([peer[s] EXCEPT !.sender.input = Close(@)])
<1>1. /\ in.pushed = StreamSize[s]
      /\ peer' = [peer EXCEPT ![s] = step.peer]
      /\ network' = [network EXCEPT ![s] = @ \o step.out]
      /\ UNCHANGED <<consumed, destroyed, budget>>
  BY DEF CloseOutbound, Snd, Handle
<1>2. Produces(s, peer[s], step, peer[Other(s)], 0, TRUE) /\ PushesMore(s, peer[s], step)
  BY <1>1, Pair, ClosingPeer
<1> HIDE DEF step
<1>3. Quietly(s, peer[s], step)
  BY <1>2, Pair, ProducingTells DEF PushesMore
<1> QED
  BY <1>1, <1>2, <1>3, HandleKept DEF Produces

LEMMA ReadKept ==
  ASSUME WindowsOpen, IInv, WindowInv, NEW s \in Side, ReadSome(s)
  PROVE  WindowInv'
<1>1. PICK n \in 1 .. RecvCapacity : Read(s, n)
  BY DEF ReadSome
<1>2. /\ Reads(s, n, peer, peer', consumed, consumed')
      /\ UNCHANGED <<network, destroyed, budget>>
  BY <1>1, ConnectionAssumption DEF Read, Inb, Reads
<1>3. World(peer, network, consumed) /\ Kept(peer, network)
  BY DEF IInv, WindowInv
<1>4. /\ peer'[Other(s)] = peer[Other(s)]
      /\ OnlyMoves(s, peer, peer') /\ peer'[s].sender = peer[s].sender
      /\ Inbound(peer[s].receiver).popped <= Inbound(peer'[s].receiver).popped
  BY <1>2, <1>3, ReadWorld
<1> DEFINE isn == ISN[Other(s)]
<1>5. /\ Proper(OfferNow(peer'[s].receiver, isn))
      /\ NoLess(OfferNow(peer[s].receiver, isn), OfferNow(peer'[s].receiver, isn))
  BY <1>4, Pair, MovedOffer DEF OnlyMoves
<1>6. /\ Ahead(peer[s].sender, network[Other(s)], peer[Other(s)].receiver, ISN[s])
      /\ Ahead(peer[Other(s)].sender, network[s], peer[s].receiver, isn)
  BY <1>3, SideFacts DEF Kept
<1>7. Ahead(peer[Other(s)].sender, network[s], peer'[s].receiver, isn)
  <2>1. network[s] \in Seq(SegmentRecord)
    BY <1>3, NetTypes
  <2>2. <<>> \in Seq(SegmentRecord) /\ 1 .. Len(<<>>) = {}
    BY EmptySeq
  <2>3. Ahead(peer[Other(s)].sender, network[s] \o <<>>, peer'[s].receiver, isn)
    <3> HIDE DEF isn
    <3> QED
      BY <1>5, <1>6, <2>1, <2>2, AheadOnwards
  <2>4. network[s] \o <<>> = network[s]
    BY <2>1
  <2> QED
    BY <2>3, <2>4
<1>8. ASSUME NEW t \in Side
      PROVE  Ahead(peer'[t].sender, network[Other(t)], peer'[Other(t)].receiver, ISN[t])
  <2>1. CASE t = s
    BY <1>4, <1>6, <2>1
  <2>2. CASE t = Other(s)
    <3>1. Other(t) = s
      BY <2>2, SideFacts
    <3> QED
      BY <1>4, <1>7, <2>2, <3>1
  <2> QED
    BY <2>1, <2>2, TwoSides
<1>9. Kept(peer', network')
  BY <1>2, <1>8 DEF Kept
<1> QED
  BY <1>2, <1>9 DEF WindowInv

LEMMA TickKept ==
  ASSUME WindowsOpen, IInv, WindowInv, NEW s \in Side, Tick(s)
  PROVE  WindowInv'
<1> DEFINE step == PeerTick(peer[s], 1)
<1>1. /\ peer' = [peer EXCEPT ![s] = step.peer]
      /\ network' = [network EXCEPT ![s] = @ \o step.out]
      /\ UNCHANGED <<consumed, destroyed, budget>>
  BY DEF Tick, Handle
<1>2. Becomes(s, peer[s], step, peer[Other(s)]) /\ Quietly(s, peer[s], step)
  BY Pair, TickingPeer, TickingTells
<1> HIDE DEF step
<1> QED
  BY <1>1, <1>2, HandleKept

LEMMA TickTogetherKept ==
  ASSUME WindowsOpen, IInv, WindowInv, TickTogether
  PROVE  WindowInv'
<1> DEFINE step(s) == IF Ticks(s) THEN PeerTick(peer[s], 1) ELSE [peer |-> peer[s], out |-> <<>>]
<1>1. /\ peer' = [s \in Side |-> step(s).peer]
      /\ network' = [s \in Side |-> network[s] \o step(s).out]
      /\ UNCHANGED <<consumed, destroyed, budget>>
  BY DEF TickTogether
<1>2. World(peer, network, consumed) /\ Kept(peer, network)
  BY DEF IInv, WindowInv
<1>3. ASSUME NEW s \in Side
      PROVE  Becomes(s, peer[s], step(s), peer[Other(s)]) /\ Quietly(s, peer[s], step(s))
  <2>1. CASE Ticks(s)
    <3>1. step(s) = PeerTick(peer[s], 1)
      BY <2>1
    <3> HIDE DEF step
    <3> QED
      BY <3>1, Pair, TickingPeer, TickingTells
  <2>2. CASE ~ Ticks(s)
    <3>1. step(s) = [peer |-> peer[s], out |-> <<>>]
      BY <2>2
    <3> HIDE DEF step
    <3> QED
      BY <3>1, Pair, RestingPeer, RestingTells
  <2> QED
    BY <2>1, <2>2
<1>4. \A s \in Side : /\ peer'[s] = step(s).peer
                      /\ network'[s] = network[s] \o step(s).out
  BY <1>1
<1> HIDE DEF step
<1>5. ASSUME NEW t \in Side
      PROVE  Ahead(peer'[t].sender, network'[Other(t)], peer'[Other(t)].receiver, ISN[t])
  <2> DEFINE u == Other(t)
  <2>1. u \in Side /\ Other(u) = t
    BY SideFacts
  <2>2. Ahead(peer[t].sender, network[u], peer[u].receiver, ISN[t])
    BY <1>2 DEF Kept
  <2>3. Ahead(step(t).peer.sender, network[u], peer[u].receiver, ISN[t])
    BY <1>3, <2>2, AheadStays DEF Quietly
  <2>4. network[u] \in Seq(SegmentRecord) /\ step(u).out \in Seq(SegmentRecord)
    <3>1. step(u).out \in Seq(Sent(u, step(u).peer))
      BY <1>3, <2>1 DEF Becomes
    <3> QED
      BY <1>2, <2>1, <3>1, NetTypes, SentIsSegments
  <2>5. Tells(u, peer[u], step(u))
    BY <1>3, <2>1 DEF Quietly
  <2> HIDE DEF u
  <2>6. Ahead(step(t).peer.sender, network[u] \o step(u).out, step(u).peer.receiver, ISN[t])
    BY <2>1, <2>3, <2>4, <2>5, AheadOnwards DEF Tells
  <2> QED
    BY <1>4, <2>1, <2>6 DEF u
<1>6. Kept(peer', network')
  BY <1>5 DEF Kept
<1> QED
  BY <1>1, <1>2, <1>6 DEF WindowInv

LEMMA DeliverKept ==
  ASSUME KeepsOrder, WindowsOpen, IInv, WindowInv, NEW s \in Side, DeliverSome(s)
  PROVE  WindowInv'
<1>1. Deliver(s, 1)
  <2>1. PICK i \in 1 .. MaxReorder + 1 : Deliver(s, i)
    BY DEF DeliverSome
  <2>2. i = 1
    BY DEF KeepsOrder
  <2> QED
    BY <2>1, <2>2
<1> DEFINE from == Other(s)
           way  == network[from]
           m    == way[1]
           step == IF Unwanted(s, m) \/ destroyed[s]
                     THEN [peer |-> peer[s], out |-> <<>>]
                     ELSE PeerReceive(peer[s], m)
<1>2. /\ 1 \in DOMAIN way
      /\ peer' = [peer EXCEPT ![s] = step.peer]
      /\ network' = [network EXCEPT ![from] = Without(@, 1), ![s] = @ \o step.out]
      /\ UNCHANGED <<consumed, destroyed, budget>>
  BY <1>1 DEF Deliver
<1>3. World(peer, network, consumed) /\ TypeOK /\ Kept(peer, network)
  BY DEF IInv, WindowInv
<1>4. /\ way \in Seq(Sent(Other(s), peer[Other(s)])) /\ 1 \in 1 .. Len(way)
      /\ m \in Sent(Other(s), peer[Other(s)])
  <2>1. way \in Seq(Sent(Other(s), peer[Other(s)]))
    BY Pair
  <2>2. 1 \in 1 .. Len(way)
    BY <1>2, <2>1, LenProperties
  <2> HIDE DEF way
  <2> QED
    BY <2>1, <2>2, ElementOfSeq
<1>5. Ahead(peer[s].sender, way, peer[from].receiver, ISN[s])
  BY <1>3 DEF Kept
<1>6. /\ Becomes(s, peer[s], step, peer[Other(s)]) /\ Tells(s, peer[s], step)
      /\ Ahead(step.peer.sender, Without(way, 1), peer[from].receiver, ISN[s])
  <2>1. CASE Unwanted(s, m) \/ destroyed[s]
    <3>1. step = [peer |-> peer[s], out |-> <<>>]
      BY <2>1
    <3> HIDE DEF step
    <3>2. Becomes(s, peer[s], step, peer[Other(s)]) /\ Quietly(s, peer[s], step)
      BY <3>1, Pair, RestingPeer, RestingTells
    <3>3. Ahead(peer[s].sender, Without(way, 1), peer[from].receiver, ISN[s])
      BY <1>4, <1>5, AheadWithout
    <3> QED
      BY <3>1, <3>2, <3>3 DEF Quietly
  <2>2. CASE ~ (Unwanted(s, m) \/ destroyed[s])
    <3>1. step = PeerReceive(peer[s], m)
      BY <2>2
    <3>2. Answers(s, peer[s], PeerReceive(peer[s], m), peer[Other(s)])
      BY <1>4, Pair, PeerReceiveStep
    <3>3. Tells(s, peer[s], PeerReceive(peer[s], m))
      BY <1>4, Pair, ReceivingTells
    <3>4. Ahead(PeerReceive(peer[s], way[1]).peer.sender, Without(way, 1), peer[from].receiver, ISN[s])
      BY <1>4, <1>5, Pair, ReceivingAhead
    <3> HIDE DEF step
    <3> QED
      BY <3>1, <3>2, <3>3, <3>4 DEF Answers, Becomes
  <2> QED
    BY <2>1, <2>2
<1> HIDE DEF step, m
<1>7. /\ peer'[s] = step.peer /\ peer'[Other(s)] = peer[Other(s)]
      /\ network'[s] = network[s] \o step.out /\ network'[Other(s)] = Without(way, 1)
  BY <1>2, <1>3, SideFacts DEF TypeOK
<1>8. Kept(peer', network')
  BY <1>3, <1>6, <1>7, MovedKept
<1> QED
  BY <1>2, <1>8 DEF WindowInv

LEMMA LoseKept ==
  ASSUME IInv, WindowInv, NEW s \in Side, LoseSome(s)
  PROVE  WindowInv'
<1>1. PICK i \in DOMAIN network[s] : Lose(s, i)
  BY DEF LoseSome
<1>2. /\ network' = [network EXCEPT ![s] = Without(network[s], i)]
      /\ UNCHANGED peer /\ Spend("lost")
  BY <1>1 DEF Lose
<1>3. TypeOK /\ Kept(peer, network) /\ Other(Other(s)) = s /\ Other(s) \in Side
  BY SideFacts DEF IInv, WindowInv
<1>4. Ahead(peer[Other(s)].sender, network[s], peer[s].receiver, ISN[Other(s)])
  BY <1>3 DEF Kept
<1>5. network[s] \in Seq(SegmentRecord) /\ i \in 1 .. Len(network[s])
  BY <1>3, LenProperties DEF TypeOK
<1>6. Ahead(peer[Other(s)].sender, Without(network[s], i), peer[s].receiver, ISN[Other(s)])
  BY <1>4, <1>5, AheadWithout
<1>7. budget'["duplicated"] = budget["duplicated"]
  BY <1>2, <1>3, OtherFault DEF Fault
<1> QED
  BY <1>2, <1>6, <1>7, NetworkKept

LEMMA ForeignResetKept ==
  ASSUME WindowsOpen, IInv, WindowInv, NEW s \in Side, ForeignReset(s)
  PROVE  WindowInv'
<1> DEFINE rcv   == peer[s].receiver
           reset == [EmptyMessage(peer[s].sender) EXCEPT !.RST = TRUE]
           sent  == Segment(reset, ReceiverSend(rcv))
           one   == <<sent>>
           isn   == ISN[Other(s)]
<1>1. /\ network' = [network EXCEPT ![s] = Append(@, sent)]
      /\ UNCHANGED peer /\ Spend("resets")
  BY DEF ForeignReset, Snd
<1>2. IInv' /\ TypeOK /\ Kept(peer, network) /\ Other(Other(s)) = s /\ Other(s) \in Side
  BY SideFacts, ForeignResetStep DEF IInv, WindowInv
<1>3. Offer(sent, isn) = OfferNow(rcv, isn)
  <2> HIDE DEF reset, rcv
  <2> QED
    BY DEF Segment, Offer, OfferNow, ReceiverSend
<1> HIDE DEF sent
<1>4. network[s] \in Seq(SegmentRecord) /\ sent \in SegmentRecord
  <2>1. network[s] \in Seq(SegmentRecord) /\ network'[s] \in Seq(SegmentRecord)
        /\ network'[s] = Append(network[s], sent)
    BY <1>1, <1>2 DEF IInv, TypeOK
  <2> DEFINE all == Append(network[s], sent)
  <2>2. Len(all) = Len(network[s]) + 1 /\ all[Len(network[s]) + 1] = sent /\ Len(network[s]) \in Nat
    BY <2>1, LenProperties
  <2>3. all[Len(network[s]) + 1] \in SegmentRecord
    <3>1. Len(network[s]) + 1 \in 1 .. Len(all) /\ all \in Seq(SegmentRecord)
      BY <2>1, <2>2
    <3> HIDE DEF all
    <3> QED
      BY <3>1, ElementOfSeq
  <2> QED
    BY <2>1, <2>2, <2>3
<1>5. one \in Seq(SegmentRecord) /\ Len(one) = 1 /\ one[1] = sent
      /\ Append(network[s], sent) = network[s] \o one
  BY <1>4
<1>6. Ahead(peer[Other(s)].sender, network[s], rcv, isn)
  BY <1>2 DEF Kept
<1>7. Proper(OfferNow(rcv, isn)) /\ NoLess(OfferNow(rcv, isn), OfferNow(rcv, isn))
  <2>1. MovesTo(s, peer[s], peer[s], peer[Other(s)])
    BY Pair, StaysPut
  <2>2. Inbound(rcv).popped \in Nat
    BY Pair, OutputFacts
  <2>3. Inbound(rcv).popped <= Inbound(rcv).popped
    BY <2>2
  <2> QED
    BY <2>1, <2>3, Pair, MovedOffer
<1>8. \A i \in 1 .. Len(one) : Offer(one[i], isn) = OfferNow(rcv, isn)
  BY <1>3, <1>5
<1> HIDE DEF one, rcv, isn
<1>9. Ahead(peer[Other(s)].sender, network[s] \o one, rcv, isn)
  BY <1>4, <1>5, <1>6, <1>7, <1>8, AheadOnwards
<1>10. budget'["duplicated"] = budget["duplicated"]
  BY <1>1, <1>2, OtherFault DEF Fault
<1>11. network' = [network EXCEPT ![s] = network[s] \o one]
  BY <1>1, <1>2, <1>5 DEF TypeOK
<1> QED
  BY <1>1, <1>9, <1>10, <1>11, NetworkKept DEF rcv, isn

LEMMA DestroyKept ==
  ASSUME IInv, WindowInv, NEW s \in Side, Destroy(s)
  PROVE  WindowInv'
<1>1. UNCHANGED <<peer, network>> /\ Spend("destroyed")
  BY DEF Destroy
<1>2. budget'["duplicated"] = budget["duplicated"]
  BY <1>1, OtherFault DEF Fault, IInv
<1> QED
  BY <1>1, <1>2 DEF WindowInv, Kept

LEMMA WindowStep ==
  ASSUME KeepsOrder, WindowsOpen, IInv, WindowInv, [Next]_vars
  PROVE  WindowInv'
<1>1. CASE Connect
  BY <1>1, ConnectKept
<1>2. CASE TickTogether
  BY <1>2, TickTogetherKept
<1>3. ASSUME NEW s \in Side, WriteSome(s) PROVE WindowInv'
  BY <1>3, WriteKept
<1>4. ASSUME NEW s \in Side, CloseOutbound(s) PROVE WindowInv'
  BY <1>4, CloseKept
<1>5. ASSUME NEW s \in Side, ReadSome(s) PROVE WindowInv'
  BY <1>5, ReadKept
<1>6. ASSUME NEW s \in Side, DeliverSome(s) PROVE WindowInv'
  BY <1>6, DeliverKept
<1>7. ASSUME NEW s \in Side, Tick(s) PROVE WindowInv'
  BY <1>7, TickKept
<1>8. ASSUME NEW s \in Side, Destroy(s) PROVE WindowInv'
  BY <1>8, DestroyKept
<1>9. ASSUME NEW s \in Side, LoseSome(s) PROVE WindowInv'
  BY <1>9, LoseKept
<1>10. ASSUME NEW s \in Side, DuplicateSome(s) PROVE WindowInv'
  <2>1. Spend("duplicated")
    BY <1>10 DEF DuplicateSome, Duplicate
  <2>2. budget["duplicated"] = 0
    BY DEF WindowInv
  <2> QED
    BY <2>1, <2>2 DEF Spend
<1>11. ASSUME NEW s \in Side, ForeignReset(s) PROVE WindowInv'
  BY <1>11, ForeignResetKept
<1>12. CASE UNCHANGED vars
  BY <1>12 DEF vars, WindowInv, Kept
<1> QED
  BY <1>1, <1>2, <1>3, <1>4, <1>5, <1>6, <1>7, <1>8, <1>9, <1>10, <1>11, <1>12 DEF Next

\* The window that the other side offers grows only when its application reads:
\* a sender is at most one number past it.
LEMMA WindowRespected ==
  ASSUME IInv, WindowInv, NEW s \in Side
  PROVE  Snd(s).next_seqno <= RightEdge(s) + 1
<1> DEFINE snd == peer[s].sender
           u   == Other(s)
           rcv == peer[u].receiver
           D   == Data(s)
           isn == ISN[s]
           len == Len(Inbound(rcv).stream)
           popped == Inbound(rcv).popped
           now == OfferNow(rcv, isn)
           next == snd.next_seqno
<1>1. PeerOf(s, peer[s], peer[u]) /\ PeerOf(u, peer[u], peer[s]) /\ Other(u) = s /\ u \in Side
  BY Pair, SideFacts
<1>2. /\ SenderOf(snd, D) /\ Small(D) /\ isn \in Raw
      /\ ReceiverOf(rcv, D, snd.input, isn) /\ InputOf(snd.input, D)
  BY <1>1, PeerTypes, SideFacts DEF PeerOf
<1>3. PICK x \in Nat : Within(snd, x) /\ Growing(Held(snd, x), network[u], isn, now)
  BY DEF WindowInv, Kept, Ahead
<1>4. /\ PutInPlace(rcv) \in Nat /\ popped \in Nat /\ len \in Nat /\ len <= RecvCapacity
      /\ Inbound(rcv).pushed = popped + len
      /\ AvailableCapacity(Inbound(rcv)) = RecvCapacity - len
      /\ RecvCapacity \in Nat /\ MaxWindow \in Nat
  BY <1>2, RoomOf DEF RoomFacts
<1>5. next \in Nat /\ snd.window_size \in Nat
  BY <1>2 DEF SenderOf, SenderRecord
<1>6. next <= now.end + 1 /\ now.end \in Nat
  <2>1. next <= x + snd.window_size + Slack(snd) /\ Slack(snd) \in 0 .. 1
    BY <1>3, SlackType DEF Within
  <2>2. x + snd.window_size <= now.end /\ now.end \in Nat
    BY <1>3 DEF Growing, NoLess, Held, Proper
  <2> HIDE DEF next, now
  <2> QED
    BY <1>5, <2>1, <2>2
<1>7. CASE ~ Inbound(rcv).is_closed
  <2>1. now.end = PutInPlace(rcv) + Smaller(RecvCapacity - len, MaxWindow)
    BY <1>2, <1>4, OfferIsNow
  <2>2. PutInPlace(rcv) <= 1 + popped + len
    BY <1>4, <1>7 DEF PutInPlace
  <2> HIDE DEF next, now, popped, len, rcv
  <2>3. next <= 1 + popped + RecvCapacity + 1
    BY <1>4, <1>5, <1>6, <2>1, <2>2 DEF Smaller
  <2> QED
    BY <2>3 DEF Snd, RightEdge, Inb, next, popped, rcv
<1>8. CASE Inbound(rcv).is_closed
  <2>1. Inbound(rcv).pushed = snd.input.pushed
    BY <1>2, <1>8, ReceiverTypes
  <2>2. next <= 1 + snd.input.popped + 1 /\ snd.input.popped <= snd.input.pushed
        /\ snd.input.popped \in Nat /\ snd.input.pushed \in Nat
    <3>1. /\ snd.input.popped \in Nat /\ snd.input.pushed \in Nat
          /\ snd.input.pushed = snd.input.popped + Len(snd.input.stream)
          /\ Len(snd.input.stream) \in Nat
      BY <1>2, InputTypes
    <3>2. next <= 1 + snd.input.popped + 1
      BY <1>2, <3>1 DEF SenderOf, Numbered
    <3> QED
      BY <3>1, <3>2
  <2> DEFINE in == snd.input
  <2> HIDE DEF next, now, popped, len, rcv, in
  <2>3. next <= 1 + popped + RecvCapacity + 1
    <3>1. in.pushed = popped + len
      BY <1>4, <2>1 DEF in
    <3>2. next <= 1 + in.popped + 1 /\ in.popped <= in.pushed /\ in.popped \in Nat
      BY <2>2 DEF in
    <3> QED
      BY <1>4, <1>5, <3>1, <3>2
  <2> QED
    BY <2>3 DEF Snd, RightEdge, Inb, next, popped, rcv
<1> QED
  BY <1>7, <1>8

\* When the network keeps the order of segments, however many it loses, no
\* sender runs more than one sequence number, a probe of a closed window or a
\* FIN that waited for one, past the room of the other side (TCPSender::push,
\* TCPSender::receive, TCPReceiver::send).
THEOREM WindowStaysRespected ==
  ASSUME KeepsOrder, WindowsOpen
  PROVE  Spec => []RespectsWindow
<1>1. Init => WindowInv
  BY InitKept
<1>2. IInv /\ WindowInv /\ [Next]_vars => WindowInv'
  BY WindowStep
<1>3. IInv /\ WindowInv => RespectsWindow
  BY WindowRespected DEF RespectsWindow
<1> QED
  BY <1>1, <1>2, <1>3, Invariance, PTL DEF Spec
=============================================================================
