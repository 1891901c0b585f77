----------------------------- MODULE WireProofs -----------------------------
(***************************************************************************)
(* What is put on the wire is read from it, byte by byte, for every payload *)
(* and every address; hence the adapter keeps to one connection, its        *)
(* answers reach the caller, and the receiver never loses count.            *)
(***************************************************************************)
EXTENDS Wire, Wrap32Proofs, FiniteSetTheorems, SequenceTheorems, WellFoundedInduction

-----------------------------------------------------------------------------
(* The receiver's count of a stream *)

\* The checkpoint is the number of the last byte of the last segment that was
\* counted: an index is one less than the number, and the byte after the
\* payload is one more than its last.
TrackInv ==
  /\ TypeOK
  /\ InStep
  /\ checkpoint = LastByte(sent.number, sent.size)

LEMMA WordIs == Word \subseteq Nat /\ \A x \in Word : U64(x) = x
<1> SUFFICES ASSUME NEW x \in Word PROVE x \in Nat /\ U64(x) = x
  OBVIOUS
<1>1. x \in Nat /\ 0 <= x /\ x < WordSpace
  BY Widths DEF Word
<1> QED
  BY <1>1, ModSmall, Widths DEF U64

\* One segment is counted.
LEMMA CountStep ==
  ASSUME TrackInv, NEW n \in Word, NEW m, m.seqno = Wrap(n, zero_point), m.SYN = (n = 0),
         m.payload \in Seq(Nat), m.FIN \in BOOLEAN,
         ISN' = zero_point, UNCHANGED zero_point, Count(n, m)
  PROVE  TrackInv'
<1> DEFINE size  == Len(m.payload)
           abs   == Unwrap(m.seqno, ISN', checkpoint)
           index == IF m.SYN THEN 0 ELSE U64(abs - 1)
           last  == LastByte(sent.number, sent.size)
<1>1. /\ 2 * AbsDiff(n, last) < SeqSpace /\ LastByte(n, size) \in Word
      /\ counted' = abs /\ checkpoint' = U64(index + size)
      /\ stream' \in Progress(m.FIN)
      /\ sent' = [number |-> n, size |-> size]
  BY DEF Count, Near
<1>2. zero_point \in Raw /\ checkpoint \in Word /\ checkpoint = last
  BY DEF TrackInv, TypeOK
<1>3. size \in Nat /\ n \in Nat
  BY LenProperties, WordIs
<1> HIDE DEF last, size
<1>4. abs = n
  BY <1>1, <1>2, RoundTrip
<1> HIDE DEF abs
<1>5. index + size = LastByte(n, size)
  <2>1. CASE n = 0
    <3>1. m.SYN
      BY <2>1
    <3>2. index = 0
      BY <3>1
    <3> HIDE DEF index
    <3> QED
      BY <2>1, <1>3, <3>2 DEF LastByte
  <2>2. CASE n # 0
    <3>1. n - 1 \in Word
      BY <2>2, <1>3, Widths DEF Word
    <3>2. index = n - 1
      BY <2>2, <1>4, <3>1, WordIs
    <3> HIDE DEF index
    <3> QED
      BY <2>2, <1>3, <3>2 DEF LastByte
  <2> QED
    BY <2>1, <2>2
<1>6. checkpoint' = LastByte(n, size) /\ checkpoint' \in Word
  BY <1>1, <1>5, WordIs
<1>7. sent' \in [number : Word, size : Nat] /\ sent'.number = n /\ sent'.size = size
  BY <1>1, <1>3
<1>8. stream' \in {"open", "ending", "closed"}
  BY <1>1 DEF Progress
<1>9. TypeOK'
  BY <1>1, <1>2, <1>4, <1>6, <1>7, <1>8 DEF TypeOK
<1> QED
  BY <1>1, <1>4, <1>6, <1>7, <1>9 DEF TrackInv, InStep

LEMMA TrackingStart == Init => TrackInv
<1> SUFFICES ASSUME Init PROVE TrackInv
  OBVIOUS
<1>1. 0 \in Word
  BY Widths DEF Word
<1>2. sent.number = 0 /\ sent.size = 0 /\ sent \in [number : Word, size : Nat]
  BY <1>1 DEF Init
<1> QED
  BY <1>1, <1>2 DEF Init, TrackInv, TypeOK, InStep, LastByte

\* Segments that are ignored, the SYN, and those that are counted.
LEMMA TrackingStep == TrackInv /\ [Next]_vars => TrackInv'
<1> SUFFICES ASSUME TrackInv, [Next]_vars PROVE TrackInv'
  OBVIOUS
<1>1. ASSUME NEW n \in Word, NEW shape \in Shape, Receive(n, Numbered(n, shape))
      PROVE  TrackInv'
  <2> DEFINE m == Numbered(n, shape)
  <2>1. /\ m.seqno = Wrap(n, zero_point) /\ m.SYN = (n = 0)
        /\ m.payload = shape.payload /\ m.FIN = shape.FIN /\ m.RST = shape.RST
    BY Zenon DEF Numbered
  <2>2. shape.payload \in Seq(Nat) /\ shape.FIN \in BOOLEAN
    BY ShapeAssumption
  <2> HIDE DEF m
  <2>3. UNCHANGED zero_point
    BY <1>1 DEF Receive
  <2>4. CASE UNCHANGED <<ISN, checkpoint, stream, counted, sent>>
    BY <2>3, <2>4 DEF TrackInv, TypeOK, InStep
  <2>5. ASSUME ~ Ignores(m), AcceptSyn(m)
        PROVE  ISN' = zero_point
    <3>1. CASE n = 0
      <4>1. Wrap(0, zero_point) = zero_point
        <5>1. 0 % SeqSpace = 0
          BY Widths, ModSmall
        <5>2. zero_point \in Int /\ 0 <= zero_point /\ zero_point < SeqSpace
          BY Widths DEF TrackInv, TypeOK, Raw
        <5> QED
          BY <5>1, <5>2, Widths, ModSmall DEF Wrap
      <4> QED
        BY <2>1, <2>5, <3>1, <4>1 DEF AcceptSyn
    <3>2. CASE n # 0
      BY <2>1, <2>5, <3>2 DEF AcceptSyn, Ignores, TrackInv, TypeOK
    <3> QED
      BY <3>1, <3>2
  <2>6. CASE /\ ~ Ignores(m) /\ AcceptSyn(m)
             /\ UNCHANGED <<checkpoint, stream, counted, sent>>
    BY <2>3, <2>5, <2>6 DEF TrackInv, TypeOK, InStep
  <2>7. CASE ~ Ignores(m) /\ AcceptSyn(m) /\ Count(n, m)
    BY <2>1, <2>2, <2>3, <2>5, <2>7, CountStep
  <2> QED
    BY <1>1, <2>4, <2>6, <2>7 DEF Receive, m
<1>2. CASE UNCHANGED vars
  BY <1>2 DEF vars, TrackInv, TypeOK, InStep
<1> QED
  BY <1>1, <1>2 DEF Next

LEMMA TrackingInvariant == Spec => []TrackInv
<1> QED
  BY TrackingStart, TrackingStep, PTL DEF Spec

\* The receiver takes each segment for the number it was sent with, whatever
\* the order of the segments, the sizes of their payloads and the initial
\* sequence number, and whichever of them it ignores (tcp_receiver.cc:10-53).
THEOREM TrackingInStep == Spec => []InStep
<1>1. TrackInv => InStep
  BY DEF TrackInv
<1> QED
  BY <1>1, TrackingInvariant, PTL

\* Every reachable checkpoint is unwrapped against to a closest candidate.
THEOREM TrackingClosest == Spec => []UnwrapIsClosest
<1>1. TypeOK => UnwrapIsClosest
  <2> SUFFICES ASSUME TypeOK, NEW raw \in Raw
               PROVE  LET u == Unwrap(raw, zero_point, checkpoint)
                      IN  /\ u \in Word
                          /\ Wrap(u, zero_point) = raw
                          /\ \A m \in Word :
                               Wrap(m, zero_point) = raw => AbsDiff(checkpoint, u) <= AbsDiff(checkpoint, m)
    BY DEF UnwrapIsClosest
  <2> DEFINE u == Unwrap(raw, zero_point, checkpoint)
             base == Base(raw, zero_point)
  <2>1. base \in Raw /\ base \in Word /\ base % SeqSpace = base
    <3>1. base \in Raw
      BY BaseInRaw DEF TypeOK
    <3> HIDE DEF base
    <3> QED
      BY <3>1, ModSmall, Widths DEF Raw, Word
  <2>2. u \in Word /\ \E q \in Nat : u = base + q * SeqSpace
    BY <2>1, UnwrapClosest DEF TypeOK
  <2>3. u % SeqSpace = base
    <3> HIDE DEF u, base
    <3> QED BY <2>1, <2>2, ClassMember
  <2>4. Wrap(u, zero_point) = raw
    <3>1. u \in Nat
      BY <2>2, Widths DEF Word
    <3> QED
      BY <2>3, <3>1, WrapOfBase DEF TypeOK
  <2>5. ASSUME NEW m \in Word, Wrap(m, zero_point) = raw
        PROVE  AbsDiff(checkpoint, u) <= AbsDiff(checkpoint, m)
    <3>1. m \in Nat
      BY Widths DEF Word
    <3>2. m % SeqSpace = base
      BY <2>5, <3>1, BaseOfWrap DEF TypeOK
    <3> QED
      BY <3>2, UnwrapClosest DEF TypeOK
  <2> QED
    BY <2>2, <2>4, <2>5
<1>2. TrackInv => TypeOK
  BY DEF TrackInv
<1> QED
  BY <1>1, <1>2, TrackingInvariant, PTL

-----------------------------------------------------------------------------
(* Serializer and Parser *)

LEMMA NatHasMinimum ==
  ASSUME NEW T, T \subseteq Nat, T # {}
  PROVE  \E x \in T : \A y \in T : x <= y
<1>1. \E x \in T : \A y \in T : ~ (<<y, x>> \in OpToRel(<, Nat))
  BY NatLessThanWellFounded, WFMin
<1>2. PICK x \in T : \A y \in T : ~ (<<y, x>> \in OpToRel(<, Nat))
  BY <1>1
<1>3. \A y \in T : ~ (y < x)
  BY <1>2 DEF OpToRel
<1> QED
  BY <1>3

\* The shifts of integers of one, two and four bytes.
LEMMA Shifts ==
  ASSUME NEW v
  PROVE  /\ ShiftedRight(v, 0) = v
         /\ ShiftedRight(v, 1) = v \div 256
         /\ ShiftedRight(v, 2) = (v \div 256) \div 256
         /\ ShiftedRight(v, 3) = ((v \div 256) \div 256) \div 256
<1> DEFINE Shifting(f, n) ==
             f = [k \in 0 .. n |-> IF k = 0 THEN v ELSE f[k - 1] \div 256]
           f0 == [k \in 0 .. 0 |-> v]
           f1 == [k \in 0 .. 1 |-> IF k = 0 THEN v ELSE v \div 256]
           f2 == [k \in 0 .. 2 |-> IF k = 0 THEN v ELSE IF k = 1 THEN v \div 256
                                   ELSE (v \div 256) \div 256]
           f3 == [k \in 0 .. 3 |-> IF k = 0 THEN v ELSE IF k = 1 THEN v \div 256
                                   ELSE IF k = 2 THEN (v \div 256) \div 256
                                   ELSE ((v \div 256) \div 256) \div 256]
<1>1. Shifting(f0, 0) /\ Shifting(f1, 1) /\ Shifting(f2, 2) /\ Shifting(f3, 3)
  OBVIOUS
<1>2. ASSUME NEW n, \E f : Shifting(f, n)
      PROVE  \E f : Shifting(f, n) /\ ShiftedRight(v, n) = f[n]
  <2> DEFINE shifted == CHOOSE f : Shifting(f, n)
  <2>1. Shifting(shifted, n)
    BY <1>2, Zenon
  <2>2. ShiftedRight(v, n) = shifted[n]
    BY Zenon DEF ShiftedRight
  <2> HIDE DEF shifted, Shifting
  <2> QED
    BY <2>1, <2>2
<1> HIDE DEF f0, f1, f2, f3
<1>3. /\ \E f : Shifting(f, 0) /\ ShiftedRight(v, 0) = f[0]
      /\ \E f : Shifting(f, 1) /\ ShiftedRight(v, 1) = f[1]
      /\ \E f : Shifting(f, 2) /\ ShiftedRight(v, 2) = f[2]
      /\ \E f : Shifting(f, 3) /\ ShiftedRight(v, 3) = f[3]
  <2> HIDE DEF Shifting
  <2> QED
    BY <1>1, <1>2
<1> QED
  BY <1>3

LEMMA IntegerOfOne ==
  ASSUME NEW v \in Byte
  PROVE  Integer(v, 1) = <<v>>
<1>1. \A i \in 1 .. 1 : ShiftedRight(v, 1 - i) % 256 = v
  BY Shifts DEF Byte
<1> QED
  BY <1>1 DEF Integer

\* The greatest of 16 bits, and of the 13 of a fragment's offset.
Top == 65535
LastEighth == 8191
Eighths == 0 .. LastEighth

LEMMA HalfTop == Top \in Nat \ {0} /\ Half = 0 .. Top
  BY DEF Top, Half

LEMMA HalfIs ==
  /\ \A v \in Half : v \in Int /\ 0 <= v /\ v <= 65535
  /\ \A v \in Int : 0 <= v /\ v <= 65535 => v \in Half
<1>1. /\ \A v \in Half : v \in Int /\ 0 <= v /\ v <= Top
      /\ \A v \in Int : 0 <= v /\ v <= Top => v \in Half
  BY HalfTop
<1> QED
  BY <1>1 DEF Top

LEMMA EighthsAre ==
  /\ \A z \in Eighths : z \in Int /\ 0 <= z /\ z <= 8191
  /\ 0 \in Eighths
<1>1. LastEighth \in Nat
  BY DEF LastEighth
<1>2. /\ \A z \in Eighths : z \in Int /\ 0 <= z /\ z <= LastEighth
      /\ 0 \in Eighths
  BY <1>1 DEF Eighths
<1> QED
  BY <1>2 DEF LastEighth

LEMMA HighByte ==
  ASSUME NEW v \in Int, 0 <= v, v <= 65535
  PROVE  v \div 256 \in 0 .. 255 /\ (v \div 256) % 256 = v \div 256
  BY Z3

LEMMA IntegerOfTwo ==
  ASSUME NEW v \in Half
  PROVE  Integer(v, 2) = <<v \div 256, v % 256>>
<1>1. (v \div 256) % 256 = v \div 256
  <2>1. v \in Int /\ 0 <= v /\ v <= 65535
    BY HalfIs
  <2> QED
    BY <2>1, HighByte
<1>2. \A i \in 1 .. 2 : ShiftedRight(v, 2 - i) % 256 = IF i = 1 THEN v \div 256 ELSE v % 256
  <2>1. \A i \in 1 .. 2 : i = 1 \/ i = 2
    OBVIOUS
  <2> QED
    BY <1>1, <2>1, Shifts
<1> QED
  BY <1>2 DEF Integer

\* The numbers of 32 bits.
Long == { v \in Nat : v \div 65536 < 65536 }

LEMMA IntegerOfFour ==
  ASSUME NEW v \in Long
  PROVE  Integer(v, 4) = <<((v \div 256) \div 256) \div 256, ((v \div 256) \div 256) % 256,
                           (v \div 256) % 256, v % 256>>
<1>1. (((v \div 256) \div 256) \div 256) % 256 = ((v \div 256) \div 256) \div 256
  BY DEF Long
<1>2. \A i \in 1 .. 4 :
        ShiftedRight(v, 4 - i) % 256
          = IF i = 1 THEN ((v \div 256) \div 256) \div 256
            ELSE IF i = 2 THEN ((v \div 256) \div 256) % 256
            ELSE IF i = 3 THEN (v \div 256) % 256 ELSE v % 256
  <2>1. \A i \in 1 .. 4 : i = 1 \/ i = 2 \/ i = 3 \/ i = 4
    OBVIOUS
  <2> QED
    BY <1>1, <2>1, Shifts
<1> QED
  BY <1>2 DEF Integer

\* Parser::integer, two and four times round its loop.
LEMMA IntegerAtIs ==
  ASSUME NEW input \in Seq(Byte), NEW o \in Nat
  PROVE  /\ o + 2 <= Len(input) =>
              IntegerAt(input, o, 2) = 256 * input[o + 1] + input[o + 2]
         /\ o + 4 <= Len(input) =>
              IntegerAt(input, o, 4)
                = 256 * (256 * (256 * input[o + 1] + input[o + 2]) + input[o + 3]) + input[o + 4]
<1> DEFINE Reads(f, n) ==
             f = [i \in 0 .. n |-> IF i = 0 THEN 0 ELSE 256 * f[i - 1] + input[o + i]]
<1>1. ASSUME NEW n, \E f : Reads(f, n)
      PROVE  \E f : Reads(f, n) /\ IntegerAt(input, o, n) = f[n]
  <2> DEFINE value == CHOOSE f : Reads(f, n)
  <2>1. Reads(value, n)
    BY <1>1, Zenon
  <2>2. IntegerAt(input, o, n) = value[n]
    BY Zenon DEF IntegerAt
  <2> HIDE DEF value, Reads
  <2> QED
    BY <2>1, <2>2
<1>2. ASSUME NEW n \in Nat, NEW g, g[0] = 0,
             \A i \in 1 .. n : g[i] = 256 * g[i - 1] + input[o + i]
      PROVE  \E f : Reads(f, n)
  <2> DEFINE f == [i \in 0 .. n |-> g[i]]
  <2>1. \A i \in 0 .. n : i # 0 => i \in 1 .. n /\ i - 1 \in 0 .. n
    OBVIOUS
  <2>2. \A i \in 0 .. n : f[i] = IF i = 0 THEN 0 ELSE 256 * f[i - 1] + input[o + i]
    BY <1>2, <2>1
  <2>3. f = [i \in 0 .. n |-> f[i]]
    OBVIOUS
  <2> HIDE DEF f
  <2>4. Reads(f, n)
    BY <2>2, <2>3, Zenon
  <2> HIDE DEF Reads
  <2> QED
    BY <2>4
<1>3. ASSUME o + 2 <= Len(input)
      PROVE  IntegerAt(input, o, 2) = 256 * input[o + 1] + input[o + 2]
  <2> DEFINE a == input[o + 1]
             b == input[o + 2]
             g == <<a, 256 * a + b>>
  <2>1. a \in Int
    <3>1. a \in Byte
      BY <1>3
    <3> HIDE DEF a
    <3> QED
      BY <3>1 DEF Byte
  <2>2. \E f : Reads(f, 2)
    <3> DEFINE h == [i \in 0 .. 2 |-> IF i = 0 THEN 0 ELSE g[i]]
    <3>1. h[0] = 0 /\ h[1] = a /\ h[2] = 256 * a + b
      OBVIOUS
    <3>2. \A i \in 1 .. 2 : i = 1 \/ i = 2
      OBVIOUS
    <3>3. h[1] = 256 * 0 + a
      BY <2>1, <3>1
    <3> HIDE DEF h
    <3>4. \A i \in 1 .. 2 : h[i] = 256 * h[i - 1] + input[o + i]
      BY <3>1, <3>2, <3>3
    <3> HIDE DEF a, b, g, Reads
    <3> QED
      BY <1>2, <3>1, <3>4
  <2>3. PICK f : Reads(f, 2) /\ IntegerAt(input, o, 2) = f[2]
    <3> HIDE DEF Reads
    <3> QED
      BY <1>1, <2>2
  <2>4. f[0] = 0 /\ f[1] = 256 * f[0] + a /\ f[2] = 256 * f[1] + b
    BY <2>3
  <2>5. f[1] = a
    <3> HIDE DEF a, b, Reads
    <3> QED
      BY <2>1, <2>4
  <2> QED
    BY <2>3, <2>4, <2>5
<1>4. ASSUME o + 4 <= Len(input)
      PROVE  IntegerAt(input, o, 4)
               = 256 * (256 * (256 * input[o + 1] + input[o + 2]) + input[o + 3]) + input[o + 4]
  <2> DEFINE a == input[o + 1]
             b == input[o + 2]
             c == input[o + 3]
             d == input[o + 4]
             g == <<a, 256 * a + b, 256 * (256 * a + b) + c,
                    256 * (256 * (256 * a + b) + c) + d>>
  <2>1. a \in Int
    <3>1. a \in Byte
      BY <1>4
    <3> HIDE DEF a
    <3> QED
      BY <3>1 DEF Byte
  <2>2. \E f : Reads(f, 4)
    <3> DEFINE h == [i \in 0 .. 4 |-> IF i = 0 THEN 0 ELSE g[i]]
    <3>1. /\ h[0] = 0 /\ h[1] = a /\ h[2] = 256 * a + b
          /\ h[3] = 256 * (256 * a + b) + c /\ h[4] = 256 * (256 * (256 * a + b) + c) + d
      OBVIOUS
    <3>2. \A i \in 1 .. 4 : i = 1 \/ i = 2 \/ i = 3 \/ i = 4
      OBVIOUS
    <3>3. h[1] = 256 * 0 + a
      BY <2>1, <3>1
    <3> HIDE DEF h
    <3>4. \A i \in 1 .. 4 : h[i] = 256 * h[i - 1] + input[o + i]
      BY <3>1, <3>2, <3>3
    <3> HIDE DEF a, b, c, d, g, Reads
    <3>5. 4 \in Nat /\ h[0] = 0
      BY <3>1
    <3> QED
      BY <1>2, <3>4, <3>5, Zenon
  <2>3. PICK f : Reads(f, 4) /\ IntegerAt(input, o, 4) = f[4]
    <3> HIDE DEF Reads
    <3> QED
      BY <1>1, <2>2
  <2>4. /\ f[0] = 0 /\ f[1] = 256 * f[0] + a /\ f[2] = 256 * f[1] + b
        /\ f[3] = 256 * f[2] + c /\ f[4] = 256 * f[3] + d
    BY <2>3
  <2>5. f[1] = a
    <3> HIDE DEF a, b, c, d, Reads
    <3> QED
      BY <2>1, <2>4
  <2> QED
    BY <2>3, <2>4, <2>5
<1> QED
  BY <1>3, <1>4

LEMMA HalfBack ==
  ASSUME NEW v \in Int, 0 <= v, v <= 65535
  PROVE  /\ 256 * (v \div 256) + (v % 256) = v
         /\ v \div 256 \in 0 .. 255 /\ v % 256 \in 0 .. 255
  BY DivMod, HighByte

LEMMA LongBack ==
  ASSUME NEW v \in Int, 0 <= v, v \div 65536 < 65536
  PROVE  /\ 256 * (256 * (256 * (((v \div 256) \div 256) \div 256) + (((v \div 256) \div 256) % 256))
                   + ((v \div 256) % 256)) + (v % 256) = v
         /\ ((v \div 256) \div 256) \div 256 \in 0 .. 255
         /\ ((v \div 256) \div 256) % 256 \in 0 .. 255
         /\ (v \div 256) % 256 \in 0 .. 255 /\ v % 256 \in 0 .. 255
<1> DEFINE p == v \div 256
           q == p \div 256
           r == q \div 256
<1>1. p \in Int /\ v % 256 \in 0 .. 255 /\ v = 256 * p + (v % 256)
  BY DivMod
<1> HIDE DEF p
<1>2. q \in Int /\ p % 256 \in 0 .. 255 /\ p = 256 * q + (p % 256)
  BY <1>1, DivMod
<1> HIDE DEF q
<1>3. r \in Int /\ q % 256 \in 0 .. 255 /\ q = 256 * r + (q % 256)
  <2>1. q \in Int
    BY <1>2
  <2> QED
    BY <2>1, DivMod
<1> HIDE DEF r
<1>4. v \div 65536 = q
  <2>1. 65536 * q <= v /\ v < 65536 * q + 65536
    BY <1>1, <1>2
  <2> QED
    BY <2>1, <1>2, DivUnique
<1>5. 0 <= q /\ q < 65536
  BY <1>1, <1>2, <1>4
<1>6. r \in 0 .. 255
  BY <1>3, <1>5
<1>7. 256 * (256 * (256 * r + (q % 256)) + (p % 256)) + (v % 256) = v
  BY <1>1, <1>2, <1>3
<1> QED
  BY <1>1, <1>2, <1>3, <1>6, <1>7 DEF p, q, r

\* What is serialized goes behind what is there.
Follows(next, s) ==
  next \in Seq(Byte) /\ Len(s) <= Len(next) /\ \A i \in 1 .. Len(s) : next[i] = s[i]

\* The bytes behind an offset are those of an integer.
HoldsByte(s, o, v) == o + 1 <= Len(s) /\ s[o + 1] = v
HoldsHalf(s, o, v) == o + 2 <= Len(s) /\ s[o + 1] = v \div 256 /\ s[o + 2] = v % 256
HoldsLong(s, o, v) ==
  /\ o + 4 <= Len(s)
  /\ s[o + 1] = ((v \div 256) \div 256) \div 256 /\ s[o + 2] = ((v \div 256) \div 256) % 256
  /\ s[o + 3] = (v \div 256) % 256 /\ s[o + 4] = v % 256
HoldsAddress(s, o, a) == HoldsHalf(s, o, a[1]) /\ HoldsHalf(s, o + 2, a[2])

\* An integer that was serialized is parsed.
LEMMA HalfAt ==
  ASSUME NEW s \in Seq(Byte), NEW o \in Nat, NEW v \in Half, HoldsHalf(s, o, v)
  PROVE  IntegerAt(s, o, 2) = v
<1>1. v \in Int /\ 0 <= v /\ v <= 65535
  BY HalfIs
<1> QED
  BY <1>1, IntegerAtIs, HalfBack DEF HoldsHalf

LEMMA LongAt ==
  ASSUME NEW s \in Seq(Byte), NEW o \in Nat, NEW v \in Long, HoldsLong(s, o, v)
  PROVE  IntegerAt(s, o, 4) = v
<1>1. v \in Int /\ 0 <= v /\ v \div 65536 < 65536
  BY DEF Long
<1>2. IntegerAt(s, o, 4)
        = 256 * (256 * (256 * s[o + 1] + s[o + 2]) + s[o + 3]) + s[o + 4]
  BY IntegerAtIs DEF HoldsLong
<1> DEFINE b1 == ((v \div 256) \div 256) \div 256
           b2 == ((v \div 256) \div 256) % 256
           b3 == (v \div 256) % 256
           b4 == v % 256
<1>3. s[o + 1] = b1 /\ s[o + 2] = b2 /\ s[o + 3] = b3 /\ s[o + 4] = b4
  BY DEF HoldsLong
<1>4. 256 * (256 * (256 * b1 + b2) + b3) + b4 = v
  BY <1>1, LongBack
<1> HIDE DEF b1, b2, b3, b4
<1> QED
  BY <1>2, <1>3, <1>4

LEMMA AddressBack ==
  ASSUME NEW s \in Seq(Byte), NEW o \in Nat, NEW a \in Half \X Half, HoldsAddress(s, o, a)
  PROVE  AddressAt(s, o) = a
<1>1. a[1] \in Half /\ a[2] \in Half /\ a = <<a[1], a[2]>>
  OBVIOUS
<1>2. o + 2 \in Nat
  OBVIOUS
<1>3. IntegerAt(s, o, 2) = a[1] /\ IntegerAt(s, o + 2, 2) = a[2]
  BY <1>1, <1>2, HalfAt DEF HoldsAddress
<1> QED
  BY <1>1, <1>3 DEF AddressAt

\* And it stays there.
LEMMA FollowsOn ==
  ASSUME NEW s \in Seq(Byte), NEW t, NEW u, Follows(t, s), Follows(u, t)
  PROVE  Follows(u, s)
  BY DEF Follows

LEMMA StillHolds ==
  ASSUME NEW s \in Seq(Byte), NEW next, Follows(next, s), NEW o \in Nat, NEW v
  PROVE  /\ HoldsByte(s, o, v) => HoldsByte(next, o, v)
         /\ HoldsHalf(s, o, v) => HoldsHalf(next, o, v)
         /\ HoldsLong(s, o, v) => HoldsLong(next, o, v)
         /\ HoldsAddress(s, o, v) => HoldsAddress(next, o, v)
<1>1. HoldsByte(s, o, v) => HoldsByte(next, o, v)
  BY DEF Follows, HoldsByte
<1>2. HoldsLong(s, o, v) => HoldsLong(next, o, v)
  BY DEF Follows, HoldsLong
<1>3. \A p \in Nat : \A w : HoldsHalf(s, p, w) => HoldsHalf(next, p, w)
  BY DEF Follows, HoldsHalf
<1>4. o + 2 \in Nat
  OBVIOUS
<1>5. HoldsAddress(s, o, v) => HoldsAddress(next, o, v)
  BY <1>3, <1>4, Zenon DEF HoldsAddress
<1> QED
  BY <1>1, <1>2, <1>3, <1>5, Zenon

LEMMA Joined ==
  ASSUME NEW s \in Seq(Byte), NEW t \in Seq(Byte)
  PROVE  /\ Follows(s \o t, s)
         /\ Len(s \o t) = Len(s) + Len(t)
         /\ \A i \in 1 .. Len(t) : (s \o t)[Len(s) + i] = t[i]
  BY DEF Follows

LEMMA HalfCells ==
  ASSUME NEW v \in Half
  PROVE  /\ v \div 256 \in Byte /\ v % 256 \in Byte
         /\ Integer(v, 2) \in Seq(Byte)
<1>1. v \in Int /\ 0 <= v /\ v <= 65535
  BY HalfIs
<1>2. v \div 256 \in Byte /\ v % 256 \in Byte
  BY <1>1, HalfBack DEF Byte
<1>3. \A a, b : a \in Byte /\ b \in Byte => <<a, b>> \in Seq(Byte)
  OBVIOUS
<1> QED
  BY <1>2, <1>3, IntegerOfTwo

LEMMA PutByte ==
  ASSUME NEW s \in Seq(Byte), NEW v \in Byte, NEW next, next = s \o Integer(v, 1)
  PROVE  /\ next \in Seq(Byte) /\ Follows(next, s) /\ Len(next) = Len(s) + 1
         /\ HoldsByte(next, Len(s), v)
<1> DEFINE t == Integer(v, 1)
<1>1. t = <<v>>
  BY IntegerOfOne
<1> HIDE DEF t
<1>2. t \in Seq(Byte) /\ Len(t) = 1 /\ t[1] = v
  BY <1>1
<1>3. 1 \in 1 .. 1
  OBVIOUS
<1>4. Follows(s \o t, s) /\ Len(s \o t) = Len(s) + 1 /\ (s \o t)[Len(s) + 1] = v
  BY <1>2, <1>3, Joined
<1>5. next = s \o t
  BY DEF t
<1>6. Follows(next, s) /\ Len(next) = Len(s) + 1 /\ next[Len(s) + 1] = v
  BY <1>4, <1>5, Zenon
<1>7. Len(s) \in Nat
  OBVIOUS
<1> QED
  BY <1>6, <1>7 DEF Follows, HoldsByte

LEMMA PutHalf ==
  ASSUME NEW s \in Seq(Byte), NEW v \in Half, NEW next, next = s \o Integer(v, 2)
  PROVE  /\ next \in Seq(Byte) /\ Follows(next, s) /\ Len(next) = Len(s) + 2
         /\ HoldsHalf(next, Len(s), v)
<1> DEFINE t == Integer(v, 2)
           b1 == v \div 256
           b2 == v % 256
<1>1. t = <<b1, b2>>
  BY IntegerOfTwo
<1>2. b1 \in Byte /\ b2 \in Byte
  BY HalfCells
<1>3. next = s \o t
  OBVIOUS
<1>4. ASSUME Len(s) + 2 <= Len(next), next[Len(s) + 1] = b1, next[Len(s) + 2] = b2
      PROVE  HoldsHalf(next, Len(s), v)
  BY <1>4 DEF HoldsHalf
<1> HIDE DEF t, b1, b2
<1>5. t \in Seq(Byte) /\ Len(t) = 2 /\ t[1] = b1 /\ t[2] = b2
  BY <1>1, <1>2
<1>6. 1 \in 1 .. 2 /\ 2 \in 1 .. 2
  OBVIOUS
<1>7. /\ Follows(s \o t, s) /\ Len(s \o t) = Len(s) + 2
      /\ (s \o t)[Len(s) + 1] = b1 /\ (s \o t)[Len(s) + 2] = b2
  BY <1>5, <1>6, Joined
<1>8. /\ Follows(next, s) /\ Len(next) = Len(s) + 2
      /\ next[Len(s) + 1] = b1 /\ next[Len(s) + 2] = b2
  BY <1>3, <1>7, Zenon
<1>9. next \in Seq(Byte) /\ Len(s) + 2 <= Len(next)
  BY <1>8 DEF Follows
<1> QED
  BY <1>4, <1>8, <1>9

LEMMA PutLong ==
  ASSUME NEW s \in Seq(Byte), NEW v \in Long, NEW next, next = s \o Integer(v, 4)
  PROVE  /\ next \in Seq(Byte) /\ Follows(next, s) /\ Len(next) = Len(s) + 4
         /\ HoldsLong(next, Len(s), v)
<1> DEFINE t == Integer(v, 4)
           b1 == ((v \div 256) \div 256) \div 256
           b2 == ((v \div 256) \div 256) % 256
           b3 == (v \div 256) % 256
           b4 == v % 256
<1>1. t = <<b1, b2, b3, b4>>
  BY IntegerOfFour
<1>2. b1 \in Byte /\ b2 \in Byte /\ b3 \in Byte /\ b4 \in Byte
  <2>1. v \in Int /\ 0 <= v /\ v \div 65536 < 65536
    BY DEF Long
  <2> QED
    BY <2>1, LongBack DEF Byte
<1>3. next = s \o t
  OBVIOUS
<1>4. ASSUME Len(s) + 4 <= Len(next), next[Len(s) + 1] = b1, next[Len(s) + 2] = b2,
             next[Len(s) + 3] = b3, next[Len(s) + 4] = b4
      PROVE  HoldsLong(next, Len(s), v)
  BY <1>4 DEF HoldsLong
<1> HIDE DEF t, b1, b2, b3, b4
<1>5. t \in Seq(Byte) /\ Len(t) = 4 /\ t[1] = b1 /\ t[2] = b2 /\ t[3] = b3 /\ t[4] = b4
  BY <1>1, <1>2
<1>6. 1 \in 1 .. 4 /\ 2 \in 1 .. 4 /\ 3 \in 1 .. 4 /\ 4 \in 1 .. 4
  OBVIOUS
<1>7. /\ Follows(s \o t, s) /\ Len(s \o t) = Len(s) + 4
      /\ (s \o t)[Len(s) + 1] = b1 /\ (s \o t)[Len(s) + 2] = b2
      /\ (s \o t)[Len(s) + 3] = b3 /\ (s \o t)[Len(s) + 4] = b4
  <2>1. /\ Follows(s \o t, s) /\ Len(s \o t) = Len(s) + 4
        /\ \A i \in 1 .. 4 : (s \o t)[Len(s) + i] = t[i]
    BY <1>5, Joined, Zenon
  <2> QED
    BY <1>5, <1>6, <2>1, Zenon
<1>8. /\ Follows(next, s) /\ Len(next) = Len(s) + 4
      /\ next[Len(s) + 1] = b1 /\ next[Len(s) + 2] = b2
      /\ next[Len(s) + 3] = b3 /\ next[Len(s) + 4] = b4
  BY <1>3, <1>7, Zenon
<1>9. next \in Seq(Byte) /\ Len(s) + 4 <= Len(next)
  BY <1>8 DEF Follows
<1> QED
  BY <1>4, <1>8, <1>9

LEMMA PutAddress ==
  ASSUME NEW s \in Seq(Byte), NEW v \in Half \X Half, NEW next, next = s \o AddressBytes(v)
  PROVE  /\ next \in Seq(Byte) /\ Follows(next, s) /\ Len(next) = Len(s) + 4
         /\ HoldsAddress(next, Len(s), v)
<1>1. v[1] \in Half /\ v[2] \in Half
  OBVIOUS
<1> DEFINE t == Integer(v[1], 2)
           u == Integer(v[2], 2)
           x == s \o t
<1>2. t \in Seq(Byte) /\ u \in Seq(Byte)
  BY <1>1, HalfCells
<1>3. x \in Seq(Byte) /\ Follows(x, s) /\ Len(x) = Len(s) + 2 /\ HoldsHalf(x, Len(s), v[1])
  BY <1>1, PutHalf
<1>4. next = s \o (t \o u)
  BY DEF AddressBytes
<1>5. (s \o t) \o u = s \o (t \o u)
  <2> HIDE DEF t, u
  <2> QED
    BY <1>2
<1>6. next = x \o u
  BY <1>4, <1>5
<1> HIDE DEF x
<1>7. next \in Seq(Byte) /\ Follows(next, x) /\ Len(next) = Len(x) + 2 /\ HoldsHalf(next, Len(x), v[2])
  BY <1>1, <1>3, <1>6, PutHalf
<1>8. Follows(next, s) /\ Len(next) = Len(s) + 4
  BY <1>3, <1>7, FollowsOn
<1>9. HoldsHalf(next, Len(s), v[1])
  BY <1>3, <1>7, StillHolds
<1>10. HoldsHalf(next, Len(s) + 2, v[2])
  BY <1>3, <1>7
<1> QED
  BY <1>7, <1>8, <1>9, <1>10 DEF HoldsAddress

-----------------------------------------------------------------------------
(* The header of a datagram *)

Header ==
  [ver : 0 .. 15, hlen : 0 .. 15, tos : Byte, len : Half, id : Half, df : BOOLEAN,
   mf : BOOLEAN, offset : Eighths, ttl : Byte, proto : Byte, cksum : Half,
   src : Half \X Half, dst : Half \X Half]

FlagsAndOffset(h) == Flag(h.df, 16384) + Flag(h.mf, 8192) + h.offset

LEMMA FlagsType ==
  ASSUME NEW h \in Header
  PROVE  FlagsAndOffset(h) \in Half
<1> DEFINE x == Flag(h.df, 16384)
           y == Flag(h.mf, 8192)
           z == h.offset
<1>1. x \in {0, 16384} /\ y \in {0, 8192} /\ z \in Int /\ 0 <= z /\ z <= 8191
  <2>1. h.df \in BOOLEAN /\ h.mf \in BOOLEAN /\ z \in Eighths
    BY DEF Header
  <2>2. x \in {0, 16384} /\ y \in {0, 8192}
    BY <2>1 DEF Flag
  <2> HIDE DEF x, y, z
  <2> QED
    BY <2>1, <2>2, EighthsAre
<1>2. FlagsAndOffset(h) = x + y + z
  BY DEF FlagsAndOffset
<1> HIDE DEF x, y, z
<1>3. x + y + z \in Half
  BY <1>1, HalfIs
<1> QED
  BY <1>2, <1>3, Zenon

\* The bytes of a header, and where they are.
HeaderHeld(s, h) ==
  /\ HoldsByte(s, 0, 16 * h.ver + h.hlen) /\ HoldsByte(s, 1, h.tos)
  /\ HoldsHalf(s, 2, h.len) /\ HoldsHalf(s, 4, h.id) /\ HoldsHalf(s, 6, FlagsAndOffset(h))
  /\ HoldsByte(s, 8, h.ttl) /\ HoldsByte(s, 9, h.proto) /\ HoldsHalf(s, 10, h.cksum)
  /\ HoldsAddress(s, 12, h.src) /\ HoldsAddress(s, 16, h.dst)

LEMMA HeaderCells ==
  ASSUME NEW h \in Header
  PROVE  /\ HeaderBytes(h) \in Seq(Byte) /\ Len(HeaderBytes(h)) = HEADER_LENGTH
         /\ HeaderHeld(HeaderBytes(h), h)
<1>1. /\ h.tos \in Byte /\ h.len \in Half /\ h.id \in Half /\ h.ttl \in Byte /\ h.proto \in Byte
      /\ h.cksum \in Half /\ h.src \in Half \X Half /\ h.dst \in Half \X Half
      /\ h.ver \in 0 .. 15 /\ h.hlen \in 0 .. 15
  BY DEF Header
<1>2. 16 * h.ver + h.hlen \in Byte
  BY <1>1 DEF Byte
<1>3. FlagsAndOffset(h) \in Half
  BY FlagsType
<1> DEFINE b1 == Integer(16 * h.ver + h.hlen, 1)
           b2 == b1 \o Integer(h.tos, 1)
           b3 == b2 \o Integer(h.len, 2)
           b4 == b3 \o Integer(h.id, 2)
           b5 == b4 \o Integer(FlagsAndOffset(h), 2)
           b6 == b5 \o Integer(h.ttl, 1)
           b7 == b6 \o Integer(h.proto, 1)
           b8 == b7 \o Integer(h.cksum, 2)
           b9 == b8 \o AddressBytes(h.src)
           b10 == b9 \o AddressBytes(h.dst)
<1>4. HeaderBytes(h) = b10
  BY DEF HeaderBytes, FlagsAndOffset
<1>5. b1 \in Seq(Byte) /\ Len(b1) = 1 /\ HoldsByte(b1, 0, 16 * h.ver + h.hlen)
  <2> DEFINE x == 16 * h.ver + h.hlen
  <2>1. b1 = <<x>> /\ x \in Byte
    BY <1>2, IntegerOfOne
  <2> HIDE DEF x, b1
  <2>2. b1 \in Seq(Byte) /\ Len(b1) = 1 /\ HoldsByte(b1, 0, x)
    BY <2>1 DEF HoldsByte
  <2> QED
    BY <2>2 DEF x
<1> HIDE DEF b1
<1>6. /\ b2 \in Seq(Byte) /\ Follows(b2, b1) /\ Len(b2) = 2
       /\ HoldsByte(b2, 1, h.tos)
  <2>1. b2 = b1 \o Integer(h.tos, 1)
    OBVIOUS
  <2> HIDE DEF b2
  <2>2. /\ b2 \in Seq(Byte) /\ Follows(b2, b1) /\ Len(b2) = Len(b1) + 1
        /\ HoldsByte(b2, Len(b1), h.tos)
    BY <1>1, <1>5, <2>1, PutByte, Zenon
  <2> QED
    BY <1>5, <2>2
<1> HIDE DEF b2
<1>7. /\ b3 \in Seq(Byte) /\ Follows(b3, b2) /\ Len(b3) = 4
       /\ HoldsHalf(b3, 2, h.len)
  <2>1. b3 = b2 \o Integer(h.len, 2)
    OBVIOUS
  <2> HIDE DEF b3
  <2>2. /\ b3 \in Seq(Byte) /\ Follows(b3, b2) /\ Len(b3) = Len(b2) + 2
        /\ HoldsHalf(b3, Len(b2), h.len)
    BY <1>1, <1>6, <2>1, PutHalf, Zenon
  <2> QED
    BY <1>6, <2>2
<1> HIDE DEF b3
<1>8. /\ b4 \in Seq(Byte) /\ Follows(b4, b3) /\ Len(b4) = 6
       /\ HoldsHalf(b4, 4, h.id)
  <2>1. b4 = b3 \o Integer(h.id, 2)
    OBVIOUS
  <2> HIDE DEF b4
  <2>2. /\ b4 \in Seq(Byte) /\ Follows(b4, b3) /\ Len(b4) = Len(b3) + 2
        /\ HoldsHalf(b4, Len(b3), h.id)
    BY <1>1, <1>7, <2>1, PutHalf, Zenon
  <2> QED
    BY <1>7, <2>2
<1> HIDE DEF b4
<1>9. /\ b5 \in Seq(Byte) /\ Follows(b5, b4) /\ Len(b5) = 8
       /\ HoldsHalf(b5, 6, FlagsAndOffset(h))
  <2>1. b5 = b4 \o Integer(FlagsAndOffset(h), 2)
    OBVIOUS
  <2> HIDE DEF b5
  <2>2. /\ b5 \in Seq(Byte) /\ Follows(b5, b4) /\ Len(b5) = Len(b4) + 2
        /\ HoldsHalf(b5, Len(b4), FlagsAndOffset(h))
    BY <1>3, <1>8, <2>1, PutHalf, Zenon
  <2> QED
    BY <1>8, <2>2
<1> HIDE DEF b5
<1>10. /\ b6 \in Seq(Byte) /\ Follows(b6, b5) /\ Len(b6) = 9
       /\ HoldsByte(b6, 8, h.ttl)
  <2>1. b6 = b5 \o Integer(h.ttl, 1)
    OBVIOUS
  <2> HIDE DEF b6
  <2>2. /\ b6 \in Seq(Byte) /\ Follows(b6, b5) /\ Len(b6) = Len(b5) + 1
        /\ HoldsByte(b6, Len(b5), h.ttl)
    BY <1>1, <1>9, <2>1, PutByte, Zenon
  <2> QED
    BY <1>9, <2>2
<1> HIDE DEF b6
<1>11. /\ b7 \in Seq(Byte) /\ Follows(b7, b6) /\ Len(b7) = 10
       /\ HoldsByte(b7, 9, h.proto)
  <2>1. b7 = b6 \o Integer(h.proto, 1)
    OBVIOUS
  <2> HIDE DEF b7
  <2>2. /\ b7 \in Seq(Byte) /\ Follows(b7, b6) /\ Len(b7) = Len(b6) + 1
        /\ HoldsByte(b7, Len(b6), h.proto)
    BY <1>1, <1>10, <2>1, PutByte, Zenon
  <2> QED
    BY <1>10, <2>2
<1> HIDE DEF b7
<1>12. /\ b8 \in Seq(Byte) /\ Follows(b8, b7) /\ Len(b8) = 12
       /\ HoldsHalf(b8, 10, h.cksum)
  <2>1. b8 = b7 \o Integer(h.cksum, 2)
    OBVIOUS
  <2> HIDE DEF b8
  <2>2. /\ b8 \in Seq(Byte) /\ Follows(b8, b7) /\ Len(b8) = Len(b7) + 2
        /\ HoldsHalf(b8, Len(b7), h.cksum)
    BY <1>1, <1>11, <2>1, PutHalf, Zenon
  <2> QED
    BY <1>11, <2>2
<1> HIDE DEF b8
<1>13. /\ b9 \in Seq(Byte) /\ Follows(b9, b8) /\ Len(b9) = 16
       /\ HoldsAddress(b9, 12, h.src)
  <2>1. b9 = b8 \o AddressBytes(h.src)
    OBVIOUS
  <2> HIDE DEF b9
  <2>2. /\ b9 \in Seq(Byte) /\ Follows(b9, b8) /\ Len(b9) = Len(b8) + 4
        /\ HoldsAddress(b9, Len(b8), h.src)
    BY <1>1, <1>12, <2>1, PutAddress, Zenon
  <2> QED
    BY <1>12, <2>2
<1> HIDE DEF b9
<1>14. /\ b10 \in Seq(Byte) /\ Follows(b10, b9) /\ Len(b10) = 20
       /\ HoldsAddress(b10, 16, h.dst)
  <2>1. b10 = b9 \o AddressBytes(h.dst)
    OBVIOUS
  <2> HIDE DEF b10
  <2>2. /\ b10 \in Seq(Byte) /\ Follows(b10, b9) /\ Len(b10) = Len(b9) + 4
        /\ HoldsAddress(b10, Len(b9), h.dst)
    BY <1>1, <1>13, <2>1, PutAddress, Zenon
  <2> QED
    BY <1>13, <2>2
<1> HIDE DEF b10
<1>15. /\ Follows(b10, b8) /\ Follows(b10, b7) /\ Follows(b10, b6) /\ Follows(b10, b5)
       /\ Follows(b10, b4) /\ Follows(b10, b3) /\ Follows(b10, b2) /\ Follows(b10, b1)
  BY <1>5, <1>6, <1>7, <1>8, <1>9, <1>10, <1>11, <1>12, <1>13, <1>14, FollowsOn, Zenon
<1>16. /\ 0 \in Nat /\ 1 \in Nat /\ 2 \in Nat /\ 4 \in Nat /\ 6 \in Nat /\ 8 \in Nat
       /\ 9 \in Nat /\ 10 \in Nat /\ 12 \in Nat
  OBVIOUS
<1>17. HeaderHeld(b10, h)
  BY <1>5, <1>6, <1>7, <1>8, <1>9, <1>10, <1>11, <1>12, <1>13, <1>14, <1>15, <1>16,
     StillHolds, Zenon DEF HeaderHeld
<1> QED
  BY <1>4, <1>14, <1>17 DEF HEADER_LENGTH

LEMMA FirstByte ==
  ASSUME NEW v \in 0 .. 15, NEW l \in 0 .. 15
  PROVE  (16 * v + l) \div 16 = v /\ (16 * v + l) % 16 = l
<1> DEFINE a == 16 * v + l
<1>1. a \in Int /\ 16 * v <= a /\ a < 16 * v + 16 /\ v \in Int /\ l \in Int /\ l = a - 16 * v
  OBVIOUS
<1> HIDE DEF a
<1>2. a \div 16 = v
  BY <1>1, DivUnique
<1>3. a = 16 * (a \div 16) + (a % 16) /\ a % 16 \in 0 .. 15
  BY <1>1, DivMod
<1>4. a % 16 = l
  BY <1>1, <1>2, <1>3
<1> QED
  BY <1>2, <1>4 DEF a

\* The flags and the fragment offset share 16 bits.
LEMMA FlagsApart ==
  ASSUME NEW x \in {0, 1}, NEW y \in {0, 1}, NEW z \in Int, 0 <= z, z <= 8191
  PROVE  LET fo == 16384 * x + 8192 * y + z
         IN  (fo \div 16384) % 2 = x /\ (fo \div 8192) % 2 = y /\ fo % 8192 = z
<1> DEFINE fo == 16384 * x + 8192 * y + z
           two == 2 * x + y
<1>1. /\ fo \in Int /\ x \in Int /\ two \in Int
      /\ 16384 * x <= fo /\ fo < 16384 * x + 16384
      /\ 8192 * two <= fo /\ fo < 8192 * two + 8192 /\ z = fo - 8192 * two
  OBVIOUS
<1>2. two % 2 = y /\ x % 2 = x
  OBVIOUS
<1> HIDE DEF fo, two
<1>3. fo \div 16384 = x /\ fo \div 8192 = two
  BY <1>1, DivUnique
<1>4. fo = 8192 * (fo \div 8192) + (fo % 8192) /\ fo % 8192 \in Int
  BY <1>1, DivMod
<1>5. fo % 8192 = z
  BY <1>1, <1>3, <1>4
<1> QED
  BY <1>2, <1>3, <1>5 DEF fo

LEMMA FlagsBack ==
  ASSUME NEW h \in Header
  PROVE  LET fo == FlagsAndOffset(h)
         IN  IsSet(fo, 16384) = h.df /\ IsSet(fo, 8192) = h.mf /\ fo % 8192 = h.offset
<1> DEFINE x == IF h.df THEN 1 ELSE 0
           y == IF h.mf THEN 1 ELSE 0
           z == h.offset
           fo == FlagsAndOffset(h)
<1>1. h.df \in BOOLEAN /\ h.mf \in BOOLEAN /\ z \in Int /\ 0 <= z /\ z <= 8191
  BY EighthsAre DEF Header
<1>2. x \in {0, 1} /\ y \in {0, 1}
  OBVIOUS
<1>3. fo = 16384 * x + 8192 * y + z
  BY DEF FlagsAndOffset, Flag
<1> HIDE DEF fo, z
<1>4. (fo \div 16384) % 2 = x /\ (fo \div 8192) % 2 = y /\ fo % 8192 = z
  BY <1>1, <1>2, <1>3, FlagsApart
<1>5. IsSet(fo, 16384) = h.df /\ IsSet(fo, 8192) = h.mf
  BY <1>1, <1>4 DEF IsSet
<1> QED
  BY <1>4, <1>5 DEF fo, z

\* What was serialized, whatever follows, is parsed.
LEMMA HeaderBack ==
  ASSUME NEW h \in Header, NEW input \in Seq(Byte), HeaderHeld(input, h)
  PROVE  HeaderAt(input) = h
<1> DEFINE fo == FlagsAndOffset(h)
<1>1. /\ h.tos \in Byte /\ h.len \in Half /\ h.id \in Half /\ h.ttl \in Byte /\ h.proto \in Byte
      /\ h.cksum \in Half /\ h.src \in Half \X Half /\ h.dst \in Half \X Half
      /\ h.ver \in 0 .. 15 /\ h.hlen \in 0 .. 15
  BY DEF Header
<1>2. 2 \in Nat /\ 4 \in Nat /\ 6 \in Nat /\ 10 \in Nat /\ 12 \in Nat /\ 16 \in Nat
  OBVIOUS
<1>3. fo \in Half
  BY FlagsType
<1>4. /\ IntegerAt(input, 2, 2) = h.len /\ IntegerAt(input, 4, 2) = h.id
      /\ IntegerAt(input, 6, 2) = fo /\ IntegerAt(input, 10, 2) = h.cksum
      /\ AddressAt(input, 12) = h.src /\ AddressAt(input, 16) = h.dst
  BY <1>1, <1>2, <1>3, HalfAt, AddressBack, Zenon DEF HeaderHeld
<1>5. input[1] = 16 * h.ver + h.hlen /\ input[2] = h.tos /\ input[9] = h.ttl /\ input[10] = h.proto
  BY DEF HeaderHeld, HoldsByte
<1>6. input[1] \div 16 = h.ver /\ input[1] % 16 = h.hlen
  <2>1. (16 * h.ver + h.hlen) \div 16 = h.ver /\ (16 * h.ver + h.hlen) % 16 = h.hlen
    BY <1>1, FirstByte, Zenon
  <2> QED
    BY <1>5, <2>1, Zenon
<1>7. IsSet(fo, 16384) = h.df /\ IsSet(fo, 8192) = h.mf /\ fo % 8192 = h.offset
  BY FlagsBack
<1> HIDE DEF fo
<1>8. HeaderAt(input)
        = [ver |-> input[1] \div 16, hlen |-> input[1] % 16, tos |-> input[2],
           len |-> IntegerAt(input, 2, 2), id |-> IntegerAt(input, 4, 2),
           df |-> IsSet(IntegerAt(input, 6, 2), 16384), mf |-> IsSet(IntegerAt(input, 6, 2), 8192),
           offset |-> IntegerAt(input, 6, 2) % 8192,
           ttl |-> input[9], proto |-> input[10], cksum |-> IntegerAt(input, 10, 2),
           src |-> AddressAt(input, 12), dst |-> AddressAt(input, 16)]
  BY DEF HeaderAt
<1>9. HeaderAt(input)
        = [ver |-> h.ver, hlen |-> h.hlen, tos |-> h.tos, len |-> h.len, id |-> h.id,
           df |-> h.df, mf |-> h.mf, offset |-> h.offset, ttl |-> h.ttl, proto |-> h.proto,
           cksum |-> h.cksum, src |-> h.src, dst |-> h.dst]
  BY <1>4, <1>5, <1>6, <1>7, <1>8
<1>10. h = [ver |-> h.ver, hlen |-> h.hlen, tos |-> h.tos, len |-> h.len, id |-> h.id,
           df |-> h.df, mf |-> h.mf, offset |-> h.offset, ttl |-> h.ttl, proto |-> h.proto,
           cksum |-> h.cksum, src |-> h.src, dst |-> h.dst]
  BY DEF Header
<1> QED
  BY <1>9, <1>10, Zenon

-----------------------------------------------------------------------------
(* The Internet checksum *)

\* What is left when all carries have been added back.
Rest(n) == n % Top
Fold(n) == IF n = 0 THEN 0 ELSE Rest(n - 1) + 1

LEMMA Tops ==
  /\ Top \in Nat \ {0} /\ Half = 0 .. Top
  /\ \A n \in Half : n \in Nat /\ n <= Top /\ Complement(n) = Top - n
<1>1. Top \in Nat \ {0} /\ Half = 0 .. Top
  BY HalfTop
<1>2. \A n \in Half : Complement(n) = Top - n
  BY DEF Top, Complement
<1> QED
  BY <1>1, <1>2

LEMMA ModAdd ==
  ASSUME NEW w \in Nat \ {0}, NEW q \in Int, NEW x \in Int, NEW a \in Int, a = w * q + x
  PROVE  a % w = x % w
<1> DEFINE d == x \div w
           r == x % w
<1>1. d \in Int /\ r \in 0 .. w - 1 /\ x = w * d + r
  BY DivMod
<1> HIDE DEF d, r
<1>2. w * (q + d) = w * q + w * d /\ q + d \in Int /\ w * q \in Int /\ w * d \in Int
  BY <1>1
<1>3. w * (q + d) <= a /\ a < w * (q + d) + w /\ a = w * (q + d) + r
  BY <1>1, <1>2
<1>4. a \div w = q + d
  BY <1>2, <1>3, DivUnique
<1>5. a = w * (a \div w) + (a % w) /\ a % w \in 0 .. w - 1
  BY DivMod
<1>6. a % w = r
  BY <1>1, <1>2, <1>3, <1>4, <1>5
<1> QED
  BY <1>6 DEF r

LEMMA RestIs ==
  ASSUME NEW m \in Nat
  PROVE  /\ Rest(m) \in 0 .. Top - 1
         /\ m < Top => Rest(m) = m
         /\ \A k \in Nat, q \in Int : k = Top * q + m => Rest(k) = Rest(m)
<1>1. Top \in Nat \ {0}
  BY Tops
<1>2. m % Top \in 0 .. Top - 1
  BY <1>1, DivMod
<1>3. m < Top => m % Top = m
  BY <1>1, ModSmall
<1>4. ASSUME NEW k \in Nat, NEW q \in Int, k = Top * q + m PROVE k % Top = m % Top
  <2>1. k \in Int /\ m \in Int
    OBVIOUS
  <2> QED
    BY <1>1, <1>4, <2>1, ModAdd, Zenon
<1> QED
  BY <1>2, <1>3, <1>4 DEF Rest

LEMMA Folded ==
  ASSUME NEW m \in Nat
  PROVE  Fold(m + 1) = Rest(m) + 1
<1>1. m + 1 # 0 /\ (m + 1) - 1 = m
  OBVIOUS
<1>2. Fold(m + 1) = Rest((m + 1) - 1) + 1
  BY <1>1 DEF Fold
<1> QED
  BY <1>1, <1>2, Zenon

LEMMA FoldType ==
  ASSUME NEW n \in Nat
  PROVE  Fold(n) \in Half /\ (n \in Half => Fold(n) = n)
<1>1. CASE n = 0
  BY <1>1, Tops DEF Fold
<1>2. ASSUME NEW m \in Nat, n = m + 1 PROVE Fold(n) \in Half /\ (n \in Half => Fold(n) = n)
  <2> DEFINE r == Rest(m)
  <2>1. Fold(n) = r + 1
    BY <1>2, Folded
  <2>2. r \in 0 .. Top - 1 /\ (m < Top => r = m)
    BY <1>2, RestIs
  <2> HIDE DEF r
  <2> QED
    BY <1>2, <2>1, <2>2, Tops
<1>3. n = 0 \/ (n - 1 \in Nat /\ n = (n - 1) + 1)
  OBVIOUS
<1> QED
  BY <1>1, <1>2, <1>3

\* Adding back the carries of one round changes nothing.
LEMMA FoldStep ==
  ASSUME NEW n \in Nat, n \notin Half
  PROVE  Carried(n) \in Nat /\ Carried(n) < n /\ Fold(Carried(n)) = Fold(n)
<1> DEFINE w == Top + 1
           q == n \div w
           r == n % w
<1>1. Carried(n) = q + r
  BY DEF Carried, Top
<1>2. q \in Int /\ r \in 0 .. Top /\ n = (Top + 1) * q + r
  <2>1. w \in Nat \ {0} /\ w - 1 = Top
    BY Tops
  <2> HIDE DEF w
  <2>2. q \in Int /\ r \in 0 .. w - 1 /\ n = w * q + r
    BY <2>1, DivMod
  <2> HIDE DEF q, r
  <2> QED
    BY <2>1, <2>2 DEF w
<1>3. n > Top
  BY Tops
<1> HIDE DEF q, r
<1>4. (Top + 1) * q = Top * q + q /\ Top * q \in Int
  BY <1>2, Tops
<1>5. q >= 1
  <2> SUFFICES ASSUME q <= 0 PROVE FALSE
    BY <1>2
  <2>1. (Top + 1) * q <= 0
    BY <1>2, Tops
  <2> QED
    BY <1>2, <1>3, <2>1, Tops
<1>6. Top * q >= Top
  BY <1>2, <1>5, Tops
<1> DEFINE m == q + r - 1
           k == Top * q + m
<1>7. m \in Nat /\ q + r = m + 1
  BY <1>2, <1>5, Tops
<1>8. k \in Nat /\ n = k + 1 /\ m + 1 < n
  <2> DEFINE t == Top * q
  <2> HIDE DEF t
  <2> QED
    BY <1>2, <1>4, <1>5, <1>6, Tops DEF t
<1> HIDE DEF m
<1>9. k = Top * q + m
  OBVIOUS
<1> HIDE DEF k
<1>10. Rest(k) = Rest(m)
  BY <1>2, <1>7, <1>8, <1>9, RestIs
<1>11. Fold(k + 1) = Rest(k) + 1 /\ Fold(m + 1) = Rest(m) + 1
  BY <1>7, <1>8, Folded
<1> QED
  BY <1>1, <1>7, <1>8, <1>10, <1>11

\* InternetChecksum::value(), however often its loop goes round.
LEMMA ValueIs ==
  ASSUME NEW check, check.sum \in Nat
  PROVE  Value(check) = Complement(Fold(check.sum))
<1> DEFINE Folds(f) == f = [n \in Nat |-> IF n \in Half THEN n ELSE f[Carried(n)]]
           folded == CHOOSE f : Folds(f)
           g == [n \in Nat |-> Fold(n)]
<1>1. Folds(g)
  <2>1. \A n \in Nat : Fold(n) = IF n \in Half THEN n ELSE Fold(Carried(n))
    BY FoldType, FoldStep, Zenon
  <2>2. \A n \in Nat : n \notin Half => Carried(n) \in Nat
    BY FoldStep, Zenon
  <2>3. \A n \in Nat : g[n] = Fold(n)
    OBVIOUS
  <2>4. g = [n \in Nat |-> g[n]]
    OBVIOUS
  <2> HIDE DEF g
  <2>5. \A n \in Nat : g[n] = IF n \in Half THEN n ELSE g[Carried(n)]
    BY <2>1, <2>2, <2>3, Zenon
  <2> QED
    BY <2>4, <2>5, Zenon
<1>2. Folds(folded)
  <2> HIDE DEF g
  <2> QED
    BY <1>1, Zenon
<1>3. Value(check) = Complement(folded[check.sum])
  BY Zenon DEF Value
<1> HIDE DEF folded, g
<1>4. \A n \in Nat : folded[n] = Fold(n)
  <2> SUFFICES ASSUME NEW k \in Nat, folded[k] # Fold(k) PROVE FALSE
    OBVIOUS
  <2> DEFINE D == { n \in Nat : folded[n] # Fold(n) }
  <2>1. D \subseteq Nat /\ D # {}
    OBVIOUS
  <2> HIDE DEF D
  <2>2. PICK n \in D : \A i \in D : n <= i
    BY <2>1, NatHasMinimum
  <2>3. n \in Nat /\ folded[n] # Fold(n) /\ \A i \in Nat : folded[i] # Fold(i) => n <= i
    BY <2>2 DEF D
  <2>4. folded[n] = IF n \in Half THEN n ELSE folded[Carried(n)]
    BY <1>2, <2>3, Zenon
  <2>5. n \notin Half
    BY <2>3, <2>4, FoldType, Zenon
  <2>6. Carried(n) \in Nat /\ Carried(n) < n /\ Fold(Carried(n)) = Fold(n)
    BY <2>3, <2>5, FoldStep, Zenon
  <2>7. folded[Carried(n)] # Fold(Carried(n))
    BY <2>3, <2>4, <2>5, <2>6, Zenon
  <2> HIDE DEF Folds
  <2> QED
    BY <2>3, <2>6, <2>7
<1> QED
  BY <1>3, <1>4

LEMMA ValueType ==
  ASSUME NEW check, check.sum \in Nat
  PROVE  Value(check) \in Half
<1> DEFINE f == Fold(check.sum)
<1>1. f \in Half /\ Value(check) = Complement(f)
  BY ValueIs, FoldType
<1> HIDE DEF f
<1> QED
  BY <1>1, Tops

\* A sum that has got its own checksum added to it verifies.
LEMMA Verifies ==
  ASSUME NEW sum \in Nat
  PROVE  Fold(sum + Complement(Fold(sum))) = Top
<1> DEFINE f == Fold(sum)
<1>1. f \in 0 .. Top /\ Complement(f) = Top - f /\ Top \in Nat \ {0}
  BY FoldType, Tops
<1>2. CASE sum = 0
  <2>1. f = 0
    BY <1>2 DEF Fold
  <2>2. sum + Complement(f) = Top
    BY <1>1, <1>2, <2>1
  <2>3. Top \in Nat /\ Top \in Half
    BY Tops
  <2> QED
    BY <2>2, <2>3, FoldType
<1>3. CASE sum # 0
  <2> DEFINE m == sum - 1
             r == m % Top
             d == m \div Top
             l == Top - 1
             k == Top * d + l
  <2>1. m \in Nat /\ sum = m + 1
    BY <1>3
  <2>2. f = Rest(m) + 1
    BY <2>1, Folded
  <2> HIDE DEF m
  <2>3. d \in Int /\ r \in 0 .. Top - 1 /\ m = Top * d + r
    <3>1. Top \in Nat \ {0} /\ m \in Int
      BY <1>1, <2>1
    <3> QED
      BY <3>1, DivMod, Zenon
  <2>4. f = r + 1
    BY <2>2 DEF Rest
  <2> HIDE DEF d, r, f
  <2>5. sum + Complement(f) = k + 1 /\ k \in Nat /\ l \in Nat /\ l < Top
    <3> DEFINE t == Top * d
    <3>1. t \in Int
      BY <1>1, <2>3
    <3> HIDE DEF t
    <3> QED
      BY <1>1, <2>1, <2>3, <2>4, <3>1 DEF t
  <2>6. k = Top * d + l
    OBVIOUS
  <2> HIDE DEF k
  <2>7. Rest(k) = Rest(l)
    BY <2>3, <2>5, <2>6, RestIs
  <2>8. Rest(l) = l
    BY <2>5, RestIs
  <2>9. Fold(k + 1) = Rest(k) + 1
    BY <2>5, Folded
  <2>10. l + 1 = Top
    BY <1>1
  <2> QED
    BY <2>5, <2>7, <2>8, <2>9, <2>10 DEF f
<1> QED
  BY <1>2, <1>3

-----------------------------------------------------------------------------
(* What is added *)

\* The running sum of a sequence of words.
Runs(f, base, w, n) == f = [i \in 0 .. n |-> IF i = 0 THEN base ELSE f[i - 1] + w[i]]

LEMMA RunsOn ==
  ASSUME NEW base, NEW w, NEW n \in Nat
  PROVE  \E f : Runs(f, base, w, n)
<1> DEFINE Given(i) == \E f : Runs(f, base, w, i)
           D == { i \in Nat : ~ Given(i) }
<1> SUFFICES ASSUME ~ Given(n) PROVE FALSE
  OBVIOUS
<1>1. D \subseteq Nat /\ D # {}
  <2> HIDE DEF Given
  <2> QED
    OBVIOUS
<1> HIDE DEF D
<1>2. PICK l \in D : \A i \in D : l <= i
  BY <1>1, NatHasMinimum
<1>3. l \in Nat /\ ~ Given(l) /\ \A i \in Nat : ~ Given(i) => l <= i
  <2> HIDE DEF Given
  <2> QED
    BY <1>2 DEF D
<1>4. Given(0)
  <2> DEFINE g == [i \in 0 .. 0 |-> base]
  <2>1. Runs(g, base, w, 0)
    BY DEF Runs
  <2> HIDE DEF g
  <2> QED
    BY <2>1
<1>5. l - 1 \in Nat /\ Given(l - 1)
  <2> HIDE DEF Given
  <2> QED
    BY <1>3, <1>4
<1> DEFINE p == l - 1
<1>6. PICK f : Runs(f, base, w, p)
  BY <1>5
<1> DEFINE g == [i \in 0 .. l |-> IF i = l THEN f[p] + w[l] ELSE f[i]]
<1>7. \A i \in 0 .. l : g[i] = IF i = 0 THEN base ELSE g[i - 1] + w[i]
  <2> SUFFICES ASSUME NEW i \in 0 .. l PROVE g[i] = IF i = 0 THEN base ELSE g[i - 1] + w[i]
    OBVIOUS
  <2>1. i # 0 => i - 1 \in 0 .. l /\ i - 1 # l
    BY <1>3
  <2>2. i # l => i \in 0 .. p
    BY <1>3
  <2>3. i # l => f[i] = IF i = 0 THEN base ELSE f[i - 1] + w[i]
    BY <1>6, <2>2 DEF Runs
  <2>4. l # 0
    BY <1>5
  <2> QED
    BY <2>1, <2>3, <2>4
<1>8. g = [i \in 0 .. l |-> g[i]]
  OBVIOUS
<1> HIDE DEF g
<1>9. Runs(g, base, w, l)
  BY <1>7, <1>8, Zenon DEF Runs
<1> QED
  BY <1>3, <1>9

Weight(data, i) == IF i % 2 = 1 THEN 256 * data[i] ELSE data[i]

LEMMA WeightType ==
  ASSUME NEW data \in Seq(Byte), NEW i \in 1 .. Len(data)
  PROVE  Weight(data, i) \in Nat
<1> DEFINE x == data[i]
<1>1. x \in Byte
  OBVIOUS
<1>2. Weight(data, i) = IF i % 2 = 1 THEN 256 * x ELSE x
  BY DEF Weight
<1> HIDE DEF x
<1>3. x \in Nat /\ 256 * x \in Nat
  BY <1>1 DEF Byte
<1> QED
  BY <1>2, <1>3, Zenon

Totals(f, base, data) ==
  /\ f[0] = base
  /\ \A i \in 1 .. Len(data) : f[i] = f[i - 1] + Weight(data, i)
  /\ \A i \in 0 .. Len(data) : f[i] \in Nat

\* InternetChecksum::add(), the first time.
LEMMA AddIs ==
  ASSUME NEW base \in Nat, NEW data \in Seq(Byte)
  PROVE  \E f : Totals(f, base, data) /\ Add(NewChecksum(base), data).sum = f[Len(data)]
<1> DEFINE n == Len(data)
           w == [i \in 1 .. n |-> Weight(data, i)]
           high(i) == (i % 2 = 1) # FALSE
           Sums(f) == f = [i \in 0 .. n |-> IF i = 0 THEN base ELSE
                             f[i - 1] + (IF high(i) THEN 256 * data[i] ELSE data[i])]
           sum == CHOOSE f : Sums(f)
<1>1. n \in Nat
  OBVIOUS
<1>2. \A i \in 1 .. n : Weight(data, i) \in Nat
  BY WeightType
<1>3. \A i \in 1 .. n : Weight(data, i) = IF high(i) THEN 256 * data[i] ELSE data[i]
  BY DEF Weight
<1>4. PICK f : Runs(f, base, w, n)
  BY <1>1, RunsOn
<1>5. \A i \in 0 .. n : i # 0 => i \in 1 .. n
  BY <1>1
<1> HIDE DEF n, high
<1>6. Sums(f)
  <2>1. \A i \in 0 .. n : (IF i = 0 THEN base ELSE f[i - 1] + w[i])
             = IF i = 0 THEN base ELSE f[i - 1] + (IF high(i) THEN 256 * data[i] ELSE data[i])
    BY <1>3, <1>5
  <2> HIDE DEF w
  <2> QED
    BY <1>4, <2>1 DEF Runs
<1>7. Sums(sum)
  <2> HIDE DEF Sums
  <2> QED
    BY <1>6
<1>8. Add(NewChecksum(base), data).sum = sum[n]
  BY DEF Add, NewChecksum, n, high
<1> HIDE DEF sum
<1>9. sum[0] = base /\ \A i \in 1 .. n : sum[i] = sum[i - 1] + Weight(data, i)
  <2>1. 0 \in 0 .. n /\ \A i \in 1 .. n : i \in 0 .. n /\ i # 0
    BY <1>1
  <2> QED
    BY <1>3, <1>7, <2>1
<1> HIDE DEF Sums, w
<1>10. \A i \in 0 .. n : sum[i] \in Nat
  <2> DEFINE D == { i \in 0 .. n : sum[i] \notin Nat }
  <2> SUFFICES ASSUME D # {} PROVE FALSE
    OBVIOUS
  <2>1. D \subseteq Nat
    BY <1>1
  <2> HIDE DEF D
  <2>2. PICK i \in D : \A j \in D : i <= j
    BY <2>1, NatHasMinimum
  <2>3. i \in 1 .. n /\ sum[i] \notin Nat
    BY <1>1, <1>9, <2>2 DEF D
  <2>4. i - 1 \in 0 .. n /\ ~ (i <= i - 1)
    BY <1>1, <2>3
  <2>5. sum[i - 1] \in Nat
    BY <2>2, <2>4 DEF D
  <2>6. sum[i] = sum[i - 1] + Weight(data, i) /\ Weight(data, i) \in Nat
    BY <1>2, <1>9, <2>3
  <2> QED
    BY <2>3, <2>5, <2>6
<1>11. Totals(sum, base, data)
  BY <1>9, <1>10 DEF n, Totals
<1> QED
  BY <1>8, <1>11 DEF n

\* The checksum is the only difference of two segments.
LEMMA SumWith ==
  ASSUME NEW base \in Nat, NEW s \in Seq(Byte), NEW t \in Seq(Byte), NEW v \in Half,
         Len(s) = Len(t), HoldsHalf(s, 16, 0), HoldsHalf(t, 16, v),
         \A i \in 1 .. Len(s) : i # 17 /\ i # 18 => s[i] = t[i]
  PROVE  /\ Add(NewChecksum(base), s).sum \in Nat
         /\ Add(NewChecksum(base), t).sum = Add(NewChecksum(base), s).sum + v
<1> DEFINE n == Len(s)
           high == v \div 256
           low == v % 256
           More(i) == IF i < 17 THEN 0 ELSE IF i < 18 THEN 256 * high ELSE 256 * high + low
<1>1. n \in Nat /\ n >= 18
  BY DEF HoldsHalf
<1>2. high \in Nat /\ low \in Nat /\ 256 * high + low = v
  <2>1. v \in Int /\ 0 <= v /\ v <= 65535
    BY HalfIs
  <2>2. 256 * high + low = v /\ high \in 0 .. 255 /\ low \in 0 .. 255
    BY <2>1, HalfBack
  <2> HIDE DEF high, low
  <2> QED
    BY <2>2
<1>3. s[17] = 0 /\ s[18] = 0 /\ t[17] = high /\ t[18] = low
  BY DEF HoldsHalf
<1>4. PICK f : Totals(f, base, s) /\ Add(NewChecksum(base), s).sum = f[n]
  BY AddIs
<1>5. PICK g : Totals(g, base, t) /\ Add(NewChecksum(base), t).sum = g[n]
  BY AddIs
<1> HIDE DEF n, high, low
<1>f. /\ f[0] = base /\ \A i \in 1 .. n : f[i] = f[i - 1] + Weight(s, i)
      /\ \A i \in 0 .. n : f[i] \in Nat
  BY <1>4 DEF Totals, n
<1>g. /\ g[0] = base /\ \A i \in 1 .. n : g[i] = g[i - 1] + Weight(t, i)
      /\ \A i \in 0 .. n : g[i] \in Nat
  BY <1>5 DEF Totals, n
<1>6. Weight(s, 17) = 0 /\ Weight(s, 18) = 0 /\ Weight(t, 17) = 256 * high /\ Weight(t, 18) = low
  BY <1>2, <1>3 DEF Weight
<1>7. \A i \in 1 .. n : i # 17 /\ i # 18 => Weight(s, i) = Weight(t, i)
  BY DEF Weight, n
<1>8. \A i \in 0 .. n : g[i] = f[i] + More(i)
  <2> DEFINE D == { i \in 0 .. n : g[i] # f[i] + More(i) }
  <2> SUFFICES ASSUME D # {} PROVE FALSE
    OBVIOUS
  <2>1. D \subseteq Nat
    BY <1>1
  <2> HIDE DEF D
  <2>2. PICK i \in D : \A j \in D : i <= j
    BY <2>1, NatHasMinimum
  <2>3. i \in 0 .. n /\ g[i] # f[i] + More(i)
    BY <2>2 DEF D
  <2>4. i # 0
    BY <1>1, <1>f, <1>g, <2>3
  <2>5. i \in 1 .. n /\ i - 1 \in 0 .. n /\ ~ (i <= i - 1)
    BY <1>1, <2>3, <2>4
  <2>6. g[i - 1] = f[i - 1] + More(i - 1)
    BY <2>2, <2>5 DEF D
  <2>7. f[i] = f[i - 1] + Weight(s, i) /\ g[i] = g[i - 1] + Weight(t, i)
    BY <1>f, <1>g, <2>5
  <2>8. /\ f[i - 1] \in Nat /\ g[i - 1] \in Nat /\ f[i] \in Nat /\ g[i] \in Nat
    BY <1>f, <1>g, <2>5
  <2>9. CASE i = 17
    BY <1>2, <1>6, <2>3, <2>6, <2>7, <2>8, <2>9
  <2>10. CASE i = 18
    BY <1>2, <1>6, <2>3, <2>6, <2>7, <2>8, <2>10
  <2>11. CASE i # 17 /\ i # 18
    <3>1. More(i) = More(i - 1) /\ More(i) \in Nat
      BY <1>1, <1>2, <2>5, <2>11
    <3>2. Weight(s, i) = Weight(t, i)
      BY <1>7, <2>5, <2>11
    <3> DEFINE a == f[i - 1]
               b == g[i - 1]
               x == Weight(t, i)
               m == More(i)
    <3>3. f[i] = a + x /\ g[i] = b + x /\ b = a + m
      BY <2>6, <2>7, <3>1, <3>2
    <3>4. a \in Nat /\ b \in Nat /\ x \in Nat /\ m \in Nat
      BY <2>5, <2>8, <3>1, WeightType DEF n
    <3>5. g[i] # f[i] + m
      BY <2>3
    <3> HIDE DEF a, b, x, m
    <3> QED
      BY <3>3, <3>4, <3>5
  <2> QED
    BY <2>9, <2>10, <2>11
<1>9. More(n) = v
  BY <1>1, <1>2
<1>10. n \in 0 .. n
  BY <1>1
<1> HIDE DEF More
<1> QED
  BY <1>4, <1>5, <1>f, <1>8, <1>9, <1>10

-----------------------------------------------------------------------------
(* A segment *)

Messages ==
  [seqno : Long, SYN : BOOLEAN, payload : Seq(Byte), FIN : BOOLEAN,
   ackno : Long \cup {NoSeqno}, window_size : Half, RST : BOOLEAN]

Segments == [src_port : Half, dst_port : Half, message : Messages]

AckNumber(message) == IF message.ackno = NoSeqno THEN 0 ELSE message.ackno

Flags(message) ==
  Flag(message.ackno # NoSeqno, 16) + Flag(message.RST, 4) + Flag(message.SYN, 2)
    + Flag(message.FIN, 1)

LEMMA FourFlags ==
  ASSUME NEW a \in {0, 1}, NEW r \in {0, 1}, NEW y \in {0, 1}, NEW f \in {0, 1}
  PROVE  LET flags == 16 * a + 4 * r + 2 * y + f
         IN  /\ flags \in 0 .. 255
             /\ (flags \div 16) % 2 = a /\ (flags \div 4) % 2 = r
             /\ (flags \div 2) % 2 = y /\ (flags \div 1) % 2 = f
  BY Z3

LEMMA FlagsOfMessage ==
  ASSUME NEW message \in Messages
  PROVE  /\ Flags(message) \in Byte
         /\ IsSet(Flags(message), 16) = (message.ackno # NoSeqno)
         /\ IsSet(Flags(message), 4) = message.RST
         /\ IsSet(Flags(message), 2) = message.SYN
         /\ IsSet(Flags(message), 1) = message.FIN
<1> DEFINE a == IF message.ackno # NoSeqno THEN 1 ELSE 0
           r == IF message.RST THEN 1 ELSE 0
           y == IF message.SYN THEN 1 ELSE 0
           f == IF message.FIN THEN 1 ELSE 0
           flags == Flags(message)
<1>1. message.RST \in BOOLEAN /\ message.SYN \in BOOLEAN /\ message.FIN \in BOOLEAN
  BY DEF Messages
<1>2. a \in {0, 1} /\ r \in {0, 1} /\ y \in {0, 1} /\ f \in {0, 1}
  OBVIOUS
<1>3. flags = 16 * a + 4 * r + 2 * y + f
  BY DEF Flags, Flag
<1>4. /\ a = 1 <=> message.ackno # NoSeqno
      /\ r = 1 <=> message.RST
      /\ y = 1 <=> message.SYN
      /\ f = 1 <=> message.FIN
  OBVIOUS
<1> HIDE DEF a, r, y, f, flags
<1>5. /\ flags \in 0 .. 255
      /\ (flags \div 16) % 2 = a /\ (flags \div 4) % 2 = r
      /\ (flags \div 2) % 2 = y /\ (flags \div 1) % 2 = f
  BY <1>2, <1>3, FourFlags
<1> QED
  BY <1>1, <1>4, <1>5 DEF IsSet, flags, Byte

\* The bytes of a segment, and where they are.
SegmentHeld(s, segment, cksum) ==
  /\ HoldsHalf(s, 0, segment.src_port) /\ HoldsHalf(s, 2, segment.dst_port)
  /\ HoldsLong(s, 4, segment.message.seqno) /\ HoldsLong(s, 8, AckNumber(segment.message))
  /\ HoldsByte(s, 12, 80) /\ HoldsByte(s, 13, Flags(segment.message))
  /\ HoldsHalf(s, 14, segment.message.window_size) /\ HoldsHalf(s, 16, cksum)
  /\ HoldsHalf(s, 18, 0)
  /\ Len(s) = 20 + Len(segment.message.payload)
  /\ \A i \in 1 .. Len(segment.message.payload) : s[20 + i] = segment.message.payload[i]

LEMMA SegmentFields ==
  ASSUME NEW segment \in Segments
  PROVE  /\ segment.src_port \in Half /\ segment.dst_port \in Half
         /\ segment.message \in Messages
         /\ segment.message.seqno \in Long /\ AckNumber(segment.message) \in Long
         /\ 80 \in Byte /\ Flags(segment.message) \in Byte
         /\ segment.message.window_size \in Half /\ 0 \in Half
         /\ segment.message.payload \in Seq(Byte)
<1>1. segment.src_port \in Half /\ segment.dst_port \in Half /\ segment.message \in Messages
  BY DEF Segments
<1> DEFINE message == segment.message
<1> HIDE DEF message
<1>2. message \in Messages
  BY <1>1 DEF message
<1>3. /\ message.seqno \in Long /\ message.window_size \in Half /\ message.payload \in Seq(Byte)
      /\ message.ackno \in Long \cup {NoSeqno}
  BY <1>2 DEF Messages
<1>4. 0 \in Long
  BY DEF Long
<1>5. AckNumber(message) \in Long
  BY <1>3, <1>4 DEF AckNumber
<1>6. Flags(message) \in Byte
  BY <1>2, FlagsOfMessage
<1>7. 80 \in Byte /\ 0 \in Half
  BY HalfIs DEF Byte
<1> QED
  BY <1>1, <1>3, <1>5, <1>6, <1>7 DEF message

LEMMA SegmentCells ==
  ASSUME NEW segment \in Segments, NEW cksum \in Half
  PROVE  /\ SegmentBytes(segment, cksum) \in Seq(Byte)
         /\ SegmentHeld(SegmentBytes(segment, cksum), segment, cksum)
<1>1. /\ segment.src_port \in Half /\ segment.dst_port \in Half
      /\ segment.message.seqno \in Long /\ AckNumber(segment.message) \in Long
      /\ 80 \in Byte /\ Flags(segment.message) \in Byte
      /\ segment.message.window_size \in Half /\ 0 \in Half /\ cksum \in Half
      /\ segment.message.payload \in Seq(Byte)
  BY SegmentFields, Zenon
<1> DEFINE b1 == Integer(segment.src_port, 2)
           b2 == b1 \o Integer(segment.dst_port, 2)
           b3 == b2 \o Integer(segment.message.seqno, 4)
           b4 == b3 \o Integer(AckNumber(segment.message), 4)
           b5 == b4 \o Integer(80, 1)
           b6 == b5 \o Integer(Flags(segment.message), 1)
           b7 == b6 \o Integer(segment.message.window_size, 2)
           b8 == b7 \o Integer(cksum, 2)
           b9 == b8 \o Integer(0, 2)
           b10 == b9 \o segment.message.payload
<1>2. (HEADER_LENGTH \div 4) * 16 = 80
  BY DEF HEADER_LENGTH
<1>3. SegmentBytes(segment, cksum) = b10
  BY <1>2 DEF SegmentBytes, AckNumber, Flags
<1>4. b1 \in Seq(Byte) /\ Len(b1) = 2 /\ HoldsHalf(b1, 0, segment.src_port)
  <2> DEFINE x == segment.src_port
             h == x \div 256
             l == x % 256
  <2>1. b1 = <<h, l>> /\ h \in Byte /\ l \in Byte
    BY <1>1, IntegerOfTwo, HalfCells
  <2>2. ASSUME 2 <= Len(b1), b1[1] = h, b1[2] = l PROVE HoldsHalf(b1, 0, x)
    BY <2>2 DEF HoldsHalf
  <2> HIDE DEF x, h, l, b1
  <2>3. b1 \in Seq(Byte) /\ Len(b1) = 2 /\ HoldsHalf(b1, 0, x)
    BY <2>1, <2>2
  <2> QED
    BY <2>3 DEF x
<1> HIDE DEF b1
<1>5. /\ b2 \in Seq(Byte) /\ Follows(b2, b1) /\ Len(b2) = 4
       /\ HoldsHalf(b2, 2, segment.dst_port)
  <2>1. b2 = b1 \o Integer(segment.dst_port, 2)
    OBVIOUS
  <2> HIDE DEF b2
  <2>2. /\ b2 \in Seq(Byte) /\ Follows(b2, b1) /\ Len(b2) = Len(b1) + 2
        /\ HoldsHalf(b2, Len(b1), segment.dst_port)
    BY <1>1, <1>4, <2>1, PutHalf, Zenon
  <2> QED
    BY <1>4, <2>2
<1> HIDE DEF b2
<1>6. /\ b3 \in Seq(Byte) /\ Follows(b3, b2) /\ Len(b3) = 8
       /\ HoldsLong(b3, 4, segment.message.seqno)
  <2>1. b3 = b2 \o Integer(segment.message.seqno, 4)
    OBVIOUS
  <2> HIDE DEF b3
  <2>2. /\ b3 \in Seq(Byte) /\ Follows(b3, b2) /\ Len(b3) = Len(b2) + 4
        /\ HoldsLong(b3, Len(b2), segment.message.seqno)
    BY <1>1, <1>5, <2>1, PutLong, Zenon
  <2> QED
    BY <1>5, <2>2
<1> HIDE DEF b3
<1>7. /\ b4 \in Seq(Byte) /\ Follows(b4, b3) /\ Len(b4) = 12
       /\ HoldsLong(b4, 8, AckNumber(segment.message))
  <2>1. b4 = b3 \o Integer(AckNumber(segment.message), 4)
    OBVIOUS
  <2> HIDE DEF b4
  <2>2. /\ b4 \in Seq(Byte) /\ Follows(b4, b3) /\ Len(b4) = Len(b3) + 4
        /\ HoldsLong(b4, Len(b3), AckNumber(segment.message))
    BY <1>1, <1>6, <2>1, PutLong, Zenon
  <2> QED
    BY <1>6, <2>2
<1> HIDE DEF b4
<1>8. /\ b5 \in Seq(Byte) /\ Follows(b5, b4) /\ Len(b5) = 13
       /\ HoldsByte(b5, 12, 80)
  <2>1. b5 = b4 \o Integer(80, 1)
    OBVIOUS
  <2> HIDE DEF b5
  <2>2. /\ b5 \in Seq(Byte) /\ Follows(b5, b4) /\ Len(b5) = Len(b4) + 1
        /\ HoldsByte(b5, Len(b4), 80)
    BY <1>1, <1>7, <2>1, PutByte, ZenonT(40)
  <2> QED
    BY <1>7, <2>2
<1> HIDE DEF b5
<1>9. /\ b6 \in Seq(Byte) /\ Follows(b6, b5) /\ Len(b6) = 14
       /\ HoldsByte(b6, 13, Flags(segment.message))
  <2>1. b6 = b5 \o Integer(Flags(segment.message), 1)
    OBVIOUS
  <2> HIDE DEF b6
  <2>2. /\ b6 \in Seq(Byte) /\ Follows(b6, b5) /\ Len(b6) = Len(b5) + 1
        /\ HoldsByte(b6, Len(b5), Flags(segment.message))
    BY <1>1, <1>8, <2>1, PutByte, Zenon
  <2> QED
    BY <1>8, <2>2
<1> HIDE DEF b6
<1>10. /\ b7 \in Seq(Byte) /\ Follows(b7, b6) /\ Len(b7) = 16
       /\ HoldsHalf(b7, 14, segment.message.window_size)
  <2>1. b7 = b6 \o Integer(segment.message.window_size, 2)
    OBVIOUS
  <2> HIDE DEF b7
  <2>2. /\ b7 \in Seq(Byte) /\ Follows(b7, b6) /\ Len(b7) = Len(b6) + 2
        /\ HoldsHalf(b7, Len(b6), segment.message.window_size)
    BY <1>1, <1>9, <2>1, PutHalf, Zenon
  <2> QED
    BY <1>9, <2>2
<1> HIDE DEF b7
<1>11. /\ b8 \in Seq(Byte) /\ Follows(b8, b7) /\ Len(b8) = 18
       /\ HoldsHalf(b8, 16, cksum)
  <2>1. b8 = b7 \o Integer(cksum, 2)
    OBVIOUS
  <2> HIDE DEF b8
  <2>2. /\ b8 \in Seq(Byte) /\ Follows(b8, b7) /\ Len(b8) = Len(b7) + 2
        /\ HoldsHalf(b8, Len(b7), cksum)
    BY <1>1, <1>10, <2>1, PutHalf, Zenon
  <2> QED
    BY <1>10, <2>2
<1> HIDE DEF b8
<1>12. /\ b9 \in Seq(Byte) /\ Follows(b9, b8) /\ Len(b9) = 20
       /\ HoldsHalf(b9, 18, 0)
  <2>1. b9 = b8 \o Integer(0, 2)
    OBVIOUS
  <2> HIDE DEF b9
  <2>2. /\ b9 \in Seq(Byte) /\ Follows(b9, b8) /\ Len(b9) = Len(b8) + 2
        /\ HoldsHalf(b9, Len(b8), 0)
    BY <1>1, <1>11, <2>1, PutHalf, Zenon
  <2> QED
    BY <1>11, <2>2
<1> HIDE DEF b9
<1>13. /\ b10 \in Seq(Byte) /\ Follows(b10, b9)
       /\ Len(b10) = 20 + Len(segment.message.payload)
       /\ \A i \in 1 .. Len(segment.message.payload) : b10[20 + i] = segment.message.payload[i]
  <2> DEFINE payload == segment.message.payload
  <2>1. b10 = b9 \o payload /\ payload \in Seq(Byte)
    BY <1>1
  <2> HIDE DEF b10, payload
  <2>2. b10 \in Seq(Byte)
    BY <1>12, <2>1
  <2>3. /\ Follows(b10, b9) /\ Len(b10) = Len(b9) + Len(payload)
        /\ \A i \in 1 .. Len(payload) : b10[Len(b9) + i] = payload[i]
    BY <1>12, <2>1, Joined, Zenon
  <2> QED
    BY <1>12, <2>2, <2>3 DEF payload
<1> HIDE DEF b10
<1>14. /\ Follows(b10, b8) /\ Follows(b10, b7) /\ Follows(b10, b6) /\ Follows(b10, b5)
       /\ Follows(b10, b4) /\ Follows(b10, b3) /\ Follows(b10, b2) /\ Follows(b10, b1)
  BY <1>4, <1>5, <1>6, <1>7, <1>8, <1>9, <1>10, <1>11, <1>12, <1>13, FollowsOn, Zenon
<1>15. /\ 0 \in Nat /\ 2 \in Nat /\ 4 \in Nat /\ 8 \in Nat /\ 12 \in Nat /\ 13 \in Nat
       /\ 14 \in Nat /\ 16 \in Nat /\ 18 \in Nat
  OBVIOUS
<1>16. /\ HoldsHalf(b10, 0, segment.src_port) /\ HoldsHalf(b10, 2, segment.dst_port)
       /\ HoldsLong(b10, 4, segment.message.seqno) /\ HoldsLong(b10, 8, AckNumber(segment.message))
       /\ HoldsByte(b10, 12, 80) /\ HoldsByte(b10, 13, Flags(segment.message))
  BY <1>4, <1>5, <1>6, <1>7, <1>8, <1>9, <1>14, <1>15, StillHolds, ZenonT(40)
<1>17. /\ HoldsHalf(b10, 14, segment.message.window_size) /\ HoldsHalf(b10, 16, cksum)
       /\ HoldsHalf(b10, 18, 0)
  BY <1>10, <1>11, <1>12, <1>13, <1>14, <1>15, StillHolds, Zenon
<1>18. SegmentHeld(b10, segment, cksum)
  BY <1>13, <1>16, <1>17, Zenon DEF SegmentHeld
<1> QED
  BY <1>3, <1>13, <1>18

\* What was serialized is parsed.
LEMMA SegmentBack ==
  ASSUME NEW segment \in Segments, NEW cksum \in Half, NEW input \in Seq(Byte),
         SegmentHeld(input, segment, cksum)
  PROVE  SegmentAt(input) = segment
<1> DEFINE m == segment.message
           flags == Flags(m)
<1>1. /\ segment.src_port \in Half /\ segment.dst_port \in Half /\ m \in Messages
      /\ m.seqno \in Long /\ AckNumber(m) \in Long
      /\ m.window_size \in Half /\ m.payload \in Seq(Byte)
  BY SegmentFields
<1>2. 0 \in Nat /\ 2 \in Nat /\ 4 \in Nat /\ 8 \in Nat /\ 14 \in Nat
  OBVIOUS
<1>3. /\ IntegerAt(input, 0, 2) = segment.src_port /\ IntegerAt(input, 2, 2) = segment.dst_port
      /\ IntegerAt(input, 4, 4) = m.seqno /\ IntegerAt(input, 8, 4) = AckNumber(m)
      /\ IntegerAt(input, 14, 2) = m.window_size
  BY <1>1, <1>2, HalfAt, LongAt, Zenon DEF SegmentHeld
<1>4. input[13] = 80 /\ input[14] = flags
  BY DEF SegmentHeld, HoldsByte
<1>5. /\ IsSet(flags, 16) = (m.ackno # NoSeqno) /\ IsSet(flags, 4) = m.RST
      /\ IsSet(flags, 2) = m.SYN /\ IsSet(flags, 1) = m.FIN
  BY <1>1, FlagsOfMessage
<1>6. RemovePrefix(input, 4 * (input[13] \div 16)) = m.payload
  <2>1. 4 * (input[13] \div 16) = 20
    BY <1>4
  <2>2. /\ Len(input) = 20 + Len(m.payload)
        /\ \A i \in 1 .. Len(m.payload) : input[20 + i] = m.payload[i]
    BY DEF SegmentHeld
  <2>3. RemovePrefix(input, 20) = SubSeq(input, 21, Len(input))
    BY DEF RemovePrefix
  <2> DEFINE p == m.payload
  <2> HIDE DEF m
  <2>4. p \in Seq(Byte)
    BY <1>1
  <2> HIDE DEF p
  <2>5. SubSeq(input, 21, Len(input)) = p
    BY <2>2, <2>4 DEF p
  <2> QED
    BY <2>1, <2>3, <2>5 DEF p
<1>7. (IF IsSet(flags, 16) THEN AckNumber(m) ELSE NoSeqno) = m.ackno
  BY <1>5 DEF AckNumber
<1>8. m = [seqno |-> m.seqno, ackno |-> m.ackno, RST |-> m.RST, SYN |-> m.SYN, FIN |-> m.FIN,
           window_size |-> m.window_size, payload |-> m.payload]
  <2> HIDE DEF m
  <2> QED
    BY <1>1 DEF Messages
<1>9. segment = [src_port |-> segment.src_port, dst_port |-> segment.dst_port, message |-> m]
  BY DEF Segments
<1> HIDE DEF m, flags
<1>10. SegmentAt(input)
         = [src_port |-> segment.src_port, dst_port |-> segment.dst_port,
            message |-> [seqno |-> m.seqno, ackno |-> m.ackno, RST |-> m.RST, SYN |-> m.SYN,
                         FIN |-> m.FIN, window_size |-> m.window_size, payload |-> m.payload]]
  BY <1>3, <1>4, <1>5, <1>6, <1>7 DEF SegmentAt
<1> QED
  BY <1>8, <1>9, <1>10

LEMMA SameBytes ==
  ASSUME NEW segment \in Segments, NEW cksum, NEW s \in Seq(Byte), NEW t \in Seq(Byte),
         SegmentHeld(s, segment, 0), SegmentHeld(t, segment, cksum)
  PROVE  /\ Len(s) = Len(t)
         /\ \A i \in 1 .. Len(s) : i # 17 /\ i # 18 => s[i] = t[i]
<1> DEFINE n == Len(segment.message.payload)
<1>1. \A o, v : HoldsHalf(s, o, v) /\ HoldsHalf(t, o, v) => s[o + 1] = t[o + 1] /\ s[o + 2] = t[o + 2]
  BY DEF HoldsHalf
<1>2. \A o, v : HoldsLong(s, o, v) /\ HoldsLong(t, o, v) =>
                  /\ s[o + 1] = t[o + 1] /\ s[o + 2] = t[o + 2]
                  /\ s[o + 3] = t[o + 3] /\ s[o + 4] = t[o + 4]
  BY DEF HoldsLong
<1>3. \A o, v : HoldsByte(s, o, v) /\ HoldsByte(t, o, v) => s[o + 1] = t[o + 1]
  BY DEF HoldsByte
<1>4. /\ s[0 + 1] = t[0 + 1] /\ s[0 + 2] = t[0 + 2] /\ s[2 + 1] = t[2 + 1] /\ s[2 + 2] = t[2 + 2]
      /\ s[14 + 1] = t[14 + 1] /\ s[14 + 2] = t[14 + 2]
      /\ s[18 + 1] = t[18 + 1] /\ s[18 + 2] = t[18 + 2]
  BY <1>1, Zenon DEF SegmentHeld
<1>5. /\ s[4 + 1] = t[4 + 1] /\ s[4 + 2] = t[4 + 2] /\ s[4 + 3] = t[4 + 3] /\ s[4 + 4] = t[4 + 4]
      /\ s[8 + 1] = t[8 + 1] /\ s[8 + 2] = t[8 + 2] /\ s[8 + 3] = t[8 + 3] /\ s[8 + 4] = t[8 + 4]
  BY <1>2, Zenon DEF SegmentHeld
<1>6. s[12 + 1] = t[12 + 1] /\ s[13 + 1] = t[13 + 1]
  BY <1>3, Zenon DEF SegmentHeld
<1>7. /\ Len(s) = 20 + n /\ Len(t) = 20 + n
      /\ \A i \in 1 .. n : s[20 + i] = t[20 + i]
  BY DEF SegmentHeld
<1> HIDE DEF n
<1>8. ASSUME NEW i \in 1 .. Len(s), i # 17, i # 18 PROVE s[i] = t[i]
  <2>1. n \in Nat
    <3>1. segment.message.payload \in Seq(Byte)
      BY SegmentFields
    <3> QED
      BY <3>1 DEF n
  <2>2. CASE i > 20
    <3>1. i - 20 \in 1 .. n /\ 20 + (i - 20) = i
      BY <1>7, <2>1, <2>2
    <3> QED
      BY <1>7, <3>1
  <2>3. CASE i <= 20
    <3>1. \/ i = 1 \/ i = 2 \/ i = 3 \/ i = 4 \/ i = 5 \/ i = 6 \/ i = 7 \/ i = 8 \/ i = 9
          \/ i = 10 \/ i = 11 \/ i = 12 \/ i = 13 \/ i = 14 \/ i = 15 \/ i = 16 \/ i = 19
          \/ i = 20
      BY <1>8, <2>3
    <3> DEFINE Same(j) == s[j] = t[j]
    <3>2. /\ Same(1) /\ Same(2) /\ Same(3) /\ Same(4) /\ Same(15) /\ Same(16)
          /\ Same(19) /\ Same(20)
      BY <1>4
    <3>3. /\ Same(5) /\ Same(6) /\ Same(7) /\ Same(8) /\ Same(9) /\ Same(10)
          /\ Same(11) /\ Same(12)
      BY <1>5
    <3>4. Same(13) /\ Same(14)
      BY <1>6
    <3> HIDE DEF Same
    <3>5. Same(i)
      BY <3>1, <3>2, <3>3, <3>4
    <3> QED
      BY <3>5 DEF Same
  <2> QED
    BY <2>2, <2>3
<1> QED
  BY <1>7, <1>8

LEMMA SegmentParsed ==
  ASSUME NEW segment \in Segments, NEW pseudo \in Nat
  PROVE  LET input == ChecksummedBytes(segment, pseudo)
         IN  /\ input \in Seq(Byte)
             /\ Len(input) = 20 + Len(segment.message.payload)
             /\ ParseSegment(input, pseudo) = [error |-> FALSE, segment |-> segment]
<1> DEFINE s == SegmentBytes(segment, 0)
           sum == Add(NewChecksum(pseudo), s).sum
           v == Complement(Fold(sum))
           t == SegmentBytes(segment, v)
<1>1. 0 \in Half
  BY Tops
<1>2. s \in Seq(Byte) /\ SegmentHeld(s, segment, 0)
  BY <1>1, SegmentCells
<1> HIDE DEF s
<1>3. sum \in Nat
  <2>1. PICK f : Totals(f, pseudo, s) /\ sum = f[Len(s)]
    BY <1>2, AddIs
  <2>2. Len(s) \in 0 .. Len(s)
    BY <1>2
  <2> QED
    BY <2>1, <2>2 DEF Totals
<1> HIDE DEF sum
<1>4. v \in Half
  BY <1>3, FoldType, Tops
<1>5. Value(Add(NewChecksum(pseudo), s)) = v
  BY <1>3, ValueIs DEF sum
<1>6. ChecksummedBytes(segment, pseudo) = t
  BY <1>5, Zenon DEF ChecksummedBytes, s
<1> HIDE DEF v
<1>7. t \in Seq(Byte) /\ SegmentHeld(t, segment, v)
  BY <1>4, SegmentCells
<1> HIDE DEF t
<1>8. Value(Add(NewChecksum(pseudo), t)) = 0
  <2>1. HoldsHalf(s, 16, 0) /\ HoldsHalf(t, 16, v)
    BY <1>2, <1>7 DEF SegmentHeld
  <2>2. /\ Len(s) = Len(t)
        /\ \A i \in 1 .. Len(s) : i # 17 /\ i # 18 => s[i] = t[i]
    BY <1>2, <1>7, SameBytes
  <2>3. Add(NewChecksum(pseudo), t).sum = sum + v
    BY <1>2, <1>4, <1>7, <2>1, <2>2, SumWith, Zenon DEF sum
  <2>4. sum + v \in Nat
    BY <1>3, <1>4, Tops
  <2>5. Value(Add(NewChecksum(pseudo), t)) = Complement(Fold(sum + v))
    BY <2>3, <2>4, ValueIs, Zenon
  <2>6. Fold(sum + v) = Top
    BY <1>3, Verifies DEF v
  <2>7. Complement(Top) = 0
    BY Tops
  <2> QED
    BY <2>5, <2>6, <2>7, Zenon
<1>9. /\ Len(t) = 20 + Len(segment.message.payload) /\ Len(segment.message.payload) \in Nat
      /\ t[13] = 80
  <2>1. segment.message.payload \in Seq(Byte)
    BY SegmentFields
  <2> QED
    BY <1>7, <2>1 DEF SegmentHeld, HoldsByte
<1>10. SegmentAt(t) = segment
  BY <1>4, <1>7, SegmentBack
<1>11. ~ (Len(t) < HEADER_LENGTH) /\ ~ (t[13] \div 16 < HEADER_LENGTH \div 4)
  BY <1>9 DEF HEADER_LENGTH
<1>12. ParseSegment(t, pseudo) = [error |-> FALSE, segment |-> segment]
  BY <1>8, <1>10, <1>11 DEF ParseSegment
<1> QED
  BY <1>6, <1>7, <1>9, <1>12

-----------------------------------------------------------------------------
(* A datagram *)

LEMMA StillHeader ==
  ASSUME NEW s \in Seq(Byte), NEW next, Follows(next, s), NEW h, HeaderHeld(s, h)
  PROVE  HeaderHeld(next, h)
<1>1. /\ 0 \in Nat /\ 1 \in Nat /\ 2 \in Nat /\ 4 \in Nat /\ 6 \in Nat /\ 8 \in Nat
      /\ 9 \in Nat /\ 10 \in Nat /\ 12 \in Nat /\ 16 \in Nat
  OBVIOUS
<1> QED
  BY <1>1, StillHolds, Zenon DEF HeaderHeld

LEMMA SumType ==
  ASSUME NEW base \in Nat, NEW data \in Seq(Byte)
  PROVE  Add(NewChecksum(base), data).sum \in Nat
<1>1. PICK f : Totals(f, base, data) /\ Add(NewChecksum(base), data).sum = f[Len(data)]
  BY AddIs
<1>2. Len(data) \in 0 .. Len(data)
  OBVIOUS
<1> QED
  BY <1>1, <1>2 DEF Totals

LEMMA Replaced ==
  ASSUME NEW h \in Header, NEW x \in Half, NEW y \in Half
  PROVE  /\ [h EXCEPT !.cksum = x] \in Header
         /\ [[h EXCEPT !.cksum = x] EXCEPT !.cksum = y] = [h EXCEPT !.cksum = y]
<1> DEFINE With(z) ==
             [ver |-> h.ver, hlen |-> h.hlen, tos |-> h.tos, len |-> h.len, id |-> h.id,
              df |-> h.df, mf |-> h.mf, offset |-> h.offset, ttl |-> h.ttl,
              proto |-> h.proto, cksum |-> z, src |-> h.src, dst |-> h.dst]
<1>1. \A z : [h EXCEPT !.cksum = z] = With(z)
  BY DEF Header
<1>2. [With(x) EXCEPT !.cksum = y] = With(y)
  OBVIOUS
<1>3. With(x) \in Header
  BY DEF Header
<1> HIDE DEF With
<1> QED
  BY <1>1, <1>2, <1>3, Zenon

\* The checksum of a header is that of the header without it.
LEMMA ChecksumKept ==
  ASSUME NEW h \in Header
  PROVE  /\ ComputeChecksum(h) \in Header
         /\ ComputeChecksum(ComputeChecksum(h)) = ComputeChecksum(h)
         /\ \E x \in Half : ComputeChecksum(h) = [h EXCEPT !.cksum = x]
<1> DEFINE zero == [h EXCEPT !.cksum = 0]
           x == Value(Add(NewChecksum(0), HeaderBytes(zero)))
           k == [h EXCEPT !.cksum = x]
<1>0. 0 \in Half
  BY Tops
<1>1. zero \in Header
  BY <1>0, Replaced
<1>2. x \in Half
  <2> HIDE DEF zero
  <2>1. HeaderBytes(zero) \in Seq(Byte)
    BY <1>1, HeaderCells
  <2>2. Add(NewChecksum(0), HeaderBytes(zero)).sum \in Nat
    BY <2>1, SumType, 0 \in Nat
  <2> QED
    BY <2>2, ValueType, Zenon
<1>3. ComputeChecksum(h) = k
  BY DEF ComputeChecksum
<1>4. [k EXCEPT !.cksum = 0] = zero
  <2> HIDE DEF x
  <2> QED
    BY <1>0, <1>2, Replaced
<1>5. ComputeChecksum(k) = [k EXCEPT !.cksum = x]
  BY <1>4, Zenon DEF ComputeChecksum
<1> HIDE DEF zero, x
<1>6. k \in Header /\ [k EXCEPT !.cksum = x] = k
  BY <1>2, Replaced
<1> QED
  BY <1>2, <1>3, <1>5, <1>6

\* A datagram that is as it should be.
Sound(h, payload) ==
  /\ h \in Header /\ h.ver = 4 /\ h.hlen = 5 /\ ComputeChecksum(h) = h
  /\ payload \in Seq(Byte) /\ h.len = 20 + Len(payload)

LEMMA HalfKept ==
  ASSUME NEW n \in Nat, 20 + n \in Half
  PROVE  ((20 + n) - 4 * 5) % 65536 = n
<1> DEFINE m == (20 + n) - 4 * 5
<1>1. 20 + n <= Top /\ Top \in Nat
  BY Tops
<1>2. m = n /\ n < Top + 1 /\ Top + 1 \in Nat \ {0} /\ n \in Int /\ 0 <= n
  BY <1>1
<1> HIDE DEF m
<1>3. n % (Top + 1) = n
  BY <1>2, ModSmall, Zenon
<1>4. Top + 1 = 65536
  BY DEF Top
<1> QED
  BY <1>2, <1>3, <1>4 DEF m

LEMMA LengthOfPayload ==
  ASSUME NEW h, NEW payload, Sound(h, payload)
  PROVE  PayloadLength(h) = Len(payload)
<1>1. Len(payload) \in Nat /\ h.len = 20 + Len(payload) /\ h.hlen = 5 /\ h.len \in Half
  BY DEF Sound, Header
<1>2. PayloadLength(h) = ((20 + Len(payload)) - 4 * 5) % 65536
  BY <1>1 DEF PayloadLength
<1> QED
  BY <1>1, <1>2, HalfKept

LEMMA TailBack ==
  ASSUME NEW s \in Seq(Byte), NEW p \in Seq(Byte), NEW k \in Nat,
         Len(s) = k + Len(p), \A i \in 1 .. Len(p) : s[k + i] = p[i]
  PROVE  RemovePrefix(s, k) = p /\ Truncate(p, Len(p)) = p
<1> DEFINE t == SubSeq(s, k + 1, Len(s))
<1>1. t \in Seq(Byte) /\ Len(t) = Len(p) /\ \A i \in 1 .. Len(p) : t[i] = p[i]
  OBVIOUS
<1> HIDE DEF t
<1>2. t = p
  BY <1>1, SeqEqual
<1>3. Truncate(p, Len(p)) = SubSeq(p, 1, Len(p))
  BY DEF Truncate
<1>4. SubSeq(p, 1, Len(p)) = p
  OBVIOUS
<1> QED
  BY <1>2, <1>3, <1>4 DEF RemovePrefix, t

LEMMA DatagramBack ==
  ASSUME NEW h, NEW payload, Sound(h, payload), NEW datagram,
         datagram.header = h, datagram.payload = payload
  PROVE  /\ DatagramBytes(datagram) \in Seq(Byte)
         /\ ParseDatagram(DatagramBytes(datagram))
               = [error |-> FALSE, header |-> h, payload |-> payload]
<1> DEFINE b == HeaderBytes(h)
           input == b \o payload
           n == Len(payload)
<1>1. h \in Header /\ payload \in Seq(Byte)
  BY DEF Sound
<1>2. b \in Seq(Byte) /\ Len(b) = 20 /\ HeaderHeld(b, h)
  BY <1>1, HeaderCells DEF HEADER_LENGTH
<1>3. DatagramBytes(datagram) = input
  BY DEF DatagramBytes
<1> HIDE DEF b
<1>4. /\ Follows(input, b) /\ Len(input) = 20 + n
      /\ \A i \in 1 .. n : input[20 + i] = payload[i]
  <2>1. /\ Follows(b \o payload, b) /\ Len(b \o payload) = Len(b) + Len(payload)
        /\ \A i \in 1 .. Len(payload) : (b \o payload)[Len(b) + i] = payload[i]
    BY <1>1, <1>2, Joined, Zenon
  <2> QED
    BY <1>2, <2>1
<1> HIDE DEF input
<1>5. input \in Seq(Byte) /\ n \in Nat
  BY <1>1, <1>4 DEF Follows
<1>6. HeaderHeld(input, h)
  BY <1>2, <1>4, StillHeader
<1>7. HeaderAt(input) = h
  BY <1>1, <1>5, <1>6, HeaderBack
<1>8. GoodHeader(h)
  BY DEF GoodHeader, Sound
<1>9. ~ (Len(input) < HEADER_LENGTH)
  BY <1>4, <1>5 DEF HEADER_LENGTH
<1>10. 4 * h.hlen = 20 /\ PayloadLength(h) = n
  BY LengthOfPayload DEF Sound
<1>11. Truncate(RemovePrefix(input, 20), n) = payload
  <2>1. 20 \in Nat
    OBVIOUS
  <2>2. RemovePrefix(input, 20) = payload /\ Truncate(payload, n) = payload
    BY <1>1, <1>4, <1>5, <2>1, TailBack, Zenon
  <2> QED
    BY <2>2
<1>12. ParseDatagram(input) = [error |-> FALSE, header |-> h, payload |-> payload]
  BY <1>7, <1>8, <1>9, <1>10, <1>11 DEF ParseDatagram
<1> QED
  BY <1>3, <1>5, <1>12

LEMMA SixBytes ==
  ASSUME NEW a \in [1 .. 6 -> Byte]
  PROVE  a \in Seq(Byte) /\ Len(a) = 6
<1>1. a \in Seq(Byte)
  BY SeqDef, 6 \in Nat, Zenon
<1>2. DOMAIN a = 1 .. Len(a) /\ Len(a) \in Nat /\ DOMAIN a = 1 .. 6
  BY <1>1, LenProperties
<1> DEFINE n == Len(a)
<1>3. 6 \in 1 .. n /\ 7 \notin 1 .. n /\ n \in Nat
  <2>1. 1 .. n = 1 .. 6
    BY <1>2
  <2>2. 6 \in 1 .. 6 /\ 7 \notin 1 .. 6
    OBVIOUS
  <2> QED
    BY <1>2, <2>1, <2>2, Zenon
<1>4. n = 6
  <2> HIDE DEF n
  <2> QED
    BY <1>3
<1> QED
  BY <1>1, <1>4

LEMMA FrameBack ==
  ASSUME NEW dst \in [1 .. 6 -> Byte], NEW src \in [1 .. 6 -> Byte], NEW payload \in Seq(Byte)
  PROVE  ParseFrame(FrameBytes([dst |-> dst, src |-> src, type |-> TYPE_IPv4, payload |-> payload]))
           = [error |-> FALSE,
              frame |-> [dst |-> dst, src |-> src, type |-> TYPE_IPv4, payload |-> payload]]
<1> DEFINE b1 == dst
           b2 == b1 \o src
           b3 == b2 \o Integer(TYPE_IPv4, 2)
           b4 == b3 \o payload
<1>1. FrameBytes([dst |-> dst, src |-> src, type |-> TYPE_IPv4, payload |-> payload]) = b4
  BY DEF FrameBytes
<1>2. dst \in Seq(Byte) /\ Len(dst) = 6 /\ src \in Seq(Byte) /\ Len(src) = 6
  BY SixBytes
<1>3. TYPE_IPv4 \in Half
  BY HalfIs DEF TYPE_IPv4
<1>4. b2 \in Seq(Byte) /\ Follows(b2, b1) /\ Len(b2) = 12 /\ \A i \in 1 .. 6 : b2[6 + i] = src[i]
  <2>1. /\ Follows(dst \o src, dst) /\ Len(dst \o src) = Len(dst) + Len(src)
        /\ \A i \in 1 .. Len(src) : (dst \o src)[Len(dst) + i] = src[i]
    BY <1>2, Joined, Zenon
  <2> QED
    BY <1>2, <2>1 DEF Follows
<1> HIDE DEF b2
<1>5. b3 \in Seq(Byte) /\ Follows(b3, b2) /\ Len(b3) = 14 /\ HoldsHalf(b3, 12, TYPE_IPv4)
  <2>1. b3 = b2 \o Integer(TYPE_IPv4, 2)
    OBVIOUS
  <2> HIDE DEF b3
  <2>2. /\ b3 \in Seq(Byte) /\ Follows(b3, b2) /\ Len(b3) = Len(b2) + 2
        /\ HoldsHalf(b3, Len(b2), TYPE_IPv4)
    BY <1>3, <1>4, <2>1, PutHalf, Zenon
  <2> QED
    BY <1>4, <2>2
<1> HIDE DEF b3
<1>6. /\ b4 \in Seq(Byte) /\ Follows(b4, b3) /\ Len(b4) = 14 + Len(payload)
      /\ \A i \in 1 .. Len(payload) : b4[14 + i] = payload[i]
  <2>1. b4 = b3 \o payload
    OBVIOUS
  <2> HIDE DEF b4
  <2>2. /\ Follows(b4, b3) /\ Len(b4) = Len(b3) + Len(payload)
        /\ \A i \in 1 .. Len(payload) : b4[Len(b3) + i] = payload[i]
    BY <1>5, <2>1, Joined, Zenon
  <2> QED
    BY <1>5, <2>2 DEF Follows
<1> HIDE DEF b4
<1>7. IntegerAt(b4, 12, 2) = TYPE_IPv4
  <2>1. 12 \in Nat
    OBVIOUS
  <2>2. HoldsHalf(b4, 12, TYPE_IPv4)
    BY <1>5, <1>6, <2>1, StillHolds, Zenon
  <2> QED
    BY <1>3, <1>6, <2>1, <2>2, HalfAt, Zenon
<1>8. SubSeq(b4, 1, 6) = dst /\ SubSeq(b4, 7, 12) = src
  <2>1. Follows(b4, b2)
    BY <1>4, <1>5, <1>6, FollowsOn, Zenon
  <2>2. Follows(b4, b1)
    BY <1>2, <1>4, <2>1, FollowsOn, Zenon
  <2>3. \A i \in 1 .. 6 : b4[i] = dst[i]
    BY <1>2, <2>2 DEF Follows
  <2>4. \A i \in 1 .. 6 : b4[6 + i] = src[i]
    BY <1>4, <2>1 DEF Follows
  <2>5. b4 \in Seq(Byte) /\ Len(b4) >= 14
    BY <1>6
  <2> DEFINE t == SubSeq(b4, 1, 6)
             u == SubSeq(b4, 7, 12)
  <2>6. t \in Seq(Byte) /\ Len(t) = 6 /\ \A i \in 1 .. 6 : t[i] = b4[i]
    BY <2>5
  <2>7. u \in Seq(Byte) /\ Len(u) = 6 /\ \A i \in 1 .. 6 : u[i] = b4[6 + i]
    BY <2>5
  <2> HIDE DEF t, u
  <2>8. t = dst
    <3>1. Len(t) = Len(dst) /\ \A i \in 1 .. Len(t) : t[i] = dst[i]
      BY <1>2, <2>3, <2>6
    <3> QED
      BY <1>2, <2>6, <3>1, SeqEqual, Zenon
  <2>9. u = src
    <3>1. Len(u) = Len(src) /\ \A i \in 1 .. Len(u) : u[i] = src[i]
      BY <1>2, <2>4, <2>7
    <3> QED
      BY <1>2, <2>7, <3>1, SeqEqual, Zenon
  <2> QED
    BY <2>8, <2>9 DEF t, u
<1>9. RemovePrefix(b4, 14) = payload
  BY <1>6, TailBack, 14 \in Nat, Zenon
<1>10. ~ (Len(b4) < 14)
  BY <1>6
<1> QED
  BY <1>1, <1>7, <1>8, <1>9, <1>10 DEF ParseFrame, ETHERNET_LENGTH

-----------------------------------------------------------------------------
(* The adapter *)

Modulo(x) == x % 65536

LEMMA HalfModulo ==
  ASSUME NEW x \in Int
  PROVE  Modulo(x) \in Half
<1>1. Top + 1 \in Nat \ {0} /\ Top = (Top + 1) - 1 /\ Half = 0 .. Top
  BY Tops
<1> DEFINE w == Top + 1
<1>2. w = 65536
  BY DEF Top
<1> HIDE DEF w
<1>3. x % w \in 0 .. w - 1
  BY <1>1, DivMod, Zenon DEF w
<1>4. x % w \in Half
  BY <1>1, <1>3, Zenon DEF w
<1> QED
  BY <1>2, <1>4, SMT DEF Modulo

LEMMA PseudoType ==
  ASSUME NEW h \in Header
  PROVE  /\ PseudoChecksum(h) \in Nat
         /\ \A k : /\ k.src = h.src /\ k.dst = h.dst /\ k.proto = h.proto
                   /\ k.len = h.len /\ k.hlen = h.hlen
                   => PseudoChecksum(k) = PseudoChecksum(h)
<1> DEFINE n == PayloadLength(h)
           a == h.src[1]
           b == h.src[2]
           c == h.dst[1]
           d == h.dst[2]
           p == h.proto
<1>1. /\ h.src \in Half \X Half /\ h.dst \in Half \X Half /\ h.proto \in Byte
      /\ h.len \in Half /\ h.hlen \in 0 .. 15
  BY DEF Header
<1>2. n \in Half
  <2> DEFINE x == h.len - 4 * h.hlen
  <2>1. x \in Int
    <3>1. h.len \in Nat
      BY <1>1, Tops, Zenon
    <3>2. h.hlen \in Nat
      BY <1>1
    <3> QED
      BY <3>1, <3>2
  <2>2. n = Modulo(x)
    BY DEF PayloadLength, Modulo
  <2> HIDE DEF x, n
  <2> QED
    BY <2>1, <2>2, HalfModulo, Zenon
<1>3. a \in Half /\ b \in Half /\ c \in Half /\ d \in Half /\ p \in Byte
  BY <1>1
<1>4. PseudoChecksum(h) = a + b + c + d + p + n
  BY DEF PseudoChecksum
<1>5. ASSUME NEW k, k.src = h.src, k.dst = h.dst, k.proto = h.proto, k.len = h.len, k.hlen = h.hlen
      PROVE  PseudoChecksum(k) = PseudoChecksum(h)
  <2>1. PayloadLength(k) = PayloadLength(h)
    BY <1>5 DEF PayloadLength
  <2> QED
    BY <1>5, <2>1, Zenon DEF PseudoChecksum
<1> HIDE DEF a, b, c, d, p, n
<1>6. a \in Nat /\ b \in Nat /\ c \in Nat /\ d \in Nat /\ n \in Nat /\ p \in Nat
  BY <1>2, <1>3, Tops DEF Byte
<1>7. PseudoChecksum(h) \in Nat
  BY <1>4, <1>6
<1> QED
  BY <1>5, <1>7

\* The bytes are a datagram from one end to another that carries a message.
Carries(input, from, to, message, ttl) ==
  /\ input \in Seq(Byte)
  /\ \E h, payload :
       /\ Sound(h, payload)
       /\ ParseDatagram(input) = [error |-> FALSE, header |-> h, payload |-> payload]
       /\ h.src = from.ip /\ h.dst = to.ip /\ h.proto = PROTO_TCP /\ h.ttl = ttl
       /\ ParseSegment(payload, PseudoChecksum(h))
            = [error |-> FALSE,
               segment |-> [src_port |-> from.port, dst_port |-> to.port, message |-> message]]

\* Its payload fits into a datagram.
Fits(message) ==
  message \in Messages /\ TotalLength(Len(message.payload)) = 40 + Len(message.payload)

LEMMA ChecksumFields ==
  ASSUME NEW h \in Header, NEW k, k = ComputeChecksum(h)
  PROVE  /\ k \in Header /\ ComputeChecksum(k) = k
         /\ k.ver = h.ver /\ k.hlen = h.hlen /\ k.len = h.len /\ k.src = h.src
         /\ k.dst = h.dst /\ k.proto = h.proto /\ k.ttl = h.ttl
<1>1. k \in Header /\ ComputeChecksum(k) = k
  BY ChecksumKept
<1>2. PICK x \in Half : k = [h EXCEPT !.cksum = x]
  BY ChecksumKept
<1> QED
  BY <1>1, <1>2 DEF Header

LEMMA WrapCarries ==
  ASSUME NEW a, a.source \in Endpoints, a.destination \in Endpoints,
         NEW message, Fits(message)
  PROVE  Carries(WrapTcpInIp(a, message), a.source, a.destination, message, DEFAULT_TTL)
<1> DEFINE from == a.source
           to == a.destination
           n == Len(message.payload)
           segment == [src_port |-> from.port, dst_port |-> to.port, message |-> message]
           h0 == [NewHeader EXCEPT !.src = from.ip, !.dst = to.ip, !.len = TotalLength(n)]
           h == ComputeChecksum(h0)
           payload == ChecksummedBytes(segment, PseudoChecksum(h0))
           datagram == [header |-> h, payload |-> payload]
<1>1. WrapTcpInIp(a, message) = DatagramBytes(datagram)
  BY Zenon DEF WrapTcpInIp
<1>2. /\ from.ip \in Half \X Half /\ from.port \in Half
      /\ to.ip \in Half \X Half /\ to.port \in Half
  BY DEF Endpoints
<1>3. message \in Messages /\ n \in Nat /\ TotalLength(n) = 40 + n
  BY DEF Fits, Messages
<1>4. TotalLength(n) \in Half
  <2> DEFINE x == HEADER_LENGTH + HEADER_LENGTH + n
  <2>1. x \in Int
    BY <1>3 DEF HEADER_LENGTH
  <2>2. TotalLength(n) = Modulo(x)
    BY DEF TotalLength, Modulo
  <2> HIDE DEF x, n
  <2> QED
    BY <2>1, <2>2, HalfModulo, Zenon
<1>5. h0 = [ver |-> 4, hlen |-> 5, tos |-> 0, len |-> TotalLength(n), id |-> 0, df |-> TRUE,
            mf |-> FALSE, offset |-> 0, ttl |-> DEFAULT_TTL, proto |-> PROTO_TCP, cksum |-> 0,
            src |-> from.ip, dst |-> to.ip]
  <2>1. HEADER_LENGTH \div 4 = 5
    BY DEF HEADER_LENGTH
  <2> DEFINE src == from.ip
             dst == to.ip
             len == TotalLength(n)
  <2> HIDE DEF src, dst, len
  <2>2. [NewHeader EXCEPT !.src = src, !.dst = dst, !.len = len]
          = [ver |-> 4, hlen |-> 5, tos |-> 0, len |-> len, id |-> 0, df |-> TRUE,
             mf |-> FALSE, offset |-> 0, ttl |-> DEFAULT_TTL, proto |-> PROTO_TCP, cksum |-> 0,
             src |-> src, dst |-> dst]
    <3> DEFINE no == FALSE
               yes == TRUE
               r(l, s, d) == [ver |-> 4, hlen |-> 5, tos |-> 0, len |-> l, id |-> 0, df |-> yes,
                              mf |-> no, offset |-> 0, ttl |-> DEFAULT_TTL, proto |-> PROTO_TCP,
                              cksum |-> 0, src |-> s, dst |-> d]
    <3>1. NewHeader = r(0, <<0, 0>>, <<0, 0>>)
      BY <2>1, Zenon DEF NewHeader
    <3> DEFINE n1 == [NewHeader EXCEPT !.src = src]
               n2 == [n1 EXCEPT !.dst = dst]
               n3 == [n2 EXCEPT !.len = len]
    <3>2. [NewHeader EXCEPT !.src = src, !.dst = dst, !.len = len] = n3
      OBVIOUS
    <3>3. r(len, src, dst)
            = [ver |-> 4, hlen |-> 5, tos |-> 0, len |-> len, id |-> 0, df |-> TRUE,
               mf |-> FALSE, offset |-> 0, ttl |-> DEFAULT_TTL, proto |-> PROTO_TCP,
               cksum |-> 0, src |-> src, dst |-> dst]
      BY Zenon
    <3> HIDE DEF no, yes
    <3>4. \A l, s, d : /\ [r(l, s, d) EXCEPT !.src = src] = r(l, src, d)
                       /\ [r(l, s, d) EXCEPT !.dst = dst] = r(l, s, dst)
                       /\ [r(l, s, d) EXCEPT !.len = len] = r(len, s, d)
      OBVIOUS
    <3> HIDE DEF r
    <3>5. n1 = r(0, src, <<0, 0>>)
      BY <3>1, <3>4
    <3> HIDE DEF n1
    <3>6. n2 = r(0, src, dst)
      BY <3>4, <3>5
    <3> HIDE DEF n2
    <3>7. n3 = r(len, src, dst)
      BY <3>4, <3>6
    <3> QED
      BY <3>2, <3>3, <3>7, Zenon
  <2> QED
    BY <2>2, Zenon DEF src, dst, len
<1>6. h0 \in Header
  <2>1. 0 \in Half /\ 0 \in Byte /\ DEFAULT_TTL \in Byte /\ PROTO_TCP \in Byte /\ 0 \in Eighths
    BY HalfIs, EighthsAre DEF Byte, PROTO_TCP, DEFAULT_TTL
  <2> HIDE DEF h0, from, to, n
  <2> QED
    BY <1>2, <1>4, <1>5, <2>1 DEF Header
<1>7. /\ h0.ver = 4 /\ h0.hlen = 5 /\ h0.len = 40 + n /\ h0.src = from.ip /\ h0.dst = to.ip
      /\ h0.proto = PROTO_TCP /\ h0.ttl = DEFAULT_TTL
  <2> HIDE DEF h0, from, to, n
  <2> QED
    BY <1>3, <1>5
<1>8. segment \in Segments
  BY <1>2, <1>3 DEF Segments
<1>9. segment.message.payload = message.payload
  OBVIOUS
<1> HIDE DEF h0, segment, from, to
<1>10. /\ h \in Header /\ ComputeChecksum(h) = h
       /\ h.ver = 4 /\ h.hlen = 5 /\ h.len = 40 + n /\ h.src = from.ip /\ h.dst = to.ip
       /\ h.proto = PROTO_TCP /\ h.ttl = DEFAULT_TTL
  BY <1>6, <1>7, ChecksumFields
<1>11. PseudoChecksum(h0) \in Nat /\ PseudoChecksum(h) = PseudoChecksum(h0)
  <2>1. /\ h.src = h0.src /\ h.dst = h0.dst /\ h.proto = h0.proto
        /\ h.len = h0.len /\ h.hlen = h0.hlen
    BY <1>7, <1>10
  <2> HIDE DEF h
  <2> QED
    BY <1>6, <2>1, PseudoType, Zenon
<1> HIDE DEF h
<1>12. /\ payload \in Seq(Byte) /\ Len(payload) = 20 + n
       /\ ParseSegment(payload, PseudoChecksum(h0)) = [error |-> FALSE, segment |-> segment]
  <2> HIDE DEF n
  <2> QED
    BY <1>8, <1>9, <1>11, SegmentParsed DEF n
<1> HIDE DEF payload
<1>13. Sound(h, payload)
  <2>1. h.len = 20 + Len(payload)
    BY <1>3, <1>10, <1>12
  <2> QED
    BY <1>10, <1>12, <2>1 DEF Sound
<1>14. /\ DatagramBytes(datagram) \in Seq(Byte)
       /\ ParseDatagram(DatagramBytes(datagram))
            = [error |-> FALSE, header |-> h, payload |-> payload]
  <2>1. datagram.header = h /\ datagram.payload = payload
    OBVIOUS
  <2> HIDE DEF datagram
  <2> QED
    BY <1>13, <2>1, DatagramBack
<1> HIDE DEF datagram
<1>15. ParseSegment(payload, PseudoChecksum(h))
         = [error |-> FALSE,
            segment |-> [src_port |-> from.port, dst_port |-> to.port, message |-> message]]
  BY <1>11, <1>12, Zenon DEF segment
<1>16. Carries(DatagramBytes(datagram), from, to, message, DEFAULT_TTL)
  BY <1>10, <1>13, <1>14, <1>15, Zenon DEF Carries
<1> QED
  BY <1>1, <1>16, Zenon DEF from, to

LEMMA Lowered ==
  ASSUME NEW h \in Header, NEW x \in Byte, NEW k, k = [h EXCEPT !.ttl = x]
  PROVE  /\ k \in Header /\ k.ver = h.ver /\ k.hlen = h.hlen /\ k.len = h.len
         /\ k.src = h.src /\ k.dst = h.dst /\ k.proto = h.proto /\ k.ttl = x
  BY DEF Header

\* A router changes the time to live and the checksum only.
LEMMA ForwardCarries ==
  ASSUME NEW input, NEW from, NEW to, NEW message, Carries(input, from, to, message, DEFAULT_TTL)
  PROVE  Carries(Forward(input), from, to, message, DEFAULT_TTL - 1)
<1>1. PICK h, payload :
        /\ Sound(h, payload)
        /\ ParseDatagram(input) = [error |-> FALSE, header |-> h, payload |-> payload]
        /\ h.src = from.ip /\ h.dst = to.ip /\ h.proto = PROTO_TCP /\ h.ttl = DEFAULT_TTL
        /\ ParseSegment(payload, PseudoChecksum(h))
             = [error |-> FALSE,
                segment |-> [src_port |-> from.port, dst_port |-> to.port, message |-> message]]
  BY Zenon DEF Carries
<1> DEFINE lower == [h EXCEPT !.ttl = h.ttl - 1]
           k == ComputeChecksum(lower)
           datagram == [error |-> FALSE, header |-> k, payload |-> payload]
<1>2. h \in Header /\ payload \in Seq(Byte) /\ h.ver = 4 /\ h.hlen = 5 /\ h.len = 20 + Len(payload)
  BY <1>1 DEF Sound
<1>3. /\ lower \in Header /\ lower.ver = 4 /\ lower.hlen = 5 /\ lower.len = h.len
      /\ lower.src = h.src /\ lower.dst = h.dst /\ lower.proto = h.proto
      /\ lower.ttl = DEFAULT_TTL - 1
  <2> DEFINE x == DEFAULT_TTL - 1
  <2>1. x \in Byte
    BY DEF Byte, DEFAULT_TTL
  <2>2. lower = [h EXCEPT !.ttl = x]
    BY <1>1
  <2> HIDE DEF x, lower
  <2> QED
    BY <1>2, <2>1, <2>2, Lowered DEF x
<1>4. Forward(input) = DatagramBytes(datagram)
  <2> DEFINE parsed == ParseDatagram(input)
  <2>1. parsed.header = h /\ parsed = [error |-> FALSE, header |-> h, payload |-> payload]
    BY <1>1
  <2>2. Forward(input) = DatagramBytes([parsed EXCEPT !.header = k])
    BY <2>1, Zenon DEF Forward
  <2> HIDE DEF k
  <2>3. \A e : [[error |-> e, header |-> h, payload |-> payload] EXCEPT !.header = k]
               = [error |-> e, header |-> k, payload |-> payload]
    OBVIOUS
  <2> HIDE DEF parsed
  <2> QED
    BY <2>1, <2>2, <2>3, Zenon
<1> HIDE DEF lower
<1>5. /\ k \in Header /\ ComputeChecksum(k) = k
      /\ k.ver = 4 /\ k.hlen = 5 /\ k.len = h.len /\ k.src = h.src /\ k.dst = h.dst
      /\ k.proto = h.proto /\ k.ttl = DEFAULT_TTL - 1
  BY <1>3, ChecksumFields
<1> HIDE DEF k
<1>6. PseudoChecksum(k) = PseudoChecksum(h)
  BY <1>2, <1>5, PseudoType, Zenon
<1>7. Sound(k, payload)
  BY <1>2, <1>5 DEF Sound
<1>8. /\ DatagramBytes(datagram) \in Seq(Byte)
      /\ ParseDatagram(DatagramBytes(datagram))
           = [error |-> FALSE, header |-> k, payload |-> payload]
  <2>1. datagram.header = k /\ datagram.payload = payload
    OBVIOUS
  <2> HIDE DEF datagram
  <2> QED
    BY <1>7, <2>1, DatagramBack
<1> HIDE DEF datagram
<1>9. /\ k.src = from.ip /\ k.dst = to.ip /\ k.proto = PROTO_TCP
      /\ ParseSegment(payload, PseudoChecksum(k))
           = [error |-> FALSE,
              segment |-> [src_port |-> from.port, dst_port |-> to.port, message |-> message]]
  BY <1>1, <1>5, <1>6, Zenon
<1>10. Carries(DatagramBytes(datagram), from, to, message, DEFAULT_TTL - 1)
  BY <1>5, <1>7, <1>8, <1>9, Zenon DEF Carries
<1> QED
  BY <1>4, <1>10, Zenon

LEMMA WayCarries ==
  ASSUME NEW a, a.source \in Endpoints, a.destination \in Endpoints,
         NEW message, Fits(message), NEW c
  PROVE  \E ttl : Carries(Forwards(c, WrapTcpInIp(a, message)), a.source, a.destination, message, ttl)
<1>1. Carries(WrapTcpInIp(a, message), a.source, a.destination, message, DEFAULT_TTL)
  BY WrapCarries
<1>2. Carries(Forward(WrapTcpInIp(a, message)), a.source, a.destination, message, DEFAULT_TTL - 1)
  BY <1>1, ForwardCarries
<1> QED
  BY <1>1, <1>2, Zenon DEF Forwards

Adapters == [source : Endpoints, destination : Endpoints, listening : BOOLEAN]

Yields(result, message) == ~ result.error /\ result.message = message

\* What a read makes of a message of "from" to "to": nothing, the connection a
\* listening adapter was waiting for, or the next message of its own.
Outcome(result, a, from, to, message) ==
  \/ result.error /\ result.adapter = a
  \/ /\ a.listening /\ ~ result.error /\ result.message = message
     /\ result.adapter = NewAdapter(to, from, FALSE)
  \/ /\ ~ a.listening /\ to = a.source /\ from = a.destination
     /\ ~ result.error /\ result.message = message /\ result.adapter = a

\* What the adapter makes of a datagram: nothing, a new connection, or a
\* segment of the connection it has.
LEMMA Unwraps ==
  ASSUME NEW a \in Adapters, NEW from \in Endpoints, NEW to \in Endpoints, NEW message, NEW ttl,
         NEW input, Carries(input, from, to, message, ttl)
  PROVE  /\ Outcome(ReadTun(a, input), a, from, to, message)
         /\ ~ a.listening /\ to = a.source /\ from = a.destination
              => Yields(ReadTun(a, input), message)
<1>1. PICK h, payload :
        /\ ParseDatagram(input) = [error |-> FALSE, header |-> h, payload |-> payload]
        /\ h.src = from.ip /\ h.dst = to.ip /\ h.proto = PROTO_TCP
        /\ ParseSegment(payload, PseudoChecksum(h))
             = [error |-> FALSE,
                segment |-> [src_port |-> from.port, dst_port |-> to.port, message |-> message]]
  BY Zenon DEF Carries
<1> DEFINE result == ReadTun(a, input)
           datagram == ParseDatagram(input)
           segment == [src_port |-> from.port, dst_port |-> to.port, message |-> message]
           parsed == ParseSegment(datagram.payload, PseudoChecksum(datagram.header))
           found == IF datagram.error THEN Failure ELSE SegmentFor(a, datagram)
           nothing == [adapter |-> a, error |-> TRUE]
           passed == [adapter |-> a, error |-> FALSE, message |-> found.segment.message]
           target == Target(a, datagram.header, found.segment)
           For == Related(a, h) /\ to.port = a.source.port
<1>2. datagram.error = FALSE /\ datagram.header = h /\ datagram.payload = payload
  <2> DEFINE d == [error |-> FALSE, header |-> h, payload |-> payload]
  <2>1. d.error = FALSE /\ d.header = h /\ d.payload = payload
    BY Zenon
  <2>2. datagram = d
    BY <1>1, Zenon
  <2> HIDE DEF d, datagram
  <2> QED
    BY <2>1, <2>2, Zenon
<1>3. parsed = [error |-> FALSE, segment |-> segment]
  BY <1>1, <1>2, Zenon
<1>4. parsed.error = FALSE /\ parsed.segment = segment
  <2> DEFINE p == [error |-> FALSE, segment |-> segment]
  <2>1. p.error = FALSE /\ p.segment = segment
    BY Zenon
  <2> HIDE DEF parsed
  <2>2. parsed = p
    BY <1>3, Zenon
  <2> HIDE DEF p
  <2> QED
    BY <2>1, <2>2, Zenon
<1>5. found = SegmentFor(a, datagram)
  BY <1>2, Zenon
<1>6. segment.dst_port = to.port /\ segment.src_port = from.port /\ segment.message = message
  BY Zenon
<1>7. found = IF For THEN parsed ELSE Failure
  <2>1. SegmentFor(a, datagram)
          = IF /\ Related(a, datagram.header) /\ datagram.header.proto = PROTO_TCP
               /\ ~ parsed.error /\ parsed.segment.dst_port = a.source.port
              THEN parsed ELSE Failure
    BY Zenon DEF SegmentFor
  <2> HIDE DEF datagram, parsed, found, segment
  <2> QED
    BY <1>1, <1>2, <1>4, <1>5, <1>6, <2>1, Zenon
<1>8. result = CASE found.error -> nothing
                 [] ~ found.error /\ a.listening ->
                      IF found.segment.message.SYN /\ ~ found.segment.message.RST
                        THEN [passed EXCEPT !.adapter = target] ELSE nothing
                 [] OTHER -> IF found.segment.src_port = a.destination.port THEN passed ELSE nothing
  BY Zenon DEF ReadTun, UnwrapTcpInIp
<1>9. nothing.error = TRUE /\ nothing.adapter = a
  BY Zenon
<1>10. ~ For => found.error = TRUE
  <2>1. Failure.error = TRUE
    BY Zenon DEF Failure
  <2> HIDE DEF found, parsed, For
  <2> QED
    BY <1>7, <2>1, Zenon
<1>11. For => found.error = FALSE /\ found.segment = segment
  <2> HIDE DEF found, parsed, For, segment
  <2> QED
    BY <1>4, <1>7, Zenon
<1>12. /\ passed.error = FALSE /\ passed.adapter = a /\ passed.message = found.segment.message
       /\ [passed EXCEPT !.adapter = target].error = FALSE
       /\ [passed EXCEPT !.adapter = target].adapter = target
       /\ [passed EXCEPT !.adapter = target].message = found.segment.message
  <2> DEFINE m == found.segment.message
  <2> HIDE DEF m, target
  <2>1. \A e : LET p == [adapter |-> a, error |-> e, message |-> m]
               IN  /\ p.error = e /\ p.adapter = a /\ p.message = m
                   /\ [p EXCEPT !.adapter = target].error = e
                   /\ [p EXCEPT !.adapter = target].adapter = target
                   /\ [p EXCEPT !.adapter = target].message = m
    OBVIOUS
  <2>2. passed = [adapter |-> a, error |-> FALSE, message |-> m]
    BY Zenon DEF m
  <2> HIDE DEF passed
  <2> QED
    BY <2>1, <2>2, Zenon DEF m
<1>13. For => target = NewAdapter(to, from, FALSE)
  <2> SUFFICES ASSUME For PROVE target = NewAdapter(to, from, FALSE)
    OBVIOUS
  <2>1. found.segment.src_port = from.port
    BY <1>6, <1>11
  <2>2. target = NewAdapter(Endpoint(to.ip, a.source.port), Endpoint(from.ip, from.port), FALSE)
    BY <1>1, <1>2, <2>1, Zenon DEF Target
  <2>3. from = Endpoint(from.ip, from.port) /\ to = Endpoint(to.ip, to.port)
    BY DEF Endpoints, Endpoint
  <2> QED
    BY <2>2, <2>3, Zenon
<1> DEFINE Mine == to = a.source /\ from = a.destination
           taken == [passed EXCEPT !.adapter = target]
<1>14. ~ a.listening /\ Mine => For
  BY <1>1, Zenon DEF Related
<1>15. For /\ ~ a.listening /\ from.port = a.destination.port => Mine
  <2> SUFFICES ASSUME For, ~ a.listening, from.port = a.destination.port PROVE Mine
    OBVIOUS
  <2>1. to.ip = a.source.ip /\ from.ip = a.destination.ip /\ to.port = a.source.port
    BY <1>1 DEF Related
  <2>2. a.source \in Endpoints /\ a.destination \in Endpoints
    BY DEF Adapters
  <2>3. \A x \in Endpoints, y \in Endpoints : x.ip = y.ip /\ x.port = y.port => x = y
    BY DEF Endpoints
  <2> QED
    BY <2>1, <2>2, <2>3
<1>16. a.listening \in BOOLEAN
  BY DEF Adapters
<1>17. Mine => from.port = a.destination.port
  BY Zenon
<1>18. For => to.port = a.source.port
  BY Zenon
<1> HIDE DEF result, found, nothing, passed, target, For, Mine, segment, taken
<1>19. CASE ~ For
  <2>1. result = nothing
    BY <1>8, <1>10, <1>19, Zenon
  <2> QED
    BY <1>9, <1>14, <1>19, <2>1, Zenon DEF Mine, result, Outcome, Yields
<1>20. CASE For /\ a.listening
  <2>1. result = taken \/ result = nothing
    BY <1>8, <1>11, <1>20, Zenon DEF taken
  <2>2. /\ taken.error = FALSE /\ taken.adapter = NewAdapter(to, from, FALSE)
        /\ taken.message = message
    BY <1>6, <1>11, <1>12, <1>13, <1>20, Zenon DEF taken
  <2> QED
    BY <1>9, <1>18, <1>20, <2>1, <2>2, Zenon DEF result, Outcome, Yields
<1>21. CASE For /\ ~ a.listening
  <2>1. result = IF from.port = a.destination.port THEN passed ELSE nothing
    BY <1>6, <1>8, <1>11, <1>21, Zenon
  <2>2. passed.error = FALSE /\ passed.adapter = a /\ passed.message = message
    BY <1>6, <1>11, <1>12, <1>21, Zenon
  <2>3. CASE from.port = a.destination.port
    BY <1>15, <1>21, <2>1, <2>2, <2>3, Zenon DEF Mine, result, Outcome, Yields
  <2>4. CASE from.port # a.destination.port
    BY <1>9, <1>17, <1>21, <2>1, <2>4, Zenon DEF Mine, result, Outcome, Yields
  <2> QED
    BY <2>3, <2>4, Zenon
<1> QED
  BY <1>19, <1>20, <1>21, Zenon

-----------------------------------------------------------------------------
(* The connection of this host *)

LEMMA RawIsLong == Raw \subseteq Long
<1> SUFFICES ASSUME NEW v \in Raw PROVE v \in Long
  OBVIOUS
<1> DEFINE top == SeqSpace - 1
           q == top \div 65536
           r == top % 65536
           p == v \div 65536
           t == v % 65536
<1>1. v \in Nat /\ top \in Nat /\ v <= top
  BY Widths DEF Raw
<1>2. q < 65536
  BY WireAssumption
<1> HIDE DEF top
<1>3. /\ q \in Int /\ top = 65536 * q + r
      /\ r \in Int /\ 0 <= r /\ r <= 65535
  BY <1>1, DivMod
<1>4. /\ p \in Int /\ v = 65536 * p + t
      /\ t \in Int /\ 0 <= t /\ t <= 65535
  BY <1>1, DivMod
<1> HIDE DEF p, q, r, t
<1>5. p < 65536
  BY <1>1, <1>2, <1>3, <1>4
<1> QED
  BY <1>1, <1>5 DEF Long, p

\* The receiver looks at nothing else in a segment.
LEMMA SameReceived ==
  ASSUME NEW n, NEW a, NEW b, a.seqno = b.seqno, a.SYN = b.SYN, a.payload = b.payload,
         a.FIN = b.FIN, a.RST = b.RST, Receive(n, a)
  PROVE  Receive(n, b)
<1>1. Ignores(a) <=> Ignores(b)
  BY DEF Ignores
<1>2. Bare(a) <=> Bare(b)
  BY DEF Bare
<1>3. AcceptSyn(a) => AcceptSyn(b)
  BY DEF AcceptSyn
<1>4. Count(n, a) => Count(n, b)
  BY DEF Count
<1> QED
  BY <1>1, <1>2, <1>3, <1>4 DEF Receive

LEMMA MessageType ==
  ASSUME NEW n \in Word, zero_point \in Raw, NEW shape \in Shape
  PROVE  /\ Fits(MessageNumbered(n, shape))
         /\ MessageNumbered(n, shape).seqno = Wrap(n, zero_point)
         /\ MessageNumbered(n, shape).SYN = (n = 0)
         /\ MessageNumbered(n, shape).payload = shape.payload
         /\ MessageNumbered(n, shape).FIN = shape.FIN
         /\ MessageNumbered(n, shape).RST = shape.RST
<1> DEFINE m == MessageNumbered(n, shape)
           payload == shape.payload
           ackno == IF n = 0 THEN NoSeqno ELSE zero_point
           rst == shape.RST \/ FALSE
           syn == n = 0
           fin == shape.FIN
           seqno == Wrap(n, zero_point)
<1>1. seqno \in Long
  <2>1. n \in Nat
    BY Widths DEF Word
  <2> QED
    BY <2>1, BaseOfWrap, RawIsLong
<1>2. ackno \in Long \cup {NoSeqno}
  BY RawIsLong
<1>3. payload \in Seq(Byte) /\ TotalLength(Len(payload)) = 40 + Len(payload)
  BY WireAssumption DEF HEADER_LENGTH
<1>4. m = [seqno |-> seqno, SYN |-> syn, payload |-> payload, FIN |-> fin,
           ackno |-> ackno, window_size |-> DEFAULT_CAPACITY, RST |-> rst]
  BY Zenon DEF MessageNumbered, Segment, Numbered
<1>5. /\ shape.FIN \in BOOLEAN /\ shape.RST \in BOOLEAN
  BY ShapeAssumption
<1>6. syn \in BOOLEAN /\ fin \in BOOLEAN /\ rst \in BOOLEAN /\ rst = shape.RST
  BY <1>5, Zenon
<1>7. DEFAULT_CAPACITY \in Half
  BY HalfIs DEF DEFAULT_CAPACITY
<1> HIDE DEF m, payload, ackno, rst, syn, fin, seqno
<1>8. /\ m \in Messages /\ m.payload = payload /\ m.seqno = seqno
      /\ m.SYN = syn /\ m.FIN = fin /\ m.RST = rst
  BY <1>1, <1>2, <1>3, <1>4, <1>6, <1>7 DEF Messages
<1> QED
  BY <1>3, <1>6, <1>8 DEF Fits, m, seqno, syn, fin, payload

LEMMA ReadLinkIs ==
  ASSUME NEW input \in Seq(Byte), link \in {"tun", "ethernet"}
  PROVE  ReadLink(IF link = "tun"
                    THEN input
                    ELSE FrameBytes([dst |-> OwnEthernet, src |-> RouterEthernet,
                                     type |-> TYPE_IPv4, payload |-> input]))
           = ReadTun(adapter, input)
<1> DEFINE frame == [dst |-> OwnEthernet, src |-> RouterEthernet,
                     type |-> TYPE_IPv4, payload |-> input]
           parsed == ParseFrame(FrameBytes(frame))
<1>1. OwnEthernet \in [1 .. 6 -> Byte] /\ RouterEthernet \in [1 .. 6 -> Byte]
  BY WireAssumption
<1>2. parsed = [error |-> FALSE, frame |-> frame]
  BY <1>1, FrameBack
<1>3. parsed.error = FALSE /\ parsed.frame = frame
  <2> DEFINE p == [error |-> FALSE, frame |-> frame]
  <2>1. p.error = FALSE /\ p.frame = frame
    BY Zenon
  <2> HIDE DEF parsed
  <2>2. parsed = p
    BY <1>2, Zenon
  <2> HIDE DEF p
  <2> QED
    BY <2>1, <2>2, Zenon
<1>4. frame.dst = OwnEthernet /\ frame.type = TYPE_IPv4 /\ frame.payload = input
  BY Zenon
<1>5. ReadFrame(adapter, OwnEthernet, FrameBytes(frame))
        = UnwrapTcpInIp(adapter, IF /\ ~ parsed.error
                                    /\ parsed.frame.dst \in {ETHERNET_BROADCAST, OwnEthernet}
                                    /\ parsed.frame.type = TYPE_IPv4
                                   THEN ParseDatagram(parsed.frame.payload) ELSE Failure)
  BY Zenon DEF ReadFrame
<1> HIDE DEF parsed, frame
<1>6. ReadFrame(adapter, OwnEthernet, FrameBytes(frame)) = ReadTun(adapter, input)
  BY <1>3, <1>4, <1>5, Zenon DEF ReadTun
<1>7. link = "tun" => ReadLink(input) = ReadTun(adapter, input)
  BY Zenon DEF ReadLink
<1>8. link # "tun" => ReadLink(FrameBytes(frame)) = ReadTun(adapter, input)
  BY <1>6, Zenon DEF ReadLink
<1> QED
  BY <1>7, <1>8, Zenon DEF frame

\* What a read does with a segment of a caller.
LEMMA Reads ==
  ASSUME NEW c \in Caller, NEW to \in Contact, NEW n \in Word, NEW shape \in Shape,
         adapter \in Adapters, zero_point \in Raw, link \in {"tun", "ethernet"}
  PROVE  LET message == MessageNumbered(n, shape)
         IN  Outcome(ReadLink(OnTheWay(c, to, message)), adapter, c, to, message)
<1> DEFINE message == MessageNumbered(n, shape)
           input == Forwards(c, WrapTcpInIp(NewAdapter(c, to, FALSE), message))
<1>1. c \in Endpoints /\ to \in Endpoints
  BY WireAssumption
<1>2. Fits(message)
  BY MessageType
<1>3. NewAdapter(c, to, FALSE).source = c /\ NewAdapter(c, to, FALSE).destination = to
  BY Zenon DEF NewAdapter
<1> HIDE DEF message
<1>4. PICK ttl : Carries(input, c, to, message, ttl)
  BY <1>1, <1>2, <1>3, WayCarries, Zenon
<1>5. input \in Seq(Byte)
  BY <1>4, Zenon DEF Carries
<1>6. OnTheWay(c, to, message)
        = IF link = "tun"
            THEN input
            ELSE FrameBytes([dst |-> OwnEthernet, src |-> RouterEthernet,
                             type |-> TYPE_IPv4, payload |-> input])
  BY Zenon DEF OnTheWay
<1> HIDE DEF input
<1>7. ReadLink(OnTheWay(c, to, message)) = ReadTun(adapter, input)
  BY <1>5, <1>6, ReadLinkIs, Zenon
<1>8. Outcome(ReadTun(adapter, input), adapter, c, to, message)
  BY <1>1, <1>4, Unwraps, Zenon
<1> QED
  BY <1>7, <1>8, Zenon DEF message

\* Nothing has reached the TCP peer while the adapter listens; then only what
\* its other end sent to its own.
WireInv ==
  /\ TrackInv
  /\ adapter \in Adapters
  /\ link \in {"tun", "ethernet"}
  /\ connection \subseteq (IF adapter.listening THEN {} ELSE {<<adapter.destination, adapter.source>>})

LEMMA WireStart == WireInit => WireInv
<1> SUFFICES ASSUME WireInit PROVE WireInv
  OBVIOUS
<1>1. TrackInv
  BY TrackingStart DEF WireInit
<1>2. Local \in Endpoints /\ Caller \subseteq Endpoints /\ AnyEndpoint \in Endpoints
  <2>1. 0 \in Half
    BY Tops
  <2> QED
    BY <2>1, WireAssumption DEF AnyEndpoint, Endpoint, Endpoints
<1>3. Endpoint(AnyEndpoint.ip, Local.port) \in Endpoints
  BY <1>2 DEF Endpoint, Endpoints
<1>4. \A x \in Endpoints, y \in Endpoints, b \in BOOLEAN : NewAdapter(x, y, b) \in Adapters
  BY DEF NewAdapter, Adapters
<1>5. adapter \in Adapters
  BY <1>2, <1>3, <1>4 DEF WireInit
<1> QED
  BY <1>1, <1>5 DEF WireInit, WireInv

\* Every step keeps the invariant, and is a step of the receiver's count.
LEMMA WireStep == WireInv /\ [WireNext]_wireVars => WireInv' /\ [Next]_vars
<1> SUFFICES ASSUME WireInv, [WireNext]_wireVars PROVE WireInv' /\ [Next]_vars
  OBVIOUS
<1>1. ASSUME NEW c \in Caller, NEW to \in Contact, NEW n \in Word, NEW shape \in Shape,
             Read(c, to, n, shape)
      PROVE  WireInv' /\ [Next]_vars
  <2> DEFINE message == MessageNumbered(n, shape)
             result == ReadLink(OnTheWay(c, to, message))
  <2>1. TrackInv /\ zero_point \in Raw /\ adapter \in Adapters /\ link \in {"tun", "ethernet"}
    BY DEF WireInv, TrackInv, TypeOK
  <2>2. \/ result.error /\ result.adapter = adapter
        \/ /\ adapter.listening /\ ~ result.error /\ result.message = message
           /\ result.adapter = NewAdapter(to, c, FALSE)
        \/ /\ ~ adapter.listening /\ to = adapter.source /\ c = adapter.destination
           /\ ~ result.error /\ result.message = message /\ result.adapter = adapter
    <3>1. Outcome(result, adapter, c, to, message)
      BY <2>1, Reads, Zenon
    <3> HIDE DEF result, message
    <3> QED
      BY <3>1, Zenon DEF Outcome
  <2>3. LET m == Numbered(n, shape)
        IN  /\ message.seqno = m.seqno /\ message.SYN = m.SYN /\ message.payload = m.payload
            /\ message.FIN = m.FIN /\ message.RST = m.RST
    <3>1. /\ message.seqno = Wrap(n, zero_point) /\ message.SYN = (n = 0)
          /\ message.payload = shape.payload /\ message.FIN = shape.FIN
          /\ message.RST = shape.RST
      BY <2>1, MessageType
    <3> HIDE DEF message
    <3> QED
      BY <3>1, Zenon DEF Numbered
  <2>4. /\ adapter' = result.adapter /\ link' = link
        /\ \/ /\ ~ result.error /\ connection' = connection \cup {<<c, to>>}
              /\ Receive(n, result.message)
           \/ UNCHANGED vars /\ connection' = connection
    BY <1>1 DEF Read
  <2> HIDE DEF message, result
  <2>5. [Next]_vars
    <3>1. CASE UNCHANGED vars
      BY <3>1
    <3>2. CASE ~ result.error /\ Receive(n, result.message)
      <4>1. result.message = message
        BY <2>2, <3>2
      <4>2. Receive(n, message)
        BY <3>2, <4>1
      <4>3. Receive(n, Numbered(n, shape))
        BY <2>3, <4>2, SameReceived
      <4> QED
        BY <4>3 DEF Next
    <3> QED
      BY <2>4, <3>1, <3>2
  <2>6. TrackInv'
    BY <2>1, <2>5, TrackingStep
  <2>7. NewAdapter(to, c, FALSE) \in Adapters
    <3>1. to \in Endpoints /\ c \in Endpoints
      BY WireAssumption
    <3> QED
      BY <3>1 DEF NewAdapter, Adapters
  <2>8. adapter' \in Adapters
    BY <2>1, <2>2, <2>4, <2>7
  <2>9. connection \subseteq IF adapter.listening THEN {} ELSE {<<adapter.destination, adapter.source>>}
    BY DEF WireInv
  <2>10. connection'
           \subseteq IF adapter'.listening THEN {} ELSE {<<adapter'.destination, adapter'.source>>}
    <3> DEFINE target == NewAdapter(to, c, FALSE)
    <3>1. target.listening = FALSE /\ target.source = to /\ target.destination = c
      BY Zenon DEF NewAdapter
    <3> HIDE DEF target
    <3>2. CASE adapter' = adapter
      <4>1. ~ result.error => ~ adapter.listening /\ to = adapter.source /\ c = adapter.destination
        <5>1. target.listening # adapter.listening \/ ~ adapter.listening
          BY <3>1
        <5> QED
          BY <2>2, <2>4, <3>2, <5>1 DEF target
      <4> QED
        BY <2>4, <2>9, <3>2, <4>1
    <3>3. CASE adapter' # adapter
      <4>1. adapter' = target /\ adapter.listening
        BY <2>2, <2>4, <3>3 DEF target
      <4>2. connection = {}
        BY <2>9, <4>1
      <4> QED
        BY <2>4, <3>1, <4>1, <4>2
    <3> QED
      BY <3>2, <3>3
  <2>11. link' \in {"tun", "ethernet"}
    BY <2>1, <2>4
  <2> QED
    BY <2>5, <2>6, <2>8, <2>10, <2>11 DEF WireInv
<1>2. CASE UNCHANGED wireVars
  <2>1. UNCHANGED vars
    BY <1>2 DEF wireVars, vars
  <2> QED
    <3>1. TrackInv'
      BY <2>1, TrackingStep DEF WireInv
    <3> QED
      BY <1>2, <2>1, <3>1 DEF WireInv, wireVars
<1> QED
  BY <1>1, <1>2 DEF WireNext

LEMMA WireInvariant == WireSpec => []WireInv
<1> QED
  BY WireStart, WireStep, PTL DEF WireSpec

\* The way through datagrams, frames and a router changes no sequence number:
\* seen from the receiver's count, it is a stream of segments.
THEOREM WireTracks == WireSpec => Spec
<1>1. WireInit => Init
  BY DEF WireInit
<1> QED
  BY <1>1, WireInvariant, WireStep, PTL DEF WireSpec, Spec

\* The receiver does not lose count of what comes off the wire either.
THEOREM WireInStep == WireSpec => []InStep
  BY WireTracks, TrackingInStep, PTL

\* And what it unwraps there is the closest to its checkpoint, as wrapping
\* integers are defined.
THEOREM WireClosest == WireSpec => []UnwrapIsClosest
  BY WireTracks, TrackingClosest, PTL

\* All that reaches the TCP peer is of one connection, whatever the addresses
\* and the payload are.
THEOREM WireOneConnection == WireSpec => []OneConnection
<1>1. WireInv => OneConnection
  <2> SUFFICES ASSUME WireInv PROVE Cardinality(connection) <= 1
    BY DEF OneConnection
  <2> DEFINE p == <<adapter.destination, adapter.source>>
  <2>1. connection = {} \/ connection = {p}
    BY DEF WireInv
  <2>2. Cardinality({}) = 0 /\ Cardinality({p}) = 1
    BY FS_EmptySet, FS_Singleton
  <2> HIDE DEF p
  <2> QED
    BY <2>1, <2>2
<1> QED
  BY <1>1, WireInvariant, PTL

\* What this host answers is accepted by the caller and is what was said.
THEOREM WireAnswers == WireSpec => []AnswersReachCaller
<1>1. WireInv => AnswersReachCaller
  <2> SUFFICES ASSUME WireInv, NEW pair \in connection, NEW n \in {0, sent.number}, NEW shape \in Shape
               PROVE  LET answer == MessageNumbered(n, shape)
                          result == ReadTun(NewAdapter(pair[1], pair[2], FALSE),
                                            Forwards(pair[1], WrapTcpInIp(adapter, answer)))
                      IN  ~ result.error /\ result.message = answer
    BY DEF AnswersReachCaller
  <2> DEFINE answer == MessageNumbered(n, shape)
             caller == NewAdapter(pair[1], pair[2], FALSE)
             input == Forwards(pair[1], WrapTcpInIp(adapter, answer))
  <2>1. adapter.source \in Endpoints /\ adapter.destination \in Endpoints
    BY DEF WireInv, Adapters
  <2>2. pair[1] = adapter.destination /\ pair[2] = adapter.source
    BY DEF WireInv
  <2>3. n \in Word /\ zero_point \in Raw
    <3>1. 0 \in Word
      BY Widths DEF Word
    <3> QED
      BY <3>1 DEF WireInv, TrackInv, TypeOK
  <2>4. Fits(answer)
    BY <2>3, MessageType
  <2>5. PICK ttl : Carries(input, adapter.source, adapter.destination, answer, ttl)
    BY <2>1, <2>4, WayCarries
  <2>6. /\ caller \in Adapters /\ ~ caller.listening
        /\ adapter.destination = caller.source /\ adapter.source = caller.destination
    BY <2>1, <2>2 DEF NewAdapter, Adapters
  <2> HIDE DEF caller, input, answer
  <2>7. Yields(ReadTun(caller, input), answer)
    BY <2>1, <2>5, <2>6, Unwraps, Zenon
  <2> QED
    BY <2>7, Zenon DEF Yields, caller, input, answer
<1> QED
  BY <1>1, WireInvariant, PTL
=============================================================================
