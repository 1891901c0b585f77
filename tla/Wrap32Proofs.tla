---------------------------- MODULE Wrap32Proofs ----------------------------
(***************************************************************************)
(* What Wrap32::wrap and Wrap32::unwrap promise, proved for all widths.     *)
(***************************************************************************)
EXTENDS Wrap32, TLAPS

\* Facts on division that every lemma below rests on.
LEMMA DivMod ==
  ASSUME NEW a \in Int, NEW w \in Nat \ {0}
  PROVE  /\ a \div w \in Int
         /\ a % w \in 0 .. w - 1
         /\ a = w * (a \div w) + (a % w)
  BY SMT

LEMMA ModSmall ==
  ASSUME NEW w \in Nat \ {0}, NEW a \in Int, 0 <= a, a < w
  PROVE  a % w = a
  BY SMT

LEMMA ModShift ==
  ASSUME NEW w \in Nat \ {0}, NEW a \in Int, w <= a, a < w + w
  PROVE  a % w = a - w
  BY SMT

LEMMA ModNegative ==
  ASSUME NEW w \in Nat \ {0}, NEW a \in Int, -w <= a, a < 0
  PROVE  a % w = a + w
  BY SMT

LEMMA DivUnique ==
  ASSUME NEW w \in Nat \ {0}, NEW q \in Int, NEW a \in Int,
         w * q <= a, a < w * q + w
  PROVE  a \div w = q
  BY SMT

LEMMA Widths ==
  /\ SeqSpace \in Nat \ {0, 1}
  /\ WordSpace \in Nat \ {0}
  /\ WordSpace >= 2 * SeqSpace
  BY WidthAssumption, SMT

\* Unwrapping first removes the zero point that wrapping added.
LEMMA BaseOfWrap ==
  ASSUME NEW n \in Nat, NEW zero \in Raw
  PROVE  Wrap(n, zero) \in Raw /\ Base(Wrap(n, zero), zero) = n % SeqSpace
<1> DEFINE r == n % SeqSpace
<1>1. r \in Int /\ 0 <= r /\ r < SeqSpace
  BY DivMod, Widths
<1>2. zero \in Int /\ 0 <= zero /\ zero < SeqSpace
  BY Widths DEF Raw
<1> DEFINE sum == r + zero
           back == (sum % SeqSpace) + (SeqSpace - zero)
<1>3. Wrap(n, zero) = sum % SeqSpace /\ Base(Wrap(n, zero), zero) = back % SeqSpace
  BY DEF Wrap, Base
<1>4. sum \in Int /\ 0 <= sum /\ sum < SeqSpace + SeqSpace
  BY <1>1, <1>2, Widths
<1>5. CASE sum < SeqSpace
  <2>1. sum % SeqSpace = sum
    <3> HIDE DEF sum
    <3> QED BY <1>4, <1>5, Widths, ModSmall
  <2>2. back = r + SeqSpace
    BY <1>1, <1>2, <2>1, Widths
  <2>3. back % SeqSpace = back - SeqSpace
    <3>1. back \in Int /\ SeqSpace <= back /\ back < SeqSpace + SeqSpace
      BY <1>1, <2>2, Widths
    <3> HIDE DEF back
    <3> QED BY <3>1, Widths, ModShift
  <2> HIDE DEF r, back
  <2> QED
    BY <1>1, <1>3, <1>4, <1>5, <2>1, <2>2, <2>3, Widths DEF Raw, r
<1>6. CASE sum >= SeqSpace
  <2>1. sum % SeqSpace = sum - SeqSpace
    <3> HIDE DEF sum
    <3> QED BY <1>4, <1>6, Widths, ModShift
  <2>2. back = r
    BY <1>1, <1>2, <2>1, Widths
  <2>3. back % SeqSpace = back
    BY <1>1, <2>2, Widths, ModSmall
  <2> HIDE DEF r, back
  <2> QED
    BY <1>1, <1>3, <1>4, <1>6, <2>1, <2>2, <2>3, Widths DEF Raw, r
<1> QED
  BY <1>4, <1>5, <1>6, Widths

LEMMA BaseInRaw ==
  ASSUME NEW raw \in Raw, NEW zero \in Raw
  PROVE  Base(raw, zero) \in Raw
<1> DEFINE x == raw + (SeqSpace - zero)
<1>1. x \in Int
  BY Widths DEF Raw
<1>2. x % SeqSpace \in 0 .. SeqSpace - 1
  <2> HIDE DEF x
  <2> QED BY <1>1, DivMod, Widths
<1> QED
  BY <1>2 DEF Base, Raw

\* A raw number is recovered from its base.
LEMMA WrapOfBase ==
  ASSUME NEW m \in Nat, NEW raw \in Raw, NEW zero \in Raw, m % SeqSpace = Base(raw, zero)
  PROVE  Wrap(m, zero) = raw
<1> DEFINE x == raw + (SeqSpace - zero)
           y == (m % SeqSpace) + zero
<1>1. x \in Int /\ 0 <= x /\ x < SeqSpace + SeqSpace
      /\ raw \in Int /\ 0 <= raw /\ raw < SeqSpace
      /\ zero \in Int /\ 0 <= zero /\ zero < SeqSpace
  BY Widths DEF Raw
<1>2. m % SeqSpace = x % SeqSpace /\ Wrap(m, zero) = y % SeqSpace
  BY DEF Base, Wrap
<1>3. CASE x < SeqSpace
  <2>1. x % SeqSpace = x
    <3> HIDE DEF x
    <3> QED BY <1>1, <1>3, Widths, ModSmall
  <2>2. y = raw + SeqSpace
    BY <1>1, <1>2, <2>1, Widths
  <2> HIDE DEF y
  <2>3. y % SeqSpace = y - SeqSpace
    <3>1. y \in Int /\ SeqSpace <= y /\ y < SeqSpace + SeqSpace
      BY <1>1, <2>2, Widths
    <3> QED BY <3>1, Widths, ModShift
  <2> QED
    BY <1>1, <1>2, <2>2, <2>3, Widths
<1>4. CASE x >= SeqSpace
  <2>1. x % SeqSpace = x - SeqSpace
    <3> HIDE DEF x
    <3> QED BY <1>1, <1>4, Widths, ModShift
  <2>2. y = raw
    BY <1>1, <1>2, <2>1, Widths
  <2>3. y % SeqSpace = y
    BY <1>1, <2>2, Widths, ModSmall
  <2> QED
    BY <1>2, <2>2, <2>3
<1> QED
  BY <1>1, <1>3, <1>4, Widths

\* The candidate below the checkpoint, in the usual case.
LEMMA BeforeCase ==
  ASSUME NEW base \in Raw, NEW cp \in Word, cp >= base
  PROVE  \E d \in Nat :
            /\ BeforeCheckpoint(base, cp) = base + d * SeqSpace
            /\ base + d * SeqSpace <= cp
            /\ cp < base + d * SeqSpace + SeqSpace
<1> DEFINE e == cp - base
           d == e \div SeqSpace
<1>0. e \in Int /\ 0 <= e /\ e < WordSpace
  BY Widths DEF Raw, Word
<1>1. U64(e) = e
  BY <1>0, Widths, ModSmall DEF U64
<1>2. d \in Int /\ e = SeqSpace * d + (e % SeqSpace) /\ e % SeqSpace \in 0 .. SeqSpace - 1
  <2> HIDE DEF e
  <2>1. SeqSpace \in Nat \ {0}
    BY Widths
  <2> QED BY ONLY <1>0, <2>1, DivMod
<1>3. d \in Nat
  BY <1>2, Widths, SMT DEF Raw, Word
<1>4. d * SeqSpace \in Nat /\ d * SeqSpace = SeqSpace * d
  BY <1>3, Widths, SMT
<1>5. base + d * SeqSpace <= cp /\ cp < base + d * SeqSpace + SeqSpace
  BY <1>2, <1>4, Widths, SMT DEF Raw, Word
<1>6. (base + d * SeqSpace) % WordSpace = base + d * SeqSpace
  BY <1>4, <1>5, Widths, SMT DEF Raw, Word
<1> QED
  BY <1>1, <1>3, <1>5, <1>6 DEF BeforeCheckpoint, U64

\* When the checkpoint is below base, the 64-bit arithmetic wraps round: the
\* lower candidate is the largest word of the class and its successor is base.
LEMMA WrapAroundCase ==
  ASSUME NEW base \in Raw, NEW cp \in Word, cp < base
  PROVE  /\ BeforeCheckpoint(base, cp) = base + (WordSpace - SeqSpace)
         /\ U64(BeforeCheckpoint(base, cp) + SeqSpace) = base
<1> DEFINE k == WordSpace \div SeqSpace
<1>1. k \in Int /\ WordSpace = SeqSpace * k
  BY DivMod, WidthAssumption
<1> HIDE DEF k
<1> DEFINE e == cp - base
           x == e + WordSpace
<1>2. e \in Int /\ -SeqSpace < e /\ e < 0
  BY Widths DEF Raw, Word
<1>3. U64(e) = x
  <2> HIDE DEF e
  <2> QED BY <1>2, Widths, ModNegative DEF U64
<1>4. x \div SeqSpace = k - 1
  <2>1. SeqSpace * (k - 1) = WordSpace - SeqSpace
    BY <1>1, Widths, SMT
  <2>2. SeqSpace * (k - 1) <= x /\ x < SeqSpace * (k - 1) + SeqSpace /\ x \in Int /\ k - 1 \in Int
    BY <1>1, <1>2, <2>1, Widths
  <2> HIDE DEF x
  <2> QED BY <2>2, Widths, DivUnique
<1>5. (x \div SeqSpace) * SeqSpace = WordSpace - SeqSpace
  BY <1>1, <1>4, Widths, SMT
<1> DEFINE top == base + (WordSpace - SeqSpace)
<1>6. top \in Int /\ 0 <= top /\ top < WordSpace /\ top + SeqSpace = base + WordSpace
      /\ base \in Int /\ 0 <= base /\ base < WordSpace
  BY Widths DEF Raw
<1>7. U64(top) = top
  <2> HIDE DEF top
  <2> QED BY <1>6, Widths, ModSmall DEF U64
<1>8. BeforeCheckpoint(base, cp) = top
  BY <1>3, <1>5, <1>7 DEF BeforeCheckpoint
<1>9. U64(top + SeqSpace) = base
  <2> DEFINE next == top + SeqSpace
  <2>1. next = base + WordSpace /\ WordSpace <= next /\ next < WordSpace + WordSpace /\ next \in Int
    BY <1>6, Widths
  <2>2. U64(next) = base
    <3> HIDE DEF next
    <3>1. next % WordSpace = next - WordSpace
      BY <2>1, Widths, ModShift
    <3> QED BY <2>1, <3>1, <1>6, Widths DEF U64
  <2> QED BY <2>2
<1> QED
  BY <1>8, <1>9

\* Two words with the same raw number differ by a multiple of SeqSpace.
LEMMA SameClass ==
  ASSUME NEW m \in Nat, NEW base \in Raw, m % SeqSpace = base
  PROVE  \E q \in Nat : m = base + q * SeqSpace
<1> DEFINE q == m \div SeqSpace
<1>1. q \in Int /\ m = SeqSpace * q + base
  BY DivMod, Widths
<1> HIDE DEF q
<1>2. q \in Nat
  BY <1>1, Widths, SMT DEF Raw
<1>3. m = base + q * SeqSpace
  BY <1>1, <1>2, Widths, SMT DEF Raw
<1> QED
  BY <1>2, <1>3

LEMMA ClassMember ==
  ASSUME NEW q \in Nat, NEW base \in Raw
  PROVE  (base + q * SeqSpace) % SeqSpace = base
  BY Widths, SMT DEF Raw

\* Multiples of SeqSpace are ordered like their factors.
LEMMA Multiples ==
  ASSUME NEW p \in Nat, NEW q \in Nat
  PROVE  /\ p * SeqSpace \in Nat /\ q * SeqSpace \in Nat
         /\ p <= q => p * SeqSpace <= q * SeqSpace
         /\ p > q  => p * SeqSpace >= q * SeqSpace + SeqSpace
  BY Widths, SMT

\* Wrap32::unwrap returns the absolute sequence number of its class that is
\* closest to the checkpoint (wrapping_integers.hh:19-25).
THEOREM UnwrapClosest ==
  ASSUME NEW raw \in Raw, NEW zero \in Raw, NEW cp \in Word, NEW m \in Word,
         m % SeqSpace = Base(raw, zero)
  PROVE  /\ Unwrap(raw, zero, cp) \in Word
         /\ \E q \in Nat : Unwrap(raw, zero, cp) = Base(raw, zero) + q * SeqSpace
         /\ AbsDiff(cp, Unwrap(raw, zero, cp)) <= AbsDiff(cp, m)
<1> DEFINE base   == Base(raw, zero)
           before == BeforeCheckpoint(base, cp)
           after  == U64(before + SeqSpace)
<1>1. Unwrap(raw, zero, cp) = IF AbsDiff(cp, before) > AbsDiff(cp, after) THEN after ELSE before
  BY DEF Unwrap
<1>2. base \in Raw /\ m \in Nat
  BY BaseInRaw, Widths DEF Word
<1> HIDE DEF base
<1>3. PICK q \in Nat : m = base + q * SeqSpace
  BY <1>2, SameClass DEF base
<1>4. CASE cp >= base
  <2>1. PICK d \in Nat : /\ before = base + d * SeqSpace
                         /\ base + d * SeqSpace <= cp
                         /\ cp < base + d * SeqSpace + SeqSpace
    BY <1>2, <1>4, BeforeCase
  <2> HIDE DEF before
  <2>2. d * SeqSpace \in Nat /\ q * SeqSpace \in Nat
    BY Multiples
  <2>3. before \in Word
    BY <1>2, <2>1, <2>2, Widths DEF Raw, Word
  <2>4. CASE before + SeqSpace < WordSpace
    <3>1. after = before + SeqSpace /\ after \in Word
      <4> DEFINE next == before + SeqSpace
      <4>1. next \in Int /\ 0 <= next /\ next < WordSpace
        BY <2>3, <2>4, Widths DEF Word
      <4>2. next % WordSpace = next
        <5> HIDE DEF next
        <5> QED BY <4>1, Widths, ModSmall
      <4>3. after = next
        BY <4>2 DEF U64
      <4> QED
        BY <4>1, <4>3, Widths DEF Word
    <3>2. after = base + (d + 1) * SeqSpace
      BY <1>2, <2>1, <2>2, <3>1, Widths, SMT DEF Raw
    <3>3. m <= before \/ m >= after
      <4>1. CASE q <= d
        BY <1>2, <1>3, <2>1, <2>2, <4>1, Multiples, Widths DEF Raw
      <4>2. CASE q > d
        BY <1>2, <1>3, <2>1, <2>2, <3>1, <4>2, Multiples, Widths DEF Raw
      <4> QED
        BY <4>1, <4>2
    <3> HIDE DEF after
    <3>4. AbsDiff(cp, before) <= AbsDiff(cp, m) \/ AbsDiff(cp, after) <= AbsDiff(cp, m)
      BY <1>2, <2>1, <2>3, <3>1, <3>3, Widths DEF AbsDiff, Word
    <3>5. AbsDiff(cp, before) \in Int /\ AbsDiff(cp, after) \in Int /\ AbsDiff(cp, m) \in Int
      BY <1>2, <2>3, <3>1, Widths DEF AbsDiff, Word
    <3>6. /\ Unwrap(raw, zero, cp) \in Word
          /\ \E k \in Nat : Unwrap(raw, zero, cp) = base + k * SeqSpace
      <4>1. d + 1 \in Nat
        OBVIOUS
      <4> QED
        BY <1>1, <2>1, <2>3, <3>1, <3>2, <4>1
    <3> QED
      BY <1>1, <3>4, <3>5, <3>6 DEF base
  <2>5. CASE before + SeqSpace >= WordSpace
    <3>1. after = before + SeqSpace - WordSpace
      <4> DEFINE next == before + SeqSpace
      <4>1. next \in Int /\ WordSpace <= next /\ next < WordSpace + WordSpace
        BY <2>3, <2>5, Widths DEF Word
      <4>2. next % WordSpace = next - WordSpace
        <5> HIDE DEF next
        <5> QED BY <4>1, Widths, ModShift
      <4>3. after = next - WordSpace
        BY <4>2 DEF U64
      <4> QED
        BY <2>3, <4>3, Widths DEF Word
    <3> HIDE DEF after
    <3>2. AbsDiff(cp, before) <= AbsDiff(cp, after)
      BY <2>1, <2>3, <2>5, <3>1, Widths DEF AbsDiff, Word
    <3>3. Unwrap(raw, zero, cp) = before
      <4>1. AbsDiff(cp, before) \in Int /\ AbsDiff(cp, after) \in Int
        BY <2>3, <3>1, Widths DEF AbsDiff, Word
      <4> QED
        BY <1>1, <3>2, <4>1
    <3>4. m <= before
      <4>1. CASE q <= d
        BY <1>2, <1>3, <2>1, <2>2, <4>1, Multiples, Widths DEF Raw
      <4>2. CASE q > d
        BY <1>2, <1>3, <2>1, <2>2, <2>5, <4>2, Multiples, Widths DEF Raw, Word
      <4> QED
        BY <4>1, <4>2
    <3>5. AbsDiff(cp, before) <= AbsDiff(cp, m)
      BY <1>2, <2>1, <2>3, <3>4, Widths DEF AbsDiff, Word
    <3> QED
      BY <2>1, <2>3, <3>3, <3>5 DEF base
  <2> QED
    BY <2>3, <2>4, <2>5, Widths DEF Word
<1>5. CASE cp < base
  <2>1. before = base + (WordSpace - SeqSpace) /\ after = base
    BY <1>2, <1>5, WrapAroundCase
  <2> HIDE DEF before, after
  <2>2. AbsDiff(cp, before) > AbsDiff(cp, after)
    BY <1>2, <1>5, <2>1, Widths DEF AbsDiff, Raw, Word
  <2>3. Unwrap(raw, zero, cp) = base
    BY <1>1, <2>1, <2>2
  <2>4. q * SeqSpace \in Nat /\ base \in Word /\ base = base + 0 * SeqSpace
    BY <1>2, Multiples, Widths, SMT DEF Raw, Word
  <2>5. AbsDiff(cp, base) <= AbsDiff(cp, m)
    BY <1>2, <1>3, <1>5, <2>4, Widths DEF AbsDiff, Raw, Word
  <2> QED
    BY <2>3, <2>4, <2>5 DEF base
<1> QED
  BY <1>2, <1>4, <1>5, Widths DEF Raw, Word

\* A sequence number that has moved less than half the sequence space away
\* from the receiver's checkpoint survives the trip over the wire unchanged.
THEOREM RoundTrip ==
  ASSUME NEW n \in Word, NEW zero \in Raw, NEW cp \in Word,
         2 * AbsDiff(n, cp) < SeqSpace
  PROVE  Unwrap(Wrap(n, zero), zero, cp) = n
<1> DEFINE u == Unwrap(Wrap(n, zero), zero, cp)
           base == n % SeqSpace
<1>1. n \in Nat /\ cp \in Nat
  BY Widths DEF Word
<1>2. Wrap(n, zero) \in Raw /\ Base(Wrap(n, zero), zero) = base /\ base \in Raw
  <2>1. base \in 0 .. SeqSpace - 1
    BY <1>1, DivMod, Widths
  <2>2. Wrap(n, zero) \in Raw /\ Base(Wrap(n, zero), zero) = base
    BY <1>1, BaseOfWrap
  <2> QED
    BY <2>1, <2>2 DEF Raw
<1>3. /\ u \in Word
      /\ \E k \in Nat : u = base + k * SeqSpace
      /\ AbsDiff(cp, u) <= AbsDiff(cp, n)
  BY <1>2, UnwrapClosest
<1>4. PICK k \in Nat : u = base + k * SeqSpace
  BY <1>3
<1>5. PICK q \in Nat : n = base + q * SeqSpace
  BY <1>1, <1>2, SameClass
<1> HIDE DEF u, base
<1>6. u - n < SeqSpace /\ n - u < SeqSpace
  BY <1>1, <1>3, Widths DEF AbsDiff, Word
<1>7. k = q
  <2>1. ~ (k > q)
    BY <1>2, <1>4, <1>5, <1>6, Multiples, Widths DEF Raw
  <2>2. ~ (q > k)
    BY <1>2, <1>4, <1>5, <1>6, Multiples, Widths DEF Raw
  <2> QED
    BY <2>1, <2>2
<1> QED
  BY <1>4, <1>5, <1>7 DEF u
=============================================================================
