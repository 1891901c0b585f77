-------------------------- MODULE ReassemblerProofs --------------------------
(***************************************************************************)
(* Proofs about Reassembler, for every stream, capacity and word size.      *)
(***************************************************************************)
EXTENDS Reassembler, SequenceTheorems, WellFoundedInduction, TLAPS

-----------------------------------------------------------------------------
(* Sequences and the operators of Reassembly *)

LEMMA PrefixOf ==
  ASSUME NEW S, NEW s \in Seq(S), NEW n \in 0 .. Len(s)
  PROVE  /\ Prefix(s, n) \in Seq(S)
         /\ Len(Prefix(s, n)) = n
         /\ \A i \in 1 .. n : Prefix(s, n)[i] = s[i]
<1>1. \A i \in 1 .. n : s[i] \in S
  BY ElementOfSeq
<1> QED
  BY <1>1, SubSeqProperties, LenProperties DEF Prefix

LEMMA SuffixOf ==
  ASSUME NEW S, NEW s \in Seq(S), NEW n \in 0 .. Len(s)
  PROVE  /\ Suffix(s, n) \in Seq(S)
         /\ Len(Suffix(s, n)) = Len(s) - n
         /\ \A i \in 1 .. Len(s) - n : Suffix(s, n)[i] = s[n + i]
<1>0. Len(s) \in Nat
  BY LenProperties
<1>1. \A i \in n + 1 .. Len(s) : s[i] \in S
  BY <1>0, ElementOfSeq
<1> QED
  BY <1>0, <1>1, SubSeqProperties DEF Suffix

LEMMA PrefixThenSuffix ==
  ASSUME NEW S, NEW s \in Seq(S), NEW n \in 0 .. Len(s)
  PROVE  Prefix(s, n) \o Suffix(s, n) = s
<1> DEFINE a == Prefix(s, n)
           b == Suffix(s, n)
<1>1. a \in Seq(S) /\ b \in Seq(S) /\ Len(a) = n /\ Len(b) = Len(s) - n /\ Len(s) \in Nat
      /\ (\A i \in 1 .. n : a[i] = s[i])
      /\ (\A i \in 1 .. Len(s) - n : b[i] = s[n + i])
  BY PrefixOf, SuffixOf, LenProperties
<1> HIDE DEF a, b
<1>2. a \o b \in Seq(S) /\ Len(a \o b) = Len(a) + Len(b)
      /\ \A i \in 1 .. Len(a) + Len(b) : (a \o b)[i] = IF i <= Len(a) THEN a[i] ELSE b[i - Len(a)]
  BY <1>1, ConcatProperties
<1>3. \A i \in 1 .. Len(s) : (a \o b)[i] = s[i]
  BY <1>1, <1>2
<1>4. Len(a \o b) = Len(s)
  BY <1>1, <1>2
<1>5. a \o b = s
  BY <1>2, <1>3, <1>4, SeqEqual
<1> QED
  BY <1>5 DEF a, b

LEMMA NatHasMinimum ==
  ASSUME NEW T, T \subseteq Nat, T # {}
  PROVE  \E x \in T : \A y \in T : x <= y
<1>1. \E x \in T : \A y \in T : ~ (<<y, x>> \in OpToRel(<, Nat))
  BY NatLessThanWellFounded, WFMin
<1>2. PICK x \in T : \A y \in T : ~ (<<y, x>> \in OpToRel(<, Nat))
  BY <1>1
<1>3. \A y \in T : ~ (y < x)
  BY <1>2 DEF OpToRel
<1> QED
  BY <1>3

\* ranges::find returns the first free slot, or the end.
LEMMA LeadingCountSpec ==
  ASSUME NEW n \in Nat, NEW occ \in SUBSET (1 .. n)
  PROVE  /\ LeadingCount(occ, n) \in 0 .. n
         /\ 1 .. LeadingCount(occ, n) \subseteq occ
         /\ LeadingCount(occ, n) + 1 \notin occ
<1> DEFINE T == { k \in 0 .. n : k + 1 \notin occ }
<1>1. n \in T /\ T \subseteq Nat
  OBVIOUS
<1>2. PICK k \in T : \A y \in T : k <= y
  BY <1>1, NatHasMinimum
<1>3. 1 .. k \subseteq occ
  <2> SUFFICES ASSUME NEW i \in 1 .. k PROVE i \in occ
    OBVIOUS
  <2>1. i - 1 \in 0 .. n /\ (i - 1) + 1 = i /\ ~ (k <= i - 1)
    BY <1>2
  <2>2. i - 1 \notin T
    BY <1>2, <2>1
  <2> QED
    BY <2>1, <2>2
<1>4. \E c \in 0 .. n : 1 .. c \subseteq occ /\ c + 1 \notin occ
  BY <1>2, <1>3
<1> QED
  BY <1>4 DEF LeadingCount

LEMMA ResizeType ==
  ASSUME NEW S, NEW s \in Seq(S), NEW n \in Nat, NEW fill \in S
  PROVE  /\ Resize(s, n, fill) \in Seq(S)
         /\ Len(Resize(s, n, fill)) = n
         /\ \A i \in 1 .. n : /\ i <= Len(s) => Resize(s, n, fill)[i] = s[i]
                              /\ i > Len(s)  => Resize(s, n, fill)[i] = fill
<1>0. Len(s) \in Nat
  BY LenProperties
<1>1. \A i \in 1 .. n : (IF i <= Len(s) THEN s[i] ELSE fill) \in S
  BY <1>0, ElementOfSeq
<1>2. Resize(s, n, fill) \in [1 .. n -> S]
  BY <1>1 DEF Resize
<1>3. Resize(s, n, fill) \in Seq(S)
  BY <1>2, SeqDef
<1>4. Len(Resize(s, n, fill)) = n
  BY <1>2, <1>3, LenProperties
<1> QED
  BY <1>3, <1>4 DEF Resize

-----------------------------------------------------------------------------
(* The inductive invariant *)

\* How the fields of the reassembler and the histories fit together.
Shape ==
  /\ out.capacity = Capacity
  /\ Len(out.stream) <= Capacity
  /\ out.pushed <= Len(Source)
  /\ out.pushed = Len(consumed) + Len(out.stream)
  /\ Len(reassembler.buf) <= AvailableCapacity(out)
  /\ reassembler.occupancy \subseteq 1 .. Len(reassembler.buf)

IInv ==
  /\ TypeOK
  /\ Shape
  /\ StreamIntegrity
  /\ HoldsExactlyAccepted
  /\ NothingHeldBack
  /\ ClosedExactlyWhenComplete

Room == AvailableCapacity(out)

\* What is assumed of a substring: where it meets the window it agrees with
\* the stream, and its flag, if set, tells the truth.
Truthful(first, data, last) ==
  /\ first \in Nat
  /\ data \in Seq(Byte)
  /\ last \in BOOLEAN
  /\ last => U64(first + Len(data)) = Len(Source)
  /\ \A i \in WantedSlots(out, first, Len(data)) :
       /\ out.pushed + i <= Len(Source)
       /\ (out.pushed + i) - first \in 1 .. Len(data)
       /\ data[(out.pushed + i) - first] = Source[out.pushed + i]

LEMMA Types ==
  ASSUME IInv
  PROVE  /\ Room \in Nat /\ Room = Capacity - Len(out.stream) /\ Capacity \in Nat
         /\ out.pushed \in Nat /\ Len(Source) \in Nat /\ Len(out.stream) \in Nat
         /\ Len(reassembler.buf) \in Nat /\ Len(reassembler.buf) <= Room
         /\ reassembler.occupancy \subseteq 1 .. Len(reassembler.buf)
         /\ out.stream \in Seq(Byte) /\ out.is_closed \in BOOLEAN
         /\ reassembler.buf \in Seq(Byte \cup {NoByte})
         /\ Source \in Seq(Byte)
<1>1. out.stream \in Seq(Byte) /\ out.pushed \in Nat /\ out.is_closed \in BOOLEAN
      /\ reassembler.buf \in Seq(Byte \cup {NoByte})
  BY DEF IInv, TypeOK, ByteStreamOf, out
<1>2. Len(out.stream) \in Nat /\ Len(reassembler.buf) \in Nat
  BY <1>1, LenProperties
<1>3. Source \in Seq(Byte) /\ Capacity \in Nat
  BY SourceAssumption
<1>4. Len(Source) \in Nat
  BY <1>3, LenProperties
<1>5. Shape /\ Room = out.capacity - Len(out.stream)
  BY DEF IInv, Room, AvailableCapacity
<1>6. /\ Room = Capacity - Len(out.stream)
      /\ Len(out.stream) <= Capacity
      /\ Len(reassembler.buf) <= Room
      /\ reassembler.occupancy \subseteq 1 .. Len(reassembler.buf)
  BY <1>5 DEF Shape, Room
<1>7. Room \in Nat
  BY <1>2, <1>3, <1>6
<1> QED
  BY <1>1, <1>2, <1>3, <1>4, <1>6, <1>7

\* The slots after copy() and fill(): what was held stays, what is wanted is
\* added, and every occupied slot has the byte of the stream.
LEMMA FilledSlots ==
  ASSUME IInv, NEW first, NEW data, NEW last, Truthful(first, data, last)
  PROVE  LET buf == FilledBuf(reassembler, first, data)
             occ == FilledOccupancy(reassembler, first, data)
         IN  /\ buf \in Seq(Byte \cup {NoByte}) /\ Len(buf) = Room
             /\ occ \subseteq 1 .. Room
             /\ occ = reassembler.occupancy \cup WantedSlots(out, first, Len(data))
             /\ \A i \in occ : out.pushed + i <= Len(Source) /\ buf[i] = Source[out.pushed + i]
<1> DEFINE buf == FilledBuf(reassembler, first, data)
           occ == FilledOccupancy(reassembler, first, data)
           W   == WantedSlots(out, first, Len(data))
           old == Resize(reassembler.buf, Room, NoByte)
<1>1. /\ old \in Seq(Byte \cup {NoByte})
      /\ Len(old) = Room
      /\ \A i \in 1 .. Room : i <= Len(reassembler.buf) => old[i] = reassembler.buf[i]
  <2> DEFINE B == Byte \cup {NoByte}
  <2>1. reassembler.buf \in Seq(B) /\ Room \in Nat /\ NoByte \in B
    BY Types
  <2> HIDE DEF B
  <2>2. /\ old \in Seq(B)
        /\ Len(old) = Room
        /\ \A i \in 1 .. Room : i <= Len(reassembler.buf) => old[i] = reassembler.buf[i]
    <3> DEFINE s == reassembler.buf
               n == Room
    <3>1. s \in Seq(B) /\ n \in Nat /\ NoByte \in B
      BY ONLY <2>1
    <3> HIDE DEF s, n
    <3>2. /\ Resize(s, n, NoByte) \in Seq(B)
          /\ Len(Resize(s, n, NoByte)) = n
          /\ \A i \in 1 .. n : i <= Len(s) => Resize(s, n, NoByte)[i] = s[i]
      BY ONLY <3>1, ResizeType
    <3> QED
      BY ONLY <3>2 DEF s, n
  <2> QED
    BY ONLY <2>2, Zenon DEF B
<1>2. buf = [i \in 1 .. Room |-> IF i \in W THEN data[(out.pushed + i) - first] ELSE old[i]]
  BY DEF FilledBuf, Room, out
<1>3. occ = (reassembler.occupancy \cap 1 .. Room) \cup W
  BY DEF FilledOccupancy, Room, out
<1>4. W \subseteq 1 .. Room
  BY DEF WantedSlots, Room
<1>5. \A i \in W : data[(out.pushed + i) - first] \in Byte
  BY ElementOfSeq DEF Truthful
<1>6. \A i \in W : out.pushed + i <= Len(Source) /\ data[(out.pushed + i) - first] = Source[out.pushed + i]
  BY DEF Truthful
<1>7. reassembler.occupancy \subseteq 1 .. Room
  BY Types
<1>8. \A i \in reassembler.occupancy : out.pushed + i <= Len(Source) /\ old[i] = Source[out.pushed + i]
  <2> SUFFICES ASSUME NEW i \in reassembler.occupancy
               PROVE  out.pushed + i <= Len(Source) /\ old[i] = Source[out.pushed + i]
    OBVIOUS
  <2>1. out.pushed + i <= Len(Source) /\ reassembler.buf[i] = Source[out.pushed + i]
    BY DEF IInv, HoldsExactlyAccepted
  <2>2. i \in 1 .. Room /\ i <= Len(reassembler.buf)
    BY <1>7, Types
  <2>3. old[i] = reassembler.buf[i]
    <3> HIDE DEF old
    <3> QED BY <1>1, <2>2
  <2> QED
    BY <2>1, <2>3
<1> HIDE DEF buf, occ, W, old
<1>9. buf \in Seq(Byte \cup {NoByte}) /\ Len(buf) = Room
  <2>1. \A i \in 1 .. Room : old[i] \in Byte \cup {NoByte}
    BY <1>1, ElementOfSeq
  <2>2. buf \in [1 .. Room -> Byte \cup {NoByte}]
    BY <1>2, <1>5, <2>1
  <2>3. buf \in Seq(Byte \cup {NoByte})
    BY <2>2, Types, SeqDef
  <2> QED
    BY <2>2, <2>3, Types, LenProperties
<1>10. occ = reassembler.occupancy \cup W /\ occ \subseteq 1 .. Room
  BY <1>3, <1>4, <1>7
<1>11. \A i \in occ : out.pushed + i <= Len(Source) /\ buf[i] = Source[out.pushed + i]
  BY <1>2, <1>6, <1>8, <1>10
<1> QED
  BY <1>9, <1>10, <1>11 DEF buf, occ, W

\* The byte-by-byte reading of a prefix of the stream extended by a run of
\* slots that agree with the stream.
LEMMA PrefixExtend ==
  ASSUME NEW p \in Nat, NEW run \in Seq(Byte), Source \in Seq(Byte),
         p + Len(run) <= Len(Source),
         \A i \in 1 .. Len(run) : run[i] = Source[p + i]
  PROVE  Prefix(Source, p) \o run = Prefix(Source, p + Len(run))
<1> DEFINE a == Prefix(Source, p)
           b == Prefix(Source, p + Len(run))
<1>1. Len(run) \in Nat /\ Len(Source) \in Nat
  BY LenProperties
<1>2. p \in 0 .. Len(Source) /\ p + Len(run) \in 0 .. Len(Source)
  BY <1>1
<1>3. a \in Seq(Byte) /\ Len(a) = p /\ \A i \in 1 .. p : a[i] = Source[i]
  BY <1>2, PrefixOf
<1>4. b \in Seq(Byte) /\ Len(b) = p + Len(run) /\ \A i \in 1 .. p + Len(run) : b[i] = Source[i]
  BY <1>2, PrefixOf
<1> HIDE DEF a, b
<1>5. a \o run \in Seq(Byte) /\ Len(a \o run) = p + Len(run)
      /\ \A i \in 1 .. p + Len(run) : (a \o run)[i] = IF i <= p THEN a[i] ELSE run[i - p]
  BY <1>3, ConcatProperties
<1>6. \A i \in 1 .. p + Len(run) : (a \o run)[i] = b[i]
  <2> SUFFICES ASSUME NEW i \in 1 .. p + Len(run) PROVE (a \o run)[i] = b[i]
    OBVIOUS
  <2>1. CASE i <= p
    BY <1>1, <1>3, <1>4, <1>5, <2>1
  <2>2. CASE ~ (i <= p)
    <3>1. i - p \in 1 .. Len(run) /\ p + (i - p) = i
      BY <1>1, <2>2
    <3>2. run[i - p] = Source[i]
      BY <3>1
    <3> QED
      BY <1>4, <1>5, <2>2, <3>2
  <2> QED
    BY <2>1, <2>2
<1>7. Len(a \o run) = Len(b)
  BY <1>4, <1>5
<1>8. a \o run = b
  BY <1>4, <1>5, <1>6, <1>7, SeqEqual
<1> QED
  BY <1>8 DEF a, b

\* What insert() writes to the output: the run of occupied slots at the front,
\* all of it, because the window is exactly as large as the room that is left.
LEMMA WriteOut ==
  ASSUME IInv, NEW first, NEW data, NEW last, Truthful(first, data, last)
  PROVE  LET buf   == FilledBuf(reassembler, first, data)
             occ   == FilledOccupancy(reassembler, first, data)
             count == LeadingCount(occ, Len(buf))
             run   == Prefix(buf, count)
         IN  /\ count \in 0 .. Room
             /\ 1 .. count \subseteq occ /\ count + 1 \notin occ
             /\ run \in Seq(Byte) /\ Len(run) = count
             /\ out.pushed + count <= Len(Source)
             /\ \A i \in 1 .. count : run[i] = Source[out.pushed + i]
             /\ Push(out, run) = [out EXCEPT !.stream = @ \o run, !.pushed = @ + count]
<1> DEFINE buf   == FilledBuf(reassembler, first, data)
           occ   == FilledOccupancy(reassembler, first, data)
           count == LeadingCount(occ, Len(buf))
           run   == Prefix(buf, count)
           B     == Byte \cup {NoByte}
<1>1. buf \in Seq(B) /\ Len(buf) = Room /\ occ \subseteq 1 .. Room
      /\ \A i \in occ : out.pushed + i <= Len(Source) /\ buf[i] = Source[out.pushed + i]
  BY FilledSlots
<1> HIDE DEF buf, occ
<1>2. count \in 0 .. Room /\ 1 .. count \subseteq occ /\ count + 1 \notin occ
  BY <1>1, Types, LeadingCountSpec
<1> HIDE DEF count
<1>3. run \in Seq(B) /\ Len(run) = count /\ \A i \in 1 .. count : run[i] = Source[out.pushed + i]
  <2>1. run \in Seq(B) /\ Len(run) = count /\ \A i \in 1 .. count : run[i] = buf[i]
    <3> HIDE DEF B
    <3> QED BY <1>1, <1>2, PrefixOf
  <2> QED
    BY <1>1, <1>2, <2>1
<1>4. out.pushed + count <= Len(Source)
  <2>1. CASE count = 0
    BY <2>1, Types DEF IInv, Shape
  <2>2. CASE count # 0
    <3>1. count \in 1 .. count
      BY <1>2, <2>2, Types
    <3>2. count \in occ
      BY <1>2, <3>1
    <3> QED
      BY <1>1, <3>2
  <2> QED
    BY <2>1, <2>2
<1> HIDE DEF run
<1>5. run \in Seq(Byte)
  <2>1. \A i \in 1 .. count : Source[out.pushed + i] \in Byte
    BY <1>2, <1>4, Types, ElementOfSeq
  <2>2. run \in [1 .. count -> B] /\ DOMAIN run = 1 .. count
    BY <1>3, LenProperties
  <2>3. run \in [1 .. count -> Byte]
    BY <1>3, <2>1, <2>2
  <2> QED
    BY <1>2, <2>3, Types, SeqDef
<1>6. Push(out, run) = [out EXCEPT !.stream = @ \o run, !.pushed = @ + count]
  <2>1. CASE count = 0
    <3>1. run = <<>>
      BY <1>3, <1>5, <2>1, EmptySeq
    <3>2. out.stream \o run = out.stream /\ out.pushed + count = out.pushed
      BY <2>1, <3>1, Types, ConcatEmptySeq
    <3>3. out \in ByteStreamOf(Byte)
      BY DEF IInv, TypeOK, out
    <3>4. [out EXCEPT !.stream = @ \o run, !.pushed = @ + count] = out
      BY <3>2, <3>3 DEF ByteStreamOf
    <3>5. Smaller(Room, Len(run)) = 0
      BY <1>3, <2>1, Types DEF Smaller
    <3>6. Prefix(run, 0) = run
      BY <3>1, SubSeqEmpty DEF Prefix
    <3> QED
      BY <2>1, <3>4, <3>5, <3>6 DEF Push, Room
  <2>2. CASE count # 0
    <3>1. ~ out.is_closed /\ Room # 0
      <4>1. Room # 0
        BY <1>2, <2>2, Types
      <4>2. out.pushed # Len(Source)
        BY <1>2, <1>4, <2>2, Types
      <4>3. out.is_closed => out.pushed = Len(Source)
        BY Types DEF IInv, ClosedExactlyWhenComplete, NoSize
      <4> QED
        BY <4>1, <4>2, <4>3
    <3>2. Smaller(Room, Len(run)) = count
      BY <1>2, <1>3, Types DEF Smaller
    <3>3. Prefix(run, count) = run
      BY <1>3, <1>5, SubSeqFull DEF Prefix
    <3> QED
      BY <3>1, <3>2, <3>3 DEF Push, Room
  <2> QED
    BY <2>1, <2>2
<1> QED
  BY <1>2, <1>3, <1>4, <1>5, <1>6 DEF buf, occ, count, run

\* One call of insert() with a truthful substring preserves the invariant.
LEMMA InsertStep ==
  ASSUME IInv, NEW first, NEW data, NEW last, Truthful(first, data, last),
         reassembler' = Insert(reassembler, first, data, last),
         consumed' = consumed,
         accepted' \subseteq 0 .. Len(Source) - 1,
         \A j \in 0 .. Len(Source) - 1 :
           j \in accepted' <=> \/ j \in accepted
                             \/ (j - out.pushed) + 1 \in WantedSlots(out, first, Len(data))
  PROVE  IInv'
<1> DEFINE buf   == FilledBuf(reassembler, first, data)
           occ   == FilledOccupancy(reassembler, first, data)
           W     == WantedSlots(out, first, Len(data))
           count == LeadingCount(occ, Len(buf))
           run   == Prefix(buf, count)
           total == IF last THEN U64(first + Len(data)) ELSE reassembler.total_size
           p     == out.pushed
           B     == Byte \cup {NoByte}
           pushedOut == Push(out, run)
<1>1. /\ buf \in Seq(B) /\ Len(buf) = Room
      /\ occ \subseteq 1 .. Room /\ occ = reassembler.occupancy \cup W
      /\ \A i \in occ : p + i <= Len(Source) /\ buf[i] = Source[p + i]
  BY FilledSlots
<1>2. /\ count \in 0 .. Room
      /\ 1 .. count \subseteq occ /\ count + 1 \notin occ
      /\ run \in Seq(Byte) /\ Len(run) = count
      /\ p + count <= Len(Source)
      /\ \A i \in 1 .. count : run[i] = Source[p + i]
  BY WriteOut
<1>w. pushedOut = [out EXCEPT !.stream = @ \o run, !.pushed = @ + count]
  BY WriteOut
<1>3. /\ reassembler'.output = CloseIfComplete(pushedOut, total)
      /\ reassembler'.buf = Suffix(buf, count)
      /\ reassembler'.occupancy = { i \in 1 .. Len(buf) - count : i + count \in occ }
      /\ reassembler'.total_size = total
      /\ DOMAIN reassembler' = {"output", "buf", "occupancy", "total_size"}
      /\ reassembler' = [output |-> reassembler'.output, buf |-> reassembler'.buf,
                         occupancy |-> reassembler'.occupancy, total_size |-> reassembler'.total_size]
  BY DEF Insert, out
<1> HIDE DEF buf, occ, W, count, run, total
<1>4. out \in ByteStreamOf(Byte) /\ consumed \in Seq(Byte)
  BY DEF IInv, TypeOK, out
<1>5. /\ pushedOut.stream = out.stream \o run /\ pushedOut.pushed = p + count
      /\ pushedOut.capacity = Capacity /\ pushedOut.is_closed = out.is_closed
      /\ pushedOut \in ByteStreamOf(Byte)
      /\ Len(pushedOut.stream) = Len(out.stream) + count
  <2>0. out.stream \in Seq(Byte) /\ run \in Seq(Byte) /\ Len(run) = count
    BY <1>2, Types
  <2>1. out.stream \o run \in Seq(Byte) /\ Len(out.stream \o run) = Len(out.stream) + count
    BY ONLY <2>0, ConcatProperties
  <2>2. p + count \in Nat
    BY <1>2, Types
  <2> QED
    BY <1>w, <1>4, <2>1, <2>2 DEF ByteStreamOf, IInv, Shape
<1> HIDE DEF pushedOut
<1>6. total \in {NoSize, Len(Source)} /\ (~ last => total = reassembler.total_size)
  BY DEF total, Truthful, IInv, ClosedExactlyWhenComplete
<1>7. /\ out'.stream = out.stream \o run /\ out'.pushed = p + count
      /\ out'.capacity = Capacity /\ out' \in ByteStreamOf(Byte)
      /\ Len(out'.stream) = Len(out.stream) + count
      /\ out'.is_closed <=> (out.is_closed \/ total = p + count)
  <2>1. out' = CloseIfComplete(pushedOut, total)
    BY <1>3 DEF out
  <2>2. NoSize # p + count
    BY <1>2, Types DEF NoSize
  <2>3. CASE total = p + count
    <3>1. out' = Close(pushedOut)
      BY <1>5, <2>1, <2>2, <2>3 DEF CloseIfComplete
    <3> QED
      BY <1>5, <2>3, <3>1 DEF Close, ByteStreamOf
  <2>4. CASE total # p + count
    <3>1. out' = pushedOut
      BY <1>5, <2>1, <2>4 DEF CloseIfComplete
    <3> QED
      BY <1>5, <2>4, <3>1, <1>4 DEF ByteStreamOf
  <2> QED
    BY <2>3, <2>4
<1>8. /\ reassembler'.buf \in Seq(B) /\ Len(reassembler'.buf) = Room - count
      /\ \A i \in 1 .. Room - count : reassembler'.buf[i] = buf[count + i]
  <2> HIDE DEF B
  <2> QED
    BY <1>1, <1>2, <1>3, SuffixOf
<1>9. \A i : i \in reassembler'.occupancy <=> i \in 1 .. Room - count /\ i + count \in occ
  BY <1>1, <1>3
<1>10. TypeOK'
  <2>1. reassembler'.total_size \in {NoSize} \cup Nat
    BY <1>3, <1>6, Types
  <2>2. reassembler'.occupancy \in SUBSET Nat
    BY <1>2, <1>9, Types
  <2>3. reassembler'.output \in ByteStreamOf(Byte)
    BY <1>7 DEF out
  <2> QED
    BY <1>3, <1>4, <1>8, <2>1, <2>2, <2>3 DEF TypeOK
<1>11. Shape'
  <2>1. /\ out'.capacity = Capacity
        /\ Len(out'.stream) <= Capacity
        /\ out'.pushed <= Len(Source)
        /\ out'.pushed = Len(consumed') + Len(out'.stream)
    <3>1. p = Len(consumed) + Len(out.stream) /\ Len(consumed) \in Nat
      BY <1>4, LenProperties DEF IInv, Shape
    <3> QED
      BY <1>2, <1>7, <3>1, Types
  <2>2. Len(reassembler'.buf) <= AvailableCapacity(out')
    BY <1>2, <1>7, <1>8, Types DEF AvailableCapacity
  <2>3. reassembler'.occupancy \subseteq 1 .. Len(reassembler'.buf)
    BY <1>8, <1>9
  <2> QED
    BY <2>1, <2>2, <2>3 DEF Shape
<1>12. StreamIntegrity'
  <2>0. consumed \in Seq(Byte) /\ out.stream \in Seq(Byte) /\ run \in Seq(Byte)
    BY <1>2, <1>4, Types
  <2>1. consumed \o (out.stream \o run) = (consumed \o out.stream) \o run
    <3>1. \A s, t, u \in Seq(Byte) : (s \o t) \o u = s \o (t \o u)
      BY ConcatAssociative
    <3> QED
      BY ONLY <2>0, <3>1, Zenon
  <2>2. consumed \o out.stream = Prefix(Source, p)
    BY DEF IInv, StreamIntegrity
  <2>3. Prefix(Source, p) \o run = Prefix(Source, p + count)
    BY <1>2, Types, PrefixExtend
  <2>4. consumed' \o out'.stream = Prefix(Source, out'.pushed)
    BY <1>7, <2>1, <2>2, <2>3
  <2> QED
    BY <2>4 DEF StreamIntegrity
<1>13. HoldsExactlyAccepted'
  <2>1. ASSUME NEW j \in 0 .. Len(Source) - 1
        PROVE  j \in accepted' <=> \/ j < out'.pushed
                                  \/ (j - out'.pushed) + 1 \in reassembler'.occupancy
    <3>1. j \in accepted' <=> j < p \/ (j - p) + 1 \in occ
      <4>1. j \in accepted <=> j < p \/ (j - p) + 1 \in reassembler.occupancy
        BY DEF IInv, HoldsExactlyAccepted
      <4>2. j \in accepted' <=> j \in accepted \/ (j - p) + 1 \in W
        BY DEF W
      <4> QED
        BY <1>1, <4>1, <4>2
    <3>2. CASE j < p + count
      <4>1. j < p \/ (j - p) + 1 \in 1 .. count
        BY <1>2, <3>2, Types
      <4> QED
        BY <1>2, <1>7, <3>1, <3>2, <4>1
    <3>3. CASE ~ (j < p + count)
      <4>1. ((j - (p + count)) + 1) + count = (j - p) + 1 /\ ~ (j < p)
        BY <1>2, <3>3, Types
      <4>2. (j - p) + 1 \in occ => (j - (p + count)) + 1 \in 1 .. Room - count
        <5>1. p \in Nat /\ count \in Nat /\ Room \in Nat /\ j \in Nat
          BY <1>2, Types
        <5>2. (j - p) + 1 \in occ => (j - p) + 1 \in 1 .. Room
          BY <1>1
        <5> QED
          BY ONLY <3>3, <5>1, <5>2
      <4>3. (j - (p + count)) + 1 \in reassembler'.occupancy <=> (j - p) + 1 \in occ
        BY <1>9, <4>1, <4>2
      <4> QED
        BY <1>7, <3>1, <3>3, <4>1, <4>3
    <3> QED
      BY <3>2, <3>3
  <2>2. ASSUME NEW i \in reassembler'.occupancy
        PROVE  out'.pushed + i <= Len(Source) /\ reassembler'.buf[i] = Source[out'.pushed + i]
    <3>1. i \in 1 .. Room - count /\ i + count \in occ
      BY <1>9
    <3>2. p + (i + count) <= Len(Source) /\ buf[i + count] = Source[p + (i + count)]
      BY <1>1, <3>1
    <3>3. reassembler'.buf[i] = buf[count + i] /\ count + i = i + count /\ p + (i + count) = (p + count) + i
      BY <1>2, <1>8, <3>1, Types
    <3> QED
      BY <1>7, <3>2, <3>3
  <2> QED
    BY <2>1, <2>2 DEF HoldsExactlyAccepted
<1>14. NothingHeldBack'
  <2>1. 1 + count \notin occ
    BY <1>2, Types
  <2> QED
    BY <1>9, <2>1 DEF NothingHeldBack
<1>15. ClosedExactlyWhenComplete'
  <2>1. out.is_closed <=> reassembler.total_size = p
    BY DEF IInv, ClosedExactlyWhenComplete
  <2>2. out.is_closed => total = p + count
    <3> SUFFICES ASSUME out.is_closed PROVE total = p + count
      OBVIOUS
    <3>1. p = Len(Source)
      BY <2>1, Types DEF IInv, ClosedExactlyWhenComplete, NoSize
    <3>2. count = 0
      BY <1>2, <3>1, Types
    <3>3. total = Len(Source)
      BY <1>6, <2>1, <3>1 DEF total, Truthful
    <3> QED
      BY <3>1, <3>2, <3>3, Types
  <2> QED
    BY <1>3, <1>6, <1>7, <2>2 DEF ClosedExactlyWhenComplete
<1> QED
  BY <1>10, <1>11, <1>12, <1>13, <1>14, <1>15 DEF IInv

-----------------------------------------------------------------------------
(* The actions *)

LEMMA InitIInv == Init => IInv
<1> SUFFICES ASSUME Init PROVE IInv
  OBVIOUS
<1>1. /\ out = NewByteStream(Capacity) /\ consumed = <<>> /\ accepted = {}
      /\ reassembler.buf = <<>> /\ reassembler.occupancy = {} /\ reassembler.total_size = NoSize
      /\ reassembler = [output |-> out, buf |-> <<>>, occupancy |-> {}, total_size |-> NoSize]
  BY DEF Init, NewReassembler, out
<1>2. /\ out.stream = <<>> /\ out.pushed = 0 /\ out.capacity = Capacity /\ ~ out.is_closed
  BY <1>1 DEF NewByteStream
<1>3. Source \in Seq(Byte) /\ Capacity \in Nat /\ Len(Source) \in Nat
  BY SourceAssumption, LenProperties
<1>4. \A S : <<>> \in Seq(S) /\ Len(<<>>) = 0
  BY EmptySeq
<1>5. out \in ByteStreamOf(Byte)
  BY <1>1, <1>3, <1>4 DEF NewByteStream, ByteStreamOf
<1>6. TypeOK
  <2>1. <<>> \in Seq(Byte \cup {NoByte}) /\ <<>> \in Seq(Byte)
    BY <1>4
  <2>2. reassembler.output = out
    BY DEF out
  <2> QED
    BY <1>1, <1>5, <2>1, <2>2 DEF TypeOK
<1>7. Shape
  BY <1>1, <1>2, <1>3, <1>4 DEF Shape, AvailableCapacity
<1>8. StreamIntegrity
  <2>1. Prefix(Source, 0) = <<>>
    BY SubSeqEmpty DEF Prefix
  <2>2. <<>> \o <<>> = <<>>
    OBVIOUS
  <2> QED
    BY <1>1, <1>2, <2>1, <2>2 DEF StreamIntegrity
<1>9. HoldsExactlyAccepted /\ NothingHeldBack /\ ClosedExactlyWhenComplete
  BY <1>1, <1>2, <1>3 DEF HoldsExactlyAccepted, NothingHeldBack, ClosedExactlyWhenComplete, NoSize
<1> QED
  BY <1>6, <1>7, <1>8, <1>9 DEF IInv

\* A substring of the stream is truthful: its end does not overflow 64 bits.
LEMMA SubstringStep ==
  ASSUME IInv, NEW first \in 0 .. Len(Source), NEW n \in 0 .. Len(Source) - first,
         NEW last \in BOOLEAN, InsertSubstring(first, n, last)
  PROVE  IInv'
<1> DEFINE data == SubSeq(Source, first + 1, first + n)
<1>1. first \in Nat /\ n \in Nat /\ first + n <= Len(Source) /\ Len(Source) \in Nat /\ Source \in Seq(Byte)
  BY Types
<1>2. data \in Seq(Byte) /\ Len(data) = n /\ \A i \in 1 .. n : data[i] = Source[first + i]
  <2>1. \A i \in first + 1 .. first + n : Source[i] \in Byte
    BY <1>1, ElementOfSeq
  <2>2. /\ SubSeq(Source, first + 1, first + n) \in Seq(Byte)
        /\ Len(SubSeq(Source, first + 1, first + n))
             = IF first + 1 <= first + n THEN (first + n) - (first + 1) + 1 ELSE 0
        /\ \A i \in 1 .. (first + n) - (first + 1) + 1 :
             SubSeq(Source, first + 1, first + n)[i] = Source[(first + 1) + i - 1]
    <3>1. first + 1 \in Int /\ first + n \in Int
      BY <1>1
    <3> QED
      BY <2>1, <3>1, SubSeqProperties
  <2>3. (first + n) - (first + 1) + 1 = n /\ (first + 1 <= first + n \/ n = 0)
        /\ \A i \in 1 .. n : (first + 1) + i - 1 = first + i
    BY ONLY <1>1, SMT
  <2>4. Len(data) = n
    BY ONLY <1>1, <2>2, <2>3, SMT
  <2> QED
    BY <2>2, <2>3, <2>4
<1> HIDE DEF data
<1>3. U64(first + Len(data)) = first + n
  <2> DEFINE e == first + n
  <2>0. WordSpace \in Nat /\ Capacity \in Nat /\ Len(Source) + Capacity < WordSpace - 1
    BY SourceAssumption, WidthAssumption
  <2>1. e \in Int /\ 0 <= e /\ e < WordSpace /\ WordSpace \in Nat \ {0}
    BY ONLY <1>1, <2>0, SMT
  <2>2. e % WordSpace = e
    <3> HIDE DEF e
    <3> QED BY ONLY <2>1, SMT
  <2> QED
    BY <1>2, <2>2 DEF U64
<1>4. WantedSlots(out, first, Len(data)) =
        { i \in 1 .. Room : /\ Larger(out.pushed, first) <= (out.pushed + i) - 1
                            /\ (out.pushed + i) - 1 < Smaller(out.pushed + Room, first + n) }
  BY <1>3 DEF WantedSlots, Room
<1>5. \A i \in 1 .. Room :
        i \in WantedSlots(out, first, Len(data)) <=>
          first <= (out.pushed + i) - 1 /\ (out.pushed + i) - 1 < first + n
  <2> SUFFICES ASSUME NEW i \in 1 .. Room
               PROVE  i \in WantedSlots(out, first, Len(data)) <=>
                        first <= (out.pushed + i) - 1 /\ (out.pushed + i) - 1 < first + n
    OBVIOUS
  <2>1. out.pushed \in Nat /\ Room \in Nat /\ i \in 1 .. Room
    BY Types
  <2>2. /\ Larger(out.pushed, first) <= (out.pushed + i) - 1 <=> first <= (out.pushed + i) - 1
        /\ (out.pushed + i) - 1 < Smaller(out.pushed + Room, first + n) <=> (out.pushed + i) - 1 < first + n
    BY ONLY <1>1, <2>1 DEF Larger, Smaller
  <2> QED
    BY <1>4, <2>2
<1>6. Truthful(first, data, last)
  <2>1. last => U64(first + Len(data)) = Len(Source)
    BY <1>3 DEF InsertSubstring
  <2>2. ASSUME NEW i \in WantedSlots(out, first, Len(data))
        PROVE  /\ out.pushed + i <= Len(Source)
               /\ (out.pushed + i) - first \in 1 .. Len(data)
               /\ data[(out.pushed + i) - first] = Source[out.pushed + i]
    <3>1. i \in 1 .. Room
      BY <1>4
    <3>2. first <= (out.pushed + i) - 1 /\ (out.pushed + i) - 1 < first + n
      BY <1>5, <3>1
    <3>3. (out.pushed + i) - first \in 1 .. n /\ first + ((out.pushed + i) - first) = out.pushed + i
      <4>1. out.pushed \in Nat /\ Room \in Nat /\ first \in Nat /\ n \in Nat
        BY <1>1, Types
      <4> QED
        BY ONLY <3>1, <3>2, <4>1
    <3> DEFINE k == (out.pushed + i) - first
    <3>4. k \in 1 .. Len(data) /\ first + k = out.pushed + i
      BY ONLY <1>2, <3>3
    <3>5. data[k] = Source[first + k]
      <4> HIDE DEF k
      <4> QED BY ONLY <1>2, <3>4
    <3>6. first + k <= Len(Source)
      <4> HIDE DEF k
      <4> QED BY ONLY <1>1, <1>2, <3>4, SMT
    <3> QED
      BY <3>4, <3>5, <3>6
  <2> QED
    BY <1>1, <1>2, <2>1, <2>2 DEF Truthful
<1>7. /\ reassembler' = Insert(reassembler, first, data, last)
      /\ consumed' = consumed
      /\ accepted' = accepted \cup { j \in first .. first + n - 1 :
                                     out.pushed <= j /\ j < out.pushed + Room }
  BY DEF InsertSubstring, data, Room
<1>8. accepted' \subseteq 0 .. Len(Source) - 1
  <2>1. accepted \subseteq 0 .. Len(Source) - 1
    BY DEF IInv, TypeOK
  <2>2. first .. first + n - 1 \subseteq 0 .. Len(Source) - 1
    BY ONLY <1>1
  <2> QED
    BY <1>7, <2>1, <2>2
<1>9. ASSUME NEW j \in 0 .. Len(Source) - 1
      PROVE  j \in accepted' <=> \/ j \in accepted
                                \/ (j - out.pushed) + 1 \in WantedSlots(out, first, Len(data))
  <2>1. j \in accepted' <=> \/ j \in accepted
                           \/ /\ first <= j /\ j < first + n
                              /\ out.pushed <= j /\ j < out.pushed + Room
    BY <1>1, <1>7
  <2>0. out.pushed \in Nat /\ Room \in Nat /\ j \in Nat
    BY <1>1, Types
  <2>2. (j - out.pushed) + 1 \in 1 .. Room <=> out.pushed <= j /\ j < out.pushed + Room
    BY ONLY <2>0
  <2>3. (out.pushed + ((j - out.pushed) + 1)) - 1 = j
    BY ONLY <2>0
  <2>4. (j - out.pushed) + 1 \in WantedSlots(out, first, Len(data)) =>
          (j - out.pushed) + 1 \in 1 .. Room
    BY <1>4
  <2> QED
    BY <1>5, <2>1, <2>2, <2>3, <2>4
<1> QED
  BY <1>6, <1>7, <1>8, <1>9, InsertStep

\* The keep-alive byte meets no slot of the window, also at the beginning of
\* the stream, where its index is 2^64 - 1 and its end is 0.
LEMMA KeepAliveStep ==
  ASSUME IInv, InsertKeepAlive
  PROVE  IInv'
<1> DEFINE first == U64(out.pushed - 1)
           data  == <<Garbage>>
<1>0. WordSpace \in Nat /\ WordSpace > 1 /\ out.pushed < WordSpace - 1
  BY SourceAssumption, WidthAssumption, Types DEF IInv, Shape
<1>1. data \in Seq(Byte) /\ Len(data) = 1
  BY SourceAssumption
<1> HIDE DEF data
<1>2. /\ first \in Nat
      /\ out.pushed = 0 => first = WordSpace - 1 /\ U64(first + 1) = 0
      /\ out.pushed > 0 => first = out.pushed - 1 /\ U64(first + 1) = out.pushed
  <2>1. CASE out.pushed = 0
    <3>1. (0 - 1) % WordSpace = WordSpace - 1
      BY <1>0, SMT
    <3>2. WordSpace % WordSpace = 0
      BY <1>0, SMT
    <3>3. (WordSpace - 1) + 1 = WordSpace
      BY <1>0
    <3>4. first = WordSpace - 1
      BY <2>1, <3>1 DEF U64
    <3>5. U64(first + 1) = 0
      BY <3>2, <3>3, <3>4 DEF U64
    <3> QED
      BY <1>0, <2>1, <3>4, <3>5
  <2>2. CASE out.pushed > 0
    <3> DEFINE q == out.pushed - 1
               r == q + 1
    <3>1. q \in Nat /\ q < WordSpace /\ r = out.pushed /\ r \in Nat /\ r < WordSpace
      BY <1>0, <2>2, Types
    <3>2. q % WordSpace = q
      <4> HIDE DEF q
      <4> QED BY ONLY <1>0, <3>1, SMT
    <3>3. r % WordSpace = r
      <4> HIDE DEF q, r
      <4> QED BY ONLY <1>0, <3>1, SMT
    <3> QED
      BY <2>2, <3>1, <3>2, <3>3 DEF U64
  <2> QED
    BY <2>1, <2>2, Types
<1> HIDE DEF first
<1>3. WantedSlots(out, first, Len(data)) = {}
  <2> SUFFICES ASSUME NEW i \in WantedSlots(out, first, Len(data)) PROVE FALSE
    OBVIOUS
  <2>1. /\ i \in 1 .. Room
        /\ Larger(out.pushed, first) <= (out.pushed + i) - 1
        /\ (out.pushed + i) - 1 < Smaller(out.pushed + Room, U64(first + 1))
    BY <1>1 DEF WantedSlots, Room
  <2>2. out.pushed <= (out.pushed + i) - 1 /\ (out.pushed + i) - 1 < out.pushed
    <3>1. CASE out.pushed = 0
      BY <1>0, <1>2, <2>1, <3>1, Types DEF Larger, Smaller
    <3>2. CASE out.pushed > 0
      BY <1>0, <1>2, <2>1, <3>2, Types DEF Larger, Smaller
    <3> QED
      BY <3>1, <3>2, Types
  <2> QED
    BY <2>1, <2>2, Types
<1>4. Truthful(first, data, FALSE)
  BY <1>1, <1>2, <1>3 DEF Truthful
<1>5. reassembler' = Insert(reassembler, first, data, FALSE) /\ consumed' = consumed /\ accepted' = accepted
  BY DEF InsertKeepAlive, first, data
<1>6. accepted' \subseteq 0 .. Len(Source) - 1
  BY <1>5 DEF IInv, TypeOK
<1> QED
  BY <1>3, <1>4, <1>5, <1>6, InsertStep

LEMMA ReadStep ==
  ASSUME IInv, NEW n \in Nat, Read(n)
  PROVE  IInv'
<1> DEFINE taken == Prefix(out.stream, n)
           rest  == Suffix(out.stream, n)
<1>1. n \in 0 .. Len(out.stream) /\ Smaller(n, Len(out.stream)) = n
  BY Types DEF Read, BytesBuffered, Smaller
<1>2. /\ taken \in Seq(Byte) /\ Len(taken) = n
      /\ rest \in Seq(Byte) /\ Len(rest) = Len(out.stream) - n
      /\ taken \o rest = out.stream
  <2>1. out.stream \in Seq(Byte)
    BY Types
  <2>2. taken \in Seq(Byte) /\ Len(taken) = n
    BY ONLY <1>1, <2>1, PrefixOf
  <2>3. rest \in Seq(Byte) /\ Len(rest) = Len(out.stream) - n
    BY ONLY <1>1, <2>1, SuffixOf
  <2>4. taken \o rest = out.stream
    BY ONLY <1>1, <2>1, PrefixThenSuffix
  <2> QED
    BY ONLY <2>2, <2>3, <2>4
<1>3. /\ out' = Pop(out, n)
      /\ reassembler' = [reassembler EXCEPT !.output = out']
      /\ consumed' = consumed \o taken /\ accepted' = accepted
  BY DEF Read, IInv, TypeOK, out
<1>4. out \in ByteStreamOf(Byte) /\ consumed \in Seq(Byte)
  BY DEF IInv, TypeOK, out
<1>5. /\ out'.stream = rest /\ out'.pushed = out.pushed /\ out'.capacity = out.capacity
      /\ out'.is_closed = out.is_closed /\ out' \in ByteStreamOf(Byte)
  <2>1. out' = [out EXCEPT !.stream = rest, !.popped = @ + n]
    BY <1>1, <1>3 DEF Pop
  <2> HIDE DEF rest, taken
  <2>2. out.popped + n \in Nat
    BY <1>4 DEF ByteStreamOf
  <2> QED
    BY <1>2, <1>4, <2>1, <2>2 DEF ByteStreamOf
<1> HIDE DEF taken, rest
<1>6. /\ reassembler'.buf = reassembler.buf /\ reassembler'.occupancy = reassembler.occupancy
      /\ reassembler'.total_size = reassembler.total_size /\ reassembler'.output = out'
  BY <1>3 DEF IInv, TypeOK, out
<1>7. consumed' \in Seq(Byte) /\ Len(consumed') = Len(consumed) + n /\ Len(consumed) \in Nat
  <2>1. consumed \o taken \in Seq(Byte) /\ Len(consumed \o taken) = Len(consumed) + Len(taken) /\ Len(consumed) \in Nat
    BY ONLY <1>2, <1>4, ConcatProperties, LenProperties
  <2> QED
    BY <1>2, <1>3, <2>1
<1>8. TypeOK'
  BY <1>3, <1>5, <1>7 DEF IInv, TypeOK
<1>9. Shape'
  <2>1. /\ Len(out.stream) \in Nat /\ n \in Nat /\ n <= Len(out.stream) /\ Capacity \in Nat
        /\ out.pushed = Len(consumed) + Len(out.stream) /\ out.capacity = Capacity
        /\ Len(out.stream) <= Capacity /\ out.pushed <= Len(Source)
        /\ Len(reassembler.buf) <= Room /\ Room = Capacity - Len(out.stream) /\ Len(reassembler.buf) \in Nat
        /\ reassembler.occupancy \subseteq 1 .. Len(reassembler.buf)
    BY <1>1, Types DEF IInv, Shape
  <2>2. Len(out'.stream) = Len(out.stream) - n
    BY <1>2, <1>5
  <2>3. /\ Len(out'.stream) <= Capacity
        /\ out'.pushed = Len(consumed') + Len(out'.stream)
        /\ Len(reassembler.buf) <= Capacity - Len(out'.stream)
    <3>1. out'.pushed = out.pushed /\ Len(consumed') = Len(consumed) + n /\ Len(consumed) \in Nat
      BY <1>5, <1>7
    <3> DEFINE after  == Len(out'.stream)
               before == Len(out.stream)
    <3>2. after = before - n /\ before \in Nat /\ n \in Nat
      BY <2>1, <2>2
    <3>3. out.pushed = Len(consumed) + before /\ before <= Capacity /\ Len(reassembler.buf) <= Capacity - before
      BY <2>1
    <3> HIDE DEF after, before
    <3>4. after <= Capacity /\ Len(reassembler.buf) <= Capacity - after
      BY ONLY <2>1, <3>2, <3>3
    <3>5. out'.pushed = Len(consumed') + after
      BY ONLY <3>1, <3>2, <3>3
    <3> QED
      BY <3>4, <3>5 DEF after
  <2> QED
    BY <1>5, <1>6, <2>1, <2>3 DEF Shape, AvailableCapacity
<1>10. StreamIntegrity'
  <2>0. consumed \in Seq(Byte) /\ taken \in Seq(Byte) /\ rest \in Seq(Byte)
    BY <1>2, <1>4
  <2>1. (consumed \o taken) \o rest = consumed \o (taken \o rest)
    <3>1. \A s, t, u \in Seq(Byte) : (s \o t) \o u = s \o (t \o u)
      BY ConcatAssociative
    <3> QED
      BY ONLY <2>0, <3>1, Zenon
  <2> QED
    BY <1>2, <1>3, <1>5, <2>1 DEF IInv, StreamIntegrity
<1>11. HoldsExactlyAccepted' /\ NothingHeldBack' /\ ClosedExactlyWhenComplete'
  BY <1>3, <1>5, <1>6 DEF IInv, HoldsExactlyAccepted, NothingHeldBack, ClosedExactlyWhenComplete
<1> QED
  BY <1>8, <1>9, <1>10, <1>11 DEF IInv

LEMMA NextIInv == IInv /\ [Next]_vars => IInv'
<1> SUFFICES ASSUME IInv, [Next]_vars PROVE IInv'
  OBVIOUS
<1>1. CASE InsertAny
  BY <1>1, SubstringStep DEF InsertAny
<1>2. CASE InsertKeepAlive
  BY <1>2, KeepAliveStep
<1>3. CASE ReadAny
  <2>1. \A n \in 1 .. Capacity : n \in Nat
    OBVIOUS
  <2> QED
    BY <1>3, <2>1, ReadStep DEF ReadAny
<1>4. CASE UNCHANGED vars
  BY <1>4 DEF vars, IInv, TypeOK, Shape, StreamIntegrity, HoldsExactlyAccepted, NothingHeldBack,
              ClosedExactlyWhenComplete, out
<1> QED
  BY <1>1, <1>2, <1>3, <1>4 DEF Next

LEMMA InductiveInvariant == Spec => []IInv
  BY InitIInv, NextIInv, PTL DEF Spec

\* The types of the reassembler and its histories.
THEOREM TypeCorrect == Spec => []TypeOK
<1>1. IInv => TypeOK
  BY DEF IInv
<1> QED
  BY <1>1, InductiveInvariant, PTL

\* For every stream, capacity and order of insertion the reader sees the
\* bytes of the stream in their order (reassembler.cc:141-170).
THEOREM ReaderSeesTheStream == Spec => []StreamIntegrity
<1>1. IInv => StreamIntegrity
  BY DEF IInv
<1> QED
  BY <1>1, InductiveInvariant, PTL

\* No byte that arrived inside the window is ever lost, and no other kept.
THEOREM KeepsWhatItAccepts == Spec => []HoldsExactlyAccepted
<1>1. IInv => HoldsExactlyAccepted
  BY DEF IInv
<1> QED
  BY <1>1, InductiveInvariant, PTL

\* The next byte is written as soon as it is known.
THEOREM WritesAtOnce == Spec => []NothingHeldBack
<1>1. IInv => NothingHeldBack
  BY DEF IInv
<1> QED
  BY <1>1, InductiveInvariant, PTL

\* The output closes with the last byte, not before and not later.
THEOREM ClosesWithLastByte == Spec => []ClosedExactlyWhenComplete
<1>1. IInv => ClosedExactlyWhenComplete
  BY DEF IInv
<1> QED
  BY <1>1, InductiveInvariant, PTL

\* Output and pending bytes fit in the capacity.
THEOREM StaysWithinCapacity == Spec => []WithinCapacity
<1>1. IInv => WithinCapacity
  <2> SUFFICES ASSUME IInv, NEW i \in reassembler.occupancy
               PROVE  i \in 1 .. Capacity - Len(out.stream)
    BY DEF WithinCapacity
  <2>1. i \in 1 .. Len(reassembler.buf) /\ Len(reassembler.buf) <= Room
        /\ Room = Capacity - Len(out.stream) /\ Len(reassembler.buf) \in Nat /\ Room \in Nat
    BY Types
  <2>2. i \in Int /\ 1 <= i /\ i <= Room
    BY <2>1
  <2> QED
    BY <2>1, <2>2
<1> QED
  BY <1>1, InductiveInvariant, PTL
==============================================================================
