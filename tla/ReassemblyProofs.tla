-------------------------- MODULE ReassemblyProofs --------------------------
(***************************************************************************)
(* What Reassembler::insert does to one Reassembler, whoever calls it: the  *)
(* lemmas that the proofs about Reassembler and about TCPConnection share.  *)
(***************************************************************************)
EXTENDS Reassembly, SequenceTheorems, WellFoundedInduction, Wrap32Proofs

-----------------------------------------------------------------------------
(* Sequences and the operators of Reassembly *)

LEMMA PrefixOf ==
  ASSUME NEW S, NEW s \in Seq(S), NEW n \in 0 .. Len(s)
  PROVE  /\ Prefix(s, n) \in Seq(S)
         /\ Len(Prefix(s, n)) = n
         /\ \A i \in 1 .. n : Prefix(s, n)[i] = s[i]
<1>1. \A i \in 1 .. n : s[i] \in S
  BY ElementOfSeq
<1> QED
  BY <1>1, SubSeqProperties, LenProperties DEF Prefix

LEMMA SuffixOf ==
  ASSUME NEW S, NEW s \in Seq(S), NEW n \in 0 .. Len(s)
  PROVE  /\ Suffix(s, n) \in Seq(S)
         /\ Len(Suffix(s, n)) = Len(s) - n
         /\ \A i \in 1 .. Len(s) - n : Suffix(s, n)[i] = s[n + i]
<1>0. Len(s) \in Nat
  BY LenProperties
<1>1. \A i \in n + 1 .. Len(s) : s[i] \in S
  BY <1>0, ElementOfSeq
<1> QED
  BY <1>0, <1>1, SubSeqProperties DEF Suffix

LEMMA PrefixThenSuffix ==
  ASSUME NEW S, NEW s \in Seq(S), NEW n \in 0 .. Len(s)
  PROVE  Prefix(s, n) \o Suffix(s, n) = s
<1> DEFINE a == Prefix(s, n)
           b == Suffix(s, n)
<1>1. a \in Seq(S) /\ b \in Seq(S) /\ Len(a) = n /\ Len(b) = Len(s) - n /\ Len(s) \in Nat
      /\ (\A i \in 1 .. n : a[i] = s[i])
      /\ (\A i \in 1 .. Len(s) - n : b[i] = s[n + i])
  <2>1. a \in Seq(S) /\ Len(a) = n /\ (\A i \in 1 .. n : a[i] = s[i])
    BY PrefixOf
  <2>2. b \in Seq(S) /\ Len(b) = Len(s) - n /\ (\A i \in 1 .. Len(s) - n : b[i] = s[n + i])
    BY SuffixOf
  <2> HIDE DEF a, b
  <2> QED
    BY <2>1, <2>2, LenProperties
<1> HIDE DEF a, b
<1>2. a \o b \in Seq(S) /\ Len(a \o b) = Len(a) + Len(b)
      /\ \A i \in 1 .. Len(a) + Len(b) : (a \o b)[i] = IF i <= Len(a) THEN a[i] ELSE b[i - Len(a)]
  BY <1>1, ConcatProperties
<1>3. \A i \in 1 .. Len(s) : (a \o b)[i] = s[i]
  BY <1>1, <1>2
<1>4. Len(a \o b) = Len(s)
  BY <1>1, <1>2
<1>5. a \o b = s
  BY <1>2, <1>3, <1>4, SeqEqual
<1> QED
  BY <1>5 DEF a, b

LEMMA NatHasMinimum ==
  ASSUME NEW T, T \subseteq Nat, T # {}
  PROVE  \E x \in T : \A y \in T : x <= y
<1>1. \E x \in T : \A y \in T : ~ (<<y, x>> \in OpToRel(<, Nat))
  BY NatLessThanWellFounded, WFMin
<1>2. PICK x \in T : \A y \in T : ~ (<<y, x>> \in OpToRel(<, Nat))
  BY <1>1
<1>3. \A y \in T : ~ (y < x)
  BY <1>2 DEF OpToRel
<1> QED
  BY <1>3

\* Induction over the natural numbers, for a set instead of a predicate.
LEMMA SetInduction ==
  ASSUME NEW T, 0 \in T, \A n \in Nat : n \in T => n + 1 \in T
  PROVE  \A n \in Nat : n \in T
<1> SUFFICES ASSUME Nat \ T # {} PROVE FALSE
  OBVIOUS
<1>1. PICK n \in Nat \ T : \A m \in Nat \ T : n <= m
  BY NatHasMinimum
<1>2. n # 0 /\ n - 1 \in Nat /\ n - 1 \in T
  BY <1>1
<1> QED
  BY <1>1, <1>2

\* ranges::find returns the first free slot, or the end.
LEMMA LeadingCountSpec ==
  ASSUME NEW n \in Nat, NEW occ \in SUBSET (1 .. n)
  PROVE  /\ LeadingCount(occ, n) \in 0 .. n
         /\ 1 .. LeadingCount(occ, n) \subseteq occ
         /\ LeadingCount(occ, n) + 1 \notin occ
<1> DEFINE T == { k \in 0 .. n : k + 1 \notin occ }
<1>1. n \in T /\ T \subseteq Nat
  OBVIOUS
<1>2. PICK k \in T : \A y \in T : k <= y
  BY <1>1, NatHasMinimum
<1>3. 1 .. k \subseteq occ
  <2> SUFFICES ASSUME NEW i \in 1 .. k PROVE i \in occ
    OBVIOUS
  <2>1. i - 1 \in 0 .. n /\ (i - 1) + 1 = i /\ ~ (k <= i - 1)
    BY <1>2
  <2>2. i - 1 \notin T
    BY <1>2, <2>1
  <2> QED
    BY <2>1, <2>2
<1>4. \E c \in 0 .. n : 1 .. c \subseteq occ /\ c + 1 \notin occ
  BY <1>2, <1>3
<1> QED
  BY <1>4 DEF LeadingCount

LEMMA ResizeType ==
  ASSUME NEW S, NEW s \in Seq(S), NEW n \in Nat, NEW fill \in S
  PROVE  /\ Resize(s, n, fill) \in Seq(S)
         /\ Len(Resize(s, n, fill)) = n
         /\ \A i \in 1 .. n : /\ i <= Len(s) => Resize(s, n, fill)[i] = s[i]
                              /\ i > Len(s)  => Resize(s, n, fill)[i] = fill
<1>0. Len(s) \in Nat
  BY LenProperties
<1>1. \A i \in 1 .. n : (IF i <= Len(s) THEN s[i] ELSE fill) \in S
  BY <1>0, ElementOfSeq
<1>2. Resize(s, n, fill) \in [1 .. n -> S]
  BY <1>1 DEF Resize
<1>3. Resize(s, n, fill) \in Seq(S)
  BY <1>2, SeqDef
<1>4. Len(Resize(s, n, fill)) = n
  BY <1>2, <1>3, LenProperties
<1> QED
  BY <1>3, <1>4 DEF Resize

-----------------------------------------------------------------------------
(* A reassembler of the first limit bytes of the stream D *)

ReassemblerOf(B) ==
  [output : ByteStreamOf(B), buf : Seq(B \cup {NoByte}), occupancy : SUBSET Nat,
   total_size : {NoSize} \cup Nat]

\* The reader and the reassembler see the bytes of D in their places, no byte
\* that could be written is held back, and the output is closed exactly when
\* the end, the byte at limit, is known and written.
Assembled(r, B, D, limit, capacity) ==
  /\ D \in Seq(B) /\ limit \in 0 .. Len(D) /\ capacity \in Nat
  /\ r \in ReassemblerOf(B)
  /\ r.output.capacity = capacity
  /\ Len(r.output.stream) <= capacity
  /\ r.output.pushed <= limit
  /\ r.output.pushed = r.output.popped + Len(r.output.stream)
  /\ \A i \in 1 .. Len(r.output.stream) : r.output.stream[i] = D[r.output.popped + i]
  /\ Len(r.buf) <= AvailableCapacity(r.output)
  /\ r.occupancy \subseteq 1 .. Len(r.buf)
  /\ \A i \in r.occupancy : r.output.pushed + i <= limit /\ r.buf[i] = D[r.output.pushed + i]
  /\ 1 \notin r.occupancy
  /\ r.total_size \in {NoSize, limit}
  /\ r.output.is_closed <=> r.total_size = r.output.pushed

\* What is assumed of a substring: where it meets the window it agrees with
\* the stream, and its flag, if set, tells the truth.
Truthful(r, B, D, limit, first, data, last) ==
  /\ first \in Nat
  /\ data \in Seq(B)
  /\ last \in BOOLEAN
  /\ last => U64(first + Len(data)) = limit
  /\ \A i \in WantedSlots(r.output, first, Len(data)) :
       /\ r.output.pushed + i <= limit
       /\ (r.output.pushed + i) - first \in 1 .. Len(data)
       /\ data[(r.output.pushed + i) - first] = D[r.output.pushed + i]

\* The types that every arithmetic step below needs.
Typed(r, B, D, limit, capacity) ==
  /\ AvailableCapacity(r.output) \in Nat
  /\ AvailableCapacity(r.output) = capacity - Len(r.output.stream)
  /\ r.output \in ByteStreamOf(B) /\ r.output.capacity = capacity
  /\ r.output.pushed \in Nat /\ r.output.popped \in Nat /\ Len(r.output.stream) \in Nat
  /\ r.output.stream \in Seq(B) /\ r.output.is_closed \in BOOLEAN
  /\ limit \in Nat /\ Len(D) \in Nat /\ limit <= Len(D) /\ capacity \in Nat
  /\ D \in Seq(B) /\ r.output.pushed <= limit
  /\ Len(r.buf) \in Nat /\ Len(r.buf) <= AvailableCapacity(r.output)
  /\ r.buf \in Seq(B \cup {NoByte})
  /\ r.occupancy \subseteq 1 .. Len(r.buf)

LEMMA AssembledTypes ==
  ASSUME NEW B, NEW D, NEW limit, NEW capacity, NEW r, Assembled(r, B, D, limit, capacity)
  PROVE  Typed(r, B, D, limit, capacity)
<1>1. r.output \in ByteStreamOf(B) /\ r.buf \in Seq(B \cup {NoByte})
  BY DEF Assembled, ReassemblerOf
<1>2. /\ r.output.pushed \in Nat /\ r.output.popped \in Nat
      /\ r.output.stream \in Seq(B) /\ r.output.is_closed \in BOOLEAN
  BY <1>1 DEF ByteStreamOf
<1>3. Len(r.output.stream) \in Nat /\ Len(r.buf) \in Nat
  BY <1>1, <1>2, LenProperties
<1>4. /\ D \in Seq(B) /\ limit \in 0 .. Len(D) /\ capacity \in Nat
      /\ r.output.capacity = capacity /\ Len(r.output.stream) <= capacity
      /\ Len(r.buf) <= AvailableCapacity(r.output) /\ r.occupancy \subseteq 1 .. Len(r.buf)
      /\ r.output.pushed <= limit
  BY DEF Assembled
<1>5. Len(D) \in Nat
  BY <1>4, LenProperties
<1>6. AvailableCapacity(r.output) = capacity - Len(r.output.stream)
  BY <1>4 DEF AvailableCapacity
<1>7. AvailableCapacity(r.output) \in Nat
  BY <1>3, <1>4, <1>6
<1>8. limit \in Nat /\ limit <= Len(D)
  BY <1>4, <1>5
<1> QED
  BY <1>1, <1>2, <1>3, <1>4, <1>5, <1>6, <1>7, <1>8 DEF Typed

\* The slots after copy() and fill(): what was held stays, what is wanted is
\* added, and every occupied slot has the byte of the stream.
Filled(r, B, D, limit, first, data) ==
  /\ FilledBuf(r, first, data) \in Seq(B \cup {NoByte})
  /\ Len(FilledBuf(r, first, data)) = AvailableCapacity(r.output)
  /\ FilledOccupancy(r, first, data) \subseteq 1 .. AvailableCapacity(r.output)
  /\ FilledOccupancy(r, first, data) = r.occupancy \cup WantedSlots(r.output, first, Len(data))
  /\ \A i \in FilledOccupancy(r, first, data) :
       /\ r.output.pushed + i <= limit
       /\ FilledBuf(r, first, data)[i] = D[r.output.pushed + i]

LEMMA FilledSlots ==
  ASSUME NEW B, NEW D, NEW limit, NEW capacity, NEW r, Assembled(r, B, D, limit, capacity),
         NEW first, NEW data, NEW last, Truthful(r, B, D, limit, first, data, last)
  PROVE  Filled(r, B, D, limit, first, data)
<1> DEFINE buf  == FilledBuf(r, first, data)
           occ  == FilledOccupancy(r, first, data)
           Room == AvailableCapacity(r.output)
           W    == WantedSlots(r.output, first, Len(data))
           old  == Resize(r.buf, Room, NoByte)
           p    == r.output.pushed
           BN   == B \cup {NoByte}
<1>0. r.buf \in Seq(BN) /\ Room \in Nat /\ NoByte \in BN /\ Len(r.buf) \in Nat /\ Len(r.buf) <= Room
      /\ r.occupancy \subseteq 1 .. Len(r.buf)
  BY AssembledTypes DEF Typed
<1>2. buf = [i \in 1 .. Room |-> IF i \in W THEN data[(p + i) - first] ELSE old[i]]
  BY DEF FilledBuf
<1>3. occ = (r.occupancy \cap 1 .. Room) \cup W
  BY DEF FilledOccupancy
<1>4. W \subseteq 1 .. Room
  BY DEF WantedSlots
<1>6. \A i \in W : p + i <= limit /\ data[(p + i) - first] = D[p + i] /\ data[(p + i) - first] \in B
  BY ElementOfSeq DEF Truthful
<1>a. \A i \in r.occupancy : p + i <= limit /\ r.buf[i] = D[p + i]
  BY DEF Assembled
<1> HIDE DEF buf, occ, W, Room, p, BN
<1>1. /\ old \in Seq(BN)
      /\ Len(old) = Room
      /\ \A i \in 1 .. Room : i <= Len(r.buf) => old[i] = r.buf[i]
  <2>1. r.buf \in Seq(BN) /\ Room \in Nat /\ NoByte \in BN
    BY <1>0
  <2> HIDE DEF Room, BN
  <2>2. old \in Seq(BN) /\ Len(old) = Room
    BY ONLY <2>1, ResizeType DEF old
  <2>3. \A i \in 1 .. Room : i <= Len(r.buf) => old[i] = r.buf[i]
    BY ONLY <2>1, ResizeType DEF old
  <2> QED
    BY ONLY <2>2, <2>3
<1>7. r.occupancy \subseteq 1 .. Room
  BY <1>0
<1> HIDE DEF old
<1>8. \A i \in r.occupancy : p + i <= limit /\ old[i] = D[p + i]
  <2> SUFFICES ASSUME NEW i \in r.occupancy
               PROVE  p + i <= limit /\ old[i] = D[p + i]
    OBVIOUS
  <2>2. i \in 1 .. Room /\ i <= Len(r.buf)
    BY <1>0, <1>7
  <2> QED
    BY <1>1, <1>a, <2>2
<1>9. buf \in Seq(BN) /\ Len(buf) = Room
  <2>1. \A i \in 1 .. Room : old[i] \in BN
    BY <1>0, <1>1, ElementOfSeq
  <2>2. buf \in [1 .. Room -> BN]
    <3>1. B \subseteq BN
      BY DEF BN
    <3> QED
      BY <1>2, <1>6, <2>1, <3>1
  <2>3. buf \in Seq(BN)
    BY <1>0, <2>2, SeqDef
  <2> QED
    BY <1>0, <2>2, <2>3, LenProperties
<1>10. occ = r.occupancy \cup W /\ occ \subseteq 1 .. Room
  BY <1>3, <1>4, <1>7
<1>11. \A i \in occ : p + i <= limit /\ buf[i] = D[p + i]
  BY <1>2, <1>6, <1>8, <1>10
<1> QED
  BY <1>9, <1>10, <1>11 DEF Filled, buf, occ, W, Room, p, BN

\* What insert() writes to the output: the run of occupied slots at the front,
\* all of it, because the window is exactly as large as the room that is left.
Written(r, B, D, limit, occ, count, run) ==
  /\ count \in 0 .. AvailableCapacity(r.output)
  /\ 1 .. count \subseteq occ /\ count + 1 \notin occ
  /\ run \in Seq(B) /\ Len(run) = count
  /\ r.output.pushed + count <= limit
  /\ \A i \in 1 .. count : run[i] = D[r.output.pushed + i]
  /\ Push(r.output, run) = [r.output EXCEPT !.stream = @ \o run, !.pushed = @ + count]

\* How many slots insert() writes out, and the bytes in them.
RunCount(r, first, data) ==
  LeadingCount(FilledOccupancy(r, first, data), Len(FilledBuf(r, first, data)))
Run(r, first, data) == Prefix(FilledBuf(r, first, data), RunCount(r, first, data))

LEMMA WriteOut ==
  ASSUME NEW B, NEW D, NEW limit, NEW capacity, NEW r, Assembled(r, B, D, limit, capacity),
         NEW first, NEW data, NEW last, Truthful(r, B, D, limit, first, data, last)
  PROVE  Written(r, B, D, limit, FilledOccupancy(r, first, data),
                 RunCount(r, first, data), Run(r, first, data))
<1> DEFINE buf   == FilledBuf(r, first, data)
           occ   == FilledOccupancy(r, first, data)
           count == LeadingCount(occ, Len(buf))
           run   == Prefix(buf, count)
           BN    == B \cup {NoByte}
           out   == r.output
           p     == out.pushed
           Room  == AvailableCapacity(out)
<1>0. /\ Room \in Nat /\ p \in Nat /\ limit \in Nat /\ p <= limit /\ limit <= Len(D) /\ D \in Seq(B)
      /\ out.stream \in Seq(B) /\ Len(D) \in Nat
      /\ out \in ByteStreamOf(B)
      /\ (out.is_closed => p = limit)
  <2>1. /\ r.output.pushed <= limit /\ D \in Seq(B)
        /\ r.total_size \in {NoSize, limit}
        /\ r.output.is_closed <=> r.total_size = r.output.pushed
    BY DEF Assembled
  <2>2. r.output.pushed \in Nat /\ limit \in Nat
    BY AssembledTypes DEF Typed
  <2>3. r.output.is_closed => r.output.pushed = limit
    BY <2>1, <2>2 DEF NoSize
  <2> QED
    BY <2>3, AssembledTypes DEF Typed
<1>1. buf \in Seq(BN) /\ Len(buf) = Room /\ occ \subseteq 1 .. Room
      /\ \A i \in occ : p + i <= limit /\ buf[i] = D[p + i]
  <2>1. Filled(r, B, D, limit, first, data)
    BY FilledSlots
  <2> QED
    BY <2>1 DEF Filled
<1> HIDE DEF buf, occ, BN, Room, p, out
<1>2. count \in 0 .. Room /\ 1 .. count \subseteq occ /\ count + 1 \notin occ
  BY <1>0, <1>1, LeadingCountSpec
<1> HIDE DEF count
<1>3. run \in Seq(BN) /\ Len(run) = count /\ \A i \in 1 .. count : run[i] = D[p + i]
  <2>1. run \in Seq(BN) /\ Len(run) = count /\ \A i \in 1 .. count : run[i] = buf[i]
    BY <1>1, <1>2, PrefixOf
  <2> QED
    BY <1>1, <1>2, <2>1
<1>4. p + count <= limit
  <2>1. CASE count = 0
    BY <1>0, <2>1
  <2>2. CASE count # 0
    <3>1. count \in 1 .. count
      BY <1>0, <1>2, <2>2
    <3>2. count \in occ
      BY <1>2, <3>1
    <3> QED
      BY <1>1, <3>2
  <2> QED
    BY <2>1, <2>2
<1> HIDE DEF run
<1>5. run \in Seq(B)
  <2>1. \A i \in 1 .. count : p + i \in 1 .. Len(D)
    BY <1>0, <1>2, <1>4
  <2>2. \A i \in 1 .. count : D[p + i] \in B
    BY <1>0, <2>1, ElementOfSeq
  <2>3. run \in [1 .. count -> BN] /\ DOMAIN run = 1 .. count
    BY <1>3, LenProperties
  <2>4. run \in [1 .. count -> B]
    BY <1>3, <2>2, <2>3
  <2>5. count \in Nat
    BY <1>0, <1>2
  <2> QED
    BY <2>4, <2>5, SeqDef
<1>6. Push(out, run) = [out EXCEPT !.stream = @ \o run, !.pushed = @ + count]
  <2>1. CASE count = 0
    <3>1. run = <<>>
      BY <1>3, <1>5, <2>1, EmptySeq
    <3>2. out.stream \o run = out.stream /\ out.pushed + count = out.pushed
      BY <1>0, <2>1, <3>1, ConcatEmptySeq DEF p
    <3>4. [out EXCEPT !.stream = @ \o run, !.pushed = @ + count] = out
      BY <1>0, <3>2 DEF ByteStreamOf
    <3>5. Smaller(Room, Len(run)) = 0
      BY <1>0, <1>3, <2>1 DEF Smaller
    <3>6. Prefix(run, 0) = run
      BY <3>1, SubSeqEmpty DEF Prefix
    <3> QED
      BY <2>1, <3>4, <3>5, <3>6 DEF Push, Room
  <2>2. CASE count # 0
    <3>1. ~ out.is_closed /\ Room # 0
      BY <1>0, <1>2, <1>4, <2>2
    <3>2. Smaller(Room, Len(run)) = count
      BY <1>0, <1>2, <1>3 DEF Smaller
    <3>3. Prefix(run, count) = run
      BY <1>3, <1>5, SubSeqFull DEF Prefix
    <3> QED
      BY <3>1, <3>2, <3>3 DEF Push, Room
  <2> QED
    BY <2>1, <2>2
<1> QED
  BY <1>2, <1>3, <1>4, <1>5, <1>6
     DEF Written, RunCount, Run, buf, occ, count, run, Room, p, out

\* What insert() changes: nothing is taken back, and what is now written or
\* held is what was before and the part of the substring inside the window.
Advances(r, q, limit, wanted) ==
  /\ q.output.popped = r.output.popped /\ q.output.error = r.output.error
  /\ q.output.pushed \in r.output.pushed .. limit
  /\ r.output.is_closed => q.output.is_closed
  /\ q.total_size # r.total_size => q.total_size = limit
  /\ \A j \in 0 .. limit - 1 :
       (j < q.output.pushed \/ (j - q.output.pushed) + 1 \in q.occupancy) <=>
         (\/ j < r.output.pushed
          \/ (j - r.output.pushed) + 1 \in r.occupancy
          \/ (j - r.output.pushed) + 1 \in wanted)

\* One call of insert() with a truthful substring.
LEMMA InsertAssembles ==
  ASSUME NEW B, NEW D, NEW limit, NEW capacity, NEW r, Assembled(r, B, D, limit, capacity),
         NEW first, NEW data, NEW last, Truthful(r, B, D, limit, first, data, last)
  PROVE  /\ Assembled(Insert(r, first, data, last), B, D, limit, capacity)
         /\ Advances(r, Insert(r, first, data, last), limit,
                     WantedSlots(r.output, first, Len(data)))
<1> DEFINE buf   == FilledBuf(r, first, data)
           occ   == FilledOccupancy(r, first, data)
           W     == WantedSlots(r.output, first, Len(data))
           count == RunCount(r, first, data)
           run   == Run(r, first, data)
           total == IF last THEN U64(first + Len(data)) ELSE r.total_size
           BN    == B \cup {NoByte}
           out   == r.output
           p     == out.pushed
           Room  == AvailableCapacity(out)
           pushedOut == Push(out, run)
           q     == Insert(r, first, data, last)
<1>0. /\ Room \in Nat /\ Room = capacity - Len(out.stream)
      /\ p \in Nat /\ limit \in Nat /\ p <= limit /\ limit <= Len(D) /\ D \in Seq(B)
      /\ out.stream \in Seq(B) /\ Len(out.stream) \in Nat /\ Len(D) \in Nat /\ capacity \in Nat
      /\ out \in ByteStreamOf(B) /\ out.popped \in Nat /\ out.is_closed \in BOOLEAN
      /\ out.capacity = capacity /\ limit \in 0 .. Len(D)
  <2>1. limit \in 0 .. Len(D)
    BY DEF Assembled
  <2>2. Typed(r, B, D, limit, capacity)
    BY AssembledTypes
  <2> QED
    BY <2>1, <2>2 DEF Typed
<1>t. /\ r.total_size \in {NoSize, limit}
      /\ out.is_closed <=> r.total_size = p
      /\ p = out.popped + Len(out.stream)
      /\ \A i \in 1 .. Len(out.stream) : out.stream[i] = D[out.popped + i]
  BY DEF Assembled
<1>l. last \in BOOLEAN /\ (last => U64(first + Len(data)) = limit)
  BY DEF Truthful
<1>1. /\ buf \in Seq(BN) /\ Len(buf) = Room
      /\ occ \subseteq 1 .. Room /\ occ = r.occupancy \cup W
      /\ \A i \in occ : p + i <= limit /\ buf[i] = D[p + i]
  <2>1. Filled(r, B, D, limit, first, data)
    BY FilledSlots
  <2> QED
    BY <2>1 DEF Filled
<1>2. /\ count \in 0 .. Room
      /\ 1 .. count \subseteq occ /\ count + 1 \notin occ
      /\ run \in Seq(B) /\ Len(run) = count
      /\ p + count <= limit
      /\ \A i \in 1 .. count : run[i] = D[p + i]
  <2>1. Written(r, B, D, limit, occ, count, run)
    BY WriteOut
  <2> QED
    BY <2>1 DEF Written
<1>w. pushedOut = [out EXCEPT !.stream = @ \o run, !.pushed = @ + count]
  <2>1. Written(r, B, D, limit, occ, count, run)
    BY WriteOut
  <2> QED
    BY <2>1 DEF Written
<1>3. /\ q.output = CloseIfComplete(pushedOut, total)
      /\ q.buf = Suffix(buf, count)
      /\ q.occupancy = { i \in 1 .. Len(buf) - count : i + count \in occ }
      /\ q.total_size = total
      /\ q = [output |-> q.output, buf |-> q.buf,
              occupancy |-> q.occupancy, total_size |-> q.total_size]
  BY DEF Insert, RunCount, Run
<1> HIDE DEF buf, occ, W, count, run, BN, Room
<1>5. /\ pushedOut.stream = out.stream \o run /\ pushedOut.pushed = p + count
      /\ pushedOut.capacity = capacity /\ pushedOut.is_closed = out.is_closed
      /\ pushedOut.popped = out.popped /\ pushedOut.error = out.error
      /\ pushedOut \in ByteStreamOf(B)
  <2>1. out.stream \o run \in Seq(B)
    BY <1>0, <1>2, ConcatProperties
  <2>2. p + count \in Nat
    BY <1>0, <1>2
  <2> QED
    BY <1>0, <1>w, <2>1, <2>2 DEF ByteStreamOf
<1>s. /\ Len(out.stream \o run) = Len(out.stream) + count
      /\ out.stream \o run \in Seq(B)
      /\ \A i \in 1 .. Len(out.stream) + count :
           (out.stream \o run)[i] = IF i <= Len(out.stream) THEN out.stream[i]
                                                            ELSE run[i - Len(out.stream)]
  <2> DEFINE before == out.stream
  <2>1. before \in Seq(B) /\ run \in Seq(B) /\ Len(run) = count
    BY <1>0, <1>2
  <2> HIDE DEF before
  <2>2. /\ Len(before \o run) = Len(before) + Len(run)
        /\ before \o run \in Seq(B)
        /\ \A i \in 1 .. Len(before) + Len(run) :
             (before \o run)[i] = IF i <= Len(before) THEN before[i] ELSE run[i - Len(before)]
    BY ONLY <2>1, ConcatProperties
  <2> QED
    BY <2>1, <2>2 DEF before
<1>6. total \in {NoSize, limit} /\ (~ last => total = r.total_size) /\ (last => total = limit)
  BY <1>t, <1>l
<1> HIDE DEF pushedOut, total, q
<1>7. /\ q.output.stream = out.stream \o run /\ q.output.pushed = p + count
      /\ q.output.capacity = capacity /\ q.output \in ByteStreamOf(B)
      /\ q.output.popped = out.popped /\ q.output.error = out.error
      /\ q.output.is_closed <=> (out.is_closed \/ total = p + count)
  <2>2. NoSize # p + count
    BY <1>0, <1>2 DEF NoSize
  <2>3. CASE total = p + count
    <3>1. q.output = Close(pushedOut)
      BY <1>3, <1>5, <2>2, <2>3 DEF CloseIfComplete
    <3> QED
      BY <1>5, <2>3, <3>1 DEF Close, ByteStreamOf
  <2>4. CASE total # p + count
    <3>1. q.output = pushedOut
      BY <1>3, <1>5, <2>4 DEF CloseIfComplete
    <3> QED
      BY <1>5, <2>4, <3>1
  <2> QED
    BY <2>3, <2>4
<1>8. /\ q.buf \in Seq(BN) /\ Len(q.buf) = Room - count
      /\ \A i \in 1 .. Room - count : q.buf[i] = buf[count + i]
  BY <1>1, <1>2, <1>3, SuffixOf
<1>9. \A i : i \in q.occupancy <=> i \in 1 .. Room - count /\ i + count \in occ
  BY <1>1, <1>3
<1>10. q \in ReassemblerOf(B)
  <2>1. q.total_size \in {NoSize} \cup Nat
    BY <1>0, <1>3, <1>6
  <2>2. q.occupancy \in SUBSET Nat
    BY <1>0, <1>2, <1>9
  <2>3. q.buf \in Seq(B \cup {NoByte})
    BY <1>8 DEF BN
  <2> QED
    BY <1>3, <1>7, <2>1, <2>2, <2>3 DEF ReassemblerOf
<1>11. /\ Len(q.output.stream) <= capacity
       /\ q.output.pushed <= limit
       /\ q.output.pushed = q.output.popped + Len(q.output.stream)
       /\ Len(q.buf) <= AvailableCapacity(q.output)
       /\ q.occupancy \subseteq 1 .. Len(q.buf)
  <2>1. Len(q.output.stream) = Len(out.stream) + count
    BY <1>7, <1>s
  <2>2. AvailableCapacity(q.output) = Room - count
    BY <1>0, <1>2, <1>7, <2>1 DEF AvailableCapacity
  <2>3. q.occupancy \subseteq 1 .. Len(q.buf)
    BY <1>8, <1>9
  <2>4. /\ Len(out.stream) + count <= capacity
        /\ p + count = out.popped + (Len(out.stream) + count)
    BY <1>0, <1>2, <1>t
  <2> QED
    BY <1>0, <1>2, <1>7, <1>8, <2>1, <2>2, <2>3, <2>4
<1>12. \A i \in 1 .. Len(q.output.stream) : q.output.stream[i] = D[q.output.popped + i]
  <2> SUFFICES ASSUME NEW i \in 1 .. Len(out.stream) + count
               PROVE  (out.stream \o run)[i] = D[out.popped + i]
    BY <1>7, <1>s
  <2>1. CASE i <= Len(out.stream)
    <3>1. i \in 1 .. Len(out.stream)
      BY <1>0, <2>1
    <3> QED
      BY <1>s, <1>t, <2>1, <3>1
  <2>2. CASE ~ (i <= Len(out.stream))
    <3> DEFINE len == Len(out.stream)
    <3>0. /\ len \in Nat /\ count \in Nat /\ i \in 1 .. len + count /\ ~ (i <= len)
          /\ p = out.popped + len /\ out.popped \in Nat
      BY <1>0, <1>2, <1>t, <2>2
    <3>1. i - len \in 1 .. count /\ p + (i - len) = out.popped + i
      <4> HIDE DEF len, p
      <4> QED BY ONLY <3>0
    <3> QED
      BY <1>2, <1>s, <2>2, <3>1
  <2> QED
    BY <2>1, <2>2
<1>13. \A i \in q.occupancy : q.output.pushed + i <= limit /\ q.buf[i] = D[q.output.pushed + i]
  <2> SUFFICES ASSUME NEW i \in q.occupancy
               PROVE  q.output.pushed + i <= limit /\ q.buf[i] = D[q.output.pushed + i]
    OBVIOUS
  <2>1. i \in 1 .. Room - count /\ i + count \in occ
    BY <1>9
  <2>2. p + (i + count) <= limit /\ buf[i + count] = D[p + (i + count)]
    BY <1>1, <2>1
  <2>3. q.buf[i] = buf[count + i] /\ count + i = i + count /\ p + (i + count) = (p + count) + i
    BY <1>0, <1>2, <1>8, <2>1
  <2> QED
    BY <1>7, <2>2, <2>3
<1>14. 1 \notin q.occupancy
  <2>1. 1 + count = count + 1
    BY <1>0, <1>2
  <2> QED
    BY <1>2, <1>9, <2>1
<1>15. q.output.is_closed <=> q.total_size = q.output.pushed
  <2>2. out.is_closed => total = p + count
    <3> SUFFICES ASSUME out.is_closed PROVE total = p + count
      OBVIOUS
    <3>1. p = limit
      BY <1>0, <1>t DEF NoSize
    <3>2. count = 0
      BY <1>0, <1>2, <3>1
    <3>3. total = limit
      BY <1>6, <1>l, <1>t, <3>1
    <3> QED
      BY <1>0, <3>1, <3>2, <3>3
  <2> QED
    BY <1>3, <1>6, <1>7, <2>2
<1>16. Assembled(q, B, D, limit, capacity)
  BY <1>0, <1>3, <1>6, <1>7, <1>10, <1>11, <1>12, <1>13, <1>14, <1>15 DEF Assembled
<1>17. ASSUME NEW j \in 0 .. limit - 1
       PROVE  (j < q.output.pushed \/ (j - q.output.pushed) + 1 \in q.occupancy) <=>
                (j < p \/ (j - p) + 1 \in r.occupancy \/ (j - p) + 1 \in W)
  <2>0. j \in Nat /\ p \in Nat /\ count \in Nat /\ Room \in Nat
    BY <1>0, <1>2
  <2>1. (j - p) + 1 \in r.occupancy \/ (j - p) + 1 \in W <=> (j - p) + 1 \in occ
    BY <1>1
  <2>2. CASE j < p + count
    <3>1. j < p \/ (j - p) + 1 \in 1 .. count
      BY <2>0, <2>2
    <3> QED
      BY <1>2, <1>7, <2>1, <2>2, <3>1
  <2>3. CASE ~ (j < p + count)
    <3>1. ((j - (p + count)) + 1) + count = (j - p) + 1 /\ ~ (j < p)
      BY <2>0, <2>3
    <3>2. (j - p) + 1 \in occ => (j - (p + count)) + 1 \in 1 .. Room - count
      <4>1. (j - p) + 1 \in occ => (j - p) + 1 \in 1 .. Room
        BY <1>1
      <4> QED
        BY ONLY <2>0, <2>3, <4>1
    <3>3. (j - (p + count)) + 1 \in q.occupancy <=> (j - p) + 1 \in occ
      BY <1>9, <3>1, <3>2
    <3> QED
      BY <1>7, <2>1, <2>3, <3>1, <3>3
  <2> QED
    BY <2>2, <2>3
<1>18. /\ q.output.pushed \in p .. limit
       /\ out.is_closed => q.output.is_closed
       /\ q.total_size # r.total_size => q.total_size = limit
  <2>1. p + count \in p .. limit
    BY <1>0, <1>2
  <2>2. q.output.pushed \in p .. limit
    BY <1>7, <2>1
  <2>3. out.is_closed => q.output.is_closed
    BY <1>7
  <2>4. q.total_size # r.total_size => q.total_size = limit
    BY <1>3, <1>6, <1>7, <1>l
  <2> QED
    BY <2>2, <2>3, <2>4
<1> QED
  BY <1>7, <1>16, <1>17, <1>18 DEF Advances, q, W

\* A substring of the first limit bytes is truthful wherever it begins: its
\* end does not overflow 64 bits.
LEMMA SubstringTruthful ==
  ASSUME NEW B, NEW D, NEW limit, NEW capacity, NEW r, Assembled(r, B, D, limit, capacity),
         limit < WordSpace,
         NEW first \in Nat, NEW data \in Seq(B), NEW last \in BOOLEAN,
         first + Len(data) <= limit,
         \A i \in 1 .. Len(data) : data[i] = D[first + i],
         last => first + Len(data) = limit
  PROVE  /\ Truthful(r, B, D, limit, first, data, last)
         /\ U64(first + Len(data)) = first + Len(data)
         /\ \A i \in 1 .. AvailableCapacity(r.output) :
              i \in WantedSlots(r.output, first, Len(data)) <=>
                first <= (r.output.pushed + i) - 1 /\ (r.output.pushed + i) - 1 < first + Len(data)
<1> DEFINE n    == Len(data)
           p    == r.output.pushed
           Room == AvailableCapacity(r.output)
           W    == WantedSlots(r.output, first, n)
<1>0. /\ n \in Nat /\ first \in Nat /\ p \in Nat /\ Room \in Nat /\ limit \in Nat
      /\ WordSpace \in Nat \ {0} /\ first + n <= limit /\ limit < WordSpace
  <2>1. Typed(r, B, D, limit, capacity)
    BY AssembledTypes
  <2>2. n \in Nat
    BY LenProperties
  <2> QED
    BY <2>1, <2>2, Widths DEF Typed
<1>1. U64(first + n) = first + n
  <2> DEFINE e == first + n
  <2>1. e \in Int /\ 0 <= e /\ e < WordSpace /\ WordSpace \in Nat \ {0}
    BY ONLY <1>0
  <2>2. U64(e) = e
    <3> HIDE DEF e
    <3> QED BY ONLY <2>1, ModSmall DEF U64
  <2> QED
    BY <2>2
<1>2. W = { i \in 1 .. Room : /\ Larger(p, first) <= (p + i) - 1
                              /\ (p + i) - 1 < Smaller(p + Room, first + n) }
  BY <1>1 DEF WantedSlots
<1> HIDE DEF n, p, Room, W
<1>3. ASSUME NEW i \in 1 .. Room
      PROVE  i \in W <=> first <= (p + i) - 1 /\ (p + i) - 1 < first + n
  <2>1. /\ Larger(p, first) <= (p + i) - 1 <=> first <= (p + i) - 1
        /\ (p + i) - 1 < Smaller(p + Room, first + n) <=> (p + i) - 1 < first + n
    BY <1>0 DEF Larger, Smaller
  <2> QED
    BY <1>2, <2>1
<1>4. ASSUME NEW i \in W
      PROVE  /\ p + i <= limit
             /\ (p + i) - first \in 1 .. n
             /\ data[(p + i) - first] = D[p + i]
  <2>1. i \in 1 .. Room
    BY <1>2
  <2>2. first <= (p + i) - 1 /\ (p + i) - 1 < first + n
    BY <1>3, <2>1
  <2> DEFINE k == (p + i) - first
  <2>3. k \in 1 .. n /\ first + k = p + i /\ p + i <= limit
    BY <1>0, <2>1, <2>2
  <2>4. data[k] = D[first + k]
    <3> HIDE DEF k
    <3> QED BY <2>3 DEF n
  <2> QED
    BY <2>3, <2>4
<1>5. Truthful(r, B, D, limit, first, data, last)
  BY <1>1, <1>4 DEF Truthful, n, p, W
<1> QED
  BY <1>1, <1>3, <1>5 DEF n, p, Room, W

LEMMA NewReassemblerAssembled ==
  ASSUME NEW B, NEW D \in Seq(B), NEW capacity \in Nat, NEW limit \in 0 .. Len(D)
  PROVE  Assembled(NewReassembler(capacity), B, D, limit, capacity)
<1> DEFINE r == NewReassembler(capacity)
<1>1. /\ r = [output |-> r.output, buf |-> <<>>, occupancy |-> {}, total_size |-> NoSize]
      /\ r.output = NewByteStream(capacity)
      /\ r.buf = <<>> /\ r.occupancy = {} /\ r.total_size = NoSize
  BY DEF NewReassembler
<1>2. /\ r.output.stream = <<>> /\ r.output.pushed = 0 /\ r.output.popped = 0
      /\ r.output.capacity = capacity /\ r.output.is_closed = FALSE /\ r.output.error = FALSE
      /\ r.output = [stream |-> <<>>, is_closed |-> FALSE, pushed |-> 0, popped |-> 0,
                     capacity |-> capacity, error |-> FALSE]
  BY <1>1 DEF NewByteStream
<1> HIDE DEF r
<1>3. \A S : <<>> \in Seq(S) /\ Len(<<>>) = 0
  BY EmptySeq
<1>4. r.output \in ByteStreamOf(B)
  BY <1>2, <1>3 DEF ByteStreamOf
<1>5. r \in ReassemblerOf(B)
  BY <1>1, <1>3, <1>4 DEF ReassemblerOf
<1>6. Len(D) \in Nat /\ limit \in Nat
  BY LenProperties
<1>7. Assembled(r, B, D, limit, capacity)
  BY <1>1, <1>2, <1>3, <1>5, <1>6 DEF Assembled, AvailableCapacity, NoSize
<1> QED
  BY <1>7 DEF r

\* The reader has taken n bytes from r.
ReadFrom(r, q, B, D, limit, capacity, n) ==
  /\ Assembled(q, B, D, limit, capacity) /\ q \in ReassemblerOf(B)
  /\ q.total_size = r.total_size
  /\ q.output.popped = r.output.popped + n /\ q.output.pushed = r.output.pushed
  /\ q.output.is_closed = r.output.is_closed

\* The reader takes bytes: the window of the reassembler grows.
LEMMA PopAssembles ==
  ASSUME NEW B, NEW D, NEW limit, NEW capacity, NEW r, Assembled(r, B, D, limit, capacity),
         NEW n \in 0 .. Len(r.output.stream), NEW q, q = [r EXCEPT !.output = Pop(r.output, n)]
  PROVE  ReadFrom(r, q, B, D, limit, capacity, n)
<1> DEFINE out  == r.output
           rest == Suffix(out.stream, n)
<1>0. Typed(r, B, D, limit, capacity)
  BY AssembledTypes
<1>1. n \in Nat /\ n <= Len(out.stream) /\ Len(out.stream) \in Nat
  BY <1>0 DEF Typed
<1>2. Pop(out, n) = [out EXCEPT !.stream = rest, !.popped = out.popped + n]
  <2>1. Smaller(n, Len(out.stream)) = n
    BY <1>1 DEF Smaller
  <2> QED
    BY <2>1 DEF Pop
<1>3. /\ rest \in Seq(B) /\ Len(rest) = Len(out.stream) - n
      /\ \A i \in 1 .. Len(out.stream) - n : rest[i] = out.stream[n + i]
  <2>1. out.stream \in Seq(B)
    BY <1>0 DEF Typed
  <2> QED
    BY <2>1, SuffixOf
<1> HIDE DEF rest
<1>4. r \in ReassemblerOf(B) /\ out \in ByteStreamOf(B)
  BY <1>0 DEF Assembled, Typed
<1>5. /\ q.output = Pop(out, n) /\ q.buf = r.buf /\ q.occupancy = r.occupancy
      /\ q.total_size = r.total_size
      /\ q = [output |-> q.output, buf |-> r.buf, occupancy |-> r.occupancy,
              total_size |-> r.total_size]
  BY <1>4 DEF ReassemblerOf
<1>6. /\ q.output.stream = rest /\ q.output.pushed = out.pushed /\ q.output.popped = out.popped + n
      /\ q.output.capacity = out.capacity /\ q.output.is_closed = out.is_closed
      /\ q.output \in ByteStreamOf(B)
  <2>1. out.popped + n \in Nat
    BY <1>0, <1>1 DEF Typed
  <2> QED
    BY <1>2, <1>3, <1>4, <1>5, <2>1 DEF ByteStreamOf
<1>7. q \in ReassemblerOf(B)
  BY <1>4, <1>5, <1>6 DEF ReassemblerOf
<1>8. /\ Len(q.output.stream) <= capacity
      /\ q.output.pushed = q.output.popped + Len(q.output.stream)
      /\ AvailableCapacity(q.output) \in Nat
      /\ Len(q.buf) <= AvailableCapacity(q.output)
  <2> DEFINE len == Len(out.stream)
             blen == Len(r.buf)
  <2>1. /\ len \in Nat /\ capacity \in Nat /\ len <= capacity
        /\ out.pushed = out.popped + len /\ out.popped \in Nat /\ out.pushed \in Nat
        /\ blen \in Nat /\ blen <= capacity - len
        /\ n \in Nat /\ n <= len
    BY <1>0, <1>1 DEF Typed, Assembled
  <2>2. Len(q.output.stream) = len - n
    BY <1>3, <1>6
  <2>3. AvailableCapacity(q.output) = capacity - (len - n)
    BY <1>0, <1>6, <2>2 DEF AvailableCapacity, Typed
  <2> HIDE DEF len, blen
  <2>4. /\ len - n <= capacity
        /\ out.pushed = (out.popped + n) + (len - n)
        /\ capacity - (len - n) \in Nat
        /\ blen <= capacity - (len - n)
    <3>1. len - n <= capacity /\ capacity - (len - n) \in Nat
      BY ONLY <2>1
    <3>2. out.pushed = (out.popped + n) + (len - n)
      BY ONLY <2>1
    <3>3. blen <= capacity - (len - n)
      BY ONLY <2>1
    <3> QED
      BY ONLY <3>1, <3>2, <3>3
  <2> QED
    BY <1>5, <1>6, <2>2, <2>3, <2>4 DEF blen
<1>9. \A i \in 1 .. Len(q.output.stream) : q.output.stream[i] = D[q.output.popped + i]
  <2> SUFFICES ASSUME NEW i \in 1 .. Len(out.stream) - n PROVE rest[i] = D[(out.popped + n) + i]
    BY <1>3, <1>6
  <2>1. n + i \in 1 .. Len(out.stream) /\ out.popped + (n + i) = (out.popped + n) + i
    <3>1. Len(out.stream) \in Nat /\ out.popped \in Nat /\ n \in Nat
      BY <1>0, <1>1 DEF Typed
    <3> QED
      BY ONLY <3>1, i \in 1 .. Len(out.stream) - n
  <2>2. out.stream[n + i] = D[out.popped + (n + i)]
    BY <2>1 DEF Assembled
  <2> QED
    BY <1>3, <2>1, <2>2
<1>10. Assembled(q, B, D, limit, capacity)
  BY <1>5, <1>6, <1>7, <1>8, <1>9 DEF Assembled
<1> QED
  BY <1>5, <1>6, <1>7, <1>10 DEF ReadFrom
==============================================================================
