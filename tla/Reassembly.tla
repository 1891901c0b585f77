----------------------------- MODULE Reassembly -----------------------------
(***************************************************************************)
(* Reassembler::insert of src/src/reassembler.cc (the code below line 140;  *)
(* the lines before it are an earlier version, commented out).  The         *)
(* reassembler keeps, for the bytes that follow the ones already written to *)
(* its output stream, a window of slots: buf_ holds the bytes, occupancy_   *)
(* says which of them have arrived.  Slot i (from 1) stands for the stream  *)
(* index  pushed + i - 1.  The vector of bool is the set of its true slots; *)
(* the code always gives it the same size as buf_.                          *)
(***************************************************************************)
EXTENDS ByteStreams, Wrap32, FiniteSets

CONSTANT NoByte     \* what resize() fills buf_ with ('\0')

NoSize == -1        \* total_size_ is std::nullopt

NewReassembler(capacity) ==
  [output |-> NewByteStream(capacity), buf |-> <<>>, occupancy |-> {},
   total_size |-> NoSize]

Resize(s, n, fill) == [i \in 1 .. n |-> IF i <= Len(s) THEN s[i] ELSE fill]

\* Wrong on purpose: one slot too few.
LeadingCountMinusOne(occ, n) ==
  Larger(0, (CHOOSE k \in 0 .. n : 1 .. k \subseteq occ /\ k + 1 \notin occ) - 1)

\* std::ranges::find(occupancy_, false) - occupancy_.begin(), for a window of
\* n slots.
LeadingCount(occ, n) ==
  CHOOSE k \in 0 .. n : 1 .. k \subseteq occ /\ k + 1 \notin occ

\* The slots that receive a byte of the substring that starts at index first:
\* left_wanted <= index < right_wanted, the end of the substring computed in
\* 64 bits.
WantedSlots(out, first, len) ==
  { i \in 1 .. AvailableCapacity(out) :
      LET index == (out.pushed + i) - 1
      IN  /\ Larger(out.pushed, first) <= index
          /\ index < Smaller(out.pushed + AvailableCapacity(out), U64(first + len)) }

\* Wrong on purpose: the part of the substring before the window is not
\* skipped.
FilledBufFromStart(r, first, data) ==
  LET wanted == WantedSlots(r.output, first, Len(data))
      old    == Resize(r.buf, AvailableCapacity(r.output), NoByte)
  IN  [i \in 1 .. AvailableCapacity(r.output) |->
         IF i \in wanted THEN data[Cardinality(wanted \cap 1 .. i)] ELSE old[i]]

\* copy() and fill(): the slots of the window after the substring went in.
FilledBuf(r, first, data) ==
  LET wanted == WantedSlots(r.output, first, Len(data))
      old    == Resize(r.buf, AvailableCapacity(r.output), NoByte)
  IN  [i \in 1 .. AvailableCapacity(r.output) |->
         IF i \in wanted THEN data[(r.output.pushed + i) - first] ELSE old[i]]

\* Wrong on purpose: earlier substrings are forgotten.
OnlyNewOccupancy(r, first, data) == WantedSlots(r.output, first, Len(data))

FilledOccupancy(r, first, data) ==
  (r.occupancy \cap 1 .. AvailableCapacity(r.output))
    \cup WantedSlots(r.output, first, Len(data))

\* Wrong on purpose: closed as soon as the end is known, or never.
CloseWhenKnown(out, total) == IF total # NoSize THEN Close(out) ELSE out
NeverClose(out, total) == out

\* The last statement of insert(): close once the whole stream is written.
CloseIfComplete(out, total) ==
  IF total # NoSize /\ total = out.pushed THEN Close(out) ELSE out

Insert(r, first, data, last) ==
  LET total == IF last THEN U64(first + Len(data)) ELSE r.total_size
      buf   == FilledBuf(r, first, data)
      occ   == FilledOccupancy(r, first, data)
      count == LeadingCount(occ, Len(buf))
  IN  [output     |-> CloseIfComplete(Push(r.output, Prefix(buf, count)), total),
       buf        |-> Suffix(buf, count),
       occupancy  |-> { i \in 1 .. Len(buf) - count : i + count \in occ },
       total_size |-> total]
==============================================================================
