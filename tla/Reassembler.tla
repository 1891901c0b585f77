----------------------------- MODULE Reassembler -----------------------------
(***************************************************************************)
(* The Reassembler at work (src/src/reassembler.{hh,cc}).  Substrings of    *)
(* one byte stream, Source, are inserted in any order, overlapping,         *)
(* repeated and cut anywhere; a reader takes bytes from the output stream.  *)
(***************************************************************************)
EXTENDS Reassembly

CONSTANTS Byte,       \* the values a byte of the stream can have
          Source,     \* the stream the other side is sending
          Capacity,   \* capacity of the output ByteStream
          Garbage     \* the byte a keep-alive segment may carry

ASSUME SourceAssumption ==
  /\ Source \in Seq(Byte)
  /\ Capacity \in Nat
  /\ Len(Source) + Capacity < WordSpace - 1
  /\ Garbage \in Byte
  /\ NoByte \notin Byte

VARIABLES reassembler,  \* the Reassembler object
          consumed,     \* history: every byte the reader has taken
          accepted      \* history: stream indices that arrived inside the window

vars == <<reassembler, consumed, accepted>>

out == reassembler.output

TypeOK ==
  /\ reassembler \in [output     : ByteStreamOf(Byte),
                      buf        : Seq(Byte \cup {NoByte}),
                      occupancy  : SUBSET Nat,
                      total_size : {NoSize} \cup Nat]
  /\ consumed \in Seq(Byte)
  /\ accepted \in SUBSET (0 .. Len(Source) - 1)

Init ==
  /\ reassembler = NewReassembler(Capacity)
  /\ consumed = <<>>
  /\ accepted = {}

\* insert() with the n bytes at index first.  Only a substring that ends the
\* stream can carry the is_last_substring flag, and it need not.
InsertSubstring(first, n, last) ==
  /\ last => first + n = Len(Source)
  /\ reassembler' = Insert(reassembler, first, SubSeq(Source, first + 1, first + n), last)
  /\ accepted' = accepted \cup { j \in first .. first + n - 1 :
                                   /\ out.pushed <= j
                                   /\ j < out.pushed + AvailableCapacity(out) }
  /\ UNCHANGED consumed

\* A TCP keep-alive: one garbage byte just before the next one expected.  At
\* the beginning of the stream its index is -1, that is, 2^64 - 1.
InsertKeepAlive ==
  /\ reassembler' = Insert(reassembler, U64(out.pushed - 1), <<Garbage>>, FALSE)
  /\ UNCHANGED <<consumed, accepted>>

\* read() of byte_stream_helpers.cc: peek, then pop.
Read(n) ==
  /\ n <= BytesBuffered(out)
  /\ consumed' = consumed \o Prefix(out.stream, n)
  /\ reassembler' = [reassembler EXCEPT !.output = Pop(@, n)]
  /\ UNCHANGED accepted

InsertAny ==
  \E first \in 0 .. Len(Source) : \E n \in 0 .. Len(Source) - first : \E last \in BOOLEAN :
    InsertSubstring(first, n, last)

ReadAny == \E n \in 1 .. Capacity : Read(n)

Next == InsertAny \/ InsertKeepAlive \/ ReadAny

Spec == Init /\ [][Next]_vars

\* The sender retransmits what is missing for as long as it is missing, at
\* worst one byte at a time, and the application keeps reading.
InsertByte(j) ==
  InsertSubstring(j, IF j < Len(Source) THEN 1 ELSE 0, j + 1 >= Len(Source))

Fairness ==
  /\ \A j \in 0 .. Len(Source) : WF_vars(InsertByte(j))
  /\ WF_vars(ReadAny)

FairSpec == Spec /\ Fairness

-----------------------------------------------------------------------------
\* What the reader took and what it can still take is a prefix of the stream,
\* in order, without gaps, repetitions or foreign bytes, however the
\* substrings arrived.
StreamIntegrity == consumed \o out.stream = Prefix(Source, out.pushed)

\* The reassembler knows exactly the bytes that were inside its window when
\* they arrived: none is forgotten while later substrings, reads and resizes
\* move the window over it, and none that was outside is remembered.  Each is
\* either written already or held in the slot of its own index with its own
\* value.
HoldsExactlyAccepted ==
  /\ \A j \in 0 .. Len(Source) - 1 :
       j \in accepted <=> \/ j < out.pushed
                        \/ (j - out.pushed) + 1 \in reassembler.occupancy
  /\ \A i \in reassembler.occupancy :
       /\ out.pushed + i <= Len(Source)
       /\ reassembler.buf[i] = Source[out.pushed + i]

\* As soon as a byte can be written it is: the slot of the next byte is never
\* occupied between two calls (reassembler.hh:20-22).
NothingHeldBack == 1 \notin reassembler.occupancy

\* The output is closed exactly when the end of the stream is known and all of
\* it has been written; a FIN that arrives before the data, or data that
\* arrives after its FIN, closes neither early nor never.
ClosedExactlyWhenComplete ==
  /\ reassembler.total_size \in {NoSize, Len(Source)}
  /\ out.is_closed <=> (reassembler.total_size = out.pushed)

\* Bytes waiting in the output and bytes waiting for a gap to be filled
\* together never take more room than the capacity: what lies beyond it is
\* discarded (reassembler.hh:28-29).
WithinCapacity ==
  \A i \in reassembler.occupancy : i \in 1 .. Capacity - Len(out.stream)

\* If every byte and the end of the stream keep being retransmitted and the
\* reader keeps reading, the reader sees the whole stream and its end.
EventuallyComplete == <>(consumed = Source /\ IsFinished(out))
==============================================================================
