--------------------------- MODULE ReliableStream ---------------------------
(***************************************************************************)
(* What a TCP connection promises to the two applications that use it: in   *)
(* each direction, the bytes that one side writes reach the other side      *)
(* once, in order and without gaps, and the end of the stream is seen only  *)
(* after all of them.                                                       *)
(***************************************************************************)
EXTENDS Integers, Sequences, SequencesExt

CONSTANTS Side,        \* the two sides
          AppByte,     \* the values a byte can have
          MaxWrite     \* bound on the bytes of one write()

VARIABLES written,     \* per side: the bytes its application has written
          closed,      \* per side: its application will write no more
          delivered,   \* per side: the bytes that have reached it
          ended        \* per side: it has been told that no more will come

streamVars == <<written, closed, delivered, ended>>

From(s) == CHOOSE t \in Side : t # s

Init ==
  /\ written   = [s \in Side |-> <<>>]
  /\ closed    = [s \in Side |-> FALSE]
  /\ delivered = [s \in Side |-> <<>>]
  /\ ended     = [s \in Side |-> FALSE]

WriteBytes(s) ==
  /\ ~ closed[s]
  /\ \E data \in BoundedSeq(AppByte, MaxWrite) :
       written' = [written EXCEPT ![s] = @ \o data]
  /\ UNCHANGED <<closed, delivered, ended>>

CloseStream(s) ==
  /\ closed' = [closed EXCEPT ![s] = TRUE]
  /\ UNCHANGED <<written, delivered, ended>>

\* More of the stream reaches s, and perhaps its end.
DeliverBytes(s) ==
  /\ ~ ended[s]
  /\ \E n \in Len(delivered[s]) .. Len(written[From(s)]) :
       /\ delivered' = [delivered EXCEPT ![s] = SubSeq(written[From(s)], 1, n)]
       /\ \/ UNCHANGED ended
          \/ /\ closed[From(s)]
             /\ n = Len(written[From(s)])
             /\ ended' = [ended EXCEPT ![s] = TRUE]
  /\ UNCHANGED <<written, closed>>

Next == \E s \in Side : WriteBytes(s) \/ CloseStream(s) \/ DeliverBytes(s)

StreamSpec == Init /\ [][Next]_streamVars
=============================================================================
