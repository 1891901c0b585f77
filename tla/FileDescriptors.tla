--------------------------- MODULE FileDescriptors ---------------------------
(***************************************************************************)
(* src/util/file_descriptor.cc and socket.cc over the kernel's streams: the *)
(* pair of connected local sockets between the owner of a TCPMinnowSocket   *)
(* and its TCP thread.  The kernel is external: an end has a queue of bytes *)
(* to read, and shutdown() of one end shows at the other.                   *)
(***************************************************************************)
EXTENDS ByteStreams

CONSTANTS PairCapacity,      \* what the kernel holds for the reader of an end
          ReadBufferSize     \* kReadBufferSize

ASSUME PairAssumption == PairCapacity \in Nat \ {0} /\ ReadBufferSize \in Nat \ {0}

End == {"owner", "thread"}
Opposite(e) == IF e = "owner" THEN "thread" ELSE "owner"

\* rd: what is queued is all that can be read; wr: writing is an error.
NewPair == [e \in End |-> [queue |-> <<>>, rd |-> FALSE, wr |-> FALSE]]

PairEvents(pair, e) ==
  (IF pair[e].queue # <<>> \/ pair[e].rd THEN {"in"} ELSE {})
    \cup (IF Len(pair[Opposite(e)].queue) < PairCapacity THEN {"out"} ELSE {})
    \cup (IF pair[e].rd /\ pair[e].wr THEN {"hup"} ELSE {})

\* Socket::shutdown: SHUT_WR of an end, SHUT_RDWR.
ShutdownWrite(pair, e) == [pair EXCEPT ![e].wr = TRUE, ![Opposite(e)].rd = TRUE]
ShutdownBoth(pair) == [e \in End |-> [pair[e] EXCEPT !.rd = TRUE, !.wr = TRUE]]

\* FileDescriptor::read into a buffer of the given size, kReadBufferSize if it
\* is empty.  At the end it reads nothing and finds the end of the file;
\* otherwise with nothing to read it returns without counting as a read.
ReadFd(queue, atEnd, size) ==
  LET n == IF size = 0 THEN ReadBufferSize ELSE size
  IN  [data |-> Prefix(queue, Smaller(n, Len(queue))),
       rest |-> Suffix(queue, Smaller(n, Len(queue))),
       eof  |-> queue = <<>> /\ atEnd,
       served |-> queue # <<>> \/ atEnd]

\* FileDescriptor::write of a non-empty buffer to an end.  The kernel takes
\* what it has room for; after a shutdown it kills the process with SIGPIPE,
\* which no program of the repository ignores, and write() throws if nothing
\* is taken.
WriteFd(pair, e, data) ==
  LET room == PairCapacity - Len(pair[Opposite(e)].queue)
      n    == IF pair[e].wr THEN 0 ELSE Smaller(room, Len(data))
  IN  [written |-> n,
       pair    |-> [pair EXCEPT ![Opposite(e)].queue = @ \o Prefix(data, n)],
       fate    |-> CASE pair[e].wr -> "killed" [] ~ pair[e].wr /\ n = 0 -> "threw" [] OTHER -> "ok"]
=============================================================================
