# A model of the Minnow TCP/IP stack

TLA+ modules, TLC runs and TLAPS proofs for the network stack in `src/`: byte
stream, reassembler, wrapped sequence numbers, TCP receiver, sender and peer,
the sockets and event loops that drive them, the program that copies between
the standard streams and a socket, the bytes on the wire, the network interface
with ARP, the router, and networks of hosts and routers.  Everything
is translated from the C++ code; paths below are relative to the repository
(`src/x.cc` is the library, `util/x.hh` the support code, `apps/` the programs,
`tests/` the tests).

## 1. The system

| component | state | operations | interacts with |
|---|---|---|---|
| `Wrap32` (`src/wrapping_integers`) | one 32-bit word | `wrap`, `unwrap`, `+` | receiver and sender convert every number with it |
| `ByteStream` (`src/byte_stream`) | the bytes held, counts pushed and popped, closed, error | `push`, `close`, `peek`/`pop`, `set_error` | application <-> sender; reassembler <-> application |
| `Reassembler` (`src/reassembler`) | output stream, buffer and bitmap of its window, end of the stream | `insert`, `bytes_pending` | receiver inserts, socket reads its output |
| `TCPReceiver` (`src/tcp_receiver`) | reassembler, ISN, ackno, checkpoint, SYN and RST seen | `receive`, `send` | peer |
| `TCPSender` (`src/tcp_sender`) | outbound stream, segments outstanding, window, retransmission timer and timeout, state of the zero-window probe, FIN sent or due | `push`, `receive`, `tick`, `make_empty_message` | peer |
| `TCPPeer` (`util/tcp_peer.hh`) | a sender, a receiver, whether to linger, time since the last segment | `push`, `receive`, `tick`, `active` | socket; the wire |
| `TCPMinnowSocket` (`util/tcp_minnow_socket*`) | the peer, its thread, a local socket pair, `_abort`, flags for shutdown | three rules of the event loop, `connect`, `listen_and_accept`, `wait_until_closed`, destruction | application thread <-> TCP thread |
| TCP-over-IP adapter (`util/tcp_over_ip`, `util/lossy_fd_adapter`) | both ends of the connection, listening or not | wrap and unwrap segments; drop some | socket; tun device or network interface |
| `EventLoop` (`util/eventloop`) | the list of rules | `wait_next_event` | one in the thread of a socket, one in `main()` |
| `bidirectional_stream_copy` (`apps/`) | a `ByteStream` each way, whether input, socket and output are over | four rules | standard streams; the owner's end of the local socket pair |
| `NetworkInterface` (`src/network_interface`) | ARP cache with ages, waiting datagrams, requests with ages, received datagrams | `send_datagram`, `recv_frame`, `tick` | router, output port |
| `Router` (`src/router`) | interfaces, sorted routes | `add_route`, `route` | interfaces |
| headers, parser, checksum (`util/*header*`, `parser`, `checksum`) | none | serialize, parse | all that put bytes on a wire |
| descriptors and sockets (`util/file_descriptor`, `socket`, `tun`) | eof, closed, counters | read, write, close | event loop |
| helpers, other applications (`util/address`, ..., `apps/`) | none of the protocol | | |

Data flows from an application through the outbound `ByteStream`, cut into
segments by the sender, over the wire, through the receiver and the reassembler
into the inbound `ByteStream` of the other side.  Acknowledgments and windows
flow back in the segments of the other direction.

All of a connection's protocol code runs in handlers called by one event loop:
first in `main()` inside `connect()` or `listen_and_accept()`, then in a second
thread.  From then on `main()` has an event loop of its own and the two threads
meet in a pair of local sockets, in the flag `_abort` and in `join()`.  So there
are two kinds of concurrency: between the peers, the network and the two
applications; and, inside one program, between the two threads, each of which
may be anywhere in an iteration when the other shuts a socket down.

What is hard in it, and what makes each part correct:

* **numbers**: 32-bit numbers wrap round within 64-bit ones; unwrap must find
  the closest absolute number, also where its own 64-bit arithmetic wraps.
* **reassembly**: substrings arrive in any order and overlap, while the window
  they must fit in moves with every read.  The output must be the stream, held
  bytes must be those that arrived in the window, the end must be neither early
  nor late.
* **sender**: the set of outstanding segments, the timer, the timeout, the
  window, the probe and the FIN are separate variables changed by
  acknowledgments, ticks and writes in any order; they must stay consistent.
* **connection**: segments are lost, repeated, reordered; windows close; both
  sides end their streams at their own time; one of them must linger.  Both
  applications must get a reliable stream in each direction, and come to rest.
* **errors**: a reset or a destructed socket must end both sides, and the
  receiver must never take it for the end of the stream.  (The owner of a socket
  does read an end of file after a reset: the copying program ends its output then.)
* **threads**: four byte streams and a socket pair in a row, each end of which is
  closed at its own time; interest, hang-up, end of file and error decide
  when a rule disappears.  No event loop may serve rules that do
  nothing until it throws (the busy-wait exception) or wait for ever, no thread may
  write to what the other has shut down, the program must end.
* **the wire**: the adapter picks one connection out of all datagrams that arrive;
  what it does not take must change nothing, what it takes must be what was sent.
* **ARP**: answers race with timeouts and with expiring mappings; no datagram
  may wait for an answer that cannot come, be sent twice or overtaken.
* **routing**: the lookup stops at the first match and so relies on the order of
  a table that grows in any order; datagrams for one hop wait in an interface
  while others pass; routes may form a loop.

`PROJECT.json` lists every hazard found, at its line.

## 2. Modules

| module | models | form |
|---|---|---|
| `Wrap32` | `Wrap32::wrap`, `unwrap`, `+`, with both widths as constants | operators |
| `Wrap32Tracking` | how `TCPReceiver::receive` uses it: a checkpoint, an index in the stream, follows numbers that arrive wrapped and out of order | machine |
| `ByteStreams` | `ByteStream`, `Writer`, `Reader` | operators on a record |
| `Reassembly` | `Reassembler::insert`: resize, fill, write out, shift, close | operators |
| `Reassembler` | the reassembler with a sender of substrings and a reader | machine |
| `TCPMessages` | sender and receiver messages and what the wire keeps of them | operators |
| `TCPReceiver` | `TCPReceiver::receive` and `send` | operators |
| `TCPSender` | `TCPSender::push`, `receive`, `tick`, `make_empty_message` | operators |
| `TCPPeer` | `TCPPeer::push`, `receive`, `tick`, `active`, lingering | operators |
| `ReliableStream` | the service of a connection, abstractly | abstract machine |
| `TCPConnection` | two peers driven by their sockets, and the network | machine |
| `ARP` | `NetworkInterface::send_datagram`, `recv_frame`, `tick` | operators |
| `NetworkInterface` | one interface, its owner, its neighbours | machine |
| `Routing` | `Router::add_route`, `route` | operators |
| `Router` | one router, its owner, its neighbours | machine |
| `BestEffort` | the service of an internetwork, abstractly | abstract machine |
| `Internetwork` | hosts and routers on segments, all with the interfaces of `ARP` | machine |
| `Checksum` | `InternetChecksum` | operators |
| `Headers` | Ethernet, IPv4 and TCP headers, `Parser` and `Serializer` | operators |
| `TCPOverIP` | the adapter between segments and datagrams | operators |
| `Wire` | segments of several callers as bytes, up to the numbers of `Wrap32Tracking` | machine |
| `EventLoop` | `wait_next_event`, with the rules as parameters | operators |
| `FileDescriptors` | `read`, `write`, `shutdown` over a local socket pair | operators |
| `StreamCopy` | the four rules of `bidirectional_stream_copy` | operators |
| `MinnowSocket` | the three rules of a socket | operators |
| `CopyProgram` | both threads of `tcp_ipv4` (or of a host of `endtoend`) | machine |
| `Powers` | powers of two, for the blocks of addresses and the timeout | function |
| `ReassemblyProofs`, `TCPSenderProofs` | what the operators of `Reassembly` and `TCPSender` do, for any stream | lemmas |
| `Wrap32Proofs`, `WireProofs`, `ReassemblerProofs`, `TCPConnectionProofs`, `NetworkInterfaceProofs`, `RouterProofs` | theorems | proofs |
| `MCReassembler`, `MCTCPConnection`, `MCRouter`, `MCInternetwork`, `MCWire`, `MCCopyProgram` | values for TLC | instances |

A C++ object is a record with the names of its members; a member function that
changes state is an operator from the record to the record, and one that also
transmits returns `[snd, out]`, `[peer, out]` or `[nic, out]` with the messages
transmitted.  Machines hold these records in variables and call one operator
per action, as the event loop calls one handler, so each action is a whole
handler.  This also lets `TCPConnection` and `CopyProgram` use exactly the definitions of
`Reassembly` that `Reassembler` checks and the proofs are about, and
`Wire` the actions of `Wrap32Tracking`.

Where the record differs from the class:

* The buffer and bitmap of the reassembler are one sequence `buf` and the set
  `occupancy` of filled slots.  The bytes of an empty slot are `NoByte`.
* `outstanding` is the queue of sent messages.  The loops of `push()` are one
  fold over the segments they send.
* `cumulative_time_` and `time_of_last_receipt_` of the peer are only used for
  their difference, `idle`.  It counts no further than the linger time.
* `datagram_q` of an interface is a queue per next hop: the code keeps one
  vector of pairs, and only ever looks in it for the datagrams of one hop.
* `route()` empties the queues of received datagrams first and then forwards,
  while the code pops one at a time; forwarding never looks at these queues.
* Members that only count for statistics and `cerr` output are left out.

Integers: `SeqSpace` stands for 2^32 and `WordSpace` for 2^64.  Subtractions
that can go below zero in the code (`U64`, `StreamIndex`) are taken modulo
`WordSpace`.  The payload of a segment is a sequence of stream indices, so a
byte in the wrong place is seen.

### The connection

`TCPConnection` has an action for each thing the thread of a socket does:
`Connect` (the first push), `Deliver` (rule 1: a segment from the adapter goes
to `TCPPeer::receive`), `Write` and `CloseOutbound` (rule 2), `Read` (rule 3),
`Tick` (the end of an iteration of `_tcp_loop`), `Destroy` (the destructor
of a connection in use).  The server is passive until the first SYN
(`Unwanted`).  The network is a sequence of segments per direction; `Lose`,
`Duplicate`, and `Deliver` of a later segment are its faults.  `ForeignReset`
is a reset from a host that need not run this code.  The application writes
`StreamSize` bytes, closes, and reads.

A tick passes one unit of time for one peer (`Tick`), so the two clocks run at
any relative speed, or, with `SameClock`, for both (`TickTogether`).

### The abstract specification

`ReliableStream` says what the two applications may rely on: what has been
delivered is a prefix of what was written, grows by bytes at its end, and the
end is seen only when the writer has closed and all is delivered.
`TCPConnection!ImplementsStream` is the refinement: `delivered` is what the
application has read followed by what waits for it in the inbound stream,
`written` the bytes it pushed into the outbound stream.  Every step of the
connection, whatever the network does, is a step of it or a stutter.

A run bounds the faults of a behaviour by a budget for each kind
(`Budgets`); a behaviour chooses one budget at its start and every fault
spends from it, so that one run asks about a loss, about a duplicate, and about a
reset with a destruction, without all four at once.

### The program and its threads

`EventLoop` is written once and instantiated twice: `StreamCopy!Loop` and
`MinnowSocket!Loop` give its constants the interests, callbacks, cancel and error
functions of their rules.  A rule is a name.  `wait_next_event` is two
actions because the thread sleeps in `poll()` between them: `Sweep` (cancel what
is over, ask for the rest) with `Revents` (what the kernel reports), and `Serve`
(errors, hang-ups, then the first rule that is ready and no other, with the
check for a busy wait).  What `poll()` reported may be stale when it is served.

`CopyProgram` has the two loops as the pairs `TcpPoll`, `TcpServe` and `CopyPoll`,
`CopyServe`.  `Start` is the call of `connect` or `listen_and_accept`; `owner`
says where `main()` is: connecting, copying, waiting in `wait_until_closed`
(`closing`), in the destructor after an exception (`destructing`, when `_abort` is
set), and then done, failed, or dead by an uncaught exception of the thread or by
`SIGPIPE`, which no program of the repository ignores.  The tick of the thread
is part of its iteration: 1 if `poll()` gave up after `TCP_TICK_MS`, 0 or 1
otherwise.

External, from how the code uses them: the kernel (an end of the socket pair is a
queue, which shutdown ends on either side; a pipe ends with a hang-up, a file
stays readable), the users of the standard streams, and the other host, which gets
every segment at once and in order, sends into an open window only, and whose
receiver is this code's.  What losses do to a connection is the subject of
`TCPConnection`.  One fault of a kind fixed at the start may strike at any moment:
a reset, an error of standard input, or the end of the reader of standard output.

`CopyProgram!ImplementsStream` refines `ReliableStream` a second time, from standard
input to the other host's application and from it to standard output.

### The wire

`Headers` gives the bytes of an Ethernet frame with an IPv4 datagram with a TCP
segment, and parses them with every check the code makes; `Checksum` is the
running sum of `InternetChecksum`, with the parity it keeps from one call to
the next.  `TCPOverIP` is the adapter.  `Wire` lets two callers, one of them behind
a router, send to three contacts of a host (the right one, another address of it,
another port) that listens or is connected, over a tun device with a lossy
adapter, or over Ethernet.  A lossy adapter drops after the inner adapter has read:
a listening one may thus be bound by a SYN that TCP never sees.  What gets through
is given to `Receive` of `Wrap32Tracking`, so the numbers of a caller meet unwrap as
bytes of a header, and a segment after a SYN that was dropped is ignored.

`Wrap32Tracking` is the part of `TCPReceiver::receive` that counts.  A segment with a
payload or a FIN is unwrapped against the checkpoint, which then becomes its
index in the stream plus the size of its payload; a reset, a second SYN, a segment before
the first or after the end and one without payload or FIN do not move it.  That
index is one less than the sequence number, so the checkpoint is the number of the
last byte counted (`LastByte`), and for a FIN alone that of the byte before.  What the other TCP owes
is stated there (`Near`): the next segment that is counted starts less
than half the sequence space from that byte, as all segments of one window do.  When
the reassembler has all bytes is left open after a FIN.  `counted` and `sent` only
observe: the number that the code computed, and the one that was meant.

Left out here: how a buffer is cut into strings, options of either header
(the parsers skip them and the serializers write none), the
bytes of ARP messages, and datagrams cut short.  `Parser::truncate` counts a first buffer
that is partly consumed at its full size (`util/parser.cc:44`); here it cuts exactly,
which is the same where buffers are cut at the ends of headers.

### The network interface

`ARP` has the three operations of `NetworkInterface`; times are in units that
divide 5 s and 30 s.  `datagrams_received` is emptied by the owner
(`TakeReceived`).  The machine adds what an observer of the port writes down
(`sent`, `requested`, `heard`), and the properties compare the interface with it.
Frames come from neighbours that announce any address at any time, for us or
for others, and with payloads that do not parse.

### The router and the internetwork

`Routing` has `add_route` (`WithRoute`: the tables that an unstable sort may
leave) and `route` (`RouteAll`: a fold of `Forward` over what the interfaces
received, in their order, each frame transmitted by `ARP!SendDatagram`).
`Matches` compares bits as the code does; the properties of `Router` compare
blocks of addresses.  `Router` lets routes be added, datagrams arrive and
neighbours answer at any time, and records what arrived and what was sent.

`Internetwork` composes these operators: a variable for the interfaces of hosts,
one for those of routers, and the frames on each segment.  `Carry` is one round
of `NetworkSegment::run` (`tests/router.cc:50`): a frame reaches all other
interfaces of its segment.  `Route` and `TickRouter` are the calls that
`apps/endtoend.cc` makes after an event, `Send` and `Read` those of a host, and
`Lose` a loss of the UDP socket between its routers.  `calm`, fixed at the start,
says whether the network is one where nothing is lost and answers are faster
than timeouts.

`BestEffort` says what hosts may expect: a datagram sent is lost or reaches the
host it is addressed to, once.  `Internetwork!ImplementsService` is the
refinement: `travelling` is what is on a segment, waits in an interface or has
been received by a router; `delivered` what a host has received.

## 3. Runs

Every run has `CHECK_DEADLOCK FALSE` only where the system really stops (a
connection whose peers are both at rest).

| run | question | distinct states | bounds |
|---|---|---|---|
| `wire` | does the adapter keep to one connection, do answers reach the caller, is a damaged byte noticed, and does the receiver keep count of numbers that wrap? | 1e3 | all initial numbers in number spaces of 4 and 8: both wrap; two callers, three contacts, both links; a segment with an odd payload, with nothing, a FIN, a reset; damage to each of the 57 bytes in 3 ways |
| `reassembler` | is the output the stream, for every order, overlap and cut of substrings and every read? | 2e2 | 6 bytes, window of 4: the window moves, bytes fall outside it on both sides |
| `tcp_loss` | with a lost segment, a window that closes, and ticks at any pace on each side: does every byte arrive, is the window respected, does the timeout back off and fall back? | 3e5 | see below |
| `tcp_disorder` | with loss, duplicates and overtaking: is what is acknowledged in place, what is not recoverable, is the service that of `ReliableStream`? Also when a socket is reset or destructed at any moment? | 5e5 | one loss, or one duplicate, or one reset and one destruction; a segment may overtake another |
| `tcp_finish` | do both sides see the end and come to rest, when an acknowledgment or a FIN is lost? does a reset end both? | 3e5 | one loss, or one reset |
| `network_interface` | are datagrams sent once, in order, to the address announced last; does none wait for nothing; are requests rare? | 1e5 | 2 neighbours, 2 addresses, 3 datagrams, ticks that hit and skip the timeouts |
| `router` | is every datagram forwarded once, in order, one hop older, along a longest prefix, or dropped for a reason the code has? | 3e4 | addresses of 3 bits, prefixes of length 0, 1 and 2 that lie in each other, added in any order; 2 datagrams with time to live 0, 1, 2 |
| `internetwork` | is the whole a best-effort service; do loops end; does every datagram reach its host on a calm network? | 1e5 | the topology of `endtoend`: 2 hosts, 2 routers, 3 segments, default routes that form a loop; 2 datagrams, one loss |
| `copy_program` | do the users get a reliable stream from end to end; does the program end by itself, after a reset, and when its socket is destructed in use; does a loop throw the busy-wait exception, or a write meet a closed socket? | 1e5 | five worlds: connect and listen, pipe and file, no fault and each of the three; see below |
| `tcp_zero_window_fin`, `tcp_destructed`, `partial_write` | findings, section 6 | | |

Bounds of the connection, and why they are enough:

* Sequence space of 16, initial numbers 14 and 13: the numbers of both
  directions wrap round in the course of the stream.
* Payload of at most 2 bytes, streams of 3 bytes and 1 byte in `tcp_loss`, 2 and 1
  in `tcp_finish`, 2 in one direction elsewhere: segments with no byte, one
  and two; FIN with data and on its own.  The inbound capacity is 2: the window
  closes while the application does not read, and in `tcp_loss` a third byte
  waits for it to open, is sent as a probe, and may be lost.  In
  `tcp_finish` the capacity is 3, so that the window never closes exactly
  before the FIN (finding 1 shows what happens otherwise).
* `MaxInFlight = 0`: a unit of time passes only when nothing is on its way, so
  a timeout (one unit) is at least a round trip; what is still retransmitted
  too early in the real program is the subject of `Duplicate`.
* `Budgets` bounds losses, duplicates, resets and destructions, `MaxReorder` how
  far a segment may overtake.  One loss meets every segment of the exchange, SYN,
  data, probe, FIN and each acknowledgment.  `tcp_loss` and `tcp_finish` keep the
  order of segments.
* `MaxRTO` and `MaxRetx` cap the timeout and its counter, which the code lets
  grow; at the cap the model keeps retransmitting.  `LingerTimeouts` is 2
  (10 in the code); it must exceed the wait for a retransmission after one loss.
* `SameClock` in `tcp_finish`: with clocks that differ by more than the factor
  of the linger time, the lingering peer is gone before the other one
  retransmits its FIN, and that one never comes to rest.  The run with
  independent clocks, `tcp_loss`, therefore asks only for what does not
  depend on them, that every byte is read.

Bounds of the program: the socket pair holds one byte, the streams of the copy
and of the sender one, the receiver two, so that every buffer is full and empty
in turn, a write is partial as soon as two bytes wait (finding 3 needs that), and
a thread is stopped by the other one.  Two bytes in one direction and one in the
other, in the two worlds without a fault and in the one with a reset, make each
stream close while another one still carries data.

Bounds of the wire: an absolute number goes through all 8 words, twice round the
raw numbers, in steps that are less than half their space from the last byte
counted; a checkpoint that is wrong by one payload (the mutant) is noticed.  Larger
spaces are left to the theorems.  Each value of a one-byte damage reaches every
field: 1 breaks a checksum by little, 6 turns the type of a frame with IPv4 into
that of one with ARP, 128 changes a top bit.
The addresses are chosen so that the sums of the checksums carry.

Bounds of the router and the internetwork: a time to live of 3 is just enough
for two routers.  In `internetwork` a mapping lives as long as a request, one
tick, so that any mapping may be gone when it is needed; `router` and
`network_interface` have mappings that outlive requests.  Two datagrams are
enough for one to wait, be overtaken or be overdue because of the other.

## 4. Fairness

`Reassembler!FairSpec`: every missing byte keeps being inserted, the reader
keeps reading.  This is what the sender's retransmission gives it.

`TCPConnection!FairSpec`: the event loop serves a rule that stays ready
(`WriteSome`, `CloseOutbound`, `ReadSome`, `DeliverSome`), applications write
all they have, close and read, and the loop measures time (`Tick`,
`TickTogether`).  All are weak: each stays enabled until it happens.  The
conditions are weak fairness with the enabling condition written out
(`[]<>~E \/ []<><<A>>_vars`), because TLC spends its time evaluating `ENABLED`
of handlers that are folds.  Losses are not fair and are bounded by
the budget; nothing is assumed about the order of deliveries.  A tick at rest
changes nothing and is not counted.  `_tcp_loop` waits at most 10 ms before it
ticks (`util/tcp_minnow_socket_impl.hh:29`), which justifies the fairness of time.

`CopyProgram!FairSpec`: both threads run, which the kernel's scheduler gives, and
`join()` returns once the thread has ended; the other host answers what it
receives and sends what it has.  Without further faults the users of the standard
input use it to its end.  Weak fairness, but for one condition: a loop
that turns for ever must see the clock advance (`TcpServe(1)` happens again and
again if the loop serves again and again).  An iteration that only waits is not
asked to happen.

`Internetwork!FairSpec`: segments carry frames, and the loops of hosts and
routers keep reading, routing and ticking (`apps/endtoend.cc:272`); again weak,
with the enabling conditions written out.

`NetworkInterface!FairSpec`: `tick()` is called for as long as the interface
exists.  No answer is assumed.

## 5. Properties and proofs

Each property is stated with its meaning in its module.  Every property of a
passing run has a mutant, a definition preceded by "Wrong on purpose": it is
the code's own definition with a plausible mistake, and the property fails when
it takes the place of the right one.  Nothing else uses these definitions.

Proved by TLAPS for every value of the constants:

* `Wrap32Proofs`, from `WidthAssumption` (the wide space is a multiple of
  the narrow one, at least twice as large): `UnwrapClosest`, the contract of `unwrap`
  also where the candidates `before`, `after` wrap round; and `RoundTrip`, a number
  less than half the sequence space from the checkpoint survives.
  The argument: the words with a given raw number are a residue class modulo
  `SeqSpace`; unwrap computes the class member at or below the checkpoint and
  the next one, modulo `WordSpace`, and takes the nearer.
* `WireProofs`, from `WireAssumption` as well (ends have addresses and ports of 16-bit
  halves, a sequence number has at most 32 bits, a segment fits into a
  datagram): `OneConnection` and `AnswersReachCaller`, for any callers, contacts
  and payloads; the invariants `TrackingInStep` and `TrackingClosest` of
  `Wrap32Tracking`, from its `ShapeAssumption` and the inductive invariant `TrackInv` (the
  checkpoint is the number of the last byte counted, without which nothing says
  that the next number is near it); and `WireTracks`, every behaviour of the
  wire, where nothing is damaged, is one of `Wrap32Tracking`, so that both invariants
  are invariants of the wire (`WireInStep`, `WireClosest`).
* `ReassemblerProofs`, from `SourceAssumption`: type correctness, the bound
  on what is stored, and the four safety invariants the run checks, for every stream, capacity and order of
  arrival.  They follow from one inductive invariant, `IInv`: the buffer has the size of
  the window at the last insertion, slot `i` is occupied exactly when byte
  `pushed + i` was accepted and then holds that byte, slot 1 is empty, the
  output is the prefix written, closed exactly at the known end, and
  counts never pass the length of the source.  No property alone is inductive:
  that the prefix stays right needs the slots, that the slots stay right needs
  the size of the buffer and the emptiness of slot 1.  `InsertStep` says what
  `Insert` does with a substring as a lemma about the operators, and
  `SubstringStep`, `KeepAliveStep` and `ReadStep` are the steps of `Next`.

* `NetworkInterfaceProofs`, from `TimesAssumption` and `InterfaceAssumption`: type
  correctness, `WaitsOnlyForAnswer`, `CacheIsCurrent`, `RequestsAreRare`,
  `GoesToNextHop`, `InOrderOnce` and `DroppedOnlyOverdue`, for any neighbours,
  timeouts and arguments of `tick()`.  The
  inductive invariant adds to these that the interface knows the age of every
  request that is not overdue (`RequestsTracked`: without it a request could be
  repeated early, and a datagram wait without one) and that a queue holds only
  datagrams for its hop (`QueuedForHop`: without it an answer could send others).
  The order has a second invariant, `Ordered`, inductive where `IInv` holds: what
  was sent was given, and `InOrderOnce`, which speaks of the queues as well as of
  what was sent.  The case that matters is a datagram for a hop whose address is
  known: it may go out at once only because nothing waits for that hop
  (`WaitsOnlyForAnswer`).  That an answer sends the whole queue of its
  hop, and nothing else, gives the order there, and that no datagram is lost but by `tick()`.
* `RouterProofs`, from `RouterAssumption`, `AddressAssumption` and `TimesAssumption`:
  `LongestPrefix`, `OrderKept`, `FollowsBestRoute` and `DroppedForReason`, all that the
  run `router` checks, for any interfaces, routes, neighbours and number of datagrams.

* `TCPConnectionProofs`, from `ConnectionAssumption`: type correctness,
  `AckedIsInPlace`, `OutstandingIsRecoverable`, `QuietMeansDelivered` and
  `ImplementsStream`, and `BackoffInStep`, for streams, buffers, windows and payloads of every size and
  whatever the network loses, duplicates, lets overtake or resets.  `RespectsWindow`
  needs two hypotheses more, stated in its theorem: `KeepsOrder`, the network loses
  segments but neither repeats nor reorders them (without it the property is
  false, section 6), and `WindowsOpen`, there is room for a byte and a field to say so
  (the program has 64000 bytes and 16 bits).  The
  run `tcp_loss` satisfies both.

The argument for the wire:

* The heart is that what is serialized is parsed.  Each call of a serializer appends
  bytes and moves none (`PutHalf`, `PutLong`, ... and `StillHolds`), so the
  lemmas on cells (`HeaderCells`, `SegmentCells`) say what every place of the
  finished header holds; the parser reads those places and takes the pieces together
  again (`HeaderBack`, `SegmentBack`: flags and offset share 16 bits, a sequence
  number has four bytes).
* The parser also checks the checksum, so the fold of `value()` must be known for
  every sum.  `ValueIs` says it is the complement of the sum modulo 65535, with 65535
  rather than 0 for a sum that is not 0; it is proved by induction on the sum, along the
  rounds of the loop.  `SumWith` says that the running sum of a text with the
  checksum in its field is the sum without it plus the checksum, and `Verifies`
  that the check then succeeds.  The
  router writes the checksum anew after it has lowered the time to live
  (`ForwardCarries`).
* `Carries` says what an input is worth: it parses as a datagram from one end to
  another that holds one message.  Wrapping gives such an input, forwarding keeps it one,
  a frame gives it back, and `Unwraps` says what an adapter makes of it.
* The inductive invariant `WireInv` says that nothing has reached the TCP peer while
  the adapter listens, and afterwards only what the adapter's destination sent to its
  source.  A SYN that the lossy adapter drops changes the adapter alone, which is why
  the invariant speaks of the adapter and not of what was received.

The argument for the router:

* The table is sorted and holds exactly the routes added (`AddKeepsTable`), and the
  first match of a sorted table is a longest one (`FirstIsLongest`).  The properties
  speak of blocks of addresses and the code compares bits: `MatchesIsCovers` says
  that two addresses have the same leading bits exactly when they lie in one block,
  by induction on the number of bits (`OneMoreBit`, `BitsAreBlock`).
* The inductive invariant `RouterInv` says of each interface (`Port`) that its state
  is in its types, that nothing waits for an address it knows, and that what it has sent to
  a hop, followed by what waits for it, is in order (`Order`); of what it has
  received and not routed, that it is as it arrived and in that order
  (`ReceivedOf`); and that all that is on its way arrived before what has not been routed
  (`RoutedBefore`).  `OrderKept` is not inductive alone: a datagram for a known
  address goes out at once, which keeps the order only if nothing waits for
  that hop, and one that is routed goes behind all others only if they
  arrived before it.
* `SendEffect`, `AnswerEffect`, `ArrivalEffect` and `TickEffect` say what an operation of
  an interface does to what waits and to what it sends; `PortSends`, `PortAnswers` and
  `PortTicks`, that the order survives them.
* `route()` is two loops.  The one over the interfaces concatenates what they have
  received (`FlattenSeq`, unfolded by `Flattened`), the one over the datagrams is a fold
  of `Forward` (`RouteAllSteps`).  Its invariant, `Round`, says that after `k` rounds
  each port is in order and has got exactly those of the first `k` datagrams that go
  by it (`Forwarded`); `RoundStep` is one round and `AllRounds` the induction.
* The action properties follow from `RouteEffect`: only `route()` adds to what
  goes to a hop (`OnlyRouteAdds`), what it adds is what it took, and only `tick()` and
  `route()` take away.

The argument for the connection:

* The inductive invariant `IInv` is `TypeOK` and `World`.  For each side it
  says four things.  The sender (`SenderOf`) numbers its bytes without gap, and
  its queue is a chain of segments from the oldest unacknowledged number `First`
  to `next_seqno`, each of which carries the bytes of the stream at its number;
  its timer runs while there is one.  The receiver (`ReceiverOf`)
  holds bytes of the other stream in their places (`Assembled`), knows the end only
  if there is one, and acknowledges what it has put in place.  The other
  sender's `First` is at most what the receiver has put in place.  Every
  segment in the network (`Sent`) carries the stream at its number, or is a
  reset, and acknowledges something put in place; and what the
  application has read is a prefix of the stream.
* None of the checked properties is inductive alone.  `AckedIsInPlace` needs that
  acknowledgments in the network, however old, are of numbers in place;
  that what is in place is right needs truthful segments; that a retransmitted
  segment is truthful needs the queue; that the queue is a chain needs that an
  acknowledgment is unwrapped to the number meant, for which the stream must be
  shorter than half the sequence space (part of `ConnectionAssumption`): the
  network of the model may keep a segment for ever, and a number that has
  come round once more cannot be told from a new one.  The theorems thus say
  nothing of a stream of 2 GiB or more, where the real program relies on
  old segments not living that long.
* `ReassemblyProofs` says that `Insert` keeps `Assembled` for any truthful
  substring and never takes back what it has; `TCPSenderProofs` that `push`,
  `receive` and `tick` keep `SenderOf` and transmit only truthful segments.
  The loops of the sender are folds: `FoldLeft` over a sequence is unfolded into
  the sequence of its intermediate results (`SendAllSteps`) and the invariant of the loop is carried
  along it by induction on a set of numbers (`SetInduction`).
* There is one lemma for each action of `Next`; each says of the side that acts
  what the handler does to its peer, and of the other side that it sees its
  own part unchanged (`Receives`, `Extends`).
* The refinement (`StreamImplemented`) shows in `StreamStep` that an action changes the
  mapped variables of one direction as a write, a close, an arrival, an end
  or not at all, and uses `IInv` for what arrives to be what was written.

* The timeout is the initial one doubled once for each retransmission, up to the
  bound of the model (`RtoAfter`).  The bounds `MaxRTO` and `MaxRetx` belong to the model, and
  the assumption `MaxRTO <= RtTimeout * TwoTo[MaxRetx]` keeps the counter from
  stopping before the timeout does.

* `RespectsWindow` has a second invariant, `WindowInv`, inductive where `IInv` and the
  two hypotheses hold.  What a receiver has in place and the right edge of its window
  make an offer; an offer of a receiver never shrinks, nor one that it makes
  later (`OfferGrows`), because bytes leave the room only into the hands of the
  application.  `Growing` says that the offers on their way are in order, none less than
  what the sender holds and none more than the receiver would make now;
  losing a segment keeps that, repeating or reordering one does not.
  `Within` says that the sender has kept to the offer it holds: `next_seqno` is at most
  one number past its edge, and only by a probe of a closed window or by the FIN
  after one (`Slack`, `Probing`).  An acknowledgment may cover a part of a segment,
  which stays outstanding as a whole, so the place of the offer (`x`) may be past `First`;
  that `Within` counts from `x`, as the receiver does, is what makes it inductive.

Type correctness and the bound on the storage are theorems only; no run repeats
them.  Only model-checked:

* `QuietMeansEnded`, which finding 1 refutes where the window closes before the FIN;
* `DamageIsNoticed`: a checksum does not notice every damage, so it holds only for
  damages that are given (`MCDamage`), and there TLC tries each of them;
* the program (`CopyProgram`), whose properties are of two event loops and of what `poll()`
  saw before the other thread went on: an invariant would have to list every
  stale interest and report of seven rules;
* the internetwork, whose properties are a refinement of what many interfaces
  hold at once and the end of loops;
* every liveness property: TLAPS proves none under fairness.

## 6. What the runs found

1. `tcp_zero_window_fin`: the last data fills the window exactly, is
   acknowledged with window 0, and the stream is closed after that.  `push()`
   sends a FIN into a closed window only after a probe (`fin_ready_`,
   `src/tcp_sender.cc:199`), there is no data to probe with, and
   `TCPPeer::active()` counts the outbound stream as finished.  The peer goes
   to rest without a FIN.  The comments at lines 100 and 131 say that this
   case is handled.
2. `tcp_destructed`: destruction of a connected socket sends no RST, which
   `util/tcp_minnow_socket.hh:34` says it does.
3. `partial_write`: after a reset, rule 3 of the socket writes what the local
   socket has room for and then shuts it down for writing at once
   (`util/tcp_minnow_socket_impl.hh:150`), though bytes remain buffered and the
   rule stays interested in them (line 160).  Its next write meets a closed socket
   and kills the process.  The comment at line 141 says that partial writes are handled.

Observed while modelling, with no run of their own:

* The window of every acknowledgment is taken, also of old ones
  (`src/tcp_sender.cc:173`): when acknowledgments overtake each other the sender may
  run past the receiver's window.  What lies beyond is discarded by the
  receiver and sent again.  `RespectsWindow` is therefore checked in `tcp_loss` and
  proved (`WindowStaysRespected`) where the network keeps the order; `tcp_disorder` shows that the stream survives it.
* `MAX_RETX_ATTEMPTS` (`util/tcp_config.hh:16`) is used nowhere: the sender never
  gives up.  The model has no such limit either.
* The thread of the socket ends with a shutdown of the owner's end of the local pair
  and so increments `read_count_` and `write_count_`
  (`util/file_descriptor.hh:51`), which the owner's loop compares around a callback,
  without a lock.  The model counts per callback and does not show this race; an
  increment too many or too few could hide or cause the busy-wait exception.
* `wait_until_closed()` may wait for ever if the other host never ends its stream.
  `util/tcp_minnow_socket.hh:24` says so; `ProgramFinishes` assumes that it does.

## 7. Not modelled, and the plan

Next, in this order:

1. That no write of `CopyProgram` meets a closed socket without a fault
   (`KilledOnlyAfterFault`), by an invariant that relates what each loop asked `poll()` for to
   what the other may shut down meanwhile.
2. `Internetwork!ImplementsService`, from the lemmas of `RouterProofs` on one interface.
3. `TCPConnection` over `BestEffort`: that the network of the connection model is
   what the internetwork provides; `CopyProgram` over the frames of `endtoend`,
   whose network thread is a third event loop.

Left out for good: the bytes of ARP messages and the segmentation of buffers (data
conversion without state), header options, formatting, name resolution, random
numbers, parsing of command lines, logging, the programs that use the sockets of
the kernel (`webget`, `tcp_native`), and what no program uses: rules without a
descriptor and `RuleHandle::cancel`.
