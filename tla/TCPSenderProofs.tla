--------------------------- MODULE TCPSenderProofs ---------------------------
(***************************************************************************)
(* What the member functions of one TCPSender do, whoever calls them: the   *)
(* lemmas that the theorems about TCPConnection rest on.                    *)
(***************************************************************************)
EXTENDS TCPSender, ReassemblyProofs

-----------------------------------------------------------------------------
(* The two folds of TCPSender, one message after the other *)

Apply(op, a, b) == IF op = "Send" THEN Send(a, b) ELSE PopOldest(a, b)

\* The function that a fold is computed with, on the subsets of 1 .. k.
IsFold(it, op, base, seq, k) ==
  it = [s \in SUBSET (1 .. k) |->
          IF s = {} THEN base ELSE Apply(op, it[s \ {Max(s)}], seq[Max(s)])]

ApplyAll(op, base, seq) ==
  (CHOOSE it : it = [s \in SUBSET DOMAIN seq |->
      IF s = {} THEN base ELSE Apply(op, it[s \ {Max(s)}], seq[Max(s)])])[DOMAIN seq]

LEMMA FoldExists ==
  ASSUME NEW op, NEW base, NEW seq
  PROVE  \A k \in Nat : \E it : IsFold(it, op, base, seq, k)
<1> DEFINE T == { k \in Nat : \E it : IsFold(it, op, base, seq, k) }
<1>1. 0 \in T
  <2> DEFINE it0 == [s \in SUBSET (1 .. 0) |-> base]
  <2>1. \A s \in SUBSET (1 .. 0) : s = {}
    OBVIOUS
  <2>2. IsFold(it0, op, base, seq, 0)
    BY <2>1, Zenon DEF IsFold
  <2> QED BY <2>2
<1>2. ASSUME NEW k \in Nat, k \in T PROVE k + 1 \in T
  <2>1. PICK it : IsFold(it, op, base, seq, k)
    BY <1>2
  <2> DEFINE new == [s \in SUBSET (1 .. k + 1) |->
                IF k + 1 \in s THEN Apply(op, it[s \ {k + 1}], seq[k + 1]) ELSE it[s]]
             body(s) == IF s = {} THEN base ELSE Apply(op, new[s \ {Max(s)}], seq[Max(s)])
  <2>2. ASSUME NEW s \in SUBSET (1 .. k + 1) PROVE new[s] = body(s)
    <3>1. CASE k + 1 \in s
      <4>1. \A y \in s : y \in Int /\ k + 1 >= y
        OBVIOUS
      <4>2. Max(s) = k + 1
        <5>1. \E z \in s : \A y \in s : z >= y
          BY <3>1, <4>1
        <5>2. Max(s) \in s /\ \A y \in s : Max(s) >= y
          BY <5>1, Zenon DEF Max
        <5> DEFINE m == Max(s)
        <5>3. m \in s /\ m >= k + 1
          BY <3>1, <5>2
        <5> HIDE DEF m
        <5>4. m = k + 1
          BY <4>1, <5>3
        <5> QED
          BY <5>4 DEF m
      <4>3. s \ {k + 1} \in SUBSET (1 .. k + 1) /\ k + 1 \notin s \ {k + 1} /\ s # {}
        BY <3>1
      <4> QED
        BY <3>1, <4>2, <4>3
    <3>2. CASE k + 1 \notin s
      <4>1. s \in SUBSET (1 .. k)
        BY <3>2
      <4>2. it[s] = IF s = {} THEN base ELSE Apply(op, it[s \ {Max(s)}], seq[Max(s)])
        BY <2>1, <4>1, Zenon DEF IsFold
      <4>3. s \ {Max(s)} \in SUBSET (1 .. k + 1) /\ k + 1 \notin s \ {Max(s)}
        BY <3>2
      <4> QED
        BY <3>2, <4>2, <4>3
    <3> QED BY <3>1, <3>2
  <2>3. IsFold(new, op, base, seq, k + 1)
    <3>1. new = [s \in SUBSET (1 .. k + 1) |-> body(s)]
      <4>1. new = [s \in SUBSET (1 .. k + 1) |-> new[s]]
        BY Zenon
      <4> HIDE DEF new
      <4> QED BY <4>1, <2>2, Zenon
    <3> HIDE DEF new
    <3> QED BY <3>1, Zenon DEF IsFold
  <2> QED BY <2>3
<1> HIDE DEF T
<1>3. \A k \in Nat : k \in T
  BY <1>1, <1>2, SetInduction
<1> QED
  BY <1>3 DEF T

LEMMA FoldSteps ==
  ASSUME NEW op, NEW base, NEW S, NEW seq \in Seq(S)
  PROVE  \E g : /\ g[0] = base
                /\ \A k \in 1 .. Len(seq) : g[k] = Apply(op, g[k - 1], seq[k])
                /\ ApplyAll(op, base, seq) = g[Len(seq)]
<1> DEFINE n == Len(seq)
           it == CHOOSE it : it = [s \in SUBSET DOMAIN seq |->
                    IF s = {} THEN base ELSE Apply(op, it[s \ {Max(s)}], seq[Max(s)])]
<1>1. DOMAIN seq = 1 .. n /\ n \in Nat
  OBVIOUS
<1>2. ApplyAll(op, base, seq) = it[DOMAIN seq]
  BY DEF ApplyAll
<1>3. IsFold(it, op, base, seq, n)
  <2>1. \E x : IsFold(x, op, base, seq, n)
    BY <1>1, FoldExists
  <2>2. it = CHOOSE x : IsFold(x, op, base, seq, n)
    BY <1>1, Zenon DEF IsFold
  <2> QED BY <2>1, <2>2, Zenon
<1> HIDE DEF it
<1> DEFINE g == [k \in 0 .. n |-> it[1 .. k]]
<1>4. g[0] = base
  <2>1. 1 .. 0 = {} /\ {} \in SUBSET (1 .. n) /\ 0 \in 0 .. n
    BY <1>1
  <2>2. it[{}] = base
    BY <1>3, <2>1, Zenon DEF IsFold
  <2> QED BY <2>1, <2>2
<1>5. ASSUME NEW k \in 1 .. n PROVE g[k] = Apply(op, g[k - 1], seq[k])
  <2>1. 1 .. k \in SUBSET (1 .. n) /\ 1 .. k # {} /\ (1 .. k) \ {k} = 1 .. k - 1 
        /\ k \in 0 .. n /\ k - 1 \in 0 .. n
    BY <1>1
  <2>2. Max(1 .. k) = k
    BY DEF Max
  <2>3. it[1 .. k] = Apply(op, it[(1 .. k) \ {Max(1 .. k)}], seq[Max(1 .. k)])
    BY <1>3, <2>1, Zenon DEF IsFold
  <2> QED BY <2>1, <2>2, <2>3, Zenon
<1>6. ApplyAll(op, base, seq) = g[n]
  BY <1>1, <1>2
<1> QED
  <2> HIDE DEF g
  <2> QED BY <1>4, <1>5, <1>6

SentInTurn(g, base, seq) ==
  /\ g[0] = base
  /\ \A k \in 1 .. Len(seq) : g[k] = Send(g[k - 1], seq[k])
  /\ SendAll(base, seq) = g[Len(seq)]

LEMMA SendAllSteps ==
  ASSUME NEW base, NEW S, NEW seq \in Seq(S)
  PROVE  \E g : SentInTurn(g, base, seq)
<1>1. \A a, b : Send(a, b) = Apply("Send", a, b)
  BY DEF Apply
<1> HIDE DEF Send
<1>2. SendAll(base, seq) = ApplyAll("Send", base, seq)
  BY <1>1 DEF SendAll, FoldLeft, MapThenFoldSet, ApplyAll
<1> QED
  BY <1>1, <1>2, FoldSteps DEF SentInTurn

PoppedInTurn(g, base, seq) ==
  /\ g[0] = base
  /\ \A k \in 1 .. Len(seq) : g[k] = PopOldest(g[k - 1], seq[k])
  /\ PopAll(base, seq) = g[Len(seq)]

LEMMA PopAllSteps ==
  ASSUME NEW base, NEW S, NEW seq \in Seq(S)
  PROVE  \E g : PoppedInTurn(g, base, seq)
<1>1. \A a, b : PopOldest(a, b) = Apply("PopOldest", a, b)
  BY DEF Apply
<1> HIDE DEF PopOldest
<1>2. PopAll(base, seq) = ApplyAll("PopOldest", base, seq)
  BY <1>1 DEF PopAll, FoldLeft, MapThenFoldSet, ApplyAll
<1> QED
  BY <1>1, <1>2, FoldSteps DEF PoppedInTurn

-----------------------------------------------------------------------------
(* What holds of a sender of the byte stream D *)

MessageRecord ==
  [seqno : Raw, SYN : BOOLEAN, payload : Seq(Nat), FIN : BOOLEAN, RST : BOOLEAN]

SenderRecord ==
  [input : ByteStreamOf(Nat), isn : Raw, window_size : Nat, outstanding : Seq(MessageRecord),
   next_seqno : Nat, syn_sent : BOOLEAN, bytes_unack : Int,
   consecutive_retransmissions : Nat, RTO : Nat, timer : Nat, timer_active : BOOLEAN,
   fin_set : BOOLEAN, zero_window_probe_sent : BOOLEAN, zero_window_probe_seqno : Int,
   fin_ready : BOOLEAN]

StepRecord == [snd : SenderRecord, out : Seq(MessageRecord)]

\* The stream index of the first byte at sequence number a.
IndexOf(a) == IF a = 0 THEN 0 ELSE a - 1

\* m is a part of the stream, not empty, at the absolute sequence number a; its
\* SYN and its FIN are where the stream begins and ends.
Carries(m, a, isn, D, in) ==
  /\ a \in Nat /\ m.seqno = Wrap(a, isn)
  /\ m.SYN <=> a = 0
  /\ m.payload \in Seq(Nat) /\ m.FIN \in BOOLEAN /\ m.SYN \in BOOLEAN
  /\ IndexOf(a) + Len(m.payload) <= in.pushed
  /\ \A i \in 1 .. Len(m.payload) : m.payload[i] = D[IndexOf(a) + i]
  /\ m.FIN => in.is_closed /\ IndexOf(a) + Len(m.payload) = in.pushed
  /\ SequenceLength(m) > 0

\* What a sender may put on its way: a reset, a bare acknowledgment or a part
\* of its stream.
Sound(m, isn, D, in) ==
  \/ m.RST
  \/ ~ m.SYN /\ m.payload = <<>> /\ ~ m.FIN
  \/ \E a \in Nat : Carries(m, a, isn, D, in)

\* The outbound stream holds the bytes of D that have been written and not
\* yet sent for the first time.
InputOf(in, D) ==
  /\ D \in Seq(Nat) /\ in \in ByteStreamOf(Nat)
  /\ in.pushed <= Len(D) /\ in.pushed = in.popped + Len(in.stream)
  /\ \A i \in 1 .. Len(in.stream) : in.stream[i] = D[in.popped + i]
  /\ in.is_closed => in.pushed = Len(D)

First(snd) == snd.next_seqno - snd.bytes_unack

\* The outstanding messages lie one behind the other, the i-th of them at
\* st[i], from the oldest number not acknowledged to the next one.
QueueAt(snd, D, st) ==
  /\ st \in [1 .. Len(snd.outstanding) + 1 -> Nat]
  /\ st[1] = First(snd) /\ st[Len(snd.outstanding) + 1] = snd.next_seqno
  /\ \A i \in 1 .. Len(snd.outstanding) :
       /\ Carries(snd.outstanding[i], st[i], snd.isn, D, snd.input)
       /\ st[i + 1] = st[i] + SequenceLength(snd.outstanding[i])
  /\ \A i, j \in 1 .. Len(snd.outstanding) + 1 : i <= j => st[i] <= st[j]

Queue(snd, D) == \E st : QueueAt(snd, D, st)

\* The timer runs for what is outstanding and has not expired; its timeout is
\* in step with the count of retransmissions.
Timed(snd) ==
  /\ snd.RTO > 0 /\ snd.RTO = RtoAfter(snd.consecutive_retransmissions)
  /\ snd.consecutive_retransmissions <= MaxRetx
  /\ snd.timer_active => snd.timer < snd.RTO
  /\ snd.outstanding # <<>> => snd.timer_active

\* The sequence numbers in use: the SYN, the bytes taken from the outbound
\* stream and the FIN.
Numbered(snd) ==
  /\ snd.next_seqno = (IF snd.syn_sent THEN 1 ELSE 0) + snd.input.popped
                         + (IF snd.fin_set THEN 1 ELSE 0)
  /\ ~ snd.syn_sent => snd.input.popped = 0 /\ ~ snd.fin_set
  /\ snd.fin_set \/ snd.fin_ready => snd.input.is_closed /\ snd.input.popped = snd.input.pushed

\* How far past the window a sender may be: a probe of a closed window and a FIN
\* that waited for the last probe go where there is no room.
Slack(snd) == IF snd.zero_window_probe_sent \/ snd.fin_set THEN 1 ELSE 0

\* The last message outstanding is a probe, one byte into a closed window; a
\* FIN that is due has nothing before it left to wait for.
Probing(snd) ==
  ~ snd.input.error =>
    /\ snd.zero_window_probe_sent =>
         /\ snd.window_size = 0 /\ snd.syn_sent
         /\ snd.zero_window_probe_seqno + 1 = snd.next_seqno
         /\ snd.outstanding # <<>>
         /\ SequenceLength(snd.outstanding[Len(snd.outstanding)]) = 1
    /\ snd.fin_ready /\ ~ snd.fin_set => First(snd) = snd.next_seqno /\ snd.syn_sent

\* The sender keeps to the window that was announced together with the
\* absolute acknowledgment number x.
Within(snd, x) ==
  /\ First(snd) <= x
  /\ snd.next_seqno <= x + snd.window_size + Slack(snd)
  /\ x = 0 => snd.window_size > 0
  /\ Probing(snd)

SenderOf(snd, D) ==
  /\ snd \in SenderRecord
  /\ InputOf(snd.input, D)
  /\ Numbered(snd)
  /\ First(snd) \in 0 .. snd.next_seqno
  /\ snd.input.error => snd.outstanding = <<>>
  /\ ~ snd.input.error => Queue(snd, D)
  /\ Timed(snd)

\* What pushing and the passing of time leave alone.
Keeps(snd, q) ==
  /\ q.isn = snd.isn /\ First(q) = First(snd)
  /\ q.input.pushed = snd.input.pushed /\ q.input.is_closed = snd.input.is_closed
  /\ q.input.error = snd.input.error
  /\ snd.syn_sent => q.syn_sent

\* A step of a sender that was before.
StepOf(before, step, D) ==
  /\ step \in StepRecord
  /\ SenderOf(step.snd, D)
  /\ Keeps(before, step.snd)
  /\ \A i \in 1 .. Len(step.out) : Sound(step.out[i], before.isn, D, before.input)

-----------------------------------------------------------------------------
(* One message sent *)

LEMMA LengthOfMessage ==
  ASSUME NEW m, m.SYN \in BOOLEAN, m.payload \in Seq(Nat), m.FIN \in BOOLEAN
  PROVE  SequenceLength(m) \in Nat
<1> DEFINE n   == Len(m.payload)
           syn == IF m.SYN THEN 1 ELSE 0
           fin == IF m.FIN THEN 1 ELSE 0
<1>1. n \in Nat /\ syn \in Nat /\ fin \in Nat
  BY LenProperties
<1>2. SequenceLength(m) = syn + n + fin
  BY DEF SequenceLength
<1> HIDE DEF n, syn, fin
<1> QED
  BY <1>1, <1>2

\* The window that was announced, and the probe of a closed one.
SameWindow(snd, q) ==
  /\ q.window_size = snd.window_size
  /\ q.zero_window_probe_sent = snd.zero_window_probe_sent
  /\ q.zero_window_probe_seqno = snd.zero_window_probe_seqno

Sends(a, b, m, D) ==
  /\ b \in StepRecord /\ b.out = Append(a.out, m)
  /\ Queue(b.snd, D) /\ Timed(b.snd)
  /\ First(b.snd) = First(a.snd)
  /\ b.snd.next_seqno = a.snd.next_seqno + SequenceLength(m)
  /\ b.snd.fin_set = (a.snd.fin_set \/ m.FIN)
  /\ b.snd.input = a.snd.input /\ b.snd.isn = a.snd.isn
  /\ b.snd.syn_sent = a.snd.syn_sent /\ b.snd.fin_ready = a.snd.fin_ready
  /\ b.snd.outstanding = Append(a.snd.outstanding, m)
  /\ SameWindow(a.snd, b.snd)

\* A message that goes on where the last one ended joins the queue.
LEMMA QueueAppend ==
  ASSUME NEW D, NEW snd \in SenderRecord, NEW q \in SenderRecord, NEW m \in MessageRecord,
         Queue(snd, D), First(snd) \in 0 .. snd.next_seqno,
         Carries(m, snd.next_seqno, snd.isn, D, snd.input),
         q.outstanding = Append(snd.outstanding, m), q.isn = snd.isn, q.input = snd.input,
         q.next_seqno = snd.next_seqno + SequenceLength(m), First(q) = First(snd)
  PROVE  Queue(q, D)
<1> DEFINE os == snd.outstanding
           n  == Len(os)
           len == SequenceLength(m)
           new == Append(os, m)
<1>1. PICK st : QueueAt(snd, D, st)
  BY DEF Queue
<1>2. os \in Seq(MessageRecord) /\ snd.next_seqno \in Nat
  BY DEF SenderRecord
<1>3. /\ n \in Nat /\ new \in Seq(MessageRecord) /\ Len(new) = n + 1
      /\ \A i \in 1 .. n : new[i] = os[i]
      /\ new[n + 1] = m
  BY <1>2, LenProperties, AppendProperties
<1>4. len \in Nat
  BY LengthOfMessage DEF MessageRecord
<1> DEFINE last == snd.next_seqno + len
           nst == [i \in 1 .. n + 2 |-> IF i = n + 2 THEN last ELSE st[i]]
<1>5. /\ st \in [1 .. n + 1 -> Nat] /\ st[1] = First(snd) /\ st[n + 1] = snd.next_seqno
      /\ \A i \in 1 .. n : Carries(os[i], st[i], snd.isn, D, snd.input)
      /\ \A i \in 1 .. n : st[i + 1] = st[i] + SequenceLength(os[i])
      /\ \A i, j \in 1 .. n + 1 : i <= j => st[i] <= st[j]
  BY <1>1 DEF QueueAt
<1> HIDE DEF len, new, n, os
<1>6. last \in Nat /\ snd.next_seqno <= last
  BY <1>2, <1>4
<1>7. \A i \in 1 .. n + 1 : i # n + 2 /\ i \in 1 .. n + 2 /\ st[i] \in Nat /\ st[i] <= snd.next_seqno
  BY <1>3, <1>5
<1>8. nst \in [1 .. n + 2 -> Nat] /\ nst[n + 2] = last
      /\ \A i \in 1 .. n + 1 : nst[i] = st[i]
  <2>1. \A i \in 1 .. n + 2 : i = n + 2 \/ i \in 1 .. n + 1
    BY <1>3
  <2>2. n + 2 \in 1 .. n + 2
    BY <1>3
  <2> HIDE DEF last
  <2> QED
    BY <1>6, <1>7, <2>1, <2>2
<1> HIDE DEF nst
<1>9. nst[1] = First(snd)
  BY <1>3, <1>5, <1>8
<1>10. \A i \in 1 .. n + 1 : Carries(new[i], nst[i], snd.isn, D, snd.input)
  <2> TAKE i \in 1 .. n + 1
  <2>1. CASE i = n + 1
    BY <2>1, <1>3, <1>5, <1>8
  <2>2. CASE i # n + 1
    <3>1. i \in 1 .. n
      BY <2>2, <1>3
    <3> QED
      BY <3>1, <1>3, <1>5, <1>8
  <2> QED
    BY <2>1, <2>2
<1>11. \A i \in 1 .. n + 1 : nst[i + 1] = nst[i] + SequenceLength(new[i])
  <2> TAKE i \in 1 .. n + 1
  <2>1. CASE i = n + 1
    <3>1. nst[(n + 1) + 1] = last /\ nst[n + 1] = snd.next_seqno
      BY <1>3, <1>5, <1>8
    <3> QED
      BY <2>1, <3>1, <1>3 DEF len
  <2>2. CASE i # n + 1
    <3>1. i \in 1 .. n /\ i + 1 \in 1 .. n + 1
      BY <2>2, <1>3
    <3> QED
      BY <3>1, <1>3, <1>5, <1>8
  <2> QED
    BY <2>1, <2>2
<1>12. \A i, j \in 1 .. n + 2 : i <= j => nst[i] <= nst[j]
  <2> SUFFICES ASSUME NEW i \in 1 .. n + 2, NEW j \in 1 .. n + 2, i <= j PROVE nst[i] <= nst[j]
    OBVIOUS
  <2>1. CASE i = n + 2
    <3>1. j = n + 2
      BY <2>1, <1>3
    <3> QED
      BY <2>1, <3>1, <1>6, <1>8
  <2>2. CASE i # n + 2 /\ j = n + 2
    <3>1. i \in 1 .. n + 1
      BY <2>2, <1>3
    <3> QED
      BY <2>2, <3>1, <1>2, <1>6, <1>7, <1>8
  <2>3. CASE j # n + 2
    <3>1. i \in 1 .. n + 1 /\ j \in 1 .. n + 1
      BY <2>3, <1>3
    <3> QED
      BY <3>1, <1>5, <1>8
  <2> QED
    BY <2>1, <2>2, <2>3
<1>13. q.outstanding = new /\ Len(q.outstanding) = n + 1 /\ (n + 1) + 1 = n + 2
       /\ q.next_seqno = last
  BY <1>3 DEF new, os, len
<1>14. QueueAt(q, D, nst)
  <2> HIDE DEF last
  <2> QED
    BY <1>8, <1>9, <1>10, <1>11, <1>12, <1>13 DEF QueueAt
<1> QED
  BY <1>14 DEF Queue

LEMMA SendStep ==
  ASSUME NEW D, NEW step \in StepRecord, NEW m \in MessageRecord,
         Queue(step.snd, D), Timed(step.snd), First(step.snd) \in 0 .. step.snd.next_seqno,
         Carries(m, step.snd.next_seqno, step.snd.isn, D, step.snd.input)
  PROVE  Sends(step, Send(step, m), m, D)
<1> DEFINE snd == step.snd
           len == SequenceLength(m)
           q   == Send(step, m).snd
<1>1. snd \in SenderRecord /\ step.out \in Seq(MessageRecord)
  BY DEF StepRecord
<1>2. len \in Nat
  BY LengthOfMessage DEF MessageRecord
<1>3. /\ q.outstanding = Append(snd.outstanding, m)
      /\ q.next_seqno = snd.next_seqno + len
      /\ q.bytes_unack = snd.bytes_unack + len
      /\ q.fin_set = (snd.fin_set \/ m.FIN)
      /\ q.timer = (IF snd.timer_active THEN snd.timer ELSE 0)
      /\ q.timer_active = TRUE
      /\ q.input = snd.input /\ q.isn = snd.isn /\ q.syn_sent = snd.syn_sent
      /\ q.fin_ready = snd.fin_ready /\ q.window_size = snd.window_size
      /\ q.zero_window_probe_sent = snd.zero_window_probe_sent
      /\ q.zero_window_probe_seqno = snd.zero_window_probe_seqno
      /\ q.RTO = snd.RTO
      /\ q.consecutive_retransmissions = snd.consecutive_retransmissions
      /\ Send(step, m) = [snd |-> q, out |-> Append(step.out, m)]
  BY <1>1 DEF Send, SenderRecord
<1>4. q \in SenderRecord
  <2>1. Append(snd.outstanding, m) \in Seq(MessageRecord)
    BY <1>1, AppendProperties DEF SenderRecord
  <2>2. snd.next_seqno + len \in Nat /\ snd.bytes_unack + len \in Int
    BY <1>1, <1>2 DEF SenderRecord
  <2>3. (snd.fin_set \/ m.FIN) \in BOOLEAN
        /\ (IF snd.timer_active THEN snd.timer ELSE 0) \in Nat
    BY <1>1 DEF SenderRecord
  <2>4. q = [snd EXCEPT !.outstanding = Append(snd.outstanding, m),
                        !.next_seqno = snd.next_seqno + len,
                        !.bytes_unack = snd.bytes_unack + len,
                        !.fin_set = snd.fin_set \/ m.FIN,
                        !.timer = IF snd.timer_active THEN snd.timer ELSE 0,
                        !.timer_active = TRUE]
    BY <1>1 DEF Send, SenderRecord
  <2> HIDE DEF q, len, snd
  <2> QED
    BY <1>1, <2>1, <2>2, <2>3, <2>4 DEF SenderRecord
<1>5. Send(step, m) \in StepRecord
  <2>1. Append(step.out, m) \in Seq(MessageRecord)
    BY <1>1, AppendProperties
  <2> HIDE DEF q
  <2> QED
    BY <1>3, <1>4, <2>1 DEF StepRecord
<1>6. First(q) = First(snd)
  <2>1. snd.next_seqno \in Nat /\ snd.bytes_unack \in Int
    BY <1>1 DEF SenderRecord
  <2> HIDE DEF q, len, snd
  <2> QED
    BY <1>2, <1>3, <2>1 DEF First
<1> HIDE DEF q
<1>7. Queue(q, D)
  BY <1>1, <1>3, <1>4, <1>6, QueueAppend
<1>8. Timed(q)
  BY <1>1, <1>3 DEF Timed, SenderRecord
<1> QED
  BY <1>3, <1>5, <1>6, <1>7, <1>8 DEF Sends, SameWindow

-----------------------------------------------------------------------------
(* Bytes taken from the outbound stream *)

Takes(in, rest, n) ==
  /\ rest.popped = in.popped + n /\ rest.pushed = in.pushed
  /\ rest.is_closed = in.is_closed /\ rest.error = in.error
  /\ rest.stream = Suffix(in.stream, n) /\ Len(rest.stream) = Len(in.stream) - n

LEMMA PopInput ==
  ASSUME NEW D, NEW in, InputOf(in, D), NEW n \in 0 .. Len(in.stream)
  PROVE  InputOf(Pop(in, n), D) /\ Takes(in, Pop(in, n), n)
<1> DEFINE rest == Suffix(in.stream, n)
           len  == Len(in.stream)
           out  == Pop(in, n)
<1>1. /\ D \in Seq(Nat) /\ in \in ByteStreamOf(Nat)
      /\ in.pushed <= Len(D) /\ in.pushed = in.popped + len
      /\ \A i \in 1 .. len : in.stream[i] = D[in.popped + i]
      /\ in.is_closed => in.pushed = Len(D)
  BY DEF InputOf
<1>2. in.stream \in Seq(Nat) /\ in.popped \in Nat /\ in.pushed \in Nat
  BY <1>1 DEF ByteStreamOf
<1>3. len \in Nat /\ n \in Nat /\ n <= len
  BY <1>2, LenProperties
<1>4. /\ rest \in Seq(Nat) /\ Len(rest) = len - n
      /\ \A i \in 1 .. len - n : rest[i] = in.stream[n + i]
  BY <1>2, SuffixOf
<1>5. Smaller(n, Len(in.stream)) = n
  BY <1>3 DEF Smaller
<1>6. out = [in EXCEPT !.stream = rest, !.popped = in.popped + n]
  BY <1>1, <1>5 DEF Pop, ByteStreamOf
<1> HIDE DEF rest, len
<1>7. in.popped + n \in Nat
  BY <1>2, <1>3
<1>8. /\ out \in ByteStreamOf(Nat) /\ out.stream = rest /\ out.popped = in.popped + n
      /\ out.pushed = in.pushed /\ out.is_closed = in.is_closed /\ out.error = in.error
  <2> HIDE DEF out
  <2> QED
    BY <1>1, <1>4, <1>6, <1>7 DEF ByteStreamOf
<1> HIDE DEF out
<1>9. out.pushed = out.popped + Len(out.stream)
  BY <1>1, <1>2, <1>3, <1>4, <1>8
<1>10. \A i \in 1 .. Len(out.stream) : out.stream[i] = D[out.popped + i]
  <2> SUFFICES ASSUME NEW i \in 1 .. len - n PROVE rest[i] = D[(in.popped + n) + i]
    BY <1>4, <1>8
  <2>1. n + i \in 1 .. len /\ in.popped + (n + i) = (in.popped + n) + i
    BY <1>2, <1>3
  <2> QED
    BY <1>1, <1>4, <2>1
<1>11. InputOf(out, D)
  BY <1>1, <1>8, <1>9, <1>10 DEF InputOf
<1>12. Takes(in, out, n)
  BY <1>4, <1>8 DEF Takes, rest, len
<1> QED
  BY <1>11, <1>12 DEF out

\* A piece of what waits in the outbound stream in, as a message at a.
Piece(in, isn, a, lo, hi, fin) ==
  SenderMessage(Wrap(a, isn), a = 0, SubSeq(in.stream, lo, hi), fin)

PieceIn(m, D, in, isn, a, bytes, fin) ==
  /\ m \in MessageRecord /\ m.FIN = fin
  /\ Carries(m, a, isn, D, in)
  /\ SequenceLength(m) = (IF a = 0 THEN 1 ELSE 0) + bytes + (IF fin THEN 1 ELSE 0)

LEMMA PieceCarried ==
  ASSUME NEW D, NEW in, InputOf(in, D), NEW after, after.pushed = in.pushed,
         after.is_closed = in.is_closed, NEW isn \in Raw, NEW fin \in BOOLEAN,
         NEW lo \in 1 .. Len(in.stream) + 1, NEW hi \in lo - 1 .. Len(in.stream),
         NEW a \in Nat, IndexOf(a) = in.popped + (lo - 1), a = 0 \/ lo <= hi \/ fin,
         fin => in.is_closed /\ hi = Len(in.stream)
  PROVE  PieceIn(Piece(in, isn, a, lo, hi, fin), D, after, isn, a, (hi - lo) + 1, fin)
<1> DEFINE data == SubSeq(in.stream, lo, hi)
           len  == Len(in.stream)
           m    == Piece(in, isn, a, lo, hi, fin)
<1>1. /\ in.stream \in Seq(Nat) /\ in.popped \in Nat /\ in.pushed \in Nat
      /\ in.pushed = in.popped + len
      /\ \A i \in 1 .. len : in.stream[i] = D[in.popped + i]
  BY DEF InputOf, ByteStreamOf
<1>2. len \in Nat /\ lo \in Nat /\ hi \in Nat /\ lo - 1 <= hi /\ hi <= len /\ lo >= 1
  <2>1. len \in Nat
    BY <1>1, LenProperties
  <2> QED
    BY <2>1
<1>3. \A i \in lo .. hi : in.stream[i] \in Nat
  <2> TAKE i \in lo .. hi
  <2>1. i \in 1 .. len
    BY ONLY <1>2, i \in lo .. hi
  <2> QED
    BY <1>1, <2>1, ElementOfSeq
<1>4. /\ data \in Seq(Nat)
      /\ Len(data) = (IF lo <= hi THEN hi - lo + 1 ELSE 0)
      /\ \A i \in 1 .. hi - lo + 1 : data[i] = in.stream[lo + i - 1]
  BY <1>2, <1>3, SubSeqProperties
<1>5. /\ m.seqno = Wrap(a, isn) /\ m.SYN = (a = 0) /\ m.payload = data /\ m.FIN = fin
      /\ m = [seqno |-> Wrap(a, isn), SYN |-> (a = 0), payload |-> data, FIN |-> fin,
              RST |-> FALSE]
  BY DEF SenderMessage, Piece
<1>6. Wrap(a, isn) \in Raw
  BY BaseOfWrap
<1> HIDE DEF data, m, len
<1>7. m \in MessageRecord
  BY <1>4, <1>5, <1>6 DEF MessageRecord
<1>8. Len(data) = (hi - lo) + 1
  BY <1>2, <1>4
<1>9. \A i \in 1 .. Len(data) : data[i] = D[IndexOf(a) + i]
  <2> SUFFICES ASSUME NEW i \in 1 .. (hi - lo) + 1 PROVE data[i] = D[IndexOf(a) + i]
    BY <1>8
  <2>1. /\ lo + i - 1 \in 1 .. len
        /\ in.popped + (lo + i - 1) = (in.popped + (lo - 1)) + i
    BY <1>1, <1>2
  <2>2. data[i] = in.stream[lo + i - 1]
    BY <1>4
  <2> QED
    BY <1>1, <2>1, <2>2
<1>10. /\ IndexOf(a) + Len(data) <= in.pushed
       /\ hi = len => IndexOf(a) + Len(data) = in.pushed
  <2> DEFINE at == IndexOf(a)
             n  == Len(data)
  <2>1. at = in.popped + (lo - 1) /\ n = (hi - lo) + 1
    BY <1>8
  <2> HIDE DEF at, n
  <2>2. at + n = in.popped + hi
    BY ONLY <1>1, <1>2, <2>1
  <2>3. at + n <= in.pushed /\ (hi = len => at + n = in.pushed)
    BY ONLY <1>1, <1>2, <2>2
  <2> QED
    BY <2>3 DEF at, n
<1>11. SequenceLength(m) = (IF a = 0 THEN 1 ELSE 0) + ((hi - lo) + 1) + (IF fin THEN 1 ELSE 0)
  BY <1>5, <1>8 DEF SequenceLength
<1>12. SequenceLength(m) > 0
  BY <1>2, <1>11
<1>13. Carries(m, a, isn, D, after)
  BY <1>4, <1>5, <1>9, <1>10, <1>12 DEF Carries, len
<1> QED
  BY <1>5, <1>7, <1>11, <1>13 DEF m, PieceIn

-----------------------------------------------------------------------------
(* push(): in the middle of it, before the bytes taken have been sent *)

Ready(before, step, D) ==
  /\ step \in StepRecord
  /\ InputOf(step.snd.input, D) /\ ~ step.snd.input.error
  /\ Queue(step.snd, D) /\ Timed(step.snd)
  /\ First(step.snd) \in 0 .. step.snd.next_seqno
  /\ Keeps(before, step.snd)
  /\ \A i \in 1 .. Len(step.out) : Sound(step.out[i], before.isn, D, before.input)

LEMMA ReadyStep ==
  ASSUME NEW before, NEW step, NEW D, Ready(before, step, D), Numbered(step.snd)
  PROVE  StepOf(before, step, D)
BY DEF Ready, StepOf, SenderOf, StepRecord

LEMMA StepReady ==
  ASSUME NEW before, NEW step, NEW D, StepOf(before, step, D), ~ step.snd.input.error
  PROVE  Ready(before, step, D) /\ Numbered(step.snd)
BY DEF Ready, StepOf, SenderOf, StepRecord

LEMMA SendReady ==
  ASSUME NEW before, NEW step, NEW D, Ready(before, step, D), NEW m \in MessageRecord,
         Carries(m, step.snd.next_seqno, step.snd.isn, D, step.snd.input)
  PROVE  Ready(before, Send(step, m), D) /\ Sends(step, Send(step, m), m, D)
<1> DEFINE b == Send(step, m)
<1>1. step \in StepRecord
  BY DEF Ready
<1>2. Sends(step, b, m, D)
  BY <1>1, SendStep DEF Ready
<1> HIDE DEF b
<1>3. /\ b \in StepRecord /\ b.out = Append(step.out, m)
      /\ Queue(b.snd, D) /\ Timed(b.snd) /\ First(b.snd) = First(step.snd)
      /\ b.snd.next_seqno = step.snd.next_seqno + SequenceLength(m)
      /\ b.snd.input = step.snd.input /\ b.snd.isn = step.snd.isn
      /\ b.snd.syn_sent = step.snd.syn_sent
  BY <1>2 DEF Sends
<1>4. First(b.snd) \in 0 .. b.snd.next_seqno
  <2>1. SequenceLength(m) \in Nat
    BY LengthOfMessage DEF MessageRecord
  <2>2. step.snd.next_seqno \in Nat /\ b.snd.next_seqno \in Nat
    BY <1>1, <1>3 DEF StepRecord, SenderRecord
  <2>3. First(step.snd) \in 0 .. step.snd.next_seqno
    BY DEF Ready
  <2> QED
    BY ONLY <1>3, <2>1, <2>2, <2>3
<1>5. Keeps(before, b.snd)
  BY <1>3 DEF Ready, Keeps
<1>6. \A i \in 1 .. Len(b.out) : Sound(b.out[i], before.isn, D, before.input)
  <2>1. /\ Len(b.out) = Len(step.out) + 1 /\ Len(step.out) \in Nat
        /\ \A i \in 1 .. Len(step.out) : b.out[i] = step.out[i]
        /\ b.out[Len(step.out) + 1] = m
    BY <1>1, <1>3, AppendProperties, LenProperties DEF StepRecord
  <2>2. Sound(m, before.isn, D, before.input)
    <3>1. step.snd.isn = before.isn /\ step.snd.input.pushed = before.input.pushed
          /\ step.snd.input.is_closed = before.input.is_closed
      BY DEF Ready, Keeps
    <3>2. Carries(m, step.snd.next_seqno, before.isn, D, before.input)
      BY <3>1 DEF Carries
    <3>3. step.snd.next_seqno \in Nat
      BY <3>2 DEF Carries
    <3> QED
      BY <3>2, <3>3 DEF Sound
  <2>3. \A i \in 1 .. Len(step.out) + 1 : i \in 1 .. Len(step.out) \/ i = Len(step.out) + 1
    BY <2>1
  <2> QED
    BY <2>1, <2>2, <2>3 DEF Ready
<1>7. Ready(before, b, D)
  BY <1>3, <1>4, <1>5, <1>6 DEF Ready
<1> QED
  BY <1>2, <1>7 DEF b

\* Only the outbound stream and syn_sent change.
LEMMA ReadyInput ==
  ASSUME NEW before, NEW step, NEW D, Ready(before, step, D), NEW b \in StepRecord,
         InputOf(b.snd.input, D), b.snd.input.pushed = step.snd.input.pushed,
         b.snd.input.is_closed = step.snd.input.is_closed,
         b.snd.input.error = step.snd.input.error,
         b.out = step.out, b.snd.outstanding = step.snd.outstanding, b.snd.isn = step.snd.isn,
         b.snd.next_seqno = step.snd.next_seqno, b.snd.bytes_unack = step.snd.bytes_unack,
         b.snd.consecutive_retransmissions = step.snd.consecutive_retransmissions,
         b.snd.RTO = step.snd.RTO, b.snd.timer = step.snd.timer,
         b.snd.timer_active = step.snd.timer_active,
         step.snd.syn_sent => b.snd.syn_sent
  PROVE  Ready(before, b, D)
<1>2. First(b.snd) = First(step.snd)
  BY DEF First
<1>3. \A m, a : Carries(m, a, b.snd.isn, D, b.snd.input)
                  <=> Carries(m, a, step.snd.isn, D, step.snd.input)
  BY DEF Carries
<1>4. Queue(b.snd, D)
  <2>1. PICK st : QueueAt(step.snd, D, st)
    BY DEF Ready, Queue
  <2>2. QueueAt(b.snd, D, st)
    BY <1>2, <1>3, <2>1 DEF QueueAt
  <2> QED
    BY <2>2 DEF Queue
<1>5. Timed(b.snd)
  BY DEF Ready, Timed
<1>6. Keeps(before, b.snd)
  BY <1>2 DEF Ready, Keeps
<1> QED
  BY <1>2, <1>4, <1>5, <1>6 DEF Ready

Taken(step, b, n) ==
  /\ Takes(step.snd.input, b.snd.input, n) /\ b.snd.input = Pop(step.snd.input, n)
  /\ b.snd.next_seqno = step.snd.next_seqno /\ b.snd.isn = step.snd.isn
  /\ b.snd.syn_sent = step.snd.syn_sent /\ b.snd.fin_set = step.snd.fin_set
  /\ b.snd.fin_ready = step.snd.fin_ready
  /\ b.snd.outstanding = step.snd.outstanding /\ SameWindow(step.snd, b.snd)

LEMMA TakeReady ==
  ASSUME NEW before, NEW step, NEW D, Ready(before, step, D),
         NEW n \in 0 .. Len(step.snd.input.stream)
  PROVE  Ready(before, TakeBytes(step, n), D) /\ Taken(step, TakeBytes(step, n), n)
<1> DEFINE b  == TakeBytes(step, n)
           in == Pop(step.snd.input, n)
<1>1. step \in StepRecord /\ step.snd \in SenderRecord
  BY DEF Ready, StepRecord
<1>2. InputOf(in, D) /\ Takes(step.snd.input, in, n)
  BY PopInput DEF Ready
<1>3. in \in ByteStreamOf(Nat)
  BY <1>2 DEF InputOf
<1> HIDE DEF in
<1>4. b = [step EXCEPT !.snd = [step.snd EXCEPT !.input = in]]
  BY <1>1 DEF TakeBytes, StepRecord, SenderRecord, in
<1> HIDE DEF b
<1>5. [step.snd EXCEPT !.input = in] \in SenderRecord
  BY <1>1, <1>3 DEF SenderRecord
<1>6. b \in StepRecord /\ b.snd = [step.snd EXCEPT !.input = in] /\ b.out = step.out
  BY <1>1, <1>4, <1>5 DEF StepRecord
<1>7. /\ b.snd.input = in /\ b.snd.outstanding = step.snd.outstanding
      /\ b.snd.isn = step.snd.isn /\ b.snd.next_seqno = step.snd.next_seqno
      /\ b.snd.bytes_unack = step.snd.bytes_unack
      /\ b.snd.RTO = step.snd.RTO /\ b.snd.timer = step.snd.timer
      /\ b.snd.consecutive_retransmissions = step.snd.consecutive_retransmissions
      /\ b.snd.timer_active = step.snd.timer_active /\ b.snd.syn_sent = step.snd.syn_sent
      /\ b.snd.fin_set = step.snd.fin_set /\ b.snd.fin_ready = step.snd.fin_ready
  BY <1>1, <1>6 DEF SenderRecord
<1>8. Ready(before, b, D)
  <2>1. /\ in.pushed = step.snd.input.pushed /\ in.is_closed = step.snd.input.is_closed
        /\ in.error = step.snd.input.error
    BY <1>2 DEF Takes
  <2> QED
    BY <1>2, <1>6, <1>7, <2>1, ReadyInput
<1>9. Taken(step, b, n)
  <2>1. SameWindow(step.snd, b.snd)
    BY <1>1, <1>6 DEF SameWindow, SenderRecord
  <2> QED
    BY <1>2, <1>7, <2>1 DEF Taken, in
<1> QED
  BY <1>8, <1>9 DEF b

-----------------------------------------------------------------------------
(* push(), one part after the other *)

LEMMA WrapZero ==
  ASSUME NEW isn \in Raw
  PROVE  Wrap(0, isn) = isn
<1>1. 0 % SeqSpace = 0
  BY Widths, ModSmall
<1>2. isn \in Int /\ 0 <= isn /\ isn < SeqSpace
  BY Widths DEF Raw
<1>3. isn % SeqSpace = isn
  BY <1>2, Widths, ModSmall
<1> QED
  BY <1>1, <1>2, <1>3 DEF Wrap

SynSent(snd, q, n, fin) ==
  /\ SameWindow(snd, q) /\ q.fin_ready = snd.fin_ready
  /\ snd.next_seqno = 0 /\ q.next_seqno = 1 + n + (IF fin THEN 1 ELSE 0)

LEMMA SynMessage ==
  ASSUME NEW before, NEW step, NEW D, StepOf(before, step, D), ~ step.snd.input.error,
         ~ step.snd.syn_sent,
         NEW n \in 0 .. Len(step.snd.input.stream), NEW fin \in BOOLEAN,
         fin => IsFinished(Pop(step.snd.input, n)),
         NEW begin, begin = [TakeBytes(step, n) EXCEPT !.snd.syn_sent = TRUE],
         NEW m, m = SenderMessage(step.snd.isn, TRUE, Prefix(step.snd.input.stream, n), fin)
  PROVE  /\ StepOf(before, Send(begin, m), D) /\ Send(begin, m).snd.syn_sent
         /\ SynSent(step.snd, Send(begin, m).snd, n, fin)
<1> DEFINE snd == step.snd
           in  == step.snd.input
           took == TakeBytes(step, n)
           b   == Send(begin, m)
<1>1. Ready(before, step, D) /\ Numbered(snd)
  BY StepReady
<1>2. Ready(before, took, D) /\ Taken(step, took, n)
  BY <1>1, TakeReady
<1> HIDE DEF took
<1>3. took \in StepRecord /\ took.snd \in SenderRecord /\ InputOf(took.snd.input, D)
  BY <1>2 DEF Ready, StepRecord
<1>4. begin = [took EXCEPT !.snd = [took.snd EXCEPT !.syn_sent = TRUE]]
  BY <1>3 DEF took, StepRecord, SenderRecord
<1>5. [took.snd EXCEPT !.syn_sent = TRUE] \in SenderRecord
  BY <1>3 DEF SenderRecord
<1>6. begin \in StepRecord /\ begin.snd = [took.snd EXCEPT !.syn_sent = TRUE]
      /\ begin.out = took.out
  BY <1>3, <1>4, <1>5 DEF StepRecord
<1>7. /\ begin.snd.input = took.snd.input /\ begin.snd.outstanding = took.snd.outstanding
      /\ begin.snd.isn = took.snd.isn /\ begin.snd.next_seqno = took.snd.next_seqno
      /\ begin.snd.bytes_unack = took.snd.bytes_unack
      /\ begin.snd.RTO = took.snd.RTO /\ begin.snd.timer = took.snd.timer
      /\ begin.snd.consecutive_retransmissions = took.snd.consecutive_retransmissions
      /\ begin.snd.timer_active = took.snd.timer_active
      /\ begin.snd.fin_set = took.snd.fin_set /\ begin.snd.fin_ready = took.snd.fin_ready
      /\ begin.snd.syn_sent
  BY <1>3, <1>6 DEF SenderRecord
<1>8. snd \in SenderRecord /\ InputOf(in, D) /\ snd.isn \in Raw
  BY <1>1 DEF Ready, StepRecord, SenderRecord
<1>9. /\ in.stream \in Seq(Nat) /\ in.popped \in Nat /\ in.pushed \in Nat
      /\ in.pushed = in.popped + Len(in.stream) /\ Len(in.stream) \in Nat
      /\ snd.next_seqno = 0 /\ in.popped = 0 /\ ~ snd.fin_set
      /\ (snd.fin_ready => in.is_closed /\ in.popped = in.pushed)
  <2>1. in.stream \in Seq(Nat) /\ in.popped \in Nat /\ in.pushed \in Nat
        /\ in.pushed = in.popped + Len(in.stream)
    BY <1>8 DEF InputOf, ByteStreamOf
  <2>2. Len(in.stream) \in Nat
    BY <2>1, LenProperties
  <2> QED
    BY <1>1, <2>1, <2>2 DEF Numbered
<1>10. /\ begin.snd.input = Pop(in, n)
       /\ begin.snd.next_seqno = 0 /\ begin.snd.isn = snd.isn /\ begin.snd.fin_set = FALSE
       /\ begin.snd.fin_ready = snd.fin_ready
  BY <1>2, <1>7, <1>8, <1>9 DEF Taken, SenderRecord
<1>11. Takes(in, begin.snd.input, n)
  BY <1>2, <1>7 DEF Taken
<1>12. /\ begin.snd.input.pushed = in.pushed /\ begin.snd.input.is_closed = in.is_closed
       /\ begin.snd.input.popped = n
       /\ Len(begin.snd.input.stream) = Len(in.stream) - n
       /\ begin.snd.input.error = in.error
  BY <1>9, <1>11 DEF Takes
<1>13. Ready(before, begin, D)
  BY <1>2, <1>3, <1>6, <1>7, ReadyInput
<1> HIDE DEF b
<1>14. PieceIn(m, D, begin.snd.input, snd.isn, 0, n, fin)
  <2>1. fin => in.is_closed /\ n = Len(in.stream)
    BY <1>9, <1>10, <1>12, EmptySeq DEF IsFinished
  <2>2. 1 \in 1 .. Len(in.stream) + 1 /\ n \in 1 - 1 .. Len(in.stream)
        /\ IndexOf(0) = in.popped + (1 - 1) /\ (n - 1) + 1 = n
    BY <1>9 DEF IndexOf
  <2>3. Piece(in, snd.isn, 0, 1, n, fin) = m
    BY <1>8, WrapZero DEF Prefix, SenderMessage, Piece
  <2>5. PieceIn(Piece(in, snd.isn, 0, 1, n, fin), D, begin.snd.input, snd.isn, 0, (n - 1) + 1, fin)
    BY <1>8, <1>12, <2>1, <2>2, PieceCarried
  <2> QED
    BY <2>2, <2>3, <2>5
<1>15. Ready(before, b, D) /\ Sends(begin, b, m, D)
  BY <1>10, <1>13, <1>14, SendReady DEF b, PieceIn
<1>16. SequenceLength(m) = 1 + n + (IF fin THEN 1 ELSE 0)
  BY <1>14 DEF PieceIn
<1>17. Numbered(b.snd)
  <2>1. /\ b.snd.next_seqno = 0 + (1 + n + (IF fin THEN 1 ELSE 0))
        /\ b.snd.fin_set = fin /\ b.snd.syn_sent /\ b.snd.fin_ready = snd.fin_ready
        /\ b.snd.input = begin.snd.input
    BY <1>7, <1>10, <1>15, <1>16 DEF Sends, SenderMessage
  <2>2. fin \/ snd.fin_ready => in.is_closed /\ n = in.pushed
    BY <1>9, <1>10, <1>12, EmptySeq DEF IsFinished
  <2>3. b.snd.next_seqno = (IF b.snd.syn_sent THEN 1 ELSE 0) + b.snd.input.popped
                             + (IF b.snd.fin_set THEN 1 ELSE 0)
    <3>1. 0 + (1 + n + (IF fin THEN 1 ELSE 0)) = 1 + n + (IF fin THEN 1 ELSE 0)
      BY <1>9, <1>12
    <3> QED
      BY <1>12, <2>1, <3>1
  <2>4. b.snd.fin_set \/ b.snd.fin_ready
          => b.snd.input.is_closed /\ b.snd.input.popped = b.snd.input.pushed
    BY <1>12, <2>1, <2>2
  <2> QED
    BY <2>1, <2>3, <2>4 DEF Numbered
<1>18. b.snd.next_seqno = 1 + n + (IF fin THEN 1 ELSE 0)
  <2> DEFINE e == IF fin THEN 1 ELSE 0
  <2>1. n \in Nat /\ e \in Nat
    BY <1>9
  <2>2. b.snd.next_seqno = 0 + (1 + n + e)
    BY <1>10, <1>15, <1>16 DEF Sends
  <2> HIDE DEF e, b
  <2>3. b.snd.next_seqno = 1 + n + e
    BY ONLY <2>1, <2>2
  <2> QED
    BY <2>3 DEF e
<1>19. SameWindow(snd, b.snd)
  <2>1. SameWindow(took.snd, begin.snd)
    BY <1>3, <1>6 DEF SenderRecord, SameWindow
  <2>2. SameWindow(snd, took.snd) /\ SameWindow(begin.snd, b.snd)
    BY <1>2, <1>15 DEF Taken, Sends
  <2> QED
    BY <2>1, <2>2 DEF SameWindow
<1>20. b.snd.fin_ready = snd.fin_ready
  BY <1>10, <1>15 DEF Sends
<1>21. SynSent(snd, b.snd, n, fin)
  BY <1>9, <1>18, <1>19, <1>20 DEF SynSent
<1> QED
  BY <1>7, <1>15, <1>17, <1>21, ReadyStep DEF b, Sends

LEMMA WindowRoom ==
  ASSUME NEW snd \in SenderRecord
  PROVE  /\ AvailableWindow(snd) \in Nat
         /\ Larger(AvailableWindow(snd) - 1, 0) \in Nat
         /\ Len(snd.input.stream) \in Nat
         /\ MaxPayload \in Nat \ {0}
         /\ snd.input.stream \in Seq(Nat)
<1>1. snd.window_size \in Nat /\ snd.bytes_unack \in Int /\ snd.input.stream \in Seq(Nat)
  BY DEF SenderRecord, ByteStreamOf
<1>2. AvailableWindow(snd) \in Nat
  BY <1>1 DEF AvailableWindow, Larger
<1>3. Larger(AvailableWindow(snd) - 1, 0) \in Nat
  BY <1>2 DEF Larger
<1> QED
  BY <1>1, <1>2, <1>3, LenProperties, SenderAssumption

LEMMA SmallerOf ==
  ASSUME NEW a \in Nat, NEW b \in Nat
  PROVE  Smaller(a, b) \in 0 .. a /\ Smaller(a, b) \in 0 .. b
BY DEF Smaller

\* The sender snd has become q by its first message.
Begins(snd, q) ==
  /\ SameWindow(snd, q) /\ q.fin_ready = snd.fin_ready
  /\ snd.next_seqno = 0 /\ q.next_seqno <= Larger(AvailableWindow(snd), 1)

LEMMA PushSynStep ==
  ASSUME NEW before, NEW step, NEW D, StepOf(before, step, D), ~ step.snd.input.error
  PROVE  /\ StepOf(before, PushSyn(step), D) /\ PushSyn(step).snd.syn_sent
         /\ (step.snd.syn_sent /\ PushSyn(step) = step) \/ Begins(step.snd, PushSyn(step).snd)
<1> DEFINE snd   == step.snd
           in    == step.snd.input
           room  == Larger(AvailableWindow(snd) - 1, 0)
           n     == Smaller(Smaller(room, MaxPayload), BytesBuffered(in))
           fin   == IsFinished(Pop(in, n)) /\ room > 1 + n
           begin == [TakeBytes(step, n) EXCEPT !.snd.syn_sent = TRUE]
           m     == SenderMessage(snd.isn, TRUE, Prefix(in.stream, n), fin)
<1>1. snd \in SenderRecord
  BY DEF StepOf, StepRecord
<1>2. CASE snd.syn_sent
  BY <1>2 DEF PushSyn
<1>3. CASE ~ snd.syn_sent
  <2> DEFINE len == Len(in.stream)
  <2>1. n \in 0 .. len
    <3>1. room \in Nat /\ MaxPayload \in Nat /\ len \in Nat
      BY <1>1, WindowRoom
    <3>3. n = Smaller(Smaller(room, MaxPayload), len)
      BY DEF BytesBuffered
    <3> HIDE DEF room, len, n
    <3>2. Smaller(room, MaxPayload) \in Nat
      BY <3>1, SmallerOf
    <3> QED
      BY <3>1, <3>2, <3>3, SmallerOf
  <2>2. PushSyn(step) = Send(begin, m)
    BY <1>3 DEF PushSyn
  <2>3. fin \in BOOLEAN /\ (fin => IsFinished(Pop(in, n)))
    OBVIOUS
  <2>6. 1 + n + (IF fin THEN 1 ELSE 0) <= Larger(AvailableWindow(snd), 1)
    <3> DEFINE e == IF fin THEN 1 ELSE 0
               avail == AvailableWindow(snd)
               some == Smaller(room, MaxPayload)
    <3>1. avail \in Nat /\ MaxPayload \in Nat /\ len \in Nat
      BY <1>1, WindowRoom
    <3>2. e \in Nat /\ (e = 0 \/ (e = 1 /\ room > 1 + n))
      OBVIOUS
    <3>3. room = Larger(avail - 1, 0) /\ n = Smaller(some, len)
      BY DEF BytesBuffered
    <3>4. room \in Nat /\ 1 + room <= Larger(avail, 1)
      <4> HIDE DEF room, avail
      <4> QED
        BY <3>1, <3>3 DEF Larger
    <3>5. n \in 0 .. room
      <4>1. some = Smaller(room, MaxPayload)
        OBVIOUS
      <4> HIDE DEF some, room, n, len
      <4>2. some \in 0 .. room
        BY <3>1, <3>4, <4>1, SmallerOf
      <4> QED
        BY <3>1, <3>3, <3>4, <4>2 DEF Smaller
    <3>6. Larger(avail, 1) \in Nat
      <4> HIDE DEF avail
      <4> QED
        BY <3>1 DEF Larger
    <3> DEFINE most == Larger(avail, 1)
    <3> HIDE DEF e, n, room, most
    <3>7. 1 + n + e <= most
      BY <3>2, <3>4, <3>5, <3>6 DEF most
    <3> QED
      BY <3>7 DEF most, e
  <2> HIDE DEF n, fin
  <2>4. begin = [TakeBytes(step, n) EXCEPT !.snd.syn_sent = TRUE]
    OBVIOUS
  <2> HIDE DEF begin
  <2>5. /\ StepOf(before, Send(begin, m), D) /\ Send(begin, m).snd.syn_sent
        /\ SynSent(snd, Send(begin, m).snd, n, fin)
    BY <1>3, <2>1, <2>3, <2>4, SynMessage
  <2>7. Begins(snd, Send(begin, m).snd)
    <3> HIDE DEF m, snd
    <3> QED
      BY <2>5, <2>6 DEF Begins, SynSent
  <2> QED
    BY <2>2, <2>5, <2>7
<1> QED
  BY <1>2, <1>3

\* The FIN on its own, at the end of the stream.
LEMMA FinStep ==
  ASSUME NEW before, NEW step, NEW D, StepOf(before, step, D), ~ step.snd.input.error,
         step.snd.syn_sent, ~ step.snd.fin_set, step.snd.input.is_closed,
         step.snd.input.popped = step.snd.input.pushed
  PROVE  /\ StepOf(before, SendFin(step), D)
         /\ SameWindow(step.snd, SendFin(step).snd) /\ SendFin(step).snd.fin_set
         /\ SendFin(step).snd.next_seqno = step.snd.next_seqno + 1
<1> DEFINE snd == step.snd
           in  == step.snd.input
           a   == snd.next_seqno
           m   == SenderMessage(NextSeqno(snd), FALSE, <<>>, TRUE)
           b   == SendFin(step)
<1>1. Ready(before, step, D) /\ Numbered(snd)
  BY StepReady
<1>2. snd \in SenderRecord /\ InputOf(in, D) /\ snd.isn \in Raw
  BY <1>1 DEF Ready, StepRecord, SenderRecord
<1>3. /\ in.stream \in Seq(Nat) /\ in.popped \in Nat /\ in.pushed \in Nat
      /\ in.pushed = in.popped + Len(in.stream) /\ Len(in.stream) \in Nat
      /\ a = 1 + in.popped /\ in.popped = in.pushed
  <2>1. in.stream \in Seq(Nat) /\ in.popped \in Nat /\ in.pushed \in Nat
        /\ in.pushed = in.popped + Len(in.stream)
    BY <1>2 DEF InputOf, ByteStreamOf
  <2>2. Len(in.stream) \in Nat
    BY <2>1, LenProperties
  <2> QED
    BY <1>1, <2>1, <2>2 DEF Numbered
<1>4. /\ a \in Nat /\ a # 0 /\ IndexOf(a) = in.popped + (1 - 1) /\ Len(in.stream) = 0
      /\ 1 \in 1 .. Len(in.stream) + 1 /\ 0 \in 1 - 1 .. Len(in.stream) /\ (0 - 1) + 1 = 0
  <2> DEFINE len == Len(in.stream)
  <2>1. a \in Nat /\ a # 0 /\ a - 1 = in.popped + (1 - 1) /\ len = 0
    <3> HIDE DEF len, a
    <3> QED BY ONLY <1>3 DEF len
  <2>2. IndexOf(a) = a - 1
    BY <2>1 DEF IndexOf
  <2> HIDE DEF len, a
  <2> QED
    BY <2>1, <2>2 DEF len
<1>5. m = Piece(in, snd.isn, a, 1, 0, TRUE)
  <2>1. SubSeq(in.stream, 1, 0) = <<>>
    BY SubSeqEmpty
  <2>2. (a = 0) = FALSE
    BY <1>4
  <2> QED
    BY <2>1, <2>2 DEF Piece, NextSeqno
<1>6. PieceIn(Piece(in, snd.isn, a, 1, 0, TRUE), D, in, snd.isn, a, (0 - 1) + 1, TRUE)
  BY <1>2, <1>4, PieceCarried
<1>7. /\ m \in MessageRecord /\ Carries(m, a, snd.isn, D, in) /\ SequenceLength(m) = 1
      /\ m.FIN = TRUE
  <2>1. PieceIn(m, D, in, snd.isn, a, 0, TRUE)
    BY <1>4, <1>5, <1>6
  <2> HIDE DEF m, a, snd, in
  <2>2. SequenceLength(m) = (IF a = 0 THEN 1 ELSE 0) + 0 + (IF TRUE THEN 1 ELSE 0)
    BY <2>1, Zenon DEF PieceIn
  <2>3. (IF a = 0 THEN 1 ELSE 0) = 0
    BY <1>4
  <2> QED
    BY <2>1, <2>2, <2>3 DEF PieceIn
<1>8. Ready(before, b, D) /\ Sends(step, b, m, D)
  BY <1>1, <1>7, SendReady DEF SendFin
<1>9. Numbered(b.snd)
  <2>1. /\ b.snd.next_seqno = a + 1 /\ b.snd.fin_set = TRUE
        /\ b.snd.syn_sent /\ b.snd.input = in
    BY <1>7, <1>8 DEF Sends
  <2> QED
    BY <1>3, <2>1 DEF Numbered
<1> QED
  BY <1>7, <1>8, <1>9, ReadyStep DEF Sends

\* The fields of a sender that its invariant does not depend on may change.
LEMMA StepUntouched ==
  ASSUME NEW before, NEW b, NEW D, StepOf(before, b, D), NEW c \in StepRecord,
         c.out = b.out, c.snd.input = b.snd.input, c.snd.isn = b.snd.isn,
         c.snd.outstanding = b.snd.outstanding, c.snd.next_seqno = b.snd.next_seqno,
         c.snd.bytes_unack = b.snd.bytes_unack, c.snd.syn_sent = b.snd.syn_sent,
         c.snd.consecutive_retransmissions = b.snd.consecutive_retransmissions,
         c.snd.fin_set = b.snd.fin_set, c.snd.RTO = b.snd.RTO, c.snd.timer = b.snd.timer,
         c.snd.timer_active = b.snd.timer_active, c.snd.fin_ready => b.snd.fin_ready
  PROVE  StepOf(before, c, D)
<1>1. First(c.snd) = First(b.snd)
  BY DEF First
<1>2. Numbered(c.snd)
  BY DEF StepOf, SenderOf, Numbered
<1>3. ~ c.snd.input.error => Queue(c.snd, D)
  <2> SUFFICES ASSUME ~ c.snd.input.error PROVE Queue(c.snd, D)
    OBVIOUS
  <2>1. PICK st : QueueAt(b.snd, D, st)
    BY DEF StepOf, SenderOf, Queue
  <2>2. QueueAt(c.snd, D, st)
    BY <1>1, <2>1 DEF QueueAt
  <2> QED
    BY <2>2 DEF Queue
<1>4. Timed(c.snd)
  BY DEF StepOf, SenderOf, Timed
<1>5. SenderOf(c.snd, D)
  BY <1>1, <1>2, <1>3, <1>4 DEF StepOf, SenderOf, StepRecord
<1>6. Keeps(before, c.snd)
  BY <1>1 DEF StepOf, Keeps
<1> QED
  BY <1>5, <1>6 DEF StepOf

LEMMA StepKeepsError ==
  ASSUME NEW before, NEW step, NEW D, StepOf(before, step, D)
  PROVE  step.snd.input.error = before.input.error
BY DEF StepOf, Keeps

LEMMA InputTypes ==
  ASSUME NEW in, NEW D, InputOf(in, D)
  PROVE  /\ in.stream \in Seq(Nat) /\ Len(in.stream) \in Nat
         /\ in.popped \in Nat /\ in.pushed \in Nat /\ in.pushed = in.popped + Len(in.stream)
         /\ Len(D) \in Nat /\ in.pushed <= Len(D)
         /\ in.is_closed \in BOOLEAN /\ in.error \in BOOLEAN
         /\ in.stream = <<>> <=> Len(in.stream) = 0
<1>1. in.stream \in Seq(Nat) /\ in.popped \in Nat /\ in.pushed \in Nat
      /\ in.pushed = in.popped + Len(in.stream) /\ D \in Seq(Nat) /\ in.pushed <= Len(D)
      /\ in.is_closed \in BOOLEAN /\ in.error \in BOOLEAN
  BY DEF InputOf, ByteStreamOf
<1> QED
  BY <1>1, LenProperties, EmptySeq

\* The sender has become q by filling the window, or has sent nothing.
FillsWindow(snd, q) ==
  /\ SameWindow(snd, q)
  /\ \/ /\ q.next_seqno = snd.next_seqno /\ q.fin_set = snd.fin_set
        /\ q.outstanding = snd.outstanding
        /\ q.fin_ready = snd.fin_ready
     \/ /\ AvailableWindow(snd) > 0
        /\ q.next_seqno <= snd.next_seqno + AvailableWindow(snd)
        /\ q.fin_ready => q.fin_set

LEMMA PushFinStep ==
  ASSUME NEW before, NEW step, NEW D, StepOf(before, step, D), ~ before.input.error,
         step.snd.syn_sent
  PROVE  /\ StepOf(before, PushFin(step), D) /\ PushFin(step).snd.syn_sent
         /\ FillsWindow(step.snd, PushFin(step).snd)
<1>1. CASE ~ (~ step.snd.fin_set /\ IsFinished(step.snd.input) /\ AvailableWindow(step.snd) > 0)
  BY <1>1 DEF PushFin, FillsWindow, SameWindow
<1>2. CASE ~ step.snd.fin_set /\ IsFinished(step.snd.input) /\ AvailableWindow(step.snd) > 0
  <2>1. PushFin(step) = SendFin(step)
    BY <1>2 DEF PushFin
  <2>2. InputOf(step.snd.input, D)
    BY DEF StepOf, SenderOf
  <2>3. step.snd.input.is_closed /\ step.snd.input.popped = step.snd.input.pushed
    BY <1>2, <2>2, InputTypes DEF IsFinished
  <2>4. /\ StepOf(before, SendFin(step), D)
        /\ SameWindow(step.snd, SendFin(step).snd) /\ SendFin(step).snd.fin_set
        /\ SendFin(step).snd.next_seqno = step.snd.next_seqno + 1
    BY <1>2, <2>3, StepKeepsError, FinStep
  <2>5. SendFin(step).snd.syn_sent
    BY DEF SendFin, Send, StepOf, StepRecord, SenderRecord
  <2>6. step.snd.next_seqno + 1 <= step.snd.next_seqno + AvailableWindow(step.snd)
    <3>1. step.snd \in SenderRecord /\ step.snd.next_seqno \in Nat
      BY DEF StepOf, StepRecord, SenderRecord
    <3>2. AvailableWindow(step.snd) \in Nat
      BY <3>1, WindowRoom
    <3> QED
      BY <1>2, <3>1, <3>2
  <2>7. FillsWindow(step.snd, SendFin(step).snd)
    BY <1>2, <2>4, <2>6 DEF FillsWindow
  <2> QED
    BY <2>1, <2>4, <2>5, <2>7
<1> QED
  BY <1>1, <1>2

\* The sender snd has become q by sending the FIN that was due.
FinishesLate(snd, q) ==
  /\ snd.fin_ready /\ ~ snd.fin_set /\ q.fin_set
  /\ SameWindow(snd, q) /\ q.next_seqno = snd.next_seqno + 1

LEMMA PushFinReadyStep ==
  ASSUME NEW before, NEW step, NEW D, StepOf(before, step, D), ~ before.input.error,
         step.snd.syn_sent
  PROVE  /\ StepOf(before, PushFinReady(step), D) /\ PushFinReady(step).snd.syn_sent
         /\ PushFinReady(step) = step \/ FinishesLate(step.snd, PushFinReady(step).snd)
<1> DEFINE b == SendFin(step)
           c == [b EXCEPT !.snd.fin_ready = FALSE]
<1>1. CASE ~ (step.snd.fin_ready /\ ~ step.snd.fin_set)
  BY <1>1 DEF PushFinReady
<1>2. CASE step.snd.fin_ready /\ ~ step.snd.fin_set
  <2>1. PushFinReady(step) = c
    BY <1>2 DEF PushFinReady
  <2>2. step.snd.input.is_closed /\ step.snd.input.popped = step.snd.input.pushed
    BY <1>2 DEF StepOf, SenderOf, Numbered
  <2>3. StepOf(before, b, D) /\ SameWindow(step.snd, b.snd) /\ b.snd.fin_set
        /\ b.snd.next_seqno = step.snd.next_seqno + 1
    BY <1>2, <2>2, StepKeepsError, FinStep
  <2>4. b.snd.syn_sent
    BY DEF SendFin, Send, StepOf, StepRecord, SenderRecord
  <2> HIDE DEF b
  <2>5. b \in StepRecord /\ b.snd \in SenderRecord
    BY <2>3 DEF StepOf, StepRecord
  <2>6. c = [b EXCEPT !.snd = [b.snd EXCEPT !.fin_ready = FALSE]]
    BY <2>5 DEF StepRecord, SenderRecord
  <2> HIDE DEF c
  <2>7. [b.snd EXCEPT !.fin_ready = FALSE] \in SenderRecord
    BY <2>5 DEF SenderRecord
  <2>8. c \in StepRecord /\ c.snd = [b.snd EXCEPT !.fin_ready = FALSE] /\ c.out = b.out
    BY <2>5, <2>6, <2>7 DEF StepRecord
  <2>9. /\ c.snd.input = b.snd.input /\ c.snd.isn = b.snd.isn
        /\ c.snd.outstanding = b.snd.outstanding /\ c.snd.next_seqno = b.snd.next_seqno
        /\ c.snd.bytes_unack = b.snd.bytes_unack /\ c.snd.syn_sent = b.snd.syn_sent
        /\ c.snd.fin_set = b.snd.fin_set /\ c.snd.RTO = b.snd.RTO
        /\ c.snd.consecutive_retransmissions = b.snd.consecutive_retransmissions
        /\ c.snd.timer = b.snd.timer /\ c.snd.timer_active = b.snd.timer_active
        /\ ~ c.snd.fin_ready
    BY <2>5, <2>8 DEF SenderRecord
  <2>10. SameWindow(b.snd, c.snd)
    BY <2>5, <2>8 DEF SenderRecord, SameWindow
  <2>11. FinishesLate(step.snd, c.snd)
    BY <1>2, <2>3, <2>9, <2>10 DEF FinishesLate, SameWindow
  <2> QED
    BY <2>1, <2>3, <2>4, <2>8, <2>9, <2>11, StepUntouched
<1> QED
  BY <1>1, <1>2

\* The streams are so short that sequence numbers are never ambiguous.
Small(D) == 2 * (Len(D) + 2) < SeqSpace

\* Unwrapping recovers every number that lies in the stream.
LEMMA SeqnoRecovered ==
  ASSUME NEW D, D \in Seq(Nat), Small(D), NEW isn \in Raw,
         NEW a \in 0 .. Len(D) + 2, NEW cp \in 0 .. Len(D) + 2
  PROVE  Unwrap(Wrap(a, isn), isn, cp) = a
<1> DEFINE n == Len(D) + 2
<1>1. n \in Nat /\ 2 * n < SeqSpace /\ a \in Nat /\ cp \in Nat /\ a <= n /\ cp <= n
      /\ SeqSpace \in Nat /\ WordSpace \in Nat /\ WordSpace >= 2 * SeqSpace
  BY LenProperties, Widths DEF Small
<1> HIDE DEF n
<1>2. 2 * AbsDiff(a, cp) < SeqSpace
  BY <1>1 DEF AbsDiff
<1>3. a \in Word /\ cp \in Word
  BY <1>1 DEF Word
<1> QED
  BY <1>2, <1>3, RoundTrip

LEMMA NextInStream ==
  ASSUME NEW snd, NEW D, snd \in SenderRecord, InputOf(snd.input, D), Numbered(snd)
  PROVE  snd.next_seqno \in 0 .. Len(D) + 2
<1>1. /\ snd.input.popped \in Nat /\ snd.input.pushed \in Nat /\ Len(D) \in Nat
      /\ snd.input.pushed = snd.input.popped + Len(snd.input.stream)
      /\ snd.input.pushed <= Len(D) /\ Len(snd.input.stream) \in Nat
  BY InputTypes
<1>2. snd.next_seqno \in Nat /\ snd.next_seqno <= 1 + snd.input.popped + 1
  BY <1>1 DEF Numbered, SenderRecord
<1> QED
  BY <1>1, <1>2

ProbeSent(snd, q, m) ==
  /\ SameWindow(snd, q) /\ ~ snd.fin_set /\ ~ q.fin_ready
  /\ q.next_seqno = snd.next_seqno + 1 /\ q.outstanding = Append(snd.outstanding, m)
  /\ SequenceLength(m) = 1 /\ m \in MessageRecord

\* The probe is the next byte of the stream.
LEMMA ProbeStep ==
  ASSUME NEW before, NEW step, NEW D, StepOf(before, step, D), ~ before.input.error,
         step.snd.syn_sent, Len(step.snd.input.stream) > 0,
         NEW m, m = SenderMessage(NextSeqno(step.snd), FALSE, Prefix(step.snd.input.stream, 1), FALSE)
  PROVE  /\ StepOf(before, Send(TakeBytes(step, 1), m), D)
         /\ Send(TakeBytes(step, 1), m).snd.syn_sent
         /\ ProbeSent(step.snd, Send(TakeBytes(step, 1), m).snd, m)
<1> DEFINE snd  == step.snd
           in   == step.snd.input
           a    == snd.next_seqno
           took == TakeBytes(step, 1)
           b    == Send(took, m)
<1>1. Ready(before, step, D) /\ Numbered(snd)
  BY StepReady, StepKeepsError
<1>2. snd \in SenderRecord /\ InputOf(in, D) /\ snd.isn \in Raw /\ a \in Nat
  BY <1>1 DEF Ready, StepRecord, SenderRecord
<1>3. /\ in.stream \in Seq(Nat) /\ Len(in.stream) \in Nat /\ in.popped \in Nat
      /\ in.pushed = in.popped + Len(in.stream) /\ Len(in.stream) > 0
  BY <1>2, InputTypes
<1>4. ~ snd.fin_set /\ ~ snd.fin_ready /\ a = 1 + in.popped
  <2>1. in.popped # in.pushed
    BY ONLY <1>3
  <2> QED
    BY <1>1, <1>3, <2>1 DEF Numbered
<1>5. 1 \in 0 .. Len(in.stream)
  BY <1>3
<1>6. Ready(before, took, D) /\ Taken(step, took, 1)
  BY <1>1, <1>5, TakeReady
<1> HIDE DEF took
<1>7. /\ took.snd.next_seqno = a /\ took.snd.isn = snd.isn /\ took.snd.syn_sent
      /\ ~ took.snd.fin_set /\ ~ took.snd.fin_ready
      /\ took.snd.input.pushed = in.pushed /\ took.snd.input.is_closed = in.is_closed
      /\ took.snd.input.popped = in.popped + 1
  BY <1>4, <1>6 DEF Taken, Takes
<1>8. PieceIn(m, D, took.snd.input, snd.isn, a, 1, FALSE)
  <2>1. /\ a # 0 /\ IndexOf(a) = in.popped + (1 - 1)
        /\ 1 \in 1 .. Len(in.stream) + 1 /\ 1 \in 1 - 1 .. Len(in.stream) /\ (1 - 1) + 1 = 1
    <3> DEFINE len == Len(in.stream)
    <3>1. a \in Nat /\ a # 0 /\ a - 1 = in.popped + (1 - 1) /\ len \in Nat /\ len > 0
      <4> HIDE DEF len, a
      <4> QED BY ONLY <1>3, <1>4 DEF len
    <3>2. IndexOf(a) = a - 1
      BY <3>1 DEF IndexOf
    <3> HIDE DEF len, a
    <3> QED
      BY <3>1, <3>2 DEF len
  <2>2. m = Piece(in, snd.isn, a, 1, 1, FALSE)
    <3>1. (a = 0) = FALSE
      BY <2>1
    <3> QED
      BY <3>1 DEF Piece, NextSeqno, Prefix
  <2>3. PieceIn(Piece(in, snd.isn, a, 1, 1, FALSE), D, took.snd.input, snd.isn, a, (1 - 1) + 1, FALSE)
    <3>1. 1 <= 1
      OBVIOUS
    <3> QED
      BY <1>2, <1>7, <2>1, <3>1, PieceCarried
  <2> QED
    BY <2>1, <2>2, <2>3
<1>9. SequenceLength(m) = 1 /\ m.FIN = FALSE
  <2>1. a # 0
    BY <1>3, <1>4
  <2>2. SequenceLength(m) = (IF a = 0 THEN 1 ELSE 0) + 1 + (IF FALSE THEN 1 ELSE 0)
    BY <1>8, Zenon DEF PieceIn
  <2> HIDE DEF a
  <2>3. SequenceLength(m) = 1
    BY ONLY <2>1, <2>2
  <2> QED
    BY <2>3 DEF SenderMessage
<1>10. Ready(before, b, D) /\ Sends(took, b, m, D)
  BY <1>6, <1>7, <1>8, SendReady DEF PieceIn
<1>11. Numbered(b.snd)
  <2>1. /\ b.snd.next_seqno = a + 1 /\ ~ b.snd.fin_set /\ b.snd.syn_sent /\ ~ b.snd.fin_ready
        /\ b.snd.input = took.snd.input
    BY <1>7, <1>9, <1>10 DEF Sends
  <2>2. b.snd.next_seqno = 1 + b.snd.input.popped
    <3> HIDE DEF a, b
    <3> QED
      BY ONLY <1>3, <1>4, <1>7, <2>1
  <2>3. b.snd.input.popped \in Nat
    <3>1. in.popped + 1 \in Nat
      BY <1>3
    <3> HIDE DEF b, in
    <3> QED
      BY ONLY <1>7, <2>1, <3>1
  <2>4. (IF b.snd.syn_sent THEN 1 ELSE 0) = 1 /\ (IF b.snd.fin_set THEN 1 ELSE 0) = 0
    BY <2>1
  <2> HIDE DEF b
  <2> QED
    BY <2>1, <2>2, <2>3, <2>4 DEF Numbered
<1>12. /\ b.snd.next_seqno = a + 1 /\ ~ b.snd.fin_ready
       /\ b.snd.outstanding = Append(snd.outstanding, m) /\ b.snd.syn_sent
  BY <1>6, <1>7, <1>9, <1>10 DEF Sends, Taken
<1>13. SameWindow(snd, b.snd)
  BY <1>6, <1>10 DEF Sends, Taken, SameWindow
<1>14. m \in MessageRecord
  BY <1>8 DEF PieceIn
<1>15. ProbeSent(snd, b.snd, m)
  BY <1>4, <1>9, <1>12, <1>13, <1>14 DEF ProbeSent
<1> QED
  BY <1>10, <1>11, <1>12, <1>15, ReadyStep DEF took

\* The sender snd has become q by sending a probe.
Probes(snd, q) ==
  /\ snd.window_size = 0 /\ ~ snd.zero_window_probe_sent /\ ~ snd.fin_set
  /\ q.window_size = 0 /\ q.zero_window_probe_sent
  /\ q.zero_window_probe_seqno = snd.next_seqno
  /\ q.next_seqno = snd.next_seqno + 1 /\ q.syn_sent /\ ~ q.fin_ready
  /\ q.outstanding # <<>> /\ SequenceLength(q.outstanding[Len(q.outstanding)]) = 1

LEMMA PushProbeStep ==
  ASSUME NEW before, NEW step, NEW D, StepOf(before, step, D), ~ before.input.error,
         step.snd.syn_sent, Small(D)
  PROVE  /\ StepOf(before, PushProbe(step), D)
         /\ PushProbe(step) = step \/ Probes(step.snd, PushProbe(step).snd)
<1> DEFINE snd == step.snd
           m   == SenderMessage(NextSeqno(snd), FALSE, Prefix(snd.input.stream, 1), FALSE)
           b   == Send(TakeBytes(step, 1), m)
           at  == SeqnoOf(b.snd, NextSeqno(snd))
           c   == [b EXCEPT !.snd.zero_window_probe_sent = TRUE,
                            !.snd.zero_window_probe_seqno = at]
<1>1. CASE ~ (snd.window_size = 0 /\ ~ snd.zero_window_probe_sent /\ BytesBuffered(snd.input) > 0)
  BY <1>1 DEF PushProbe
<1>2. CASE snd.window_size = 0 /\ ~ snd.zero_window_probe_sent /\ BytesBuffered(snd.input) > 0
  <2>1. PushProbe(step) = c
    BY <1>2 DEF PushProbe
  <2>2. StepOf(before, b, D) /\ b.snd.syn_sent /\ ProbeSent(snd, b.snd, m)
    BY <1>2, ProbeStep DEF BytesBuffered
  <2>3. at = snd.next_seqno /\ at \in Int
    <3>1. snd \in SenderRecord /\ InputOf(snd.input, D) /\ Numbered(snd) /\ snd.isn \in Raw
          /\ D \in Seq(Nat)
      BY DEF StepOf, SenderOf, SenderRecord, InputOf
    <3>2. b.snd \in SenderRecord /\ InputOf(b.snd.input, D) /\ Numbered(b.snd)
          /\ b.snd.isn = snd.isn
      BY <2>2 DEF StepOf, SenderOf, Keeps
    <3> HIDE DEF b
    <3>3. Unwrap(Wrap(snd.next_seqno, snd.isn), snd.isn, b.snd.next_seqno) = snd.next_seqno
      BY <3>1, <3>2, NextInStream, SeqnoRecovered
    <3>4. at = snd.next_seqno
      BY <3>2, <3>3 DEF SeqnoOf, NextSeqno
    <3> QED
      BY <3>1, <3>4 DEF SenderRecord
  <2>4. /\ Append(snd.outstanding, m) # <<>>
        /\ Append(snd.outstanding, m)[Len(Append(snd.outstanding, m))] = m
    <3>1. snd.outstanding \in Seq(MessageRecord)
      BY DEF StepOf, StepRecord, SenderRecord
    <3> HIDE DEF m, snd
    <3> QED
      BY <2>2, <3>1, AppendProperties, LenProperties, EmptySeq DEF ProbeSent
  <2> HIDE DEF b, at, m
  <2>5. b \in StepRecord /\ b.snd \in SenderRecord
    BY <2>2 DEF StepOf, StepRecord
  <2>6. c = [b EXCEPT !.snd = [b.snd EXCEPT !.zero_window_probe_sent = TRUE,
                                            !.zero_window_probe_seqno = at]]
    BY <2>5 DEF StepRecord, SenderRecord
  <2> HIDE DEF c
  <2>7. [b.snd EXCEPT !.zero_window_probe_sent = TRUE,
                      !.zero_window_probe_seqno = at] \in SenderRecord
    BY <2>3, <2>5 DEF SenderRecord
  <2>8. c \in StepRecord /\ c.out = b.out
        /\ c.snd = [b.snd EXCEPT !.zero_window_probe_sent = TRUE,
                                 !.zero_window_probe_seqno = at]
    BY <2>5, <2>6, <2>7 DEF StepRecord
  <2>9. /\ c.snd.input = b.snd.input /\ c.snd.isn = b.snd.isn
        /\ c.snd.outstanding = b.snd.outstanding /\ c.snd.next_seqno = b.snd.next_seqno
        /\ c.snd.bytes_unack = b.snd.bytes_unack /\ c.snd.syn_sent = b.snd.syn_sent
        /\ c.snd.fin_set = b.snd.fin_set /\ c.snd.RTO = b.snd.RTO
        /\ c.snd.consecutive_retransmissions = b.snd.consecutive_retransmissions
        /\ c.snd.timer = b.snd.timer /\ c.snd.timer_active = b.snd.timer_active
        /\ c.snd.fin_ready = b.snd.fin_ready
    BY <2>5, <2>8 DEF SenderRecord
  <2>10. /\ c.snd.zero_window_probe_sent = TRUE /\ c.snd.zero_window_probe_seqno = at
         /\ c.snd.window_size = b.snd.window_size
    BY <2>5, <2>8 DEF SenderRecord
  <2>11. Probes(snd, c.snd)
    BY <1>2, <2>2, <2>3, <2>4, <2>9, <2>10 DEF Probes, ProbeSent, SameWindow
  <2> QED
    BY <2>1, <2>2, <2>8, <2>9, <2>11, StepUntouched
<1> QED
  BY <1>1, <1>2

\* How far the first k segments of n bytes reach.
UpTo(k, n) == Smaller(k * MaxPayload, n)
SegmentCount(n) == (n + MaxPayload - 1) \div MaxPayload

LEMMA SegmentsCover ==
  ASSUME NEW n \in Nat
  PROVE  /\ SegmentCount(n) \in Nat
         /\ UpTo(0, n) = 0 /\ UpTo(SegmentCount(n), n) = n
         /\ \A i \in 1 .. SegmentCount(n) :
              /\ (i - 1) * MaxPayload = UpTo(i - 1, n)
              /\ UpTo(i - 1, n) \in Nat /\ UpTo(i, n) \in UpTo(i - 1, n) + 1 .. n
              /\ UpTo(i - 1, n) < n
<1> DEFINE M     == MaxPayload
           count == SegmentCount(n)
           sum   == n + M - 1
<1>1. M \in Nat \ {0} /\ sum \in Nat
  BY SenderAssumption
<1>2. count = sum \div M
  BY DEF SegmentCount
<1> HIDE DEF count, M, sum
<1>3. count \in Int /\ count * M <= sum /\ sum < count * M + M
  <2>1. sum \div M \in Int /\ sum % M \in 0 .. M - 1 /\ sum = M * (sum \div M) + (sum % M)
    BY <1>1, DivMod
  <2> DEFINE q == sum \div M
             r == sum % M
  <2> HIDE DEF q, r
  <2>2. q \in Int /\ r \in Nat /\ r < M /\ sum = M * q + r
    BY <1>1, <2>1 DEF q, r
  <2>3. q * M = M * q /\ M * q \in Int
    BY <1>1, <2>2
  <2>4. q * M <= sum /\ sum < q * M + M
    BY <1>1, <2>2, <2>3
  <2> QED
    BY <1>2, <2>2, <2>4 DEF q
<1>4. count \in Nat
  <2> SUFFICES ASSUME count < 0 PROVE FALSE
    BY <1>3
  <2>1. count * M + M <= 0
    BY <1>1, <1>3
  <2> QED
    BY <1>1, <1>3, <2>1
<1>5. sum = n + M - 1
  BY DEF sum, M
<1>6. n <= count * M /\ count * M \in Nat
  BY <1>1, <1>3, <1>4, <1>5
<1>7. ASSUME NEW i \in 1 .. count
      PROVE  /\ i - 1 \in Nat /\ (i - 1) * M \in Nat /\ i * M \in Nat
             /\ (i - 1) * M < n /\ (i - 1) * M < i * M
  <2>1. i \in Nat /\ i - 1 \in Nat /\ i <= count
    BY <1>4
  <2>2. (i - 1) * M \in Nat /\ i * M \in Nat /\ i * M = (i - 1) * M + M
    BY <1>1, <2>1
  <2>3. i * M <= count * M
    BY <1>1, <1>4, <2>1
  <2>4. (i - 1) * M < n
    BY <1>1, <1>3, <1>5, <1>6, <2>2, <2>3
  <2> QED
    BY <1>1, <2>1, <2>2, <2>4
<1>8. UpTo(0, n) = 0
  <2>1. 0 * M = 0
    BY <1>1
  <2> QED
    BY <2>1 DEF UpTo, Smaller, M
<1>9. UpTo(count, n) = n
  BY <1>6 DEF UpTo, Smaller, M
<1>10. ASSUME NEW i \in 1 .. count
       PROVE  /\ (i - 1) * M = UpTo(i - 1, n) /\ UpTo(i - 1, n) \in Nat
              /\ UpTo(i, n) \in UpTo(i - 1, n) + 1 .. n /\ UpTo(i - 1, n) < n
  <2>1. UpTo(i - 1, n) = (i - 1) * M
    BY <1>7 DEF UpTo, Smaller, M
  <2>2. (UpTo(i, n) = i * M /\ i * M <= n) \/ UpTo(i, n) = n
    BY <1>7 DEF UpTo, Smaller, M
  <2> QED
    BY <1>7, <2>1, <2>2
<1> QED
  BY <1>4, <1>8, <1>9, <1>10 DEF count, M

Pushing(before, base, c, D, next, fin) ==
  /\ Ready(before, c, D)
  /\ c.snd.next_seqno = next /\ c.snd.fin_set = fin
  /\ c.snd.input = base.snd.input /\ c.snd.isn = base.snd.isn
  /\ c.snd.syn_sent = base.snd.syn_sent /\ c.snd.fin_ready = base.snd.fin_ready
  /\ SameWindow(base.snd, c.snd)

\* The next segment of the loop.
LEMMA PushOne ==
  ASSUME NEW before, NEW base, NEW c, NEW D, NEW next \in Nat, next # 0, NEW fin0 \in BOOLEAN,
         Pushing(before, base, c, D, next, fin0),
         NEW m, NEW bytes \in Nat, NEW f \in BOOLEAN,
         PieceIn(m, D, base.snd.input, base.snd.isn, next, bytes, f)
  PROVE  Pushing(before, base, Send(c, m), D, next + (bytes + (IF f THEN 1 ELSE 0)), fin0 \/ f)
<1>1. Ready(before, c, D) /\ c.snd.next_seqno = next /\ c.snd.fin_set = fin0
      /\ c.snd.input = base.snd.input /\ c.snd.isn = base.snd.isn
  BY DEF Pushing
<1>2. m \in MessageRecord /\ m.FIN = f /\ Carries(m, next, base.snd.isn, D, base.snd.input)
      /\ SequenceLength(m) = (IF next = 0 THEN 1 ELSE 0) + bytes + (IF f THEN 1 ELSE 0)
  BY DEF PieceIn
<1>3. Ready(before, Send(c, m), D) /\ Sends(c, Send(c, m), m, D)
  BY <1>1, <1>2, SendReady
<1>4. SequenceLength(m) = bytes + (IF f THEN 1 ELSE 0)
  BY <1>2
<1> QED
  BY <1>1, <1>2, <1>3, <1>4 DEF Sends, Pushing, SameWindow

LEMMA FunctionIsSeq ==
  ASSUME NEW S, NEW n \in Nat, NEW s \in [1 .. n -> S]
  PROVE  s \in Seq(S) /\ Len(s) = n
<1>1. s \in Seq(S)
  BY SeqDef
<1> QED
  BY <1>1, LenProperties

\* What the loop sends: segment i reaches from byte UpTo(i - 1) to UpTo(i).
SegmentsOf(in, isn, next, n, fin) ==
  [i \in 1 .. SegmentCount(n) |->
     Piece(in, isn, next + UpTo(i - 1, n), UpTo(i - 1, n) + 1, UpTo(i, n),
           fin /\ i = SegmentCount(n))]

AllSent(before, base, in, isn, D, next, n, fin, fin0) ==
  Pushing(before, base, SendAll(base, SegmentsOf(in, isn, next, n, fin)), D,
          next + (n + (IF fin /\ SegmentCount(n) > 0 THEN 1 ELSE 0)),
          fin0 \/ (fin /\ SegmentCount(n) > 0))

LEMMA SegmentsSent ==
  ASSUME NEW before, NEW D, NEW in, InputOf(in, D), NEW isn \in Raw, NEW next \in Nat,
         NEW n \in 0 .. Len(in.stream), n > 0 => next = 1 + in.popped, NEW fin \in BOOLEAN,
         fin => in.is_closed /\ n = Len(in.stream),
         NEW base, base.snd.isn = isn, base.snd.input.pushed = in.pushed,
         base.snd.input.is_closed = in.is_closed, NEW fin0 \in BOOLEAN,
         Pushing(before, base, base, D, next, fin0)
  PROVE  AllSent(before, base, in, isn, D, next, n, fin, fin0)
<1> DEFINE msgs == SegmentsOf(in, isn, next, n, fin)
           count == SegmentCount(n)
           u(i)  == UpTo(i, n)
           f(i)  == fin /\ i = count
<1>0. n \in Nat /\ n <= Len(in.stream) /\ Len(in.stream) \in Nat /\ in.popped \in Nat
  BY InputTypes
<1>1. /\ count \in Nat /\ u(0) = 0 /\ u(count) = n
      /\ \A i \in 1 .. count : u(i - 1) \in Nat /\ u(i) \in u(i - 1) + 1 .. n /\ u(i - 1) < n
  BY <1>0, SegmentsCover
<1> HIDE DEF count, u, msgs
<1>2. ASSUME NEW i \in 1 .. count
      PROVE  /\ next + u(i - 1) \in Nat /\ next + u(i - 1) # 0 /\ u(i) - u(i - 1) \in Nat
             /\ PieceIn(msgs[i], D, base.snd.input, isn, next + u(i - 1), u(i) - u(i - 1), f(i))
  <2> DEFINE a  == next + u(i - 1)
             lo == u(i - 1) + 1
             hi == u(i)
  <2>1. /\ a \in Nat /\ a # 0 /\ a - 1 = in.popped + (lo - 1)
        /\ lo \in 1 .. Len(in.stream) + 1 /\ hi \in lo - 1 .. Len(in.stream)
        /\ (hi - lo) + 1 = u(i) - u(i - 1) /\ u(i) - u(i - 1) \in Nat /\ lo <= hi
    <3>1. u(i - 1) \in Nat /\ u(i) \in u(i - 1) + 1 .. n /\ u(i - 1) < n
      BY <1>1
    <3> DEFINE x == u(i - 1)
               y == u(i)
               len == Len(in.stream)
    <3>2. x \in Nat /\ y \in x + 1 .. n /\ n \in Nat /\ n <= len /\ len \in Nat
          /\ next = 1 + in.popped /\ in.popped \in Nat
      BY <1>0, <3>1
    <3> HIDE DEF x, y, len
    <3>3. /\ next + x \in Nat /\ next + x # 0 /\ (next + x) - 1 = in.popped + ((x + 1) - 1)
          /\ x + 1 \in 1 .. len + 1 /\ y \in (x + 1) - 1 .. len
          /\ (y - (x + 1)) + 1 = y - x /\ y - x \in Nat /\ x + 1 <= y
      BY ONLY <3>2
    <3> QED
      BY <3>3 DEF x, y, len
  <2>2. IndexOf(a) = in.popped + (lo - 1)
    BY <2>1 DEF IndexOf
  <2>3. f(i) \in BOOLEAN /\ (f(i) => in.is_closed /\ hi = Len(in.stream))
    BY <1>1
  <2>4. msgs[i] = Piece(in, isn, a, lo, hi, f(i))
    BY DEF u, count, msgs, SegmentsOf
  <2> HIDE DEF a, lo, hi, f
  <2>5. PieceIn(Piece(in, isn, a, lo, hi, f(i)), D, base.snd.input, isn, a, (hi - lo) + 1, f(i))
    BY <2>1, <2>2, <2>3, PieceCarried
  <2> QED
    BY <2>1, <2>4, <2>5 DEF a
<1>3. msgs \in Seq(MessageRecord) /\ Len(msgs) = count
  <2>1. \A i \in 1 .. count : msgs[i] \in MessageRecord
    BY <1>2 DEF PieceIn
  <2>2. msgs = [i \in 1 .. count |-> msgs[i]]
    BY DEF count, msgs, SegmentsOf
  <2>3. msgs \in [1 .. count -> MessageRecord]
    BY <2>1, <2>2
  <2> QED
    BY <1>1, <2>3, FunctionIsSeq
<1>4. PICK g : /\ g[0] = base
               /\ \A k \in 1 .. count : g[k] = Send(g[k - 1], msgs[k])
               /\ SendAll(base, msgs) = g[count]
  <2>1. msgs \in Seq(MessageRecord) /\ Len(msgs) = count
    BY <1>3
  <2>2. PICK g : SentInTurn(g, base, msgs)
    BY <2>1, SendAllSteps
  <2> QED
    BY <2>1, <2>2 DEF SentInTurn
<1> DEFINE T == { k \in Nat : k < count => Pushing(before, base, g[k], D, next + u(k), fin0) }
<1>5. 0 \in T
  BY <1>1, <1>4
<1>6. ASSUME NEW k \in Nat, k \in T PROVE k + 1 \in T
  <2> SUFFICES ASSUME k + 1 < count
               PROVE  Pushing(before, base, g[k + 1], D, next + u(k + 1), fin0)
    OBVIOUS
  <2>1. k + 1 \in 1 .. count /\ k < count /\ (k + 1) - 1 = k /\ k + 1 # count
    BY <1>1
  <2>2. Pushing(before, base, g[k], D, next + u(k), fin0)
    BY <1>6, <2>1
  <2>3. /\ next + u(k) \in Nat /\ next + u(k) # 0 /\ u(k + 1) - u(k) \in Nat
        /\ PieceIn(msgs[k + 1], D, base.snd.input, base.snd.isn, next + u(k), u(k + 1) - u(k), FALSE)
    <3>1. f(k + 1) = FALSE
      BY <2>1
    <3> HIDE DEF f
    <3> QED
      BY <1>2, <2>1, <3>1
  <2>4. Pushing(before, base, Send(g[k], msgs[k + 1]), D,
                (next + u(k)) + ((u(k + 1) - u(k)) + (IF FALSE THEN 1 ELSE 0)), fin0 \/ FALSE)
    BY <2>2, <2>3, PushOne
  <2>5. (next + u(k)) + ((u(k + 1) - u(k)) + (IF FALSE THEN 1 ELSE 0)) = next + u(k + 1)
    <3> DEFINE x == u(k)
               y == u(k + 1)
    <3>1. x \in Nat /\ y \in x + 1 .. n
      BY <1>1, <2>1
    <3> HIDE DEF x, y
    <3>2. (next + x) + ((y - x) + (IF FALSE THEN 1 ELSE 0)) = next + y
      BY <1>0, <3>1
    <3> QED
      BY <3>2 DEF x, y
  <2>6. (fin0 \/ FALSE) = fin0
    OBVIOUS
  <2>7. g[k + 1] = Send(g[k], msgs[k + 1])
    BY <1>4, <2>1
  <2> QED
    BY <2>4, <2>5, <2>6, <2>7
<1> HIDE DEF T
<1>7. \A k \in Nat : k \in T
  BY <1>5, <1>6, SetInduction
<1> DEFINE sent == Pushing(before, base, SendAll(base, msgs), D,
                           next + (n + (IF fin /\ count > 0 THEN 1 ELSE 0)),
                           fin0 \/ (fin /\ count > 0))
<1>8. ASSUME count = 0 PROVE sent
  <2>1. n = 0 /\ next + (n + (IF fin /\ count > 0 THEN 1 ELSE 0)) = next
        /\ (fin0 \/ (fin /\ count > 0)) = fin0
    BY <1>1, <1>8
  <2> QED
    BY <1>4, <1>8, <2>1
<1>9. ASSUME count # 0 PROVE sent
  <2> DEFINE k == count - 1
  <2>1. k \in Nat /\ k + 1 = count /\ k < count /\ count \in 1 .. count /\ count > 0
    BY <1>1, <1>9
  <2> HIDE DEF k
  <2>2. Pushing(before, base, g[k], D, next + u(k), fin0)
    BY <1>7, <2>1 DEF T
  <2>3. /\ next + u(k) \in Nat /\ next + u(k) # 0 /\ n - u(k) \in Nat
        /\ PieceIn(msgs[count], D, base.snd.input, base.snd.isn, next + u(k), n - u(k), fin)
    <3>1. f(count) = fin /\ count - 1 = k /\ u(count) = n
      BY <1>1, <2>1
    <3> HIDE DEF f
    <3>2. /\ next + u(count - 1) \in Nat /\ next + u(count - 1) # 0 /\ u(count) - u(count - 1) \in Nat
          /\ PieceIn(msgs[count], D, base.snd.input, isn, next + u(count - 1),
                     u(count) - u(count - 1), f(count))
      BY <1>2, <2>1
    <3> QED
      BY <3>1, <3>2
  <2>4. Pushing(before, base, Send(g[k], msgs[count]), D,
                (next + u(k)) + ((n - u(k)) + (IF fin THEN 1 ELSE 0)), fin0 \/ fin)
    <3> DEFINE a == next + u(k)
               bytes == n - u(k)
               c == g[k]
               m == msgs[count]
    <3>1. /\ a \in Nat /\ a # 0 /\ bytes \in Nat /\ Pushing(before, base, c, D, a, fin0)
          /\ PieceIn(m, D, base.snd.input, base.snd.isn, a, bytes, fin)
      BY <2>2, <2>3
    <3> HIDE DEF a, bytes, c, m
    <3>2. Pushing(before, base, Send(c, m), D, a + (bytes + (IF fin THEN 1 ELSE 0)), fin0 \/ fin)
      BY <3>1, PushOne
    <3> QED
      BY <3>2 DEF a, bytes, c, m
  <2>5. (next + u(k)) + ((n - u(k)) + (IF fin THEN 1 ELSE 0))
          = next + (n + (IF fin /\ count > 0 THEN 1 ELSE 0))
    <3>1. u(k) \in Nat
      <4>1. count - 1 = k
        BY <2>1
      <4> QED
        BY <1>1, <2>1, <4>1
    <3> QED
      BY <1>0, <2>1, <3>1
  <2>6. (fin0 \/ fin) = (fin0 \/ (fin /\ count > 0))
    BY <2>1
  <2>7. g[count] = Send(g[k], msgs[count])
    <3>1. count - 1 = k
      BY <2>1
    <3> QED
      BY <1>4, <2>1, <3>1
  <2> QED
    BY <1>4, <2>4, <2>5, <2>6, <2>7
<1> QED
  BY <1>8, <1>9 DEF AllSent, count, msgs

LEMMA SendNone ==
  ASSUME NEW base
  PROVE  SendAll(base, <<>>) = base
<1>1. <<>> \in Seq({}) /\ Len(<<>>) = 0
  BY EmptySeq
<1>2. PICK g : SentInTurn(g, base, <<>>)
  BY <1>1, SendAllSteps
<1> QED
  BY <1>1, <1>2 DEF SentInTurn

LEMMA PushDataStep ==
  ASSUME NEW before, NEW step, NEW D, StepOf(before, step, D), ~ before.input.error,
         step.snd.syn_sent
  PROVE  /\ StepOf(before, PushData(step), D) /\ PushData(step).snd.syn_sent
         /\ FillsWindow(step.snd, PushData(step).snd)
<1> DEFINE snd   == step.snd
           in    == step.snd.input
           n     == Smaller(AvailableWindow(snd), BytesBuffered(in))
           fin   == in.is_closed /\ n = BytesBuffered(in) /\ AvailableWindow(snd) > n
           base  == TakeBytes(step, n)
           next  == snd.next_seqno
           count == SegmentCount(n)
           msgs  == SegmentsOf(in, snd.isn, next, n, fin)
           c     == PushData(step)
<1>1. Ready(before, step, D) /\ Numbered(snd)
  BY StepReady, StepKeepsError
<1>2. snd \in SenderRecord /\ InputOf(in, D) /\ snd.isn \in Raw /\ next \in Nat
      /\ snd.fin_set \in BOOLEAN /\ snd.fin_ready \in BOOLEAN
  BY <1>1 DEF Ready, StepRecord, SenderRecord
<1>3. /\ Len(in.stream) \in Nat /\ in.popped \in Nat /\ in.is_closed \in BOOLEAN
      /\ in.pushed = in.popped + Len(in.stream)
  BY <1>2, InputTypes
<1>4. n \in 0 .. Len(in.stream) /\ n \in Nat
  <2>1. AvailableWindow(snd) \in Nat
    BY <1>2, WindowRoom
  <2>2. n \in 0 .. Len(in.stream)
    BY <1>3, <2>1, SmallerOf DEF BytesBuffered
  <2> QED
    BY <1>3, <2>2
<1>5. fin \in BOOLEAN /\ (fin => in.is_closed /\ n = Len(in.stream))
  BY DEF BytesBuffered
<1>6. Ready(before, base, D) /\ Taken(step, base, n)
  BY <1>1, <1>4, TakeReady
<1>7. c = SendAll(base, msgs)
  <2>1. n > 0 => next # 0
    BY <1>1, <1>3 DEF Numbered
  <2>2. ASSUME NEW i \in 1 .. count
        PROVE  Piece(in, snd.isn, next + UpTo(i - 1, n), UpTo(i - 1, n) + 1, UpTo(i, n), fin /\ i = count)
                 = SenderMessage(Wrap(next + (i - 1) * MaxPayload, snd.isn), FALSE,
                     SubSeq(in.stream, (i - 1) * MaxPayload + 1, Smaller(i * MaxPayload, n)),
                     fin /\ i = count)
    <3>1. UpTo(i - 1, n) = (i - 1) * MaxPayload /\ UpTo(i - 1, n) \in Nat
      BY <1>4, SegmentsCover
    <3>2. next # 0
      BY <1>1, <1>3 DEF Numbered
    <3>3. (next + UpTo(i - 1, n) = 0) = FALSE
      BY <1>2, <3>1, <3>2
    <3> HIDE DEF fin, n, in, snd, next
    <3> QED
      BY <3>1, <3>3 DEF Piece, UpTo
  <2> QED
    BY <2>2 DEF PushData, SegmentCount, SegmentsOf
<1> HIDE DEF base, c
<1>8. /\ base.snd.isn = snd.isn /\ base.snd.next_seqno = next /\ base.snd.syn_sent = snd.syn_sent
      /\ base.snd.fin_set = snd.fin_set /\ base.snd.fin_ready = snd.fin_ready
      /\ base.snd.input.pushed = in.pushed /\ base.snd.input.is_closed = in.is_closed
      /\ base.snd.input.popped = in.popped + n
  BY <1>6 DEF Taken, Takes
<1>9. Pushing(before, base, base, D, next, snd.fin_set)
  BY <1>6, <1>8 DEF Pushing, SameWindow
<1>10. n > 0 => ~ snd.fin_set /\ ~ snd.fin_ready
  <2>1. n > 0 => in.popped # in.pushed
    BY <1>3, <1>4
  <2> QED
    BY <1>1, <2>1 DEF Numbered
<1>11. n > 0 => next = 1 + in.popped
  BY <1>1, <1>3, <1>10 DEF Numbered
<1>12. Pushing(before, base, c, D, next + (n + (IF fin /\ count > 0 THEN 1 ELSE 0)),
               snd.fin_set \/ (fin /\ count > 0))
  <2> HIDE DEF n, fin, snd, in, next
  <2>1. AllSent(before, base, in, snd.isn, D, next, n, fin, snd.fin_set)
    BY <1>2, <1>4, <1>5, <1>8, <1>9, <1>11, SegmentsSent
  <2> QED
    BY <1>7, <2>1 DEF AllSent
<1>13. Numbered(c.snd)
  <2> DEFINE ends == fin /\ count > 0
  <2>1. /\ c.snd.next_seqno = next + (n + (IF ends THEN 1 ELSE 0))
        /\ c.snd.fin_set = (snd.fin_set \/ ends) /\ c.snd.syn_sent = snd.syn_sent
        /\ c.snd.fin_ready = snd.fin_ready /\ c.snd.input = base.snd.input
    BY <1>8, <1>12 DEF Pushing
  <2>2. ends => n > 0 /\ in.is_closed /\ n = Len(in.stream)
    <3>1. count > 0 => n > 0
      <4>1. count \in Nat /\ \A i \in 1 .. count : UpTo(i - 1, n) \in Nat /\ UpTo(i - 1, n) < n
        BY <1>4, SegmentsCover
      <4> HIDE DEF count
      <4>2. count > 0 => 1 \in 1 .. count
        BY <4>1
      <4> HIDE DEF n
      <4> QED
        BY <1>4, <4>1, <4>2
    <3> QED
      BY <1>5, <3>1
  <2> HIDE DEF ends, n, fin, count
  <2>3. ends => ~ snd.fin_set
    BY <1>10, <2>2
  <2>4. next = 1 + in.popped + (IF snd.fin_set THEN 1 ELSE 0)
        /\ (snd.fin_set \/ snd.fin_ready => in.is_closed /\ in.popped = in.pushed)
    BY <1>1, <1>3 DEF Numbered
  <2>5. c.snd.next_seqno = 1 + (in.popped + n) + (IF c.snd.fin_set THEN 1 ELSE 0)
    <3> DEFINE e == IF ends THEN 1 ELSE 0
               x == IF snd.fin_set THEN 1 ELSE 0
               y == IF c.snd.fin_set THEN 1 ELSE 0
               p == in.popped
    <3>0. (c.snd.fin_set <=> snd.fin_set \/ ends) /\ ~ (snd.fin_set /\ ends)
      BY <2>1, <2>3
    <3>1. y = x + e /\ x \in Nat /\ e \in Nat /\ p \in Nat /\ n \in Nat
      <4>1. y = x + e /\ x \in Nat /\ e \in Nat
        BY ONLY <3>0
      <4> QED
        BY <1>3, <1>4, <4>1
    <3>2. c.snd.next_seqno = next + (n + e) /\ next = 1 + p + x
      BY <2>1, <2>4
    <3> HIDE DEF e, x, y, p, next
    <3>3. c.snd.next_seqno = 1 + (p + n) + y
      BY ONLY <3>1, <3>2
    <3> QED
      BY <3>3 DEF y, p
  <2>6. c.snd.fin_set \/ c.snd.fin_ready => in.is_closed /\ in.popped + n = in.pushed
    <3>1. ends => in.popped + n = in.pushed
      BY <1>3, <2>2
    <3>2. (snd.fin_set \/ snd.fin_ready) => in.popped + n = in.pushed
      <4>1. snd.fin_set \/ snd.fin_ready => n = 0
        BY <1>4, <1>10
      <4> QED
        BY <1>3, <2>4, <4>1
    <3> QED
      BY <2>1, <2>2, <2>4, <3>1, <3>2
  <2>7. c.snd.syn_sent
    BY <2>1
  <2> QED
    BY <1>8, <2>1, <2>5, <2>6, <2>7 DEF Numbered
<1>14. c.snd.syn_sent
  BY <1>8, <1>12 DEF Pushing
<1>15. Ready(before, c, D)
  BY <1>12 DEF Pushing
<1>16. StepOf(before, c, D)
  BY <1>13, <1>15, ReadyStep
<1>17. FillsWindow(snd, c.snd)
  <2>1. SameWindow(snd, c.snd) /\ c.snd.fin_ready = snd.fin_ready
    BY <1>6, <1>8, <1>12 DEF Taken, Pushing, SameWindow
  <2>2. count \in Nat /\ \A i \in 1 .. count : UpTo(i - 1, n) \in Nat /\ UpTo(i - 1, n) < n
    BY <1>4, SegmentsCover
  <2>3. CASE n = 0
    <3>1. count = 0
      <4> SUFFICES ASSUME count # 0 PROVE FALSE
        OBVIOUS
      <4> HIDE DEF count, n
      <4>1. 1 \in 1 .. count
        BY <2>2
      <4> QED
        BY <2>2, <2>3, <4>1
    <3>2. msgs = <<>>
      BY <3>1 DEF SegmentsOf
    <3>3. c = base
      BY <1>7, <3>2, SendNone
    <3> QED
      BY <1>6, <2>1, <3>3 DEF FillsWindow, Taken
  <2>4. CASE n # 0
    <3> DEFINE avail == AvailableWindow(snd)
               e == IF fin /\ count > 0 THEN 1 ELSE 0
    <3>1. avail \in Nat /\ n <= avail
      <4>1. avail \in Nat
        BY <1>2, WindowRoom
      <4>2. n = Smaller(avail, Len(in.stream))
        BY DEF BytesBuffered
      <4> HIDE DEF n, avail
      <4>3. n \in 0 .. avail
        BY <1>3, <4>1, <4>2, SmallerOf
      <4> QED
        BY <4>1, <4>3
    <3>2. e \in Nat /\ n + e <= avail
      <4>1. e = 0 \/ (e = 1 /\ avail > n)
        OBVIOUS
      <4> HIDE DEF e, n, avail
      <4> QED
        BY <1>4, <3>1, <4>1
    <3>3. c.snd.next_seqno = next + (n + e)
      BY <1>12 DEF Pushing
    <3> HIDE DEF e, n
    <3>4. avail > 0 /\ c.snd.next_seqno <= next + avail
      <4> HIDE DEF avail, next
      <4> QED
        BY <1>2, <1>4, <2>4, <3>1, <3>2, <3>3
    <3>5. ~ snd.fin_ready
      BY <1>4, <1>10, <2>4
    <3> QED
      BY <2>1, <3>4, <3>5 DEF FillsWindow
  <2> QED
    BY <2>3, <2>4
<1> QED
  BY <1>14, <1>16, <1>17 DEF c

\* push() as a whole.
LEMMA SenderPushStep ==
  ASSUME NEW snd, NEW D, SenderOf(snd, D), Small(D)
  PROVE  StepOf(snd, SenderPush(snd), D)
<1> DEFINE step == [snd |-> snd, out |-> <<>>]
<1>1. StepOf(snd, step, D)
  <2>1. step \in StepRecord /\ step.snd = snd /\ step.out = <<>> /\ Len(step.out) = 0
    BY EmptySeq DEF SenderOf, StepRecord
  <2> HIDE DEF step
  <2> QED
    BY <2>1 DEF StepOf, Keeps
<1>2. CASE snd.input.error
  <2> DEFINE m == EmptyMessage(snd)
             b == [step EXCEPT !.out = <<m>>]
  <2>1. SenderPush(snd) = b
    BY <1>2 DEF SenderPush
  <2>2. m \in MessageRecord /\ m.RST
    <3>1. snd.next_seqno \in Nat /\ snd.isn \in Raw
      BY DEF SenderOf, SenderRecord
    <3>2. NextSeqno(snd) \in Raw
      BY <3>1, BaseOfWrap DEF NextSeqno
    <3>3. <<>> \in Seq(Nat)
      BY EmptySeq
    <3> QED
      BY <1>2, <3>2, <3>3 DEF EmptyMessage, SenderMessage, MessageRecord
  <2> HIDE DEF m
  <2>3. b = [snd |-> snd, out |-> <<m>>]
    OBVIOUS
  <2> HIDE DEF b
  <2>4. b.snd = snd /\ b.out = <<m>> /\ Len(b.out) = 1 /\ b.out[1] = m /\ b \in StepRecord
    BY <2>2, <2>3 DEF SenderOf, StepRecord
  <2>5. \A i \in 1 .. Len(b.out) : Sound(b.out[i], snd.isn, D, snd.input)
    BY <2>2, <2>4 DEF Sound
  <2> QED
    BY <2>1, <2>4, <2>5 DEF StepOf, Keeps
<1>3. CASE ~ snd.input.error
  <2> HIDE DEF step
  <2> DEFINE s1 == PushSyn(step)
             s2 == PushData(s1)
             s3 == PushFin(s2)
             s4 == PushFinReady(s3)
  <2>1. step.snd.input.error = snd.input.error
    BY <1>1, StepKeepsError
  <2>2. StepOf(snd, s1, D) /\ s1.snd.syn_sent
    BY <1>1, <1>3, <2>1, PushSynStep
  <2> HIDE DEF s1
  <2>3. StepOf(snd, s2, D) /\ s2.snd.syn_sent
    BY <1>3, <2>2, PushDataStep
  <2> HIDE DEF s2
  <2>4. StepOf(snd, s3, D) /\ s3.snd.syn_sent
    BY <1>3, <2>3, PushFinStep
  <2> HIDE DEF s3
  <2>5. StepOf(snd, s4, D) /\ s4.snd.syn_sent
    BY <1>3, <2>4, PushFinReadyStep
  <2> HIDE DEF s4
  <2>6. StepOf(snd, PushProbe(s4), D)
    BY <1>3, <2>5, PushProbeStep
  <2>7. SenderPush(snd) = PushProbe(s4)
    BY <1>3 DEF SenderPush, s4, s3, s2, s1, step
  <2> QED
    BY <2>6, <2>7
<1> QED
  BY <1>2, <1>3

-----------------------------------------------------------------------------
(* tick() *)

\* The clocks, the window and the probe do not matter to the rest.
LEMMA SenderUntouched ==
  ASSUME NEW b, NEW D, SenderOf(b, D), NEW c \in SenderRecord,
         c.input = b.input, c.isn = b.isn, c.outstanding = b.outstanding,
         c.next_seqno = b.next_seqno, c.bytes_unack = b.bytes_unack,
         c.syn_sent = b.syn_sent, c.fin_set = b.fin_set, c.fin_ready => b.fin_ready, Timed(c)
  PROVE  SenderOf(c, D) /\ Keeps(b, c)
<1>1. First(c) = First(b)
  BY DEF First
<1>2. Numbered(c)
  BY DEF SenderOf, Numbered
<1>3. ~ c.input.error => Queue(c, D)
  <2> SUFFICES ASSUME ~ c.input.error PROVE Queue(c, D)
    OBVIOUS
  <2>1. PICK st : QueueAt(b, D, st)
    BY DEF SenderOf, Queue
  <2>2. QueueAt(c, D, st)
    BY <1>1, <2>1 DEF QueueAt
  <2> QED
    BY <2>2 DEF Queue
<1> QED
  BY <1>1, <1>2, <1>3 DEF SenderOf, Keeps

LEMMA OldestSound ==
  ASSUME NEW snd, NEW D, SenderOf(snd, D), snd.outstanding # <<>>
  PROVE  /\ Head(snd.outstanding) \in MessageRecord
         /\ Head(snd.outstanding) = snd.outstanding[1]
         /\ Sound(Head(snd.outstanding), snd.isn, D, snd.input)
<1>1. snd.outstanding \in Seq(MessageRecord) /\ Queue(snd, D)
  BY DEF SenderOf, SenderRecord
<1>2. PICK st : QueueAt(snd, D, st)
  BY <1>1 DEF Queue
<1>3. 1 \in 1 .. Len(snd.outstanding)
  BY <1>1, EmptySeq
<1>4. Carries(snd.outstanding[1], st[1], snd.isn, D, snd.input)
  BY <1>2, <1>3 DEF QueueAt
<1>5. Sound(snd.outstanding[1], snd.isn, D, snd.input)
  BY <1>4 DEF Sound, Carries
<1>6. Head(snd.outstanding) = snd.outstanding[1] /\ snd.outstanding[1] \in MessageRecord
  BY <1>1, <1>3, HeadTailProperties, ElementOfSeq
<1> QED
  BY <1>5, <1>6

(* Powers of two, and the timeout that doubles *)

\* g doubles up to n.
Doubles(g, n) == g \in [0 .. n -> Nat \ {0}] /\ g[0] = 1 /\ \A k \in 1 .. n : g[k] = 2 * g[k - 1]

LEMMA DoublesExists ==
  \A n \in Nat : \E g : Doubles(g, n)
<1> DEFINE T == { n \in Nat : \E g : Doubles(g, n) }
<1>1. 0 \in T
  <2>1. Doubles([k \in 0 .. 0 |-> 1], 0)
    BY DEF Doubles
  <2> QED
    BY <2>1
<1>2. ASSUME NEW n \in Nat, n \in T PROVE n + 1 \in T
  <2>1. PICK g : Doubles(g, n)
    BY <1>2
  <2> DEFINE h == [k \in 0 .. n + 1 |-> IF k = n + 1 THEN 2 * g[n] ELSE g[k]]
  <2>2. Doubles(h, n + 1)
    <3>1. h \in [0 .. n + 1 -> Nat \ {0}]
      <4>1. n \in 0 .. n /\ \A k \in 0 .. n + 1 : k # n + 1 => k \in 0 .. n
        OBVIOUS
      <4>2. \A k \in 0 .. n : g[k] \in Nat \ {0}
        BY <2>1 DEF Doubles
      <4> QED
        BY <4>1, <4>2
    <3>2. h[0] = 1
      BY <2>1 DEF Doubles
    <3>3. ASSUME NEW k \in 1 .. n + 1 PROVE h[k] = 2 * h[k - 1]
      <4>1. k \in 0 .. n + 1 /\ k - 1 \in 0 .. n + 1 /\ k - 1 # n + 1
        OBVIOUS
      <4>2. k # n + 1 => k \in 1 .. n
        OBVIOUS
      <4>3. h[k - 1] = g[k - 1]
        BY <4>1
      <4>4. CASE k = n + 1
        <5>1. k - 1 = n
          BY <4>4
        <5> QED
          BY <4>1, <4>3, <4>4, <5>1
      <4>5. CASE k # n + 1
        BY <2>1, <4>1, <4>2, <4>3, <4>5 DEF Doubles
      <4> QED
        BY <4>4, <4>5
    <3> QED
      BY <3>1, <3>2, <3>3 DEF Doubles
  <2> QED
    BY <2>2
<1> HIDE DEF T
<1>3. \A k \in Nat : k \in T
  BY <1>1, <1>2, SetInduction
<1> QED
  BY <1>3 DEF T

LEMMA DoublesUnique ==
  ASSUME NEW m \in Nat, NEW n \in Nat, m <= n, NEW g, NEW h, Doubles(g, m), Doubles(h, n)
  PROVE  g[m] = h[m]
<1> DEFINE T == { k \in Nat : k <= m => g[k] = h[k] }
<1>1. 0 \in T
  BY DEF Doubles
<1>2. ASSUME NEW k \in Nat, k \in T PROVE k + 1 \in T
  <2> SUFFICES ASSUME k + 1 <= m PROVE g[k + 1] = h[k + 1]
    OBVIOUS
  <2>1. k + 1 \in 1 .. m /\ k + 1 \in 1 .. n /\ (k + 1) - 1 = k
    OBVIOUS
  <2>2. g[k] = h[k]
    BY <1>2
  <2> QED
    BY <2>1, <2>2 DEF Doubles
<1> HIDE DEF T
<1>3. \A k \in Nat : k \in T
  BY <1>1, <1>2, SetInduction
<1> QED
  BY <1>3 DEF T

\* The function TwoTo is what its definition says.
LEMMA TwoToFacts ==
  /\ TwoTo[0] = 1
  /\ \A n \in Nat : TwoTo[n] \in Nat \ {0} /\ TwoTo[n + 1] = 2 * TwoTo[n]
<1> DEFINE some(n) == CHOOSE g : Doubles(g, n)
           f == [n \in Nat |-> some(n)[n]]
           Body(t) == [n \in Nat |-> IF n = 0 THEN 1 ELSE 2 * t[n - 1]]
<1>1. \A n \in Nat : Doubles(some(n), n)
  BY DoublesExists
<1>2. f[0] = 1 /\ \A n \in Nat : f[n] \in Nat \ {0}
  <2> HIDE DEF some
  <2>1. 0 \in Nat /\ \A n \in Nat : n \in 0 .. n
    OBVIOUS
  <2>2. some(0)[0] = 1 /\ \A n \in Nat : some(n)[n] \in Nat \ {0}
    BY <1>1, <2>1 DEF Doubles
  <2> QED
    BY <2>2
<1>3. ASSUME NEW n \in Nat, n # 0 PROVE f[n] = 2 * f[n - 1]
  <2>1. n - 1 \in Nat /\ n - 1 <= n /\ n \in 1 .. n
    BY <1>3
  <2>2. some(n)[n] = 2 * some(n)[n - 1]
    BY <1>1, <2>1 DEF Doubles
  <2>3. some(n - 1)[n - 1] = some(n)[n - 1]
    <3>1. Doubles(some(n - 1), n - 1) /\ Doubles(some(n), n)
      BY <1>1, <2>1
    <3> HIDE DEF some
    <3> QED
      BY <2>1, <3>1, DoublesUnique
  <2> HIDE DEF some
  <2> QED
    BY <2>1, <2>2, <2>3
<1> HIDE DEF some
<1>4. f = Body(f)
  <2>1. \A n \in Nat : f[n] = Body(f)[n]
    BY <1>2, <1>3
  <2> QED
    BY <2>1
<1>5. TwoTo = CHOOSE t : t = Body(t)
  BY Zenon DEF TwoTo
<1> HIDE DEF f
<1>6. TwoTo = Body(TwoTo)
  <2> HIDE DEF Body
  <2> QED
    BY <1>4, <1>5
<1> DEFINE T == { n \in Nat : TwoTo[n] \in Nat \ {0} }
<1>7. TwoTo[0] = 1
  BY <1>6
<1>8. \A n \in Nat : TwoTo[n + 1] = 2 * TwoTo[n]
  <2> SUFFICES ASSUME NEW n \in Nat PROVE TwoTo[n + 1] = 2 * TwoTo[n]
    OBVIOUS
  <2>1. n + 1 \in Nat /\ n + 1 # 0 /\ (n + 1) - 1 = n
    OBVIOUS
  <2>2. TwoTo[n + 1] = Body(TwoTo)[n + 1]
    BY <1>6
  <2> QED
    BY <2>1, <2>2
<1>9. 0 \in T /\ \A n \in Nat : n \in T => n + 1 \in T
  BY <1>7, <1>8
<1> HIDE DEF T
<1>10. \A n \in Nat : n \in T
  BY <1>9, SetInduction
<1> QED
  BY <1>7, <1>8, <1>10 DEF T
\* Before the first retransmission the timeout is the initial one.
LEMMA NoBackoff == RtoAfter(0) = RtTimeout /\ 0 <= MaxRetx
  BY TwoToFacts, SenderAssumption DEF RtoAfter, Smaller

\* Doubled once more, the timeout is that of one more retransmission, also when
\* one of the two has reached its bound.
LEMMA OneMoreBackoff ==
  ASSUME NEW n \in Nat, n <= MaxRetx
  PROVE  /\ Smaller(RtoAfter(n) * 2, MaxRTO) = RtoAfter(Smaller(n + 1, MaxRetx))
         /\ Smaller(n + 1, MaxRetx) <= MaxRetx
<1> DEFINE p == TwoTo[n]
           r == RtTimeout * p
<1>1. p \in Nat \ {0} /\ TwoTo[n + 1] = 2 * p
  BY TwoToFacts
<1>2. RtTimeout \in Nat \ {0} /\ MaxRTO \in Nat /\ MaxRetx \in Nat
      /\ MaxRTO <= RtTimeout * TwoTo[MaxRetx]
  BY SenderAssumption
<1> HIDE DEF p
<1>3. r \in Nat /\ RtTimeout * (2 * p) = 2 * r
  BY <1>1, <1>2
<1>4. RtoAfter(n) = Smaller(r, MaxRTO)
  BY DEF RtoAfter, p
<1> HIDE DEF r
<1>5. CASE n = MaxRetx
  <2>1. RtoAfter(n) = MaxRTO /\ MaxRTO <= r
    <3>1. MaxRTO <= r
      BY <1>2, <1>5 DEF r, p
    <3> QED
      BY <1>2, <1>3, <1>4, <3>1 DEF Smaller
  <2>2. Smaller(n + 1, MaxRetx) = n
    BY <1>2, <1>5 DEF Smaller
  <2> QED
    BY <1>2, <1>5, <2>1, <2>2 DEF Smaller
<1>6. CASE n # MaxRetx
  <2>1. Smaller(n + 1, MaxRetx) = n + 1 /\ n + 1 <= MaxRetx
    BY <1>2, <1>6 DEF Smaller
  <2>2. RtoAfter(n + 1) = Smaller(2 * r, MaxRTO)
    BY <1>1, <1>3 DEF RtoAfter, r
  <2> QED
    BY <1>2, <1>3, <1>4, <2>1, <2>2 DEF Smaller
<1> QED
  BY <1>5, <1>6

LEMMA BackoffTimed ==
  ASSUME NEW snd, NEW D, SenderOf(snd, D)
  PROVE  SenderOf([Backoff(snd) EXCEPT !.timer = 0], D)
         /\ Keeps(snd, [Backoff(snd) EXCEPT !.timer = 0])
<1> DEFINE more == Smaller(snd.consecutive_retransmissions + 1, MaxRetx)
           rto  == Smaller(snd.RTO * 2, MaxRTO)
           q    == [Backoff(snd) EXCEPT !.timer = 0]
<1>1. snd \in SenderRecord /\ snd.RTO \in Nat /\ snd.RTO > 0
      /\ snd.consecutive_retransmissions \in Nat
  BY DEF SenderOf, Timed, SenderRecord
<1>2. more \in Nat /\ rto \in Nat /\ rto > 0
  <2>1. MaxRTO \in Nat /\ MaxRTO > 0 /\ MaxRetx \in Nat
    BY SenderAssumption
  <2> QED
    BY <1>1, <2>1 DEF Smaller
<1> HIDE DEF more, rto
<1>3. \/ q = [snd EXCEPT !.consecutive_retransmissions = more, !.RTO = rto, !.timer = 0]
      \/ q = [snd EXCEPT !.timer = 0]
  BY <1>1 DEF Backoff, more, rto, SenderRecord
<1> HIDE DEF q
<1>4. q \in SenderRecord
  <2>1. [snd EXCEPT !.consecutive_retransmissions = more, !.RTO = rto, !.timer = 0] \in SenderRecord
    BY <1>1, <1>2 DEF SenderRecord
  <2>2. [snd EXCEPT !.timer = 0] \in SenderRecord
    BY <1>1 DEF SenderRecord
  <2> QED
    BY <1>3, <2>1, <2>2
<1>5. /\ q.input = snd.input /\ q.isn = snd.isn /\ q.outstanding = snd.outstanding
      /\ q.next_seqno = snd.next_seqno /\ q.bytes_unack = snd.bytes_unack
      /\ q.syn_sent = snd.syn_sent /\ q.fin_set = snd.fin_set /\ q.fin_ready = snd.fin_ready
      /\ q.timer_active = snd.timer_active /\ q.timer = 0
      /\ \/ q.RTO = rto /\ q.consecutive_retransmissions = more
         \/ q.RTO = snd.RTO /\ q.consecutive_retransmissions = snd.consecutive_retransmissions
  BY <1>1, <1>3 DEF SenderRecord
<1>6. Timed(q)
  <2>1. rto = RtoAfter(more) /\ more <= MaxRetx
    BY <1>1, OneMoreBackoff DEF SenderOf, Timed, rto, more
  <2> QED
    BY <1>1, <1>2, <1>5, <2>1 DEF SenderOf, Timed
<1>7. SenderOf(q, D) /\ Keeps(snd, q)
  BY <1>4, <1>5, <1>6, SenderUntouched
<1> QED
  BY <1>7 DEF q

LEMMA SenderTickStep ==
  ASSUME NEW snd, NEW D, SenderOf(snd, D), NEW ms \in Nat
  PROVE  StepOf(snd, SenderTick(snd, ms), D)
<1> DEFINE running == snd.outstanding # <<>> /\ snd.timer_active
           timer   == snd.timer + ms
           step    == SenderTick(snd, ms)
<1>1. snd \in SenderRecord /\ snd.timer \in Nat /\ timer \in Nat
  BY DEF SenderOf, SenderRecord
<1>2. CASE ~ running
  <2>1. step = [snd |-> snd, out |-> <<>>]
    BY <1>2 DEF SenderTick
  <2> HIDE DEF step
  <2>2. step \in StepRecord /\ step.snd = snd /\ Len(step.out) = 0
    BY <1>1, <2>1, EmptySeq DEF StepRecord
  <2>3. StepOf(snd, step, D)
    BY <2>2 DEF StepOf, Keeps
  <2> QED
    BY <2>3 DEF step
<1>3. CASE running /\ timer < snd.RTO
  <2> DEFINE q == [snd EXCEPT !.timer = timer]
  <2>1. step = [snd |-> q, out |-> <<>>]
    BY <1>3 DEF SenderTick
  <2> HIDE DEF step
  <2>2. q \in SenderRecord /\ q.timer = timer
    BY <1>1 DEF SenderRecord
  <2>3. /\ q.input = snd.input /\ q.isn = snd.isn /\ q.outstanding = snd.outstanding
        /\ q.next_seqno = snd.next_seqno /\ q.bytes_unack = snd.bytes_unack
        /\ q.syn_sent = snd.syn_sent /\ q.fin_set = snd.fin_set /\ q.fin_ready = snd.fin_ready
        /\ q.timer_active = snd.timer_active /\ q.RTO = snd.RTO
        /\ q.consecutive_retransmissions = snd.consecutive_retransmissions
    BY <1>1 DEF SenderRecord
  <2> HIDE DEF q
  <2>4. Timed(q)
    BY <1>3, <2>2, <2>3 DEF SenderOf, Timed
  <2>5. SenderOf(q, D) /\ Keeps(snd, q)
    BY <2>2, <2>3, <2>4, SenderUntouched
  <2>6. step \in StepRecord /\ step.snd = q /\ Len(step.out) = 0
    BY <2>1, <2>2, EmptySeq DEF StepRecord
  <2>7. StepOf(snd, step, D)
    BY <2>5, <2>6 DEF StepOf
  <2> QED
    BY <2>7 DEF step
<1>4. CASE running /\ ~ (timer < snd.RTO)
  <2> DEFINE q == [Backoff(snd) EXCEPT !.timer = 0]
             m == Head(snd.outstanding)
  <2>1. step = [snd |-> q, out |-> <<m>>]
    BY <1>4 DEF SenderTick
  <2> HIDE DEF step
  <2>2. SenderOf(q, D) /\ Keeps(snd, q)
    BY BackoffTimed
  <2>3. m \in MessageRecord /\ Sound(m, snd.isn, D, snd.input)
    BY <1>4, OldestSound
  <2> HIDE DEF q, m
  <2>4. step \in StepRecord /\ step.snd = q /\ Len(step.out) = 1 /\ step.out[1] = m
    BY <2>1, <2>2, <2>3 DEF StepRecord, SenderOf
  <2>5. StepOf(snd, step, D)
    BY <2>2, <2>3, <2>4 DEF StepOf
  <2> QED
    BY <2>5 DEF step
<1> QED
  BY <1>2, <1>3, <1>4

-----------------------------------------------------------------------------
(* receive(): the oldest message acknowledged *)

\* The oldest message m of snd is no longer outstanding.
Pops(snd, q, m, D) ==
  /\ SenderOf(q, D)
  /\ q.outstanding = Tail(snd.outstanding) /\ q.next_seqno = snd.next_seqno
  /\ First(q) = First(snd) + SequenceLength(m) /\ First(q) = SegmentEnd(snd, m)
  /\ q.input = snd.input /\ q.isn = snd.isn /\ q.syn_sent = snd.syn_sent

LEMMA OldestAt ==
  ASSUME NEW snd, NEW D, SenderOf(snd, D), ~ snd.input.error, Small(D),
         snd.outstanding # <<>>
  PROVE  /\ SeqnoOf(snd, Head(snd.outstanding).seqno) = First(snd)
         /\ SegmentEnd(snd, Head(snd.outstanding))
              = First(snd) + SequenceLength(Head(snd.outstanding))
<1> DEFINE m == Head(snd.outstanding)
<1>1. PICK st : QueueAt(snd, D, st)
  BY DEF SenderOf, Queue
<1>2. snd.outstanding \in Seq(MessageRecord) /\ snd.isn \in Raw
  BY DEF SenderOf, SenderRecord
<1>3. m = snd.outstanding[1] /\ 1 \in 1 .. Len(snd.outstanding)
  BY <1>2, EmptySeq, HeadTailProperties
<1>4. m.seqno = Wrap(First(snd), snd.isn)
  BY <1>1, <1>3 DEF QueueAt, Carries
<1>5. snd.next_seqno \in 0 .. Len(D) + 2
  BY NextInStream DEF SenderOf
<1>6. First(snd) \in 0 .. Len(D) + 2 /\ D \in Seq(Nat)
  <2>1. First(snd) \in 0 .. snd.next_seqno /\ D \in Seq(Nat)
    BY DEF SenderOf, InputOf
  <2>2. Len(D) \in Nat
    BY <2>1, LenProperties
  <2> QED
    BY <1>5, <2>1, <2>2
<1>7. Unwrap(Wrap(First(snd), snd.isn), snd.isn, snd.next_seqno) = First(snd)
  BY <1>2, <1>5, <1>6, SeqnoRecovered
<1>8. SeqnoOf(snd, m.seqno) = First(snd)
  BY <1>4, <1>7 DEF SeqnoOf
<1> QED
  BY <1>8 DEF SegmentEnd
LEMMA PopsQueue ==
  ASSUME NEW D, NEW snd \in SenderRecord, NEW q \in SenderRecord, Queue(snd, D),
         snd.outstanding # <<>>, q.outstanding = Tail(snd.outstanding),
         q.isn = snd.isn, q.input = snd.input, q.next_seqno = snd.next_seqno,
         First(q) = First(snd) + SequenceLength(Head(snd.outstanding))
  PROVE  Queue(q, D) /\ First(q) \in 0 .. q.next_seqno
<1> DEFINE os == snd.outstanding
           n  == Len(os)
           rest == Tail(os)
<1>1. PICK st : QueueAt(snd, D, st)
  BY DEF Queue
<1>2. os \in Seq(MessageRecord) /\ os # <<>> /\ snd.next_seqno \in Nat
  BY DEF SenderRecord
<1>3. /\ n \in Nat \ {0} /\ rest \in Seq(MessageRecord) /\ Len(rest) = n - 1
      /\ \A i \in 1 .. n - 1 : rest[i] = os[i + 1]
      /\ Head(os) = os[1]
  <2>1. n \in Nat \ {0}
    BY <1>2, EmptySeq
  <2> QED
    BY <1>2, <2>1, HeadTailProperties
<1>4. /\ st \in [1 .. n + 1 -> Nat] /\ st[1] = First(snd) /\ st[n + 1] = snd.next_seqno
      /\ \A i \in 1 .. n : Carries(os[i], st[i], snd.isn, D, snd.input)
      /\ \A i \in 1 .. n : st[i + 1] = st[i] + SequenceLength(os[i])
      /\ \A i, j \in 1 .. n + 1 : i <= j => st[i] <= st[j]
  BY <1>1 DEF QueueAt
<1> HIDE DEF n, rest, os
<1> DEFINE nst == [i \in 1 .. n |-> st[i + 1]]
<1>5. \A i \in 1 .. n : i + 1 \in 1 .. n + 1 /\ st[i + 1] \in Nat
  BY <1>3, <1>4
<1>6. nst \in [1 .. n -> Nat] /\ \A i \in 1 .. n : nst[i] = st[i + 1]
  BY <1>5
<1> HIDE DEF nst
<1>7. 1 \in 1 .. n /\ n \in 1 .. n /\ (n - 1) + 1 = n
  BY <1>3
<1>8. nst[1] = First(q) /\ nst[n] = snd.next_seqno
  <2>1. st[1 + 1] = st[1] + SequenceLength(os[1])
    BY <1>4, <1>7
  <2> QED
    BY <1>3, <1>4, <1>6, <1>7, <2>1 DEF os
<1>9. \A i \in 1 .. n - 1 : /\ Carries(rest[i], nst[i], snd.isn, D, snd.input)
                            /\ nst[i + 1] = nst[i] + SequenceLength(rest[i])
  <2> TAKE i \in 1 .. n - 1
  <2>1. i \in 1 .. n /\ i + 1 \in 1 .. n
    BY <1>3
  <2> QED
    BY <1>3, <1>4, <1>6, <2>1
<1>10. \A i, j \in 1 .. n : i <= j => nst[i] <= nst[j]
  <2> SUFFICES ASSUME NEW i \in 1 .. n, NEW j \in 1 .. n, i <= j PROVE st[i + 1] <= st[j + 1]
    BY <1>6
  <2>1. i + 1 <= j + 1
    BY <1>3
  <2> QED
    BY <1>4, <1>5, <2>1
<1>11. q.outstanding = rest /\ Len(q.outstanding) = n - 1
  BY <1>3 DEF rest, os
<1>12. QueueAt(q, D, nst)
  BY <1>6, <1>7, <1>8, <1>9, <1>10, <1>11 DEF QueueAt
<1>13. nst[1] \in Nat /\ nst[1] <= nst[n]
  BY <1>6, <1>7, <1>10
<1> QED
  BY <1>2, <1>8, <1>12, <1>13 DEF Queue

LEMMA PopOldestStep ==
  ASSUME NEW snd, NEW D, SenderOf(snd, D), ~ snd.input.error, Small(D),
         snd.outstanding # <<>>
  PROVE  Pops(snd, PopOldest(snd, Head(snd.outstanding)), Head(snd.outstanding), D)
<1> DEFINE m == Head(snd.outstanding)
           q == PopOldest(snd, m)
           unack == snd.bytes_unack - SequenceLength(m)
           wasProbe == snd.zero_window_probe_seqno = SeqnoOf(snd, m.seqno)
           finIsDue == ~ snd.fin_set /\ IsFinished(snd.input) /\ unack = 0
           sent == snd.zero_window_probe_sent /\ ~ wasProbe
           probe == IF wasProbe THEN NoProbe ELSE snd.zero_window_probe_seqno
           ready == snd.fin_ready \/ (wasProbe /\ finIsDue)
<1>1. snd \in SenderRecord /\ snd.outstanding \in Seq(MessageRecord)
      /\ snd.bytes_unack \in Int /\ snd.next_seqno \in Nat
  BY DEF SenderOf, SenderRecord
<1>2. m \in MessageRecord /\ Tail(snd.outstanding) \in Seq(MessageRecord)
  BY <1>1, HeadTailProperties
<1>3. SequenceLength(m) \in Nat
  <2> HIDE DEF m
  <2>1. m.SYN \in BOOLEAN /\ m.payload \in Seq(Nat) /\ m.FIN \in BOOLEAN
    BY <1>2 DEF MessageRecord
  <2> QED BY <2>1, LengthOfMessage
<1>4. unack \in Int /\ sent \in BOOLEAN /\ probe \in Int /\ ready \in BOOLEAN
  BY <1>1, <1>3 DEF SenderRecord, NoProbe
<1>5. q = [snd EXCEPT !.outstanding = Tail(snd.outstanding), !.bytes_unack = unack,
                      !.zero_window_probe_sent = sent, !.zero_window_probe_seqno = probe,
                      !.fin_ready = ready]
  BY <1>1 DEF PopOldest, SenderRecord
<1>6. ready => snd.fin_ready \/ IsFinished(snd.input)
  OBVIOUS
<1> HIDE DEF q, unack, wasProbe, finIsDue, sent, probe, ready
<1>7. q \in SenderRecord
  BY <1>1, <1>2, <1>4, <1>5 DEF SenderRecord
<1>8. /\ q.outstanding = Tail(snd.outstanding) /\ q.bytes_unack = unack /\ q.fin_ready = ready
      /\ q.input = snd.input /\ q.isn = snd.isn /\ q.next_seqno = snd.next_seqno
      /\ q.syn_sent = snd.syn_sent /\ q.fin_set = snd.fin_set /\ q.RTO = snd.RTO
      /\ q.consecutive_retransmissions = snd.consecutive_retransmissions
      /\ q.timer = snd.timer /\ q.timer_active = snd.timer_active
  BY <1>1, <1>5 DEF SenderRecord
<1>9. First(q) = First(snd) + SequenceLength(m)
  <2>1. unack = snd.bytes_unack - SequenceLength(m)
    BY DEF unack
  <2>2. First(q) = snd.next_seqno - unack
    BY <1>8 DEF First
  <2>3. First(snd) = snd.next_seqno - snd.bytes_unack
    BY DEF First
  <2> HIDE DEF m
  <2> QED
    BY ONLY <1>1, <1>3, <2>1, <2>2, <2>3
<1>10. Queue(q, D) /\ First(q) \in 0 .. q.next_seqno
  <2>1. Queue(snd, D)
    BY DEF SenderOf
  <2> QED
    BY <1>1, <1>7, <1>8, <1>9, <2>1, PopsQueue
<1>11. IsFinished(snd.input) => snd.input.is_closed /\ snd.input.popped = snd.input.pushed
  <2>1. /\ snd.input.pushed = snd.input.popped + Len(snd.input.stream)
        /\ snd.input.popped \in Nat
    BY DEF SenderOf, InputOf, ByteStreamOf
  <2>2. snd.input.stream = <<>> => Len(snd.input.stream) = 0
    BY EmptySeq
  <2> QED
    BY <2>1, <2>2 DEF IsFinished
<1>12. Numbered(q)
  BY <1>6, <1>8, <1>11 DEF SenderOf, Numbered
<1>13. Timed(q)
  BY <1>8 DEF SenderOf, Timed
<1>14. SenderOf(q, D)
  BY <1>7, <1>8, <1>10, <1>12, <1>13 DEF SenderOf
<1>15. First(q) = SegmentEnd(snd, m)
  BY <1>9, OldestAt
<1> QED
  BY <1>8, <1>9, <1>14, <1>15 DEF Pops, q, m

\* Whatever is outstanding takes up sequence numbers.
LEMMA OutstandingAhead ==
  ASSUME NEW snd, NEW D, SenderOf(snd, D), ~ snd.input.error, snd.outstanding # <<>>
  PROVE  /\ First(snd) \in Nat /\ First(snd) < snd.next_seqno
         /\ SequenceLength(Head(snd.outstanding)) \in Nat \ {0}
         /\ First(snd) + SequenceLength(Head(snd.outstanding)) <= snd.next_seqno
         /\ Len(snd.outstanding) = 1
              => First(snd) + SequenceLength(Head(snd.outstanding)) = snd.next_seqno
<1> DEFINE os == snd.outstanding
           n  == Len(os)
           len == SequenceLength(Head(os))
<1>1. PICK st : QueueAt(snd, D, st)
  BY DEF SenderOf, Queue
<1>2. os \in Seq(MessageRecord) /\ snd.next_seqno \in Nat
  BY DEF SenderOf, SenderRecord
<1>3. n \in Nat \ {0} /\ Head(os) = os[1]
  <2>1. n \in Nat /\ n # 0
    BY <1>2, LenProperties, EmptySeq
  <2> QED
    BY <1>2, <2>1, HeadTailProperties
<1> HIDE DEF len, n
<1>4. 1 \in 1 .. n /\ 1 \in 1 .. n + 1 /\ 1 + 1 \in 1 .. n + 1 /\ n + 1 \in 1 .. n + 1 /\ 1 + 1 <= n + 1
      /\ (n = 1 => 1 + 1 = n + 1)
  BY <1>3
<1>5. /\ st[1] = First(snd) /\ st[n + 1] = snd.next_seqno /\ st[1] \in Nat /\ st[1 + 1] \in Nat
      /\ Carries(os[1], st[1], snd.isn, D, snd.input) /\ st[1 + 1] = st[1] + len
      /\ st[1 + 1] <= st[n + 1]
  BY <1>1, <1>3, <1>4 DEF QueueAt, n, len
<1>6. len \in Nat /\ len > 0
  <2>1. os[1] \in MessageRecord
    BY <1>2, <1>4, ElementOfSeq
  <2>2. SequenceLength(os[1]) \in Nat
    BY <2>1, LengthOfMessage DEF MessageRecord
  <2>3. SequenceLength(os[1]) > 0
    BY <1>5 DEF Carries
  <2> QED
    BY <1>3, <2>2, <2>3 DEF len
<1>7. First(snd) < snd.next_seqno /\ First(snd) + len <= snd.next_seqno
      /\ (n = 1 => First(snd) + len = snd.next_seqno)
  BY <1>2, <1>4, <1>5, <1>6
<1> QED
  BY <1>5, <1>6, <1>7 DEF len, n

\* The sender snd has become q because messages were acknowledged: where the
\* slack is gone, nothing is left in flight.
Relaxed(snd, q) ==
  /\ q.window_size = snd.window_size /\ q.next_seqno = snd.next_seqno
  /\ q.fin_set = snd.fin_set /\ q.input = snd.input
  /\ Probing(q)
  /\ Slack(q) = Slack(snd) \/ First(q) = q.next_seqno

LEMMA PopRelaxes ==
  ASSUME NEW snd, NEW D, SenderOf(snd, D), ~ snd.input.error, Small(D),
         snd.outstanding # <<>>, Probing(snd),
         NEW q, q = PopOldest(snd, Head(snd.outstanding))
  PROVE  Relaxed(snd, q)
<1> DEFINE os == snd.outstanding
           n  == Len(os)
           m  == Head(os)
           len == SequenceLength(m)
           unack == snd.bytes_unack - len
           wasProbe == snd.zero_window_probe_seqno = SeqnoOf(snd, m.seqno)
           finIsDue == ~ snd.fin_set /\ IsFinished(snd.input) /\ unack = 0
           sent  == snd.zero_window_probe_sent /\ ~ wasProbe
           ready == snd.fin_ready \/ (wasProbe /\ finIsDue)
<1>1. snd \in SenderRecord /\ os \in Seq(MessageRecord) /\ snd.bytes_unack \in Int
      /\ snd.next_seqno \in Nat /\ snd.zero_window_probe_seqno \in Int
  BY DEF SenderOf, SenderRecord
<1>2. /\ q.outstanding = Tail(os) /\ q.bytes_unack = unack /\ q.fin_ready = ready
      /\ q.zero_window_probe_sent = sent /\ (~ wasProbe => q.zero_window_probe_seqno = snd.zero_window_probe_seqno)
      /\ q.input = snd.input /\ q.next_seqno = snd.next_seqno
      /\ q.syn_sent = snd.syn_sent /\ q.fin_set = snd.fin_set
      /\ q.window_size = snd.window_size
  BY <1>1 DEF PopOldest, SenderRecord
<1>3. /\ First(snd) \in Nat /\ First(snd) < snd.next_seqno /\ len \in Nat \ {0}
      /\ First(snd) + len <= snd.next_seqno
      /\ n = 1 => First(snd) + len = snd.next_seqno
  BY OutstandingAhead
<1>4. SeqnoOf(snd, m.seqno) = First(snd)
  BY OldestAt
<1>5. First(q) = First(snd) + len
  <2>1. Pops(snd, q, m, D)
    BY PopOldestStep
  <2> QED
    BY <2>1 DEF Pops
<1>6. ~ (snd.fin_ready /\ ~ snd.fin_set)
  <2> SUFFICES ASSUME snd.fin_ready /\ ~ snd.fin_set PROVE FALSE
    OBVIOUS
  <2>1. First(snd) = snd.next_seqno
    BY DEF Probing
  <2> QED
    BY <1>1, <1>3, <2>1
<1>7. q.fin_ready /\ ~ q.fin_set => First(q) = q.next_seqno
  <2> SUFFICES ASSUME q.fin_ready, ~ q.fin_set PROVE First(q) = q.next_seqno
    OBVIOUS
  <2>1. unack = 0
    BY <1>2, <1>6
  <2>2. q.bytes_unack = 0
    BY <1>2, <2>1
  <2> QED
    BY <1>1, <1>2, <2>2 DEF First
<1>8. n \in Nat \ {0} /\ Len(Tail(os)) = n - 1 /\ Tail(os) \in Seq(MessageRecord)
      /\ m = os[1] /\ \A i \in 1 .. n - 1 : Tail(os)[i] = os[i + 1]
  <2>1. n \in Nat /\ n # 0
    BY <1>1, LenProperties, EmptySeq
  <2> QED
    BY <1>1, <2>1, HeadTailProperties
<1> HIDE DEF wasProbe, unack, len, m, n, sent, ready
<1>9. CASE ~ snd.zero_window_probe_sent
  <2>1. q.zero_window_probe_sent = FALSE
    BY <1>2, <1>9 DEF sent
  <2>2. Slack(q) = Slack(snd)
    BY <1>2, <1>9, <2>1 DEF Slack
  <2>3. snd.fin_set \/ (q.fin_ready => q.syn_sent)
    <3>1. snd.syn_sent
      <4> SUFFICES ASSUME ~ snd.syn_sent PROVE FALSE
        OBVIOUS
      <4>1. Numbered(snd)
        BY DEF SenderOf
      <4>2. snd.next_seqno = 0
        BY <4>1 DEF Numbered
      <4> QED
        BY <1>3, <4>2
    <3> QED
      BY <1>2, <3>1
  <2>4. Probing(q)
    BY <1>2, <1>7, <2>1, <2>3 DEF Probing
  <2> QED
    BY <1>2, <2>2, <2>4 DEF Relaxed
<1>10. CASE snd.zero_window_probe_sent
  <2>1. /\ snd.window_size = 0 /\ snd.syn_sent
        /\ snd.zero_window_probe_seqno + 1 = snd.next_seqno
        /\ SequenceLength(os[n]) = 1
    BY <1>10 DEF Probing, n
  <2>2. wasProbe <=> First(snd) + 1 = snd.next_seqno
    <3>1. wasProbe <=> snd.zero_window_probe_seqno = First(snd)
      BY <1>4 DEF wasProbe
    <3> QED
      BY <1>1, <1>3, <2>1, <3>1
  <2>3. CASE wasProbe
    <3>1. First(q) = q.next_seqno
      <4> QED
        BY <1>1, <1>2, <1>3, <1>5, <2>2, <2>3
    <3>2. q.zero_window_probe_sent = FALSE
      BY <1>2, <2>3 DEF sent
    <3>3. Probing(q)
      BY <1>2, <2>1, <3>1, <3>2 DEF Probing
    <3> QED
      BY <1>2, <3>1, <3>3 DEF Relaxed
  <2>4. CASE ~ wasProbe
    <3>1. n # 1
      <4> SUFFICES ASSUME n = 1 PROVE FALSE
        OBVIOUS
      <4>1. len = 1
        BY <1>8, <2>1 DEF len
      <4> QED
        BY <1>3, <2>2, <2>4, <4>1
    <3>2. n - 1 \in 1 .. n - 1 /\ (n - 1) + 1 = n /\ n - 1 # 0
      BY <1>8, <3>1
    <3>3. Tail(os)[Len(Tail(os))] = os[n]
      BY <1>8, <3>2
    <3>4. Tail(os) # <<>>
      BY <1>8, <3>2, EmptySeq
    <3>5. q.zero_window_probe_sent = TRUE
      BY <1>2, <1>10, <2>4 DEF sent
    <3>6. Slack(q) = Slack(snd)
      BY <1>2, <1>10, <3>5 DEF Slack
    <3>7. q.fin_ready = snd.fin_ready
      BY <1>1, <1>2, <2>4 DEF ready, SenderRecord
    <3>8. Probing(q)
      BY <1>2, <1>6, <2>1, <2>4, <3>3, <3>4, <3>7 DEF Probing
    <3> QED
      BY <1>2, <3>6, <3>8 DEF Relaxed
  <2> QED
    BY <2>3, <2>4
<1> QED
  BY <1>9, <1>10

LEMMA RelaxedTwice ==
  ASSUME NEW a, NEW b, NEW c, NEW D, SenderOf(b, D), ~ b.input.error, b.outstanding # <<>>,
         Relaxed(a, b), Relaxed(b, c)
  PROVE  Relaxed(a, c)
<1>1. Slack(b) = Slack(a)
  <2>1. First(b) \in Nat /\ First(b) < b.next_seqno
    BY OutstandingAhead
  <2>2. b.next_seqno \in Nat
    BY DEF SenderOf, SenderRecord
  <2>3. First(b) # b.next_seqno
    BY <2>1, <2>2
  <2> QED
    BY <2>3 DEF Relaxed
<1> QED
  BY <1>1 DEF Relaxed

\* Only the timer and what the application has written may differ.
SameNumbers(snd, q) ==
  /\ SameWindow(snd, q)
  /\ q.outstanding = snd.outstanding /\ q.next_seqno = snd.next_seqno
  /\ First(q) = First(snd) /\ q.fin_set = snd.fin_set
  /\ q.fin_ready = snd.fin_ready
  /\ q.input.error = snd.input.error /\ q.syn_sent = snd.syn_sent

\* The sender reads the sequence numbers of what is outstanding as they were
\* meant.
LEMMA SegmentsAt ==
  ASSUME NEW snd, NEW D, SenderOf(snd, D), Small(D), NEW st, QueueAt(snd, D, st)
  PROVE  \A i \in 1 .. Len(snd.outstanding) :
           /\ SeqnoOf(snd, snd.outstanding[i].seqno) = st[i]
           /\ SegmentEnd(snd, snd.outstanding[i]) = st[i + 1]
<1> DEFINE n == Len(snd.outstanding)
<1>1. snd.outstanding \in Seq(MessageRecord) /\ snd.isn \in Raw /\ D \in Seq(Nat) /\ n \in Nat
  BY LenProperties DEF SenderOf, SenderRecord, InputOf
<1>2. snd.next_seqno \in 0 .. Len(D) + 2
  BY NextInStream DEF SenderOf
<1>3. Len(D) \in Nat
  BY <1>1, LenProperties
<1> SUFFICES ASSUME NEW i \in 1 .. n
             PROVE  /\ SeqnoOf(snd, snd.outstanding[i].seqno) = st[i]
                    /\ SegmentEnd(snd, snd.outstanding[i]) = st[i + 1]
  OBVIOUS
<1>4. i \in 1 .. n + 1 /\ n + 1 \in 1 .. n + 1 /\ i <= n + 1
  BY <1>1
<1>5. st[i] \in Nat /\ st[i] <= snd.next_seqno
  BY <1>4 DEF QueueAt
<1>6. st[i] \in 0 .. Len(D) + 2
  BY <1>2, <1>3, <1>5
<1>7. Unwrap(Wrap(st[i], snd.isn), snd.isn, snd.next_seqno) = st[i]
  BY <1>1, <1>2, <1>6, SeqnoRecovered
<1>8. /\ snd.outstanding[i].seqno = Wrap(st[i], snd.isn)
      /\ st[i + 1] = st[i] + SequenceLength(snd.outstanding[i])
  BY DEF QueueAt, Carries
<1>9. SeqnoOf(snd, snd.outstanding[i].seqno) = st[i]
  BY <1>7, <1>8 DEF SeqnoOf
<1> QED
  BY <1>8, <1>9 DEF SegmentEnd

\* CountAcked counts messages that ackno covers whole.
LEMMA CountAckedSpec ==
  ASSUME NEW snd, NEW D, SenderOf(snd, D), Small(D), NEW st, QueueAt(snd, D, st),
         NEW ackno \in Int
  PROVE  /\ CountAcked(snd, ackno) \in 0 .. Len(snd.outstanding)
         /\ \A i \in 1 .. CountAcked(snd, ackno) : st[i + 1] <= ackno
<1> DEFINE n == Len(snd.outstanding)
           end(i) == SegmentEnd(snd, snd.outstanding[i])
           P(k) == k < n => end(k + 1) > ackno
           Q(k) == (\A i \in 1 .. k : end(i) <= ackno) /\ P(k)
           T == { k \in 0 .. n : P(k) }
<1>1. n \in Nat
  BY LenProperties DEF SenderOf, SenderRecord
<1>2. \A i \in 1 .. n : end(i) = st[i + 1] /\ end(i) \in Nat
  <2>1. \A i \in 1 .. n : end(i) = st[i + 1]
    BY SegmentsAt
  <2>2. \A i \in 1 .. n : st[i + 1] \in Nat
    BY <1>1 DEF QueueAt
  <2> QED
    BY <2>1, <2>2
<1> HIDE DEF end, n
<1>3. n \in T /\ T \in SUBSET Nat
  BY <1>1
<1>4. PICK k \in T : \A j \in T : k <= j
  BY <1>3, NatHasMinimum
<1>5. Q(k)
  <2> SUFFICES ASSUME NEW i \in 1 .. k PROVE end(i) <= ackno
    BY <1>4
  <2>1. i - 1 \in 0 .. n /\ i - 1 < k /\ i \in 1 .. n /\ (i - 1) + 1 = i /\ k \in Nat /\ i \in Nat
    BY <1>1, <1>4
  <2>2. i - 1 \notin T
    BY <1>4, <2>1
  <2>3. ~ (end(i) > ackno)
    BY <2>1, <2>2
  <2> QED
    BY <1>2, <2>1, <2>3
<1>6. \E x \in 0 .. n : Q(x)
  BY <1>4, <1>5
<1>7. CountAcked(snd, ackno) = CHOOSE x \in 0 .. n : Q(x)
  BY DEF CountAcked, end, n
<1> HIDE DEF Q
<1>8. CountAcked(snd, ackno) \in 0 .. n /\ Q(CountAcked(snd, ackno))
  BY <1>6, <1>7, Zenon
<1>9. \A i \in 1 .. CountAcked(snd, ackno) : st[i + 1] <= ackno
  <2> TAKE i \in 1 .. CountAcked(snd, ackno)
  <2>1. i \in 1 .. n
    BY <1>1, <1>8
  <2>2. end(i) <= ackno
    BY <1>8 DEF Q
  <2> QED
    BY <1>2, <2>1, <2>2
<1> QED
  BY <1>8, <1>9 DEF n

\* After j messages of the queue st of snd have been popped.
Popped(snd, q, D, st, j) ==
  /\ SenderOf(q, D)
  /\ First(q) = st[j + 1]
  /\ Len(q.outstanding) = Len(snd.outstanding) - j
  /\ \A i \in 1 .. Len(snd.outstanding) - j : q.outstanding[i] = snd.outstanding[i + j]
  /\ q.input = snd.input /\ q.isn = snd.isn /\ q.syn_sent = snd.syn_sent
  /\ Probing(snd) => Relaxed(snd, q)

LEMMA PopAllStep ==
  ASSUME NEW snd, NEW D, SenderOf(snd, D), ~ snd.input.error, Small(D),
         NEW st, QueueAt(snd, D, st), NEW k \in 0 .. Len(snd.outstanding)
  PROVE  Popped(snd, PopAll(snd, SubSeq(snd.outstanding, 1, k)), D, st, k)
<1> DEFINE os == snd.outstanding
           n  == Len(os)
           acked == SubSeq(os, 1, k)
<1>1. os \in Seq(MessageRecord) /\ n \in Nat /\ k \in Nat /\ k <= n
  BY LenProperties DEF SenderOf, SenderRecord
<1>2. /\ acked \in Seq(MessageRecord) /\ Len(acked) = k
      /\ \A i \in 1 .. k : acked[i] = os[i]
  BY <1>1, PrefixOf DEF Prefix
<1>3. PICK g : PoppedInTurn(g, snd, acked)
  BY <1>2, PopAllSteps
<1>4. /\ g[0] = snd /\ PopAll(snd, acked) = g[k]
      /\ \A j \in 1 .. k : g[j] = PopOldest(g[j - 1], os[j])
  BY <1>2, <1>3 DEF PoppedInTurn
<1>5. \A i \in 1 .. n : st[i + 1] = st[i] + SequenceLength(os[i])
  BY DEF QueueAt
<1> DEFINE T == { j \in Nat : j <= k => Popped(snd, g[j], D, st, j) }
<1>6. 0 \in T
  <2>1. First(snd) = st[0 + 1]
    BY DEF QueueAt
  <2>2. n - 0 = n /\ \A i \in 1 .. n : i + 0 = i
    BY <1>1
  <2> QED
    BY <1>4, <2>1, <2>2 DEF Popped, Relaxed
<1>7. ASSUME NEW j \in Nat, j \in T PROVE j + 1 \in T
  <2> SUFFICES ASSUME j + 1 <= k PROVE Popped(snd, g[j + 1], D, st, j + 1)
    OBVIOUS
  <2> DEFINE q == g[j]
             p == g[j + 1]
             m == Head(q.outstanding)
  <2>1. /\ j <= k /\ j + 1 \in 1 .. k /\ (j + 1) - 1 = j /\ j + 1 \in 1 .. n
        /\ n - j > 0 /\ (n - j) - 1 = n - (j + 1) /\ n - j \in Nat
    BY <1>1
  <2>2. Popped(snd, q, D, st, j)
    BY <1>7, <2>1
  <2>3. /\ SenderOf(q, D) /\ First(q) = st[j + 1] /\ Len(q.outstanding) = n - j
        /\ \A i \in 1 .. n - j : q.outstanding[i] = os[i + j]
        /\ q.input = snd.input /\ q.isn = snd.isn /\ q.syn_sent = snd.syn_sent
        /\ Probing(snd) => Relaxed(snd, q)
    BY <2>2 DEF Popped
  <2> HIDE DEF q, n, os, T
  <2>4. q.outstanding \in Seq(MessageRecord) /\ q.outstanding # <<>>
    <3>1. q.outstanding \in Seq(MessageRecord)
      BY <2>3 DEF SenderOf, SenderRecord
    <3>2. Len(q.outstanding) # 0
      BY <2>1, <2>3
    <3> QED
      BY <3>1, <3>2, EmptySeq
  <2>5. m = os[j + 1]
    <3>1. m = q.outstanding[1] /\ 1 \in 1 .. n - j /\ 1 + j = j + 1
      BY <2>1, <2>4, HeadTailProperties
    <3> QED
      BY <2>3, <3>1
  <2>6. p = PopOldest(q, m)
    BY <1>4, <2>1, <2>5 DEF q
  <2>7. Pops(q, p, m, D)
    BY <2>3, <2>4, <2>6, PopOldestStep
  <2>11. Probing(snd) => Relaxed(snd, p)
    <3> SUFFICES ASSUME Probing(snd) PROVE Relaxed(snd, p)
      OBVIOUS
    <3>1. Relaxed(snd, q) /\ Probing(q)
      BY <2>3 DEF Relaxed
    <3> HIDE DEF p
    <3>2. Relaxed(q, p)
      BY <2>3, <2>4, <2>6, <3>1, PopRelaxes DEF m
    <3> QED
      BY <2>3, <2>4, <3>1, <3>2, RelaxedTwice
  <2> HIDE DEF p, m
  <2>8. /\ SenderOf(p, D) /\ p.outstanding = Tail(q.outstanding)
        /\ First(p) = First(q) + SequenceLength(m)
        /\ p.input = q.input /\ p.isn = q.isn /\ p.syn_sent = q.syn_sent
    BY <2>7 DEF Pops
  <2>9. First(p) = st[(j + 1) + 1]
    BY <1>5, <2>1, <2>3, <2>5, <2>8
  <2>10. /\ Len(p.outstanding) = n - (j + 1)
         /\ \A i \in 1 .. n - (j + 1) : p.outstanding[i] = os[i + (j + 1)]
    <3>1. /\ Len(Tail(q.outstanding)) = n - (j + 1)
          /\ \A i \in 1 .. n - (j + 1) : Tail(q.outstanding)[i] = q.outstanding[i + 1]
      BY <2>1, <2>3, <2>4, HeadTailProperties
    <3>2. ASSUME NEW i \in 1 .. n - (j + 1) PROVE q.outstanding[i + 1] = os[i + (j + 1)]
      <4>1. i + 1 \in 1 .. n - j /\ (i + 1) + j = i + (j + 1)
        BY <2>1
      <4> QED
        BY <2>3, <4>1
    <3> QED
      BY <2>8, <3>1, <3>2
  <2> QED
    BY <2>3, <2>8, <2>9, <2>10, <2>11 DEF Popped, p, os, n
<1> HIDE DEF T
<1>8. \A j \in Nat : j \in T
  BY <1>6, <1>7, SetInduction
<1> QED
  BY <1>1, <1>4, <1>8 DEF T

\* q is snd after a message with ackno has arrived.
Acks(snd, q, ackno, D) ==
  /\ SenderOf(q, D)
  /\ First(q) = First(snd) \/ First(q) <= ackno
  /\ q.input.pushed = snd.input.pushed /\ q.input.is_closed = snd.input.is_closed
  /\ q.isn = snd.isn /\ q.syn_sent = snd.syn_sent

LEMMA RestartTimerStep ==
  ASSUME NEW snd, NEW D, SenderOf(snd, D)
  PROVE  SenderOf(RestartTimer(snd), D) /\ Keeps(snd, RestartTimer(snd))
         /\ RestartTimer(snd).syn_sent = snd.syn_sent
         /\ SameNumbers(snd, RestartTimer(snd)) /\ RestartTimer(snd).input = snd.input
<1> DEFINE some == snd.outstanding # <<>>
           timer == IF some THEN 0 ELSE snd.timer
           q == RestartTimer(snd)
<1>1. snd \in SenderRecord /\ RtTimeout \in Nat /\ RtTimeout > 0
  BY SenderAssumption DEF SenderOf
<1>2. timer \in Nat /\ some \in BOOLEAN
  BY <1>1 DEF SenderRecord
<1>3. q = [snd EXCEPT !.timer = timer, !.timer_active = some, !.RTO = RtTimeout,
                      !.consecutive_retransmissions = 0]
  BY <1>1 DEF RestartTimer, SenderRecord
<1>4. some => timer = 0
  OBVIOUS
<1> HIDE DEF q, timer
<1>5. q \in SenderRecord
  <2> HIDE DEF some
  <2> QED
    BY <1>1, <1>2, <1>3 DEF SenderRecord
<1>6. /\ q.input = snd.input /\ q.isn = snd.isn /\ q.outstanding = snd.outstanding
      /\ q.next_seqno = snd.next_seqno /\ q.bytes_unack = snd.bytes_unack
      /\ q.syn_sent = snd.syn_sent /\ q.fin_set = snd.fin_set /\ q.fin_ready = snd.fin_ready
      /\ q.timer_active = some /\ q.timer = timer /\ q.RTO = RtTimeout
      /\ q.consecutive_retransmissions = 0
  <2> HIDE DEF some
  <2> QED
    BY <1>1, <1>3 DEF SenderRecord
<1>7. Timed(q)
  BY <1>1, <1>4, <1>6, NoBackoff DEF Timed
<1>8. SenderOf(q, D) /\ Keeps(snd, q)
  BY <1>5, <1>6, <1>7, SenderUntouched
<1>9. SameNumbers(snd, q)
  <2>1. SameWindow(snd, q)
    <3> HIDE DEF some
    <3> QED
      BY <1>1, <1>3 DEF SenderRecord, SameWindow
  <2> QED
    BY <1>6, <2>1 DEF SameNumbers, First
<1> QED
  BY <1>6, <1>8, <1>9 DEF q

LEMMA AcceptAckStep ==
  ASSUME NEW snd, NEW D, SenderOf(snd, D), Small(D), NEW ackno \in Int
  PROVE  /\ Acks(snd, AcceptAck(snd, ackno), ackno, D)
         /\ Probing(snd) => Relaxed(snd, AcceptAck(snd, ackno))
<1> DEFINE os == snd.outstanding
           k == CountAcked(snd, ackno)
           acked == SubSeq(os, 1, k)
           p == PopAll(snd, acked)
           q == AcceptAck(snd, ackno)
<1>1. ASSUME q = snd PROVE Acks(snd, q, ackno, D) /\ (Probing(snd) => Relaxed(snd, q))
  <2>1. Acks(snd, q, ackno, D)
    BY <1>1, Zenon DEF Acks
  <2>2. Probing(snd) => Relaxed(snd, q)
    BY <1>1, Zenon DEF Relaxed
  <2> QED
    BY <2>1, <2>2
<1>2. ASSUME ~ snd.input.error, q = RestartTimer(p), acked # <<>>
      PROVE  Acks(snd, q, ackno, D) /\ (Probing(snd) => Relaxed(snd, q))
  <2>1. PICK st : QueueAt(snd, D, st)
    BY <1>2 DEF SenderOf, Queue
  <2>2. k \in 0 .. Len(os) /\ \A i \in 1 .. k : st[i + 1] <= ackno
    BY <2>1, CountAckedSpec
  <2> HIDE DEF k
  <2>3. Popped(snd, p, D, st, k)
    BY <1>2, <2>1, <2>2, PopAllStep
  <2>4. k \in 1 .. k
    <3>1. os \in Seq(MessageRecord) /\ Len(os) \in Nat
      BY LenProperties DEF SenderOf, SenderRecord
    <3>2. k # 0
      <4> SUFFICES ASSUME k = 0 PROVE acked = <<>>
        BY <1>2
      <4>1. acked \in Seq(MessageRecord) /\ Len(acked) = 0
        BY <3>1, PrefixOf DEF Prefix
      <4> QED
        BY <4>1, EmptySeq
    <3> QED
      BY <2>2, <3>1, <3>2
  <2> HIDE DEF p, q
  <2>5. First(p) <= ackno /\ SenderOf(p, D) /\ p.input = snd.input /\ p.isn = snd.isn
        /\ p.syn_sent = snd.syn_sent /\ (Probing(snd) => Relaxed(snd, p))
    BY <2>2, <2>3, <2>4 DEF Popped
  <2>6. /\ SenderOf(q, D) /\ Keeps(p, q) /\ q.syn_sent = p.syn_sent
        /\ SameNumbers(p, q) /\ q.input = p.input
    BY <1>2, <2>5, RestartTimerStep
  <2>7. Acks(snd, q, ackno, D)
    BY <2>5, <2>6 DEF Acks, Keeps
  <2>8. Probing(snd) => Relaxed(snd, q)
    <3>1. Slack(q) = Slack(p) /\ (Probing(p) => Probing(q))
      BY <2>6 DEF SameNumbers, SameWindow, Slack, Probing
    <3> QED
      BY <2>5, <2>6, <3>1 DEF Relaxed, SameNumbers, SameWindow
  <2> QED
    BY <2>7, <2>8 DEF q
<1>3. q = snd \/ (q = RestartTimer(p) /\ acked # <<>>)
  BY DEF AcceptAck
<1>4. snd.input.error => acked = <<>>
  <2> SUFFICES ASSUME snd.input.error PROVE acked = <<>>
    OBVIOUS
  <2>1. os = <<>> /\ Len(os) = 0
    BY DEF SenderOf
  <2> DEFINE Q(x) == /\ \A i \in 1 .. x : SegmentEnd(snd, os[i]) <= ackno
                     /\ x < Len(os) => SegmentEnd(snd, os[x + 1]) > ackno
  <2>2. Q(0) /\ 0 \in 0 .. Len(os)
    BY <2>1
  <2>3. k = CHOOSE x \in 0 .. Len(os) : Q(x)
    BY DEF CountAcked
  <2> HIDE DEF Q, k
  <2>4. k \in 0 .. Len(os)
    BY <2>2, <2>3, Zenon
  <2> QED
    BY <2>1, <2>4
<1> HIDE DEF q, acked
<1>5. Acks(snd, q, ackno, D) /\ (Probing(snd) => Relaxed(snd, q))
  <2>1. CASE q = snd
    BY <1>1, <2>1
  <2>2. CASE q = RestartTimer(p) /\ acked # <<>>
    BY <1>2, <1>4, <2>2
  <2> QED
    BY <1>3, <2>1, <2>2
<1> QED
  BY <1>5 DEF q

\* The sender snd has become q because a window was announced.
NewWindow(snd, q, window) ==
  /\ q.window_size = window
  /\ q.zero_window_probe_sent = (snd.zero_window_probe_sent /\ window = 0)
  /\ q.zero_window_probe_seqno = snd.zero_window_probe_seqno
  /\ q.outstanding = snd.outstanding /\ q.next_seqno = snd.next_seqno
  /\ q.fin_set = snd.fin_set /\ q.fin_ready = snd.fin_ready

LEMMA UpdateWindowStep ==
  ASSUME NEW snd, NEW D, SenderOf(snd, D), NEW window \in Nat
  PROVE  SenderOf(UpdateWindow(snd, window), D) /\ Keeps(snd, UpdateWindow(snd, window))
         /\ UpdateWindow(snd, window).syn_sent = snd.syn_sent
         /\ NewWindow(snd, UpdateWindow(snd, window), window)
<1> DEFINE sent == snd.zero_window_probe_sent /\ window = 0
           q == UpdateWindow(snd, window)
<1>1. snd \in SenderRecord /\ sent \in BOOLEAN
  BY DEF SenderOf
<1>2. q = [snd EXCEPT !.window_size = window, !.zero_window_probe_sent = sent]
  BY <1>1 DEF UpdateWindow, SenderRecord
<1> HIDE DEF q, sent
<1>3. q \in SenderRecord
  BY <1>1, <1>2 DEF SenderRecord
<1>4. /\ q.input = snd.input /\ q.isn = snd.isn /\ q.outstanding = snd.outstanding
      /\ q.next_seqno = snd.next_seqno /\ q.bytes_unack = snd.bytes_unack
      /\ q.syn_sent = snd.syn_sent /\ q.fin_set = snd.fin_set /\ q.fin_ready = snd.fin_ready
      /\ q.timer_active = snd.timer_active /\ q.timer = snd.timer /\ q.RTO = snd.RTO
      /\ q.consecutive_retransmissions = snd.consecutive_retransmissions
  BY <1>1, <1>2 DEF SenderRecord
<1>5. Timed(q)
  BY <1>4 DEF SenderOf, Timed
<1>6. SenderOf(q, D) /\ Keeps(snd, q)
  BY <1>3, <1>4, <1>5, SenderUntouched
<1>7. q.window_size = window /\ q.zero_window_probe_sent = sent
      /\ q.zero_window_probe_seqno = snd.zero_window_probe_seqno
  BY <1>1, <1>2 DEF SenderRecord
<1>8. NewWindow(snd, q, window)
  BY <1>4, <1>7 DEF NewWindow, sent
<1> QED
  BY <1>4, <1>6, <1>8 DEF q

LEMMA ResetStep ==
  ASSUME NEW snd, NEW D, SenderOf(snd, D), NEW ackno
  PROVE  Acks(snd, Reset(snd), ackno, D)
<1> DEFINE in == SetError(snd.input)
           q == Reset(snd)
<1>1. snd \in SenderRecord /\ InputOf(snd.input, D) /\ snd.input \in ByteStreamOf(Nat)
  BY DEF SenderOf, SenderRecord
<1>2. /\ in \in ByteStreamOf(Nat) /\ in.error
      /\ in.stream = snd.input.stream /\ in.pushed = snd.input.pushed
      /\ in.popped = snd.input.popped /\ in.is_closed = snd.input.is_closed
  BY <1>1 DEF SetError, ByteStreamOf
<1>3. q = [snd EXCEPT !.input = in, !.outstanding = <<>>, !.timer_active = FALSE]
  BY <1>1 DEF Reset, SenderRecord
<1> HIDE DEF in, q
<1>4. <<>> \in Seq(MessageRecord)
  BY EmptySeq
<1>5. q \in SenderRecord
  BY <1>1, <1>2, <1>3, <1>4 DEF SenderRecord
<1>6. /\ q.input = in /\ q.isn = snd.isn /\ q.outstanding = <<>>
      /\ q.next_seqno = snd.next_seqno /\ q.bytes_unack = snd.bytes_unack
      /\ q.syn_sent = snd.syn_sent /\ q.fin_set = snd.fin_set /\ q.fin_ready = snd.fin_ready
      /\ q.timer_active = FALSE /\ q.timer = snd.timer /\ q.RTO = snd.RTO
      /\ q.consecutive_retransmissions = snd.consecutive_retransmissions
  BY <1>1, <1>3 DEF SenderRecord
<1>7. InputOf(in, D)
  BY <1>1, <1>2 DEF InputOf
<1>8. Numbered(q) /\ Timed(q) /\ First(q) = First(snd)
  BY <1>2, <1>6 DEF SenderOf, Numbered, Timed, First
<1>9. SenderOf(q, D)
  <2>1. First(snd) \in 0 .. snd.next_seqno
    BY DEF SenderOf
  <2>2. First(q) \in 0 .. q.next_seqno
    BY <1>6, <1>8, <2>1
  <2> QED
    BY <1>2, <1>5, <1>6, <1>7, <1>8, <2>2 DEF SenderOf
<1> QED
  BY <1>2, <1>6, <1>8, <1>9 DEF Acks, q

\* receive(): what is acknowledged is at most what the message says, a
\* position of the stream given in 32 bits.
LEMMA SenderReceiveStep ==
  ASSUME NEW snd, NEW D, SenderOf(snd, D), Small(D), NEW m, m.window_size \in Nat,
         NEW x \in 0 .. Len(D) + 2, m.ackno \in {NoSeqno, Wrap(x, snd.isn)}
  PROVE  Acks(snd, SenderReceive(snd, m), x, D)
<1> DEFINE updated == UpdateWindow(snd, m.window_size)
<1>1. /\ SenderOf(updated, D) /\ Keeps(snd, updated) /\ updated.syn_sent = snd.syn_sent
  BY UpdateWindowStep
<1> HIDE DEF updated
<1>2. CASE m.RST
  BY <1>2, ResetStep DEF SenderReceive
<1>3. CASE ~ m.RST /\ m.ackno = NoSeqno
  <2>1. SenderReceive(snd, m) = updated
    BY <1>3 DEF SenderReceive, updated
  <2> QED
    BY <1>1, <2>1 DEF Acks, Keeps
<1>4. CASE ~ m.RST /\ m.ackno # NoSeqno
  <2>1. SenderReceive(snd, m) = AcceptAck(updated, SeqnoOf(snd, m.ackno))
    BY <1>4 DEF SenderReceive, updated
  <2>2. SeqnoOf(snd, m.ackno) = x
    <3>0. snd.next_seqno \in 0 .. Len(D) + 2
      BY NextInStream DEF SenderOf
    <3>1. snd.next_seqno \in 0 .. Len(D) + 2 /\ snd.isn \in Raw /\ D \in Seq(Nat)
      BY <3>0 DEF SenderOf, SenderRecord, InputOf
    <3>2. m.ackno = Wrap(x, snd.isn)
      BY <1>4
    <3>3. Unwrap(Wrap(x, snd.isn), snd.isn, snd.next_seqno) = x
      BY <3>1, SeqnoRecovered
    <3> QED
      BY <3>2, <3>3 DEF SeqnoOf
  <2>3. x \in Int
    OBVIOUS
  <2>4. Acks(updated, AcceptAck(updated, x), x, D)
    BY <1>1, <2>3, AcceptAckStep
  <2> QED
    BY <1>1, <2>1, <2>2, <2>4 DEF Acks, Keeps
<1> QED
  BY <1>2, <1>3, <1>4

-----------------------------------------------------------------------------
(* What the application does to its outbound stream *)

Grows(in, more) ==
  /\ in.pushed <= more.pushed
  /\ in.is_closed => more.is_closed /\ more.pushed = in.pushed

\* What is on its way stays a part of the stream when the stream grows.
LEMMA CarriesGrows ==
  ASSUME NEW m, NEW a, NEW isn, NEW D, NEW in, NEW more,
         in.pushed \in Nat, more.pushed \in Nat, Grows(in, more), Carries(m, a, isn, D, in)
  PROVE  Carries(m, a, isn, D, more)
<1>1. a \in Nat /\ Len(m.payload) \in Nat
  BY LenProperties DEF Carries
<1>2. IndexOf(a) \in Nat
  BY <1>1 DEF IndexOf
<1>3. IndexOf(a) + Len(m.payload) <= more.pushed
  <2> DEFINE x == IndexOf(a) + Len(m.payload)
  <2>1. x \in Nat /\ x <= in.pushed
    BY <1>1, <1>2 DEF Carries
  <2> HIDE DEF x
  <2>2. x <= more.pushed
    BY <2>1 DEF Grows
  <2> QED
    BY <2>2 DEF x
<1> QED
  BY <1>3 DEF Carries, Grows

LEMMA SoundGrows ==
  ASSUME NEW m, NEW isn, NEW D, NEW in, NEW more,
         in.pushed \in Nat, more.pushed \in Nat, Grows(in, more), Sound(m, isn, D, in)
  PROVE  Sound(m, isn, D, more)
BY CarriesGrows DEF Sound

\* The outbound stream of snd has grown.
Grown(snd, q, in, D) ==
  /\ SenderOf(q, D)
  /\ q.input = in /\ Grows(snd.input, in) /\ in.error = snd.input.error
  /\ q.isn = snd.isn /\ First(q) = First(snd) /\ q.syn_sent = snd.syn_sent

LEMMA SenderGrows ==
  ASSUME NEW snd, NEW D, SenderOf(snd, D), NEW in, InputOf(in, D),
         in.popped = snd.input.popped, in.error = snd.input.error, Grows(snd.input, in)
  PROVE  Grown(snd, [snd EXCEPT !.input = in], in, D)
<1> DEFINE q == [snd EXCEPT !.input = in]
<1>1. snd \in SenderRecord /\ in \in ByteStreamOf(Nat) /\ snd.input \in ByteStreamOf(Nat)
      /\ in.pushed \in Nat /\ snd.input.pushed \in Nat
  BY DEF SenderOf, InputOf, ByteStreamOf
<1>2. q \in SenderRecord
  BY <1>1 DEF SenderRecord
<1>3. /\ q.input = in /\ q.isn = snd.isn /\ q.outstanding = snd.outstanding
      /\ q.next_seqno = snd.next_seqno /\ q.bytes_unack = snd.bytes_unack
      /\ q.syn_sent = snd.syn_sent /\ q.fin_set = snd.fin_set /\ q.fin_ready = snd.fin_ready
      /\ q.timer_active = snd.timer_active /\ q.timer = snd.timer /\ q.RTO = snd.RTO
      /\ q.consecutive_retransmissions = snd.consecutive_retransmissions
  BY <1>1 DEF SenderRecord
<1> HIDE DEF q
<1>4. First(q) = First(snd) /\ Timed(q) /\ Numbered(q)
  BY <1>3 DEF SenderOf, First, Timed, Numbered, Grows
<1>5. ~ in.error => Queue(q, D)
  <2> SUFFICES ASSUME ~ in.error PROVE Queue(q, D)
    OBVIOUS
  <2>1. PICK st : QueueAt(snd, D, st)
    BY DEF SenderOf, Queue
  <2>2. \A i \in 1 .. Len(snd.outstanding) : Carries(snd.outstanding[i], st[i], snd.isn, D, in)
    BY <1>1, <2>1, CarriesGrows DEF QueueAt
  <2>3. QueueAt(q, D, st)
    BY <1>3, <1>4, <2>1, <2>2 DEF QueueAt
  <2> QED
    BY <2>3 DEF Queue
<1>6. SenderOf(q, D)
  BY <1>2, <1>3, <1>4, <1>5 DEF SenderOf
<1> QED
  BY <1>3, <1>4, <1>6 DEF Grown, q

\* The outbound stream in has become new: n more bytes of D, or its end.
Extends(in, new, D, n, closed) ==
  /\ InputOf(new, D) /\ Grows(in, new)
  /\ new.popped = in.popped /\ new.error = in.error
  /\ new.pushed = in.pushed + n /\ new.is_closed = closed

\* The application writes the next n bytes.
LEMMA WriteInput ==
  ASSUME NEW in, NEW D, InputOf(in, D), ~ in.is_closed, NEW n \in Nat,
         n <= AvailableCapacity(in), AvailableCapacity(in) # 0, in.pushed + n <= Len(D),
         NEW data, data = SubSeq(D, in.pushed + 1, in.pushed + n)
  PROVE  Extends(in, Push(in, data), D, n, FALSE)
<1> DEFINE new == Push(in, data)
           len == Len(in.stream)
           stream == in.stream \o data
           p == in.pushed
<1>1. /\ D \in Seq(Nat) /\ Len(D) \in Nat /\ in \in ByteStreamOf(Nat) /\ in.stream \in Seq(Nat)
      /\ p \in Nat /\ in.popped \in Nat /\ len \in Nat /\ p = in.popped + len
      /\ \A i \in 1 .. len : in.stream[i] = D[in.popped + i]
  BY LenProperties DEF InputOf, ByteStreamOf
<1>0. p + n <= Len(D) /\ data = SubSeq(D, p + 1, p + n)
  OBVIOUS
<1> HIDE DEF p, len
<1>2. /\ data \in Seq(Nat) /\ Len(data) = n
      /\ \A i \in 1 .. n : data[i] = D[p + i]
  <2>0. p \in Nat /\ n \in Nat /\ Len(D) \in Nat /\ p + n <= Len(D)
    BY <1>0, <1>1
  <2>1. \A i \in p + 1 .. p + n : i \in 1 .. Len(D)
    BY ONLY <2>0
  <2>2. \A i \in p + 1 .. p + n : D[i] \in Nat
    BY <1>1, <2>1, ElementOfSeq
  <2>3. p + 1 \in Int /\ p + n \in Int
    BY <1>1
  <2> DEFINE sub == SubSeq(D, p + 1, p + n)
  <2>4. /\ sub \in Seq(Nat)
        /\ Len(sub) = (IF p + 1 <= p + n THEN (p + n) - (p + 1) + 1 ELSE 0)
        /\ \A i \in 1 .. (p + n) - (p + 1) + 1 : sub[i] = D[(p + 1) + i - 1]
    BY <2>2, <2>3, SubSeqProperties
  <2> HIDE DEF sub
  <2>5. (p + n) - (p + 1) + 1 = n /\ (p + 1 <= p + n <=> n > 0)
    BY <1>1
  <2>6. Len(sub) = n
    BY <2>4, <2>5
  <2>7. \A i \in 1 .. n : sub[i] = D[p + i]
    <3>1. \A i \in 1 .. n : (p + 1) + i - 1 = p + i
      BY <1>1
    <3> QED
      BY <2>4, <2>5, <3>1
  <2> QED
    BY <1>0, <2>4, <2>6, <2>7 DEF sub
<1>3. Smaller(AvailableCapacity(in), Len(data)) = n /\ Prefix(data, n) = data
  <2>1. AvailableCapacity(in) \in Int
    BY <1>1 DEF AvailableCapacity, ByteStreamOf, len
  <2>2. Smaller(AvailableCapacity(in), n) = n
    BY <2>1 DEF Smaller
  <2> DEFINE pre == Prefix(data, n)
  <2>3. n \in 0 .. Len(data)
    BY <1>2
  <2>4. /\ pre \in Seq(Nat) /\ Len(pre) = n
        /\ \A i \in 1 .. n : pre[i] = data[i]
    BY <1>2, <2>3, PrefixOf
  <2> HIDE DEF pre
  <2>5. pre = data
    BY <1>2, <2>4, SeqEqual
  <2> QED
    BY <1>2, <2>2, <2>5 DEF pre
<1>4. /\ stream \in Seq(Nat) /\ Len(stream) = len + n
      /\ \A i \in 1 .. len + n : stream[i] = IF i <= len THEN in.stream[i] ELSE data[i - len]
  <2>1. /\ stream \in Seq(Nat) /\ Len(stream) = Len(in.stream) + Len(data)
        /\ \A i \in 1 .. Len(in.stream) + Len(data) :
             stream[i] = IF i <= Len(in.stream) THEN in.stream[i] ELSE data[i - Len(in.stream)]
    <3>1. in.stream \in Seq(Nat) /\ data \in Seq(Nat)
      BY <1>1, <1>2
    <3> QED
      BY ONLY <3>1, ConcatProperties
  <2> HIDE DEF stream
  <2> QED
    BY <1>2, <2>1 DEF len
<1>5. new = [in EXCEPT !.stream = stream, !.pushed = p + n]
  BY <1>1, <1>3 DEF Push, p, ByteStreamOf
<1> HIDE DEF stream, new
<1>6. /\ new \in ByteStreamOf(Nat) /\ new.stream = stream /\ new.pushed = p + n
      /\ new.popped = in.popped /\ new.is_closed = in.is_closed /\ new.error = in.error
  <2>1. p + n \in Nat
    BY <1>1
  <2> HIDE DEF p
  <2> QED
    BY <1>1, <1>4, <1>5, <2>1 DEF ByteStreamOf
<1>7. \A i \in 1 .. len + n : stream[i] = D[in.popped + i]
  <2> TAKE i \in 1 .. len + n
  <2>1. CASE i <= len
    <3>1. i \in 1 .. len
      BY <1>1, <2>1
    <3> QED
      BY <1>1, <1>4, <2>1, <3>1
  <2>2. CASE ~ (i <= len)
    <3>1. i - len \in 1 .. n /\ p + (i - len) = in.popped + i
      BY <1>1, <2>2
    <3> QED
      BY <1>2, <1>4, <2>2, <3>1
  <2> QED
    BY <2>1, <2>2
<1>8. p + n = in.popped + (len + n) /\ p <= p + n
  BY <1>1
<1>9. InputOf(new, D)
  BY <1>0, <1>1, <1>4, <1>6, <1>7, <1>8 DEF InputOf
<1>10. Grows(in, new)
  BY <1>6, <1>8 DEF Grows, p
<1> QED
  BY <1>6, <1>9, <1>10 DEF Extends, new, p

\* The application closes its stream at the end of its data.
LEMMA CloseInput ==
  ASSUME NEW in, NEW D, InputOf(in, D), in.pushed = Len(D)
  PROVE  Extends(in, Close(in), D, 0, TRUE)
<1> DEFINE new == Close(in)
<1>1. in \in ByteStreamOf(Nat) /\ in.pushed \in Nat
  BY DEF InputOf, ByteStreamOf
<1>2. /\ new \in ByteStreamOf(Nat) /\ new.stream = in.stream /\ new.pushed = in.pushed
      /\ new.popped = in.popped /\ new.is_closed = TRUE /\ new.error = in.error
  BY <1>1 DEF Close, ByteStreamOf
<1> HIDE DEF new
<1>3. InputOf(new, D)
  BY <1>2 DEF InputOf
<1>4. Grows(in, new)
  BY <1>1, <1>2 DEF Grows
<1>5. new.pushed = in.pushed + 0
  BY <1>1, <1>2
<1> QED
  BY <1>2, <1>3, <1>4, <1>5 DEF Extends, new

LEMMA NewSender ==
  ASSUME NEW D, D \in Seq(Nat), NEW isn \in Raw, NEW capacity \in Nat
  PROVE  /\ SenderOf(NewTCPSender(capacity, isn), D) /\ NewTCPSender(capacity, isn).isn = isn
         /\ First(NewTCPSender(capacity, isn)) = 0
<1> DEFINE in == NewByteStream(capacity)
           snd == NewTCPSender(capacity, isn)
<1>1. <<>> \in Seq(Nat) /\ <<>> \in Seq(MessageRecord) /\ Len(<<>>) = 0 /\ Len(D) \in Nat
  BY EmptySeq, LenProperties
<1>2. /\ in \in ByteStreamOf(Nat) /\ in.stream = <<>> /\ in.pushed = 0 /\ in.popped = 0
      /\ in.is_closed = FALSE /\ in.error = FALSE
  BY <1>1 DEF NewByteStream, ByteStreamOf
<1>3. InputOf(in, D)
  BY <1>1, <1>2 DEF InputOf
<1> HIDE DEF in
<1>4. snd \in SenderRecord
  BY <1>1, <1>2, SenderAssumption DEF NewTCPSender, SenderRecord, NoProbe, in
<1>5. /\ snd.input = in /\ snd.isn = isn /\ snd.outstanding = <<>> /\ snd.next_seqno = 0
      /\ snd.syn_sent = FALSE /\ snd.bytes_unack = 0 /\ snd.RTO = RtTimeout
      /\ snd.timer_active = FALSE /\ snd.fin_set = FALSE /\ snd.fin_ready = FALSE
      /\ snd.consecutive_retransmissions = 0
  BY DEF NewTCPSender, in
<1> HIDE DEF snd
<1>6. First(snd) = 0 /\ Numbered(snd) /\ Timed(snd)
  BY <1>2, <1>5, NoBackoff, SenderAssumption DEF First, Numbered, Timed
<1>7. Queue(snd, D)
  <2> DEFINE st == [i \in 1 .. 1 |-> 0]
  <2>1. st \in [1 .. 0 + 1 -> Nat] /\ st[1] = 0
    OBVIOUS
  <2>2. st[0 + 1] = 0 /\ \A i, j \in 1 .. 0 + 1 : st[i] <= st[j]
    OBVIOUS
  <2> HIDE DEF st
  <2>3. QueueAt(snd, D, st)
    BY <1>1, <1>5, <1>6, <2>1, <2>2 DEF QueueAt
  <2> QED
    BY <2>3 DEF Queue
<1>8. First(snd) \in 0 .. snd.next_seqno
  BY <1>5, <1>6
<1> QED
  BY <1>2, <1>3, <1>4, <1>5, <1>6, <1>7, <1>8 DEF SenderOf, snd


-----------------------------------------------------------------------------
(* The window *)

\* q sends no more than the window of snd admits.
Stays(snd, q) ==
  /\ q.window_size = snd.window_size
  /\ \A x \in Nat : Within(snd, x) => Within(q, x)

LEMMA StaysTwice ==
  ASSUME NEW a, NEW b, NEW c, Stays(a, b), Stays(b, c)
  PROVE  Stays(a, c)
BY DEF Stays

LEMMA SlackType == \A snd : Slack(snd) \in 0 .. 1
BY DEF Slack

LEMMA SameNumbersStays ==
  ASSUME NEW snd, NEW q, SameNumbers(snd, q)
  PROVE  Stays(snd, q)
<1>1. Slack(q) = Slack(snd) /\ (Probing(snd) => Probing(q))
  BY DEF SameNumbers, SameWindow, Slack, Probing
<1> QED
  BY <1>1 DEF SameNumbers, SameWindow, Stays, Within

LEMMA FilledStays ==
  ASSUME NEW before, NEW a, NEW b, NEW D, StepOf(before, a, D), StepOf(before, b, D),
         a.snd.syn_sent, b.snd.syn_sent, FillsWindow(a.snd, b.snd)
  PROVE  Stays(a.snd, b.snd)
<1> DEFINE snd == a.snd
           q   == b.snd
<1>1. /\ snd.window_size \in Nat /\ snd.next_seqno \in Nat /\ snd.bytes_unack \in Int
      /\ q.next_seqno \in Nat /\ First(q) = First(snd) /\ q.input.error = snd.input.error
  BY DEF StepOf, SenderOf, SenderRecord, Keeps
<1>2. SameWindow(snd, q)
  BY DEF FillsWindow
<1>3. CASE /\ q.next_seqno = snd.next_seqno /\ q.fin_set = snd.fin_set
           /\ q.outstanding = snd.outstanding /\ q.fin_ready = snd.fin_ready
  <2>1. SameNumbers(snd, q)
    BY <1>1, <1>2, <1>3 DEF SameNumbers, StepOf, StepRecord, SenderRecord
  <2> QED
    BY <2>1, SameNumbersStays
<1>4. CASE /\ AvailableWindow(snd) > 0
           /\ q.next_seqno <= snd.next_seqno + AvailableWindow(snd)
           /\ q.fin_ready => q.fin_set
  <2> SUFFICES ASSUME NEW x \in Nat, Within(snd, x) PROVE Within(q, x)
    BY <1>2 DEF Stays, SameWindow
  <2>1. /\ AvailableWindow(snd) = snd.window_size - snd.bytes_unack
        /\ First(snd) = snd.next_seqno - snd.bytes_unack /\ First(snd) \in Nat
    <3>1. AvailableWindow(snd) = snd.window_size - snd.bytes_unack
      BY <1>1, <1>4 DEF AvailableWindow, Larger
    <3> QED
      BY <3>1 DEF First, StepOf, SenderOf
  <2>2. First(snd) <= x /\ (x = 0 => snd.window_size > 0)
    BY DEF Within
  <2> DEFINE avail == AvailableWindow(snd)
             first == First(snd)
  <2> HIDE DEF avail, first
  <2>3. snd.bytes_unack \in Nat
    <3>1. snd.bytes_unack = snd.next_seqno - first /\ first <= snd.next_seqno
      BY <1>1, <2>1 DEF first, StepOf, SenderOf
    <3>2. first \in Nat
      BY <2>1 DEF first
    <3> HIDE DEF snd
    <3> QED
      BY <1>1, <3>1, <3>2
  <2>4. snd.window_size > 0 /\ q.next_seqno <= x + snd.window_size
    <3>1. avail > 0 /\ avail = snd.window_size - snd.bytes_unack
          /\ first = snd.next_seqno - snd.bytes_unack
          /\ q.next_seqno <= snd.next_seqno + avail /\ first <= x
      BY <1>4, <2>1, <2>2 DEF avail, first
    <3> HIDE DEF snd, q
    <3> QED
      BY <1>1, <2>3, <3>1
  <2>5. Probing(q)
    <3>1. ~ snd.input.error => ~ snd.zero_window_probe_sent
      BY <1>1, <2>4 DEF Within, Probing
    <3> QED
      BY <1>1, <1>2, <1>4, <3>1 DEF SameWindow, Probing
  <2>6. q.next_seqno <= x + q.window_size + Slack(q)
    <3>1. q.window_size = snd.window_size /\ Slack(q) \in 0 .. 1
      BY <1>2, SlackType DEF SameWindow
    <3> HIDE DEF snd, q
    <3> QED
      BY <1>1, <2>4, <3>1
  <2> QED
    BY <1>1, <1>2, <2>2, <2>5, <2>6 DEF Within, SameWindow
<1> QED
  BY <1>3, <1>4 DEF FillsWindow

LEMMA SynStays ==
  ASSUME NEW before, NEW a, NEW b, NEW D, StepOf(before, a, D), StepOf(before, b, D),
         Begins(a.snd, b.snd)
  PROVE  Stays(a.snd, b.snd)
<1> DEFINE snd == a.snd
           q   == b.snd
<1>1. /\ snd.window_size \in Nat /\ snd.next_seqno \in Nat /\ snd.bytes_unack \in Int
      /\ q.next_seqno \in Nat /\ First(q) = First(snd) /\ q.input.error = snd.input.error
      /\ First(snd) \in 0 .. snd.next_seqno
  BY DEF StepOf, SenderOf, SenderRecord, Keeps
<1>2. SameWindow(snd, q) /\ q.fin_ready = snd.fin_ready
      /\ snd.next_seqno = 0 /\ q.next_seqno <= Larger(AvailableWindow(snd), 1)
  BY DEF Begins
<1>3. ~ snd.syn_sent /\ ~ snd.fin_set
  <2>1. Numbered(snd) /\ InputOf(snd.input, D)
    BY DEF StepOf, SenderOf
  <2>2. snd.input.popped \in Nat
    BY <2>1, InputTypes
  <2> HIDE DEF snd
  <2> QED
    BY <1>2, <2>1, <2>2 DEF Numbered
<1>4. AvailableWindow(snd) = snd.window_size
  <2>1. snd.bytes_unack = 0
    <3>1. First(snd) = snd.next_seqno - snd.bytes_unack
      BY DEF First
    <3> HIDE DEF snd
    <3> QED
      BY <1>1, <1>2, <3>1
  <2> HIDE DEF snd
  <2> QED
    BY <1>1, <2>1 DEF AvailableWindow, Larger
<1> SUFFICES ASSUME NEW x \in Nat, Within(snd, x) PROVE Within(q, x)
  BY <1>2 DEF Stays, SameWindow
<1>5. /\ First(snd) <= x /\ (x = 0 => snd.window_size > 0)
      /\ q.window_size = snd.window_size /\ Slack(q) \in 0 .. 1
  BY <1>2, SlackType DEF Within, SameWindow
<1>6. Probing(q)
  BY <1>1, <1>2, <1>3 DEF Within, Probing, SameWindow
<1>7. q.next_seqno <= x + q.window_size + Slack(q)
  <2> HIDE DEF snd, q
  <2> QED
    BY <1>1, <1>2, <1>4, <1>5 DEF Larger
<1> QED
  BY <1>1, <1>5, <1>6, <1>7 DEF Within

LEMMA LateFinStays ==
  ASSUME NEW before, NEW a, NEW b, NEW D, StepOf(before, a, D), StepOf(before, b, D),
         ~ before.input.error, FinishesLate(a.snd, b.snd)
  PROVE  Stays(a.snd, b.snd)
<1> DEFINE snd == a.snd
           q   == b.snd
<1>1. /\ snd.window_size \in Nat /\ snd.next_seqno \in Nat /\ SenderOf(snd, D)
      /\ q.next_seqno \in Nat /\ First(q) = First(snd) /\ ~ snd.input.error
      /\ q.input.error = snd.input.error
  BY DEF StepOf, SenderOf, SenderRecord, Keeps
<1>2. SameWindow(snd, q) /\ q.next_seqno = snd.next_seqno + 1
      /\ snd.fin_ready /\ ~ snd.fin_set /\ q.fin_set
  BY DEF FinishesLate
<1> SUFFICES ASSUME NEW x \in Nat, Within(snd, x) PROVE Within(q, x)
  BY <1>2 DEF Stays, SameWindow
<1>3. /\ First(snd) <= x /\ (x = 0 => snd.window_size > 0)
      /\ q.window_size = snd.window_size /\ Slack(q) = 1
      /\ First(snd) = snd.next_seqno
  BY <1>1, <1>2 DEF Within, SameWindow, Probing, Slack
<1>4. ~ snd.zero_window_probe_sent
  <2> SUFFICES ASSUME snd.zero_window_probe_sent PROVE FALSE
    OBVIOUS
  <2>1. snd.outstanding # <<>>
    BY <1>1 DEF Within, Probing
  <2>2. First(snd) \in Nat /\ First(snd) < snd.next_seqno
    BY <1>1, <2>1, OutstandingAhead
  <2> HIDE DEF snd
  <2> QED
    BY <1>1, <1>3, <2>2
<1>5. Probing(q)
  BY <1>2, <1>4 DEF Probing, SameWindow
<1>6. q.next_seqno <= x + q.window_size + Slack(q)
  <2> HIDE DEF snd, q
  <2> QED
    BY <1>1, <1>2, <1>3
<1> QED
  BY <1>1, <1>3, <1>5, <1>6 DEF Within

LEMMA ProbeStays ==
  ASSUME NEW before, NEW a, NEW b, NEW D, StepOf(before, a, D), StepOf(before, b, D),
         Probes(a.snd, b.snd)
  PROVE  Stays(a.snd, b.snd)
<1> DEFINE snd == a.snd
           q   == b.snd
<1>1. /\ snd.next_seqno \in Nat /\ First(q) = First(snd)
  BY DEF StepOf, SenderOf, SenderRecord, Keeps
<1>2. /\ snd.window_size = 0 /\ ~ snd.zero_window_probe_sent /\ ~ snd.fin_set
      /\ q.window_size = 0 /\ q.zero_window_probe_sent
      /\ q.zero_window_probe_seqno = snd.next_seqno
      /\ q.next_seqno = snd.next_seqno + 1 /\ q.syn_sent /\ ~ q.fin_ready
      /\ q.outstanding # <<>> /\ SequenceLength(q.outstanding[Len(q.outstanding)]) = 1
  BY DEF Probes
<1> SUFFICES ASSUME NEW x \in Nat, Within(snd, x) PROVE Within(q, x)
  BY <1>2 DEF Stays
<1>3. /\ First(snd) <= x /\ x # 0 /\ Slack(q) = 1 /\ Slack(snd) = 0
      /\ snd.next_seqno <= x + snd.window_size + Slack(snd)
  <2>1. Slack(q) = 1 /\ Slack(snd) = 0
    BY <1>2 DEF Slack
  <2>2. x # 0
    BY <1>2 DEF Within
  <2> QED
    BY <2>1, <2>2 DEF Within
<1>4. Probing(q)
  BY <1>2 DEF Probing
<1>5. q.next_seqno <= x + q.window_size + Slack(q)
  <2> HIDE DEF snd, q
  <2> QED
    BY <1>1, <1>2, <1>3
<1> QED
  BY <1>1, <1>2, <1>3, <1>4, <1>5 DEF Within

\* push() keeps to the window.
LEMMA PushStays ==
  ASSUME NEW snd, NEW D, SenderOf(snd, D), Small(D)
  PROVE  Stays(snd, SenderPush(snd).snd)
<1> DEFINE step == [snd |-> snd, out |-> <<>>]
<1>1. Stays(snd, snd)
  BY DEF Stays
<1>2. CASE snd.input.error
  <2>1. SenderPush(snd).snd = snd
    BY <1>2 DEF SenderPush
  <2> QED
    BY <1>1, <2>1
<1>3. CASE ~ snd.input.error
  <2>1. StepOf(snd, step, D) /\ step.snd = snd
    <3>1. step \in StepRecord /\ step.snd = snd /\ step.out = <<>> /\ Len(step.out) = 0
      BY EmptySeq DEF SenderOf, StepRecord
    <3> HIDE DEF step
    <3> QED
      BY <3>1 DEF StepOf, Keeps
  <2> HIDE DEF step
  <2> DEFINE s1 == PushSyn(step)
             s2 == PushData(s1)
             s3 == PushFin(s2)
             s4 == PushFinReady(s3)
             s5 == PushProbe(s4)
  <2>2. StepOf(snd, s1, D) /\ s1.snd.syn_sent /\ Stays(snd, s1.snd)
    <3>1. /\ StepOf(snd, s1, D) /\ s1.snd.syn_sent
          /\ s1 = step \/ Begins(step.snd, s1.snd)
      BY <1>3, <2>1, PushSynStep
    <3> HIDE DEF s1
    <3>2. s1 = step \/ Stays(snd, s1.snd)
      BY <2>1, <3>1, SynStays
    <3> QED
      BY <1>1, <2>1, <3>1, <3>2
  <2> HIDE DEF s1
  <2>3. StepOf(snd, s2, D) /\ s2.snd.syn_sent /\ Stays(snd, s2.snd)
    <3>1. StepOf(snd, s2, D) /\ s2.snd.syn_sent /\ FillsWindow(s1.snd, s2.snd)
      BY <1>3, <2>2, PushDataStep
    <3> HIDE DEF s2
    <3>2. Stays(s1.snd, s2.snd)
      BY <2>2, <3>1, FilledStays
    <3> QED
      BY <2>2, <3>1, <3>2, StaysTwice
  <2> HIDE DEF s2
  <2>4. StepOf(snd, s3, D) /\ s3.snd.syn_sent /\ Stays(snd, s3.snd)
    <3>1. StepOf(snd, s3, D) /\ s3.snd.syn_sent /\ FillsWindow(s2.snd, s3.snd)
      BY <1>3, <2>3, PushFinStep
    <3> HIDE DEF s3
    <3>2. Stays(s2.snd, s3.snd)
      BY <2>3, <3>1, FilledStays
    <3> QED
      BY <2>3, <3>1, <3>2, StaysTwice
  <2> HIDE DEF s3
  <2>5. StepOf(snd, s4, D) /\ s4.snd.syn_sent /\ Stays(snd, s4.snd)
    <3>1. /\ StepOf(snd, s4, D) /\ s4.snd.syn_sent
          /\ s4 = s3 \/ FinishesLate(s3.snd, s4.snd)
      BY <1>3, <2>4, PushFinReadyStep
    <3> HIDE DEF s4
    <3>2. s4 = s3 \/ Stays(s3.snd, s4.snd)
      BY <1>3, <2>4, <3>1, LateFinStays
    <3> QED
      BY <2>4, <3>1, <3>2, StaysTwice
  <2> HIDE DEF s4
  <2>6. Stays(snd, s5.snd)
    <3>1. /\ StepOf(snd, s5, D)
          /\ s5 = s4 \/ Probes(s4.snd, s5.snd)
      BY <1>3, <2>5, PushProbeStep
    <3> HIDE DEF s5
    <3>2. s5 = s4 \/ Stays(s4.snd, s5.snd)
      BY <2>5, <3>1, ProbeStays
    <3> QED
      BY <2>5, <3>2, StaysTwice
  <2>7. SenderPush(snd) = s5
    BY <1>3 DEF SenderPush, s5, s4, s3, s2, s1, step
  <2> QED
    BY <2>6, <2>7
<1> QED
  BY <1>2, <1>3

\* A tick sends nothing new.
LEMMA TickStays ==
  ASSUME NEW snd, NEW D, SenderOf(snd, D), NEW ms \in Nat
  PROVE  Stays(snd, SenderTick(snd, ms).snd)
<1> DEFINE q == SenderTick(snd, ms).snd
           timer == snd.timer + ms
           more == Smaller(snd.consecutive_retransmissions + 1, MaxRetx)
           rto  == Smaller(snd.RTO * 2, MaxRTO)
<1>1. snd \in SenderRecord
  BY DEF SenderOf
<1> HIDE DEF timer, more, rto
<1>2. \/ q = snd
      \/ q = [snd EXCEPT !.timer = timer]
      \/ q = [snd EXCEPT !.timer = 0]
      \/ q = [snd EXCEPT !.consecutive_retransmissions = more, !.RTO = rto, !.timer = 0]
  <2>1. \/ Backoff(snd) = snd
        \/ Backoff(snd) = [snd EXCEPT !.consecutive_retransmissions = more, !.RTO = rto]
    BY DEF Backoff, more, rto
  <2>2. \/ q = snd
        \/ q = [snd EXCEPT !.timer = timer]
        \/ q = [Backoff(snd) EXCEPT !.timer = 0]
    BY DEF SenderTick, timer
  <2> HIDE DEF q
  <2>3. [[snd EXCEPT !.consecutive_retransmissions = more, !.RTO = rto] EXCEPT !.timer = 0]
          = [snd EXCEPT !.consecutive_retransmissions = more, !.RTO = rto, !.timer = 0]
    BY <1>1 DEF SenderRecord
  <2> QED
    BY <2>1, <2>2, <2>3
<1> HIDE DEF q
<1>3. /\ q.window_size = snd.window_size
      /\ q.zero_window_probe_sent = snd.zero_window_probe_sent
      /\ q.zero_window_probe_seqno = snd.zero_window_probe_seqno
      /\ q.outstanding = snd.outstanding /\ q.next_seqno = snd.next_seqno
      /\ q.bytes_unack = snd.bytes_unack /\ q.fin_set = snd.fin_set
      /\ q.fin_ready = snd.fin_ready /\ q.input = snd.input /\ q.syn_sent = snd.syn_sent
  BY <1>1, <1>2 DEF SenderRecord
<1>4. SameNumbers(snd, q)
  BY <1>3 DEF SameNumbers, SameWindow, First
<1>5. Stays(snd, q)
  BY <1>4, SameNumbersStays
<1> QED
  BY <1>5 DEF q

\* Nor does the application by itself.
LEMMA GrowthStays ==
  ASSUME NEW snd, NEW D, SenderOf(snd, D), NEW in, in.error = snd.input.error
  PROVE  Stays(snd, [snd EXCEPT !.input = in])
<1> DEFINE q == [snd EXCEPT !.input = in]
<1>1. snd \in SenderRecord
  BY DEF SenderOf
<1>2. /\ q.window_size = snd.window_size
      /\ q.zero_window_probe_sent = snd.zero_window_probe_sent
      /\ q.zero_window_probe_seqno = snd.zero_window_probe_seqno
      /\ q.outstanding = snd.outstanding /\ q.next_seqno = snd.next_seqno
      /\ q.bytes_unack = snd.bytes_unack /\ q.fin_set = snd.fin_set
      /\ q.fin_ready = snd.fin_ready /\ q.input = in /\ q.syn_sent = snd.syn_sent
  BY <1>1 DEF SenderRecord
<1> HIDE DEF q
<1>3. SameNumbers(snd, q)
  BY <1>2 DEF SameNumbers, SameWindow, First
<1>4. Stays(snd, q)
  BY <1>3, SameNumbersStays
<1> QED
  BY <1>4 DEF q

\* At first there is room for the SYN alone.
LEMMA NewSenderWithin ==
  ASSUME NEW D, D \in Seq(Nat), NEW isn \in Raw, NEW capacity \in Nat
  PROVE  /\ Within(NewTCPSender(capacity, isn), 0)
         /\ NewTCPSender(capacity, isn).window_size = 1
<1> DEFINE snd == NewTCPSender(capacity, isn)
<1>1. First(snd) = 0
  BY NewSender
<1>2. /\ snd.next_seqno = 0 /\ snd.window_size = 1 /\ snd.zero_window_probe_sent = FALSE
      /\ snd.fin_ready = FALSE
  BY DEF NewTCPSender
<1>3. Slack(snd) \in 0 .. 1
  BY SlackType
<1> HIDE DEF snd
<1>4. Within(snd, 0)
  BY <1>1, <1>2, <1>3 DEF Within, Probing
<1> QED
  BY <1>2, <1>4 DEF snd

\* A reset leaves the sender where it was.
LEMMA ResetWithin ==
  ASSUME NEW snd, NEW D, SenderOf(snd, D), NEW x \in Nat, Within(snd, x)
  PROVE  Within(Reset(snd), x) /\ Reset(snd).window_size = snd.window_size
<1> DEFINE in == SetError(snd.input)
           q == Reset(snd)
<1>1. snd \in SenderRecord /\ snd.input \in ByteStreamOf(Nat)
  BY DEF SenderOf, SenderRecord
<1>2. in.error
  BY <1>1 DEF SetError, ByteStreamOf
<1>3. q = [snd EXCEPT !.input = in, !.outstanding = <<>>, !.timer_active = FALSE]
  BY <1>1 DEF Reset, SenderRecord
<1> HIDE DEF in, q
<1>4. /\ q.input = in /\ q.next_seqno = snd.next_seqno /\ q.bytes_unack = snd.bytes_unack
      /\ q.window_size = snd.window_size /\ q.fin_set = snd.fin_set
      /\ q.zero_window_probe_sent = snd.zero_window_probe_sent
  BY <1>1, <1>3 DEF SenderRecord
<1>5. Probing(q)
  BY <1>2, <1>4 DEF Probing
<1>6. First(q) = First(snd) /\ Slack(q) = Slack(snd)
  BY <1>4 DEF First, Slack
<1> QED
  BY <1>4, <1>5, <1>6 DEF Within, q

\* The sender keeps to the window of the message that arrives, when it was
\* sent after the one that the sender has seen last.
LEMMA ReceiveWithin ==
  ASSUME NEW snd, NEW D, SenderOf(snd, D), ~ snd.input.error, Small(D),
         NEW m, ~ m.RST, m.window_size \in Nat,
         NEW x \in Nat, Within(snd, x), NEW y \in 0 .. Len(D) + 2,
         m.ackno = (IF y = 0 THEN NoSeqno ELSE Wrap(y, snd.isn)),
         x <= y, x + snd.window_size <= y + m.window_size, y = 0 => m.window_size > 0
  PROVE  Within(SenderReceive(snd, m), y) /\ SenderReceive(snd, m).window_size = m.window_size
<1> DEFINE w == m.window_size
           p == UpdateWindow(snd, w)
           q == SenderReceive(snd, m)
           next == snd.next_seqno
<1>1. /\ SenderOf(p, D) /\ Keeps(snd, p) /\ NewWindow(snd, p, w)
      /\ p.syn_sent = snd.syn_sent
  BY UpdateWindowStep
<1>2. /\ snd.window_size \in Nat /\ w \in Nat /\ next \in Nat /\ y \in Nat
      /\ First(snd) \in Int /\ First(snd) <= x
      /\ next <= x + snd.window_size + Slack(snd)
      /\ Slack(snd) \in 0 .. 1 /\ Slack(p) \in 0 .. 1
      /\ snd.input.error = p.input.error /\ First(p) = First(snd)
  <2>1. D \in Seq(Nat) /\ Len(D) \in Nat
    BY LenProperties DEF SenderOf, InputOf
  <2>2. snd \in SenderRecord /\ First(snd) \in 0 .. next
    BY DEF SenderOf
  <2>3. snd.window_size \in Nat /\ next \in Nat /\ First(snd) \in Int
    BY <2>2 DEF SenderRecord
  <2>4. y \in Nat
    BY <2>1
  <2> HIDE DEF p, next
  <2> QED
    BY <1>1, <2>3, <2>4, SlackType DEF Within, Keeps, next
<1> HIDE DEF p, q, w, next
<1>3. Probing(p)
  BY <1>1, <1>2 DEF Within, Probing, NewWindow
<1>4. next <= y + w + Slack(p)
  <2>1. CASE Slack(p) = Slack(snd)
    BY <1>2, <2>1 DEF w
  <2>2. CASE Slack(p) # Slack(snd)
    <3>1. snd.zero_window_probe_sent /\ w # 0
      BY <1>1, <2>2 DEF Slack, NewWindow
    <3>2. snd.window_size = 0
      BY <3>1 DEF Within, Probing
    <3>3. x <= y
      OBVIOUS
    <3> QED
      BY <1>2, <3>1, <3>2, <3>3
  <2> QED
    BY <2>1, <2>2
<1>5. CASE y = 0
  <2>1. q = p
    BY <1>5 DEF SenderReceive, q, p, w
  <2>2. Within(p, y)
    <3>1. First(p) <= y
      BY <1>2
    <3> QED
      BY <1>1, <1>3, <1>4, <1>5, <3>1 DEF Within, NewWindow, next, w
  <2> QED
    BY <1>1, <2>1, <2>2 DEF NewWindow, q, w
<1>6. CASE y # 0
  <2>1. m.ackno = Wrap(y, snd.isn) /\ snd.isn \in Raw
    BY <1>6 DEF SenderOf, SenderRecord
  <2>2. m.ackno # NoSeqno
    <3>1. m.ackno \in Raw
      BY <1>2, <2>1, BaseOfWrap
    <3> QED
      BY <3>1 DEF NoSeqno, Raw
  <2>3. SeqnoOf(snd, m.ackno) = y
    <3>1. next \in 0 .. Len(D) + 2 /\ D \in Seq(Nat)
      BY NextInStream DEF SenderOf, InputOf, next
    <3>2. Unwrap(Wrap(y, snd.isn), snd.isn, next) = y
      BY <2>1, <3>1, SeqnoRecovered
    <3> QED
      BY <2>1, <3>2 DEF SeqnoOf, next
  <2>4. q = AcceptAck(p, y)
    BY <2>2, <2>3 DEF SenderReceive, q, p, w
  <2>5. Acks(p, q, y, D) /\ Relaxed(p, q)
    BY <1>1, <1>2, <1>3, <2>4, AcceptAckStep
  <2>6. /\ SenderOf(q, D) /\ First(q) <= y
        /\ q.window_size = w /\ q.next_seqno = next /\ Probing(q)
        /\ Slack(q) = Slack(p) \/ First(q) = next
    <3>1. First(q) <= y
      BY <1>2, <2>5 DEF Acks
    <3> QED
      BY <1>1, <2>5, <3>1 DEF Relaxed, NewWindow, Acks, next
  <2>7. next <= y + w + Slack(q)
    <3>1. Slack(q) \in 0 .. 1
      BY SlackType
    <3>2. CASE Slack(q) = Slack(p)
      BY <1>4, <3>2
    <3>3. CASE First(q) = next
      BY <1>2, <2>6, <3>1, <3>3
    <3> QED
      BY <2>6, <3>2, <3>3
  <2> QED
    BY <1>6, <2>6, <2>7 DEF Within, q, w
<1> QED
  BY <1>5, <1>6
=============================================================================
