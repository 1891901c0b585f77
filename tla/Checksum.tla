------------------------------ MODULE Checksum ------------------------------
(***************************************************************************)
(* src/util/checksum.hh: the Internet checksum.  The sum is a uint32_t,     *)
(* which the 65535 bytes of the longest datagram cannot overflow.           *)
(***************************************************************************)
EXTENDS Integers, Sequences, SequencesExt

Byte == 0 .. 255
Half == 0 .. 65535   \* of 16 bits

\* InternetChecksum check { sum };
NewChecksum(sum) == [sum |-> sum, parity |-> FALSE]

\* add(): the bytes are alternately the high and the low half of a word, also
\* across calls.
Add(check, data) ==
  LET high(i) == (i % 2 = 1) # check.parity
      sum[i \in 0 .. Len(data)] ==
        IF i = 0 THEN check.sum ELSE sum[i - 1] + (IF high(i) THEN 256 * data[i] ELSE data[i])
  IN  [sum |-> sum[Len(data)], parity |-> check.parity # (Len(data) % 2 = 1)]

\* One round of the loop of value(): the carries are added back.
Carried(n) == (n \div 65536) + (n % 65536)

Complement(n) == 65535 - n

\* value(): rounds until there are no carries.
Value(check) ==
  LET folded[n \in Nat] == IF n \in Half THEN n ELSE folded[Carried(n)]
  IN  Complement(folded[check.sum])
=============================================================================
