------------------------------- MODULE Wrap32 -------------------------------
(***************************************************************************)
(* Sequence-number arithmetic of src/src/wrapping_integers.cc: a 64-bit     *)
(* absolute sequence number is sent as a raw number of 32 bits, offset by   *)
(* the initial sequence number ("zero point"), and is recovered from the    *)
(* raw number and a nearby checkpoint.                                      *)
(*                                                                         *)
(* The two widths are parameters: SeqSpace stands for 2^32 and WordSpace    *)
(* for 2^64.  Every operation that the code performs on uint64_t values is  *)
(* taken modulo WordSpace.                                                  *)
(***************************************************************************)
EXTENDS Integers

CONSTANTS SeqSpace,   \* how many raw sequence numbers there are (2^32)
          WordSpace   \* how many values a uint64_t has (2^64)

ASSUME WidthAssumption ==
  /\ SeqSpace \in Nat \ {0, 1}
  /\ WordSpace \in Nat
  /\ WordSpace % SeqSpace = 0
  /\ WordSpace >= 2 * SeqSpace

Raw  == 0 .. SeqSpace - 1
Word == 0 .. WordSpace - 1

\* The value a uint64_t expression has when its mathematical value is x.
U64(x) == x % WordSpace

AbsDiff(a, b) == IF a > b THEN a - b ELSE b - a

Wrap(n, zero) == ((n % SeqSpace) + zero) % SeqSpace

\* Wrap32::operator+
WrapPlus(raw, n) == (raw + n) % SeqSpace

-----------------------------------------------------------------------------
(***************************************************************************)
(* Unwrap.  The division in the code has a uint64_t divisor, so the signed  *)
(* difference checkpoint - base is converted to uint64_t first: when the    *)
(* checkpoint is below base the quotient is huge, BeforeCheckpoint lies at  *)
(* the top of the 64-bit range and its successor wraps round to base.       *)
(***************************************************************************)
Base(raw, zero) == (raw + (SeqSpace - zero)) % SeqSpace

BeforeCheckpoint(base, checkpoint) ==
  U64(base + (U64(checkpoint - base) \div SeqSpace) * SeqSpace)

\* Wrong on purpose: the candidate after the checkpoint is never taken.
UnwrapBefore(raw, zero, checkpoint) == BeforeCheckpoint(Base(raw, zero), checkpoint)

Unwrap(raw, zero, checkpoint) ==
  LET before == BeforeCheckpoint(Base(raw, zero), checkpoint)
      after  == U64(before + SeqSpace)
  IN  IF AbsDiff(checkpoint, before) > AbsDiff(checkpoint, after)
        THEN after
        ELSE before
=============================================================================
