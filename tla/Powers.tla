------------------------------- MODULE Powers -------------------------------
(***************************************************************************)
(* Powers of two, as a function that a proof can unfold.                    *)
(***************************************************************************)
EXTENDS Integers

TwoTo[n \in Nat] == IF n = 0 THEN 1 ELSE 2 * TwoTo[n - 1]
=============================================================================
