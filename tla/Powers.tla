-------------------------------- MODULE Powers --------------------------------
(***************************************************************************)
(* Powers of two, as the recursive function that the shifts and the widths *)
(* of the arithmetic modules are written with.                             *)
(***************************************************************************)
EXTENDS Integers

\* 1 << n, without a limit
Pow2[n \in Nat] == IF n = 0 THEN 1 ELSE 2 * Pow2[n - 1]
=============================================================================
