----------------------------- MODULE Arithmetic -----------------------------
(***************************************************************************)
(* The rounded quotients of the host library (src/lib.rs) that the vesting *)
(* schedules, the bonding curve and the weighted pool are all computed     *)
(* with.                                                                   *)
(*                                                                         *)
(* A product is formed in 256 bits and a quotient that does not fit in 128 *)
(* is refused, so a quotient that is returned is that of the unbounded     *)
(* numbers.                                                                *)
(***************************************************************************)
EXTENDS Integers

MulDivFloor(a, b, d) == (a * b) \div d

MulDivCeil_Floor(a, b, d) == (a * b) \div d       \* mutant: rounds down

MulDivCeil(a, b, d) == (a * b + d - 1) \div d

\* Linear accrual over [from, to), floored, and exactly total from `to` on.
LinearBetween(from, to, t, total) ==
  IF t <= from THEN 0
  ELSE IF t >= to THEN total
  ELSE MulDivFloor(total, t - from, to - from)
=============================================================================
