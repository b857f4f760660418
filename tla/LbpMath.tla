------------------------------- MODULE LbpMath -------------------------------
(***************************************************************************)
(* Weights and prices of the liquidity bootstrapping pool                  *)
(* (src/weighted.rs, src/binfixed.rs).                                     *)
(*                                                                         *)
(* The series the kernel sums for x^(num/den) is left out: away from the   *)
(* cases the kernel decides without it, any value of the scale may come    *)
(* back.  That covers its error and the cast of the scaled logarithm to    *)
(* i128, which wraps to a negative number, and so to One, when the ratio   *)
(* of the weights is large.  Nothing here says that a power is accurate,   *)
(* or monotone in the weights.                                             *)
(***************************************************************************)
EXTENDS Arithmetic

CONSTANTS
  One,        \* the fixed-point scale: 10^18 in the code
  AmountMax   \* u128::MAX

ASSUME ScaleAssumption == One \in Nat \ {0} /\ AmountMax \in Nat

Amount == 0..AmountMax

----------------------------------------------------------------------------
(* Weights. *)

ValidWeights(p) == p.t_start < p.t_end

\* The token's weight at a time: linear between the ends of the sale.
WeightAt(p, now) ==
  LET elapsed == now - p.t_start
      span    == p.t_end - p.t_start
  IN  IF now <= p.t_start THEN p.w_start
      ELSE IF now >= p.t_end THEN p.w_end
      ELSE IF p.w_end >= p.w_start
        THEN p.w_start + MulDivFloor(p.w_end - p.w_start, elapsed, span)
        ELSE p.w_start - MulDivFloor(p.w_start - p.w_end, elapsed, span)

----------------------------------------------------------------------------
(* Prices. *)

\* What the kernel may return for x^(num/den).
Pow(x, num, den) == IF x = 0 THEN {0} ELSE IF num = den THEN {x} ELSE 0..One

\* The share of the collateral reserve that was there before the payment.
Base(p, c_in) == MulDivFloor(p.reserve_collateral, One, p.reserve_collateral + c_in)

BuyPriced(p, c_in, w_token) ==
  /\ c_in > 0
  /\ w_token > 0 /\ w_token < One
  /\ p.reserve_token > 0 /\ p.reserve_collateral > 0
  /\ p.reserve_collateral + c_in <= AmountMax

\* The share of the token reserve that a buy may leave behind.
Kept(p, c_in, w_token) == Pow(Base(p, c_in), One - w_token, w_token)

WeightedBuy_Up(p, kept) ==                        \* mutant: payout rounded up
  p.reserve_token - MulDivFloor(p.reserve_token, kept, One)

WeightedBuy(p, kept) == MulDivFloor(p.reserve_token, One - kept, One)
=============================================================================
