------------------------------ MODULE CurveMath ------------------------------
(***************************************************************************)
(* The prices and the fees of the bonding curve (src/lib.rs, src/fees.rs). *)
(* A curve is any record with the fields of Curve.                         *)
(***************************************************************************)
EXTENDS Arithmetic

CONSTANTS
  AmountMax,  \* u128::MAX
  RateOne,    \* RATE_ONE: a rate of 100%
  Cap         \* CAP_PER_SWAP

ASSUME RateAssumption ==
  /\ AmountMax \in Nat
  /\ RateOne \in Nat \ {0} /\ Cap \in Nat /\ Cap < RateOne

Amount == 0..AmountMax

\* Curve::new
ValidCurve(c) == c.vt > 0 /\ c.vc > 0 /\ c.vt > c.sale_reserve

----------------------------------------------------------------------------
(* Buying. *)

\* What stays of the virtual tokens, rounded up: the pool keeps the dust.
TokensLeft(c, c_in) == MulDivCeil(c.vt, c.vc, c.vc + c_in)

TokensOut(c, c_in) == c.vt - TokensLeft(c, c_in)

QuoteBuyAccepted_AnySize(c, c_in) ==              \* mutant: reserve not checked
  c_in > 0 /\ c.vc + c_in <= AmountMax

\* quote_buy answers TokensOut, unless the reserve does not have that many.
QuoteBuyAccepted(c, c_in) ==
  /\ c_in > 0
  /\ c.vc + c_in <= AmountMax
  /\ TokensOut(c, c_in) <= c.sale_reserve

\* The refusals of quote_buy and of the arithmetic of buy; slippage is the caller's.
BuyAccepted(c, c_in) ==
  /\ QuoteBuyAccepted(c, c_in)
  /\ c.real_collateral + c_in <= AmountMax

AfterBuy(c, c_in) ==
  [c EXCEPT !.vt = TokensLeft(c, c_in),
            !.vc = @ + c_in,
            !.sale_reserve = @ - TokensOut(c, c_in),
            !.real_collateral = @ + c_in]

\* quote_buy_exact_out: what q tokens cost, rounded up.
ExactOutAccepted(c, q) ==
  /\ 0 < q /\ q <= c.sale_reserve /\ q < c.vt
  /\ MulDivCeil(c.vt, c.vc, c.vt - q) <= AmountMax

QuoteExactOut_Floor(c, q) ==                      \* mutant: rounds the cost down
  (c.vt * c.vc) \div (c.vt - q) - c.vc

QuoteExactOut(c, q) == MulDivCeil(c.vt, c.vc, c.vt - q) - c.vc

----------------------------------------------------------------------------
(* Selling. *)

CollateralLeft(c, t_in) == MulDivCeil(c.vc, c.vt, c.vt + t_in)

CollateralOut(c, t_in) == c.vc - CollateralLeft(c, t_in)

\* quote_sell answers CollateralOut, unless the pool does not have that much.
QuoteSellAccepted(c, t_in) ==
  /\ t_in > 0
  /\ c.vt + t_in <= AmountMax
  /\ CollateralOut(c, t_in) <= c.real_collateral

SellAccepted(c, t_in) ==
  /\ QuoteSellAccepted(c, t_in)
  /\ c.sale_reserve + t_in <= AmountMax

AfterSell_KeepsReserve(c, t_in) ==                \* mutant: tokens not put back
  [c EXCEPT !.vt = @ + t_in,
            !.vc = CollateralLeft(c, t_in),
            !.real_collateral = @ - CollateralOut(c, t_in)]

AfterSell(c, t_in) ==
  [c EXCEPT !.vt = @ + t_in,
            !.vc = CollateralLeft(c, t_in),
            !.sale_reserve = @ + t_in,
            !.real_collateral = @ - CollateralOut(c, t_in)]

----------------------------------------------------------------------------
(* Fees. *)

\* fee_on, rounded up against the payer; a rate of zero gives zero.
FeeOn(rate, amount) == MulDivCeil(amount, rate, RateOne)

\* What buy_fee leaves to price.
Effective(rate, amount) == amount - FeeOn(rate, amount)
=============================================================================
