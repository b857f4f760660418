------------------------------ MODULE CurvePool ------------------------------
(***************************************************************************)
(* The bonding curve of the library (src/lib.rs, Curve) between traders    *)
(* who buy from it and sell back to it in any order.                       *)
(***************************************************************************)
EXTENDS CurveMath

CONSTANTS
  OfferedCurves,  \* the parameters pools are opened with
  TradeMax        \* bound: the largest amount one trade names

VARIABLES
  curve,    \* the Curve
  opening,  \* the curve as it was opened
  sold      \* tokens bought and not sold back

poolVars == <<curve, opening, sold>>

Curve == [vt: Amount, vc: Amount, sale_reserve: Amount, real_collateral: Amount]

ASSUME PoolAssumption ==
  /\ OfferedCurves \subseteq [vt: Amount, vc: Amount, sale_reserve: Amount]
  /\ TradeMax \in Amount

Opened(offer) ==
  [vt |-> offer.vt, vc |-> offer.vc, sale_reserve |-> offer.sale_reserve,
   real_collateral |-> 0]

PoolInit ==
  /\ \E offer \in OfferedCurves : ValidCurve(offer) /\ curve = Opened(offer)
  /\ opening = curve
  /\ sold = 0

Buy(c_in) ==
  /\ BuyAccepted(curve, c_in)
  /\ curve' = AfterBuy(curve, c_in)
  /\ sold' = sold + TokensOut(curve, c_in)
  /\ UNCHANGED opening

\* Traders can only sell what they hold; the library leaves that to its caller.
Sell(t_in) ==
  /\ t_in <= sold
  /\ SellAccepted(curve, t_in)
  /\ curve' = AfterSell(curve, t_in)
  /\ sold' = sold - t_in
  /\ UNCHANGED opening

PoolNext ==
  \/ \E c_in \in 1..TradeMax : Buy(c_in)
  \/ \E t_in \in 1..TradeMax : Sell(t_in)

PoolSpec == PoolInit /\ [][PoolNext]_poolVars

----------------------------------------------------------------------------
(* Correctness. *)

\* The curve and the tokens sold are amounts.
PoolTypeOK == curve \in Curve /\ opening \in Curve /\ sold \in Amount

\* Whatever was traded, the pool can buy back every token it sold, at once or in
\* part: quote_sell never refuses a holder for lack of real collateral.
HoldersCanLeave ==
  \A t_in \in 1..sold : CollateralOut(curve, t_in) <= curve.real_collateral

\* A payment that buy accepts and that gets at least q tokens.
Buys(q, c_in) == BuyAccepted(curve, c_in) /\ TokensOut(curve, c_in) >= q

\* Whenever some payment buys at least q tokens, quote_buy_exact_out answers, and
\* what it answers is the least such payment: rounding one unit to either side
\* would name a price that buys too little, or a dearer one.
QuoteIsLeast ==
  \A q \in 1..curve.sale_reserve, c_in \in Amount :
    Buys(q, c_in) =>
      /\ ExactOutAccepted(curve, q)
      /\ QuoteExactOut(curve, q) <= c_in
      /\ Buys(q, QuoteExactOut(curve, q))

\* The pool's books: both virtual reserves move only with the real ones, and no
\* trade lets the product k, which the code never forms, fall.
BooksBalance ==
  /\ curve.vt + sold = opening.vt
  /\ curve.sale_reserve + sold = opening.sale_reserve
  /\ curve.vc = opening.vc + curve.real_collateral
  /\ curve.vt * curve.vc >= opening.vt * opening.vc
=============================================================================
