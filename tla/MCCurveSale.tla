---------------------------- MODULE MCCurveSale ----------------------------
(* Small instances of CurveSale: a fee of a fifth that rounding makes felt,  *)
(* a sale without a fee, and terms the program refuses.                      *)
EXTENDS CurveSale

CONSTANTS creator, buyer, protocol, s1, s2

Offer(vt, vc, reserve, treasury, rate) ==
  [vt |-> vt, vc |-> vc, sale_reserve |-> reserve, creator |-> creator,
   fee_treasury |-> treasury, fee_rate |-> rate]

RefusedTerms ==
  {Offer(4, 4, 4, protocol, 1), Offer(8, 0, 4, protocol, 1), Offer(8, 4, 4, protocol, Cap + 1)}

MCTerms ==
  {Offer(12, 4, 8, protocol, 2), Offer(8, 6, 3, creator, 0)} \cup RefusedTerms

\* One unit of collateral buys sixteen of this token.
CheapToken == {Offer(100, 5, 50, protocol, 1)}

MCBalance == [a \in Account |-> IF a = buyer THEN 14 ELSE 0]
=============================================================================
