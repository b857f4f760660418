------------------------------- MODULE MCLbp -------------------------------
(* Small instances of Lbp: a falling, a rising and a fixed weight, and terms *)
(* the program refuses.                                                      *)
EXTENDS Lbp

CONSTANTS creator, buyer, protocol, p1

Offer(token, collateral, w_start, w_end, t_end, rate) ==
  [reserve_token |-> token, reserve_collateral |-> collateral,
   w_start |-> w_start, w_end |-> w_end, t_start |-> 1, t_end |-> t_end,
   creator |-> creator, fee_treasury |-> protocol, fee_rate |-> rate]

RefusedTerms ==
  {Offer(9, 2, 6, 2, 1, 1), Offer(9, 0, 6, 2, 5, 1), Offer(9, 2, 6, 2, 5, Cap + 1)}

MCTerms ==
  {Offer(20, 3, 6, 2, 4, 1), Offer(12, 3, 3, 5, 4, 0),
   Offer(8, 2, 4, 4, 4, 1)} \cup RefusedTerms

MCBalance == [a \in Account |-> IF a = buyer THEN 8 ELSE 0]
=============================================================================
