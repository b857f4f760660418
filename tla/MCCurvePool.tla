---------------------------- MODULE MCCurvePool ----------------------------
(* Small instances of CurvePool: a cheap token, a dear one, and curves that  *)
(* Curve::new refuses.                                                       *)
EXTENDS CurvePool

Offer(vt, vc, reserve) == [vt |-> vt, vc |-> vc, sale_reserve |-> reserve]

MCOfferedCurves ==
  {Offer(23, 7, 15), Offer(7, 23, 5), Offer(40, 3, 30),
   Offer(5, 4, 5), Offer(0, 4, 0), Offer(9, 0, 4)}
=============================================================================
