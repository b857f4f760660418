----------------------------- MODULE MCWideMath -----------------------------
(* All words of four bits: every product, and every divisor, the ones with the *)
(* top bit set included.                                                       *)
EXTENDS WideMath

MCTwo == [n \in 0..Width |-> 2^n]
=============================================================================
