---------------------------- MODULE CurveProofs ----------------------------
(***************************************************************************)
(* The bonding curve, for every curve, every fee and every order of        *)
(* trades: the pool of the library (CurvePool) keeps its books and can     *)
(* always buy back what it sold, and the sales of the program (CurveSale)  *)
(* stay backed by what their holdings have.                                *)
(***************************************************************************)
EXTENDS CurvePool, CurveSale, ArithmeticProofs

(* A fee is a natural number, and never more than the payment. *)
LEMMA FeeBounds ==
  ASSUME NEW rate \in 0..Cap, NEW payment \in Nat
  PROVE  FeeOn(rate, payment) \in 0..payment
  <1>1. RateOne \in Nat \ {0} /\ rate \in Nat /\ rate <= RateOne
    BY RateAssumption
  <1>2. payment * rate <= RateOne * payment
    BY <1>1
  <1>3. FeeOn(rate, payment) <= payment
    BY <1>1, <1>2, CeilLeast DEF FeeOn
  <1>4. QED
    BY <1>1, <1>3, CeilBounds DEF FeeOn

-----------------------------------------------------------------------------
(* The pool of the library. *)

Books == PoolTypeOK /\ BooksBalance

(* A curve just opened has its books in order. *)
LEMMA InitBooks == PoolInit => Books
  <1> SUFFICES ASSUME PoolInit PROVE Books
    OBVIOUS
  <1> PICK offer \in OfferedCurves : ValidCurve(offer) /\ curve = Opened(offer)
    BY DEF PoolInit
  <1>1. offer \in [vt: Amount, vc: Amount, sale_reserve: Amount]
    BY PoolAssumption
  <1>2. 0 \in Amount
    BY RateAssumption DEF Amount
  <1>3. PoolTypeOK
    BY <1>1, <1>2 DEF PoolInit, PoolTypeOK, Curve, Opened
  <1>4. BooksBalance
    <2>1. curve.vt \in Nat /\ curve.vc \in Nat /\ curve.sale_reserve \in Nat
      BY <1>1 DEF Opened, Amount
    <2>2. curve.real_collateral = 0 /\ opening = curve /\ sold = 0
      BY DEF PoolInit, Opened
    <2>3. curve.vt * curve.vc \in Nat
      BY <2>1
    <2>4. QED
      BY <2>1, <2>2, <2>3 DEF BooksBalance
  <1>5. QED
    BY <1>3, <1>4 DEF Books

(* A buy rounds to the pool. *)
LEMMA BuyKeepsBooks ==
  ASSUME Books, NEW c_in \in Nat, Buy(c_in)
  PROVE  Books'
  <1> DEFINE left == TokensLeft(curve, c_in)
             out  == TokensOut(curve, c_in)
  <1>1. /\ curve \in Curve /\ opening \in Curve /\ sold \in Amount
        /\ curve.vt \in Nat /\ curve.vc \in Nat /\ AmountMax \in Nat
    BY RateAssumption DEF Books, PoolTypeOK, Curve, Amount
  <1>2. c_in \in Nat \ {0}
    BY DEF Buy, BuyAccepted, QuoteBuyAccepted
  <1>3. left \in 0..curve.vt /\ curve.vt * curve.vc <= left * (curve.vc + c_in)
    BY <1>1, <1>2, Reserves DEF TokensLeft
  <1>4. out = curve.vt - left /\ out \in Nat
    BY <1>1, <1>3 DEF TokensOut
  <1>5. /\ curve'.vt = left
        /\ curve'.vc = curve.vc + c_in
        /\ curve'.sale_reserve = curve.sale_reserve - out
        /\ curve'.real_collateral = curve.real_collateral + c_in
        /\ sold' = sold + out /\ opening' = opening
    BY <1>1 DEF Buy, AfterBuy, Curve
  <1>6. /\ curve.vc + c_in <= AmountMax
        /\ curve.real_collateral + c_in <= AmountMax
        /\ out <= curve.sale_reserve
    BY DEF Buy, BuyAccepted, QuoteBuyAccepted
  <1> HIDE DEF left, out
  <1>7. curve' \in Curve /\ opening' \in Curve
    <2>1. /\ left \in Amount /\ curve.vc + c_in \in Amount
          /\ curve.sale_reserve - out \in Amount
          /\ curve.real_collateral + c_in \in Amount
      BY <1>1, <1>2, <1>3, <1>4, <1>6 DEF Curve, Amount
    <2>2. curve' = [curve EXCEPT !.vt = left, !.vc = @ + c_in,
                      !.sale_reserve = @ - out, !.real_collateral = @ + c_in]
      BY DEF Buy, AfterBuy, left, out
    <2>3. QED
      BY <1>1, <1>5, <2>1, <2>2 DEF Curve
  <1>8. BooksBalance'
    <2>1. /\ curve.vt + sold = opening.vt
          /\ curve.sale_reserve + sold = opening.sale_reserve
          /\ curve.vc = opening.vc + curve.real_collateral
          /\ curve.vt * curve.vc >= opening.vt * opening.vc
      BY DEF Books, BooksBalance
    <2>2. /\ sold \in Nat /\ curve.sale_reserve \in Nat /\ opening.vc \in Nat
          /\ curve.real_collateral \in Nat /\ opening.vt \in Nat
      BY <1>1 DEF Curve, Amount
    <2>3. /\ left + (sold + out) = opening.vt
          /\ (curve.sale_reserve - out) + (sold + out) = opening.sale_reserve
          /\ curve.vc + c_in = opening.vc + (curve.real_collateral + c_in)
      BY <1>1, <1>2, <1>3, <1>4, <2>1, <2>2
    <2>4. left * (curve.vc + c_in) >= opening.vt * opening.vc
      <3>1. /\ left * (curve.vc + c_in) \in Nat
            /\ curve.vt * curve.vc \in Nat /\ opening.vt * opening.vc \in Nat
        BY <1>1, <1>2, <1>3, <2>2
      <3>2. QED
        BY <1>3, <2>1, <3>1
    <2>5. QED
      BY <1>5, <2>3, <2>4 DEF BooksBalance
  <1>9. sold' \in Amount
    <2>1. curve'.vt + sold' = opening'.vt
      BY <1>8 DEF BooksBalance
    <2>2. sold' \in Nat /\ curve'.vt \in Nat /\ opening'.vt \in 0..AmountMax
      BY <1>1, <1>4, <1>5, <1>7 DEF Curve, Amount
    <2>3. QED
      BY <1>1, <2>1, <2>2 DEF Amount
  <1>10. QED
    BY <1>7, <1>8, <1>9 DEF Books, PoolTypeOK

(* A sale back rounds to the pool. *)
LEMMA SellKeepsBooks ==
  ASSUME Books, NEW t_in \in Nat, Sell(t_in)
  PROVE  Books'
  <1> DEFINE left == CollateralLeft(curve, t_in)
             out  == CollateralOut(curve, t_in)
  <1>1. /\ curve \in Curve /\ opening \in Curve /\ sold \in Amount
        /\ curve.vt \in Nat /\ curve.vc \in Nat /\ AmountMax \in Nat
    BY RateAssumption DEF Books, PoolTypeOK, Curve, Amount
  <1>2. t_in \in Nat \ {0} /\ t_in <= sold
    BY DEF Sell, SellAccepted, QuoteSellAccepted
  <1>3. left \in 0..curve.vc /\ curve.vc * curve.vt <= left * (curve.vt + t_in)
    BY <1>1, <1>2, Reserves DEF CollateralLeft
  <1>4. out = curve.vc - left /\ out \in Nat
    BY <1>1, <1>3 DEF CollateralOut
  <1>5. /\ curve'.vt = curve.vt + t_in
        /\ curve'.vc = left
        /\ curve'.sale_reserve = curve.sale_reserve + t_in
        /\ curve'.real_collateral = curve.real_collateral - out
        /\ sold' = sold - t_in /\ opening' = opening
    BY <1>1 DEF Sell, AfterSell, Curve
  <1>6. /\ curve.vt + t_in <= AmountMax
        /\ curve.sale_reserve + t_in <= AmountMax
        /\ out <= curve.real_collateral
    BY DEF Sell, SellAccepted, QuoteSellAccepted
  <1> HIDE DEF left, out
  <1>7. curve' \in Curve /\ opening' \in Curve
    <2>1. /\ left \in Amount /\ curve.vt + t_in \in Amount
          /\ curve.sale_reserve + t_in \in Amount
          /\ curve.real_collateral - out \in Amount
      BY <1>1, <1>2, <1>3, <1>4, <1>6 DEF Curve, Amount
    <2>2. curve' = [curve EXCEPT !.vt = @ + t_in, !.vc = left,
                      !.sale_reserve = @ + t_in, !.real_collateral = @ - out]
      BY DEF Sell, AfterSell, left, out
    <2>3. QED
      BY <1>1, <1>5, <2>1, <2>2 DEF Curve
  <1>8. BooksBalance'
    <2>1. /\ curve.vt + sold = opening.vt
          /\ curve.sale_reserve + sold = opening.sale_reserve
          /\ curve.vc = opening.vc + curve.real_collateral
          /\ curve.vt * curve.vc >= opening.vt * opening.vc
      BY DEF Books, BooksBalance
    <2>2. /\ sold \in Nat /\ curve.sale_reserve \in Nat /\ opening.vc \in Nat
          /\ curve.real_collateral \in Nat /\ opening.vt \in Nat
      BY <1>1 DEF Curve, Amount
    <2>3. /\ (curve.vt + t_in) + (sold - t_in) = opening.vt
          /\ (curve.sale_reserve + t_in) + (sold - t_in) = opening.sale_reserve
          /\ left = opening.vc + (curve.real_collateral - out)
      <3>1. curve.vt \in Int /\ sold \in Int /\ t_in \in Int /\ left \in Int /\ out \in Int
        BY <1>1, <1>2, <1>3, <1>4, <2>2
      <3>2. (curve.vt + t_in) + (sold - t_in) = opening.vt
        BY <2>1, <2>2, <3>1
      <3>3. (curve.sale_reserve + t_in) + (sold - t_in) = opening.sale_reserve
        BY <2>1, <2>2, <3>1
      <3>4. left = opening.vc + (curve.real_collateral - out)
        BY <1>1, <1>4, <2>1, <2>2, <3>1
      <3>5. QED
        BY <3>2, <3>3, <3>4
    <2>4. (curve.vt + t_in) * left >= opening.vt * opening.vc
      <3>1. /\ left * (curve.vt + t_in) \in Nat
            /\ curve.vt * curve.vc \in Nat /\ opening.vt * opening.vc \in Nat
            /\ left * (curve.vt + t_in) = (curve.vt + t_in) * left
            /\ curve.vt * curve.vc = curve.vc * curve.vt
        BY <1>1, <1>2, <1>3, <2>2
      <3>2. QED
        BY <1>3, <2>1, <3>1
    <2>5. QED
      BY <1>5, <2>3, <2>4 DEF BooksBalance
  <1>9. sold' \in Amount
    BY <1>1, <1>2, <1>5 DEF Amount
  <1>10. QED
    BY <1>7, <1>8, <1>9 DEF Books, PoolTypeOK

(* Every step keeps the books. *)
LEMMA NextKeepsBooks == Books /\ [PoolNext]_poolVars => Books'
  <1> SUFFICES ASSUME Books, [PoolNext]_poolVars PROVE Books'
    OBVIOUS
  <1>1. TradeMax \in Nat
    BY PoolAssumption DEF Amount
  <1>2. ASSUME NEW c_in \in 1..TradeMax, Buy(c_in) PROVE Books'
    BY <1>1, <1>2, BuyKeepsBooks
  <1>3. ASSUME NEW t_in \in 1..TradeMax, Sell(t_in) PROVE Books'
    BY <1>1, <1>3, SellKeepsBooks
  <1>4. CASE UNCHANGED poolVars
    BY <1>4 DEF poolVars, Books, PoolTypeOK, BooksBalance
  <1>5. QED
    BY <1>2, <1>3, <1>4 DEF PoolNext

(* The books balance in every state: tokens and collateral are conserved between
   the virtual and the real reserves, and the product k never falls below the one
   the curve opened with. *)
THEOREM BooksAlwaysBalance == PoolSpec => []BooksBalance
  <1>1. Books => BooksBalance
    BY DEF Books
  <1>2. QED
    BY <1>1, InitBooks, NextKeepsBooks, PTL DEF PoolSpec

(* The product kept and the books balanced, selling everything back brings the
   collateral no lower than it opened: quote_sell has enough for every holder. *)
THEOREM HoldersCanAlwaysLeave == PoolSpec => []HoldersCanLeave
  <1>1. ASSUME Books PROVE HoldersCanLeave
    <2> SUFFICES ASSUME NEW t_in \in 1..sold
                 PROVE  CollateralOut(curve, t_in) <= curve.real_collateral
      BY DEF HoldersCanLeave
    <2> DEFINE d    == curve.vt + t_in
               left == CollateralLeft(curve, t_in)
    <2>1. /\ curve.vt \in Nat /\ curve.vc \in Nat /\ sold \in Nat
          /\ opening.vt \in Nat /\ opening.vc \in Nat
          /\ curve.real_collateral \in Nat
      BY <1>1 DEF Books, PoolTypeOK, Curve, Amount
    <2>2. /\ curve.vt + sold = opening.vt
          /\ curve.vc = opening.vc + curve.real_collateral
          /\ curve.vt * curve.vc >= opening.vt * opening.vc
      BY <1>1 DEF Books, BooksBalance
    <2>3. t_in \in Nat \ {0} /\ d \in Nat \ {0} /\ d <= opening.vt
      BY <2>1, <2>2
    <2>4. left \in Nat /\ curve.vc * curve.vt <= d * left
      BY <2>1, <2>3, CeilBounds DEF CollateralLeft
    <2>5. CollateralOut(curve, t_in) = curve.vc - left
      BY DEF CollateralOut
    <2> HIDE DEF d, left
    <2>6. d * opening.vc <= opening.vt * opening.vc
      BY <2>1, <2>3
    <2>7. d * opening.vc <= d * left
      <3>1. /\ curve.vc * curve.vt = curve.vt * curve.vc
            /\ curve.vt * curve.vc \in Nat /\ opening.vt * opening.vc \in Nat
            /\ d * opening.vc \in Nat /\ d * left \in Nat
        BY <2>1, <2>3, <2>4
      <3>2. QED
        BY <2>2, <2>4, <2>6, <3>1
    <2>8. opening.vc <= left
      BY <2>1, <2>3, <2>4, <2>7, FactorAtMost
    <2>9. QED
      BY <2>1, <2>2, <2>4, <2>5, <2>8
  <1>2. QED
    BY <1>1, InitBooks, NextKeepsBooks, PTL DEF PoolSpec

(* The curve and the tokens sold stay amounts. *)
THEOREM PoolTypes == PoolSpec => []PoolTypeOK
  <1>1. Books => PoolTypeOK
    BY DEF Books
  <1>2. QED
    BY <1>1, InitBooks, NextKeepsBooks, PTL DEF PoolSpec

(* A payment buys q tokens exactly when its product with the tokens then left reaches
   k, which the ceiling of quote_buy_exact_out is the first to do; and the least such
   payment is accepted because it gets no more tokens than the one there is. *)
THEOREM QuoteAlwaysLeast == PoolSpec => []QuoteIsLeast
  <1> DEFINE Open == Books /\ ValidCurve(opening)
  <1>1. PoolInit => Open
    <2>1. PoolInit => ValidCurve(opening)
      BY DEF PoolInit, Opened, ValidCurve
    <2>2. QED
      BY <2>1, InitBooks
  <1>2. Open /\ [PoolNext]_poolVars => Open'
    <2>1. [PoolNext]_poolVars => opening' = opening
      BY DEF PoolNext, Buy, Sell, poolVars
    <2>2. QED
      BY <2>1, NextKeepsBooks DEF ValidCurve
  <1>3. ASSUME Open PROVE QuoteIsLeast
    <2> SUFFICES ASSUME NEW q \in 1..curve.sale_reserve, NEW c_in \in Amount, Buys(q, c_in)
                 PROVE  /\ ExactOutAccepted(curve, q)
                        /\ QuoteExactOut(curve, q) <= c_in
                        /\ Buys(q, QuoteExactOut(curve, q))
      BY DEF QuoteIsLeast
    <2> DEFINE a      == curve.vt
               b      == curve.vc
               target == MulDivCeil(a, b, a - q)
               cost   == target - b
               left   == TokensLeft(curve, c_in)
               least  == TokensLeft(curve, cost)
    <2>1. /\ a \in Nat /\ b \in Nat \ {0} /\ curve.sale_reserve \in Nat
          /\ curve.sale_reserve < a /\ curve.real_collateral \in Nat /\ c_in \in Nat
          /\ AmountMax \in Nat
      <3>1. /\ curve \in Curve /\ opening \in Curve /\ sold \in Nat
            /\ a + sold = opening.vt /\ curve.sale_reserve + sold = opening.sale_reserve
            /\ b = opening.vc + curve.real_collateral
            /\ opening.vt > opening.sale_reserve /\ opening.vc > 0
        BY <1>3 DEF Books, PoolTypeOK, BooksBalance, Amount, ValidCurve
      <3>2. QED
        BY <3>1, RateAssumption DEF Curve, Amount
    <2>2. q \in Nat \ {0} /\ q <= curve.sale_reserve /\ a - q \in Nat \ {0} /\ a \in Nat \ {0}
      BY <2>1
    <2>3. /\ c_in \in Nat \ {0} /\ b + c_in <= AmountMax
          /\ curve.real_collateral + c_in <= AmountMax
          /\ a - left <= curve.sale_reserve /\ a - left >= q
      BY <2>1 DEF Buys, BuyAccepted, QuoteBuyAccepted, TokensOut
    <2>4. left \in Nat /\ a * b <= (b + c_in) * left
      <3>1. b + c_in \in Nat \ {0} /\ left = MulDivCeil(a, b, b + c_in)
        BY <2>1, <2>3 DEF TokensLeft
      <3> HIDE DEF left
      <3>2. QED
        BY <2>1, <3>1, CeilBounds
    <2>5. a * b <= (a - q) * (b + c_in)
      <3>1. left <= a - q
        BY <2>1, <2>2, <2>3, <2>4
      <3>2. (b + c_in) * left <= (a - q) * (b + c_in)
        BY <2>1, <2>2, <2>3, <2>4, <3>1
      <3>3. /\ a * b \in Nat /\ (b + c_in) * left \in Nat
            /\ (a - q) * (b + c_in) \in Nat
        BY <2>1, <2>2, <2>3, <2>4
      <3>4. QED
        BY <2>4, <3>2, <3>3
    <2>6. target \in Nat /\ a * b <= (a - q) * target /\ target <= b + c_in
      <3>1. target \in Nat /\ a * b <= (a - q) * target
        BY <2>1, <2>2, CeilBounds
      <3>2. b + c_in \in Nat
        BY <2>1
      <3>3. target <= b + c_in
        BY <2>1, <2>2, <2>5, <3>2, CeilLeast
      <3>4. QED
        BY <3>1, <3>3
    <2>7. target > b
      <3>1. b < target \/ target <= b
        BY <2>1, <2>6
      <3>2. target <= b => (a - q) * target <= (a - q) * b
        BY <2>1, <2>2, <2>6
      <3>3. (a - q) * b < a * b /\ (a - q) * b \in Nat /\ a * b \in Nat /\ (a - q) * target \in Nat
        BY <2>1, <2>2, <2>6
      <3> HIDE DEF target
      <3>4. QED
        BY <2>6, <3>1, <3>2, <3>3
    <2>8. QuoteExactOut(curve, q) = cost
      BY DEF QuoteExactOut
    <2> HIDE DEF target
    <2>9. cost \in Nat \ {0} /\ cost <= c_in /\ b + cost = target
      BY <2>1, <2>3, <2>6, <2>7
    <2>10. least \in Nat /\ least <= a - q /\ a * b <= (b + cost) * least
      <3>1. least = MulDivCeil(a, b, target) /\ target \in Nat \ {0}
        BY <2>1, <2>6, <2>7, <2>9 DEF TokensLeft
      <3>2. a * b <= target * (a - q)
        BY <2>1, <2>2, <2>6
      <3> HIDE DEF least, cost
      <3>3. QED
        BY <2>1, <2>2, <2>9, <3>1, <3>2, CeilBounds, CeilLeast
    <2>11. left <= least
      <3>1. (b + cost) * least <= (b + c_in) * least
        BY <2>1, <2>3, <2>9, <2>10
      <3>2. /\ a * b \in Nat /\ (b + cost) * least \in Nat /\ (b + c_in) * least \in Nat
        BY <2>1, <2>3, <2>9, <2>10
      <3>3. a * b <= (b + c_in) * least
        BY <2>10, <3>1, <3>2
      <3> HIDE DEF least, cost
      <3>4. QED
        BY <2>1, <2>3, <2>10, <3>3, CeilLeast DEF TokensLeft
    <2>12. ExactOutAccepted(curve, q)
      BY <2>1, <2>2, <2>3, <2>6 DEF ExactOutAccepted, target
    <2>13. TokensOut(curve, cost) = a - least
      BY DEF TokensOut
    <2> HIDE DEF least, left, cost
    <2>14. Buys(q, cost)
      BY <2>1, <2>2, <2>3, <2>4, <2>6, <2>9, <2>10, <2>11, <2>13
      DEF Buys, BuyAccepted, QuoteBuyAccepted
    <2>15. QED
      BY <2>8, <2>9, <2>12, <2>14
  <1>4. QED
    BY <1>1, <1>2, <1>3, PTL DEF PoolSpec

-----------------------------------------------------------------------------
(* The sales of the program. *)

Backed == TypeOK /\ HoldingBacksSale

(* What a buy leaves of the sale it is made in. *)
Bought(s, payment) ==
  [AfterBuy(s, Priced(s.fee_rate, payment)) EXCEPT !.fees_accrued = Accrued(s, payment)]

(* A buy that is accepted leaves a well-formed sale, whose collateral and fee grow
   together by exactly the payment and whose product does not fall. *)
LEMMA BoughtSale ==
  ASSUME NEW s \in Sale, NEW payment \in Nat,
         BuyAccepted(s, Priced(s.fee_rate, payment)),
         Accrued(s, payment) <= AmountMax
  PROVE  /\ Bought(s, payment) \in Sale
         /\ Bought(s, payment).real_collateral + Bought(s, payment).fees_accrued
              = s.real_collateral + s.fees_accrued + payment
         /\ Bought(s, payment).fees_accrued <= s.fees_accrued + payment
         /\ Bought(s, payment).fees_accrued >= s.fees_accrued
         /\ s.vt * s.vc <= Bought(s, payment).vt * Bought(s, payment).vc
  <1> DEFINE fee  == FeeOn(s.fee_rate, payment)
             c_in == payment - fee
             left == TokensLeft(s, c_in)
             out  == TokensOut(s, c_in)
             b    == Bought(s, payment)
  <1>1. /\ s.vt \in Nat /\ s.vc \in Nat /\ s.fees_accrued \in Nat
        /\ s.real_collateral \in Nat /\ s.sale_reserve \in Nat
        /\ s.vt <= AmountMax /\ s.sale_reserve <= AmountMax
        /\ s.fee_rate \in 0..Cap /\ AmountMax \in Nat
    BY RateAssumption DEF Sale, Amount
  <1>2. fee \in 0..payment
    BY <1>1, FeeBounds
  <1>3. Priced(s.fee_rate, payment) = c_in
    BY DEF Priced, Effective
  <1>4. /\ c_in > 0 /\ s.vc + c_in <= AmountMax
        /\ s.real_collateral + c_in <= AmountMax /\ out <= s.sale_reserve
    BY <1>3 DEF BuyAccepted, QuoteBuyAccepted
  <1>5. c_in \in Nat \ {0}
    BY <1>2, <1>4
  <1>6. left \in 0..s.vt /\ s.vt * s.vc <= left * (s.vc + c_in)
    BY <1>1, <1>5, Reserves DEF TokensLeft
  <1>7. out = s.vt - left
    BY DEF TokensOut
  <1>8. s.fees_accrued + fee <= AmountMax
    BY DEF Accrued
  <1>9. b = [s EXCEPT !.vt = left, !.vc = @ + c_in, !.sale_reserve = @ - out,
                      !.real_collateral = @ + c_in, !.fees_accrued = s.fees_accrued + fee]
    BY <1>3 DEF Bought, AfterBuy, Accrued, Sale
  <1> HIDE DEF fee, c_in, left, out, b
  <1>10. /\ b.vt = left /\ b.vc = s.vc + c_in
         /\ b.real_collateral = s.real_collateral + c_in
         /\ b.fees_accrued = s.fees_accrued + fee
    BY <1>9 DEF Sale
  <1>11. b \in Sale
    <2>1. /\ left \in Amount /\ s.vc + c_in \in Amount /\ s.sale_reserve - out \in Amount
          /\ s.real_collateral + c_in \in Amount /\ s.fees_accrued + fee \in Amount
      BY <1>1, <1>2, <1>4, <1>5, <1>6, <1>7, <1>8 DEF Amount
    <2>2. QED
      BY <1>9, <2>1 DEF Sale
  <1>12. c_in = payment - fee
    BY DEF c_in
  <1>13. QED
    BY <1>1, <1>2, <1>6, <1>10, <1>11, <1>12 DEF b

(* No sale, nothing to back. *)
LEMMA InitBacked == Init => Backed
  BY SaleAssumption DEF Init, Backed, TypeOK, HoldingBacksSale, Exists

(* A sale opens with nothing raised. *)
LEMMA CreateKeepsBacked ==
  ASSUME Backed, NEW id \in Id, NEW terms \in OfferedTerms, CreateSale(id, terms)
  PROVE  Backed'
  <1> DEFINE s == [vt |-> terms.vt, vc |-> terms.vc, sale_reserve |-> terms.sale_reserve,
                   real_collateral |-> 0, creator |-> terms.creator,
                   fee_treasury |-> terms.fee_treasury, fee_rate |-> terms.fee_rate,
                   fees_accrued |-> 0]
  <1>1. terms \in Terms
    BY SaleAssumption
  <1>2. s \in Sale
    BY <1>1, RateAssumption DEF CreateSale, RateAllowed, Terms, Sale, Amount
  <1>3. sale' = [sale EXCEPT ![id] = s] /\ held' = held /\ balance' = balance
    BY DEF CreateSale
  <1>4. Backing(s) = 0
    BY DEF Backing
  <1> HIDE DEF s
  <1>5. TypeOK'
    BY <1>2, <1>3 DEF Backed, TypeOK
  <1>6. ASSUME NEW x \in Id, Exists(x)' PROVE held'[x] >= Backing(sale'[x])
    <2>1. CASE x = id
      BY <1>3, <1>4, <2>1 DEF Backed, TypeOK
    <2>2. CASE x # id
      BY <1>3, <1>6, <2>2 DEF Backed, TypeOK, HoldingBacksSale, Exists
    <2>3. QED
      BY <2>1, <2>2
  <1>7. QED
    BY <1>5, <1>6 DEF Backed, HoldingBacksSale

(* A purchase pays in its collateral and its fee. *)
LEMMA BuyKeepsBacked ==
  ASSUME Backed, NEW id \in Id, NEW buyer \in Buyer, NEW payment \in Nat,
         ExecuteBuy(id, buyer, payment)
  PROVE  /\ Backed'
         /\ sale[id].vt * sale[id].vc <= sale'[id].vt * sale'[id].vc
         /\ sale[id].fees_accrued <= sale'[id].fees_accrued
         /\ sale' = [sale EXCEPT ![id] = Bought(sale[id], payment)]
  <1> DEFINE s == sale[id]
             b == Bought(s, payment)
  <1>1. s \in Sale /\ held[id] \in Nat /\ buyer \in Account
    BY SaleAssumption DEF Backed, TypeOK, ExecuteBuy, Exists
  <1>2. /\ BuyAccepted(s, Priced(s.fee_rate, payment))
        /\ Accrued(s, payment) <= AmountMax
        /\ payment <= balance[buyer]
        /\ s.sale_reserve # 0
    BY DEF ExecuteBuy, Closed
  <1>3. /\ sale' = [sale EXCEPT ![id] = b]
        /\ held' = [held EXCEPT ![id] = @ + payment]
        /\ balance' = [balance EXCEPT ![buyer] = @ - payment]
    BY <1>1 DEF ExecuteBuy, Bought, Backed, TypeOK
  <1>4. /\ b \in Sale
        /\ b.real_collateral + b.fees_accrued = s.real_collateral + s.fees_accrued + payment
        /\ b.fees_accrued <= s.fees_accrued + payment
        /\ b.fees_accrued >= s.fees_accrued
        /\ s.vt * s.vc <= b.vt * b.vc
    BY <1>1, <1>2, BoughtSale
  <1>5. held[id] >= s.real_collateral + s.fees_accrued
    BY <1>2 DEF Backed, HoldingBacksSale, Backing, ExecuteBuy
  <1>6. sale'[id] = b /\ held'[id] = held[id] + payment
    BY <1>1, <1>3 DEF Backed, TypeOK
  <1>7. /\ s.real_collateral \in Nat /\ s.fees_accrued \in Nat
        /\ b.real_collateral \in Nat /\ b.fees_accrued \in Nat
    BY <1>1, <1>4 DEF Sale, Amount
  <1> HIDE DEF b
  <1>8. held'[id] >= Backing(b)
    BY <1>1, <1>4, <1>5, <1>6, <1>7 DEF Backing
  <1>9. TypeOK'
    <2>1. sale' \in [Id -> Sale \cup {NoSale}]
      BY <1>3, <1>4 DEF Backed, TypeOK
    <2>2. held' \in [Id -> Nat]
      BY <1>1, <1>3 DEF Backed, TypeOK
    <2>3. balance[buyer] - payment \in Nat
      BY <1>1, <1>2 DEF Backed, TypeOK
    <2>4. balance' \in [Account -> Nat]
      BY <1>1, <1>3, <2>3 DEF Backed, TypeOK
    <2>5. QED
      BY <2>1, <2>2, <2>4 DEF TypeOK
  <1>10. ASSUME NEW x \in Id, Exists(x)' PROVE held'[x] >= Backing(sale'[x])
    <2>1. CASE x = id
      BY <1>6, <1>8, <2>1
    <2>2. CASE x # id
      BY <1>3, <1>10, <2>2 DEF Backed, TypeOK, HoldingBacksSale, Exists
    <2>3. QED
      BY <2>1, <2>2
  <1>11. QED
    BY <1>3, <1>4, <1>6, <1>9, <1>10 DEF Backed, HoldingBacksSale, b

(* A sweep pays out the fee and no more. *)
LEMMA CollectKeepsBacked ==
  ASSUME Backed, NEW id \in Id, CollectFees(id)
  PROVE  Backed'
  <1> DEFINE s == sale[id]
             w == Swept(s)
  <1>1. s \in Sale /\ held[id] \in Nat
    BY DEF Backed, TypeOK, CollectFees, Exists
  <1>2. /\ s.fees_accrued \in Nat /\ s.real_collateral \in Nat
        /\ s.fee_treasury \in Account /\ s.fees_accrued <= held[id]
    BY <1>1 DEF Sale, Amount, CollectFees
  <1>3. /\ sale' = [sale EXCEPT ![id] = w]
        /\ held' = [held EXCEPT ![id] = @ - s.fees_accrued]
        /\ balance' = [balance EXCEPT ![s.fee_treasury] = @ + s.fees_accrued]
    BY DEF CollectFees
  <1>4. /\ w \in Sale /\ w.fees_accrued = 0 /\ w.sale_reserve = s.sale_reserve
        /\ w.real_collateral = s.real_collateral
    BY <1>1, RateAssumption DEF Swept, Sale, Amount
  <1>5. held[id] >= Backing(s)
    BY DEF Backed, HoldingBacksSale, CollectFees
  <1>6. held[id] - s.fees_accrued >= Backing(w)
    BY <1>1, <1>2, <1>4, <1>5 DEF Backing
  <1>7. sale'[id] = w /\ held'[id] = held[id] - s.fees_accrued
    BY <1>1, <1>3 DEF Backed, TypeOK
  <1>8. balance[s.fee_treasury] + s.fees_accrued \in Nat
    BY <1>2 DEF Backed, TypeOK
  <1> HIDE DEF w
  <1>9. TypeOK'
    BY <1>1, <1>2, <1>3, <1>4, <1>8 DEF Backed, TypeOK
  <1>10. ASSUME NEW x \in Id, Exists(x)' PROVE held'[x] >= Backing(sale'[x])
    <2>1. CASE x = id
      BY <1>6, <1>7, <2>1
    <2>2. CASE x # id
      BY <1>3, <1>10, <2>2 DEF Backed, TypeOK, HoldingBacksSale, Exists
    <2>3. QED
      BY <2>1, <2>2
  <1>11. QED
    BY <1>9, <1>10 DEF Backed, HoldingBacksSale

(* A withdrawal leaves the fee. *)
LEMMA WithdrawKeepsBacked ==
  ASSUME Backed, NEW id \in Id, Withdraw(id)
  PROVE  Backed'
  <1> DEFINE s == sale[id]
             p == Payable(id)
  <1>1. s \in Sale /\ held[id] \in Nat
    BY DEF Backed, TypeOK, Withdraw, Exists
  <1>2. s.fees_accrued \in Nat /\ s.creator \in Account /\ s.sale_reserve = 0
    BY <1>1 DEF Sale, Amount, Withdraw, MayWithdraw, Closed
  <1>3. p = held[id] - s.fees_accrued /\ p > 0
    BY DEF Payable, Withdraw
  <1>4. /\ sale' = sale
        /\ held' = [held EXCEPT ![id] = @ - p]
        /\ balance' = [balance EXCEPT ![s.creator] = @ + p]
    BY DEF Withdraw
  <1>5. held'[id] = s.fees_accrued
    BY <1>1, <1>2, <1>3, <1>4 DEF Backed, TypeOK
  <1>6. p \in Nat /\ held[id] - p \in Nat /\ balance[s.creator] + p \in Nat
    BY <1>1, <1>2, <1>3 DEF Backed, TypeOK
  <1> HIDE DEF p
  <1>7. TypeOK'
    BY <1>1, <1>2, <1>4, <1>6 DEF Backed, TypeOK
  <1>8. ASSUME NEW x \in Id, Exists(x)' PROVE held'[x] >= Backing(sale'[x])
    <2>1. CASE x = id
      BY <1>2, <1>4, <1>5, <2>1 DEF Backing
    <2>2. CASE x # id
      BY <1>4, <1>8, <2>2 DEF Backed, TypeOK, HoldingBacksSale, Exists
    <2>3. QED
      BY <2>1, <2>2
  <1>9. QED
    BY <1>7, <1>8 DEF Backed, HoldingBacksSale

(* A deposit only adds. *)
LEMMA DepositKeepsBacked ==
  ASSUME Backed, NEW id \in Id, NEW from \in Buyer, NEW amount \in Nat,
         Deposit(from, id, amount)
  PROVE  Backed'
  <1>1. held[id] \in Nat /\ from \in Account /\ sale[id] \in Sale
    BY SaleAssumption DEF Backed, TypeOK, Deposit, Exists
  <1>2. /\ sale' = sale
        /\ held' = [held EXCEPT ![id] = @ + amount]
        /\ balance' = [balance EXCEPT ![from] = @ - amount]
        /\ balance[from] - amount \in Nat
    BY <1>1 DEF Deposit, Backed, TypeOK
  <1>3. TypeOK'
    BY <1>1, <1>2 DEF Backed, TypeOK
  <1>4. ASSUME NEW x \in Id, Exists(x)' PROVE held'[x] >= Backing(sale'[x])
    <2>1. sale[x] \in Sale /\ held[x] >= Backing(sale[x])
      BY <1>2, <1>4 DEF Backed, TypeOK, HoldingBacksSale, Exists
    <2>2. Backing(sale[x]) \in Nat
      BY <2>1 DEF Backing, Sale, Amount
    <2>3. held[x] \in Nat /\ held'[x] >= held[x]
      BY <1>1, <1>2 DEF Backed, TypeOK
    <2>4. held'[x] \in Nat
      BY <1>3 DEF TypeOK
    <2>5. QED
      BY <1>2, <2>1, <2>2, <2>3, <2>4
  <1>5. QED
    BY <1>3, <1>4 DEF Backed, HoldingBacksSale

(* Every step keeps the types and the backing. *)
LEMMA NextKeepsBacked == Backed /\ [Next]_vars => Backed'
  <1> SUFFICES ASSUME Backed, [Next]_vars PROVE Backed'
    OBVIOUS
  <1>1. ASSUME NEW id \in Id, NEW terms \in OfferedTerms, CreateSale(id, terms)
        PROVE  Backed'
    BY <1>1, CreateKeepsBacked
  <1>2. ASSUME NEW id \in Id, NEW buyer \in Buyer, NEW payment \in 1..PaymentMax,
               ExecuteBuy(id, buyer, payment)
        PROVE  Backed'
    <2>1. payment \in Nat
      BY SaleAssumption
    <2>2. QED
      BY <1>2, <2>1, BuyKeepsBacked
  <1>3. ASSUME NEW id \in Id, CollectFees(id) PROVE Backed'
    BY <1>3, CollectKeepsBacked
  <1>4. ASSUME NEW id \in Id, Withdraw(id) PROVE Backed'
    BY <1>4, WithdrawKeepsBacked
  <1>5. ASSUME NEW id \in Id, NEW from \in Buyer, NEW amount \in 1..GiftMax,
               Deposit(from, id, amount)
        PROVE  Backed'
    <2>1. amount \in Nat
      BY SaleAssumption
    <2>2. QED
      BY <1>5, <2>1, DepositKeepsBacked
  <1>6. CASE UNCHANGED vars
    BY <1>6 DEF vars, Backed, TypeOK, HoldingBacksSale, Exists
  <1>7. QED
    BY <1>1, <1>2, <1>3, <1>4, <1>5, <1>6 DEF Next

(* The books of every sale, whatever order its instructions run in. *)
LEMMA AlwaysBacked == Spec => []Backed
  BY InitBacked, NextKeepsBacked, PTL DEF Spec

(* The sales, the holdings and the balances keep their types. *)
THEOREM SaleTypes == Spec => []TypeOK
  <1>1. Backed => TypeOK
    BY DEF Backed
  <1>2. QED
    BY <1>1, AlwaysBacked, PTL

(* However buys, sweeps, withdrawals and outside deposits interleave, each
   holding keeps what backs its sale. *)
THEOREM HoldingAlwaysBacks == Spec => []HoldingBacksSale
  <1>1. Backed => HoldingBacksSale
    BY DEF Backed
  <1>2. QED
    BY <1>1, AlwaysBacked, PTL

(* No step lowers the product of a sale's virtual reserves. *)
THEOREM ProductKept == Spec => ProductNeverFalls
  <1> DEFINE Kept == \A id \in Id : Exists(id) =>
                       sale[id].vt * sale[id].vc <= sale'[id].vt * sale'[id].vc
  <1>1. ASSUME Backed, [Next]_vars PROVE Kept
    <2> SUFFICES ASSUME NEW id \in Id, Exists(id)
                 PROVE  sale[id].vt * sale[id].vc <= sale'[id].vt * sale'[id].vc
      OBVIOUS
    <2>1. sale[id] \in Sale /\ sale \in [Id -> Sale \cup {NoSale}]
      BY <1>1 DEF Backed, TypeOK, Exists
    <2>2. sale[id].vt * sale[id].vc \in Nat
      BY <2>1 DEF Sale, Amount
    <2>3. CASE sale'[id] = sale[id]
      BY <2>2, <2>3
    <2>4. ASSUME NEW x \in Id, NEW terms \in OfferedTerms, CreateSale(x, terms)
          PROVE  sale'[id] = sale[id]
      BY <2>1, <2>4 DEF CreateSale, Exists
    <2>5. ASSUME NEW x \in Id, NEW buyer \in Buyer, NEW payment \in 1..PaymentMax,
                 ExecuteBuy(x, buyer, payment)
          PROVE  sale[id].vt * sale[id].vc <= sale'[id].vt * sale'[id].vc
      <3>1. payment \in Nat
        BY SaleAssumption
      <3>2. CASE x = id
        BY <1>1, <2>5, <3>1, <3>2, BuyKeepsBacked
      <3>3. CASE x # id
        <4>1. sale'[id] = sale[id]
          BY <2>1, <2>5, <3>3 DEF ExecuteBuy
        <4>2. QED
          BY <2>3, <4>1
      <3>4. QED
        BY <3>2, <3>3
    <2>6. ASSUME NEW x \in Id, CollectFees(x)
          PROVE  sale[id].vt * sale[id].vc <= sale'[id].vt * sale'[id].vc
      <3>1. sale' = [sale EXCEPT ![x] = Swept(sale[x])]
        BY <2>6 DEF CollectFees
      <3>2. sale'[id].vt = sale[id].vt /\ sale'[id].vc = sale[id].vc
        BY <2>1, <3>1 DEF Swept, Sale
      <3>3. QED
        BY <2>2, <3>2
    <2>7. ASSUME NEW x \in Id, Withdraw(x) PROVE sale'[id] = sale[id]
      BY <2>7 DEF Withdraw
    <2>8. ASSUME NEW x \in Id, NEW from \in Buyer, NEW amount \in 1..GiftMax,
                 Deposit(from, x, amount)
          PROVE  sale'[id] = sale[id]
      BY <2>8 DEF Deposit
    <2>9. CASE UNCHANGED vars
      BY <2>3, <2>9 DEF vars
    <2>10. QED
      BY <1>1, <2>3, <2>4, <2>5, <2>6, <2>7, <2>8, <2>9 DEF Next
  <1>2. Backed /\ [Next]_vars => [Kept]_vars
    BY <1>1
  <1>3. QED
    BY <1>2, AlwaysBacked, PTL DEF Spec, ProductNeverFalls

(* What a sale owes and has paid its treasury never shrinks: a purchase adds to
   the fee, a sweep moves it, and nothing else takes it. *)
THEOREM RevenueAlwaysKept == Spec => RevenueKept
  <1> DEFINE Kept ==
        \A id \in Id :
          Exists(id) /\ sale[id].fee_treasury \notin Buyer =>
            sale[id].fees_accrued + balance[sale[id].fee_treasury]
              <= sale'[id].fees_accrued + balance'[sale[id].fee_treasury]
  <1>1. ASSUME Backed, [Next]_vars PROVE Kept
    <2> SUFFICES ASSUME NEW id \in Id, Exists(id), sale[id].fee_treasury \notin Buyer
                 PROVE  sale[id].fees_accrued + balance[sale[id].fee_treasury]
                          <= sale'[id].fees_accrued + balance'[sale[id].fee_treasury]
      OBVIOUS
    <2> DEFINE t == sale[id].fee_treasury
    <2>1. /\ sale \in [Id -> Sale \cup {NoSale}] /\ balance \in [Account -> Nat]
          /\ held \in [Id -> Nat]
      BY <1>1 DEF Backed, TypeOK
    <2>2. /\ sale[id] \in Sale /\ t \in Account /\ t \notin Buyer
          /\ sale[id].fees_accrued \in Nat /\ balance[t] \in Nat
      BY <2>1 DEF Exists, Sale, Amount
    <2>3. ASSUME sale'[id].fees_accrued \in Nat, balance'[t] \in Nat,
                 sale[id].fees_accrued <= sale'[id].fees_accrued,
                 balance[t] <= balance'[t]
          PROVE  sale[id].fees_accrued + balance[t] <= sale'[id].fees_accrued + balance'[t]
      BY <2>2, <2>3
    <2>4. ASSUME NEW x \in Id, NEW terms \in OfferedTerms, CreateSale(x, terms)
          PROVE  sale[id].fees_accrued + balance[t] <= sale'[id].fees_accrued + balance'[t]
      <3>1. sale'[id] = sale[id] /\ balance' = balance
        BY <2>1, <2>4 DEF CreateSale, Exists
      <3>2. QED
        BY <2>2, <2>3, <3>1
    <2>5. ASSUME NEW x \in Id, NEW buyer \in Buyer, NEW payment \in 1..PaymentMax,
                 ExecuteBuy(x, buyer, payment)
          PROVE  sale[id].fees_accrued + balance[t] <= sale'[id].fees_accrued + balance'[t]
      <3>1. balance' = [balance EXCEPT ![buyer] = @ - payment]
        BY <2>5 DEF ExecuteBuy
      <3>2. balance'[t] = balance[t]
        BY <2>1, <2>2, <3>1
      <3>3. /\ Backed' /\ sale[x].fees_accrued <= sale'[x].fees_accrued
            /\ sale' = [sale EXCEPT ![x] = Bought(sale[x], payment)]
        <4>1. payment \in Nat
          BY SaleAssumption
        <4>2. QED
          BY <1>1, <2>5, <4>1, BuyKeepsBacked
      <3>4. x # id => sale'[id] = sale[id]
        BY <2>1, <3>3
      <3>5. sale[id].fees_accrued <= sale'[id].fees_accrued
        BY <2>2, <3>3, <3>4
      <3>6. sale'[id].fees_accrued \in Nat
        <4>1. CASE x = id
          <5>1. payment \in Nat
            BY SaleAssumption
          <5>2. Bought(sale[id], payment) \in Sale
            BY <2>2, <2>5, <4>1, <5>1, BoughtSale DEF ExecuteBuy
          <5>3. QED
            BY <2>1, <3>3, <4>1, <5>2 DEF Sale, Amount
        <4>2. CASE x # id
          BY <2>2, <3>4, <4>2
        <4>3. QED
          BY <4>1, <4>2
      <3>7. QED
        BY <2>2, <2>3, <3>2, <3>5, <3>6
    <2>6. ASSUME NEW x \in Id, CollectFees(x)
          PROVE  sale[id].fees_accrued + balance[t] <= sale'[id].fees_accrued + balance'[t]
      <3> DEFINE swept == sale[x].fees_accrued
                 u     == sale[x].fee_treasury
      <3>1. /\ sale' = [sale EXCEPT ![x] = Swept(sale[x])]
            /\ balance' = [balance EXCEPT ![u] = @ + swept]
            /\ sale[x] \in Sale
        BY <2>1, <2>6 DEF CollectFees, Exists
      <3>2. swept \in Nat /\ u \in Account
        BY <3>1 DEF Sale, Amount
      <3>3. CASE x = id
        <4>1. sale'[id].fees_accrued = 0
          BY <2>1, <3>1, <3>3 DEF Swept, Sale
        <4>2. balance'[t] = balance[t] + sale[id].fees_accrued
          BY <2>1, <2>2, <3>1, <3>3
        <4>3. QED
          BY <2>2, <4>1, <4>2
      <3>4. CASE x # id
        <4>1. sale'[id] = sale[id]
          BY <2>1, <3>1, <3>4
        <4>2. balance[t] <= balance'[t] /\ balance'[t] \in Nat
          BY <2>1, <2>2, <3>1, <3>2
        <4>3. QED
          BY <2>2, <2>3, <4>1, <4>2
      <3>5. QED
        BY <3>3, <3>4
    <2>7. ASSUME NEW x \in Id, Withdraw(x)
          PROVE  sale[id].fees_accrued + balance[t] <= sale'[id].fees_accrued + balance'[t]
      <3>1. /\ sale' = sale /\ Payable(x) > 0
            /\ balance' = [balance EXCEPT ![sale[x].creator] = @ + Payable(x)]
            /\ sale[x] \in Sale
        BY <2>1, <2>7 DEF Withdraw, Exists
      <3>2. Payable(x) \in Nat
        BY <2>1, <3>1 DEF Payable, Sale, Amount
      <3>3. balance[t] <= balance'[t] /\ balance'[t] \in Nat
        BY <2>1, <2>2, <3>1, <3>2
      <3>4. QED
        BY <2>2, <2>3, <3>1, <3>3
    <2>8. ASSUME NEW x \in Id, NEW from \in Buyer, NEW amount \in 1..GiftMax,
                 Deposit(from, x, amount)
          PROVE  sale[id].fees_accrued + balance[t] <= sale'[id].fees_accrued + balance'[t]
      <3>1. sale' = sale /\ balance'[t] = balance[t]
        BY <2>1, <2>2, <2>8 DEF Deposit
      <3>2. QED
        BY <2>2, <2>3, <3>1
    <2>9. CASE UNCHANGED vars
      BY <2>2, <2>3, <2>9 DEF vars
    <2>10. QED
      BY <1>1, <2>4, <2>5, <2>6, <2>7, <2>8, <2>9 DEF Next
  <1>2. Backed /\ [Next]_vars => [Kept]_vars
    BY <1>1
  <1>3. QED
    BY <1>2, AlwaysBacked, PTL DEF Spec, RevenueKept
=============================================================================
