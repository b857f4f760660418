----------------------------- MODULE LbpProofs -----------------------------
(***************************************************************************)
(* Safety of the liquidity bootstrapping pool, for every scale, every      *)
(* terms pools are created with, every payment and every time callers      *)
(* name.                                                                   *)
(*                                                                         *)
(* The types are inductive by themselves, whatever the kernel returns      *)
(* between zero and one; the money is conserved because every transaction  *)
(* moves what it takes, counted with the sums of ArithmeticProofs.         *)
(***************************************************************************)
EXTENDS Lbp, ArithmeticProofs

-----------------------------------------------------------------------------
(* Weights and prices. *)

Rises(p) == p.w_end >= p.w_start

(* A weight lies between the ends of the sale... *)
LEMMA WeightBounds ==
  ASSUME NEW p \in Pool, NEW t \in Time
  PROVE  /\ WeightAt(p, t) \in Nat
         /\ IF Rises(p) THEN WeightAt(p, t) \in p.w_start..p.w_end
                        ELSE WeightAt(p, t) \in p.w_end..p.w_start
  <1>1. /\ p.w_start \in Nat /\ p.w_end \in Nat
        /\ p.t_start \in Nat /\ p.t_end \in Nat /\ t \in Nat
    BY ScaleAssumption, PoolAssumption DEF Pool, Amount, Time
  <1>2. CASE t <= p.t_start \/ t >= p.t_end
    BY <1>1, <1>2 DEF WeightAt, Rises
  <1>3. CASE t > p.t_start /\ t < p.t_end
    <2> DEFINE e == t - p.t_start
               s == p.t_end - p.t_start
    <2>1. e \in Nat /\ s \in Nat \ {0} /\ e <= s
      BY <1>1, <1>3
    <2>2. CASE Rises(p)
      <3>1. p.w_end - p.w_start \in Nat
        BY <1>1, <2>2 DEF Rises
      <3>2. MulDivFloor(p.w_end - p.w_start, e, s) \in 0..(p.w_end - p.w_start)
        BY <2>1, <3>1, ShareBounds
      <3>3. WeightAt(p, t) = p.w_start + MulDivFloor(p.w_end - p.w_start, e, s)
        BY <1>1, <1>3, <2>2 DEF WeightAt, Rises
      <3>4. QED
        BY <1>1, <2>2, <3>1, <3>2, <3>3
    <2>3. CASE ~Rises(p)
      <3>1. p.w_start - p.w_end \in Nat
        BY <1>1, <2>3 DEF Rises
      <3>2. MulDivFloor(p.w_start - p.w_end, e, s) \in 0..(p.w_start - p.w_end)
        BY <2>1, <3>1, ShareBounds
      <3>3. WeightAt(p, t) = p.w_start - MulDivFloor(p.w_start - p.w_end, e, s)
        BY <1>1, <1>3, <2>3 DEF WeightAt, Rises
      <3>4. QED
        BY <1>1, <2>3, <3>1, <3>2, <3>3
    <2>4. QED
      BY <2>2, <2>3
  <1>4. QED
    BY <1>1, <1>2, <1>3

(* ... and only moves from the first towards the second. *)
LEMMA WeightMonotone ==
  ASSUME NEW p \in Pool, NEW t \in Time, NEW u \in Time, t <= u
  PROVE  IF Rises(p) THEN WeightAt(p, t) <= WeightAt(p, u)
                     ELSE WeightAt(p, t) >= WeightAt(p, u)
  <1>1. /\ p.w_start \in Nat /\ p.w_end \in Nat /\ p.t_start \in Nat
        /\ p.t_end \in Nat /\ t \in Nat /\ u \in Nat
    BY ScaleAssumption, PoolAssumption DEF Pool, Amount, Time
  <1>2. CASE t <= p.t_start
    <2>1. WeightAt(p, t) = p.w_start
      BY <1>2 DEF WeightAt
    <2>2. QED
      BY <1>1, <2>1, WeightBounds
  <1>3. CASE t > p.t_start /\ u >= p.t_end
    <2>1. WeightAt(p, u) = p.w_end
      BY <1>1, <1>3 DEF WeightAt
    <2>2. QED
      BY <1>1, <2>1, WeightBounds
  <1>4. CASE t > p.t_start /\ u < p.t_end
    <2> DEFINE e == t - p.t_start
               f == u - p.t_start
               s == p.t_end - p.t_start
    <2>1. e \in Nat /\ f \in Nat /\ s \in Nat \ {0} /\ e <= f /\ e <= s /\ f <= s
      BY <1>1, <1>4
    <2>2. CASE Rises(p)
      <3> DEFINE a == p.w_end - p.w_start
      <3>1. a \in Nat
        BY <1>1, <2>2 DEF Rises
      <3>2. /\ MulDivFloor(a, e, s) \in 0..a /\ MulDivFloor(a, f, s) \in 0..a
            /\ MulDivFloor(a, e, s) <= MulDivFloor(a, f, s)
        BY <2>1, <3>1, ShareBounds, ShareMonotone
      <3>3. /\ WeightAt(p, t) = p.w_start + MulDivFloor(a, e, s)
            /\ WeightAt(p, u) = p.w_start + MulDivFloor(a, f, s)
        BY <1>1, <1>4, <2>2 DEF WeightAt, Rises
      <3> HIDE DEF a, e, f, s
      <3>4. QED
        BY <1>1, <2>2, <3>1, <3>2, <3>3
    <2>3. CASE ~Rises(p)
      <3> DEFINE a == p.w_start - p.w_end
      <3>1. a \in Nat
        BY <1>1, <2>3 DEF Rises
      <3>2. /\ MulDivFloor(a, e, s) \in 0..a /\ MulDivFloor(a, f, s) \in 0..a
            /\ MulDivFloor(a, e, s) <= MulDivFloor(a, f, s)
        BY <2>1, <3>1, ShareBounds, ShareMonotone
      <3>3. /\ WeightAt(p, t) = p.w_start - MulDivFloor(a, e, s)
            /\ WeightAt(p, u) = p.w_start - MulDivFloor(a, f, s)
        BY <1>1, <1>4, <2>3 DEF WeightAt, Rises
      <3> HIDE DEF a, e, f, s
      <3>4. QED
        BY <1>1, <2>3, <3>1, <3>2, <3>3
    <2>4. QED
      BY <2>2, <2>3
  <1>5. QED
    BY <1>1, <1>2, <1>3, <1>4

(* A buy that is priced: its numbers, and what it takes from the reserve. *)
LEMMA BuyBounds ==
  ASSUME NEW p \in Pool, NEW c_in \in Nat, NEW w \in Nat, BuyPriced(p, c_in, w)
  PROVE  /\ w \in Nat \ {0} /\ One - w \in Nat \ {0}
         /\ p.reserve_token \in Nat \ {0} /\ p.reserve_collateral \in Nat \ {0}
         /\ p.reserve_collateral + c_in \in Amount
         /\ Base(p, c_in) \in 0..One
         /\ \A kept \in Kept(p, c_in, w) :
              kept \in 0..One /\ WeightedBuy(p, kept) \in 0..p.reserve_token
  <1>1. /\ w \in Nat \ {0} /\ One - w \in Nat \ {0} /\ One \in Nat \ {0}
        /\ p.reserve_token \in Nat \ {0} /\ p.reserve_collateral \in Nat \ {0}
        /\ p.reserve_collateral + c_in \in Amount
    BY ScaleAssumption DEF BuyPriced, Pool, Amount
  <1> DEFINE N == p.reserve_collateral + c_in
             x == Base(p, c_in)
  <1>2. x \in 0..One
    <2>1. N \in Nat \ {0} /\ p.reserve_collateral <= N
      BY <1>1 DEF BuyPriced
    <2>2. x = (p.reserve_collateral * One) \div N
      BY DEF Base, MulDivFloor
    <2>3. p.reserve_collateral * One = One * p.reserve_collateral
      BY <1>1
    <2>4. x = MulDivFloor(One, p.reserve_collateral, N)
      BY <2>2, <2>3 DEF MulDivFloor
    <2> HIDE DEF N, x
    <2>5. QED
      BY <1>1, <2>1, <2>4, ShareBounds
  <1> HIDE DEF x
  <1>3. ASSUME NEW kept \in Kept(p, c_in, w)
        PROVE  kept \in 0..One /\ WeightedBuy(p, kept) \in 0..p.reserve_token
    <2>1. kept \in 0..One
      <3>1. kept \in Pow(x, One - w, w)
        BY DEF Kept, x
      <3>2. QED
        BY <1>1, <1>2, <3>1 DEF Pow
    <2>2. One - kept \in Nat /\ One - kept <= One
      BY <1>1, <2>1
    <2>3. QED
      BY <1>1, <2>1, <2>2, ShareBounds DEF WeightedBuy
  <1>4. QED
    BY <1>1, <1>2, <1>3 DEF x

(* The fee out of what was raised is at most all of it. *)
LEMMA CloseFeeBounds ==
  ASSUME NEW p \in Pool, NEW raised \in Nat
  PROVE  /\ CloseFee(p, raised) \in Nat /\ CreatorShare(p, raised) \in Nat
         /\ CreatorShare(p, raised) + CloseFee(p, raised) = raised
  <1>1. p.fee_rate \in Nat /\ RateOne \in Nat \ {0} /\ p.fee_rate <= RateOne
    BY PoolAssumption DEF Pool
  <1>2. raised * p.fee_rate <= RateOne * raised
    BY <1>1
  <1>3. CloseFee(p, raised) <= raised /\ CloseFee(p, raised) \in Nat
    BY <1>1, <1>2, CeilLeast, CeilBounds DEF CloseFee
  <1>4. QED
    BY <1>3 DEF CreatorShare

-----------------------------------------------------------------------------
(* The steps. *)

LbpInductive == TypeOK /\ MoneyConserved

(* What is held and what is owned are sums of natural numbers. *)
LEMMA MoneyTypes ==
  ASSUME TypeOK
  PROVE  SumFunction(balance) \in Int /\ SumFunction(held) \in Int
  <1>1. DOMAIN balance = Account /\ DOMAIN held = Id
    BY DEF TypeOK
  <1>2. /\ \A a \in Account : balance[a] \in Int
        /\ \A id \in Id : held[id] \in Int
    BY DEF TypeOK
  <1>3. QED
    BY <1>1, <1>2, SumInt, PoolAssumption DEF SumFunction

(* Before any pool is made all money is in the balances. *)
LEMMA InitLbp == Init => LbpInductive
  <1> SUFFICES ASSUME Init PROVE LbpInductive
    OBVIOUS
  <1>1. TypeOK
    BY PoolAssumption DEF Init, TypeOK
  <1>2. SumFunction(held) = 0
    <2>1. DOMAIN held = Id /\ \A id \in Id : held[id] = 0
      BY DEF Init
    <2>2. QED
      BY <2>1, SumZero, PoolAssumption DEF SumFunction
  <1>3. balance = InitialBalance
    BY DEF Init
  <1>4. QED
    BY <1>1, <1>2, <1>3, MoneyTypes DEF LbpInductive, MoneyConserved

(* A creation opens a pool and moves no money. *)
LEMMA CreateKeepsLbp ==
  ASSUME LbpInductive, NEW id \in Id, NEW terms \in OfferedTerms, CreatePool(id, terms)
  PROVE  LbpInductive'
  <1>1. terms \in Terms /\ terms.fee_rate \in 0..Cap
    BY PoolAssumption DEF CreatePool, RateAllowed, Terms
  <1> DEFINE new == [reserve_token |-> terms.reserve_token,
        reserve_collateral |-> terms.reserve_collateral,
        w_start |-> terms.w_start, w_end |-> terms.w_end,
        t_start |-> terms.t_start, t_end |-> terms.t_end,
        last_seen |-> terms.t_start, paused |-> FALSE, creator |-> terms.creator,
        fee_treasury |-> terms.fee_treasury, fee_rate |-> terms.fee_rate]
  <1>2. new \in Pool
    BY <1>1 DEF Terms, Pool
  <1>3. pool' = [pool EXCEPT ![id] = new] /\ held' = held /\ balance' = balance
    BY DEF CreatePool
  <1> HIDE DEF new
  <1>4. QED
    BY <1>2, <1>3 DEF LbpInductive, TypeOK, MoneyConserved

(* The pool a buy leaves, when the kernel returned kept. *)
AfterBuy(p, payment, at, kept) ==
  [p EXCEPT !.reserve_token = @ - WeightedBuy(p, kept),
            !.reserve_collateral = @ + payment, !.last_seen = at]

(* What a buy leaves is a pool. *)
LEMMA AfterBuyIsPool ==
  ASSUME NEW p \in Pool, NEW payment \in Nat, NEW at \in Time,
         BuyPriced(p, payment, WeightAt(p, at)),
         NEW kept \in Kept(p, payment, WeightAt(p, at))
  PROVE  AfterBuy(p, payment, at, kept) \in Pool
  <1> DEFINE w == WeightAt(p, at)
             out == WeightedBuy(p, kept)
  <1>1. w \in Nat
    BY WeightBounds
  <1> HIDE DEF w
  <1>2. /\ p.reserve_token \in Nat /\ p.reserve_token <= AmountMax
        /\ out \in 0..p.reserve_token /\ p.reserve_collateral + payment \in Amount
    BY <1>1, BuyBounds DEF Pool, Amount, w
  <1> HIDE DEF out
  <1>3. p.reserve_token - out \in Amount
    BY <1>2, ScaleAssumption DEF Amount
  <1>4. AfterBuy(p, payment, at, kept)
          = [p EXCEPT !.reserve_token = @ - out,
                      !.reserve_collateral = @ + payment, !.last_seen = at]
    BY DEF AfterBuy, out
  <1>5. QED
    BY <1>2, <1>3, <1>4 DEF Pool

(* A buy takes no more than the reserve, and holds what the buyer paid. *)
LEMMA BuyKeepsLbp ==
  ASSUME LbpInductive, NEW id \in Id, NEW buyer \in Buyer, NEW at \in Time,
         NEW payment \in 1..PaymentMax, ExecuteBuy(id, buyer, at, payment)
  PROVE  LbpInductive'
  <1> DEFINE p == pool[id]
  <1>1. p \in Pool /\ payment \in Nat /\ buyer \in Account
    BY PoolAssumption DEF LbpInductive, TypeOK, ExecuteBuy, Exists
  <1>2. PICK kept \in Kept(p, payment, WeightAt(p, at)) :
          /\ BuyPriced(p, payment, WeightAt(p, at))
          /\ pool' = [pool EXCEPT ![id] = AfterBuy(p, payment, at, kept)]
    BY DEF ExecuteBuy, AfterBuy
  <1> HIDE DEF p
  <1> DEFINE q == AfterBuy(p, payment, at, kept)
  <1>3. pool' = [pool EXCEPT ![id] = q]
    BY <1>2
  <1>5. q \in Pool
    BY <1>1, <1>2, AfterBuyIsPool
  <1> HIDE DEF q
  <1>6. /\ payment <= balance[buyer] /\ balance[buyer] \in Nat /\ held[id] \in Nat
        /\ held' = [held EXCEPT ![id] = held[id] + payment]
        /\ balance' = [balance EXCEPT ![buyer] = balance[buyer] - payment]
    BY <1>1 DEF ExecuteBuy, LbpInductive, TypeOK
  <1>7. TypeOK'
    BY <1>1, <1>3, <1>5, <1>6 DEF LbpInductive, TypeOK
  <1>8. /\ SumFunction(held') = SumFunction(held) - held[id] + (held[id] + payment)
        /\ SumFunction(balance')
             = SumFunction(balance) - balance[buyer] + (balance[buyer] - payment)
    <2>1. /\ held \in [Id -> Int] /\ held' \in [Id -> Int]
          /\ balance \in [Account -> Int] /\ balance' \in [Account -> Int]
      BY <1>7 DEF LbpInductive, TypeOK
    <2>2. /\ held'[id] = held[id] + payment
          /\ \A x \in Id \ {id} : held'[x] = held[x]
          /\ balance'[buyer] = balance[buyer] - payment
          /\ \A x \in Account \ {buyer} : balance'[x] = balance[x]
      BY <1>1, <1>6, <2>1
    <2>3. IsFiniteSet(Account) /\ IsFiniteSet(Id)
      BY PoolAssumption
    <2>4. SumFunction(held') = SumFunction(held) - held[id] + held'[id]
      BY <2>1, <2>2, <2>3, SumChanged
    <2>5. SumFunction(balance')
            = SumFunction(balance) - balance[buyer] + balance'[buyer]
      BY <1>1, <2>1, <2>2, <2>3, SumChanged
    <2>6. QED
      BY <2>2, <2>4, <2>5
  <1>9. SumFunction(balance) \in Int /\ SumFunction(held) \in Int
    BY MoneyTypes DEF LbpInductive
  <1>10. MoneyConserved'
    BY <1>1, <1>6, <1>8, <1>9 DEF LbpInductive, MoneyConserved
  <1>11. QED
    BY <1>7, <1>10 DEF LbpInductive

(* A withdrawal splits what is held between the creator and the treasury. *)
LEMMA WithdrawKeepsLbp ==
  ASSUME LbpInductive, NEW id \in Id, NEW at \in Time, Withdraw(id, at)
  PROVE  LbpInductive'
  <1> DEFINE p == pool[id]
             c == p.creator
             f == p.fee_treasury
             share == CreatorShare(p, held[id])
             fee == CloseFee(p, held[id])
             paid == [balance EXCEPT ![c] = balance[c] + share]
  <1>1. p \in Pool /\ held[id] \in Nat
    BY DEF LbpInductive, TypeOK, Withdraw, Exists
  <1>2. c \in Account /\ f \in Account
    BY <1>1 DEF Pool
  <1>3. share \in Nat /\ fee \in Nat /\ share + fee = held[id]
    BY <1>1, CloseFeeBounds
  <1>4. /\ balance' = [paid EXCEPT ![f] = paid[f] + fee]
        /\ held' = [held EXCEPT ![id] = 0] /\ pool' = pool
    BY DEF Withdraw
  <1> HIDE DEF p, c, f, share, fee
  <1>5. balance \in [Account -> Nat] /\ held \in [Id -> Nat]
    BY DEF LbpInductive, TypeOK
  <1>6. paid \in [Account -> Nat]
    BY <1>2, <1>3, <1>5
  <1>7. TypeOK'
    <2>1. balance' \in [Account -> Nat]
      BY <1>2, <1>3, <1>4, <1>6
    <2>2. held' \in [Id -> Nat]
      BY <1>4, <1>5
    <2>3. QED
      BY <1>4, <2>1, <2>2 DEF LbpInductive, TypeOK
  <1>8. SumFunction(paid) = SumFunction(balance) - balance[c] + (balance[c] + share)
    <2>1. balance \in [Account -> Int] /\ paid \in [Account -> Int]
      BY <1>5, <1>6
    <2>2. /\ IsFiniteSet(Account) /\ paid[c] = balance[c] + share
          /\ \A x \in Account \ {c} : paid[x] = balance[x]
      BY <1>2, <1>5, PoolAssumption
    <2> HIDE DEF paid
    <2>3. SumFunction(paid) = SumFunction(balance) - balance[c] + paid[c]
      BY <1>2, <2>1, <2>2, SumChanged
    <2>4. QED
      BY <2>2, <2>3
  <1>9. SumFunction(balance') = SumFunction(paid) - paid[f] + (paid[f] + fee)
    <2> HIDE DEF paid
    <2>1. paid \in [Account -> Int] /\ balance' \in [Account -> Int]
      BY <1>6, <1>7 DEF TypeOK
    <2>2. /\ IsFiniteSet(Account) /\ balance'[f] = paid[f] + fee
          /\ \A x \in Account \ {f} : balance'[x] = paid[x]
      BY <1>2, <1>4, <1>6, PoolAssumption
    <2>3. SumFunction(balance') = SumFunction(paid) - paid[f] + balance'[f]
      BY <1>2, <2>1, <2>2, SumChanged
    <2>4. QED
      BY <2>2, <2>3
  <1>10. SumFunction(held') = SumFunction(held) - held[id] + 0
    <2>1. held \in [Id -> Int] /\ held' \in [Id -> Int]
      BY <1>5, <1>7 DEF TypeOK
    <2>2. /\ IsFiniteSet(Id) /\ held'[id] = 0
          /\ \A x \in Id \ {id} : held'[x] = held[x]
      BY <1>4, <1>5, PoolAssumption
    <2>3. SumFunction(held') = SumFunction(held) - held[id] + held'[id]
      BY <2>1, <2>2, SumChanged
    <2>4. QED
      BY <2>2, <2>3
  <1>11. /\ SumFunction(balance) \in Int /\ SumFunction(held) \in Int
         /\ balance[c] \in Nat /\ paid[f] \in Nat
    BY <1>2, <1>5, <1>6, MoneyTypes DEF LbpInductive
  <1> HIDE DEF paid
  <1>12. SumFunction(balance') + SumFunction(held')
           = SumFunction(balance) + SumFunction(held)
    BY <1>1, <1>3, <1>8, <1>9, <1>10, <1>11
  <1>13. MoneyConserved'
    BY <1>12 DEF LbpInductive, MoneyConserved
  <1>14. QED
    BY <1>7, <1>13 DEF LbpInductive

(* A pause moves no money. *)
LEMMA PauseKeepsLbp ==
  ASSUME LbpInductive, NEW id \in Id, NEW paused \in BOOLEAN, SetPaused(id, paused)
  PROVE  LbpInductive'
  <1>1. pool[id] \in Pool
    BY DEF LbpInductive, TypeOK, SetPaused, Exists
  <1> DEFINE q == [pool[id] EXCEPT !.paused = paused]
  <1>2. q \in Pool
    BY <1>1 DEF Pool
  <1>3. pool' = [pool EXCEPT ![id] = q] /\ held' = held /\ balance' = balance
    BY DEF SetPaused, LbpInductive, TypeOK
  <1> HIDE DEF q
  <1>4. QED
    BY <1>2, <1>3 DEF LbpInductive, TypeOK, MoneyConserved

(* Every instruction keeps the invariant, and so does one that is refused. *)
LEMMA NextKeepsLbp == LbpInductive /\ [Next]_vars => LbpInductive'
  <1> SUFFICES ASSUME LbpInductive, [Next]_vars PROVE LbpInductive'
    OBVIOUS
  <1>1. CASE \E id \in Id, terms \in OfferedTerms : CreatePool(id, terms)
    BY <1>1, CreateKeepsLbp
  <1>2. CASE \E id \in Id, buyer \in Buyer, at \in Time, payment \in 1..PaymentMax :
               ExecuteBuy(id, buyer, at, payment)
    BY <1>2, BuyKeepsLbp
  <1>3. CASE \E id \in Id, at \in Time : Withdraw(id, at)
    BY <1>3, WithdrawKeepsLbp
  <1>4. CASE \E id \in Id, paused \in BOOLEAN : SetPaused(id, paused)
    BY <1>4, PauseKeepsLbp
  <1>5. CASE UNCHANGED vars
    BY <1>5 DEF vars, LbpInductive, TypeOK, MoneyConserved
  <1>6. QED
    BY <1>1, <1>2, <1>3, <1>4, <1>5 DEF Next

(* The invariant holds whatever instructions run in whatever order. *)
LEMMA AlwaysLbpInductive == Spec => []LbpInductive
  BY InitLbp, NextKeepsLbp, PTL DEF Spec

(* A buy of the pool p that leaves the pool q. *)
Bought(p, q, payment) ==
  LET w == WeightAt(p, q.last_seen)
  IN  /\ BuyPriced(p, payment, w)
      /\ \E kept \in Kept(p, payment, w) :
           q.reserve_token = p.reserve_token - WeightedBuy(p, kept)
      /\ q.reserve_collateral = p.reserve_collateral + payment

(* What a step does to a pool: its sale stays, its last time only grows, and only
   a buy changes its reserves. *)
LEMMA PoolStep ==
  ASSUME LbpInductive, [Next]_vars, NEW id \in Id, Exists(id)
  PROVE  LET p == pool[id]
             q == pool'[id]
         IN  /\ p \in Pool /\ q \in Pool
             /\ q.w_start = p.w_start /\ q.w_end = p.w_end
             /\ q.t_start = p.t_start /\ q.t_end = p.t_end
             /\ p.last_seen <= q.last_seen
             /\ \/ /\ q.reserve_token = p.reserve_token
                   /\ q.reserve_collateral = p.reserve_collateral
                \/ \E payment \in Nat \ {0} : Bought(p, q, payment)
  <1> DEFINE p == pool[id]
             q == pool'[id]
             Goal == /\ q \in Pool
                     /\ q.w_start = p.w_start /\ q.w_end = p.w_end
                     /\ q.t_start = p.t_start /\ q.t_end = p.t_end
                     /\ p.last_seen <= q.last_seen
                     /\ \/ /\ q.reserve_token = p.reserve_token
                           /\ q.reserve_collateral = p.reserve_collateral
                        \/ \E payment \in Nat \ {0} : Bought(p, q, payment)
  <1>1. p \in Pool /\ p.last_seen \in Nat /\ pool \in [Id -> Pool \cup {NoPool}]
    BY PoolAssumption DEF LbpInductive, TypeOK, Exists, Pool, Time
  <1>3. CASE p = q
    BY <1>1, <1>3
  <1>5. CASE \E other \in Id, terms \in OfferedTerms : CreatePool(other, terms)
    <2>1. PICK other \in Id, terms \in OfferedTerms : CreatePool(other, terms)
      BY <1>5
    <2>2. other # id
      BY <2>1 DEF CreatePool
    <2>3. \A x \in Id \ {other} : pool'[x] = pool[x]
      BY <1>1, <2>1 DEF CreatePool
    <2>4. QED
      BY <1>3, <2>2, <2>3
  <1>6. ASSUME NEW other \in Id, NEW buyer \in Buyer, NEW at \in Time,
               NEW payment \in 1..PaymentMax, ExecuteBuy(other, buyer, at, payment)
        PROVE  Goal
    <2>1. CASE other # id
      <3>1. \A x \in Id \ {other} : pool'[x] = pool[x]
        BY <1>1, <1>6 DEF ExecuteBuy
      <3>2. QED
        BY <1>3, <2>1, <3>1
    <2>2. CASE other = id
      <3>1. PICK kept \in Kept(p, payment, WeightAt(p, at)) :
              /\ q = AfterBuy(p, payment, at, kept) /\ p.last_seen <= at
              /\ BuyPriced(p, payment, WeightAt(p, at))
              /\ payment \in Nat \ {0}
        <4>1. PICK kept \in Kept(p, payment, WeightAt(p, at)) :
                pool' = [pool EXCEPT ![id] = AfterBuy(p, payment, at, kept)]
          BY <1>6, <2>2 DEF ExecuteBuy, AfterBuy
        <4>2. q = AfterBuy(p, payment, at, kept)
          BY <1>1, <4>1
        <4>3. p.last_seen <= at /\ BuyPriced(p, payment, WeightAt(p, at))
          BY <1>6, <2>2 DEF ExecuteBuy, NotBeforeLastSeen
        <4>4. payment \in Nat \ {0}
          BY PoolAssumption
        <4>5. QED
          BY <4>2, <4>3, <4>4
      <3> HIDE DEF p, q
      <3>2. /\ q.reserve_token = p.reserve_token - WeightedBuy(p, kept)
            /\ q.reserve_collateral = p.reserve_collateral + payment
            /\ q.last_seen = at /\ q.w_start = p.w_start /\ q.w_end = p.w_end
            /\ q.t_start = p.t_start /\ q.t_end = p.t_end
        BY <1>1, <3>1 DEF Pool, AfterBuy
      <3>3. q \in Pool
        BY <1>1, <3>1, AfterBuyIsPool
      <3>4. Bought(p, q, payment)
        BY <3>1, <3>2 DEF Bought
      <3>5. QED
        BY <3>1, <3>2, <3>3, <3>4
    <2>3. QED
      BY <2>1, <2>2
  <1>7. ASSUME NEW other \in Id, NEW paused \in BOOLEAN, SetPaused(other, paused)
        PROVE  Goal
    <2>1. CASE other # id
      <3>1. \A x \in Id \ {other} : pool'[x] = pool[x]
        BY <1>1, <1>7 DEF SetPaused
      <3>2. QED
        BY <1>3, <2>1, <3>1
    <2>2. CASE other = id
      <3>1. q = [p EXCEPT !.paused = paused]
        BY <1>1, <1>7, <2>2 DEF SetPaused
      <3> HIDE DEF p, q
      <3>2. /\ q \in Pool /\ q.reserve_token = p.reserve_token
            /\ q.reserve_collateral = p.reserve_collateral
            /\ q.last_seen = p.last_seen /\ q.w_start = p.w_start
            /\ q.w_end = p.w_end /\ q.t_start = p.t_start /\ q.t_end = p.t_end
        BY <1>1, <3>1 DEF Pool
      <3>3. QED
        BY <1>1, <3>2
    <2>3. QED
      BY <2>1, <2>2
  <1>8. CASE (\E other \in Id, at \in Time : Withdraw(other, at)) \/ UNCHANGED vars
    <2>1. pool' = pool
      BY <1>8 DEF Withdraw, vars
    <2>2. QED
      BY <1>3, <2>1
  <1>9. Goal
    BY <1>5, <1>6, <1>7, <1>8 DEF Next
  <1>10. QED
    BY <1>1, <1>9

(* Two pools with the same sale have the same weights. *)
LEMMA SameWeights ==
  ASSUME NEW p, NEW q, q.w_start = p.w_start, q.w_end = p.w_end,
         q.t_start = p.t_start, q.t_end = p.t_end, NEW t
  PROVE  WeightAt(q, t) = WeightAt(p, t)
  BY DEF WeightAt

-----------------------------------------------------------------------------
(* The results. *)

(* Reserves, weights, rates and balances stay of their types: no buy takes a
   reserve below zero or past the largest amount. *)
THEOREM LbpTypes == Spec => []TypeOK
  <1>1. LbpInductive => TypeOK
    BY DEF LbpInductive
  <1>2. QED
    BY <1>1, AlwaysLbpInductive, PTL

(* execute_buy and withdraw move money and never make or lose a unit. *)
THEOREM LbpMoneyConserved == Spec => []MoneyConserved
  <1>1. LbpInductive => MoneyConserved
    BY DEF LbpInductive
  <1>2. QED
    BY <1>1, AlwaysLbpInductive, PTL

(* Whatever times the buyers of a pool name, each prices at a weight no further
   from the end of the sale than the one before. *)
THEOREM LbpWeightOnlyAdvances == Spec => WeightOnlyAdvances
  <1> DEFINE Advances ==
        \A id \in Id : Exists(id) =>
          LET p == pool[id]
              q == pool'[id]
          IN  IF p.w_end >= p.w_start
                THEN Weight(p) <= Weight(q) /\ Weight(q) <= p.w_end
                ELSE Weight(p) >= Weight(q) /\ Weight(q) >= p.w_end
  <1>1. LbpInductive /\ [Next]_vars => Advances
    <2> SUFFICES ASSUME LbpInductive, [Next]_vars, NEW id \in Id, Exists(id)
                 PROVE  LET p == pool[id]
                            q == pool'[id]
                        IN  IF p.w_end >= p.w_start
                              THEN Weight(p) <= Weight(q) /\ Weight(q) <= p.w_end
                              ELSE Weight(p) >= Weight(q) /\ Weight(q) >= p.w_end
      OBVIOUS
    <2> DEFINE p == pool[id]
               q == pool'[id]
    <2>1. /\ p \in Pool /\ q \in Pool
          /\ q.w_start = p.w_start /\ q.w_end = p.w_end
          /\ q.t_start = p.t_start /\ q.t_end = p.t_end
          /\ p.last_seen <= q.last_seen
      BY PoolStep
    <2> HIDE DEF p, q
    <2>2. p.last_seen \in Time /\ q.last_seen \in Time
      BY <2>1 DEF Pool
    <2>3. WeightAt(q, q.last_seen) = WeightAt(p, q.last_seen)
      BY <2>1, SameWeights
    <2>4. IF Rises(p) THEN WeightAt(p, p.last_seen) <= WeightAt(p, q.last_seen)
                      ELSE WeightAt(p, p.last_seen) >= WeightAt(p, q.last_seen)
      BY <2>1, <2>2, WeightMonotone
    <2>5. IF Rises(p) THEN WeightAt(p, q.last_seen) <= p.w_end
                      ELSE WeightAt(p, q.last_seen) >= p.w_end
      <3>1. IF Rises(p) THEN WeightAt(p, q.last_seen) \in p.w_start..p.w_end
                        ELSE WeightAt(p, q.last_seen) \in p.w_end..p.w_start
        BY <2>1, <2>2, WeightBounds
      <3>2. p.w_start \in Nat /\ p.w_end \in Nat
        BY <2>1, ScaleAssumption DEF Pool, Amount
      <3>3. QED
        BY <3>1, <3>2
    <2>6. QED
      BY <2>3, <2>4, <2>5 DEF Weight, Rises, p, q
  <1>2. QED
    BY <1>1, AlwaysLbpInductive, PTL DEF Spec, WeightOnlyAdvances

(* Rounding a share of the reserve down, and the share itself down, keeps the
   product of the reserves to within one part in the scale. *)
LEMMA RoundingLoss ==
  ASSUME NEW rt \in Nat \ {0}, NEW rc \in Nat, NEW N \in Nat \ {0},
         NEW x \in 0..One, x = (rc * One) \div N, NEW out \in Nat,
         out = MulDivFloor(rt, One - x, One)
  PROVE  (rt * rc - (rt - out) * N) * One < rt * N
  <1> DEFINE a == rc * One
             b == rt * (One - x)
             left == rt - out
  <1>1. One \in Nat \ {0} /\ x \in Nat /\ a \in Nat /\ One - x \in Nat /\ b \in Nat
    BY ScaleAssumption
  <1>2. a < N * x + N
    <2> HIDE DEF a
    <2>1. x = a \div N
      BY DEF a
    <2>2. QED
      BY <1>1, <2>1, DivisionBounds
  <1>3. One * out <= b
    <2> HIDE DEF b
    <2>1. out = b \div One
      BY DEF b, MulDivFloor
    <2>2. QED
      BY <1>1, <2>1, DivisionBounds
  <1>4. left \in Int /\ rt * x <= left * One
    <2>1. b = rt * One - rt * x
      BY <1>1
    <2>2. left * One = rt * One - One * out
      BY <1>1
    <2>3. rt * One \in Nat /\ rt * x \in Nat /\ One * out \in Nat
      BY <1>1
    <2> HIDE DEF b
    <2>4. QED
      BY <1>3, <2>1, <2>2, <2>3
  <1>5. rt * (N * x) <= (left * N) * One
    <2>1. (rt * x) * N <= (left * One) * N
      BY <1>1, <1>4
    <2>2. (rt * x) * N = rt * (N * x) /\ (left * One) * N = (left * N) * One
      BY <1>1, <1>4
    <2>3. QED
      BY <2>1, <2>2
  <1>6. rt * a < rt * (N * x) + rt * N
    <2>1. N * x \in Nat
      BY <1>1
    <2> DEFINE c == N * x + N
    <2>2. c \in Nat /\ a + 1 <= c
      BY <1>1, <1>2, <2>1
    <2> HIDE DEF a, c
    <2>3. rt * (a + 1) <= rt * c
      BY <1>1, <2>2
    <2>4. rt * (a + 1) = rt * a + rt
      BY <1>1
    <2>5. rt * c = rt * (N * x) + rt * N
      BY <1>1, <2>1 DEF c
    <2>6. rt * a \in Nat /\ rt * c \in Nat
      BY <1>1, <2>2
    <2>7. QED
      BY <2>3, <2>4, <2>5, <2>6
  <1>7. (rt * rc - left * N) * One = rt * a - (left * N) * One
    BY <1>1, <1>4
  <1>8. /\ rt * a \in Int /\ rt * (N * x) \in Int /\ rt * N \in Int
        /\ (left * N) * One \in Int
    BY <1>1, <1>4
  <1> HIDE DEF a, left
  <1>9. rt * a - (left * N) * One < rt * N
    BY <1>5, <1>6, <1>8
  <1>10. QED
    BY <1>7, <1>9 DEF left

(* At equal weights a buy of execute_buy costs the product of the reserves less
   than one part in the scale. *)
THEOREM LbpRoundingCostsLittle == Spec => RoundingCostsLittle
  <1> DEFINE Little ==
        \A id \in Id :
          Exists(id) =>
            LET p == pool[id]
                q == pool'[id]
            IN  q.reserve_collateral > p.reserve_collateral /\ 2 * Weight(q) = One =>
                (p.reserve_token * p.reserve_collateral
                   - q.reserve_token * q.reserve_collateral) * One
                  < p.reserve_token * q.reserve_collateral
  <1>1. LbpInductive /\ [Next]_vars => Little
    <2> SUFFICES ASSUME LbpInductive, [Next]_vars, NEW id \in Id, Exists(id),
                        pool'[id].reserve_collateral > pool[id].reserve_collateral,
                        2 * Weight(pool'[id]) = One
                 PROVE  (pool[id].reserve_token * pool[id].reserve_collateral
                           - pool'[id].reserve_token * pool'[id].reserve_collateral) * One
                          < pool[id].reserve_token * pool'[id].reserve_collateral
      OBVIOUS
    <2> DEFINE p == pool[id]
               q == pool'[id]
    <2>1. /\ p \in Pool /\ q \in Pool
          /\ q.w_start = p.w_start /\ q.w_end = p.w_end
          /\ q.t_start = p.t_start /\ q.t_end = p.t_end
          /\ \/ q.reserve_collateral = p.reserve_collateral
             \/ \E payment \in Nat \ {0} : Bought(p, q, payment)
      BY PoolStep
    <2>2. p.reserve_collateral \in Nat /\ q.last_seen \in Time
      BY <2>1, ScaleAssumption DEF Pool, Amount
    <2>3. PICK payment \in Nat \ {0} : Bought(p, q, payment)
      BY <2>1, <2>2
    <2>4. 2 * WeightAt(p, q.last_seen) = One
      BY <2>1, SameWeights DEF Weight
    <2> HIDE DEF p, q
    <2> DEFINE w == WeightAt(p, q.last_seen)
               x == Base(p, payment)
               N == p.reserve_collateral + payment
    <2>5. w \in Nat /\ BuyPriced(p, payment, w)
      BY <2>1, <2>2, <2>3, WeightBounds DEF Bought
    <2>6. One - w = w
      BY <2>4, <2>5
    <2>7. PICK kept \in Kept(p, payment, w) :
            q.reserve_token = p.reserve_token - WeightedBuy(p, kept)
      BY <2>3 DEF Bought
    <2> HIDE DEF w
    <2> DEFINE out == WeightedBuy(p, kept)
    <2>8. /\ x \in 0..One /\ out \in Nat /\ p.reserve_token \in Nat \ {0}
          /\ N \in Nat \ {0}
      BY <2>1, <2>2, <2>5, BuyBounds
    <2>9. /\ x = (p.reserve_collateral * One) \div N
          /\ out = MulDivFloor(p.reserve_token, One - x, One)
      <3>1. kept = x
        BY <2>6 DEF Kept, Pow
      <3>2. QED
        BY <3>1 DEF Base, MulDivFloor, WeightedBuy
    <2>10. q.reserve_token = p.reserve_token - out /\ q.reserve_collateral = N
      BY <2>3, <2>7 DEF Bought
    <2> HIDE DEF x, out, N
    <2>11. (p.reserve_token * p.reserve_collateral - (p.reserve_token - out) * N) * One
             < p.reserve_token * N
      BY <2>2, <2>8, <2>9, RoundingLoss
    <2>12. QED
      BY <2>10, <2>11 DEF p, q
  <1>2. QED
    BY <1>1, AlwaysLbpInductive, PTL DEF Spec, RoundingCostsLittle
=============================================================================
