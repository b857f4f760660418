--------------------------------- MODULE Lbp ---------------------------------
(***************************************************************************)
(* The liquidity bootstrapping pool program (programs/lbp) on the ledger:  *)
(* pools whose weights slide with time, bought from until the creator      *)
(* withdraws.                                                              *)
(*                                                                         *)
(* A transaction is one action.  The times it depends on are arguments its *)
(* caller names; nothing compares them with the block's own, which is      *)
(* therefore not in the model.                                             *)
(***************************************************************************)
EXTENDS LbpMath, FiniteSetsExt

CONSTANTS
  Account,        \* accounts of the native transfer program
  Buyer,          \* those that buy
  Id,             \* pool identifiers
  OfferedTerms,   \* what pools are created with
  PaymentMax,     \* bound: the largest payment tried
  TimeMax,        \* u64::MAX
  RateOne,        \* RATE_ONE
  Cap,            \* CAP_AT_CLOSE
  InitialBalance, \* [Account -> Nat]
  NoPool          \* an account no pool was committed to

VARIABLES
  pool,     \* pool[id]: the state in the pool PDA
  held,     \* held[id]: the balance of the pool's holding PDA
  balance   \* balance[a]

vars == <<pool, held, balance>>

Time == 0..TimeMax

Terms ==
  [reserve_token: Amount, reserve_collateral: Amount, w_start: Amount, w_end: Amount,
   t_start: Time, t_end: Time, creator: Account, fee_treasury: Account, fee_rate: Nat]

Pool ==
  [reserve_token: Amount, reserve_collateral: Amount, w_start: Amount, w_end: Amount,
   t_start: Time, t_end: Time, last_seen: Time, paused: BOOLEAN, creator: Account,
   fee_treasury: Account, fee_rate: 0..Cap]

ASSUME PoolAssumption ==
  /\ IsFiniteSet(Account) /\ IsFiniteSet(Id)
  /\ Buyer \subseteq Account
  /\ OfferedTerms \subseteq Terms
  /\ \A terms \in OfferedTerms : terms.creator # terms.fee_treasury
  /\ PaymentMax \in Nat /\ TimeMax \in Nat
  /\ RateOne \in Nat \ {0} /\ Cap \in Nat /\ Cap < RateOne
  /\ InitialBalance \in [Account -> Nat]
  /\ NoPool \notin Pool

Exists(id) == pool[id] # NoPool

----------------------------------------------------------------------------
Init ==
  /\ pool = [id \in Id |-> NoPool]
  /\ held = [id \in Id |-> 0]
  /\ balance = InitialBalance

RateAllowed(rate) == rate <= Cap

CreatePool(id, terms) ==
  /\ ~Exists(id)
  /\ RateAllowed(terms.fee_rate)
  /\ ValidWeights(terms)
  /\ terms.reserve_token > 0 /\ terms.reserve_collateral > 0
  /\ pool' = [pool EXCEPT ![id] =
       [reserve_token |-> terms.reserve_token,
        reserve_collateral |-> terms.reserve_collateral,
        w_start |-> terms.w_start, w_end |-> terms.w_end,
        t_start |-> terms.t_start, t_end |-> terms.t_end,
        last_seen |-> terms.t_start, paused |-> FALSE, creator |-> terms.creator,
        fee_treasury |-> terms.fee_treasury, fee_rate |-> terms.fee_rate]]
  /\ UNCHANGED <<held, balance>>

NotBeforeLastSeen_Dropped(p, at) == TRUE          \* mutant: check forgotten

NotBeforeLastSeen(p, at) == at >= p.last_seen

\* min_tokens_out only lets the buyer refuse a price, and is left out.
ExecuteBuy(id, buyer, at, payment) ==
  /\ Exists(id)
  /\ LET p == pool[id]
         w == WeightAt(p, at)
     IN  /\ ~p.paused
         /\ NotBeforeLastSeen(p, at)
         /\ BuyPriced(p, payment, w)
         /\ \E kept \in Kept(p, payment, w) :
              pool' = [pool EXCEPT ![id] =
                [p EXCEPT !.reserve_token = @ - WeightedBuy(p, kept),
                          !.reserve_collateral = @ + payment,
                          !.last_seen = at]]
  /\ payment <= balance[buyer]
  /\ held[id] + payment <= AmountMax
  /\ held' = [held EXCEPT ![id] = @ + payment]
  /\ balance' = [balance EXCEPT ![buyer] = @ - payment]

\* close_fee: rounded up, out of what was raised.
CloseFee(p, raised) == MulDivCeil(raised, p.fee_rate, RateOne)

CreatorShare_Gross(p, raised) == raised           \* mutant: fee paid on top

CreatorShare(p, raised) == raised - CloseFee(p, raised)

\* The pool itself is not changed: it stays open to buyers.
Withdraw(id, at) ==
  /\ Exists(id)
  /\ LET p == pool[id] IN
       /\ at >= p.t_end
       /\ held[id] > 0
       /\ LET paid == [balance EXCEPT ![p.creator] = @ + CreatorShare(p, held[id])]
          IN  /\ paid[p.creator] <= AmountMax
              /\ balance' = [paid EXCEPT ![p.fee_treasury] = @ + CloseFee(p, held[id])]
              /\ balance'[p.fee_treasury] <= AmountMax
  /\ held' = [held EXCEPT ![id] = 0]
  /\ UNCHANGED pool

SetPaused(id, paused) ==
  /\ Exists(id)
  /\ pool' = [pool EXCEPT ![id].paused = paused]
  /\ UNCHANGED <<held, balance>>

Next ==
  \/ \E id \in Id, terms \in OfferedTerms : CreatePool(id, terms)
  \/ \E id \in Id, buyer \in Buyer, at \in Time, payment \in 1..PaymentMax :
       ExecuteBuy(id, buyer, at, payment)
  \/ \E id \in Id, at \in Time : Withdraw(id, at)
  \/ \E id \in Id, paused \in BOOLEAN : SetPaused(id, paused)

Spec == Init /\ [][Next]_vars

----------------------------------------------------------------------------
(* Correctness. *)

\* The types of the pools and of the balances.
TypeOK ==
  /\ pool \in [Id -> Pool \cup {NoPool}]
  /\ held \in [Id -> Nat]
  /\ balance \in [Account -> Nat]

\* Every unit is in exactly one place: what buyers paid is held, or was split
\* between the creator and the treasury without a unit made or lost.
MoneyConserved ==
  SumFunction(balance) + SumFunction(held) = SumFunction(InitialBalance)

\* The weight of a buy, the one last priced at.
Weight(p) == WeightAt(p, p.last_seen)

\* No order of buys, whatever times they name, prices at a weight the pool has
\* moved past: weights only go from w_start towards w_end.
WeightOnlyAdvances ==
  [][\A id \in Id : Exists(id) =>
       LET p == pool[id]
           q == pool'[id]
       IN  IF p.w_end >= p.w_start
             THEN Weight(p) <= Weight(q) /\ Weight(q) <= p.w_end
             ELSE Weight(p) >= Weight(q) /\ Weight(q) >= p.w_end]_vars

\* The rounding of the price favours the buyer, but by little: at equal weights,
\* where the product of the reserves is what a buy must keep, it falls by less
\* than one part in the scale of what the buy leaves at the old token reserve.
RoundingCostsLittle ==
  [][\A id \in Id :
       Exists(id) =>
         LET p == pool[id]
             q == pool'[id]
         IN  q.reserve_collateral > p.reserve_collateral /\ 2 * Weight(q) = One =>
             (p.reserve_token * p.reserve_collateral
                - q.reserve_token * q.reserve_collateral) * One
               < p.reserve_token * q.reserve_collateral]_vars
=============================================================================
