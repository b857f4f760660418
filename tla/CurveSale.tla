------------------------------ MODULE CurveSale ------------------------------
(***************************************************************************)
(* The bonding curve program (programs/curve) on the ledger: sales that    *)
(* anybody buys from, the protocol's fee, and the creator's withdrawal.    *)
(*                                                                         *)
(* A transaction is one action: its checks, what it writes and the chained *)
(* payment take effect together or not at all.  min_tokens_out only lets a *)
(* buyer refuse a price; a bound some buyer accepts is always possible, so *)
(* it is left out.                                                         *)
(***************************************************************************)
EXTENDS CurveMath

CONSTANTS
  Account,        \* accounts of the native transfer program
  Buyer,          \* those that buy
  Id,             \* sale identifiers
  OfferedTerms,   \* what sales are created with
  PaymentMax,     \* bound: the largest payment tried
  GiftMax,        \* bound: the largest outside deposit tried
  InitialBalance, \* [Account -> Nat]
  NoSale          \* an account no sale was committed to

VARIABLES
  sale,     \* sale[id]: the state in the sale PDA
  held,     \* held[id]: the balance of the sale's holding PDA
  balance   \* balance[a]

vars == <<sale, held, balance>>

Terms ==
  [vt: Amount, vc: Amount, sale_reserve: Amount,
   creator: Account, fee_treasury: Account, fee_rate: Nat]

Sale ==
  [vt: Amount, vc: Amount, sale_reserve: Amount, real_collateral: Amount,
   creator: Account, fee_treasury: Account, fee_rate: 0..Cap,
   fees_accrued: Amount]

ASSUME SaleAssumption ==
  /\ Buyer \subseteq Account
  /\ OfferedTerms \subseteq Terms
  /\ PaymentMax \in Nat /\ GiftMax \in Nat
  /\ InitialBalance \in [Account -> Nat]
  /\ NoSale \notin Sale

Exists(id) == sale[id] # NoSale

Closed(id) == sale[id].sale_reserve = 0

----------------------------------------------------------------------------
Init ==
  /\ sale = [id \in Id |-> NoSale]
  /\ held = [id \in Id |-> 0]
  /\ balance = InitialBalance

RateAllowed_Any(rate) == TRUE                     \* mutant: cap not checked

\* FeeConfig::new refuses a rate above the cap.
RateAllowed(rate) == rate <= Cap

\* Both PDAs are marked init: an identifier is used once.
CreateSale(id, terms) ==
  /\ ~Exists(id)
  /\ ValidCurve(terms)
  /\ RateAllowed(terms.fee_rate)
  /\ sale' = [sale EXCEPT ![id] =
       [vt |-> terms.vt, vc |-> terms.vc, sale_reserve |-> terms.sale_reserve,
        real_collateral |-> 0, creator |-> terms.creator,
        fee_treasury |-> terms.fee_treasury, fee_rate |-> terms.fee_rate,
        fees_accrued |-> 0]]
  /\ UNCHANGED <<held, balance>>

\* What is left of a payment to price: the fee comes off first.
Priced(rate, payment) == Effective(rate, payment)

Accrued_Last(s, payment) == FeeOn(s.fee_rate, payment)   \* mutant: overwritten

\* The fee is recorded, to be swept later.
Accrued(s, payment) == s.fees_accrued + FeeOn(s.fee_rate, payment)

ExecuteBuy(id, buyer, payment) ==
  /\ Exists(id)
  /\ ~Closed(id)
  /\ BuyAccepted(sale[id], Priced(sale[id].fee_rate, payment))
  /\ payment <= balance[buyer]
  /\ held[id] + payment <= AmountMax
  /\ Accrued(sale[id], payment) <= AmountMax
  /\ sale' = [sale EXCEPT ![id] =
       [AfterBuy(@, Priced(@.fee_rate, payment)) EXCEPT
          !.fees_accrued = Accrued(sale[id], payment)]]
  /\ held' = [held EXCEPT ![id] = @ + payment]
  /\ balance' = [balance EXCEPT ![buyer] = @ - payment]

Swept_Kept(s) == s                                \* mutant: not zeroed

Swept(s) == [s EXCEPT !.fees_accrued = 0]

\* Anyone may sweep the fee to the treasury fixed at creation.
CollectFees(id) ==
  /\ Exists(id)
  /\ LET s == sale[id] IN
       /\ s.fees_accrued > 0
       /\ s.fees_accrued <= held[id]
       /\ balance[s.fee_treasury] + s.fees_accrued <= AmountMax
       /\ sale' = [sale EXCEPT ![id] = Swept(s)]
       /\ held' = [held EXCEPT ![id] = @ - s.fees_accrued]
       /\ balance' = [balance EXCEPT ![s.fee_treasury] = @ + s.fees_accrued]

MayWithdraw_Anytime(id) == TRUE                   \* mutant: close not required

\* Only once the sale reserve is exhausted.
MayWithdraw(id) == Closed(id)

Payable(id) == held[id] - sale[id].fees_accrued

Withdraw(id) ==
  /\ Exists(id)
  /\ MayWithdraw(id)
  /\ Payable(id) > 0
  /\ balance[sale[id].creator] + Payable(id) <= AmountMax
  /\ held' = [held EXCEPT ![id] = @ - Payable(id)]
  /\ balance' = [balance EXCEPT ![sale[id].creator] = @ + Payable(id)]
  /\ UNCHANGED sale

\* A transfer to the holding outside the program: external.
Deposit(from, id, amount) ==
  /\ Exists(id)
  /\ amount <= balance[from]
  /\ held[id] + amount <= AmountMax
  /\ held' = [held EXCEPT ![id] = @ + amount]
  /\ balance' = [balance EXCEPT ![from] = @ - amount]
  /\ UNCHANGED sale

Next ==
  \/ \E id \in Id, terms \in OfferedTerms : CreateSale(id, terms)
  \/ \E id \in Id, buyer \in Buyer, payment \in 1..PaymentMax :
       ExecuteBuy(id, buyer, payment)
  \/ \E id \in Id : CollectFees(id)
  \/ \E id \in Id : Withdraw(id)
  \/ \E id \in Id, from \in Buyer, amount \in 1..GiftMax : Deposit(from, id, amount)

Spec == Init /\ [][Next]_vars

\* The creator keeps withdrawing and somebody keeps sweeping.
FairSpec ==
  /\ Spec
  /\ \A id \in Id : WF_vars(CollectFees(id)) /\ WF_vars(Withdraw(id))

----------------------------------------------------------------------------
(* Correctness. *)

\* The types of the sales and of the balances.
TypeOK ==
  /\ sale \in [Id -> Sale \cup {NoSale}]
  /\ held \in [Id -> Nat]
  /\ balance \in [Account -> Nat]

\* What the holding must keep: while a sale is open the collateral that backs it
\* and the protocol's fee, once closed the fee.
Backing(s) ==
  IF s.sale_reserve = 0 THEN s.fees_accrued ELSE s.real_collateral + s.fees_accrued

\* A holding never falls short of that, whoever buys, sweeps and withdraws when.
HoldingBacksSale == \A id \in Id : Exists(id) => held[id] >= Backing(sale[id])

\* The product of a sale's virtual reserves never falls: the fee is taken out of the
\* payment before it is priced, and the price is rounded against the buyer.
ProductNeverFalls ==
  [][\A id \in Id : Exists(id) =>
       sale[id].vt * sale[id].vc <= sale'[id].vt * sale'[id].vc]_vars

\* What a sale owes and has paid the protocol never shrinks, unless the treasury
\* itself spends: no withdrawal takes the fee.
RevenueKept ==
  [][\A id \in Id :
       Exists(id) /\ sale[id].fee_treasury \notin Buyer =>
         sale[id].fees_accrued + balance[sale[id].fee_treasury]
           <= sale'[id].fees_accrued + balance'[sale[id].fee_treasury]]_vars

\* Everything a closed sale holds is paid out in the end.
ClosedSalePaysOut ==
  \A id \in Id : (Exists(id) /\ Closed(id)) ~> (Exists(id) /\ held[id] = 0)

\* An open sale can go on to its close: some payment is still accepted ("The
\* whole sale reserve must be quotable", README.md).
ReserveCanBeBought ==
  \A id \in Id :
    Exists(id) /\ ~Closed(id) =>
      \E payment \in 1..PaymentMax :
        BuyAccepted(sale[id], Effective(sale[id].fee_rate, payment))
=============================================================================
