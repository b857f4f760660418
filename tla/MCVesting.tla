----------------------------- MODULE MCVesting -----------------------------
(***************************************************************************)
(* Small instances of Vesting for TLC.  The model values name two          *)
(* accounts, two assets, a batch and the identifiers of its two members.   *)
(* Totals are such that the span does not divide them: the floor matters.  *)
(***************************************************************************)
EXTENDS Vesting

CONSTANTS alice, bob, native, token, b, m0, m1

\* batch_schedule_id(b, 0) = m0 and batch_schedule_id(b, 1) = m1.
MCBatchScheduleId == [x \in {b} |-> [i \in 0..MaxBatch-1 |-> IF i = 0 THEN m0 ELSE m1]]

\* The means Alice has: for so many schedules of so large a total; in the
\* instance with two assets, for two schedules in one and one in the other.
Rich(amount)  == [p \in Account |-> [a \in Asset |-> IF p = alice THEN amount ELSE 0]]
ForTwoOfThree == Rich(6)
ForTwoAndOne  == [p \in Account |-> [a \in Asset |->
                    IF p # alice THEN 0 ELSE IF a = native THEN 4 ELSE 2]]

\* A milestone schedule has no span.
Offer(kind, cliff, end, total, tranches) ==
  [kind |-> kind, start |-> IF kind = "milestone" THEN 0 ELSE Genesis,
   cliff |-> cliff, end |-> end, total |-> total, tranches |-> tranches,
   cancelable |-> TRUE, transferable |-> TRUE,
   cancel_authority |-> NoAccount, milestone_authority |-> NoAccount,
   refund_to |-> alice]

LinearOffer == Offer("linear", 3, 7, 3, 0)
CliffOffer  == Offer("cliff_linear", 5, 7, 3, 0)
SmallOffer  == Offer("linear", 2, 4, 2, 0)

\* The milestone authority of its own, and a refund into an escrow.
DelegatedOffer ==
  [Offer("milestone", 0, 0, 2, 2) EXCEPT !.milestone_authority = bob,
                                         !.refund_to = Holding(b)]

\* Terms new_state refuses: a degenerate span, too many tranches, tranches of a
\* linear schedule, no refund row.
RefusedOffers ==
  {Offer("linear", 2, 2, 2, 0), Offer("milestone", 0, 0, 2, MaxTranches + 1),
   Offer("linear", 2, 4, 2, 1), [SmallOffer EXCEPT !.refund_to = NoAccount]}

TimeOffers   == [a \in Asset |-> {LinearOffer, CliffOffer}]
SharedOffers ==
  [a \in Asset |-> IF a = native THEN {SmallOffer} \cup RefusedOffers
                                 ELSE {DelegatedOffer}]

\* A stranger pays into the escrow of the batch, before or after it is created.
GiftToBatch == {<<Holding(b), 2>>}

\* A beneficiary may name the batch's escrow itself as the destination.
IntoAnEscrow == {bob, Holding(b)}
============================================================================
