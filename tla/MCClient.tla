------------------------------ MODULE MCClient ------------------------------
(* A command for every instruction, on a linear or a milestone schedule, or   *)
(* with none there yet; another holder of the same key, and the authority.    *)
EXTENDS Client

CONSTANTS alice, bob, carol, native, b, m0

MCBatchScheduleId == [x \in {b} |-> [i \in 0..MaxBatch-1 |-> m0]]
NoTerms == [a \in Asset |-> {}]

AliceHasThree == [p \in Account |-> [a \in Asset |-> IF p = alice THEN 3 ELSE 0]]

Offer(kind, start, end, tranches) ==
  [kind |-> kind, start |-> start, cliff |-> start, end |-> end, total |-> 3,
   tranches |-> tranches, cancelable |-> TRUE, transferable |-> TRUE,
   cancel_authority |-> NoAccount, milestone_authority |-> NoAccount,
   refund_to |-> alice]

LinearOffer    == Offer("linear", 1, 4, 0)
MilestoneOffer == Offer("milestone", 0, 0, 2)

MCExisting == {<<terms, alice, bob, native>> : terms \in {LinearOffer, MilestoneOffer}}

ClaimOf(amount, at, private) ==
  [op |-> "claim", signed |-> TRUE, id |-> m0, seed |-> m0, asset |-> Default,
   amount |-> amount, at |-> at, signer |-> bob, destination |-> bob,
   private |-> private]

CancelOf(refund, at) ==
  [op |-> "cancel", signed |-> TRUE, id |-> m0, seed |-> m0, asset |-> Default,
   refund |-> refund, at |-> at, signer |-> alice]

Transfer == [op |-> "transfer", signed |-> TRUE, id |-> m0, signer |-> bob,
             new_beneficiary |-> carol]
Signal   == [op |-> "signal", signed |-> TRUE, id |-> m0, signer |-> alice, index |-> 0]
Create   == [op |-> "create", signed |-> TRUE, id |-> m0, signer |-> alice,
             beneficiary |-> bob, asset |-> native, terms |-> LinearOffer]
Batch    == [op |-> "batch", signed |-> TRUE, batch |-> b, payees |-> <<bob>>,
             signer |-> alice, asset |-> native, terms |-> LinearOffer]

MCCommands ==
  {ClaimOf(Default, 0, FALSE), ClaimOf(1, 1, FALSE), ClaimOf(Default, 0, TRUE),
   CancelOf(Default, -1), Transfer, Signal, Create, Batch}

\* The beneficiary claims from elsewhere, and the authority signals.
MCOffered == {[ClaimOf(1, 3, FALSE) EXCEPT !.asset = native], Signal}
=============================================================================
