----------------------------- MODULE MCActivity -----------------------------
(***************************************************************************)
(* One schedule id, created alone or as the only member of a batch, and    *)
(* transactions on it: right ones, and one of each way to be refused.      *)
(***************************************************************************)
EXTENDS Activity

CONSTANTS alice, bob, carol, native, b, m0

MCBatchScheduleId == [x \in {b} |-> [i \in 0..MaxBatch-1 |-> m0]]

AliceHasThree == [p \in Account |-> [a \in Asset |-> IF p = alice THEN 3 ELSE 0]]

Offer(kind, start, end, tranches, authority) ==
  [kind |-> kind, start |-> start, cliff |-> start, end |-> end, total |-> 3,
   tranches |-> tranches, cancelable |-> TRUE, transferable |-> TRUE,
   cancel_authority |-> authority, milestone_authority |-> NoAccount,
   refund_to |-> alice]

LinearOffer    == Offer("linear", 3, 5, 0, NoAccount)
MilestoneOffer == Offer("milestone", 0, 0, 2, carol)

\* The creations of the ledger are those offered below.
NoTerms == [a \in Asset |-> {}]

Creations ==
  {[op |-> "create", signed |-> TRUE, id |-> m0, signer |-> alice,
    beneficiary |-> bob, asset |-> native, terms |-> LinearOffer],
   [op |-> "batch", signed |-> TRUE, batch |-> b, payees |-> <<bob>>,
    signer |-> alice, asset |-> native, terms |-> MilestoneOffer]}

ClaimOf(seed, amount, at, signer, private) ==
  [op |-> "claim", signed |-> TRUE, id |-> m0, seed |-> seed, asset |-> native,
   amount |-> amount, at |-> at, signer |-> signer, destination |-> bob,
   private |-> private]

\* With the wrong escrow of the two, too much, too early, of another's.
Claims ==
  {ClaimOf(seed, amount, 4, bob, FALSE) : seed \in {m0, b}, amount \in {1, 2}}
    \cup {ClaimOf(m0, 1, 5, bob, p) : p \in BOOLEAN}
    \cup {ClaimOf(m0, 1, 4, carol, FALSE)}

CancelOf(seed, at, refund, signer) ==
  [op |-> "cancel", signed |-> TRUE, id |-> m0, seed |-> seed, asset |-> native,
   at |-> at, refund |-> refund, signer |-> signer]

Cancels ==
  {CancelOf(m0, 3, 3, alice), CancelOf(m0, 4, 2, alice),
   CancelOf(b, 4, 2, carol), CancelOf(m0, 4, 2, bob)}

Others ==
  {[op |-> "lock", signed |-> TRUE, id |-> m0, signer |-> p] : p \in {alice, bob}}
    \cup {[op |-> "transfer", signed |-> TRUE, id |-> m0, signer |-> bob,
           new_beneficiary |-> carol]}
    \cup {[op |-> "signal", signed |-> s, id |-> m0, signer |-> alice,
           index |-> i] : i \in {0, 1}, s \in BOOLEAN}

MCOffered == Creations \cup Claims \cup Cancels \cup Others
============================================================================
