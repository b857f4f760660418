------------------------------- MODULE Ledger -------------------------------
(***************************************************************************)
(* The ledger as the tools around the vesting program see it: the          *)
(* transactions that blocks included, in order.  On v0.3 a transaction the *)
(* program refuses is included and charged all the same and changes        *)
(* nothing, so inclusion says nothing about the outcome, and only the      *)
(* ledger itself knows it.  The command line (Client) and the activity     *)
(* list of the desktop app (Activity) work the outcome out again.          *)
(***************************************************************************)
EXTENDS Vesting, Sequences

CONSTANTS
  Offered,    \* the instructions others send
  MaxLog,     \* bound: transactions included
  MaxRefused  \* bound: of those, refused

VARIABLE log  \* what blocks included, oldest first

ledgerVars == <<now, shard, bal, log>>

(* An instruction names the row it takes its signature from, `signer`, and  *)
(* `signed` says whether that account did sign.                             *)

\* What the words of a transaction decode to: ids, accounts, amounts, times.
Decoded(ix) ==
  /\ ix.op \in {"create", "batch", "claim", "cancel", "lock", "transfer", "signal"}
  /\ ix.signed \in BOOLEAN /\ ix.signer \in Account
  /\ ix.op # "batch" => ix.id \in Id
  /\ CASE ix.op = "create" ->
            ix.beneficiary \in Account /\ ix.asset \in Asset /\ ix.terms \in Terms
       [] ix.op = "batch" ->
            /\ ix.batch \in BatchId /\ ix.asset \in Asset /\ ix.terms \in Terms
            /\ ix.payees \in Seq(Account) /\ Len(ix.payees) \in 1..MaxBatch
       [] ix.op = "claim" ->
            /\ ix.seed \in Id /\ ix.asset \in Asset /\ ix.destination \in Party
            /\ ix.amount \in Nat /\ ix.at \in Nat /\ ix.private \in BOOLEAN
       [] ix.op = "cancel" ->
            /\ ix.seed \in Id /\ ix.asset \in Asset /\ ix.at \in Nat
       [] ix.op = "lock" -> TRUE
       [] ix.op = "transfer" -> ix.new_beneficiary \in Account
       [] ix.op = "signal" -> ix.index \in 0..MaxTranches-1

\* The schedules in whose accounts' histories the transaction is.
Names(ix, id) ==
  IF ix.op = "batch" THEN id \in BatchRows(ix.batch, Len(ix.payees)) ELSE ix.id = id

ASSUME OfferedDecode == \A ix \in Offered : Decoded(ix)

\* The program applies ix: its action of Vesting is possible.
Executes(ix) ==
  /\ ix.signed
  /\ CASE ix.op = "create" ->
            CreateSchedule(ix.id, ix.signer, ix.beneficiary, ix.asset, ix.terms)
       [] ix.op = "batch" ->
            LET n == Len(ix.payees)
            IN  CreateScheduleBatch(ix.batch, n,
                                    [i \in 0..n-1 |-> ix.payees[i + 1]],
                                    ix.signer, ix.asset, ix.terms)
       [] ix.op = "claim" ->
            Claim(ix.id, ix.seed, ix.asset, ix.amount, ix.at, ix.signer,
                  ix.destination)
       [] ix.op = "cancel" ->
            /\ Exists(ix.id)
            /\ ix.refund = Unvested(shard[ix.id], ix.at)
            /\ Cancel(ix.id, ix.seed, ix.asset, ix.at, ix.signer)
       [] ix.op = "lock" -> MakeNonCancelable(ix.id, ix.signer)
       [] ix.op = "transfer" ->
            TransferBeneficiary(ix.id, ix.signer, ix.new_beneficiary)
       [] ix.op = "signal" -> SignalMilestone(ix.id, ix.signer, ix.index)

\* It is: the checks of plan and apply pass, and the payer has what is moved.
Executable(ix) ==
  /\ ix.signed
  /\ CASE ix.op = "create" ->
            /\ CreateAccepted(ix.id, ix.terms)
            /\ Covers(ix.signer, ix.asset, ix.terms.total)
       [] ix.op = "batch" ->
            /\ BatchAccepted(ix.batch, Len(ix.payees), ix.terms)
            /\ Covers(ix.signer, ix.asset, BatchSum(ix.terms.total, Len(ix.payees)))
       [] ix.op = "claim" ->
            /\ ClaimAccepted(ix.id, ix.seed, ix.asset, ix.amount, ix.at, ix.signer)
            /\ Covers(Holding(ix.seed), ix.asset, ix.amount)
       [] ix.op = "cancel" ->
            /\ CancelAccepted(ix.id, ix.seed, ix.asset, ix.at, ix.signer)
            /\ ix.refund = Unvested(shard[ix.id], ix.at)
            /\ Covers(Holding(ix.seed), ix.asset, ix.refund)
       [] ix.op = "lock" -> WaiverAccepted(ix.id, ix.signer)
       [] ix.op = "transfer" -> TransferAccepted(ix.id, ix.signer)
       [] ix.op = "signal" -> SignalAccepted(ix.id, ix.signer, ix.index)

\* `ok` and `before`, the shards the transaction found, are the ledger's own
\* knowledge: they are in no index.
Recorded(tx, ok) == log' = Append(log, [tx |-> tx, ok |-> ok, before |-> shard])

Applies(tx) ==
  /\ Executes(tx.ix)
  /\ Recorded(tx, TRUE)

\* A claim into a shielded account, proved by its sender: it is only ever
\* included once its proof checked.
Shielded(ix) == ix.op = "claim" /\ ix.private

\* A transaction outside its validity window may be held back or be included
\* and refused: the sequencer's choice.
Refuses(tx) ==
  /\ ~Executable(tx.ix) /\ ~Shielded(tx.ix)
  /\ Cardinality({k \in DOMAIN log : ~log[k].ok}) < MaxRefused
  /\ Recorded(tx, FALSE)
  /\ UNCHANGED vars

\* A block includes tx, an instruction with what its sender adds to it.
Include(tx) ==
  /\ Len(log) < MaxLog
  /\ Applies(tx) \/ Refuses(tx)

\* The transactions others send.
OthersTx == {[by |-> 0, ix |-> ix] : ix \in Offered}

\* Transactions sent by others, and time.
LedgerInit == Init /\ log = << >>

LedgerTick == Tick /\ UNCHANGED log

LedgerNext ==
  \/ LedgerTick
  \/ \E tx \in OthersTx : Include(tx)

LedgerSpec == LedgerInit /\ [][LedgerNext]_ledgerVars
=============================================================================
