------------------------------- MODULE Vesting -------------------------------
(***************************************************************************)
(* The on-chain vesting program (programs/vesting/core/src/lib.rs) on the  *)
(* ledger that runs it.                                                    *)
(*                                                                         *)
(* A transaction is one action: `plan` checks its rows and signers, the    *)
(* sequencer checks the validity window `plan` asked for against the block *)
(* timestamp, `apply` checks and rewrites the schedule shard, and the      *)
(* chained transfer moves the money.  A refusal anywhere undoes the whole  *)
(* transaction, so a refused transaction is a step that never happens.     *)
(*                                                                         *)
(* A caller names every row, amount and time freely: they are parameters   *)
(* of the actions, and the guards are the program's own checks.            *)
(***************************************************************************)
EXTENDS VestingMath

CONSTANTS
  Account,          \* accounts that can sign
  NoAccount,        \* AccountId::default(), "the creator" in the terms
  Asset,            \* Native, or a token definition
  Id,               \* 32-byte identifiers of schedules and of batches
  SingleId,         \* the identifiers single schedules are tried with
  BatchId,          \* the identifiers used to name a batch
  MaxBatch,         \* bound: schedules in one batch
  BatchScheduleId,  \* batch_schedule_id(batch, i), a hash taken as injective
  Funder,           \* accounts that create schedules
  Payee,            \* accounts that may become a beneficiary
  OfferedTerms,     \* the terms creations are tried with, by asset
  Destination,      \* the parties claims are tried to pay
  Gifts,            \* the outside deposits tried: <<escrow, amount>>
  AmountMax,        \* u128::MAX
  TimeMax,          \* u64::MAX, also the last block timestamp
  Genesis,          \* the timestamp of the first block, in ms since the epoch
  CancelWindow,     \* CANCEL_WINDOW_MS
  MaxTranches,      \* MAX_TRANCHES
  InitialBalance,   \* [Account -> [Asset -> Nat]]
  NoSchedule        \* an empty schedule shard

VARIABLES
  now,    \* the block timestamp
  shard,  \* shard[id]: the program's shard of the schedule PDA of id
  bal     \* bal[p][a]: what party p holds of asset a

vars == <<now, shard, bal>>

Amount == 0..AmountMax
Time   == 0..TimeMax

\* The escrow PDA derived from [id, "holding"]: of a schedule or of a batch.
Holding(id) == <<"holding", id>>
Holdings    == {Holding(id) : id \in Id}
Party       == Account \cup Holdings

Kinds == {"cliff_linear", "linear", "milestone"}

Terms ==
  [kind: Kinds, start: Time, cliff: Time, end: Time, total: Amount,
   tranches: Nat, cancelable: BOOLEAN, transferable: BOOLEAN,
   cancel_authority: Account \cup {NoAccount},
   milestone_authority: Account \cup {NoAccount},
   refund_to: Party \cup {NoAccount}]

Schedule ==
  [kind: Kinds, start: Time, cliff: Time, end: Time, total: Amount,
   claimed: Amount, last_seen: Time, beneficiary: Account, escrow: Holdings,
   creator: Account, cancelable: BOOLEAN, transferable: BOOLEAN,
   cancelled_at: Time, signalled: SUBSET (0..MaxTranches-1), tranches: Nat,
   asset: Asset, refund_to: Party, cancel_authority: Account,
   milestone_authority: Account]

ASSUME BoundsAssumption ==
  /\ AmountMax \in Nat /\ TimeMax \in Nat /\ MaxTranches \in Nat \ {0}
  /\ MaxBatch \in Nat \ {0}
  /\ CancelWindow \in Nat \ {0}

\* The chain did not start within a window of 1970: a cancellation is never
\* dated zero, the value `cancelled_at` keeps for "not cancelled".
ASSUME GenesisAssumption == Genesis \in Time /\ Genesis >= CancelWindow

ASSUME AccountsAssumption ==
  /\ Funder \subseteq Account /\ Payee \subseteq Account
  /\ NoAccount \notin Party
  /\ Destination \subseteq Party
  /\ Account \cap Holdings = {}
  /\ InitialBalance \in [Account -> [Asset -> Nat]]

ASSUME IdAssumption ==
  /\ IsFiniteSet(Id)
  /\ SingleId \subseteq Id /\ BatchId \subseteq Id
  /\ BatchScheduleId \in [BatchId -> [0..MaxBatch-1 -> Id]]
  /\ \A x, y \in BatchId, i, j \in 0..MaxBatch-1 :
       BatchScheduleId[x][i] = BatchScheduleId[y][j] => x = y /\ i = j

ASSUME OfferAssumption ==
  /\ OfferedTerms \in [Asset -> SUBSET Terms]
  /\ Gifts \subseteq Holdings \X (Nat \ {0})
  /\ NoSchedule \notin Schedule

----------------------------------------------------------------------------
(* The schedule shard. *)

OrCreator_Unresolved(a, creator) == a             \* mutant: default kept

OrCreator(a, creator) == IF a = NoAccount THEN creator ELSE a

\* What new_state validates before it writes anything.
ValidTerms(terms) ==
  /\ \/ /\ terms.kind = "milestone"
        /\ terms.tranches \in 1..MaxTranches
     \/ /\ terms.kind = "linear" /\ terms.tranches = 0
        /\ terms.start < terms.end
     \/ /\ terms.kind = "cliff_linear" /\ terms.tranches = 0
        /\ terms.start <= terms.cliff /\ terms.cliff < terms.end
  /\ terms.total > 0
  /\ terms.refund_to # NoAccount

NewState(creator, escrow, beneficiary, asset, terms) ==
  [kind |-> terms.kind, start |-> terms.start, cliff |-> terms.cliff,
   end |-> terms.end, total |-> terms.total, claimed |-> 0, last_seen |-> 0,
   beneficiary |-> beneficiary, escrow |-> escrow, creator |-> creator,
   cancelable |-> terms.cancelable, transferable |-> terms.transferable,
   cancelled_at |-> 0, signalled |-> {}, tranches |-> terms.tranches,
   asset |-> asset, refund_to |-> terms.refund_to,
   cancel_authority |-> OrCreator(terms.cancel_authority, creator),
   milestone_authority |-> OrCreator(terms.milestone_authority, creator)]

Exists(id) == shard[id] # NoSchedule

Fresh_Any(id) == TRUE                             \* mutant: creation replayed

\* A schedule id is used once.
Fresh(id) == ~Exists(id)

AnyEscrow(s, seed) == TRUE                        \* mutant: check forgotten

\* expect_holding in plan and the escrow check in apply, taken together: the
\* escrow of the seed the caller gave is the one the schedule was created with.
RightEscrow(s, seed) == Holding(seed) = s.escrow

AnyAsset(s, asset) == TRUE                        \* mutant: check forgotten

RightAsset(s, asset) == asset = s.asset

----------------------------------------------------------------------------
(* The asset shards: the native token and the token program, external. *)

Moved(b, from, to, asset, amount) ==
  LET paid == [b EXCEPT ![from][asset] = @ - amount]
  IN  [paid EXCEPT ![to][asset] = @ + amount]

Covers(from, asset, amount) == amount <= bal[from][asset]

Pays(from, to, asset, amount) ==
  /\ Covers(from, asset, amount)
  /\ bal' = Moved(bal, from, to, asset, amount)

----------------------------------------------------------------------------
(* Creation. *)

Init ==
  /\ now = Genesis
  /\ shard = [id \in Id |-> NoSchedule]
  /\ bal = [p \in Party |-> [a \in Asset |->
              IF p \in Account THEN InitialBalance[p][a] ELSE 0]]

\* Time passes between blocks; a jump is several of these.
Tick ==
  /\ now < TimeMax
  /\ now' = now + 1
  /\ UNCHANGED <<shard, bal>>

CreateAccepted(id, terms) == ValidTerms(terms) /\ Fresh(id)

CreateSchedule(id, creator, beneficiary, asset, terms) ==
  /\ CreateAccepted(id, terms)
  /\ Pays(creator, Holding(id), asset, terms.total)
  /\ shard' = [shard EXCEPT ![id] =
                 NewState(creator, Holding(id), beneficiary, asset, terms)]
  /\ UNCHANGED now

BatchRows(batch, n) == {BatchScheduleId[batch][i] : i \in 0..n-1}

BatchSum_OneShare(total, n) == total              \* mutant: funds one schedule

\* The funding of a batch, refused when the product overflows.
BatchSum(total, n) == total * n

\* One row per beneficiary, in order; one existing schedule refuses them all.
BatchAccepted(batch, n, terms) ==
  /\ ValidTerms(terms)
  /\ BatchSum(terms.total, n) <= AmountMax
  /\ \A id \in BatchRows(batch, n) : Fresh(id)

CreateScheduleBatch(batch, n, payees, creator, asset, terms) ==
  /\ BatchAccepted(batch, n, terms)
  /\ Pays(creator, Holding(batch), asset, BatchSum(terms.total, n))
  /\ shard' = [id \in Id |->
                 IF id \in BatchRows(batch, n)
                   THEN LET i == CHOOSE i \in 0..n-1 :
                                   BatchScheduleId[batch][i] = id
                        IN  NewState(creator, Holding(batch), payees[i],
                                     asset, terms)
                   ELSE shard[id]]
  /\ UNCHANGED now

----------------------------------------------------------------------------
(* Claiming. *)

\* timestamp_window(at..)
ClaimWindowOpen(at) == at <= now

\* What apply asks of the shard before a claim: its holder signs, and takes no
\* more than is owed at the time the claim names.
MayClaim(s, amount, at, signer) ==
  /\ s.beneficiary = signer
  /\ amount <= Claimable(s, at)
  /\ s.claimed + amount <= AmountMax

AfterClaim_Unseen(s, amount, at) ==               \* mutant: time not recorded
  [s EXCEPT !.claimed = @ + amount]

\* What a claim leaves in the shard.
AfterClaim(s, amount, at) ==
  [s EXCEPT !.claimed   = @ + amount,
            !.last_seen = IF at > @ THEN at ELSE @]

ClaimAccepted(id, seed, asset, amount, at, signer) ==
  /\ Exists(id)
  /\ RightEscrow(shard[id], seed)
  /\ RightAsset(shard[id], asset)
  /\ amount > 0
  /\ ClaimWindowOpen(at)
  /\ MayClaim(shard[id], amount, at, signer)

Claim(id, seed, asset, amount, at, signer, destination) ==
  /\ ClaimAccepted(id, seed, asset, amount, at, signer)
  /\ shard' = [shard EXCEPT ![id] = AfterClaim(shard[id], amount, at)]
  /\ Pays(Holding(seed), destination, asset, amount)
  /\ UNCHANGED now

----------------------------------------------------------------------------
(* Cancelling. *)

CancelWindowOpen_NoUpper(at) == at <= now         \* mutant: no upper bound

\* timestamp_window(at..at + CANCEL_WINDOW_MS), refused when the sum overflows.
CancelWindowOpen(at) ==
  /\ at + CancelWindow <= TimeMax
  /\ at <= now
  /\ now < at + CancelWindow

NotBeforeLastClaim_Dropped(s, at) == TRUE         \* mutant: check forgotten

NotBeforeLastClaim(s, at) == at >= s.last_seen

MayCancel_Always(s, signer) ==                    \* mutant: waiver ignored
  s.cancel_authority = signer /\ s.cancelled_at = 0

MayCancel(s, signer) ==
  /\ s.cancel_authority = signer
  /\ s.cancelable
  /\ s.cancelled_at = 0

Frozen(s, at) ==
  [s EXCEPT !.cancelled_at = IF at > 1 THEN at ELSE 1, !.last_seen = at]

CancelAccepted(id, seed, asset, at, signer) ==
  /\ Exists(id)
  /\ CancelWindowOpen(at)
  /\ MayCancel(shard[id], signer)
  /\ RightEscrow(shard[id], seed)
  /\ RightAsset(shard[id], asset)
  /\ NotBeforeLastClaim(shard[id], at)

\* The caller names the refund and its row too, but only the values the program
\* compares them with get through: they are written as those values.  The plan
\* leaves out a refund of zero, and moving zero changes no balance.
Cancel(id, seed, asset, at, signer) ==
  /\ CancelAccepted(id, seed, asset, at, signer)
  /\ shard' = [shard EXCEPT ![id] = Frozen(shard[id], at)]
  /\ Pays(Holding(seed), shard[id].refund_to, asset, Unvested(shard[id], at))
  /\ UNCHANGED now

----------------------------------------------------------------------------
(* Instructions that move no money. *)

WaiverAccepted(id, signer) ==
  Exists(id) /\ shard[id].creator = signer /\ shard[id].cancelable

MakeNonCancelable(id, signer) ==
  /\ WaiverAccepted(id, signer)
  /\ shard' = [shard EXCEPT ![id].cancelable = FALSE]
  /\ UNCHANGED <<now, bal>>

TransferAccepted(id, signer) ==
  Exists(id) /\ shard[id].transferable /\ shard[id].beneficiary = signer

TransferBeneficiary(id, signer, new_beneficiary) ==
  /\ TransferAccepted(id, signer)
  /\ shard' = [shard EXCEPT ![id].beneficiary = new_beneficiary]
  /\ UNCHANGED <<now, bal>>

MaySignal_AfterCancel(s, index) ==                \* mutant: signals after cancel
  s.kind = "milestone" /\ index < s.tranches /\ index \notin s.signalled

MaySignal(s, index) ==
  /\ s.kind = "milestone"
  /\ s.cancelled_at = 0
  /\ index < s.tranches
  /\ index \notin s.signalled

SignalAccepted(id, signer, index) ==
  /\ Exists(id)
  /\ shard[id].milestone_authority = signer
  /\ MaySignal(shard[id], index)

SignalMilestone(id, signer, index) ==
  /\ SignalAccepted(id, signer, index)
  /\ shard' = [shard EXCEPT ![id].signalled = @ \cup {index}]
  /\ UNCHANGED <<now, bal>>

\* Anyone may send an escrow account money outside the program: external.
Deposit(from, to, asset, amount) ==
  /\ Pays(from, to, asset, amount)
  /\ UNCHANGED <<now, shard>>

----------------------------------------------------------------------------
Next ==
  \/ Tick
  \/ \E id \in SingleId, creator \in Funder, beneficiary \in Payee,
        asset \in Asset : \E terms \in OfferedTerms[asset] :
       CreateSchedule(id, creator, beneficiary, asset, terms)
  \/ \E batch \in BatchId, n \in 1..MaxBatch, creator \in Funder,
        asset \in Asset : \E terms \in OfferedTerms[asset] :
       \E payees \in [0..n-1 -> Payee] :
         CreateScheduleBatch(batch, n, payees, creator, asset, terms)
  \/ \E id, seed \in Id, signer \in Account, asset \in Asset, at \in Time,
        amount \in Amount, destination \in Destination :
       Claim(id, seed, asset, amount, at, signer, destination)
  \/ \E id, seed \in Id, signer \in Account, asset \in Asset, at \in Time :
       Cancel(id, seed, asset, at, signer)
  \/ \E id \in Id, signer \in Account : MakeNonCancelable(id, signer)
  \/ \E id \in Id, signer \in Account, new_beneficiary \in Payee :
       TransferBeneficiary(id, signer, new_beneficiary)
  \/ \E id \in Id, signer \in Account, index \in 0..MaxTranches-1 :
       SignalMilestone(id, signer, index)
  \/ \E from \in Account, asset \in Asset, gift \in Gifts :
       Deposit(from, gift[1], asset, gift[2])

Spec == Init /\ [][Next]_vars

\* A beneficiary who keeps claiming everything owed, at the block's own time.
ClaimInFull(id) ==
  \E seed \in Id, destination \in Destination :
    Claim(id, seed, shard[id].asset, Claimable(shard[id], now), now,
          shard[id].beneficiary, destination)

\* The sequencer keeps producing blocks, and beneficiaries keep claiming.
FairSpec ==
  /\ Spec
  /\ WF_vars(Tick)
  /\ \A id \in Id : WF_vars(Exists(id) /\ ClaimInFull(id))
----------------------------------------------------------------------------
(* Correctness. *)

\* The types of the clock, the shards and the balances.
TypeOK ==
  /\ now \in Genesis..TimeMax
  /\ shard \in [Id -> Schedule \cup {NoSchedule}]
  /\ bal \in [Party -> [Asset -> Nat]]

\* Nobody is ever paid ahead of the schedule: what has been claimed is at most
\* what has vested by now, also after a cancellation dated in the past (the
\* last_seen check of `apply` and the claim window of `plan`).
NeverAheadOfSchedule ==
  \A id \in Id : Exists(id) => shard[id].claimed <= Vested(shard[id], now)

\* All an escrow will ever have to pay for a schedule: the total, or what a
\* cancellation left to the beneficiary.
Entitlement(s) ==
  IF s.cancelled_at = 0 THEN s.total ELSE Vested(s, s.cancelled_at)

\* Of the given shards, those that escrow h must pay in asset a.  A batch has one
\* escrow for all its members, and a schedule with the batch's own id shares it.
Secured(shards, h, a) ==
  {id \in Id : /\ shards[id] # NoSchedule
              /\ shards[id].escrow = h /\ shards[id].asset = a}

\* One pair for every unit still owed: their number is the sum, over the
\* secured schedules, of Entitlement - claimed.
OwedUnits(shards, h, a) ==
  {u \in Id \X Amount :
     /\ u[1] \in Secured(shards, h, a)
     /\ shards[u[1]].claimed < u[2]
     /\ u[2] <= Entitlement(shards[u[1]])}

\* An escrow always holds what all its schedules together are still owed, asset
\* by asset, so no claim or cancellation of one schedule spends another's money.
EscrowSolvent ==
  \A h \in Holdings, a \in Asset :
    Cardinality(OwedUnits(shard, h, a)) <= bal[h][a]

\* What new_state and the signals leave of the terms.
SoundTerms(s) ==
  /\ s.kind # "milestone" => s.start < s.end
  /\ s.kind = "milestone" =>
       s.tranches \in 1..MaxTranches /\ s.signalled \subseteq 0..s.tranches-1

\* A shard as the program leaves it: its terms passed new_state, the times it
\* records have passed, and what was claimed had vested by its last claim, or by
\* its cancellation.
Sound(s) ==
  /\ SoundTerms(s)
  /\ s.last_seen <= now /\ s.cancelled_at <= now
  /\ s.claimed <= Vested(s, s.last_seen)

\* The inductive invariant behind NeverAheadOfSchedule and EscrowSolvent.
Inductive ==
  /\ TypeOK
  /\ \A id \in Id : Exists(id) => Sound(shard[id])
  /\ EscrowSolvent

\* No transaction, a back-dated cancellation included, takes from a beneficiary
\* anything that had vested a cancellation window ago.
AccrualFloor ==
  [][\A id \in Id : Exists(id) =>
       Vested(shard[id], now - (CancelWindow - 1)) <= Vested(shard'[id], now')]_vars

\* Once cancelled, what a schedule has vested never moves again: not with time,
\* a late milestone signal, a second cancellation or a replayed creation.
FrozenStays ==
  [][\A id \in Id : Exists(id) /\ shard[id].cancelled_at # 0 =>
       Vested(shard'[id], now') = Vested(shard[id], now)]_vars

\* Once a live schedule was made non-cancelable its beneficiary never loses a
\* unit of what has vested, whoever signs what.
WaiverHolds ==
  [][\A id \in Id :
       Exists(id) /\ ~shard[id].cancelable /\ shard[id].cancelled_at = 0 =>
         Vested(shard[id], now) <= Vested(shard'[id], now')]_vars

\* A beneficiary who keeps claiming is paid, in the end, all that the schedule
\* ever vests: no other member of the escrow, authority or clock can prevent it.
EventuallySettled ==
  \A id \in Id :
    (Exists(id) /\ shard[id].kind # "milestone")
      ~> (Exists(id) /\ shard[id].claimed = Entitlement(shard[id]))

\* The program keeps the promise of VestingPromise, although it pools the purses
\* of a batch in one escrow account: a grant is a schedule shard, what is earned
\* is what has vested by now, and the wallets are the balances of the accounts.
GrantOf(s) ==
  [asset |-> s.asset, total |-> s.total, refundTo |-> s.refund_to,
   paid |-> s.claimed,
   standing |-> IF s.cancelled_at # 0 THEN "revoked"
                ELSE IF s.cancelable THEN "revocable" ELSE "irrevocable"]

Grant ==
  [asset: Asset, total: Amount, refundTo: Party, paid: Amount,
   standing: {"revocable", "irrevocable", "revoked"}]

ASSUME GrantAssumption == NoSchedule \notin Grant

Promise == INSTANCE VestingPromise WITH
  Opening <- InitialBalance,
  NoGrant <- NoSchedule,
  grant   <- [id \in Id |-> IF Exists(id) THEN GrantOf(shard[id]) ELSE NoSchedule],
  earned  <- [id \in Id |-> IF Exists(id) THEN Vested(shard[id], now) ELSE 0],
  wallet  <- [p \in Account |-> bal[p]]

\* The refinement, stated as a property of the runs.
KeepsPromise == Promise!Spec
=============================================================================
