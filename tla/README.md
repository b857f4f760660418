# Antumbra in TLA+

A TLA+ model of the Antumbra programs, of the library they share, and of the
command line and the desktop app that work with them, checked with TLC on small
instances and, all but liveness, proved with TLAPS for every value of the
constants. Paths below are relative to the repository.

## 1. Inventory

| Component | State it keeps | Operations | Interacts with |
|---|---|---|---|
| Vesting program v0.3, `programs/vesting/core` | one shard per schedule (terms, `claimed`, `last_seen`, `cancelled_at`, signalled milestones, authorities); the money is in an escrow account, one per schedule or per batch | create, create batch, claim, cancel, make non-cancelable, transfer beneficiary, signal milestone | the native and token programs (chained transfers), the sequencer (validity windows against the block time) |
| Vesting schedule of the library, `src/vesting.rs` | a `Schedule` value | the same, with the time as an argument | its caller; the program takes its accrual arithmetic |
| 256-bit arithmetic, `src/lib.rs` | none | `wide_mul`, `wide_div`, `mul_div_floor`, `mul_div_ceil` | everything that multiplies amounts |
| Bonding curve of the library, `src/lib.rs` | a `Curve`: virtual and real reserves | new, buy, sell, quotes both ways | its caller, the curve program |
| Fees, `src/fees.rs` | none | per-swap fee, fee at close | both v0.2.4 programs |
| Curve program, `programs/curve` | a sale per identifier (curve, fee accrued), a holding account | create, buy, collect fees (by anybody), withdraw (by the creator, once closed) | native transfers, outside deposits |
| Weighted pool mathematics, `src/weighted.rs`, `src/binfixed.rs` | none | weight at a time, fractional power, buy | the LBP program |
| LBP program, `programs/lbp` | a pool per identifier (reserves, weights, `last_seen`, paused), a holding account | create, buy, withdraw, pause | native transfers |
| Command line, `cli/src/main.rs` | during one command: the schedule read, the instruction built, the attempts sent | read, build, send up to three times, look for each attempt, report a verdict | the wallet, the node, the schedule's other users |
| App: activity replay, `app/src/vesting_chain.cpp` | none | tell from the list of a schedule's transactions which of them applied | the explorer's index, the node |
| App: chain reader and backend, `app/src` | node and program settings, questions in flight | answer a question out of several requests, save the settings | the node, the explorer, the view |
| App: view, `app/src/qml/Main.qml` | the schedule shown, its activity, the claim sheet, what is loading | look up, open, close, refresh, prepare a claim, handle an answer | the backend, through tokens |

What is hard in it:

- *Callers name the time.* A program of this ledger has no clock. The vesting
  program has the sequencer check a window around the time a caller names; the
  library and the LBP program trust the time. Transactions dated in the past
  arrive in any order.
- *Money moves apart from state.* The vesting `plan` emits the transfer from the
  caller's rows before any state is read; `apply` sees the state but cannot move
  anything. Only the checks on both sides tie the one to the other.
- *Shared accounts.* A batch pays all its schedules from one escrow account, and a
  schedule made with the batch's identifier derives the same account. In a curve
  sale the collateral, the protocol's fee and outside deposits share one holding.
- *Rounding.* Everything is an integer quotient; the direction of each decides
  who is owed the residue after many steps.
- *Refused is not rejected.* On v0.3 a transaction the program refuses is included
  and charged, and nothing on the ledger says that it was refused. The command
  line and the app's activity list must work the outcome out again, each from less
  than the program had.
- *Late and repeated transactions.* The command line sends again what it did not
  find; the network may drop, hold or reorder each attempt, and lose answers.
- *Late answers.* The app asks by token and goes on; answers of a schedule no
  longer shown, or of a node no longer set, arrive after the view has moved on.

What makes each correct is stated by the properties of section 3, and
`PROJECT.json` lists, under `hazards`, the lines where each could go wrong and
the properties that watch them.

## 2. Modules

| Module | Models |
|---|---|
| `Arithmetic` | the quotients of `mul_div_floor` and `mul_div_ceil`, and `linear_between` |
| `ArithmeticProofs` | lemmas about them, two induction principles, and sums over finite sets |
| `VestingMath` | accrual: `vested_at`, `vested`, `claimable`, `unvested` |
| `Vesting` | the vesting program on its ledger |
| `VestingPromise` | abstract specification: what the vesting program promises its users |
| `VestingProofs` | theorems about `VestingMath` and `Vesting`, the refinement of `VestingPromise` among them |
| `Ledger` | what blocks include around the vesting program: transactions in order, applied or refused |
| `Client` | one command of the command line, composed with `Ledger` and a network |
| `Activity` | the app's replay, composed with `Ledger` |
| `LedgerProofs` | theorems about the three above |
| `App`, `AppProofs` | the app's view, backend and chain reader; theorems about them |
| `HostSchedule` | the schedule of the library, under any clock |
| `HostScheduleProofs` | theorems about it |
| `WideMath` | 256-bit product and division, bit by bit |
| `WideMathProofs` | theorems about it, for every width of the word |
| `CurveMath` | prices and fees of the bonding curve |
| `CurvePool` | the library's curve between traders |
| `CurveSale` | the curve program on its ledger |
| `CurveProofs` | theorems about the three above |
| `LbpMath`, `Lbp` | weights and prices, and the LBP program on its ledger |
| `LbpProofs` | theorems about the two above |
| `MC*` | small instances for TLC |

`PROJECT.json` maps each definition to the lines it models. Three conventions
hold throughout. A transaction is one action, because the ledger applies it
whole or not at all: the guards are all the checks it passes (`plan`, validity
window, `apply`, chained transfer), and a refused transaction is a step that
does not happen (`Ledger` records it where its readers see it). A caller's
arguments are parameters quantified over all rows, signers, times and amounts of
the instance. Products are those of unbounded integers where the code forms them
in 256 bits, which `WideMath` justifies; sums that the code refuses to overflow
have the bound as a guard.

**Vesting.** `now` is the block timestamp, `shard[id]` the schedule shard,
`bal[party][asset]` the balances that the native and token programs own,
accounts and escrow addresses together. `plan`'s validity windows are
`ClaimWindowOpen` and `CancelWindowOpen`; `apply`'s refusals are `Fresh`,
`MayClaim`, `MayCancel`, `NotBeforeLastClaim`, `MaySignal`, `RightEscrow`,
`RightAsset`. All that an instruction asks for is gathered in its `...Accepted`, and
`Covers` says that the payer has the money. `Deposit` is money sent to an escrow from outside. Three external
assumptions: block timestamps do not decrease; address derivation
is injective; the first block comes at least a cancellation window after 1970
(`GenesisAssumption`: otherwise a cancellation could be dated 0, the value that
stands for "not cancelled", which the code maps to 1).

**VestingPromise** has no clock, kinds or escrows. Every grant has a purse of
its own: it is filled once with the total, what is earned only grows until one
revocation fixes it, at no less than what was paid, and sends exactly the rest
back; `standing` says whether a grant can still be revoked, no longer can, or was.
`Vesting` implements it under the mapping stated at its end: a grant is a
schedule shard, what is earned is what has vested by now, the wallets are the
balances of accounts. Escrow pooling is invisible to it.

**Ledger** adds to `Vesting` the log of included transactions. `Executes` decodes
an instruction and hands it to its action of `Vesting`; `Executable` is that
action's guard (`...Accepted` and `Covers`), and an instruction without it is included as
refused, or not at all. A shielded claim is proved by its sender
and never included when refused. `ok` and `before` in the log are the ledger's own
knowledge, used only to state properties.

**Client** is one command, from its first read to its report, step by step:
`ReadSchedule`, `BuildClaim`/`BuildCancel`/`BuildOther` (local checks and
defaults; the asset is always the one of the schedule read), `ReadBefore`, then `Send`/`SendFails`, `Found`/`Missed` for each
attempt, and `ReportFound`. `pool` holds what was submitted and not included: the
network takes from it when it likes, in nonce order, or never. The payer may send
elsewhere in between, and others may use the schedule. `cli` is the command's
local variables, `pc` its place; `height`, how long the log was when the
schedule was read before sending, is a history the code does not have. `--force` only skips local checks and is left out.

**Activity** keeps no state, as the code keeps none: `Replay` is a function of the
schedule read that gives, for each position of the log, the schedule as replayed up
to there and the verdict on the transaction listed there. An index that trails the
chain knows it up to a position, and the properties quantify over all of them.

**App** keeps the backend's settings, the questions in flight (`waiting`, each with
the requests it still has to make and the nodes it read so far) and the view's
variables. A request goes to the node in force when it is sent. `Answered` is the
handler of each signal with its early returns (`Dropped`), `Failed` the error
path. The claim sheet is modal: under it only the minute's timer asks and only a save
sent before it is answered. The settings dialog can be closed while its save is
on its way, so nothing waits for a save. The claim sheet's figures and their
spinner (`claimCtx`, `claimCtxState`) are filled in by the answer, unless that
comes after another beneficiary was shown. Two variables are histories the code
does not have: `overlapped` (the view moved on under a question in flight) and
`outdated` (the beneficiary shown changed under the claim sheet since it was opened
or filled in). Tokens are reused once free, where the code's counter is not: they only
tell questions apart.

**HostSchedule** is the library's value with its constructors and methods, the
refusals of both included; a list of tranches whose sum overflows (`AmountMax`) is
refused like a wrong span. Callers may name times that go back; `seen` records the
latest one.

**WideMath** starts from any two words and any divisor and takes one step per
round of `wide_div`'s loop. Shifts drop the bit that leaves the word, as the
machine does; sums are left unbounded and `TypeOK` shows that they never leave
the word, so that no checked addition panics.

**CurvePool, CurveSale.** `CurvePool` adds the tokens traders hold (`sold`) to
the library's curve, and allows only what is held to be sold back.
`CurveSale` has the sale PDA (`sale`), its holding account and the balances; the
program has no sell instruction. `Deposit` is an outside transfer to the
holding of a sale that exists; before that, the ledger would only block the
creation. `min_tokens_out` lets a buyer refuse a price and is left out, as is
`seed_reserve`, which is stored and never read.

**Lbp.** The program reads no clock, so the model has none: a time is an argument
its caller names. The kernel returns zero for a base of zero and, at equal weights,
the base itself; everywhere else it sums a series, and the model lets any
value of the scale come back (`Pow` is a set, out of which `ExecuteBuy` takes the
share of the reserve that is kept). That covers the error of the series and
its casts: `as i128` at `src/binfixed.rs:210` turns a scaled logarithm past
2^127 negative, and its exponential into one. Whatever holds of the model holds for
any kernel with those two cases; nothing is claimed of the kernel's accuracy, nor
that it is monotone, which it is not. The creator and the fee treasury are taken
to be different accounts.

## 3. What is checked

Bounds: two or three accounts, one or two assets, at most three schedules, totals
that the span does not divide, so that every floor matters. In the vesting runs
the clock covers the whole accrual and both sides of the window (two ticks
here, 120 s in the code): a cancellation can be dated before, at and after the
last claim and one tick too late. A command has the code's three attempts, a
log of three transactions and one other use of the payer's nonce: one attempt can
land late, be refused, or be overtaken by another's transaction, in any order with
its successors. The activity log holds a creation and four more transactions, two
of them refused: enough for a wrong verdict to change later ones. Asking a question, saving the
settings and a change of a beneficiary on the chain are the app's bounded
events; there are six in all (`MaxEvents`), spent in any mix. Six let a schedule be opened
and its activity read, a claim prepared and the sheet closed, a second schedule opened
over it, and a claim prepared there, before the first claim is answered; or a beneficiary
change and two refreshes under an open sheet. The app's run uses symmetry between schedules (with their people) and between nodes, and only
invariants. Deadlock is not checked anywhere: each
instance stops when its clock, its money, its reserve or its questions are used up.

| Run | States | Question |
|---|---|---|
| `vesting_time` | 30,070 | time in every order: nobody is paid ahead (`NeverAheadOfSchedule`), nobody loses what vested a window ago (`AccrualFloor`), the waiver holds (`WaiverHolds`), escrows are solvent, the invariant of the proofs holds (`Inductive`), and with blocks and claims going on every schedule is paid all it ever vests (`EventuallySettled`) |
| `vesting_shared` | 39,486 | two assets, a batch and a schedule on one escrow account, milestones with delegated authorities, outside deposits, payouts into an escrow, and terms that must be refused: `EscrowSolvent`, `FrozenStays`, `KeepsPromise` |
| `host_any_time` | 3,622 | the library under a clock that goes back: nothing paid ahead, a cancellation is final, and one named in order splits the total exactly |
| `wide_words` | 16,272 | all 4-bit products and divisors: quotients exact, refused exactly when too large |
| `curve_trades` | 2,615 | buys and sells in any order: all tokens can be sold back (`HoldersCanLeave`), the exact-out quote is the least payment that the pool takes for as many tokens, whenever it takes any (`QuoteIsLeast`), the books balance |
| `sale_books` | 109,660 | two sales; sweeps, withdrawals and deposits in any order: the holding backs collateral and fee, the product never falls, revenue is kept, and a closed sale is paid out in full |
| `lbp_sale` | 30,879 | purchases at any named times, pauses, withdrawals, whatever the kernel's series returns: money conserved, weights only advance, and at equal weights the product of the reserves falls by no more than the rounding (`RoundingCostsLittle`) |
| `client_send` | 834,229 | a command of every kind against a network that holds, drops and reorders attempts and loses answers: "reverted" is true (`RevertedIsTrue`), "applied" is as long as nobody else changes the schedule meanwhile (`AppliedAsIntended`), a command that the program does not let repeat applies once (`AppliesOnce`), a refusal has a cause the command could not see or does not check (`RefusedHasCause`), and it reports (`Reported`) |
| `activity_replay` | 482,141 | every ledger of up to five transactions on a schedule, right ones and one of each way to be refused, from every prefix: the first wrong verdict is never a false refusal (`FirstErrorIsLenient`), and refusals the replay knows of are all told (`ToldRefusalsReplayRight`) |
| `app_view` | 2,599,329 | questions about two schedules, two nodes and changing beneficiaries, answered in any order: the activity is that of the schedule shown, a spinner has a question behind it, what is shown was read whole from the node in force unless the view moved on under a question, and the claim sheet is of the schedule and the beneficiary shown, within what `ClaimSheetOfShown` says |

Together these runs take every action of every next-state relation. Each
property is paired in `PROJECT.json` with a plausible bug in the code that
breaks it. Those bugs are the definitions marked "mutant" in the modules; no
specification uses them.

**Fairness.** `Vesting!FairSpec` has the sequencer go on producing blocks
(`WF(Tick)`: the code relies on nothing less, and a ledger that stops pays nobody) and each
beneficiary go on claiming what is owed at the block's time. Weak fairness is
enough: a claim in full stays possible until it or another claim is made. No
fairness is assumed of creators or authorities, and none of milestone
authorities, so milestone schedules are excluded. `CurveSale!FairSpec` has
somebody go on sweeping fees, which anybody may, and the creator go on
withdrawing. `ClientSpec` has the command's own steps go on (`WF(Step)`: each read,
submission and wait of the code ends, by an answer or a timeout); nothing is
assumed of the network, which may drop everything. `App` has no fairness: an
answer may never come, and `SpinnersHaveACause` says what the view can promise
without one.

### Where the code and its documents differ

Two are runs that TLC is expected to find violated.

1. `sale_close`. When one unit of collateral buys more tokens than remain, no
   payment is accepted: the sale never closes, and `withdraw` stays shut. A
   buyer who pays what `quote_buy_exact_out` asks for the rest is refused.
2. `client_twice`. An attempt that lands after the command last looked for it and
   before the next one is signed leaves the next a nonce of its own: both land
   and are charged, against `cli/src/main.rs:358` ("at most one lands") and
   `docs/deploy-v03.md:146`. `AppliesOnce` shows that the second is refused,
   where the program does not allow a repetition. It does for a claim of a named
   amount, for a claim of milestones (a signal in between makes more due)
   and for a transfer: those can take effect twice.

These were met while modelling and have no run of their own:

- The parts of the library's cancellation do not "always sum to `total`"
  (`src/vesting.rs:83`) if a claim named a later time than the cancellation: there
  is no `last_seen` in the library. The program refuses it. `OrderedSplitSums` is
  what holds.
- "`applied` means the schedule shard changed as the instruction intends"
  (`cli/src/main.rs:14`). The verdict compares the shard before and after: an
  attempt that was refused is reported as applied when somebody else's transaction
  changed the shard in between. `AppliedAsIntended` is what holds: the word is true
  as long as nobody else's transaction applied to the schedule.
- A claim sheet's answer is dropped when another beneficiary is shown by then
  (`app/src/qml/Main.qml:303`), and with it the end of the sheet's spinner: it goes on saying
  that it reads until the sheet is closed. And when a refresh brings another
  beneficiary after the answer, the sheet keeps the balance, the amount and the destination
  of the one before. `SpinnersHaveACause` and `ClaimSheetOfShown` except
  these two cases by name (`outdated`).
- The creator of an LBP sale withdraws before its end by naming a later time
  (`programs/lbp/src/bin/antumbra_lbp.rs:336`, against line 305).
- The payout of the weighted purchase is one minus a power of a base rounded down, so
  the rounding favours the buyer (`src/binfixed.rs:240`, against line 218).
  `RoundingCostsLittle` bounds it at equal weights. `src/weighted.rs:28` and `:166`
  name the same direction for the power, which is then taken from one.
- A payment can buy less at a lower weight of the token, where the formula gives more:
  with one unit of collateral in the reserve, a payment of 10^17 units buys the whole
  token reserve at a weight of 2 and nothing at a weight of 1 (both of 10^18), because the
  cast at `src/binfixed.rs:210` turns negative. No property here says that waiting
  never costs more.
- The replay is more lenient than the program: a second waiver, a payment from the
  wrong escrow, an unsigned instruction, a signal after the cancellation and a
  cancellation dated before the last claim are shown as applied, against
  `app/src/vesting_chain.h:91`. And when a transaction that was refused for want of a
  schedule comes before the creation, the creation is shown as refused.
- "An answer to a question the view has moved on from is dropped"
  (`app/src/qml/Main.qml:93`) holds of refreshes, activities and claim contexts,
  and not of a lookup or an opening: a late one replaces a later one, opens a schedule again
  after it was closed, or shows one read from the node before a save. This is why
  `ShownFromNodeInForce` and part of `ClaimSheetOfShown` are about the case that nothing
  was moved on from, and `ActivityOfShown` is not.

## 4. What is proved

All theorems hold for any sets of accounts and identifiers, any terms, clock and
bounds. They assume what the modules state as named `ASSUME`s, which TLC
evaluates on every run. Numbers are integers: nothing is assumed small.

**Arithmetic** (`ArithmeticProofs`). Bounds and monotonicity of the floored and the
rounded-up quotient and of linear accrual. The library's induction theorems take an
operator, which the provers here cannot instantiate, so induction is stated over sets:
a set of naturals with zero and every successor is all of them
(`NatSetInduction`), and a family of subsets that contains each subset all of whose strict
subsets it contains is the whole powerset (`SubsetInduction`). From the latter come the
sums of the community modules over a finite set: that they exist, their type,
what an element added or changed makes of them, and their monotonicity. The recursive
function of the replay is tied to its equations the same way: a
table up to `n` exists for every `n`.

**Vesting** (`VestingProofs`, on `ArithmeticProofs`). The safety properties are
not inductive as they stand: that nobody is paid ahead of `now` does not say
what a cancellation dated earlier will find, and an escrow's solvency needs to
know that what was claimed is within what remains. The invariant `Inductive` adds,
for every shard, `Sound`: the terms passed validation, the times recorded have
passed, and *what was claimed had vested by the last claim*. A cancellation
cannot be dated before the last claim, accrual is monotone,
so what is claimed stays within what the cancellation leaves. For solvency, the
sum an escrow owes is the cardinality of a set of units (`OwedUnits`), so that
no recursive sum is needed: each transaction removes from the set, or adds to
it, exactly as many units as it moves; the batch case counts one block of
units per member.

- `AlwaysInductive`, and from it `TypeCorrect`, `AlwaysSolvent`, `NeverAhead`.
- `AccrualKept`, `FrozenForGood`, `WaiverKept`: the action properties, from the
  invariant and one lemma per action on what it does to the vested amount.
- `PromiseKept`: the refinement, one lemma per action (`ClaimPays`,
  `CancelRevokes`, `WaiverWaives`, `NewOpens` for both creations, `DepositGives`);
  everything else maps to an accrual or a stutter (`QuietAccrues`). The abstract
  guards follow from `Inductive`: an unrevoked grant's earnings only grow, and a
  revocation leaves at least what was paid.

**Ledger and command line** (`LedgerProofs`, on `VestingProofs`). Whatever is included is
an action of the program or changes nothing, so the ledger keeps `Inductive`
(`LedgerInductive`). A schedule read once and read later `Grows`: its terms stay,
and what was claimed, signalled, waived or cancelled stays so; an instruction
other than a transfer that applies leaves it `Advanced`, in a way nobody takes back.
Hence `RevertedNeverApplied`: had an attempt applied, the shard would
still differ from the one read before. For `SentAgainAppliesOnce` the invariant
`ClientInv` says that every attempt in flight carries the same instruction, that
the schedule it was worked out from is one the shard has grown from, and that once
an attempt applied the instruction is `Spent`: a full claim has taken what had vested by its
time, a cancellation has cancelled, a waiver has waived, a signal is set, a
creation has taken its identifier. A spent instruction is never executable again.
Commands the program lets repeat are excluded, as above.
For `AppliedWasIntended` it also says (`Traced`) what became of the schedule since it was
read, as long as nobody else's transaction applied to it: it is the one read until an
attempt applies, and afterwards what that attempt makes of it.
`RefusalWasCaused` needs the same invariant (`WorkedOut`: the instruction asks for
what the schedule read allows) and one more consequence of solvency: whatever
a schedule lets be claimed or refunded, its escrow holds (`ClaimCovered`,
`RefundCovered`). So a claim or a cancellation is never refused for want of money,
only for a cause the property lists.

**Activity list** (`LedgerProofs`). `HistoryInv` adds to the ledger's invariant
that the log accounts for every schedule (`LedgerAccounts`): it starts from nothing; each
transaction found what the one before it left; an applied creation left what
`FromTerms` makes of its terms; any other applied instruction was one the replay's
rules let pass and left what `Replayed` makes of it; all else left the schedule
alone; and the escrow and `last_seen` of what was found only move on to the present.
Two facts make the replay's shortcuts sound here: a cancellation is never dated
zero nor before the last claim, so freezing as the replay does it is freezing as
the program does it, and a later `last_seen` only makes the replay accept more.
By induction over the positions the replay is at the schedule the history
has there (`Agrees`) as long as its verdicts were right. An applied transaction is then
always accepted (`ErrorsAreLenient`), and a refusal the replay knows of is made
(`ToldReplaysRight`).

**App** (`AppProofs`). The four properties are not inductive alone. `AppInv` adds the
types, and two facts that hold while nothing was moved on from: every question
in flight has read one node only, the one in force (`ReadFromOne`), and under an open
claim sheet only the schedule shown is read again (`SheetAlone`).

**Curve** (`CurveProofs`, on `ArithmeticProofs`).
It proves from the definition of the rounded-up quotient that a
trade never lets `vt * vc` fall and that a fee is at most the amount.
`BooksAlwaysBalance` is inductive with the type (`PoolTypes`); `QuoteAlwaysLeast`: a
payment buys `q` tokens exactly when its product with what is then left of them reaches
`k`, which the rounded-up quote is the first to do; that the quote is also accepted
follows from the one payment known to be, which buys no fewer tokens and is
within the reserve. (Without such a payment a quote may be refused:
`sale_close`.) `HoldersCanAlwaysLeave` then
follows: selling back `t <= sold` leaves at least the opening product, hence at
least the opening collateral. `HoldingAlwaysBacks` is inductive with the type
correctness of sales and holdings (`SaleTypes`); `ProductKept` and
`RevenueAlwaysKept` follow from it.

**256-bit arithmetic** (`WideMathProofs`). A word has any even number of bits;
the table `Two` of its powers of two is a constant, and `WidthAssumption` says of
it only that it starts at 1, doubles, and that a word is two halves. The lemma
`Schoolbook` shows the two words of the product to stand for it, and its high
part to be a word. The invariant `Exact` is then: the arguments are words,
`TypeOK`, `ProductExact` and `RoundsExact`. The step to note is that `quo << 1`
drops nothing: the account of the bits brought down bounds `2 * quo` by the
divisor's refusal of a high word that is too large (`RoomForBit`). From `Exact`:
`WordsStayWords`, `ProductAlwaysExact`, `RoundsAlwaysExact`, `QuotientsAlwaysExact`. The last is what lets
every other module use exact quotients.

**Library schedule** (`HostScheduleProofs`). `HostInductive` joins to the types
that the schedule is one a constructor accepted, and `Frozen`: there is a split exactly
when the schedule was cancelled, and then no more vests at the cancellation than what had
been claimed and what the split left the beneficiary. Milestones are sums over the signalled tranches
(`SignalledBounds`). From it `HostTypes`, `HostNeverPaidAhead`, `HostCancelIsFinal` and the
action property `HostOrderedSplitSums`.

**LBP** (`LbpProofs`). `LbpInductive` is the types with `MoneyConserved`, a sum over all
accounts and holdings that every transfer keeps; the types need that a purchase
takes at most the reserve, for which it is enough that the kernel returns a value of the
scale. `LbpWeightOnlyAdvances` follows from the order of the times a pool
accepts and the monotonicity of weights. `LbpRoundingCostsLittle` bounds the two
floors at equal weights, in a step that takes collateral in.

The assumptions on the constants are named where they are declared; beyond types
and finiteness they are `GenesisAssumption` (above), disjoint accounts and escrows,
injective batch identifiers, `GrantAssumption` and its likes (a value that stands
for "none" is none of the others), offered instructions that decode
(`OfferedDecode`, `CommandsAssumption`), and a schedule found at the start that
passed validation and whose creator paid for it (`ExistingAssumption`). Finiteness is assumed of the
identifiers of `Vesting` and of the accounts and identifiers of `Lbp`, whose money is a sum over them.

Only model-checked: the liveness properties `EventuallySettled`,
`ClosedSalePaysOut` and `Reported`, which this prover does not do. Each property of
a passing run that is an invariant or an action property is proved.

## 5. Not modelled

- The command line's commands that only print (show, list), those of other programs
  (tokens, deployment), and `--force`.
- The app's lists (examples, a batch's members, search by account), its status line,
  the settings file, painting and formatting. The status line shows answers in
  the order they come, without a token: a late answer names the node now in
  force. There is nothing to check beyond that order.
- The logarithm and exponential series in `src/weighted.rs` and `src/binfixed.rs`,
  their error and their casts: any value may come back in their place.
- What a list of activities with a refusal unknown to the replay is worth: such a list may
  be called consistent when its wrong verdicts cancel out
  (`app/src/vesting_chain.cpp:495`).
- An overflow of a batch's sum as such: the bound is in `BatchAccepted`, but in every
  instance the creator's balance refuses such a batch first, so no run shows it.
- Serialisation, address derivation and signatures; the ledger's consensus.
- Kani harnesses, benchmarks, executor tests, scripts, evidence, vendored code.

## 6. Plan

1. `App` with a fair backend: with every answer coming in the end, what was asked last
   is shown last, for the kinds of question where it is.
2. Two commands at once on one schedule, composed through `Ledger`, with the proofs of
   `Client` carried over.
3. A refinement of the library's schedule by the program's, for a caller whose times do not
   go back.
