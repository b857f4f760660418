---------------------------- MODULE HostSchedule ----------------------------
(***************************************************************************)
(* The vesting schedule of the host library (src/vesting.rs): a value with *)
(* methods that take the time from their caller.                           *)
(*                                                                         *)
(* Unlike the on-chain program, which keeps the last time it saw, the      *)
(* library trusts that time.  Callers may name times that go back: a clock *)
(* that was stepped, or a batch of calls replayed out of order.  A call    *)
(* that fails changes nothing and is left out.                             *)
(***************************************************************************)
EXTENDS VestingMath, Functions, Sequences

CONSTANTS
  OfferedTimed,     \* the parameters linear and cliff_linear are tried for
  OfferedTranches,  \* the tranches milestone is tried for
  MAX_MILESTONES,   \* the width of the bitmap
  AmountMax,        \* u128::MAX
  TimeMax,          \* u64::MAX
  NoTime,           \* None
  NoSplit           \* no cancellation yet

VARIABLES
  schedule,   \* the Schedule
  split,      \* the CancelSplit the cancellation returned
  seen        \* the latest time any call named

vars == <<schedule, split, seen>>

Time == 0..TimeMax

TimedTerms ==
  [kind: {"linear", "cliff_linear"}, start: Time, cliff: Time, end: Time, total: Nat]

Schedule ==
  [kind: {"linear", "cliff_linear", "milestone"}, start: Time, cliff: Time,
   end: Time, total: Nat, claimed: Nat, cancelable: BOOLEAN,
   cancelled_at: Time \cup {NoTime}, tranches: Seq(Nat), signalled: SUBSET Nat]

CancelSplit == [already_claimed: Nat, to_beneficiary: Nat, to_creator: Nat]

ASSUME HostAssumption ==
  /\ OfferedTimed \subseteq TimedTerms
  /\ OfferedTranches \subseteq Seq(Nat)
  /\ MAX_MILESTONES \in Nat /\ AmountMax \in Nat /\ TimeMax \in Nat
  /\ NoTime \notin Time /\ NoSplit \notin CancelSplit

\* linear has its start as its cliff.
Cliff(terms) == IF terms.kind = "linear" THEN terms.start ELSE terms.cliff

TimedAccepted(terms) ==
  terms.total > 0 /\ terms.start <= Cliff(terms) /\ Cliff(terms) < terms.end

Timed(terms) ==
  [kind |-> terms.kind, start |-> terms.start, cliff |-> Cliff(terms),
   end |-> terms.end, total |-> terms.total, claimed |-> 0, cancelable |-> TRUE,
   cancelled_at |-> NoTime, tranches |-> <<>>, signalled |-> {}]

\* Tranches need not be equal.
MilestonesAccepted(tranches) ==
  /\ Len(tranches) \in 1..MAX_MILESTONES
  /\ \A i \in DOMAIN tranches : tranches[i] > 0
  /\ SumFunction(tranches) <= AmountMax

Milestones(tranches) ==
  [kind |-> "milestone", start |-> 0, cliff |-> 0, end |-> 0,
   total |-> SumFunction(tranches), claimed |-> 0, cancelable |-> TRUE,
   cancelled_at |-> NoTime, tranches |-> tranches, signalled |-> {}]

HostVestedAt(s, now) ==
  LET t == IF s.cancelled_at # NoTime /\ s.cancelled_at < now
             THEN s.cancelled_at ELSE now
  IN  IF s.kind = "milestone" THEN SumFunctionOnSet(s.tranches, s.signalled)
      ELSE IF s.kind = "cliff_linear" /\ t < s.cliff THEN 0
      ELSE LinearBetween(s.start, s.end, t, s.total)

Less_Nothing(a, b) == a                           \* mutant: claims not deducted

\* saturating_sub
Less(a, b) == IF a > b THEN a - b ELSE 0

\* A call names a time.
Names(now) == seen' = IF now > seen THEN now ELSE seen

----------------------------------------------------------------------------
Init ==
  /\ \/ \E terms \in OfferedTimed :
          TimedAccepted(terms) /\ schedule = Timed(terms)
     \/ \E tranches \in OfferedTranches :
          MilestonesAccepted(tranches) /\ schedule = Milestones(tranches)
  /\ split = NoSplit
  /\ seen = 0

ClaimAll(now) ==
  LET amount == Less(HostVestedAt(schedule, now), schedule.claimed)
  IN  /\ Names(now)
      /\ amount > 0
      /\ schedule' = [schedule EXCEPT !.claimed = @ + amount]
      /\ UNCHANGED split

MaySignal_AfterCancel(s, index) ==                \* mutant: signals after cancel
  s.kind = "milestone" /\ index \notin s.signalled

\* Tranches are numbered from one here.
MaySignal(s, index) ==
  /\ s.kind = "milestone"
  /\ s.cancelled_at = NoTime
  /\ index \notin s.signalled

Signal(index) ==
  /\ index \in DOMAIN schedule.tranches
  /\ MaySignal(schedule, index)
  /\ schedule' = [schedule EXCEPT !.signalled = @ \cup {index}]
  /\ UNCHANGED <<split, seen>>

MakePermanent ==
  /\ schedule.cancelable
  /\ schedule' = [schedule EXCEPT !.cancelable = FALSE]
  /\ UNCHANGED <<split, seen>>

Split_AtClaim(s, vested) ==                       \* mutant: forgets what was paid
  [already_claimed |-> s.claimed, to_beneficiary |-> vested,
   to_creator |-> s.total - vested]

Split(s, vested) ==
  [already_claimed |-> s.claimed,
   to_beneficiary  |-> Less(vested, s.claimed),
   to_creator      |-> s.total - vested]

CancelAt(now) ==
  /\ Names(now)
  /\ schedule.cancelable /\ schedule.cancelled_at = NoTime
  /\ split' = Split(schedule, HostVestedAt(schedule, now))
  /\ schedule' = [schedule EXCEPT !.cancelled_at = now]

Next ==
  \/ \E now \in Time : ClaimAll(now)
  \/ \E index \in DOMAIN schedule.tranches : Signal(index)
  \/ MakePermanent
  \/ \E now \in Time : CancelAt(now)

Spec == Init /\ [][Next]_vars

----------------------------------------------------------------------------
(* Correctness. *)

\* The types of the schedule, of the split and of the time.
TypeOK ==
  /\ schedule \in Schedule
  /\ schedule.claimed <= schedule.total
  /\ schedule.signalled \subseteq DOMAIN schedule.tranches
  /\ split \in CancelSplit \cup {NoSplit}
  /\ seen \in Time

\* However the times are ordered, what was claimed is at most what had vested by
\* the latest of them: an earlier time never pays the same unit again.
NeverPaidAhead ==
  schedule.claimed <= HostVestedAt([schedule EXCEPT !.cancelled_at = NoTime], seen)

\* After a cancellation nobody claims more than the larger of what was claimed
\* before and what the cancellation left, whatever is signalled or asked later.
CancelIsFinal ==
  split # NoSplit =>
    schedule.claimed <= split.already_claimed + split.to_beneficiary

PartsOf(s) == s.already_claimed + s.to_beneficiary + s.to_creator

\* A cancellation that names no earlier time than the calls before it splits the
\* total exactly, however often was claimed: nothing is paid twice or stranded.
OrderedSplitSums ==
  [][(split = NoSplit /\ split' # NoSplit /\ schedule'.cancelled_at >= seen) =>
       PartsOf(split') = schedule.total]_vars
=============================================================================
