---------------------------- MODULE VestingMath ----------------------------
(***************************************************************************)
(* How much of a schedule has vested by a time: the arithmetic that the    *)
(* on-chain program (programs/vesting/core) takes from the host library    *)
(* (src/vesting.rs).  A schedule is any record with the fields used here.  *)
(***************************************************************************)
EXTENDS Arithmetic, FiniteSets

\* Accrual of a time-based schedule, stopped at the cancellation if any.
\* A linear schedule has its start as its cliff.
VestedAt(s, now) ==
  LET t == IF s.cancelled_at # 0 /\ s.cancelled_at < now
             THEN s.cancelled_at ELSE now
  IN  IF s.kind = "cliff_linear" /\ t < s.cliff
        THEN 0
        ELSE LinearBetween(s.start, s.end, t, s.total)

\* Equal tranches: the signalled share of the total, floored.
MilestoneVested(s) ==
  MulDivFloor(s.total, Cardinality(s.signalled), s.tranches)

Vested(s, t) ==
  IF s.kind = "milestone" THEN MilestoneVested(s) ELSE VestedAt(s, t)

\* saturating_sub: never below zero.
Claimable(s, t) ==
  IF Vested(s, t) > s.claimed THEN Vested(s, t) - s.claimed ELSE 0

\* What a cancellation at t must refund: computed as if nothing was frozen.
Unvested(s, t) == s.total - Vested([s EXCEPT !.cancelled_at = 0], t)
============================================================================
