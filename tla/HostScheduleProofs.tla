------------------------ MODULE HostScheduleProofs ------------------------
(***************************************************************************)
(* Safety of the schedule of the host library, for every schedule its      *)
(* constructors accept and every order of times its callers name.          *)
(*                                                                         *)
(* The argument is the invariant HostInductive: what was claimed is at     *)
(* most what an uncancelled schedule vests by the latest time named, and a *)
(* cancellation freezes what vests at the larger of what was claimed and   *)
(* what it left, after which nothing is claimed or signalled past it.      *)
(***************************************************************************)
EXTENDS HostSchedule, ArithmeticProofs

(* The schedule as if it had not been cancelled. *)
Uncancelled(s) == [s EXCEPT !.cancelled_at = NoTime]

(* A schedule that a constructor accepted, whatever became of it since. *)
Accepted(s) ==
  /\ s \in Schedule
  /\ s.kind # "milestone" => s.start < s.end
  /\ s.kind = "milestone" => s.total = SumFunction(s.tranches)
  /\ s.signalled \subseteq DOMAIN s.tranches

(* What a cancellation decided is what can still vest. *)
Frozen ==
  /\ split = NoSplit <=> schedule.cancelled_at = NoTime
  /\ split # NoSplit =>
       HostVestedAt(schedule, schedule.cancelled_at)
         <= split.already_claimed + split.to_beneficiary

HostInductive ==
  /\ TypeOK
  /\ Accepted(schedule)
  /\ NeverPaidAhead
  /\ CancelIsFinal
  /\ Frozen

-----------------------------------------------------------------------------
(* What vests. *)

(* The tranches signalled are worth a natural number, at most the total. *)
LEMMA SignalledBounds ==
  ASSUME NEW tranches \in Seq(Nat), NEW signalled, signalled \subseteq DOMAIN tranches
  PROVE  /\ SumFunctionOnSet(tranches, signalled) \in Nat
         /\ SumFunction(tranches) \in Nat
         /\ SumFunctionOnSet(tranches, signalled) <= SumFunction(tranches)
  <1>1. DOMAIN tranches = 1..Len(tranches) /\ Len(tranches) \in Nat
    OBVIOUS
  <1>2. IsFiniteSet(DOMAIN tranches) /\ IsFiniteSet(signalled)
    <2>1. IsFiniteSet(1..Len(tranches))
      BY <1>1, FS_Interval
    <2>2. QED
      BY <1>1, <2>1, FS_Subset
  <1>3. \A i \in DOMAIN tranches : tranches[i] \in Nat
    OBVIOUS
  <1>4. QED
    BY <1>2, <1>3, SumNat, SumOfPart DEF SumFunction

(* The time a schedule has vested to: its cancellation stops it. *)
Stopped(s, t) ==
  IF s.cancelled_at # NoTime /\ s.cancelled_at < t THEN s.cancelled_at ELSE t

(* What vests is a natural number, at most the total... *)
LEMMA HostVestedBounds ==
  ASSUME NEW s, Accepted(s), NEW t \in Time
  PROVE  HostVestedAt(s, t) \in 0..s.total
  <1>1. TimeMax \in Nat /\ Stopped(s, t) \in Time
    BY HostAssumption DEF Accepted, Schedule, Stopped, Time
  <1>2. CASE s.kind = "milestone"
    <2>1. s.tranches \in Seq(Nat) /\ s.total = SumFunction(s.tranches)
      BY <1>2 DEF Accepted, Schedule
    <2>2. HostVestedAt(s, t) = SumFunctionOnSet(s.tranches, s.signalled)
      BY <1>2 DEF HostVestedAt
    <2>3. QED
      BY <2>1, <2>2, SignalledBounds DEF Accepted
  <1>3. CASE s.kind # "milestone"
    <2>1. /\ s.start \in Nat /\ s.end \in Nat /\ s.start < s.end
          /\ s.total \in Nat /\ Stopped(s, t) \in Nat
      BY <1>1, <1>3 DEF Accepted, Schedule, Time
    <2>2. LinearBetween(s.start, s.end, Stopped(s, t), s.total) \in 0..s.total
      BY <2>1, LinearBounds
    <2>3. HostVestedAt(s, t)
            \in {0, LinearBetween(s.start, s.end, Stopped(s, t), s.total)}
      BY <1>3 DEF HostVestedAt, Stopped
    <2>4. QED
      BY <2>1, <2>2, <2>3
  <1>4. QED
    BY <1>2, <1>3

(* ... never shrinks as the time named grows... *)
LEMMA HostVestedMonotone ==
  ASSUME NEW s, Accepted(s), NEW t \in Time, NEW u \in Time, t <= u
  PROVE  HostVestedAt(s, t) <= HostVestedAt(s, u)
  <1>1. HostVestedAt(s, t) \in Nat /\ HostVestedAt(s, u) \in Nat
    <2>1. s.total \in Nat
      BY DEF Accepted, Schedule
    <2>2. QED
      BY <2>1, HostVestedBounds
  <1>2. CASE s.kind = "milestone"
    BY <1>1, <1>2 DEF HostVestedAt
  <1>3. CASE s.kind # "milestone"
    <2> DEFINE L(x) == LinearBetween(s.start, s.end, Stopped(s, x), s.total)
    <2>1. /\ Stopped(s, t) \in Nat /\ Stopped(s, u) \in Nat
          /\ Stopped(s, t) <= Stopped(s, u)
      BY HostAssumption DEF Accepted, Schedule, Stopped, Time
    <2>2. s.start \in Nat /\ s.end \in Nat /\ s.start < s.end /\ s.total \in Nat
      BY <1>3 DEF Accepted, Schedule, Time
    <2>3. L(t) <= L(u)
      BY <2>1, <2>2, LinearMonotone
    <2>4. L(t) \in Nat /\ L(u) \in Nat
      <3>1. L(t) \in 0..s.total /\ L(u) \in 0..s.total
        BY <2>1, <2>2, LinearBounds
      <3> HIDE DEF L
      <3>2. QED
        BY <2>2, <3>1
    <2>5. s.cliff \in Nat
      BY DEF Accepted, Schedule, Time
    <2>6. \A x \in Time :
            HostVestedAt(s, x)
              = IF s.kind = "cliff_linear" /\ Stopped(s, x) < s.cliff
                  THEN 0 ELSE L(x)
      BY <1>3 DEF HostVestedAt, Stopped
    <2> HIDE DEF L
    <2>7. QED
      BY <2>1, <2>3, <2>4, <2>5, <2>6
  <1>4. QED
    BY <1>2, <1>3

(* ... and is at most what vests without the cancellation, or at it. *)
LEMMA HostVestedStopped ==
  ASSUME NEW s, Accepted(s), NEW t \in Time
  PROVE  /\ Accepted(Uncancelled(s))
         /\ HostVestedAt(s, t) <= HostVestedAt(Uncancelled(s), t)
         /\ s.cancelled_at # NoTime =>
              HostVestedAt(s, t) <= HostVestedAt(s, s.cancelled_at)
  <1> DEFINE u == Uncancelled(s)
             c == s.cancelled_at
  <1>1. /\ u \in Schedule /\ u.cancelled_at = NoTime /\ u.kind = s.kind
        /\ u.start = s.start /\ u.cliff = s.cliff /\ u.end = s.end
        /\ u.total = s.total /\ u.tranches = s.tranches
        /\ u.signalled = s.signalled
    BY DEF Accepted, Schedule, Uncancelled
  <1> HIDE DEF u
  <1>2. Accepted(u)
    BY <1>1 DEF Accepted
  <1>3. \A x \in Time : HostVestedAt(s, x) \in Nat /\ HostVestedAt(u, x) \in Nat
    <2>1. s.total \in Nat
      BY DEF Accepted, Schedule
    <2>2. QED
      BY <1>1, <1>2, <2>1, HostVestedBounds
  <1>4. CASE c = NoTime
    <2>1. HostVestedAt(s, t) = HostVestedAt(u, t)
      BY <1>1, <1>4 DEF HostVestedAt
    <2>2. QED
      BY <1>2, <1>3, <1>4, <2>1 DEF u
  <1>5. CASE c # NoTime
    <2>1. c \in Time
      BY <1>5 DEF Accepted, Schedule
    <2>2. HostVestedAt(s, c) = HostVestedAt(u, c)
      BY <1>1 DEF HostVestedAt
    <2>3. CASE c < t
      <3>1. HostVestedAt(s, t) = HostVestedAt(s, c)
        BY <1>5, <2>1, <2>3, HostAssumption DEF HostVestedAt, Time
      <3>2. HostVestedAt(u, c) <= HostVestedAt(u, t)
        BY <1>2, <2>1, <2>3, HostVestedMonotone, HostAssumption DEF Time
      <3>3. QED
        BY <1>2, <1>3, <2>1, <2>2, <3>1, <3>2 DEF u
    <2>4. CASE ~(c < t)
      <3>1. HostVestedAt(s, t) = HostVestedAt(u, t)
        BY <1>1, <2>4 DEF HostVestedAt
      <3>2. HostVestedAt(s, t) <= HostVestedAt(s, c)
        BY <2>1, <2>4, HostVestedMonotone, HostAssumption DEF Time
      <3>3. QED
        BY <1>2, <1>3, <3>1, <3>2 DEF u
    <2>5. QED
      BY <2>3, <2>4
  <1>6. QED
    BY <1>4, <1>5

-----------------------------------------------------------------------------
(* The steps. *)

(* A schedule just made has been paid nothing and has signalled nothing. *)
LEMMA InitHost == Init => HostInductive
  <1> SUFFICES ASSUME Init PROVE HostInductive
    OBVIOUS
  <1>1. Accepted(schedule) /\ schedule.claimed = 0 /\ schedule.cancelled_at = NoTime
    <2>1. CASE \E terms \in OfferedTimed :
                 TimedAccepted(terms) /\ schedule = Timed(terms)
      <3>1. PICK terms \in TimedTerms :
              TimedAccepted(terms) /\ schedule = Timed(terms)
        BY <2>1, HostAssumption
      <3>2. Cliff(terms) \in Time
        BY DEF Cliff, TimedTerms
      <3>3. /\ schedule.start < schedule.end /\ schedule.kind # "milestone"
            /\ schedule.signalled = {} /\ schedule.claimed = 0
            /\ schedule.cancelled_at = NoTime
        BY <3>1, <3>2, HostAssumption DEF TimedAccepted, Timed, TimedTerms, Time
      <3>4. schedule \in Schedule
        BY <3>1, <3>2 DEF Timed, TimedTerms, Schedule
      <3>5. QED
        BY <3>3, <3>4 DEF Accepted
    <2>2. CASE \E tranches \in OfferedTranches :
                 MilestonesAccepted(tranches) /\ schedule = Milestones(tranches)
      <3>1. PICK tranches \in Seq(Nat) :
              schedule = Milestones(tranches)
        BY <2>2, HostAssumption
      <3>2. SumFunction(tranches) \in Nat
        BY SignalledBounds
      <3>3. 0 \in Time
        BY HostAssumption DEF Time
      <3>4. schedule \in Schedule
        BY <3>1, <3>2, <3>3 DEF Milestones, Schedule
      <3>5. QED
        BY <3>1, <3>4 DEF Milestones, Accepted
    <2>3. QED
      BY <2>1, <2>2 DEF Init
  <1>2. seen \in Time /\ split = NoSplit
    BY HostAssumption DEF Init, Time
  <1>3. schedule.total \in Nat
    BY <1>1 DEF Accepted, Schedule
  <1>4. TypeOK
    BY <1>1, <1>2, <1>3 DEF TypeOK, Accepted
  <1>5. NeverPaidAhead
    <2>1. HostVestedAt(Uncancelled(schedule), seen)
            \in 0..Uncancelled(schedule).total
      BY <1>1, <1>2, HostVestedStopped, HostVestedBounds
    <2>2. Uncancelled(schedule).total = schedule.total
      BY <1>1 DEF Accepted, Schedule, Uncancelled
    <2>3. QED
      BY <1>1, <1>3, <2>1, <2>2 DEF NeverPaidAhead, Uncancelled
  <1>6. QED
    BY <1>1, <1>2, <1>4, <1>5 DEF HostInductive, CancelIsFinal, Frozen

(* Claiming moves nothing but what was claimed. *)
LEMMA ClaimKeepsHost ==
  ASSUME HostInductive, NEW now \in Time, ClaimAll(now)
  PROVE  HostInductive'
  <1> DEFINE vested == HostVestedAt(schedule, now)
  <1>1. Accepted(schedule) /\ schedule \in Schedule /\ seen \in Time
    BY DEF HostInductive, Accepted, TypeOK
  <1>2. vested \in 0..schedule.total /\ schedule.total \in Nat
        /\ schedule.claimed \in Nat
    BY <1>1, HostVestedBounds DEF Schedule
  <1> HIDE DEF vested
  <1>3. /\ vested > schedule.claimed
        /\ schedule' = [schedule EXCEPT !.claimed = vested]
        /\ split' = split /\ seen' = IF now > seen THEN now ELSE seen
    BY <1>1, <1>2 DEF ClaimAll, Less, Names, vested, Schedule
  <1>4. /\ schedule' \in Schedule /\ schedule'.claimed = vested
        /\ schedule'.kind = schedule.kind /\ schedule'.start = schedule.start
        /\ schedule'.cliff = schedule.cliff /\ schedule'.end = schedule.end
        /\ schedule'.total = schedule.total
        /\ schedule'.tranches = schedule.tranches
        /\ schedule'.signalled = schedule.signalled
        /\ schedule'.cancelled_at = schedule.cancelled_at
    BY <1>1, <1>2, <1>3 DEF Schedule
  <1>5. Accepted(schedule')
    BY <1>1, <1>4 DEF Accepted
  <1>6. seen' \in Time /\ now <= seen' /\ seen <= seen'
    BY <1>1, <1>3, HostAssumption DEF Time
  <1>7. TypeOK'
    BY <1>2, <1>3, <1>4, <1>6 DEF HostInductive, TypeOK
  <1>8. \A x \in Time :
          /\ HostVestedAt(schedule', x) = HostVestedAt(schedule, x)
          /\ HostVestedAt(Uncancelled(schedule'), x)
               = HostVestedAt(Uncancelled(schedule), x)
    <2>1. \A x : HostVestedAt(schedule', x) = HostVestedAt(schedule, x)
      BY <1>4 DEF HostVestedAt
    <2> DEFINE u == Uncancelled(schedule)
               v == Uncancelled(schedule')
    <2>2. /\ v.kind = u.kind /\ v.start = u.start /\ v.cliff = u.cliff
          /\ v.end = u.end /\ v.total = u.total /\ v.tranches = u.tranches
          /\ v.signalled = u.signalled /\ v.cancelled_at = u.cancelled_at
      BY <1>1, <1>4 DEF Uncancelled, Schedule
    <2> HIDE DEF u, v
    <2>3. \A x : HostVestedAt(v, x) = HostVestedAt(u, x)
      BY <2>2 DEF HostVestedAt
    <2>4. QED
      BY <2>1, <2>3 DEF u, v
  <1>9. NeverPaidAhead'
    <2> DEFINE u == Uncancelled(schedule)
    <2>1. Accepted(u) /\ vested <= HostVestedAt(u, now)
      BY <1>1, HostVestedStopped DEF vested
    <2>2. HostVestedAt(u, now) <= HostVestedAt(u, seen')
      BY <1>6, <2>1, HostVestedMonotone
    <2>3. HostVestedAt(u, now) \in Nat /\ HostVestedAt(u, seen') \in Nat
      <3>1. u.total \in Nat
        BY <2>1 DEF Accepted, Schedule
      <3>2. QED
        BY <1>6, <2>1, <3>1, HostVestedBounds
    <2>4. HostVestedAt(Uncancelled(schedule'), seen') = HostVestedAt(u, seen')
      BY <1>6, <1>8
    <2> HIDE DEF u
    <2>5. QED
      BY <1>2, <1>4, <2>1, <2>2, <2>3, <2>4 DEF NeverPaidAhead, Uncancelled
  <1>10. CancelIsFinal' /\ Frozen'
    <2>1. CASE split = NoSplit
      BY <1>3, <1>4, <2>1 DEF HostInductive, Frozen, CancelIsFinal
    <2>2. CASE split # NoSplit
      <3>1. /\ split.already_claimed \in Nat /\ split.to_beneficiary \in Nat
            /\ schedule.cancelled_at \in Time
        BY <1>1, <2>2 DEF HostInductive, TypeOK, CancelSplit, Frozen, Schedule
      <3>2. vested <= HostVestedAt(schedule, schedule.cancelled_at)
        BY <1>1, <2>2, HostVestedStopped DEF HostInductive, Frozen, vested
      <3>3. HostVestedAt(schedule, schedule.cancelled_at) \in Nat
        BY <1>1, <1>2, <3>1, HostVestedBounds
      <3>4. HostVestedAt(schedule, schedule.cancelled_at)
              <= split.already_claimed + split.to_beneficiary
        BY <2>2 DEF HostInductive, Frozen
      <3>5. vested <= split.already_claimed + split.to_beneficiary
        BY <1>2, <3>1, <3>2, <3>3, <3>4
      <3>6. CancelIsFinal'
        BY <1>3, <1>4, <3>5 DEF CancelIsFinal
      <3>7. HostVestedAt(schedule', schedule'.cancelled_at)
              = HostVestedAt(schedule, schedule.cancelled_at)
        BY <1>4, <1>8, <3>1
      <3>8. Frozen'
        BY <1>3, <1>4, <2>2, <3>4, <3>7 DEF Frozen, HostInductive
      <3>9. QED
        BY <3>6, <3>8
    <2>3. QED
      BY <2>1, <2>2
  <1>11. QED
    BY <1>5, <1>7, <1>9, <1>10 DEF HostInductive

(* A signal adds a tranche to what has vested, and never after a cancellation. *)
LEMMA SignalKeepsHost ==
  ASSUME HostInductive, NEW index \in DOMAIN schedule.tranches, Signal(index)
  PROVE  HostInductive'
  <1>1. Accepted(schedule) /\ schedule \in Schedule /\ seen \in Time
    BY DEF HostInductive, Accepted, TypeOK
  <1>2. /\ schedule.kind = "milestone" /\ schedule.cancelled_at = NoTime
        /\ schedule' = [schedule EXCEPT !.signalled = @ \cup {index}]
        /\ split' = split /\ seen' = seen /\ split = NoSplit
    BY DEF Signal, MaySignal, HostInductive, Frozen
  <1>3. schedule.tranches \in Seq(Nat)
    BY <1>1 DEF Schedule
  <1>4. index \in Nat /\ index \in DOMAIN schedule.tranches
    BY <1>3
  <1>5. /\ schedule' \in Schedule /\ schedule'.claimed = schedule.claimed
        /\ schedule'.kind = "milestone"
        /\ schedule'.total = schedule.total
        /\ schedule'.tranches = schedule.tranches
        /\ schedule'.signalled = schedule.signalled \cup {index}
        /\ schedule'.cancelled_at = NoTime
    BY <1>1, <1>2, <1>4 DEF Schedule
  <1>6. Accepted(schedule')
    BY <1>1, <1>2, <1>4, <1>5 DEF Accepted
  <1>7. TypeOK'
    BY <1>2, <1>4, <1>5 DEF HostInductive, TypeOK
  <1>8. NeverPaidAhead'
    <2> DEFINE old == SumFunctionOnSet(schedule.tranches, schedule.signalled)
               new == SumFunctionOnSet(schedule.tranches, schedule'.signalled)
    <2>1. schedule'.signalled \subseteq DOMAIN schedule.tranches
      BY <1>4, <1>5, <1>6 DEF Accepted
    <2>2. old \in Nat /\ new \in Nat
      BY <1>1, <1>3, <2>1, SignalledBounds DEF Accepted
    <2>3. old <= new
      <3>1. IsFiniteSet(schedule'.signalled)
        <4>1. DOMAIN schedule.tranches = 1..Len(schedule.tranches)
              /\ Len(schedule.tranches) \in Nat
          BY <1>3
        <4>2. IsFiniteSet(1..Len(schedule.tranches))
          BY <4>1, FS_Interval
        <4>3. QED
          BY <2>1, <4>1, <4>2, FS_Subset
      <3>2. \A i \in schedule'.signalled : schedule.tranches[i] \in Nat
        BY <1>3, <2>1
      <3>3. schedule.signalled \in SUBSET schedule'.signalled
        BY <1>5
      <3>4. QED
        BY <3>1, <3>2, <3>3, SumOfPart
    <2>4. /\ HostVestedAt(Uncancelled(schedule), seen) = old
          /\ HostVestedAt(Uncancelled(schedule'), seen') = new
      BY <1>1, <1>2, <1>5 DEF HostVestedAt, Uncancelled, Schedule
    <2>5. schedule.claimed \in Nat /\ schedule.claimed <= old
      BY <1>1, <2>4 DEF HostInductive, NeverPaidAhead, Uncancelled, Schedule
    <2> HIDE DEF old, new
    <2>6. schedule'.claimed <= new
      BY <1>5, <2>2, <2>3, <2>5
    <2>7. QED
      BY <2>4, <2>6 DEF NeverPaidAhead, Uncancelled
  <1>9. CancelIsFinal' /\ Frozen'
    BY <1>2, <1>5 DEF CancelIsFinal, Frozen
  <1>10. QED
    BY <1>6, <1>7, <1>8, <1>9 DEF HostInductive

(* Whether it can be cancelled has no part in what a schedule vests. *)
LEMMA PermanentKeepsHost ==
  ASSUME HostInductive, MakePermanent
  PROVE  HostInductive'
  <1>1. Accepted(schedule) /\ schedule \in Schedule
    BY DEF HostInductive, Accepted
  <1>2. /\ schedule' = [schedule EXCEPT !.cancelable = FALSE]
        /\ split' = split /\ seen' = seen
    BY DEF MakePermanent
  <1>3. /\ schedule' \in Schedule /\ schedule'.claimed = schedule.claimed
        /\ schedule'.kind = schedule.kind /\ schedule'.start = schedule.start
        /\ schedule'.cliff = schedule.cliff /\ schedule'.end = schedule.end
        /\ schedule'.total = schedule.total
        /\ schedule'.tranches = schedule.tranches
        /\ schedule'.signalled = schedule.signalled
        /\ schedule'.cancelled_at = schedule.cancelled_at
    BY <1>1, <1>2 DEF Schedule
  <1>4. Accepted(schedule') /\ TypeOK'
    BY <1>1, <1>2, <1>3 DEF Accepted, HostInductive, TypeOK
  <1>5. \A x : HostVestedAt(schedule', x) = HostVestedAt(schedule, x)
    BY <1>3 DEF HostVestedAt
  <1>6. \A x : HostVestedAt(Uncancelled(schedule'), x)
               = HostVestedAt(Uncancelled(schedule), x)
    <2> DEFINE u == Uncancelled(schedule)
               v == Uncancelled(schedule')
    <2>1. /\ v.kind = u.kind /\ v.start = u.start /\ v.cliff = u.cliff
          /\ v.end = u.end /\ v.total = u.total /\ v.tranches = u.tranches
          /\ v.signalled = u.signalled /\ v.cancelled_at = u.cancelled_at
      BY <1>1, <1>3 DEF Uncancelled, Schedule
    <2> HIDE DEF u, v
    <2>2. \A x : HostVestedAt(v, x) = HostVestedAt(u, x)
      BY <2>1 DEF HostVestedAt
    <2>3. QED
      BY <2>2 DEF u, v
  <1>7. NeverPaidAhead'
    BY <1>2, <1>3, <1>6 DEF HostInductive, NeverPaidAhead, Uncancelled
  <1>8. CancelIsFinal' /\ Frozen'
    BY <1>2, <1>3, <1>5 DEF HostInductive, CancelIsFinal, Frozen
  <1>9. QED
    BY <1>4, <1>7, <1>8 DEF HostInductive

(* A cancellation leaves at least what it freezes. *)
LEMMA CancelKeepsHost ==
  ASSUME HostInductive, NEW now \in Time, CancelAt(now)
  PROVE  HostInductive'
  <1> DEFINE vested == HostVestedAt(schedule, now)
  <1>1. Accepted(schedule) /\ schedule \in Schedule /\ seen \in Time
    BY DEF HostInductive, Accepted, TypeOK
  <1>2. vested \in 0..schedule.total /\ schedule.total \in Nat
        /\ schedule.claimed \in Nat
    BY <1>1, HostVestedBounds DEF Schedule
  <1>3. /\ schedule.cancelled_at = NoTime
        /\ schedule' = [schedule EXCEPT !.cancelled_at = now]
        /\ split' = Split(schedule, vested)
        /\ seen' = IF now > seen THEN now ELSE seen
    BY DEF CancelAt, Names
  <1>4. /\ schedule' \in Schedule /\ schedule'.claimed = schedule.claimed
        /\ schedule'.kind = schedule.kind /\ schedule'.start = schedule.start
        /\ schedule'.cliff = schedule.cliff /\ schedule'.end = schedule.end
        /\ schedule'.total = schedule.total
        /\ schedule'.tranches = schedule.tranches
        /\ schedule'.signalled = schedule.signalled
        /\ schedule'.cancelled_at = now
    BY <1>1, <1>3 DEF Schedule
  <1>5. Accepted(schedule')
    BY <1>1, <1>4 DEF Accepted
  <1>6. seen' \in Time /\ seen <= seen'
    BY <1>1, <1>3, HostAssumption DEF Time
  <1>7. /\ split' \in CancelSplit /\ split'.already_claimed = schedule.claimed
        /\ vested <= split'.already_claimed + split'.to_beneficiary
        /\ split'.already_claimed \in Nat /\ split'.to_beneficiary \in Nat
    <2> HIDE DEF vested
    <2>1. QED
      BY <1>2, <1>3 DEF Split, Less, CancelSplit
  <1>8. split' # NoSplit /\ now # NoTime
    BY <1>7, HostAssumption
  <1>9. TypeOK'
    BY <1>4, <1>6, <1>7 DEF HostInductive, TypeOK
  <1>10. NeverPaidAhead'
    <2> DEFINE u == Uncancelled(schedule)
    <2>1. Uncancelled(schedule') = u
      BY <1>1, <1>3 DEF Uncancelled, Schedule
    <2>2. Accepted(u)
      BY <1>1, HostVestedStopped
    <2>3. HostVestedAt(u, seen) <= HostVestedAt(u, seen')
      BY <1>1, <1>6, <2>2, HostVestedMonotone
    <2>4. HostVestedAt(u, seen) \in Nat /\ HostVestedAt(u, seen') \in Nat
      <3>1. u.total \in Nat
        BY <2>2 DEF Accepted, Schedule
      <3>2. QED
        BY <1>1, <1>6, <2>2, <3>1, HostVestedBounds
    <2>5. schedule.claimed <= HostVestedAt(u, seen)
      BY DEF HostInductive, NeverPaidAhead, Uncancelled
    <2> HIDE DEF u
    <2>6. QED
      BY <1>2, <1>4, <2>1, <2>3, <2>4, <2>5 DEF NeverPaidAhead, Uncancelled
  <1>11. Frozen'
    <2>1. HostVestedAt(schedule', now) = vested
      BY <1>1, <1>3, <1>4, HostAssumption DEF HostVestedAt, Time
    <2>2. QED
      BY <1>4, <1>7, <1>8, <2>1 DEF Frozen
  <1>12. CancelIsFinal'
    BY <1>2, <1>4, <1>7 DEF CancelIsFinal
  <1>13. QED
    BY <1>5, <1>9, <1>10, <1>11, <1>12 DEF HostInductive

(* Every method keeps the invariant, and so does a call that fails. *)
LEMMA NextKeepsHost == HostInductive /\ [Next]_vars => HostInductive'
  <1> SUFFICES ASSUME HostInductive, [Next]_vars PROVE HostInductive'
    OBVIOUS
  <1>1. CASE \E now \in Time : ClaimAll(now)
    BY <1>1, ClaimKeepsHost
  <1>2. CASE \E index \in DOMAIN schedule.tranches : Signal(index)
    BY <1>2, SignalKeepsHost
  <1>3. CASE MakePermanent
    BY <1>3, PermanentKeepsHost
  <1>4. CASE \E now \in Time : CancelAt(now)
    BY <1>4, CancelKeepsHost
  <1>5. CASE UNCHANGED vars
    <2>1. schedule' = schedule /\ split' = split /\ seen' = seen
      BY <1>5 DEF vars
    <2>2. QED
      BY <2>1 DEF HostInductive, TypeOK, Accepted, NeverPaidAhead,
        CancelIsFinal, Frozen
  <1>6. QED
    BY <1>1, <1>2, <1>3, <1>4, <1>5 DEF Next

(* The invariant holds whatever calls are made in whatever order. *)
LEMMA AlwaysHostInductive == Spec => []HostInductive
  BY InitHost, NextKeepsHost, PTL DEF Spec

-----------------------------------------------------------------------------
(* The results. *)

(* The schedule, its split and the time stay of their types, and no more is
   claimed than the total. *)
THEOREM HostTypes == Spec => []TypeOK
  <1>1. HostInductive => TypeOK
    BY DEF HostInductive
  <1>2. QED
    BY <1>1, AlwaysHostInductive, PTL

(* No order of the times that claim names pays a unit before the latest of them
   has vested it. *)
THEOREM HostNeverPaidAhead == Spec => []NeverPaidAhead
  <1>1. HostInductive => NeverPaidAhead
    BY DEF HostInductive
  <1>2. QED
    BY <1>1, AlwaysHostInductive, PTL

(* What cancel returned bounds every claim after it. *)
THEOREM HostCancelIsFinal == Spec => []CancelIsFinal
  <1>1. HostInductive => CancelIsFinal
    BY DEF HostInductive
  <1>2. QED
    BY <1>1, AlwaysHostInductive, PTL

(* A cancellation at no earlier time than the calls before it splits the total
   exactly: what was claimed had vested by then. *)
THEOREM HostOrderedSplitSums == Spec => OrderedSplitSums
  <1> DEFINE Sums == (split = NoSplit /\ split' # NoSplit
                       /\ schedule'.cancelled_at >= seen) =>
                         PartsOf(split') = schedule.total
  <1>1. HostInductive /\ [Next]_vars => [Sums]_vars
    <2> SUFFICES ASSUME HostInductive, Next, split = NoSplit, split' # NoSplit,
                        schedule'.cancelled_at >= seen
                 PROVE  PartsOf(split') = schedule.total
      OBVIOUS
    <2>1. PICK now \in Time : CancelAt(now)
      BY DEF Next, ClaimAll, Signal, MakePermanent
    <2> DEFINE vested == HostVestedAt(schedule, now)
               u == Uncancelled(schedule)
    <2>2. Accepted(schedule) /\ schedule \in Schedule /\ seen \in Time
      BY DEF HostInductive, Accepted, TypeOK
    <2>3. /\ schedule.cancelled_at = NoTime /\ schedule'.cancelled_at = now
          /\ split' = Split(schedule, vested)
      BY <2>1, <2>2 DEF CancelAt, Schedule
    <2>4. Accepted(u) /\ HostVestedAt(u, now) = vested
      <3>1. u = schedule
        BY <2>2, <2>3 DEF Schedule, Uncancelled
      <3>2. QED
        BY <2>2, <3>1
    <2>5. HostVestedAt(u, seen) <= vested
      <3>1. seen <= now
        BY <2>2, <2>3, HostAssumption DEF Time
      <3>2. QED
        BY <2>2, <2>4, <3>1, HostVestedMonotone
    <2>6. /\ vested \in Nat /\ schedule.claimed \in Nat /\ schedule.total \in Nat
          /\ HostVestedAt(u, seen) \in Nat
      <3>1. schedule.total \in Nat /\ u.total \in Nat
        BY <2>2, <2>4 DEF Accepted, Schedule
      <3>2. QED
        BY <2>2, <2>4, <3>1, HostVestedBounds DEF Schedule
    <2>7. schedule.claimed <= HostVestedAt(u, seen)
      BY DEF HostInductive, NeverPaidAhead, Uncancelled
    <2> HIDE DEF vested, u
    <2>8. schedule.claimed <= vested
      BY <2>5, <2>6, <2>7
    <2>9. QED
      BY <2>3, <2>6, <2>8 DEF Split, Less, PartsOf
  <1>2. QED
    BY <1>1, AlwaysHostInductive, PTL DEF Spec, OrderedSplitSums
=============================================================================
