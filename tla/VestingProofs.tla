--------------------------- MODULE VestingProofs ---------------------------
(***************************************************************************)
(* Safety of the vesting program for every set of accounts, identifiers    *)
(* and terms, every clock and every bound.                                 *)
(*                                                                         *)
(* The argument is the invariant Inductive of module Vesting: a shard is   *)
(* Sound, so nothing was claimed that had not vested by the last claim,    *)
(* and each escrow is solvent.  The sum an escrow owes is the number of    *)
(* OwedUnits; a transaction removes from that set, or adds to it, exactly  *)
(* as many units as it moves out of or into the escrow.                    *)
(***************************************************************************)
EXTENDS Vesting, ArithmeticProofs

-----------------------------------------------------------------------------
(* What vests. *)

(* A schedule the arithmetic is meant for: a positive span, or tranches of
   which no more than all are signalled. *)
WellFormed(s) ==
  /\ s.total \in Nat /\ s.cancelled_at \in Nat
  /\ s.start \in Nat /\ s.cliff \in Nat /\ s.end \in Nat
  /\ s.kind # "milestone" => s.start < s.end
  /\ s.kind = "milestone" =>
       /\ s.tranches \in Nat \ {0}
       /\ Cardinality(s.signalled) \in 0..s.tranches

(* What vests is never negative and never more than the total. *)
LEMMA VestedBounds ==
  ASSUME NEW s, WellFormed(s), NEW t \in Nat
  PROVE  Vested(s, t) \in 0..s.total
  <1>1. CASE s.kind = "milestone"
    <2> DEFINE k == Cardinality(s.signalled)
    <2>1. /\ s.total \in Nat /\ k \in Nat /\ k <= s.tranches
          /\ s.tranches \in Nat \ {0}
      BY <1>1 DEF WellFormed
    <2>2. MulDivFloor(s.total, k, s.tranches) \in 0..s.total
      BY <2>1, ShareBounds
    <2>3. QED
      BY <1>1, <2>2 DEF Vested, MilestoneVested
  <1>2. CASE s.kind # "milestone"
    <2> DEFINE u == IF s.cancelled_at # 0 /\ s.cancelled_at < t
                      THEN s.cancelled_at ELSE t
    <2>1. /\ s.start \in Nat /\ s.end \in Nat /\ s.start < s.end
          /\ s.total \in Nat /\ u \in Nat
      BY <1>2 DEF WellFormed
    <2>2. LinearBetween(s.start, s.end, u, s.total) \in 0..s.total
      BY <2>1, LinearBounds
    <2>3. Vested(s, t) \in {0, LinearBetween(s.start, s.end, u, s.total)}
      BY <1>2 DEF Vested, VestedAt
    <2>4. QED
      BY <2>1, <2>2, <2>3
  <1>3. QED
    BY <1>1, <1>2

(* What has vested never shrinks as time passes, frozen or not. *)
LEMMA VestedMonotone ==
  ASSUME NEW s, WellFormed(s), NEW t \in Nat, NEW u \in Nat, t <= u
  PROVE  Vested(s, t) <= Vested(s, u)
  <1>1. CASE s.kind = "milestone"
    BY <1>1, VestedBounds DEF Vested, WellFormed
  <1>2. CASE s.kind # "milestone"
    <2> DEFINE stop(x) == IF s.cancelled_at # 0 /\ s.cancelled_at < x
                            THEN s.cancelled_at ELSE x
    <2>1. stop(t) \in Nat /\ stop(u) \in Nat /\ stop(t) <= stop(u)
      BY DEF WellFormed
    <2>2. LinearBetween(s.start, s.end, stop(t), s.total)
            <= LinearBetween(s.start, s.end, stop(u), s.total)
      BY <1>2, <2>1, LinearMonotone DEF WellFormed
    <2>3. LinearBetween(s.start, s.end, stop(u), s.total) \in 0..s.total
      BY <1>2, <2>1, LinearBounds DEF WellFormed
    <2>4. QED
      BY <1>2, <2>1, <2>2, <2>3 DEF Vested, VestedAt, WellFormed
  <1>3. QED
    BY <1>1, <1>2

(* From its cancellation on, what a schedule has vested is constant. *)
LEMMA VestedFrozen ==
  ASSUME NEW s, WellFormed(s), s.cancelled_at # 0,
         NEW t \in Nat, s.cancelled_at <= t
  PROVE  Vested(s, t) = Vested(s, s.cancelled_at)
  BY DEF Vested, VestedAt, WellFormed

(* What has vested depends on nothing but these fields. *)
LEMMA VestedSameTerms ==
  ASSUME NEW s, NEW u, NEW t \in Nat,
         s.kind = u.kind, s.start = u.start, s.cliff = u.cliff, s.end = u.end,
         s.total = u.total, s.tranches = u.tranches,
         s.signalled = u.signalled, s.cancelled_at = u.cancelled_at
  PROVE  Vested(s, t) = Vested(u, t)
  BY DEF Vested, VestedAt, MilestoneVested

(* Signalling one more milestone only adds to what has vested. *)
LEMMA MilestoneSignalled ==
  ASSUME NEW s, NEW u, WellFormed(s), WellFormed(u), NEW t \in Nat,
         s.kind = "milestone", u.kind = "milestone",
         s.total = u.total, s.tranches = u.tranches,
         Cardinality(s.signalled) <= Cardinality(u.signalled)
  PROVE  Vested(s, t) <= Vested(u, t)
  BY ShareMonotone DEF Vested, MilestoneVested, WellFormed

-----------------------------------------------------------------------------
(* Counting units. *)

(* Removing a part of a finite set removes as many elements as it has. *)
LEMMA CountRemoved ==
  ASSUME NEW S, IsFiniteSet(S), NEW T, T \subseteq S
  PROVE  /\ IsFiniteSet(S \ T)
         /\ Cardinality(S \ T) = Cardinality(S) - Cardinality(T)
  <1>1. S \cap T = T
    OBVIOUS
  <1>2. QED
    BY <1>1, FS_Difference

(* Adding a disjoint finite set adds as many elements as it has. *)
LEMMA CountAdded ==
  ASSUME NEW S, IsFiniteSet(S), NEW T, IsFiniteSet(T), S \cap T = {}
  PROVE  Cardinality(S \cup T) = Cardinality(S) + Cardinality(T)
  <1>1. Cardinality(S) \in Nat /\ Cardinality(T) \in Nat
    BY FS_CardinalityType
  <1>2. Cardinality(S \cap T) = 0
    BY FS_EmptySet
  <1>3. Cardinality(S \cup T) = Cardinality(S) + Cardinality(T) - Cardinality(S \cap T)
    BY FS_Union
  <1>4. QED
    BY <1>1, <1>2, <1>3

(* The units of some schedules, numbered from lo + 1 to hi in each. *)
LEMMA CountUnits ==
  ASSUME NEW I, IsFiniteSet(I), NEW lo \in Nat, NEW hi \in Nat, lo <= hi
  PROVE  /\ IsFiniteSet(I \X (lo + 1 .. hi))
         /\ Cardinality(I \X (lo + 1 .. hi)) = Cardinality(I) * (hi - lo)
  <1>1. lo + 1 \in Int /\ hi \in Int
    OBVIOUS
  <1>2. /\ IsFiniteSet(lo + 1 .. hi)
        /\ Cardinality(lo + 1 .. hi) = IF lo + 1 > hi THEN 0 ELSE hi - (lo + 1) + 1
    BY <1>1, FS_Interval
  <1>3. (IF lo + 1 > hi THEN 0 ELSE hi - (lo + 1) + 1) = hi - lo
    OBVIOUS
  <1>4. QED
    BY <1>2, <1>3, FS_Product

(* The units of one schedule, counted. *)
LEMMA CountUnitsOfOne ==
  ASSUME NEW id, NEW lo \in Nat, NEW hi \in Nat, lo <= hi
  PROVE  /\ IsFiniteSet({id} \X (lo + 1 .. hi))
         /\ Cardinality({id} \X (lo + 1 .. hi)) = hi - lo
  <1>1. IsFiniteSet({id}) /\ Cardinality({id}) = 1
    BY FS_Singleton
  <1>2. QED
    BY <1>1, CountUnits

(* What is owed is finite. *)
LEMMA OwedFinite ==
  ASSUME NEW shards, NEW h, NEW a
  PROVE  IsFiniteSet(OwedUnits(shards, h, a)) /\ Cardinality(OwedUnits(shards, h, a)) \in Nat
  <1>1. IsFiniteSet(Amount)
    BY BoundsAssumption, FS_Interval DEF Amount
  <1>2. IsFiniteSet(Id \X Amount)
    BY <1>1, IdAssumption, FS_Product
  <1>3. OwedUnits(shards, h, a) \in SUBSET (Id \X Amount)
    BY DEF OwedUnits
  <1>4. IsFiniteSet(OwedUnits(shards, h, a))
    BY <1>2, <1>3, FS_Subset
  <1>5. QED
    BY <1>4, FS_CardinalityType

-----------------------------------------------------------------------------
(* Payments. *)

(* What a transfer does to the balances. *)
LEMMA Payment ==
  ASSUME TypeOK, NEW from \in Party, NEW to \in Party, NEW asset \in Asset,
         NEW amount \in Nat, Pays(from, to, asset, amount)
  PROVE  /\ bal' \in [Party -> [Asset -> Nat]]
         /\ bal'[from][asset] >= bal[from][asset] - amount
         /\ \A p \in Party, a \in Asset :
              p # from \/ a # asset => bal'[p][a] >= bal[p][a]
         /\ from # to => bal'[to][asset] = bal[to][asset] + amount
  <1> DEFINE b == [bal EXCEPT ![from][asset] = @ - amount]
  <1>1. /\ bal \in [Party -> [Asset -> Nat]]
        /\ amount <= bal[from][asset]
        /\ bal' = [b EXCEPT ![to][asset] = @ + amount]
    BY DEF TypeOK, Pays, Covers, Moved
  <1>2. /\ b \in [Party -> [Asset -> Nat]]
        /\ b[from][asset] = bal[from][asset] - amount
        /\ \A p \in Party, a \in Asset :
             p # from \/ a # asset => b[p][a] = bal[p][a]
    BY <1>1
  <1> HIDE DEF b
  <1>3. /\ bal' \in [Party -> [Asset -> Nat]]
        /\ bal'[to][asset] = b[to][asset] + amount
        /\ \A p \in Party, a \in Asset :
             p # to \/ a # asset => bal'[p][a] = b[p][a]
    BY <1>1, <1>2
  <1>4. \A p \in Party, a \in Asset : bal'[p][a] >= b[p][a]
    BY <1>2, <1>3
  <1>5. QED
    BY <1>1, <1>2, <1>3, <1>4

-----------------------------------------------------------------------------
(* Sound shards. *)

(* A sound shard is one the arithmetic is meant for. *)
LEMMA SoundWellFormed ==
  ASSUME NEW s \in Schedule, SoundTerms(s)
  PROVE  WellFormed(s)
  <1>1. CASE s.kind # "milestone"
    BY <1>1, BoundsAssumption DEF SoundTerms, WellFormed, Schedule, Amount, Time
  <1>2. CASE s.kind = "milestone"
    <2>1. s.tranches \in Nat \ {0} /\ s.signalled \subseteq 0..s.tranches-1
      BY <1>2, BoundsAssumption DEF SoundTerms
    <2>2. /\ IsFiniteSet(0..s.tranches-1)
          /\ Cardinality(0..s.tranches-1) = s.tranches
      <3> DEFINE last == s.tranches - 1
      <3>1. 0 \in Int /\ last \in Int /\ ~(0 > last) /\ last - 0 + 1 = s.tranches
        BY <2>1
      <3> HIDE DEF last
      <3>2. /\ IsFiniteSet(0..last)
            /\ Cardinality(0..last) = IF 0 > last THEN 0 ELSE last - 0 + 1
        BY <3>1, FS_Interval
      <3>3. QED
        BY <3>1, <3>2 DEF last
    <2>3. /\ IsFiniteSet(s.signalled)
          /\ Cardinality(s.signalled) <= s.tranches
      BY <2>1, <2>2, FS_Subset
    <2>4. Cardinality(s.signalled) \in 0..s.tranches
      BY <2>1, <2>3, FS_CardinalityType
    <2>5. QED
      BY <1>2, <2>1, <2>4, BoundsAssumption DEF WellFormed, Schedule, Amount, Time
  <1>3. QED
    BY <1>1, <1>2

(* What a sound shard owes is never negative, nor more than its total; and
   nothing of it was claimed that had not vested. *)
LEMMA SoundBounds ==
  ASSUME TypeOK, NEW s \in Schedule, Sound(s)
  PROVE  /\ s.claimed \in Amount /\ Entitlement(s) \in Amount
         /\ s.claimed <= Entitlement(s) /\ Entitlement(s) <= s.total
         /\ s.claimed <= Vested(s, now)
  <1>1. /\ now \in Nat /\ s.last_seen \in Nat /\ s.cancelled_at \in Nat
        /\ s.total \in Amount /\ s.claimed \in Amount
    BY BoundsAssumption, GenesisAssumption DEF TypeOK, Schedule, Time, Amount
  <1>2. WellFormed(s)
    BY SoundWellFormed DEF Sound
  <1>3. /\ Vested(s, s.last_seen) \in 0..s.total /\ Vested(s, now) \in 0..s.total
        /\ Vested(s, s.cancelled_at) \in 0..s.total
    BY <1>1, <1>2, VestedBounds
  <1>4. Vested(s, s.last_seen) <= Vested(s, now)
    BY <1>1, <1>2, VestedMonotone DEF Sound
  <1>5. s.cancelled_at # 0 => Vested(s, s.last_seen) <= Vested(s, s.cancelled_at)
    <2>1. CASE s.last_seen <= s.cancelled_at
      BY <1>1, <1>2, <2>1, VestedMonotone
    <2>2. CASE s.cancelled_at <= s.last_seen
      BY <1>1, <1>2, <1>3, <2>2, VestedFrozen
    <2>3. QED
      BY <1>1, <2>1, <2>2
  <1>6. Entitlement(s) \in 0..s.total
    BY <1>1, <1>3 DEF Entitlement, Amount
  <1>7. s.claimed <= Vested(s, s.last_seen)
    BY DEF Sound
  <1>8. s.claimed <= Entitlement(s)
    BY <1>1, <1>3, <1>5, <1>7 DEF Entitlement, Amount
  <1>9. QED
    BY <1>1, <1>3, <1>4, <1>6, <1>7, <1>8, BoundsAssumption DEF Amount

-----------------------------------------------------------------------------
(* What an escrow owes, before and after a transaction. *)

Shards == [Id -> Schedule \cup {NoSchedule}]

(* Shard s may be replaced by u, of the same escrow, claimed more and owed less. *)
OwesLess(s, u) ==
  /\ u.escrow = s.escrow /\ u.asset = s.asset
  /\ Entitlement(s) \in Amount /\ Entitlement(u) \in Amount
  /\ s.claimed <= u.claimed /\ u.claimed <= Entitlement(u)
  /\ Entitlement(u) <= Entitlement(s)

(* What escrow h no longer owes in asset a when u replaces s. *)
Relief(s, u, h, a) ==
  IF s.escrow = h /\ s.asset = a
    THEN (Entitlement(s) - s.claimed) - (Entitlement(u) - u.claimed)
    ELSE 0

(* One shard rewritten so that it owes less: its escrow owes less by just that. *)
LEMMA OwedShrinks ==
  ASSUME NEW old \in Shards, NEW new \in Shards, NEW id \in Id, NEW u \in Schedule,
         old[id] # NoSchedule, new[id] = u,
         \A i \in Id \ {id} : new[i] = old[i],
         OwesLess(old[id], u), NEW h, NEW a
  PROVE  Cardinality(OwedUnits(new, h, a)) =
           Cardinality(OwedUnits(old, h, a)) - Relief(old[id], u, h, a)
  <1> DEFINE s == old[id]
             paid == {id} \X (s.claimed + 1 .. u.claimed)
             lost == {id} \X (Entitlement(u) + 1 .. Entitlement(s))
  <1>1. /\ s \in Schedule /\ u # NoSchedule
        /\ s.claimed \in Nat /\ u.claimed \in Nat
        /\ s.claimed \in Amount /\ u.claimed \in Amount
        /\ Entitlement(s) \in Nat /\ Entitlement(u) \in Nat
        /\ Entitlement(s) \in Amount
        /\ u.escrow = s.escrow /\ u.asset = s.asset
        /\ s.claimed <= u.claimed /\ u.claimed <= Entitlement(u)
        /\ Entitlement(u) <= Entitlement(s)
    BY OfferAssumption, BoundsAssumption DEF Shards, Schedule, Amount, OwesLess
  <1>2. \A i \in Id : i # id => new[i] = old[i]
    OBVIOUS
  <1>3. CASE ~(s.escrow = h /\ s.asset = a)
    <2>1. OwedUnits(new, h, a) = OwedUnits(old, h, a)
      BY <1>1, <1>2, <1>3 DEF OwedUnits, Secured
    <2>2. QED
      BY <1>3, <2>1, OwedFinite DEF Relief
  <1>4. CASE s.escrow = h /\ s.asset = a
    <2>1. /\ IsFiniteSet(paid) /\ Cardinality(paid) = u.claimed - s.claimed
          /\ IsFiniteSet(lost) /\ Cardinality(lost) = Entitlement(s) - Entitlement(u)
      BY <1>1, CountUnitsOfOne
    <2>2. paid \cap lost = {}
      BY <1>1
    <2>3. /\ IsFiniteSet(paid \cup lost)
          /\ Cardinality(paid \cup lost) = Cardinality(paid) + Cardinality(lost)
      <3> HIDE DEF paid, lost
      <3> QED BY <2>1, <2>2, CountAdded, FS_Union
    <2>4. paid \cup lost \subseteq OwedUnits(old, h, a)
      BY <1>1, <1>4, BoundsAssumption DEF OwedUnits, Secured, Amount
    <2>5. OwedUnits(new, h, a) = OwedUnits(old, h, a) \ (paid \cup lost)
      BY <1>1, <1>2, <1>4, BoundsAssumption DEF OwedUnits, Secured, Amount
    <2>6. Cardinality(OwedUnits(new, h, a)) =
            Cardinality(OwedUnits(old, h, a)) - Cardinality(paid \cup lost)
      <3> HIDE DEF paid, lost
      <3> QED BY <2>4, <2>5, OwedFinite, CountRemoved
    <2>7. QED
      <3> HIDE DEF paid, lost
      <3> QED BY <1>1, <1>4, <2>1, <2>3, <2>6, OwedFinite DEF Relief
  <1>5. QED
    BY <1>3, <1>4

(* Unused identifiers I become new schedules of one escrow, asset and total. *)
Opened(old, new, I, e, asset, total) ==
  /\ \A i \in I : /\ old[i] = NoSchedule /\ new[i] # NoSchedule
                 /\ new[i].escrow = e /\ new[i].asset = asset
                 /\ new[i].claimed = 0 /\ Entitlement(new[i]) = total
  /\ \A i \in Id \ I : new[i] = old[i]

(* New schedules with one total each add just their totals to their escrow. *)
LEMMA OwedGrows ==
  ASSUME NEW old \in Shards, NEW new \in Shards, NEW I \in SUBSET Id,
         NEW e, NEW asset, NEW total \in Amount,
         Opened(old, new, I, e, asset, total), NEW h, NEW a
  PROVE  Cardinality(OwedUnits(new, h, a)) =
           Cardinality(OwedUnits(old, h, a)) +
             IF e = h /\ asset = a THEN Cardinality(I) * total ELSE 0
  <1> DEFINE added == I \X (0 + 1 .. total)
  <1>1. IsFiniteSet(I) /\ total \in Nat
    BY IdAssumption, BoundsAssumption, FS_Subset DEF Amount
  <1>2. CASE ~(e = h /\ asset = a)
    <2>1. OwedUnits(new, h, a) = OwedUnits(old, h, a)
      BY <1>2 DEF OwedUnits, Secured, Opened
    <2>2. QED
      BY <1>2, <2>1, OwedFinite
  <1>3. CASE e = h /\ asset = a
    <2>1. /\ IsFiniteSet(added)
          /\ Cardinality(added) = Cardinality(I) * (total - 0)
      <3>1. 0 \in Nat /\ 0 <= total
        BY <1>1
      <3>2. QED
        BY <1>1, <3>1, CountUnits
    <2>2. OwedUnits(old, h, a) \cap added = {}
      BY DEF OwedUnits, Secured, Opened
    <2>3. OwedUnits(new, h, a) = OwedUnits(old, h, a) \cup added
      BY <1>1, <1>3, BoundsAssumption DEF OwedUnits, Secured, Amount, Opened
    <2>4. Cardinality(OwedUnits(new, h, a)) =
            Cardinality(OwedUnits(old, h, a)) + Cardinality(added)
      <3> HIDE DEF added
      <3> QED BY <2>1, <2>2, <2>3, OwedFinite, CountAdded
    <2>5. QED
      <3> HIDE DEF added
      <3> QED BY <1>1, <1>3, <2>1, <2>4
  <1>4. QED
    BY <1>2, <1>3

-----------------------------------------------------------------------------
(* The invariant: what is common to the actions. *)

(* The transaction leaves u in the shard of id, and the other shards alone. *)
Rewrites(id, u) ==
  /\ shard' \in Shards /\ shard'[id] = u
  /\ \A i \in Id \ {id} : shard'[i] = shard[i]

(* Escrows pay no more than they stop owing when u replaces s. *)
PaysRelief(s, u) ==
  /\ bal' \in [Party -> [Asset -> Nat]]
  /\ \A h \in Holdings, a \in Asset :
       bal'[h][a] >= bal[h][a] - Relief(s, u, h, a)

(* One schedule is rewritten and its escrow pays out no more than the schedule
   stops being owed: the invariant is kept. *)
LEMMA Rewritten ==
  ASSUME Inductive, NEW id \in Id, Exists(id), NEW u \in Schedule, Sound(u),
         now' = now, Rewrites(id, u),
         u.escrow = shard[id].escrow, u.asset = shard[id].asset,
         shard[id].claimed <= u.claimed,
         Entitlement(u) <= Entitlement(shard[id]),
         PaysRelief(shard[id], u)
  PROVE  Inductive'
  <1>1. /\ TypeOK /\ shard[id] \in Schedule /\ Sound(shard[id])
        /\ EscrowSolvent
    BY DEF Inductive, TypeOK, Exists
  <1>2. TypeOK'
    BY <1>1 DEF TypeOK, Rewrites, Shards, PaysRelief
  <1>3. \A i \in Id : Exists(i)' => Sound(shard[i])'
    BY <1>1 DEF Inductive, TypeOK, Exists, Sound, Rewrites
  <1>4. OwesLess(shard[id], u)
    BY <1>1, SoundBounds DEF OwesLess
  <1>5. /\ shard \in Shards /\ shard' \in Shards
        /\ shard[id] # NoSchedule /\ shard'[id] = u
        /\ \A i \in Id \ {id} : shard'[i] = shard[i]
    BY <1>1 DEF Shards, TypeOK, Exists, Rewrites
  <1>6. ASSUME NEW h \in Holdings, NEW a \in Asset
        PROVE  Cardinality(OwedUnits(shard', h, a)) <= bal'[h][a]
    <2>1. Cardinality(OwedUnits(shard', h, a)) =
            Cardinality(OwedUnits(shard, h, a)) - Relief(shard[id], u, h, a)
      BY <1>4, <1>5, OwedShrinks
    <2>2. /\ Cardinality(OwedUnits(shard, h, a)) <= bal[h][a]
          /\ bal'[h][a] >= bal[h][a] - Relief(shard[id], u, h, a)
      BY <1>1 DEF EscrowSolvent, PaysRelief
    <2>3. Relief(shard[id], u, h, a) \in Int
      BY <1>1, <1>4, BoundsAssumption DEF Schedule, Amount, OwesLess, Relief
    <2>4. bal[h][a] \in Nat /\ bal'[h][a] \in Nat
      BY <1>1, <1>2 DEF TypeOK, Party
    <2>5. QED
      BY <2>1, <2>2, <2>3, <2>4, OwedFinite
  <1>7. QED
    BY <1>2, <1>3, <1>6 DEF Inductive, EscrowSolvent

(* Nothing paid and nothing owed less. *)
LEMMA RewrittenFree ==
  ASSUME Inductive, NEW id \in Id, Exists(id), NEW u \in Schedule, Sound(u),
         now' = now, bal' = bal, Rewrites(id, u),
         u.escrow = shard[id].escrow, u.asset = shard[id].asset,
         shard[id].claimed = u.claimed,
         Entitlement(u) = Entitlement(shard[id])
  PROVE  Inductive'
  <1>1. /\ TypeOK /\ shard[id] \in Schedule /\ Sound(shard[id])
    BY DEF Inductive, TypeOK, Exists
  <1>2. Entitlement(u) \in Int /\ u.claimed \in Int
    BY <1>1, SoundBounds, BoundsAssumption DEF Amount, Schedule
  <1>3. bal' \in [Party -> [Asset -> Nat]]
    BY <1>1 DEF TypeOK
  <1>4. \A h \in Holdings, a \in Asset : bal[h][a] \in Nat
    BY <1>1 DEF TypeOK, Party
  <1>5. PaysRelief(shard[id], u)
    BY <1>2, <1>3, <1>4 DEF Relief, PaysRelief
  <1>6. shard[id].claimed <= u.claimed /\ Entitlement(u) <= Entitlement(shard[id])
    BY <1>2
  <1>7. QED
    BY <1>5, <1>6, Rewritten

(* Escrow e receives amount of an asset, and no escrow pays. *)
Receives(e, asset, amount) ==
  /\ bal' \in [Party -> [Asset -> Nat]]
  /\ \A h \in Holdings, a \in Asset :
       bal'[h][a] >= bal[h][a] + IF e = h /\ asset = a THEN amount ELSE 0

(* New schedules are paid for in full: the invariant is kept. *)
LEMMA Funded ==
  ASSUME Inductive, NEW I \in SUBSET Id, NEW e \in Holdings,
         NEW asset \in Asset, NEW total \in Amount, now' = now,
         shard' \in Shards, Opened(shard, shard', I, e, asset, total),
         \A i \in I : Sound(shard'[i]),
         Receives(e, asset, Cardinality(I) * total)
  PROVE  Inductive'
  <1>1. TypeOK /\ EscrowSolvent
    BY DEF Inductive
  <1>2. TypeOK' /\ shard \in Shards
    BY <1>1 DEF TypeOK, Shards, Receives
  <1>3. \A i \in Id : Exists(i)' => Sound(shard[i])'
    BY <1>1 DEF Inductive, TypeOK, Exists, Sound, Opened
  <1>4. ASSUME NEW h \in Holdings, NEW a \in Asset
        PROVE  Cardinality(OwedUnits(shard', h, a)) <= bal'[h][a]
    <2> DEFINE rise == IF e = h /\ asset = a THEN Cardinality(I) * total ELSE 0
    <2>1. Cardinality(OwedUnits(shard', h, a)) =
            Cardinality(OwedUnits(shard, h, a)) + rise
      BY <1>2, OwedGrows
    <2>2. /\ Cardinality(OwedUnits(shard, h, a)) <= bal[h][a]
          /\ bal'[h][a] >= bal[h][a] + rise
      BY <1>1 DEF EscrowSolvent, Receives
    <2>3. Cardinality(I) \in Nat
      BY IdAssumption, FS_Subset, FS_CardinalityType
    <2>4. rise \in Int
      BY <2>3, BoundsAssumption DEF Amount
    <2>5. bal[h][a] \in Nat /\ bal'[h][a] \in Nat
      BY <1>1, <1>2 DEF TypeOK, Party
    <2>6. QED
      <3> HIDE DEF rise
      <3> QED BY <2>1, <2>2, <2>4, <2>5, OwedFinite
  <1>5. QED
    BY <1>2, <1>3, <1>4 DEF Inductive, EscrowSolvent

-----------------------------------------------------------------------------
(* The invariant, action by action. *)

(* No schedule, nothing owed. *)
LEMMA InitInductive ==
  Init => Inductive
  <1> SUFFICES ASSUME Init PROVE Inductive
    OBVIOUS
  <1>1. TypeOK
    BY GenesisAssumption, AccountsAssumption, BoundsAssumption
    DEF Init, TypeOK, Time
  <1>2. \A h, a : OwedUnits(shard, h, a) = {}
    BY DEF Init, OwedUnits, Secured
  <1>3. \A h \in Holdings, a \in Asset : bal[h][a] \in Nat
    BY <1>1 DEF TypeOK, Party
  <1>4. EscrowSolvent
    BY <1>2, <1>3, FS_EmptySet DEF EscrowSolvent
  <1>5. QED
    BY <1>1, <1>4 DEF Init, Inductive, Exists

(* Time only lets more vest. *)
LEMMA TickKeeps ==
  ASSUME Inductive, Tick
  PROVE  Inductive'
  <1>1. TypeOK /\ now' = now + 1 /\ now < TimeMax /\ shard' = shard /\ bal' = bal
    BY DEF Inductive, Tick
  <1>2. TypeOK'
    BY <1>1, GenesisAssumption, BoundsAssumption DEF TypeOK, Time
  <1>3. ASSUME NEW id \in Id, Exists(id)'
        PROVE  Sound(shard[id])'
    <2>1. Sound(shard[id]) /\ shard[id] \in Schedule
      BY <1>1, <1>3 DEF Inductive, Exists, TypeOK
    <2>2. /\ now \in Nat
          /\ shard[id].last_seen \in Nat /\ shard[id].cancelled_at \in Nat
      BY <1>1, <2>1, GenesisAssumption, BoundsAssumption DEF TypeOK, Schedule, Time
    <2>3. QED
      BY <1>1, <2>1, <2>2 DEF Sound
  <1>4. EscrowSolvent'
    BY <1>1 DEF Inductive, EscrowSolvent
  <1>5. QED
    BY <1>2, <1>3, <1>4 DEF Inductive

(* Terms that pass new_state make a sound schedule that is owed its total. *)
LEMMA NewStateSound ==
  ASSUME now \in Nat, NEW creator \in Account, NEW escrow \in Holdings,
         NEW beneficiary \in Account, NEW asset \in Asset,
         NEW terms \in Terms, ValidTerms(terms),
         NEW u, u = NewState(creator, escrow, beneficiary, asset, terms)
  PROVE  /\ u \in Schedule /\ Sound(u)
         /\ u.escrow = escrow /\ u.asset = asset /\ u.claimed = 0
         /\ Entitlement(u) = terms.total
  <1>1. /\ OrCreator(terms.cancel_authority, creator) \in Account
        /\ OrCreator(terms.milestone_authority, creator) \in Account
        /\ terms.refund_to \in Party
    BY DEF Terms, OrCreator, ValidTerms
  <1>2. u \in Schedule
    BY <1>1, BoundsAssumption DEF NewState, Schedule, Terms, Amount, Time
  <1>3. /\ u.kind = terms.kind /\ u.start = terms.start /\ u.end = terms.end
        /\ u.tranches = terms.tranches /\ u.signalled = {}
        /\ u.claimed = 0 /\ u.last_seen = 0 /\ u.cancelled_at = 0
        /\ u.escrow = escrow /\ u.asset = asset /\ u.total = terms.total
    BY DEF NewState
  <1>4. SoundTerms(u)
    <2>1. terms.start \in Nat /\ terms.cliff \in Nat /\ terms.end \in Nat
      BY BoundsAssumption DEF Terms, Time
    <2>2. QED
      BY <1>3, <2>1 DEF SoundTerms, ValidTerms, Terms, Kinds
  <1>5. Vested(u, 0) \in Nat
    <2>1. WellFormed(u)
      BY <1>2, <1>4, SoundWellFormed
    <2>2. u.total \in Nat
      BY <2>1 DEF WellFormed
    <2>3. QED
      BY <2>1, <2>2, VestedBounds
  <1>6. QED
    BY <1>2, <1>3, <1>4, <1>5 DEF Sound, Entitlement

(* A creation pays in what it will owe. *)
LEMMA CreateKeeps ==
  ASSUME Inductive, NEW id \in Id, NEW creator \in Account,
         NEW beneficiary \in Account, NEW asset \in Asset, NEW terms \in Terms,
         CreateSchedule(id, creator, beneficiary, asset, terms)
  PROVE  Inductive'
  <1> DEFINE u == NewState(creator, Holding(id), beneficiary, asset, terms)
  <1>1. /\ TypeOK /\ ValidTerms(terms) /\ shard[id] = NoSchedule /\ now' = now
        /\ Pays(creator, Holding(id), asset, terms.total)
        /\ shard' = [shard EXCEPT ![id] = u]
    BY DEF Inductive, CreateSchedule, CreateAccepted, Fresh, Exists
  <1>2. /\ u \in Schedule /\ Sound(u)
        /\ u.escrow = Holding(id) /\ u.asset = asset /\ u.claimed = 0
        /\ Entitlement(u) = terms.total
    <2> HIDE DEF u
    <2>1. Holding(id) \in Holdings
      BY DEF Holdings
    <2>2. now \in Nat
      BY <1>1, GenesisAssumption, BoundsAssumption DEF TypeOK, Time
    <2>3. QED
      BY <1>1, <2>1, <2>2, NewStateSound DEF u
  <1>3. u # NoSchedule
    BY <1>2, OfferAssumption
  <1> HIDE DEF u
  <1>4. /\ shard' \in Shards /\ Opened(shard, shard', {id}, Holding(id), asset, terms.total)
        /\ shard'[id] = u
    BY <1>1, <1>2, <1>3 DEF Opened, Shards, TypeOK
  <1>5. terms.total \in Nat /\ terms.total \in Amount
    BY BoundsAssumption DEF Terms, Amount
  <1>6. Holding(id) \in Holdings /\ Holding(id) \in Party /\ creator \in Party
        /\ creator \notin Holdings
    BY AccountsAssumption DEF Holdings, Party
  <1>7. /\ bal' \in [Party -> [Asset -> Nat]]
        /\ \A p \in Party, a \in Asset :
             p # creator \/ a # asset => bal'[p][a] >= bal[p][a]
        /\ bal'[Holding(id)][asset] = bal[Holding(id)][asset] + terms.total
    BY <1>1, <1>5, <1>6, Payment
  <1>8. Receives(Holding(id), asset, Cardinality({id}) * terms.total)
    <2>1. Cardinality({id}) = 1
      BY FS_Singleton
    <2>2. \A h \in Holdings, a \in Asset : h \in Party /\ h # creator /\ bal[h][a] \in Nat
                                           /\ bal'[h][a] \in Nat
      BY <1>1, <1>6, <1>7 DEF Party, TypeOK
    <2>3. QED
      BY <1>5, <1>7, <2>1, <2>2 DEF Receives
  <1>9. {id} \in SUBSET Id /\ (\A i \in {id} : Sound(shard'[i])) /\ now' = now
    BY <1>1, <1>2, <1>4
  <1>10. QED
    BY <1>4, <1>5, <1>6, <1>8, <1>9, Funded

(* A batch has as many rows as it was asked for: no two share an identifier. *)
LEMMA BatchSize ==
  ASSUME NEW batch \in BatchId, NEW n \in 1..MaxBatch
  PROVE  /\ BatchRows(batch, n) \in SUBSET Id
         /\ Cardinality(BatchRows(batch, n)) = n
  <1> DEFINE f == [i \in 0..n-1 |-> BatchScheduleId[batch][i]]
  <1>1. n \in Nat /\ 0..n-1 \subseteq 0..MaxBatch-1
    BY BoundsAssumption
  <1>2. BatchRows(batch, n) \in SUBSET Id
    <2>1. BatchScheduleId[batch] \in [0..MaxBatch-1 -> Id]
      BY IdAssumption
    <2>2. QED
      BY <1>1, <2>1 DEF BatchRows
  <1>3. IsFiniteSet(0..n-1) /\ Cardinality(0..n-1) = n
    <2> DEFINE last == n - 1
    <2>1. 0 \in Int /\ last \in Int /\ ~(0 > last) /\ last - 0 + 1 = n
      OBVIOUS
    <2> HIDE DEF last
    <2>2. /\ IsFiniteSet(0..last)
          /\ Cardinality(0..last) = IF 0 > last THEN 0 ELSE last - 0 + 1
      BY <2>1, FS_Interval
    <2>3. QED
      BY <2>1, <2>2 DEF last
  <1>4. f \in Bijection(0..n-1, BatchRows(batch, n))
    <2>1. f \in [0..n-1 -> BatchRows(batch, n)]
      BY DEF BatchRows
    <2>2. \A i, j \in 0..n-1 : f[i] = f[j] => i = j
      BY <1>1, IdAssumption
    <2>3. \A id \in BatchRows(batch, n) : \E i \in 0..n-1 : f[i] = id
      BY DEF BatchRows
    <2>4. QED
      BY <2>1, <2>2, <2>3 DEF Bijection, Injection, Surjection, IsInjective
  <1>5. ExistsBijection(0..n-1, BatchRows(batch, n))
    BY <1>4 DEF ExistsBijection
  <1>6. QED
    BY <1>2, <1>3, <1>5, FS_Bijection

(* A batch pays in the sum of what its members will owe. *)
LEMMA BatchKeeps ==
  ASSUME Inductive, NEW batch \in BatchId, NEW n \in 1..MaxBatch,
         NEW payees \in [0..n-1 -> Account], NEW creator \in Account,
         NEW asset \in Asset, NEW terms \in Terms,
         CreateScheduleBatch(batch, n, payees, creator, asset, terms)
  PROVE  Inductive'
  <1> DEFINE I == BatchRows(batch, n)
             e == Holding(batch)
  <1>1. /\ TypeOK /\ ValidTerms(terms) /\ now' = now
        /\ \A id \in I : shard[id] = NoSchedule
        /\ Pays(creator, e, asset, terms.total * n)
    BY DEF Inductive, CreateScheduleBatch, BatchAccepted, Fresh, Exists, BatchSum
  <1>2. /\ terms.total \in Nat /\ terms.total \in Amount /\ n \in Nat
        /\ n * terms.total \in Nat /\ terms.total * n = n * terms.total
    BY BoundsAssumption DEF Terms, Amount
  <1>3. /\ e \in Holdings /\ e \in Party /\ creator \in Party
        /\ creator \notin Holdings
    BY AccountsAssumption, IdAssumption DEF Holdings, Party
  <1>4. I \in SUBSET Id /\ Cardinality(I) = n
    BY BatchSize
  <1>5. ASSUME NEW id \in I
        PROVE  /\ shard'[id] \in Schedule /\ Sound(shard'[id])
               /\ shard'[id].escrow = e /\ shard'[id].asset = asset
               /\ shard'[id].claimed = 0
               /\ Entitlement(shard'[id]) = terms.total
    <2> DEFINE i == CHOOSE i \in 0..n-1 : BatchScheduleId[batch][i] = id
               u == NewState(creator, e, payees[i], asset, terms)
    <2>1. shard'[id] = u
      BY <1>4 DEF CreateScheduleBatch, BatchAccepted
    <2>2. payees[i] \in Account
      <3>1. \E j \in 0..n-1 : BatchScheduleId[batch][j] = id
        BY DEF BatchRows
      <3>2. i \in 0..n-1
        BY <3>1
      <3>3. QED
        BY <3>2
    <2> HIDE DEF i, e
    <2>3. shard'[id] = NewState(creator, e, payees[i], asset, terms)
      BY <2>1
    <2>4. now \in Nat
      BY <1>1, GenesisAssumption, BoundsAssumption DEF TypeOK, Time
    <2>5. QED
      BY <1>1, <1>3, <2>2, <2>3, <2>4, NewStateSound
  <1>6. \A id \in Id \ I : shard'[id] = shard[id]
    BY DEF CreateScheduleBatch, BatchAccepted
  <1>7. shard' \in Shards /\ Opened(shard, shard', I, e, asset, terms.total)
    <2>1. \A id \in I : shard'[id] # NoSchedule
      BY <1>5, OfferAssumption
    <2>2. shard' = [id \in Id |-> shard'[id]]
      BY DEF CreateScheduleBatch, BatchAccepted
    <2>3. \A id \in Id : shard'[id] \in Schedule \cup {NoSchedule}
      BY <1>1, <1>5, <1>6 DEF TypeOK
    <2> HIDE DEF I, e
    <2>4. QED
      BY <1>1, <1>5, <1>6, <2>1, <2>2, <2>3 DEF Opened, Shards
  <1> HIDE DEF I, e
  <1>8. /\ bal' \in [Party -> [Asset -> Nat]]
        /\ \A p \in Party, a \in Asset :
             p # creator \/ a # asset => bal'[p][a] >= bal[p][a]
        /\ bal'[e][asset] = bal[e][asset] + n * terms.total
    <2>1. creator # e /\ Pays(creator, e, asset, n * terms.total)
      BY <1>1, <1>2, <1>3
    <2>2. QED
      BY <1>1, <1>2, <1>3, <2>1, Payment
  <1>9. Receives(e, asset, Cardinality(I) * terms.total)
    <2>1. \A h \in Holdings, a \in Asset : /\ h \in Party /\ h # creator
                                           /\ bal[h][a] \in Nat /\ bal'[h][a] \in Nat
      BY <1>1, <1>3, <1>8 DEF Party, TypeOK
    <2> DEFINE sum == n * terms.total
    <2>2. bal'[e][asset] = bal[e][asset] + sum /\ sum \in Nat
      BY <1>2, <1>8
    <2> HIDE DEF sum
    <2>3. Receives(e, asset, sum)
      BY <1>8, <2>1, <2>2 DEF Receives
    <2>4. QED
      BY <1>4, <2>3 DEF sum
  <1>10. QED
    BY <1>1, <1>2, <1>3, <1>4, <1>5, <1>7, <1>9, Funded

(* A claim: what leaves the escrow is what the schedule is owed less. *)
LEMMA ClaimKeeps ==
  ASSUME Inductive, NEW id \in Id, NEW seed \in Id, NEW asset \in Asset,
         NEW amount \in Amount, NEW at \in Time, NEW signer,
         NEW destination \in Party,
         Claim(id, seed, asset, amount, at, signer, destination)
  PROVE  Inductive'
  <1> DEFINE s == shard[id]
             u == AfterClaim(s, amount, at)
  <1>1. /\ TypeOK /\ Exists(id) /\ s \in Schedule /\ Sound(s) /\ now' = now
        /\ shard' = [shard EXCEPT ![id] = u]
        /\ Holding(seed) = s.escrow /\ asset = s.asset
        /\ at <= now /\ amount > 0 /\ amount <= Claimable(s, at)
        /\ s.claimed + amount <= AmountMax
        /\ Pays(Holding(seed), destination, asset, amount)
    BY DEF Inductive, Claim, ClaimAccepted, RightEscrow, RightAsset, ClaimWindowOpen, MayClaim,
           TypeOK, Exists
  <1>2. /\ amount \in Nat /\ at \in Nat /\ now \in Nat
        /\ s.claimed \in Nat /\ s.last_seen \in Nat /\ s.cancelled_at \in Nat
        /\ s.last_seen <= now /\ s.cancelled_at <= now
    BY <1>1, BoundsAssumption, GenesisAssumption
    DEF TypeOK, Schedule, Amount, Time, Sound
  <1>3. u \in Schedule
    <2> DEFINE c == s.claimed + amount
               l == IF at > s.last_seen THEN at ELSE s.last_seen
    <2>1. c \in Amount /\ l \in Time
      BY <1>1, <1>2, BoundsAssumption DEF Schedule, Amount
    <2>2. u = [s EXCEPT !.claimed = c, !.last_seen = l]
      BY <1>1 DEF AfterClaim, Schedule
    <2> HIDE DEF c, l, u
    <2>3. QED
      BY <1>1, <2>1, <2>2 DEF Schedule
  <1>4. /\ u.kind = s.kind /\ u.start = s.start /\ u.cliff = s.cliff
        /\ u.end = s.end /\ u.total = s.total /\ u.tranches = s.tranches
        /\ u.signalled = s.signalled /\ u.cancelled_at = s.cancelled_at
        /\ u.escrow = s.escrow /\ u.asset = s.asset
        /\ u.claimed = s.claimed + amount
        /\ u.last_seen = IF at > s.last_seen THEN at ELSE s.last_seen
    BY <1>1 DEF AfterClaim, Schedule
  <1> HIDE DEF u
  <1>5. \A t \in Nat : Vested(u, t) = Vested(s, t)
    BY <1>4, VestedSameTerms
  <1>6. SoundTerms(u) /\ SoundTerms(s)
    BY <1>1, <1>4 DEF Sound, SoundTerms
  <1>7. Sound(u)
    <2>1. WellFormed(u) /\ WellFormed(s)
      BY <1>1, <1>3, <1>6, SoundWellFormed
    <2>2. /\ u.last_seen \in Nat /\ at <= u.last_seen /\ u.last_seen <= now
      BY <1>1, <1>2, <1>4
    <2>3. Vested(u, at) <= Vested(u, u.last_seen)
      BY <1>2, <2>1, <2>2, VestedMonotone
    <2>4. Vested(u, at) \in Nat /\ Vested(u, u.last_seen) \in Nat
      <3>1. u.total \in Nat
        BY <2>1 DEF WellFormed
      <3>2. QED
        BY <1>2, <2>1, <2>2, <3>1, VestedBounds
    <2>5. u.claimed <= Vested(u, at)
      BY <1>1, <1>2, <1>4, <1>5, <2>4 DEF Claimable
    <2>6. u.claimed <= Vested(u, u.last_seen)
      BY <1>2, <1>4, <2>3, <2>4, <2>5
    <2>7. QED
      BY <1>2, <1>4, <1>6, <2>2, <2>6 DEF Sound
  <1>8. Entitlement(u) = Entitlement(s) /\ Entitlement(s) \in Nat
    <2>1. Entitlement(u) = Entitlement(s)
      BY <1>2, <1>4, <1>5 DEF Entitlement
    <2>2. QED
      BY <1>1, <2>1, SoundBounds, BoundsAssumption DEF Amount
  <1>9. Rewrites(id, u)
    BY <1>1, <1>3 DEF Rewrites, Shards, TypeOK
  <1>10. PaysRelief(s, u)
    <2>1. s.escrow \in Party
      BY <1>1 DEF Schedule, Party
    <2>2. /\ bal' \in [Party -> [Asset -> Nat]]
          /\ bal'[s.escrow][s.asset] >= bal[s.escrow][s.asset] - amount
          /\ \A p \in Party, a \in Asset :
               p # s.escrow \/ a # s.asset => bal'[p][a] >= bal[p][a]
      BY <1>1, <1>2, <2>1, Payment
    <2>3. \A h \in Holdings, a \in Asset :
            h \in Party /\ bal[h][a] \in Nat /\ bal'[h][a] \in Nat
      BY <1>1, <2>2 DEF TypeOK, Party
    <2>4. \A h, a : Relief(s, u, h, a) =
                     IF s.escrow = h /\ s.asset = a THEN amount ELSE 0
      BY <1>2, <1>4, <1>8 DEF Relief
    <2>5. QED
      BY <1>2, <2>2, <2>3, <2>4 DEF PaysRelief
  <1>11. s.claimed <= u.claimed /\ Entitlement(u) <= Entitlement(s)
    BY <1>2, <1>4, <1>8
  <1>12. QED
    BY <1>1, <1>3, <1>4, <1>7, <1>9, <1>10, <1>11, Rewritten

(* A cancellation is dated after the window, so the time it freezes at is the
   time it is dated. *)
LEMMA CancelDated ==
  ASSUME TypeOK, NEW at \in Time, CancelWindowOpen(at)
  PROVE  at \in Nat \ {0} /\ at <= now /\ now < at + CancelWindow
  BY BoundsAssumption, GenesisAssumption DEF TypeOK, CancelWindowOpen, Time

(* The schedule a cancellation leaves: sound, owed what had vested at its date,
   and refunded the rest. *)
LEMMA FrozenSound ==
  ASSUME TypeOK, NEW s \in Schedule, Sound(s), s.cancelled_at = 0,
         NEW at \in Time, at # 0, at <= now, s.last_seen <= at,
         NEW u, u = Frozen(s, at)
  PROVE  /\ u \in Schedule /\ Sound(u) /\ WellFormed(u) /\ WellFormed(s)
         /\ u.escrow = s.escrow /\ u.asset = s.asset /\ u.claimed = s.claimed
         /\ u.cancelled_at = at
         /\ Entitlement(u) = Vested(s, at)
         /\ Vested(u, at) = Vested(s, at)
         /\ Entitlement(u) \in 0..s.total
         /\ Unvested(s, at) = s.total - Entitlement(u)
  <1>1. /\ at \in Nat /\ now \in Nat /\ s.last_seen \in Nat /\ s.claimed \in Nat
        /\ s.total \in Nat
    BY BoundsAssumption, GenesisAssumption DEF TypeOK, Time, Schedule, Amount
  <1>2. (IF at > 1 THEN at ELSE 1) = at
    BY <1>1
  <1>3. u = [s EXCEPT !.cancelled_at = at, !.last_seen = at]
    BY <1>2 DEF Frozen
  <1>4. u \in Schedule
    BY <1>3 DEF Schedule
  <1>5. /\ u.kind = s.kind /\ u.start = s.start /\ u.cliff = s.cliff
        /\ u.end = s.end /\ u.total = s.total /\ u.tranches = s.tranches
        /\ u.signalled = s.signalled /\ u.cancelled_at = at /\ u.last_seen = at
        /\ u.escrow = s.escrow /\ u.asset = s.asset /\ u.claimed = s.claimed
    BY <1>3 DEF Schedule
  <1>6. WellFormed(u) /\ WellFormed(s)
    <2>1. SoundTerms(s) /\ SoundTerms(u)
      BY <1>5 DEF Sound, SoundTerms
    <2>2. QED
      BY <1>4, <2>1, SoundWellFormed
  <1>7. Vested(u, at) = Vested(s, at)
    BY <1>1, <1>5 DEF Vested, VestedAt, MilestoneVested
  <1>8. Vested(s, at) \in 0..s.total /\ Vested(s, s.last_seen) \in 0..s.total
    BY <1>1, <1>6, VestedBounds
  <1>9. s.claimed <= Vested(u, at)
    <2>1. s.claimed <= Vested(s, s.last_seen)
      BY DEF Sound
    <2>2. Vested(s, s.last_seen) <= Vested(s, at)
      BY <1>1, <1>6, VestedMonotone
    <2>3. QED
      BY <1>1, <1>7, <1>8, <2>1, <2>2
  <1>10. Sound(u)
    BY <1>5, <1>9 DEF Sound, SoundTerms
  <1>11. Entitlement(u) = Vested(s, at)
    BY <1>5, <1>7 DEF Entitlement
  <1>12. Unvested(s, at) = s.total - Vested(s, at)
    <2> DEFINE w == [s EXCEPT !.cancelled_at = 0]
    <2>1. w = s
      BY DEF Schedule
    <2>2. Unvested(s, at) = s.total - Vested(w, at)
      BY DEF Unvested
    <2> HIDE DEF w
    <2>3. QED
      BY <2>1, <2>2
  <1>13. QED
    BY <1>4, <1>5, <1>6, <1>7, <1>8, <1>10, <1>11, <1>12

(* A cancellation: the refund is what the schedule is owed less. *)
LEMMA CancelKeeps ==
  ASSUME Inductive, NEW id \in Id, NEW seed \in Id, NEW asset \in Asset,
         NEW at \in Time, NEW signer, Cancel(id, seed, asset, at, signer)
  PROVE  Inductive'
  <1> DEFINE s == shard[id]
             u == Frozen(s, at)
             refund == Unvested(s, at)
  <1>1. /\ TypeOK /\ Exists(id) /\ s \in Schedule /\ Sound(s) /\ now' = now
        /\ shard' = [shard EXCEPT ![id] = u]
        /\ Holding(seed) = s.escrow /\ asset = s.asset
        /\ CancelWindowOpen(at) /\ s.cancelled_at = 0 /\ s.last_seen <= at
        /\ Pays(Holding(seed), s.refund_to, asset, refund)
    <2>1. TypeOK /\ Exists(id) /\ s \in Schedule /\ Sound(s)
      BY DEF Inductive, Cancel, CancelAccepted, TypeOK, Exists
    <2>2. s.last_seen \in Nat /\ at \in Nat
      BY <2>1, BoundsAssumption DEF Schedule, Time
    <2>3. QED
      BY <2>1, <2>2
      DEF Cancel, CancelAccepted, RightEscrow, RightAsset, MayCancel, NotBeforeLastClaim
  <1>2. at # 0 /\ at <= now
    BY <1>1, CancelDated
  <1> HIDE DEF u, refund
  <1>3. /\ u \in Schedule /\ Sound(u)
        /\ u.escrow = s.escrow /\ u.asset = s.asset /\ u.claimed = s.claimed
        /\ Entitlement(u) \in 0..s.total
        /\ refund = s.total - Entitlement(u)
    BY <1>1, <1>2, FrozenSound DEF u, refund
  <1>4. /\ s.total \in Nat /\ s.claimed \in Nat /\ refund \in Nat
        /\ Entitlement(u) \in Nat /\ Entitlement(s) = s.total
    BY <1>1, <1>3, BoundsAssumption DEF Schedule, Amount, Entitlement
  <1>5. Rewrites(id, u)
    BY <1>1, <1>3 DEF Rewrites, Shards, TypeOK
  <1>6. PaysRelief(s, u)
    <2>1. s.escrow \in Party /\ s.refund_to \in Party
      BY <1>1 DEF Schedule, Party
    <2>2. /\ bal' \in [Party -> [Asset -> Nat]]
          /\ bal'[s.escrow][s.asset] >= bal[s.escrow][s.asset] - refund
          /\ \A p \in Party, a \in Asset :
               p # s.escrow \/ a # s.asset => bal'[p][a] >= bal[p][a]
      BY <1>1, <1>4, <2>1, Payment
    <2>3. \A h \in Holdings, a \in Asset :
            h \in Party /\ bal[h][a] \in Nat /\ bal'[h][a] \in Nat
      BY <1>1, <2>2 DEF TypeOK, Party
    <2>4. \A h, a : Relief(s, u, h, a) =
                     IF s.escrow = h /\ s.asset = a THEN refund ELSE 0
      BY <1>3, <1>4 DEF Relief
    <2>5. QED
      BY <1>4, <2>2, <2>3, <2>4 DEF PaysRelief
  <1>7. s.claimed <= u.claimed /\ Entitlement(u) <= Entitlement(s)
    BY <1>3, <1>4
  <1>8. QED
    BY <1>1, <1>3, <1>5, <1>6, <1>7, Rewritten

(* A step that moves no money and leaves the vesting of a shard alone. *)
LEMMA SameVestingKeeps ==
  ASSUME Inductive, NEW id \in Id, Exists(id), NEW u \in Schedule,
         Rewrites(id, u), now' = now, bal' = bal,
         u.kind = shard[id].kind, u.start = shard[id].start,
         u.cliff = shard[id].cliff, u.end = shard[id].end,
         u.total = shard[id].total, u.tranches = shard[id].tranches,
         u.signalled = shard[id].signalled,
         u.cancelled_at = shard[id].cancelled_at,
         u.last_seen = shard[id].last_seen, u.claimed = shard[id].claimed,
         u.escrow = shard[id].escrow, u.asset = shard[id].asset
  PROVE  Inductive'
  <1>1. TypeOK /\ shard[id] \in Schedule /\ Sound(shard[id])
    BY DEF Inductive, TypeOK, Exists
  <1>2. shard[id].last_seen \in Nat /\ shard[id].cancelled_at \in Nat
    BY <1>1, BoundsAssumption DEF Schedule, Time
  <1>3. \A t \in Nat : Vested(u, t) = Vested(shard[id], t)
    BY VestedSameTerms
  <1>4. Sound(u)
    BY <1>1, <1>2, <1>3 DEF Sound, SoundTerms
  <1>5. Entitlement(u) = Entitlement(shard[id])
    BY <1>2, <1>3 DEF Entitlement
  <1>6. QED
    BY <1>4, <1>5, RewrittenFree

(* A waiver changes nothing owed. *)
LEMMA WaiveKeeps ==
  ASSUME Inductive, NEW id \in Id, NEW signer, MakeNonCancelable(id, signer)
  PROVE  Inductive'
  <1> DEFINE u == [shard[id] EXCEPT !.cancelable = FALSE]
  <1>1. /\ TypeOK /\ Exists(id) /\ shard[id] \in Schedule
        /\ now' = now /\ bal' = bal /\ shard' = [shard EXCEPT ![id] = u]
    BY DEF Inductive, MakeNonCancelable, WaiverAccepted, TypeOK, Exists
  <1>2. u \in Schedule
    BY <1>1 DEF Schedule
  <1>3. Rewrites(id, u)
    BY <1>1, <1>2 DEF Rewrites, Shards, TypeOK
  <1>4. QED
    BY <1>1, <1>2, <1>3, SameVestingKeeps DEF Schedule

(* A new beneficiary is owed what the old one was. *)
LEMMA TransferKeeps ==
  ASSUME Inductive, NEW id \in Id, NEW signer, NEW new_beneficiary \in Account,
         TransferBeneficiary(id, signer, new_beneficiary)
  PROVE  Inductive'
  <1> DEFINE u == [shard[id] EXCEPT !.beneficiary = new_beneficiary]
  <1>1. /\ TypeOK /\ Exists(id) /\ shard[id] \in Schedule
        /\ now' = now /\ bal' = bal /\ shard' = [shard EXCEPT ![id] = u]
    BY DEF Inductive, TransferBeneficiary, TransferAccepted, TypeOK, Exists
  <1>2. u \in Schedule
    BY <1>1 DEF Schedule
  <1>3. Rewrites(id, u)
    BY <1>1, <1>2 DEF Rewrites, Shards, TypeOK
  <1>4. QED
    BY <1>1, <1>2, <1>3, SameVestingKeeps DEF Schedule

(* A milestone signal leaves a sound schedule that has vested no less. *)
LEMMA SignalledSound ==
  ASSUME TypeOK, NEW s \in Schedule, Sound(s), NEW index \in 0..MaxTranches-1,
         MaySignal(s, index), NEW u, u = [s EXCEPT !.signalled = @ \cup {index}]
  PROVE  /\ u \in Schedule /\ Sound(u) /\ WellFormed(u) /\ WellFormed(s)
         /\ \A t \in Nat : Vested(s, t) <= Vested(u, t)
  <1>1. u \in Schedule
    BY DEF Schedule
  <1>2. /\ u.kind = s.kind /\ u.start = s.start /\ u.cliff = s.cliff
        /\ u.end = s.end /\ u.total = s.total /\ u.tranches = s.tranches
        /\ u.signalled = s.signalled \cup {index}
        /\ u.cancelled_at = s.cancelled_at /\ u.last_seen = s.last_seen
        /\ u.claimed = s.claimed /\ s.kind = "milestone" /\ index < s.tranches
    BY DEF Schedule, MaySignal
  <1>3. SoundTerms(s) /\ SoundTerms(u)
    BY <1>2, BoundsAssumption DEF Sound, SoundTerms
  <1>4. WellFormed(s) /\ WellFormed(u)
    BY <1>1, <1>3, SoundWellFormed
  <1>5. Cardinality(s.signalled) <= Cardinality(u.signalled)
    <2>1. IsFiniteSet(0..u.tranches-1) /\ u.signalled \subseteq 0..u.tranches-1
      <3>1. 0 \in Int /\ u.tranches - 1 \in Int
        BY <1>2, <1>3, BoundsAssumption DEF SoundTerms
      <3>2. QED
        BY <1>2, <1>3, <3>1, FS_Interval DEF SoundTerms
    <2>2. IsFiniteSet(u.signalled)
      BY <2>1, FS_Subset
    <2>3. QED
      BY <1>2, <2>2, FS_Subset
  <1>6. \A t \in Nat : Vested(s, t) <= Vested(u, t)
    BY <1>2, <1>4, <1>5, MilestoneSignalled
  <1>7. Sound(u)
    <2>1. s.last_seen \in Nat /\ s.claimed \in Nat /\ s.total \in Nat
      BY BoundsAssumption DEF Schedule, Time, Amount
    <2>2. /\ Vested(s, s.last_seen) \in 0..s.total
          /\ Vested(u, s.last_seen) \in 0..s.total
      BY <1>2, <1>4, <2>1, VestedBounds
    <2>3. s.claimed <= Vested(s, s.last_seen)
      BY DEF Sound
    <2>4. Vested(s, s.last_seen) <= Vested(u, s.last_seen)
      BY <1>6, <2>1
    <2>5. s.claimed <= Vested(u, s.last_seen)
      BY <2>1, <2>2, <2>3, <2>4
    <2>6. QED
      BY <1>2, <1>3, <2>5 DEF Sound
  <1>8. QED
    BY <1>1, <1>4, <1>6, <1>7

(* A signal vests a part of what was owed already. *)
LEMMA SignalKeeps ==
  ASSUME Inductive, NEW id \in Id, NEW signer, NEW index \in 0..MaxTranches-1,
         SignalMilestone(id, signer, index)
  PROVE  Inductive'
  <1> DEFINE s == shard[id]
             u == [s EXCEPT !.signalled = @ \cup {index}]
  <1>1. /\ TypeOK /\ Exists(id) /\ s \in Schedule /\ Sound(s)
        /\ now' = now /\ bal' = bal /\ shard' = [shard EXCEPT ![id] = u]
        /\ MaySignal(s, index)
    BY DEF Inductive, SignalMilestone, SignalAccepted, TypeOK, Exists
  <1>2. /\ u.escrow = s.escrow /\ u.asset = s.asset /\ u.claimed = s.claimed
        /\ u.total = s.total /\ u.cancelled_at = 0 /\ s.cancelled_at = 0
    BY <1>1 DEF Schedule, MaySignal
  <1> HIDE DEF u
  <1>3. u \in Schedule /\ Sound(u)
    BY <1>1, SignalledSound DEF u
  <1>4. Rewrites(id, u)
    BY <1>1, <1>3 DEF Rewrites, Shards, TypeOK
  <1>5. Entitlement(u) = Entitlement(s)
    BY <1>2 DEF Entitlement
  <1>6. QED
    BY <1>1, <1>2, <1>3, <1>4, <1>5, RewrittenFree

(* Money from outside only adds to an escrow. *)
LEMMA DepositKeeps ==
  ASSUME Inductive, NEW from \in Account, NEW to \in Holdings,
         NEW asset \in Asset, NEW amount \in Nat,
         Deposit(from, to, asset, amount)
  PROVE  Inductive'
  <1>1. /\ TypeOK /\ now' = now /\ shard' = shard /\ EscrowSolvent
        /\ Pays(from, to, asset, amount)
    BY DEF Inductive, Deposit
  <1>2. from \in Party /\ to \in Party /\ from \notin Holdings
    BY AccountsAssumption DEF Party
  <1>3. /\ bal' \in [Party -> [Asset -> Nat]]
        /\ \A p \in Party, a \in Asset : p # from => bal'[p][a] >= bal[p][a]
    BY <1>1, <1>2, Payment
  <1>4. TypeOK'
    BY <1>1, <1>3 DEF TypeOK
  <1>5. EscrowSolvent'
    <2>1. ASSUME NEW h \in Holdings, NEW a \in Asset
          PROVE  Cardinality(OwedUnits(shard', h, a)) <= bal'[h][a]
      <3>1. Cardinality(OwedUnits(shard, h, a)) <= bal[h][a]
        BY <1>1 DEF EscrowSolvent
      <3>2. /\ bal'[h][a] >= bal[h][a] /\ bal[h][a] \in Nat /\ bal'[h][a] \in Nat
        BY <1>1, <1>2, <1>3 DEF TypeOK, Party
      <3>3. QED
        BY <1>1, <3>1, <3>2, OwedFinite
    <2>2. QED
      BY <2>1 DEF EscrowSolvent
  <1>6. QED
    BY <1>1, <1>4, <1>5 DEF Inductive, Exists, Sound

(* Every step keeps the invariant. *)
LEMMA NextKeeps ==
  ASSUME Inductive, [Next]_vars
  PROVE  Inductive'
  <1>1. CASE Tick
    BY <1>1, TickKeeps
  <1>2. ASSUME NEW id \in SingleId, NEW creator \in Funder,
               NEW beneficiary \in Payee, NEW asset \in Asset,
               NEW terms \in OfferedTerms[asset],
               CreateSchedule(id, creator, beneficiary, asset, terms)
        PROVE  Inductive'
    BY <1>2, CreateKeeps, AccountsAssumption, IdAssumption, OfferAssumption
  <1>3. ASSUME NEW batch \in BatchId, NEW n \in 1..MaxBatch, NEW creator \in Funder,
               NEW asset \in Asset, NEW terms \in OfferedTerms[asset],
               NEW payees \in [0..n-1 -> Payee],
               CreateScheduleBatch(batch, n, payees, creator, asset, terms)
        PROVE  Inductive'
    <2>1. payees \in [0..n-1 -> Account]
      BY AccountsAssumption
    <2>2. creator \in Account /\ terms \in Terms
      BY AccountsAssumption, OfferAssumption
    <2>3. QED
      BY <1>3, <2>1, <2>2, BatchKeeps
  <1>4. ASSUME NEW id \in Id, NEW seed \in Id, NEW signer \in Account,
               NEW asset \in Asset, NEW at \in Time, NEW amount \in Amount,
               NEW destination \in Destination,
               Claim(id, seed, asset, amount, at, signer, destination)
        PROVE  Inductive'
    BY <1>4, ClaimKeeps, AccountsAssumption
  <1>5. ASSUME NEW id \in Id, NEW seed \in Id, NEW signer \in Account,
               NEW asset \in Asset, NEW at \in Time,
               Cancel(id, seed, asset, at, signer)
        PROVE  Inductive'
    BY <1>5, CancelKeeps
  <1>6. ASSUME NEW id \in Id, NEW signer \in Account, MakeNonCancelable(id, signer)
        PROVE  Inductive'
    BY <1>6, WaiveKeeps
  <1>7. ASSUME NEW id \in Id, NEW signer \in Account, NEW new_beneficiary \in Payee,
               TransferBeneficiary(id, signer, new_beneficiary)
        PROVE  Inductive'
    BY <1>7, TransferKeeps, AccountsAssumption
  <1>8. ASSUME NEW id \in Id, NEW signer \in Account,
               NEW index \in 0..MaxTranches-1, SignalMilestone(id, signer, index)
        PROVE  Inductive'
    BY <1>8, SignalKeeps
  <1>9. ASSUME NEW from \in Account, NEW asset \in Asset, NEW gift \in Gifts,
               Deposit(from, gift[1], asset, gift[2])
        PROVE  Inductive'
    <2>1. gift[1] \in Holdings /\ gift[2] \in Nat
      BY OfferAssumption
    <2>2. QED
      BY <1>9, <2>1, DepositKeeps
  <1>10. CASE UNCHANGED vars
    <2>1. now' = now /\ shard' = shard /\ bal' = bal
      BY <1>10 DEF vars
    <2>2. QED
      BY <2>1 DEF Inductive, TypeOK, Exists, Sound, EscrowSolvent
  <1>11. QED
    BY <1>1, <1>2, <1>3, <1>4, <1>5, <1>6, <1>7, <1>8, <1>9, <1>10 DEF Next

-----------------------------------------------------------------------------
(* The theorems. *)

(* The invariant holds in every reachable state. *)
THEOREM AlwaysInductive == Spec => []Inductive
  <1>1. Init => Inductive
    BY InitInductive
  <1>2. Inductive /\ [Next]_vars => Inductive'
    BY NextKeeps
  <1>3. QED
    BY <1>1, <1>2, PTL DEF Spec

(* The clock, the shards and the balances keep their types: in particular no
   balance ever becomes negative and no amount overflows. *)
THEOREM TypeCorrect == Spec => []TypeOK
  <1>1. Inductive => TypeOK
    BY DEF Inductive
  <1>2. QED
    BY <1>1, AlwaysInductive, PTL

(* No escrow ever owes more than it holds, so a beneficiary's money is there
   whatever is claimed, cancelled or created beside it. *)
THEOREM AlwaysSolvent == Spec => []EscrowSolvent
  <1>1. Inductive => EscrowSolvent
    BY DEF Inductive
  <1>2. QED
    BY <1>1, AlwaysInductive, PTL

(* Nobody is ever paid ahead of the schedule. *)
THEOREM NeverAhead == Spec => []NeverAheadOfSchedule
  <1>1. Inductive => NeverAheadOfSchedule
    <2> SUFFICES ASSUME Inductive, NEW id \in Id, Exists(id)
                 PROVE  shard[id].claimed <= Vested(shard[id], now)
      BY DEF NeverAheadOfSchedule
    <2>1. TypeOK /\ shard[id] \in Schedule /\ Sound(shard[id])
      BY DEF Inductive, TypeOK, Exists
    <2>2. QED
      BY <2>1, SoundBounds
  <1>2. QED
    BY <1>1, AlwaysInductive, PTL

-----------------------------------------------------------------------------
(* What a step may do to a schedule: three effects, and no other. *)

(* Nothing that vests changes, a milestone is signalled, or it is cancelled. *)
Kept(id) ==
  \A t \in Nat : Vested(shard'[id], t) = Vested(shard[id], t)

Signalled(id) ==
  /\ now' = now /\ shard[id].cancelled_at = 0
  /\ \A t \in Nat : /\ Vested(shard'[id], t) \in Nat
                    /\ Vested(shard[id], t) <= Vested(shard'[id], t)

Cancelled(id) ==
  /\ now' = now /\ shard[id].cancelable /\ shard[id].cancelled_at = 0
  /\ \E at \in Time : /\ CancelWindowOpen(at) /\ NotBeforeLastClaim(shard[id], at)
                      /\ shard'[id] = Frozen(shard[id], at)

(* What a step can do to the vesting of a schedule: keep it, add a tranche, or
   freeze it. *)
LEMMA StepEffect ==
  ASSUME Inductive, [Next]_vars, NEW id \in Id, Exists(id)
  PROVE  Kept(id) \/ Signalled(id) \/ Cancelled(id)
  <1>1. TypeOK /\ shard[id] \in Schedule /\ Sound(shard[id])
    BY DEF Inductive, TypeOK, Exists
  <1>2. CASE shard'[id] = shard[id]
    BY <1>2 DEF Kept
  <1>3. ASSUME NEW i \in SingleId, NEW creator, NEW beneficiary, NEW asset, NEW terms,
               CreateSchedule(i, creator, beneficiary, asset, terms)
        PROVE  shard'[id] = shard[id]
    BY <1>1, <1>3, IdAssumption DEF CreateSchedule, CreateAccepted, Fresh, Exists, TypeOK
  <1>4. ASSUME NEW batch \in BatchId, NEW n, NEW payees, NEW creator,
               NEW asset, NEW terms,
               CreateScheduleBatch(batch, n, payees, creator, asset, terms)
        PROVE  shard'[id] = shard[id]
    <2>1. id \notin BatchRows(batch, n)
      BY <1>4 DEF CreateScheduleBatch, BatchAccepted, Fresh
    <2>2. QED
      BY <1>4, <2>1 DEF CreateScheduleBatch, BatchAccepted
  <1>5. ASSUME NEW i \in Id, NEW seed, NEW asset, NEW amount, NEW at, NEW signer,
               NEW destination,
               Claim(i, seed, asset, amount, at, signer, destination)
        PROVE  Kept(id)
    <2>1. shard' = [shard EXCEPT ![i] = AfterClaim(shard[i], amount, at)]
      BY <1>5 DEF Claim, ClaimAccepted
    <2>2. CASE i # id
      <3>1. shard'[id] = shard[id]
        BY <1>1, <2>1, <2>2 DEF TypeOK
      <3>2. QED
        BY <3>1 DEF Kept
    <2>3. CASE i = id
      <3> DEFINE s == shard[id]
                 u == AfterClaim(s, amount, at)
      <3>1. shard'[id] = u
        BY <1>1, <2>1, <2>3 DEF TypeOK
      <3>2. /\ u.kind = s.kind /\ u.start = s.start /\ u.cliff = s.cliff
            /\ u.end = s.end /\ u.total = s.total /\ u.tranches = s.tranches
            /\ u.signalled = s.signalled /\ u.cancelled_at = s.cancelled_at
        BY <1>1 DEF AfterClaim, Schedule
      <3> HIDE DEF u
      <3>3. \A t \in Nat : Vested(u, t) = Vested(s, t)
        BY <3>2, VestedSameTerms
      <3>4. QED
        BY <3>1, <3>3 DEF Kept
    <2>4. QED
      BY <2>2, <2>3
  <1>6. ASSUME NEW i \in Id, NEW seed, NEW asset, NEW at \in Time, NEW signer,
               Cancel(i, seed, asset, at, signer)
        PROVE  Kept(id) \/ Cancelled(id)
    <2>1. /\ shard' = [shard EXCEPT ![i] = Frozen(shard[i], at)]
          /\ now' = now /\ shard[i].cancelable /\ shard[i].cancelled_at = 0
          /\ CancelWindowOpen(at) /\ NotBeforeLastClaim(shard[i], at)
      BY <1>6 DEF Cancel, CancelAccepted, MayCancel
    <2>2. CASE i # id
      <3>1. shard'[id] = shard[id]
        BY <1>1, <2>1, <2>2 DEF TypeOK
      <3>2. QED
        BY <3>1 DEF Kept
    <2>3. CASE i = id
      BY <1>1, <2>1, <2>3 DEF TypeOK, Cancelled
    <2>4. QED
      BY <2>2, <2>3
  <1>7. ASSUME NEW i \in Id, NEW signer, MakeNonCancelable(i, signer)
        PROVE  Kept(id)
    <2> DEFINE u == [shard[id] EXCEPT !.cancelable = FALSE]
    <2>1. shard'[id] = shard[id] \/ shard'[id] = u
      BY <1>1, <1>7 DEF MakeNonCancelable, WaiverAccepted, TypeOK
    <2>2. \A t \in Nat : Vested(u, t) = Vested(shard[id], t)
      BY <1>1, VestedSameTerms DEF Schedule
    <2>3. QED
      BY <1>2, <2>1, <2>2 DEF Kept
  <1>8. ASSUME NEW i \in Id, NEW signer, NEW payee,
               TransferBeneficiary(i, signer, payee)
        PROVE  Kept(id)
    <2> DEFINE u == [shard[id] EXCEPT !.beneficiary = payee]
    <2>1. shard'[id] = shard[id] \/ shard'[id] = u
      BY <1>1, <1>8 DEF TransferBeneficiary, TransferAccepted, TypeOK
    <2>2. \A t \in Nat : Vested(u, t) = Vested(shard[id], t)
      BY <1>1, VestedSameTerms DEF Schedule
    <2>3. QED
      BY <1>2, <2>1, <2>2 DEF Kept
  <1>9. ASSUME NEW i \in Id, NEW signer, NEW index \in 0..MaxTranches-1,
               SignalMilestone(i, signer, index)
        PROVE  Kept(id) \/ Signalled(id)
    <2> DEFINE u == [shard[id] EXCEPT !.signalled = @ \cup {index}]
    <2>1. /\ shard' = [shard EXCEPT ![i].signalled = @ \cup {index}]
          /\ now' = now /\ MaySignal(shard[i], index)
      BY <1>9 DEF SignalMilestone, SignalAccepted
    <2>2. CASE i # id
      <3>1. shard'[id] = shard[id]
        BY <1>1, <2>1, <2>2 DEF TypeOK
      <3>2. QED
        BY <3>1 DEF Kept
    <2>3. CASE i = id
      <3>1. shard'[id] = u
        BY <1>1, <2>1, <2>3 DEF TypeOK
      <3> HIDE DEF u
      <3>2. WellFormed(u) /\ \A t \in Nat : Vested(shard[id], t) <= Vested(u, t)
        BY <1>1, <2>1, <2>3, SignalledSound DEF u
      <3>3. \A t \in Nat : Vested(u, t) \in Nat
        <4>1. u.total \in Nat
          BY <3>2 DEF WellFormed
        <4>2. QED
          BY <3>2, <4>1, VestedBounds
      <3>4. QED
        BY <2>1, <2>3, <3>1, <3>2, <3>3 DEF Signalled, MaySignal
    <2>4. QED
      BY <2>2, <2>3
  <1>10. CASE UNCHANGED <<shard>>
    BY <1>2, <1>10
  <1>11. QED
    BY <1>2, <1>3, <1>4, <1>5, <1>6, <1>7, <1>8, <1>9, <1>10
    DEF Next, vars, Tick, Deposit

(* Time only moves forward, and stays a time. *)
LEMMA TimeForward ==
  ASSUME TypeOK, [Next]_vars
  PROVE  now \in Nat /\ now' \in {now, now + 1}
  BY GenesisAssumption, BoundsAssumption
  DEF TypeOK, Time, Next, vars, Tick, CreateSchedule, CreateAccepted,
      CreateScheduleBatch, BatchAccepted, Claim, ClaimAccepted, Cancel, CancelAccepted,
      MakeNonCancelable, WaiverAccepted, TransferBeneficiary, TransferAccepted,
      SignalMilestone, SignalAccepted, Deposit

(* The schedule of the invariant, for the arithmetic lemmas. *)
LEMMA InductiveShard ==
  ASSUME Inductive, NEW id \in Id, Exists(id)
  PROVE  /\ TypeOK /\ shard[id] \in Schedule /\ Sound(shard[id])
         /\ WellFormed(shard[id]) /\ shard[id].total \in Nat
         /\ \A t \in Nat : Vested(shard[id], t) \in Nat
  <1>1. TypeOK /\ shard[id] \in Schedule /\ Sound(shard[id])
    BY DEF Inductive, TypeOK, Exists
  <1>2. WellFormed(shard[id]) /\ shard[id].total \in Nat
    BY <1>1, SoundWellFormed DEF Sound, WellFormed
  <1>3. QED
    BY <1>1, <1>2, VestedBounds

(* A cancellation, seen by the arithmetic. *)
LEMMA CancelledVests ==
  ASSUME Inductive, NEW id \in Id, Exists(id), Cancelled(id)
  PROVE  \E at \in Nat :
           /\ at <= now /\ now < at + CancelWindow
           /\ Vested(shard[id], at) \in Nat
           /\ Vested(shard'[id], now) = Vested(shard[id], at)
  <1> DEFINE s == shard[id]
             u == shard'[id]
  <1>1. /\ TypeOK /\ s \in Schedule /\ Sound(s)
        /\ \A t \in Nat : Vested(s, t) \in Nat
    BY InductiveShard
  <1>2. PICK at \in Time : /\ CancelWindowOpen(at) /\ NotBeforeLastClaim(s, at)
                           /\ u = Frozen(s, at)
    BY DEF Cancelled
  <1>3. at \in Nat \ {0} /\ at <= now /\ now < at + CancelWindow
    BY <1>1, <1>2, CancelDated
  <1>4. now \in Nat /\ s.last_seen \in Nat /\ s.cancelled_at = 0
    BY <1>1, GenesisAssumption, BoundsAssumption
    DEF TypeOK, Time, Schedule, Cancelled
  <1> HIDE DEF u
  <1>5. /\ WellFormed(u) /\ u.cancelled_at = at /\ Vested(u, at) = Vested(s, at)
    BY <1>1, <1>2, <1>3, <1>4, FrozenSound DEF NotBeforeLastClaim
  <1>6. Vested(u, now) = Vested(u, at)
    BY <1>3, <1>4, <1>5, VestedFrozen
  <1>7. QED
    BY <1>1, <1>3, <1>5, <1>6 DEF u

-----------------------------------------------------------------------------
(* The theorems about steps. *)

(* No transaction takes from a beneficiary anything that had vested a
   cancellation window ago. *)
THEOREM AccrualKept == Spec => AccrualFloor
  <1>1. ASSUME Inductive, [Next]_vars, NEW id \in Id, Exists(id)
        PROVE  Vested(shard[id], now - (CancelWindow - 1)) <= Vested(shard'[id], now')
    <2> DEFINE floor == now - (CancelWindow - 1)
    <2>1. /\ TypeOK /\ WellFormed(shard[id])
          /\ \A t \in Nat : Vested(shard[id], t) \in Nat
      BY <1>1, InductiveShard
    <2>2. /\ now \in Nat /\ floor \in Nat /\ floor <= now
          /\ now' \in Nat /\ now <= now'
      BY <1>1, <2>1, TimeForward, GenesisAssumption, BoundsAssumption DEF TypeOK, Time
    <2>3. Vested(shard[id], floor) <= Vested(shard[id], now)
      BY <2>1, <2>2, VestedMonotone
    <2>4. CASE Kept(id)
      <3>1. floor <= now'
        BY <2>2
      <3> HIDE DEF floor
      <3>2. Vested(shard[id], floor) <= Vested(shard[id], now')
        BY <2>1, <2>2, <3>1, VestedMonotone
      <3>3. QED
        BY <2>2, <2>4, <3>2 DEF Kept, floor
    <2>5. CASE Signalled(id)
      <3>1. /\ Vested(shard'[id], now) \in Nat
            /\ Vested(shard[id], now) <= Vested(shard'[id], now)
        BY <2>2, <2>5 DEF Signalled
      <3>2. Vested(shard[id], floor) \in Nat /\ Vested(shard[id], now) \in Nat
        BY <2>1, <2>2
      <3> HIDE DEF floor
      <3>3. Vested(shard[id], floor) <= Vested(shard'[id], now)
        BY <2>3, <3>1, <3>2
      <3>4. QED
        BY <2>5, <3>3 DEF floor, Signalled
    <2>6. CASE Cancelled(id)
      <3>1. PICK at \in Nat : /\ at <= now /\ now < at + CancelWindow
                              /\ Vested(shard'[id], now) = Vested(shard[id], at)
        BY <1>1, <2>6, CancelledVests
      <3>2. floor <= at
        BY <2>2, <3>1, BoundsAssumption
      <3>3. Vested(shard[id], floor) <= Vested(shard[id], at)
        BY <2>1, <2>2, <3>1, <3>2, VestedMonotone
      <3>4. QED
        BY <2>6, <3>1, <3>3 DEF Cancelled
    <2>7. QED
      BY <1>1, <2>4, <2>5, <2>6, StepEffect
  <1>2. Inductive /\ [Next]_vars =>
          [\A id \in Id : Exists(id) =>
             Vested(shard[id], now - (CancelWindow - 1)) <= Vested(shard'[id], now')]_vars
    BY <1>1
  <1>3. QED
    BY <1>2, AlwaysInductive, PTL DEF Spec, AccrualFloor

(* What a cancelled schedule has vested never moves again. *)
THEOREM FrozenForGood == Spec => FrozenStays
  <1>1. ASSUME Inductive, [Next]_vars,
               NEW id \in Id, Exists(id), shard[id].cancelled_at # 0
        PROVE  Vested(shard'[id], now') = Vested(shard[id], now)
    <2>1. TypeOK /\ WellFormed(shard[id]) /\ Sound(shard[id])
      BY <1>1, InductiveShard
    <2>2. now \in Nat /\ now' \in Nat /\ now <= now'
      BY <1>1, <2>1, TimeForward
    <2>3. Kept(id)
      BY <1>1, StepEffect DEF Signalled, Cancelled
    <2>4. shard[id].cancelled_at \in Nat /\ shard[id].cancelled_at <= now
      BY <2>1 DEF WellFormed, Sound
    <2>5. Vested(shard[id], now') = Vested(shard[id], now)
      BY <1>1, <2>1, <2>2, <2>4, VestedFrozen
    <2>6. QED
      BY <2>2, <2>3, <2>5 DEF Kept
  <1>2. Inductive /\ [Next]_vars =>
          [\A id \in Id : Exists(id) /\ shard[id].cancelled_at # 0 =>
             Vested(shard'[id], now') = Vested(shard[id], now)]_vars
    BY <1>1
  <1>3. QED
    BY <1>2, AlwaysInductive, PTL DEF Spec, FrozenStays

(* The beneficiary of a live schedule that was made non-cancelable never loses
   a unit of what has vested. *)
THEOREM WaiverKept == Spec => WaiverHolds
  <1>1. ASSUME Inductive, [Next]_vars,
               NEW id \in Id, Exists(id), ~shard[id].cancelable
        PROVE  Vested(shard[id], now) <= Vested(shard'[id], now')
    <2>1. TypeOK /\ WellFormed(shard[id])
      BY <1>1, InductiveShard
    <2>2. now \in Nat /\ now' \in Nat /\ now <= now'
      BY <1>1, <2>1, TimeForward
    <2>3. CASE Kept(id)
      <3>1. Vested(shard[id], now) <= Vested(shard[id], now')
        BY <2>1, <2>2, VestedMonotone
      <3>2. QED
        BY <2>2, <2>3, <3>1 DEF Kept
    <2>4. CASE Signalled(id)
      BY <2>2, <2>4 DEF Signalled
    <2>5. QED
      BY <1>1, <2>3, <2>4, StepEffect DEF Cancelled
  <1>2. Inductive /\ [Next]_vars =>
          [\A id \in Id :
             Exists(id) /\ ~shard[id].cancelable /\ shard[id].cancelled_at = 0 =>
               Vested(shard[id], now) <= Vested(shard'[id], now')]_vars
    BY <1>1
  <1>3. QED
    BY <1>2, AlwaysInductive, PTL DEF Spec, WaiverHolds

-----------------------------------------------------------------------------
(* The promise.  What VestingPromise sees of a state: the grants, what each has
   earned, and the wallets. *)
Grants == [id \in Id |-> IF Exists(id) THEN GrantOf(shard[id]) ELSE NoSchedule]
Earned == [id \in Id |-> IF Exists(id) THEN Vested(shard[id], now) ELSE 0]
Wallet == [p \in Account |-> bal[p]]

View ==
  /\ Grants \in [Id -> Grant \cup {NoSchedule}]
  /\ Earned \in [Id -> Nat]
  /\ Wallet \in [Account -> [Asset -> Nat]]
  /\ \A id \in Id :
       IF Exists(id)
         THEN /\ Grants[id] = GrantOf(shard[id]) /\ Grants[id] # NoSchedule
              /\ Earned[id] = Vested(shard[id], now)
              /\ Earned[id] <= shard[id].total
         ELSE Grants[id] = NoSchedule /\ Earned[id] = 0

(* The view is well typed, and shows every schedule as a grant. *)
LEMMA ViewSound == Inductive => View
  <1> SUFFICES ASSUME Inductive PROVE View
    OBVIOUS
  <1>1. ASSUME NEW id \in Id, Exists(id)
        PROVE  /\ GrantOf(shard[id]) \in Grant
               /\ Vested(shard[id], now) \in Nat
               /\ Vested(shard[id], now) <= shard[id].total
    <2>1. /\ shard[id] \in Schedule /\ WellFormed(shard[id])
          /\ shard[id].total \in Nat /\ now \in Nat
      BY <1>1, InductiveShard, GenesisAssumption, BoundsAssumption DEF TypeOK, Time
    <2>2. Vested(shard[id], now) \in 0..shard[id].total
      BY <2>1, VestedBounds
    <2>3. GrantOf(shard[id]) \in Grant
      BY <2>1 DEF GrantOf, Grant, Schedule
    <2>4. QED
      BY <2>1, <2>2, <2>3
  <1>2. Wallet \in [Account -> [Asset -> Nat]]
    BY DEF Wallet, Inductive, TypeOK, Party
  <1>3. QED
    BY <1>1, <1>2, GrantAssumption DEF View, Grants, Earned

(* A payment, seen by the wallets: money that leaves an escrow, and money that
   goes to one. *)
LEMMA WalletPaid ==
  ASSUME TypeOK, NEW from \in Holdings, NEW to \in Party, NEW asset \in Asset,
         NEW amount \in Nat, Pays(from, to, asset, amount)
  PROVE  Wallet' = [p \in Account |->
                      IF p = to THEN [Wallet[p] EXCEPT ![asset] = @ + amount]
                                ELSE Wallet[p]]
  <1>1. from \in Party /\ \A p \in Account : p \in Party /\ p # from
    BY AccountsAssumption DEF Party
  <1>2. bal \in [Party -> [Asset -> Nat]] /\ bal' = Moved(bal, from, to, asset, amount)
    BY DEF TypeOK, Pays, Covers
  <1>3. \A p \in Account :
          bal'[p] = IF p = to THEN [bal[p] EXCEPT ![asset] = @ + amount] ELSE bal[p]
    BY <1>1, <1>2 DEF Moved
  <1>4. QED
    BY <1>3 DEF Wallet

(* A payment into an escrow is one out of a wallet. *)
LEMMA WalletPays ==
  ASSUME TypeOK, NEW from \in Account, NEW to \in Holdings, NEW asset \in Asset,
         NEW amount \in Nat, Pays(from, to, asset, amount)
  PROVE  /\ amount <= Wallet[from][asset]
         /\ Wallet' = [Wallet EXCEPT ![from][asset] = @ - amount]
  <1>1. /\ to \in Party /\ from \in Party
        /\ \A p \in Account : p \in Party /\ p # to
    BY AccountsAssumption DEF Party
  <1>2. /\ bal \in [Party -> [Asset -> Nat]] /\ amount <= bal[from][asset]
        /\ bal' = Moved(bal, from, to, asset, amount)
    BY DEF TypeOK, Pays, Covers
  <1>3. \A p \in Account :
          bal'[p] = IF p = from THEN [bal[p] EXCEPT ![asset] = @ - amount] ELSE bal[p]
    BY <1>1, <1>2 DEF Moved
  <1>4. QED
    BY <1>2, <1>3 DEF Wallet
(* One schedule is rewritten: one grant changes, and what it has earned. *)
LEMMA OneGrant ==
  ASSUME Inductive, NEW id \in Id, Exists(id), NEW u \in Schedule,
         now' = now, shard' = [shard EXCEPT ![id] = u]
  PROVE  /\ Grants' = [Grants EXCEPT ![id] = GrantOf(u)]
         /\ Earned' = [Earned EXCEPT ![id] = Vested(u, now)]
  <1>1. /\ shard \in [Id -> Schedule \cup {NoSchedule}] /\ u # NoSchedule
    BY OfferAssumption DEF Inductive, TypeOK
  <1>2. \A x \in Id : shard'[x] = IF x = id THEN u ELSE shard[x]
    BY <1>1
  <1>3. Grants' = [x \in Id |-> IF x = id THEN GrantOf(u) ELSE Grants[x]]
    BY <1>1, <1>2 DEF Grants, Exists
  <1>4. Earned' = [x \in Id |-> IF x = id THEN Vested(u, now) ELSE Earned[x]]
    BY <1>1, <1>2 DEF Earned, Exists
  <1>5. QED
    BY <1>3, <1>4 DEF Grants, Earned

(* What was not cancelled in the step has earned no less after it, and what was
   cancelled before exactly as much. *)
LEMMA EarnedGrows ==
  ASSUME Inductive, [Next]_vars, NEW id \in Id, Exists(id), ~Cancelled(id)
  PROVE  /\ Vested(shard[id], now) <= Vested(shard'[id], now')
         /\ shard[id].cancelled_at # 0 =>
              Vested(shard'[id], now') = Vested(shard[id], now)
  <1>1. TypeOK /\ WellFormed(shard[id]) /\ Sound(shard[id])
    BY InductiveShard
  <1>2. now \in Nat /\ now' \in Nat /\ now <= now'
    BY <1>1, TimeForward
  <1>3. CASE Kept(id)
    <2>1. Vested(shard[id], now) <= Vested(shard[id], now')
      BY <1>1, <1>2, VestedMonotone
    <2>2. ASSUME shard[id].cancelled_at # 0
          PROVE  Vested(shard[id], now') = Vested(shard[id], now)
      <3>1. shard[id].cancelled_at \in Nat /\ shard[id].cancelled_at <= now
        BY <1>1 DEF WellFormed, Sound
      <3>2. QED
        BY <1>1, <1>2, <2>2, <3>1, VestedFrozen
    <2>3. QED
      BY <1>2, <1>3, <2>1, <2>2 DEF Kept
  <1>4. CASE Signalled(id)
    BY <1>2, <1>4 DEF Signalled
  <1>5. QED
    BY <1>3, <1>4, StepEffect

(* A step that opens, pays and revokes nothing. *)
LEMMA QuietAccrues ==
  ASSUME Inductive, View, View', [Next]_vars, Grants' = Grants, bal' = bal
  PROVE  Promise!Accrue
  <1>1. ASSUME NEW id \in Id
        PROVE  IF Promise!Accruing(id)
                 THEN Earned'[id] \in Earned[id]..Grants[id].total
                 ELSE Earned'[id] = Earned[id]
    <2>1. CASE ~Exists(id)
      <3>1. Grants[id] = NoSchedule /\ Earned[id] = 0 /\ Grants'[id] = NoSchedule
        BY <2>1 DEF View
      <3>2. Earned'[id] = 0
        BY <3>1 DEF View
      <3>3. ~Promise!Accruing(id)
        BY <3>1 DEF Promise!Accruing, Promise!Open, Grants
      <3>4. QED
        BY <3>1, <3>2, <3>3
    <2>2. CASE Exists(id)
      <3>1. /\ Grants[id] = GrantOf(shard[id]) /\ Grants[id] # NoSchedule
            /\ Earned[id] = Vested(shard[id], now) /\ Earned[id] \in Nat
        BY <2>2 DEF View
      <3>2. /\ Grants'[id] = GrantOf(shard'[id]) /\ Earned'[id] \in Nat
            /\ Earned'[id] = Vested(shard'[id], now')
            /\ Earned'[id] <= shard'[id].total
        BY <3>1 DEF View
      <3>3. /\ shard'[id].total = shard[id].total
            /\ shard'[id].cancelled_at # 0 <=> shard[id].cancelled_at # 0
        BY <3>1, <3>2 DEF GrantOf
      <3>4. ~Cancelled(id)
        <4>1. ASSUME Cancelled(id) PROVE FALSE
          <5>1. PICK at \in Time : CancelWindowOpen(at) /\ shard'[id] = Frozen(shard[id], at)
            BY <4>1 DEF Cancelled
          <5>2. at \in Nat \ {0}
            BY <5>1, CancelDated DEF Inductive
          <5>3. shard[id] \in Schedule
            BY <2>2, InductiveShard
          <5>4. shard'[id].cancelled_at # 0
            BY <5>1, <5>2, <5>3 DEF Frozen, Schedule
          <5>5. QED
            BY <3>3, <4>1, <5>4 DEF Cancelled
        <4>2. QED
          BY <4>1
      <3>5. /\ Earned[id] <= Earned'[id]
            /\ shard[id].cancelled_at # 0 => Earned'[id] = Earned[id]
        BY <2>2, <3>1, <3>2, <3>4, EarnedGrows
      <3>6. /\ Promise!Accruing(id) <=> shard[id].cancelled_at = 0
            /\ Grants[id].total = shard[id].total
        BY <3>1 DEF Promise!Accruing, Promise!Open, Grants, GrantOf
      <3>7. QED
        BY <3>1, <3>2, <3>3, <3>5, <3>6
    <2>3. QED
      BY <2>1, <2>2
  <1>2. Earned' \in [Id -> Nat] /\ Wallet' = Wallet
    BY DEF View, Wallet
  <1>3. QED
    BY <1>1, <1>2 DEF Promise!Accrue, Grants, Earned, Wallet

(* A claim pays the grant what it takes. *)
LEMMA ClaimPays ==
  ASSUME Inductive, View, NEW id \in Id, NEW seed \in Id, NEW asset \in Asset,
         NEW amount \in Amount, NEW at \in Time, NEW signer,
         NEW destination \in Party,
         Claim(id, seed, asset, amount, at, signer, destination)
  PROVE  /\ Promise!Open(id) /\ amount \in 1..Grants[id].total
         /\ Promise!Pay(id, amount, destination)
  <1> DEFINE s == shard[id]
             u == AfterClaim(s, amount, at)
  <1>1. /\ TypeOK /\ Exists(id) /\ s \in Schedule /\ Sound(s) /\ WellFormed(s)
        /\ now' = now /\ shard' = [shard EXCEPT ![id] = u] /\ asset = s.asset
        /\ at <= now /\ amount > 0 /\ amount <= Claimable(s, at)
        /\ s.claimed + amount <= AmountMax
        /\ Pays(Holding(seed), destination, asset, amount)
    BY InductiveShard DEF Claim, ClaimAccepted, RightAsset, ClaimWindowOpen, MayClaim
  <1>2. /\ amount \in Nat /\ at \in Nat /\ now \in Nat /\ s.claimed \in Nat
        /\ s.total \in Nat
    BY <1>1, BoundsAssumption, GenesisAssumption DEF TypeOK, Schedule, Amount, Time
  <1>3. u \in Schedule
    <2> DEFINE c == s.claimed + amount
               l == IF at > s.last_seen THEN at ELSE s.last_seen
    <2>1. c \in Amount /\ l \in Time
      BY <1>1, <1>2, BoundsAssumption DEF Schedule, Amount
    <2>2. u = [s EXCEPT !.claimed = c, !.last_seen = l]
      BY <1>1 DEF AfterClaim, Schedule
    <2> HIDE DEF c, l, u
    <2>3. QED
      BY <1>1, <2>1, <2>2 DEF Schedule
  <1>4. /\ u.kind = s.kind /\ u.start = s.start /\ u.cliff = s.cliff
        /\ u.end = s.end /\ u.total = s.total /\ u.tranches = s.tranches
        /\ u.signalled = s.signalled /\ u.cancelled_at = s.cancelled_at
        /\ u.asset = s.asset /\ u.refund_to = s.refund_to
        /\ u.cancelable = s.cancelable /\ u.claimed = s.claimed + amount
    BY <1>1 DEF AfterClaim, Schedule
  <1> HIDE DEF u
  <1>5. GrantOf(u) = [GrantOf(s) EXCEPT !.paid = @ + amount]
    BY <1>4 DEF GrantOf
  <1>6. Vested(u, now) = Vested(s, now)
    BY <1>2, <1>4, VestedSameTerms
  <1>7. /\ Grants[id] = GrantOf(s) /\ Grants[id] # NoSchedule
        /\ Earned[id] = Vested(s, now) /\ Earned[id] <= s.total /\ Earned[id] \in Nat
        /\ Grants[id].total = s.total /\ Grants[id].paid = s.claimed
        /\ Grants[id].asset = asset
    BY <1>1 DEF View, GrantOf
  <1>8. /\ Grants' = [Grants EXCEPT ![id].paid = @ + amount]
        /\ Earned' = Earned
    <2>1. /\ Grants' = [Grants EXCEPT ![id] = GrantOf(u)]
          /\ Earned' = [Earned EXCEPT ![id] = Vested(u, now)]
      BY <1>1, <1>3, OneGrant
    <2>2. Earned' = Earned
      BY <1>6, <1>7, <2>1 DEF View
    <2>3. QED
      BY <1>5, <1>7, <2>1, <2>2
  <1>9. amount <= Earned[id] - Grants[id].paid
    <2>1. Vested(s, at) <= Vested(s, now)
      BY <1>1, <1>2, VestedMonotone
    <2>2. Vested(s, at) \in Nat
      BY <1>1, <1>2, VestedBounds
    <2>3. amount <= Vested(s, at) - s.claimed
      BY <1>1, <1>2, <2>2 DEF Claimable
    <2>4. QED
      BY <1>2, <1>7, <2>1, <2>2, <2>3
  <1>10. amount \in 1..Grants[id].total
    BY <1>1, <1>2, <1>7, <1>9
  <1>11. Wallet' = [p \in Account |->
                      IF p = destination THEN [Wallet[p] EXCEPT ![asset] = @ + amount]
                                         ELSE Wallet[p]]
    <2>1. Holding(seed) \in Holdings
      BY DEF Holdings
    <2>2. QED
      BY <1>1, <1>2, <2>1, WalletPaid
  <1>12. Promise!Open(id)
    BY <1>7 DEF Promise!Open, Grants
  <1>13. Promise!Pay(id, amount, destination)
    BY <1>7, <1>8, <1>9, <1>11, <1>12
    DEF Promise!Pay, Promise!Credit, Grants, Earned, Wallet
  <1>14. QED
    BY <1>10, <1>12, <1>13
(* A cancellation revokes the grant at what had vested by its date. *)
LEMMA CancelRevokes ==
  ASSUME Inductive, View, NEW id \in Id, NEW seed \in Id, NEW asset \in Asset,
         NEW at \in Time, NEW signer, Cancel(id, seed, asset, at, signer)
  PROVE  /\ Promise!Open(id)
         /\ \E share \in 0..Grants[id].total : Promise!Revoke(id, share)
  <1> DEFINE s     == shard[id]
             u     == Frozen(s, at)
             share == Vested(s, at)
             back  == Unvested(s, at)
  <1>1. /\ TypeOK /\ Exists(id) /\ s \in Schedule /\ Sound(s) /\ WellFormed(s)
        /\ now' = now /\ shard' = [shard EXCEPT ![id] = u] /\ asset = s.asset
        /\ CancelWindowOpen(at) /\ s.cancelled_at = 0 /\ s.cancelable
        /\ NotBeforeLastClaim(s, at)
        /\ Pays(Holding(seed), s.refund_to, asset, back)
    BY InductiveShard DEF Cancel, CancelAccepted, RightAsset, MayCancel
  <1>2. /\ at \in Nat \ {0} /\ at <= now /\ now \in Nat
        /\ s.last_seen \in Nat /\ s.claimed \in Nat /\ s.total \in Nat
        /\ s.last_seen <= at
    BY <1>1, CancelDated, BoundsAssumption, GenesisAssumption
    DEF TypeOK, Schedule, Amount, Time, NotBeforeLastClaim
  <1>3. /\ u.asset = s.asset /\ u.total = s.total /\ u.refund_to = s.refund_to
        /\ u.claimed = s.claimed /\ u.cancelled_at # 0
    BY <1>1, <1>2 DEF Frozen, Schedule
  <1> HIDE DEF u, back
  <1>4. GrantOf(u) = [GrantOf(s) EXCEPT !.standing = "revoked"]
    BY <1>3 DEF GrantOf
  <1>5. /\ u \in Schedule /\ WellFormed(u) /\ u.cancelled_at = at
        /\ Vested(u, at) = share /\ share \in 0..s.total /\ back = s.total - share
    BY <1>1, <1>2, FrozenSound DEF u, back
  <1>6. Vested(u, now) = share
    BY <1>2, <1>5, VestedFrozen
  <1>7. s.claimed <= share
    <2>1. Vested(s, s.last_seen) <= share
      BY <1>1, <1>2, VestedMonotone
    <2>2. Vested(s, s.last_seen) \in Nat
      BY <1>1, <1>2, VestedBounds
    <2>3. s.claimed <= Vested(s, s.last_seen)
      BY <1>1 DEF Sound
    <2>4. QED
      BY <1>2, <1>5, <2>1, <2>2, <2>3
  <1> HIDE DEF share
  <1>8. Grants[id] = GrantOf(s) /\ Grants[id] # NoSchedule
    BY <1>1 DEF View
  <1>9. /\ Grants[id].total = s.total /\ Grants[id].paid = s.claimed
        /\ Grants[id].asset = asset /\ Grants[id].refundTo = s.refund_to
    BY <1>1, <1>8 DEF GrantOf
  <1>10. Promise!Open(id) /\ Grants[id].standing = "revocable"
    BY <1>1, <1>8 DEF Promise!Open, Grants, GrantOf
  <1>11. /\ Grants' = [Grants EXCEPT ![id].standing = "revoked"]
         /\ Earned' = [Earned EXCEPT ![id] = share]
    <2>1. /\ Grants' = [Grants EXCEPT ![id] = GrantOf(u)]
          /\ Earned' = [Earned EXCEPT ![id] = Vested(u, now)]
      BY <1>1, <1>5, OneGrant
    <2>2. QED
      BY <1>4, <1>6, <1>8, <2>1
  <1>12. Wallet' = [p \in Account |->
                      IF p = s.refund_to THEN [Wallet[p] EXCEPT ![asset] = @ + back]
                                         ELSE Wallet[p]]
    <2>1. Holding(seed) \in Holdings /\ s.refund_to \in Party /\ back \in Nat
      BY <1>1, <1>2, <1>5 DEF Holdings, Schedule
    <2>2. QED
      BY <1>1, <2>1, WalletPaid
  <1>13. Wallet' = [p \in Account |->
                      IF p = Grants[id].refundTo
                        THEN [Wallet[p] EXCEPT
                                ![Grants[id].asset] = @ + (Grants[id].total - share)]
                        ELSE Wallet[p]]
    BY <1>5, <1>9, <1>12
  <1>14. share >= Grants[id].paid
    BY <1>2, <1>5, <1>7, <1>9
  <1>15. Promise!Revoke(id, share)
    BY <1>10, <1>11, <1>13, <1>14
    DEF Promise!Revoke, Promise!Credit, Grants, Earned, Wallet
  <1>16. QED
    BY <1>5, <1>9, <1>10, <1>15

(* A waiver is one of the promise; that of a cancelled schedule changes nothing
   there. *)
LEMMA WaiverWaives ==
  ASSUME Inductive, View, NEW id \in Id, NEW signer, MakeNonCancelable(id, signer)
  PROVE  Promise!Waive(id) \/ (Grants' = Grants /\ bal' = bal)
  <1> DEFINE s == shard[id]
             u == [s EXCEPT !.cancelable = FALSE]
  <1>1. /\ Exists(id) /\ s \in Schedule /\ s.cancelable /\ now' = now /\ bal' = bal
        /\ shard' = [shard EXCEPT ![id] = u] /\ now \in Nat
    BY InductiveShard, GenesisAssumption, BoundsAssumption
    DEF MakeNonCancelable, WaiverAccepted, TypeOK, Time
  <1>2. /\ u \in Schedule /\ u.asset = s.asset /\ u.total = s.total
        /\ u.refund_to = s.refund_to /\ u.claimed = s.claimed
        /\ u.cancelled_at = s.cancelled_at /\ ~u.cancelable
    BY <1>1 DEF Schedule
  <1>3. Vested(u, now) = Vested(s, now)
    BY <1>1, VestedSameTerms DEF Schedule
  <1> HIDE DEF u
  <1>4. /\ Grants[id] = GrantOf(s) /\ Grants[id] # NoSchedule
        /\ Earned[id] = Vested(s, now)
    BY <1>1 DEF View
  <1>5. /\ Grants' = [Grants EXCEPT ![id] = GrantOf(u)]
        /\ Earned' = [Earned EXCEPT ![id] = Vested(u, now)]
    BY <1>1, <1>2, OneGrant
  <1>6. CASE s.cancelled_at # 0
    <2>1. GrantOf(u) = GrantOf(s)
      BY <1>2, <1>6 DEF GrantOf
    <2>2. QED
      BY <1>1, <1>4, <1>5, <2>1 DEF View
  <1>7. CASE s.cancelled_at = 0
    <2>1. /\ GrantOf(u) = [GrantOf(s) EXCEPT !.standing = "irrevocable"]
          /\ Grants[id].standing = "revocable"
      BY <1>1, <1>2, <1>4, <1>7 DEF GrantOf
    <2>2. /\ Grants' = [Grants EXCEPT ![id].standing = "irrevocable"]
          /\ Earned' = Earned /\ Wallet' = Wallet
      BY <1>1, <1>3, <1>4, <1>5, <2>1 DEF View, Wallet
    <2>3. QED
      BY <1>4, <2>1, <2>2 DEF Promise!Waive, Promise!Open, Grants, Earned, Wallet
  <1>8. QED
    BY <1>6, <1>7

(* A deposit is a gift of the promise. *)
LEMMA DepositGives ==
  ASSUME Inductive, View, NEW from \in Account, NEW to \in Holdings,
         NEW asset \in Asset, NEW amount \in Nat \ {0},
         Deposit(from, to, asset, amount)
  PROVE  /\ amount \in 1..Wallet[from][asset]
         /\ Promise!Give(from, asset, amount)
  <1>1. /\ TypeOK /\ now' = now /\ shard' = shard
        /\ Pays(from, to, asset, amount)
    BY DEF Inductive, Deposit
  <1>2. /\ amount <= Wallet[from][asset]
        /\ Wallet' = [Wallet EXCEPT ![from][asset] = @ - amount]
    BY <1>1, WalletPays
  <1>3. Grants' = Grants /\ Earned' = Earned
    BY <1>1 DEF Grants, Earned, Exists
  <1>4. Wallet[from][asset] \in Nat
    BY DEF View
  <1>5. QED
    BY <1>2, <1>3, <1>4 DEF Promise!Give, Promise!Debit, Grants, Earned, Wallet
(* New schedules on the same terms, paid for at once, are grants opened at once. *)
LEMMA NewOpens ==
  ASSUME Inductive, View, View', NEW I \in SUBSET Id, NEW n \in Nat \ {0},
         Cardinality(I) = n, NEW e \in Holdings, NEW from \in Account,
         NEW asset \in Asset, NEW terms \in Terms, ValidTerms(terms), now' = now,
         \A id \in I :
           /\ ~Exists(id)
           /\ \E payee \in Account :
                shard'[id] = NewState(from, e, payee, asset, terms),
         \A id \in Id \ I : shard'[id] = shard[id],
         Pays(from, e, asset, terms.total * n)
  PROVE  \E standing \in {"revocable", "irrevocable"}, refundTo \in Party :
         \E total \in 1..Wallet[from][asset] :
           Promise!OpenGrants(I, from, asset, total, refundTo, standing)
  <1> DEFINE total    == terms.total
             standing == IF terms.cancelable THEN "revocable" ELSE "irrevocable"
             opened   == [asset |-> asset, total |-> total, refundTo |-> terms.refund_to,
                          paid |-> 0, standing |-> standing]
  <1>1. /\ total \in Nat \ {0} /\ terms.refund_to \in Party
        /\ total * n \in Nat /\ total <= total * n
    BY BoundsAssumption DEF ValidTerms, Terms, Amount
  <1>2. /\ total * n <= Wallet[from][asset]
        /\ Wallet' = [Wallet EXCEPT ![from][asset] = @ - total * n]
    BY <1>1, WalletPays DEF Inductive
  <1>3. total \in 1..Wallet[from][asset]
    BY <1>1, <1>2 DEF View
  <1>4. ASSUME NEW id \in I
        PROVE  Grants'[id] = opened /\ Earned'[id] <= total
    <2>1. PICK payee \in Account :
            shard'[id] = NewState(from, e, payee, asset, terms)
      OBVIOUS
    <2>2. shard'[id] \in Schedule
      BY <2>1, NewStateSound, GenesisAssumption, BoundsAssumption
      DEF Inductive, TypeOK, Time
    <2>3. /\ shard'[id].asset = asset /\ shard'[id].total = total
          /\ shard'[id].refund_to = terms.refund_to /\ shard'[id].claimed = 0
          /\ shard'[id].cancelled_at = 0 /\ shard'[id].cancelable = terms.cancelable
      BY <2>1 DEF NewState
    <2>4. shard'[id] # NoSchedule
      BY <2>2, OfferAssumption
    <2>5. Grants'[id] = GrantOf(shard'[id]) /\ Earned'[id] <= shard'[id].total
      BY <2>4 DEF View, Exists
    <2>6. QED
      BY <2>3, <2>5 DEF GrantOf
  <1>5. ASSUME NEW id \in Id \ I
        PROVE  Grants'[id] = Grants[id] /\ Earned'[id] = Earned[id]
    BY <1>5 DEF Grants, Earned, Exists
  <1>6. \A id \in I : ~Promise!Open(id)
    BY DEF Promise!Open, View, Grants
  <1>7. I # {}
    BY FS_EmptySet
  <1> HIDE DEF opened
  <1>8. Grants' = [id \in Id |-> IF id \in I THEN opened ELSE Grants[id]]
    BY <1>4, <1>5 DEF View
  <1>9. /\ Earned' \in [Id -> Nat]
        /\ \A id \in Id : IF id \in I THEN Earned'[id] <= total
                                      ELSE Earned'[id] = Earned[id]
    BY <1>4, <1>5 DEF View
  <1> HIDE DEF standing, total
  <1>10. Promise!OpenGrants(I, from, asset, total, terms.refund_to, standing)
    <2>1. Promise!Debit(from, asset, total * Cardinality(I))
      BY <1>2 DEF Promise!Debit, Wallet
    <2>2. Grants' = [id \in Id |->
                       IF id \in I
                         THEN [asset |-> asset, total |-> total,
                               refundTo |-> terms.refund_to, paid |-> 0,
                               standing |-> standing]
                         ELSE Grants[id]]
      BY <1>8 DEF opened
    <2>3. Promise!Cardinality(I) = Cardinality(I)
      BY DEF Promise!Cardinality, Cardinality
    <2>4. QED
      BY <1>6, <1>7, <1>9, <2>1, <2>2, <2>3 DEF Promise!OpenGrants, Grants, Earned
  <1>11. standing \in {"revocable", "irrevocable"}
    BY DEF standing
  <1>12. QED
    BY <1>1, <1>3, <1>10, <1>11
(* A creation, of one schedule and of a batch. *)
LEMMA CreateOpens ==
  ASSUME Inductive, View, View', NEW id \in Id, NEW creator \in Account,
         NEW beneficiary \in Account, NEW asset \in Asset, NEW terms \in Terms,
         CreateSchedule(id, creator, beneficiary, asset, terms)
  PROVE  Promise!Next
  <1>1. /\ ValidTerms(terms) /\ now' = now /\ ~Exists(id)
        /\ Pays(creator, Holding(id), asset, terms.total)
        /\ shard' = [shard EXCEPT ![id] =
                       NewState(creator, Holding(id), beneficiary, asset, terms)]
        /\ shard \in [Id -> Schedule \cup {NoSchedule}]
    BY DEF CreateSchedule, CreateAccepted, Fresh, Inductive, TypeOK
  <1>2. /\ {id} \in SUBSET Id /\ Cardinality({id}) = 1 /\ 1 \in Nat \ {0}
        /\ Holding(id) \in Holdings
    <2>1. Cardinality({id}) = 1
      BY FS_Singleton
    <2>2. QED
      BY <2>1 DEF Holdings
  <1>3. Pays(creator, Holding(id), asset, terms.total * 1)
    <2>1. terms.total * 1 = terms.total
      BY BoundsAssumption DEF Terms, Amount
    <2>2. QED
      BY <1>1, <2>1
  <1>4. /\ \A x \in {id} :
             /\ ~Exists(x)
             /\ \E payee \in Account :
                  shard'[x] = NewState(creator, Holding(id), payee, asset, terms)
        /\ \A x \in Id \ {id} : shard'[x] = shard[x]
    <2>1. shard'[id] = NewState(creator, Holding(id), beneficiary, asset, terms)
      BY <1>1
    <2>2. QED
      BY <1>1, <2>1
  <1> DEFINE I == {id}
             e == Holding(id)
             n == 1
  <1>5. /\ I \in SUBSET Id /\ Cardinality(I) = n /\ n \in Nat \ {0} /\ e \in Holdings
        /\ Pays(creator, e, asset, terms.total * n)
        /\ \A x \in I :
             /\ ~Exists(x)
             /\ \E payee \in Account :
                  shard'[x] = NewState(creator, e, payee, asset, terms)
        /\ \A x \in Id \ I : shard'[x] = shard[x]
    BY <1>2, <1>3, <1>4
  <1> HIDE DEF I, e, n
  <1>6. \E standing \in {"revocable", "irrevocable"}, refundTo \in Party :
        \E total \in 1..Wallet[creator][asset] :
          Promise!OpenGrants(I, creator, asset, total, refundTo, standing)
    BY <1>1, <1>5, NewOpens
  <1>7. QED
    BY <1>5, <1>6 DEF Promise!Next, Wallet

(* A batch opens a grant for every member at once. *)
LEMMA BatchOpens ==
  ASSUME Inductive, View, View', NEW batch \in BatchId, NEW n \in 1..MaxBatch,
         NEW payees \in [0..n-1 -> Account], NEW creator \in Account,
         NEW asset \in Asset, NEW terms \in Terms,
         CreateScheduleBatch(batch, n, payees, creator, asset, terms)
  PROVE  Promise!Next
  <1> DEFINE I == BatchRows(batch, n)
             e == Holding(batch)
  <1>1. /\ ValidTerms(terms) /\ now' = now /\ \A id \in I : ~Exists(id)
        /\ Pays(creator, e, asset, terms.total * n)
    BY DEF CreateScheduleBatch, BatchAccepted, Fresh, BatchSum
  <1>2. /\ I \in SUBSET Id /\ Cardinality(I) = n /\ e \in Holdings /\ n \in Nat \ {0}
    BY BatchSize, IdAssumption DEF Holdings
  <1>3. ASSUME NEW id \in I
        PROVE  \E payee \in Account :
                 shard'[id] = NewState(creator, e, payee, asset, terms)
    <2> DEFINE i == CHOOSE i \in 0..n-1 : BatchScheduleId[batch][i] = id
    <2>1. shard'[id] = NewState(creator, e, payees[i], asset, terms)
      BY <1>2 DEF CreateScheduleBatch, BatchAccepted
    <2>2. \E j \in 0..n-1 : BatchScheduleId[batch][j] = id
      BY DEF BatchRows
    <2>3. i \in 0..n-1
      BY <2>2
    <2> HIDE DEF i
    <2>4. payees[i] \in Account
      BY <2>3
    <2>5. QED
      BY <2>1, <2>4
  <1>4. \A id \in Id \ I : shard'[id] = shard[id]
    BY DEF CreateScheduleBatch, BatchAccepted
  <1> HIDE DEF I, e
  <1>5. \E standing \in {"revocable", "irrevocable"}, refundTo \in Party :
        \E total \in 1..Wallet[creator][asset] :
          Promise!OpenGrants(I, creator, asset, total, refundTo, standing)
    BY <1>1, <1>2, <1>3, <1>4, NewOpens
  <1>6. QED
    BY <1>2, <1>5 DEF Promise!Next, Wallet

(* Every step is one the promise allows, or changes nothing it sees. *)
LEMMA StepPromised ==
  ASSUME Inductive, View, View', [Next]_vars
  PROVE  Promise!Next
  <1>1. ASSUME Grants' = Grants, bal' = bal PROVE Promise!Next
    BY <1>1, QuietAccrues DEF Promise!Next
  <1>2. CASE Tick
    BY <1>1, <1>2 DEF Tick, Grants, Exists
  <1>3. ASSUME NEW id \in SingleId, NEW creator \in Funder,
               NEW beneficiary \in Payee, NEW asset \in Asset,
               NEW terms \in OfferedTerms[asset],
               CreateSchedule(id, creator, beneficiary, asset, terms)
        PROVE  Promise!Next
    BY <1>3, CreateOpens, AccountsAssumption, IdAssumption, OfferAssumption
  <1>4. ASSUME NEW batch \in BatchId, NEW n \in 1..MaxBatch, NEW creator \in Funder,
               NEW asset \in Asset, NEW terms \in OfferedTerms[asset],
               NEW payees \in [0..n-1 -> Payee],
               CreateScheduleBatch(batch, n, payees, creator, asset, terms)
        PROVE  Promise!Next
    <2>1. payees \in [0..n-1 -> Account]
      BY AccountsAssumption
    <2>2. creator \in Account /\ terms \in Terms
      BY AccountsAssumption, OfferAssumption
    <2>3. QED
      BY <1>4, <2>1, <2>2, BatchOpens
  <1>5. ASSUME NEW id \in Id, NEW seed \in Id, NEW signer \in Account,
               NEW asset \in Asset, NEW at \in Time, NEW amount \in Amount,
               NEW destination \in Destination,
               Claim(id, seed, asset, amount, at, signer, destination)
        PROVE  Promise!Next
    <2>1. destination \in Party
      BY AccountsAssumption
    <2>2. /\ Promise!Open(id) /\ amount \in 1..Grants[id].total
          /\ Promise!Pay(id, amount, destination)
      BY <1>5, <2>1, ClaimPays
    <2>3. QED
      BY <2>1, <2>2 DEF Promise!Next, Grants
  <1>6. ASSUME NEW id \in Id, NEW seed \in Id, NEW signer \in Account,
               NEW asset \in Asset, NEW at \in Time,
               Cancel(id, seed, asset, at, signer)
        PROVE  Promise!Next
    <2>1. /\ Promise!Open(id)
          /\ \E share \in 0..Grants[id].total : Promise!Revoke(id, share)
      BY <1>6, CancelRevokes
    <2>2. QED
      BY <2>1 DEF Promise!Next, Grants
  <1>7. ASSUME NEW id \in Id, NEW signer \in Account, MakeNonCancelable(id, signer)
        PROVE  Promise!Next
    BY <1>1, <1>7, WaiverWaives DEF Promise!Next
  <1>8. ASSUME NEW id \in Id, NEW signer \in Account, NEW new_beneficiary \in Payee,
               TransferBeneficiary(id, signer, new_beneficiary)
        PROVE  Promise!Next
    <2> DEFINE u == [shard[id] EXCEPT !.beneficiary = new_beneficiary]
    <2>1. /\ Exists(id) /\ shard[id] \in Schedule /\ now' = now /\ bal' = bal
          /\ shard' = [shard EXCEPT ![id] = u] /\ new_beneficiary \in Account
      BY <1>8, InductiveShard, AccountsAssumption DEF TransferBeneficiary, TransferAccepted
    <2>2. u \in Schedule /\ GrantOf(u) = GrantOf(shard[id])
      BY <2>1 DEF Schedule, GrantOf
    <2> HIDE DEF u
    <2>3. Grants' = [Grants EXCEPT ![id] = GrantOf(u)]
      BY <2>1, <2>2, OneGrant
    <2>4. Grants[id] = GrantOf(u)
      BY <2>1, <2>2 DEF View
    <2>5. Grants' = Grants
      BY <2>3, <2>4 DEF View
    <2>6. QED
      BY <1>1, <2>1, <2>5
  <1>9. ASSUME NEW id \in Id, NEW signer \in Account,
               NEW index \in 0..MaxTranches-1, SignalMilestone(id, signer, index)
        PROVE  Promise!Next
    <2> DEFINE u == [shard[id] EXCEPT !.signalled = @ \cup {index}]
    <2>1. /\ Exists(id) /\ shard[id] \in Schedule /\ now' = now /\ bal' = bal
          /\ shard' = [shard EXCEPT ![id] = u]
      BY <1>9, InductiveShard DEF SignalMilestone, SignalAccepted
    <2>2. u \in Schedule /\ GrantOf(u) = GrantOf(shard[id])
      BY <2>1 DEF Schedule, GrantOf
    <2> HIDE DEF u
    <2>3. Grants' = [Grants EXCEPT ![id] = GrantOf(u)]
      BY <2>1, <2>2, OneGrant
    <2>4. Grants[id] = GrantOf(u)
      BY <2>1, <2>2 DEF View
    <2>5. Grants' = Grants
      BY <2>3, <2>4 DEF View
    <2>6. QED
      BY <1>1, <2>1, <2>5
  <1>10. ASSUME NEW from \in Account, NEW asset \in Asset, NEW gift \in Gifts,
                Deposit(from, gift[1], asset, gift[2])
         PROVE  Promise!Next
    <2>1. gift[1] \in Holdings /\ gift[2] \in Nat \ {0}
      BY OfferAssumption
    <2>2. /\ gift[2] \in 1..Wallet[from][asset]
          /\ Promise!Give(from, asset, gift[2])
      BY <1>10, <2>1, DepositGives
    <2>3. QED
      BY <2>2 DEF Promise!Next, Wallet
  <1>11. CASE UNCHANGED vars
    BY <1>1, <1>11 DEF vars, Grants, Exists
  <1>12. QED
    BY <1>2, <1>3, <1>4, <1>5, <1>6, <1>7, <1>8, <1>9, <1>10, <1>11 DEF Next

(* The program implements its promise: although a batch pools its money in one
   account and anybody may name any time, every user sees a purse of his own. *)
THEOREM PromiseKept == Spec => KeepsPromise
  <1>1. Init => Promise!Init
    <2> SUFFICES ASSUME Init PROVE Promise!Init
      OBVIOUS
    <2>1. Grants = [id \in Id |-> NoSchedule] /\ Earned = [id \in Id |-> 0]
      BY DEF Init, Grants, Earned, Exists
    <2>2. \A p \in Account : bal[p] = InitialBalance[p]
      BY AccountsAssumption DEF Init, Party
    <2>3. Wallet = InitialBalance
      BY <2>2, AccountsAssumption DEF Wallet
    <2>4. QED
      BY <2>1, <2>3 DEF Promise!Init, Grants, Earned, Wallet
  <1>2. Inductive /\ View /\ View' /\ [Next]_vars => Promise!Next
    BY StepPromised
  <1>3. QED
    BY <1>1, <1>2, AlwaysInductive, ViewSound, PTL DEF Spec, KeepsPromise, Promise!Spec

----------------------------------------------------------------------------
(* What an escrow can pay. *)

(* Whatever a schedule is still owed is there. *)
LEMMA Covered ==
  ASSUME Inductive, NEW id \in Id, Exists(id), NEW amount \in Nat,
         amount <= Entitlement(shard[id]) - shard[id].claimed
  PROVE  Covers(shard[id].escrow, shard[id].asset, amount)
  <1> DEFINE s == shard[id]
             own == {id} \X (s.claimed + 1 .. Entitlement(s))
             owed == OwedUnits(shard, s.escrow, s.asset)
  <1>1. TypeOK /\ s \in Schedule /\ Sound(s)
    BY InductiveShard
  <1>2. /\ s.claimed \in Nat /\ Entitlement(s) \in Nat /\ s.claimed <= Entitlement(s)
        /\ Entitlement(s) <= AmountMax /\ AmountMax \in Nat
    BY <1>1, SoundBounds, BoundsAssumption DEF Amount
  <1>3. own \subseteq owed
    BY <1>2 DEF OwedUnits, Secured, Exists, Amount
  <1>4. Cardinality(own) = Entitlement(s) - s.claimed
    <2> DEFINE lo == s.claimed
               hi == Entitlement(s)
    <2>1. lo \in Nat /\ hi \in Nat /\ lo <= hi
      BY <1>2
    <2> HIDE DEF lo, hi
    <2>2. Cardinality({id} \X (lo + 1 .. hi)) = hi - lo
      BY <2>1, CountUnitsOfOne
    <2>3. QED
      BY <2>2 DEF lo, hi
  <1>5. IsFiniteSet(owed)
    BY OwedFinite
  <1> HIDE DEF own, owed
  <1>6. Cardinality(own) <= Cardinality(owed)
    BY <1>3, <1>5, FS_Subset
  <1>7. s.escrow \in Holdings /\ s.asset \in Asset
    BY <1>1 DEF Schedule
  <1>8. Cardinality(owed) <= bal[s.escrow][s.asset]
    BY <1>7 DEF Inductive, EscrowSolvent, owed
  <1>9. bal[s.escrow][s.asset] \in Nat /\ Cardinality(owed) \in Nat
    <2>1. s.escrow \in Party
      BY <1>7 DEF Party
    <2>2. bal[s.escrow] \in [Asset -> Nat]
      BY <1>1, <2>1 DEF TypeOK
    <2>3. QED
      BY <1>7, <2>2, OwedFinite DEF owed
  <1>10. amount <= bal[s.escrow][s.asset]
    BY <1>2, <1>4, <1>6, <1>8, <1>9
  <1>11. QED
    BY <1>10 DEF Covers

(* What is claimable at a time that has come is within what is owed... *)
LEMMA ClaimCovered ==
  ASSUME Inductive, NEW id \in Id, Exists(id), NEW at \in Nat, at <= now,
         NEW amount \in Nat, amount <= Claimable(shard[id], at)
  PROVE  /\ Covers(shard[id].escrow, shard[id].asset, amount)
         /\ shard[id].claimed + amount <= AmountMax
  <1> DEFINE s == shard[id]
  <1>1. /\ TypeOK /\ s \in Schedule /\ Sound(s) /\ WellFormed(s) /\ s.total \in Nat
        /\ Vested(s, at) \in Nat /\ Vested(s, now) \in Nat
    BY InductiveShard, GenesisAssumption, BoundsAssumption DEF TypeOK, Time
  <1>2. /\ s.claimed \in Nat /\ Entitlement(s) \in Nat /\ s.claimed <= Entitlement(s)
        /\ Entitlement(s) <= AmountMax /\ AmountMax \in Nat /\ now \in Nat
        /\ s.cancelled_at \in Nat /\ s.cancelled_at <= now
    BY <1>1, SoundBounds, BoundsAssumption, GenesisAssumption
    DEF Amount, TypeOK, Time, Sound, Schedule
  <1>3. Vested(s, at) <= Entitlement(s)
    <2>1. Vested(s, at) <= Vested(s, now)
      BY <1>1, <1>2, VestedMonotone
    <2>2. CASE s.cancelled_at = 0
      BY <1>1, <2>2, VestedBounds DEF Entitlement
    <2>3. CASE s.cancelled_at # 0
      <3>1. Vested(s, now) = Vested(s, s.cancelled_at)
        BY <1>1, <1>2, <2>3, VestedFrozen
      <3>2. QED
        BY <1>1, <2>1, <2>3, <3>1 DEF Entitlement
    <2>4. QED
      BY <2>2, <2>3
  <1>4. amount <= Entitlement(s) - s.claimed
    BY <1>1, <1>2, <1>3 DEF Claimable
  <1>5. QED
    BY <1>2, <1>4, Covered

(* ... and so is the refund of a cancellation dated after the last claim. *)
LEMMA RefundCovered ==
  ASSUME Inductive, NEW id \in Id, Exists(id), shard[id].cancelled_at = 0,
         NEW at \in Time, CancelWindowOpen(at), NotBeforeLastClaim(shard[id], at)
  PROVE  Covers(shard[id].escrow, shard[id].asset, Unvested(shard[id], at))
  <1> DEFINE s == shard[id]
             u == Frozen(s, at)
  <1>1. TypeOK /\ s \in Schedule /\ Sound(s)
    BY InductiveShard
  <1>2. at # 0 /\ at <= now /\ s.last_seen <= at
    BY <1>1, CancelDated, BoundsAssumption DEF NotBeforeLastClaim, Schedule, Time
  <1>3. /\ u \in Schedule /\ Sound(u) /\ u.claimed = s.claimed
        /\ Entitlement(u) \in 0..s.total /\ Unvested(s, at) = s.total - Entitlement(u)
    <2> HIDE DEF u
    <2>1. QED
      BY <1>1, <1>2, FrozenSound DEF u
  <1> HIDE DEF u
  <1>4. u.claimed <= Entitlement(u) /\ u.claimed \in Nat
    BY <1>1, <1>3, SoundBounds, BoundsAssumption DEF Amount
  <1>5. Entitlement(s) = s.total /\ s.total \in Nat
    BY <1>1, BoundsAssumption DEF Entitlement, Schedule, Amount
  <1>6. Unvested(s, at) \in Nat /\ Unvested(s, at) <= Entitlement(s) - s.claimed
    BY <1>3, <1>4, <1>5
  <1>7. QED
    BY <1>6, Covered
=============================================================================
