---------------------------- MODULE LedgerProofs ----------------------------
(***************************************************************************)
(* The ledger keeps the program's invariant; what the command line reports *)
(* is true, for every number of attempts, every instruction of others and  *)
(* every way the network holds, drops and orders transactions; and the     *)
(* activity list of the app tells applied from refused as far as it can,   *)
(* for every history of a schedule.                                        *)
(***************************************************************************)
EXTENDS Client, Activity, VestingProofs, SequenceTheorems

----------------------------------------------------------------------------
(* The ledger. *)

(* An instruction that is applied is one of the program's actions, so it keeps the
   program's inductive invariant. *)
LEMMA ExecutesKeeps ==
  ASSUME Inductive, NEW ix, Decoded(ix), Executes(ix)
  PROVE  Inductive'
  <1>1. /\ ix.signer \in Account
        /\ ix.op # "batch" => ix.id \in Id
        /\ ix.op \in {"create", "batch", "claim", "cancel", "lock", "transfer", "signal"}
    BY DEF Decoded
  <1>2. CASE ix.op = "create"
    <2>1. /\ ix.beneficiary \in Account /\ ix.asset \in Asset /\ ix.terms \in Terms
          /\ CreateSchedule(ix.id, ix.signer, ix.beneficiary, ix.asset, ix.terms)
      BY <1>2 DEF Decoded, Executes
    <2>2. QED
      BY <1>1, <1>2, <2>1, CreateKeeps
  <1>3. CASE ix.op = "batch"
    <2> DEFINE n == Len(ix.payees)
               payees == [i \in 0..n-1 |-> ix.payees[i + 1]]
    <2>1. /\ ix.batch \in BatchId /\ ix.asset \in Asset /\ ix.terms \in Terms
          /\ ix.payees \in Seq(Account) /\ n \in 1..MaxBatch
          /\ CreateScheduleBatch(ix.batch, n, payees, ix.signer, ix.asset, ix.terms)
      BY <1>3 DEF Decoded, Executes
    <2>2. payees \in [0..n-1 -> Account]
      BY <2>1, BoundsAssumption
    <2> HIDE DEF n, payees
    <2>3. QED
      BY <1>1, <2>1, <2>2, BatchKeeps
  <1>4. CASE ix.op = "claim"
    <2>1. /\ ix.seed \in Id /\ ix.asset \in Asset /\ ix.destination \in Party
          /\ ix.amount \in Nat /\ ix.at \in Nat
          /\ Claim(ix.id, ix.seed, ix.asset, ix.amount, ix.at, ix.signer, ix.destination)
      BY <1>4 DEF Decoded, Executes
    <2>2. /\ ix.at <= now /\ shard[ix.id] # NoSchedule
          /\ shard[ix.id].claimed + ix.amount <= AmountMax
      BY <2>1 DEF Claim, ClaimAccepted, ClaimWindowOpen, MayClaim, Exists
    <2>3. now \in Genesis..TimeMax /\ shard[ix.id] \in Schedule
      BY <1>1, <1>4, <2>2 DEF Inductive, TypeOK
    <2>4. ix.at \in Time /\ ix.amount \in Amount
      BY <2>1, <2>2, <2>3, BoundsAssumption, GenesisAssumption DEF Time, Amount, Schedule
    <2>5. QED
      BY <1>1, <1>4, <2>1, <2>4, ClaimKeeps
  <1>5. CASE ix.op = "cancel"
    <2>1. /\ ix.seed \in Id /\ ix.asset \in Asset /\ ix.at \in Nat
          /\ Cancel(ix.id, ix.seed, ix.asset, ix.at, ix.signer)
      BY <1>5 DEF Decoded, Executes
    <2>2. ix.at \in Time
      BY <2>1, BoundsAssumption, GenesisAssumption
      DEF Cancel, CancelAccepted, CancelWindowOpen, Time, Inductive, TypeOK
    <2>3. QED
      BY <1>1, <1>5, <2>1, <2>2, CancelKeeps
  <1>6. CASE ix.op = "lock"
    <2>1. MakeNonCancelable(ix.id, ix.signer)
      BY <1>6 DEF Executes
    <2>2. QED
      BY <1>1, <1>6, <2>1, WaiveKeeps
  <1>7. CASE ix.op = "transfer"
    <2>1. /\ ix.new_beneficiary \in Account
          /\ TransferBeneficiary(ix.id, ix.signer, ix.new_beneficiary)
      BY <1>7 DEF Decoded, Executes
    <2>2. QED
      BY <1>1, <1>7, <2>1, TransferKeeps
  <1>8. CASE ix.op = "signal"
    <2>1. ix.index \in 0..MaxTranches-1 /\ SignalMilestone(ix.id, ix.signer, ix.index)
      BY <1>8 DEF Decoded, Executes
    <2>2. QED
      BY <1>1, <1>8, <2>1, SignalKeeps
  <1>9. QED
    BY <1>1, <1>2, <1>3, <1>4, <1>5, <1>6, <1>7, <1>8

(* Whatever a block includes, the invariant stays. *)
LEMMA IncludeKeeps ==
  ASSUME Inductive, NEW tx, Decoded(tx.ix), Include(tx)
  PROVE  Inductive'
  <1>1. CASE Applies(tx)
    BY <1>1, ExecutesKeeps DEF Applies
  <1>2. CASE Refuses(tx)
    <2>1. UNCHANGED vars
      BY <1>2 DEF Refuses
    <2>2. QED
      BY <2>1, NextKeeps
  <1>3. QED
    BY <1>1, <1>2 DEF Include

(* A refused transaction is included and changes nothing, an applied one is an
   action of the program: the ledger keeps the program's invariant. *)
THEOREM LedgerInductive == LedgerSpec => []Inductive
  <1>1. LedgerInit => Inductive
    BY InitInductive DEF LedgerInit
  <1>2. ASSUME Inductive, [LedgerNext]_ledgerVars PROVE Inductive'
    <2>1. CASE LedgerTick
      BY <1>2, <2>1, TickKeeps DEF LedgerTick
    <2>2. ASSUME NEW tx \in OthersTx, Include(tx) PROVE Inductive'
      <3>1. Decoded(tx.ix)
        BY OfferedDecode DEF OthersTx
      <3>2. QED
        BY <1>2, <2>2, <3>1, IncludeKeeps
    <2>3. CASE UNCHANGED ledgerVars
      <3>1. UNCHANGED vars
        BY <2>3 DEF ledgerVars, vars
      <3>2. QED
        BY <1>2, <3>1, NextKeeps
    <2>4. QED
      BY <1>2, <2>1, <2>2, <2>3 DEF LedgerNext
  <1>3. QED
    BY <1>1, <1>2, PTL DEF LedgerSpec

----------------------------------------------------------------------------
(* What becomes of one schedule. *)

(* A schedule read once and read later: its terms stay, and what was claimed,
   signalled, waived or cancelled stays so. *)
Grows(s, t) ==
  s # NoSchedule =>
    /\ s \in Schedule /\ t \in Schedule
    /\ t.kind = s.kind /\ t.start = s.start /\ t.cliff = s.cliff /\ t.end = s.end
    /\ t.total = s.total /\ t.tranches = s.tranches
    /\ s.claimed <= t.claimed
    /\ s.signalled \subseteq t.signalled
    /\ t.cancelable => s.cancelable
    /\ s.cancelled_at # 0 => t.cancelled_at = s.cancelled_at

(* It changed in a way that no later step takes back. *)
Advanced(s, t) ==
  /\ t # NoSchedule
  /\ s # NoSchedule =>
       /\ Grows(s, t)
       /\ \/ s.claimed < t.claimed
          \/ s.cancelled_at = 0 /\ t.cancelled_at # 0
          \/ s.cancelable /\ ~t.cancelable
          \/ s.signalled # t.signalled

(* Growth adds up. *)
LEMMA GrowsTwice ==
  ASSUME NEW r, NEW s, NEW t, Grows(r, s), Grows(s, t)
  PROVE  Grows(r, t)
  <1>1. CASE r = NoSchedule
    BY <1>1 DEF Grows
  <1>2. CASE r # NoSchedule
    <2>1. r \in Schedule /\ s \in Schedule /\ t \in Schedule /\ s # NoSchedule
      BY <1>2, OfferAssumption DEF Grows
    <2>2. /\ r.claimed \in Int /\ s.claimed \in Int /\ t.claimed \in Int
      BY <2>1, BoundsAssumption DEF Schedule, Amount
    <2>3. QED
      BY <1>2, <2>1, <2>2 DEF Grows
  <1>3. QED
    BY <1>1, <1>2

(* What has moved past something stays past it as it grows... *)
LEMMA AdvancedLater ==
  ASSUME NEW r, NEW s, NEW t, Advanced(r, s), Grows(s, t)
  PROVE  Advanced(r, t)
  <1>1. s \in Schedule /\ t \in Schedule /\ t # NoSchedule
    BY OfferAssumption DEF Advanced, Grows
  <1>2. CASE r = NoSchedule
    BY <1>1, <1>2 DEF Advanced
  <1>3. CASE r # NoSchedule
    <2>1. Grows(r, s) /\ Grows(r, t) /\ r \in Schedule
      BY <1>3, GrowsTwice DEF Advanced, Grows
    <2>2. /\ r.claimed \in Int /\ s.claimed \in Int /\ t.claimed \in Int
          /\ r.cancelable \in BOOLEAN /\ s.cancelable \in BOOLEAN
      BY <1>1, <2>1, BoundsAssumption DEF Schedule, Amount
    <2>3. /\ r.claimed <= s.claimed /\ s.claimed <= t.claimed
          /\ r.signalled \subseteq s.signalled /\ s.signalled \subseteq t.signalled
          /\ t.cancelable => s.cancelable
          /\ s.cancelled_at # 0 => t.cancelled_at = s.cancelled_at
      BY <1>1, <1>3, <2>1, OfferAssumption DEF Grows
    <2>4. \/ r.claimed < s.claimed
          \/ r.cancelled_at = 0 /\ s.cancelled_at # 0
          \/ r.cancelable /\ ~s.cancelable
          \/ r.signalled # s.signalled
      BY <1>3 DEF Advanced
    <2>5. \/ r.claimed < t.claimed
          \/ r.cancelled_at = 0 /\ t.cancelled_at # 0
          \/ r.cancelable /\ ~t.cancelable
          \/ r.signalled # t.signalled
      BY <2>2, <2>3, <2>4
    <2>6. QED
      BY <1>1, <2>1, <2>5 DEF Advanced
  <1>4. QED
    BY <1>2, <1>3

(* ... and has moved past everything before. *)
LEMMA AdvancedSince ==
  ASSUME NEW r, NEW s, NEW t, Grows(r, s), Advanced(s, t)
  PROVE  Advanced(r, t)
  <1>1. CASE r = NoSchedule
    BY <1>1 DEF Advanced
  <1>2. CASE r # NoSchedule
    <2>1. /\ r \in Schedule /\ s \in Schedule /\ s # NoSchedule /\ t # NoSchedule
          /\ Grows(s, t) /\ Grows(r, t) /\ t \in Schedule
      BY <1>2, GrowsTwice, OfferAssumption DEF Advanced, Grows
    <2>2. /\ r.claimed \in Int /\ s.claimed \in Int /\ t.claimed \in Int
          /\ r.cancelable \in BOOLEAN /\ s.cancelable \in BOOLEAN
      BY <2>1, BoundsAssumption DEF Schedule, Amount
    <2>3. /\ r.claimed <= s.claimed /\ s.claimed <= t.claimed
          /\ r.signalled \subseteq s.signalled /\ s.signalled \subseteq t.signalled
          /\ s.cancelable => r.cancelable
          /\ r.cancelled_at # 0 => s.cancelled_at = r.cancelled_at
      BY <1>2, <2>1 DEF Grows
    <2>4. \/ s.claimed < t.claimed
          \/ s.cancelled_at = 0 /\ t.cancelled_at # 0
          \/ s.cancelable /\ ~t.cancelable
          \/ s.signalled # t.signalled
      BY <2>1 DEF Advanced
    <2>5. \/ r.claimed < t.claimed
          \/ r.cancelled_at = 0 /\ t.cancelled_at # 0
          \/ r.cancelable /\ ~t.cancelable
          \/ r.signalled # t.signalled
      BY <2>2, <2>3, <2>4
    <2>6. QED
      BY <1>2, <2>1, <2>5 DEF Advanced
  <1>3. QED
    BY <1>1, <1>2

(* What advanced is not what it was. *)
LEMMA AdvancedDiffers ==
  ASSUME NEW s, NEW t, Advanced(s, t)
  PROVE  s # t
  <1>1. CASE s = NoSchedule
    BY <1>1 DEF Advanced
  <1>2. CASE s # NoSchedule
    <2>1. s \in Schedule /\ s.claimed \in Int
      BY <1>2, BoundsAssumption DEF Advanced, Grows, Schedule, Amount
    <2>2. QED
      BY <1>2, <2>1 DEF Advanced
  <1>3. QED
    BY <1>1, <1>2

(* A schedule left alone grows trivially. *)
LEMMA GrowsStill ==
  ASSUME NEW s, s \in Schedule \cup {NoSchedule}
  PROVE  Grows(s, s)
  BY BoundsAssumption DEF Grows, Schedule, Amount

(* What an applied instruction does to a schedule: it grows, and the schedule the
   instruction is about changes as intended, and, but for a transfer, for good. *)
Effect(ix, id) ==
  /\ Grows(shard[id], shard'[id])
  /\ ix.op # "transfer" /\ id = Watches(ix) => Advanced(shard[id], shard'[id])
  /\ id = Watches(ix) => Intended(ix, shard[id], shard'[id])

(* A creation makes a schedule where there was none. *)
LEMMA CreateEffect ==
  ASSUME Inductive, NEW ix, Decoded(ix), Executes(ix), ix.op = "create", NEW id \in Id
  PROVE  Effect(ix, id)
  <1> DEFINE u == NewState(ix.signer, Holding(ix.id), ix.beneficiary, ix.asset, ix.terms)
  <1>1. /\ ix.signer \in Account /\ ix.id \in Id
        /\ ix.beneficiary \in Account /\ ix.asset \in Asset /\ ix.terms \in Terms
        /\ CreateSchedule(ix.id, ix.signer, ix.beneficiary, ix.asset, ix.terms)
    BY DEF Decoded, Executes
  <1>2. TypeOK /\ now \in Nat /\ shard[id] \in Schedule \cup {NoSchedule}
    BY GenesisAssumption, BoundsAssumption DEF Inductive, TypeOK, Time
  <1>3. /\ ValidTerms(ix.terms) /\ shard[ix.id] = NoSchedule
        /\ shard' = [shard EXCEPT ![ix.id] = u]
    BY <1>1 DEF CreateSchedule, CreateAccepted, Fresh, Exists
  <1>4. Holding(ix.id) \in Holdings
    BY <1>1 DEF Holdings
  <1> HIDE DEF u
  <1>5. u \in Schedule
    BY <1>1, <1>2, <1>3, <1>4, NewStateSound DEF u
  <1>6. u # NoSchedule
    BY <1>5, OfferAssumption
  <1>7. shard'[id] = IF id = ix.id THEN u ELSE shard[id]
    BY <1>2, <1>3 DEF TypeOK
  <1>8. Watches(ix) = ix.id
    BY DEF Watches
  <1>9. Grows(shard[id], shard[id])
    BY <1>2, GrowsStill
  <1>10. CASE id = ix.id
    BY <1>3, <1>6, <1>7, <1>10 DEF Effect, Grows, Advanced, Intended
  <1>11. CASE id # ix.id
    BY <1>7, <1>8, <1>9, <1>11 DEF Effect
  <1>12. QED
    BY <1>10, <1>11

(* A batch makes each of its members where there was none. *)
LEMMA BatchEffect ==
  ASSUME Inductive, NEW ix, Decoded(ix), Executes(ix), ix.op = "batch", NEW id \in Id
  PROVE  Effect(ix, id)
  <1> DEFINE n == Len(ix.payees)
             payees == [i \in 0..n-1 |-> ix.payees[i + 1]]
  <1>1. /\ ix.batch \in BatchId /\ ix.asset \in Asset /\ ix.terms \in Terms
        /\ ix.payees \in Seq(Account) /\ n \in 1..MaxBatch /\ ix.signer \in Account
        /\ CreateScheduleBatch(ix.batch, n, payees, ix.signer, ix.asset, ix.terms)
    BY DEF Decoded, Executes
  <1>2. payees \in [0..n-1 -> Account]
    BY <1>1, BoundsAssumption
  <1>3. TypeOK /\ now \in Nat /\ shard[id] \in Schedule \cup {NoSchedule}
    BY GenesisAssumption, BoundsAssumption DEF Inductive, TypeOK, Time
  <1> HIDE DEF n, payees
  <1>4. Watches(ix) \in BatchRows(ix.batch, n)
    BY <1>1, BoundsAssumption DEF Watches, BatchRows
  <1>5. Grows(shard[id], shard[id])
    BY <1>3, GrowsStill
  <1>6. CASE id \in BatchRows(ix.batch, n)
    <2> DEFINE i == CHOOSE i \in 0..n-1 : BatchScheduleId[ix.batch][i] = id
               u == NewState(ix.signer, Holding(ix.batch), payees[i], ix.asset, ix.terms)
    <2>1. /\ ValidTerms(ix.terms) /\ shard[id] = NoSchedule /\ shard'[id] = u
      BY <1>1, <1>6 DEF CreateScheduleBatch, BatchAccepted, Fresh, Exists
    <2>2. \E j \in 0..n-1 : BatchScheduleId[ix.batch][j] = id
      BY <1>6 DEF BatchRows
    <2>3. i \in 0..n-1
      BY <2>2
    <2>4. payees[i] \in Account
      <3> HIDE DEF i
      <3>1. QED
        BY <1>2, <2>3
    <2>5. Holding(ix.batch) \in Holdings
      BY <1>1, IdAssumption DEF Holdings
    <2> HIDE DEF i, u
    <2>6. u \in Schedule
      BY <1>1, <1>3, <2>1, <2>4, <2>5, NewStateSound DEF u
    <2>7. u # NoSchedule
      BY <2>6, OfferAssumption
    <2>8. QED
      BY <2>1, <2>7 DEF Effect, Grows, Advanced, Intended
  <1>7. CASE id \notin BatchRows(ix.batch, n)
    <2>1. shard'[id] = shard[id]
      BY <1>1, <1>7 DEF CreateScheduleBatch, BatchAccepted
    <2>2. QED
      BY <1>4, <1>5, <1>7, <2>1 DEF Effect
  <1>8. QED
    BY <1>6, <1>7

(* An instruction on one schedule that rewrites it as u. *)
LEMMA RewriteEffect ==
  ASSUME Inductive, NEW ix, ix.op # "batch", ix.id \in Id, NEW id \in Id, NEW u,
         Exists(ix.id), shard' = [shard EXCEPT ![ix.id] = u],
         Grows(shard[ix.id], u), Intended(ix, shard[ix.id], u),
         ix.op # "transfer" => Advanced(shard[ix.id], u)
  PROVE  Effect(ix, id)
  <1>1. TypeOK /\ shard[id] \in Schedule \cup {NoSchedule}
    BY DEF Inductive, TypeOK
  <1>2. shard'[id] = IF id = ix.id THEN u ELSE shard[id]
    BY <1>1 DEF TypeOK
  <1>3. Grows(shard[id], shard[id])
    BY <1>1, GrowsStill
  <1>4. Watches(ix) = ix.id
    BY DEF Watches
  <1>5. QED
    BY <1>2, <1>3, <1>4 DEF Effect

(* The effect of an applied instruction, for every kind of it. *)
LEMMA ExecutesEffect ==
  ASSUME Inductive, NEW ix, Decoded(ix), Executes(ix), NEW id \in Id
  PROVE  Effect(ix, id)
  <1> DEFINE s == shard[ix.id]
  <1>1. /\ ix.op # "batch" => ix.id \in Id
        /\ ix.op \in {"create", "batch", "claim", "cancel", "lock", "transfer", "signal"}
    BY DEF Decoded
  <1>2. ix.op # "batch" /\ Exists(ix.id) =>
          /\ s \in Schedule /\ s # NoSchedule
          /\ s.claimed \in Amount /\ s.cancelled_at \in Nat /\ s.cancelable \in BOOLEAN
    BY <1>1, BoundsAssumption DEF Inductive, TypeOK, Exists, Schedule, Time
  <1>3. CASE ix.op = "claim"
    <2> DEFINE u == AfterClaim(s, ix.amount, ix.at)
    <2>1. /\ ix.amount \in Nat /\ ix.at \in Nat
          /\ Claim(ix.id, ix.seed, ix.asset, ix.amount, ix.at, ix.signer, ix.destination)
      BY <1>3 DEF Decoded, Executes
    <2>2. /\ Exists(ix.id) /\ ix.amount > 0 /\ s.claimed + ix.amount <= AmountMax
          /\ ix.at <= now /\ shard' = [shard EXCEPT ![ix.id] = u]
      BY <2>1 DEF Claim, ClaimAccepted, MayClaim, ClaimWindowOpen
    <2>3. now \in Genesis..TimeMax
      BY DEF Inductive, TypeOK
    <2>4. s.claimed + ix.amount \in Amount /\ ix.at \in Time
      BY <1>2, <1>3, <2>1, <2>2, <2>3, BoundsAssumption, GenesisAssumption DEF Amount, Time
    <2>5. u \in Schedule /\ u.claimed = s.claimed + ix.amount
      BY <1>2, <1>3, <2>2, <2>4 DEF AfterClaim, Schedule
    <2>6. /\ u.kind = s.kind /\ u.start = s.start /\ u.cliff = s.cliff /\ u.end = s.end
          /\ u.total = s.total /\ u.tranches = s.tranches /\ u.signalled = s.signalled
          /\ u.cancelable = s.cancelable /\ u.cancelled_at = s.cancelled_at
      BY <1>2, <1>3, <2>2 DEF AfterClaim, Schedule
    <2> HIDE DEF u
    <2>7. Grows(s, u) /\ Advanced(s, u)
      BY <1>2, <1>3, <2>1, <2>2, <2>5, <2>6, BoundsAssumption, OfferAssumption
      DEF Grows, Advanced, Amount
    <2>8. Intended(ix, s, u)
      BY <1>2, <1>3, <2>2, <2>5, OfferAssumption DEF Intended
    <2>9. QED
      BY <1>1, <1>3, <2>2, <2>7, <2>8, RewriteEffect
  <1>4. CASE ix.op = "cancel"
    <2> DEFINE u == Frozen(s, ix.at)
    <2>1. ix.at \in Nat /\ Cancel(ix.id, ix.seed, ix.asset, ix.at, ix.signer)
      BY <1>4 DEF Decoded, Executes
    <2>2. /\ Exists(ix.id) /\ CancelWindowOpen(ix.at) /\ s.cancelled_at = 0
          /\ shard' = [shard EXCEPT ![ix.id] = u]
      BY <2>1 DEF Cancel, CancelAccepted, MayCancel
    <2>3. TypeOK
      BY DEF Inductive
    <2>4. ix.at \in Time
      BY <2>1, <2>2, <2>3, BoundsAssumption DEF CancelWindowOpen, Time
    <2>5. ix.at \in Nat \ {0}
      BY <2>2, <2>3, <2>4, CancelDated
    <2>6. u \in Schedule /\ u.cancelled_at # 0
      <3> DEFINE c == IF ix.at > 1 THEN ix.at ELSE 1
      <3>1. c \in Time /\ c # 0
        BY <2>4, <2>5, BoundsAssumption DEF Time
      <3>2. u = [s EXCEPT !.cancelled_at = c, !.last_seen = ix.at]
        BY DEF Frozen
      <3> HIDE DEF c, u
      <3>3. s \in Schedule
        BY <1>2, <1>4, <2>2
      <3>4. QED
        BY <2>4, <3>1, <3>2, <3>3 DEF Schedule
    <2>7. /\ u.kind = s.kind /\ u.start = s.start /\ u.cliff = s.cliff /\ u.end = s.end
          /\ u.total = s.total /\ u.tranches = s.tranches /\ u.signalled = s.signalled
          /\ u.cancelable = s.cancelable /\ u.claimed = s.claimed
      BY <1>2, <1>4, <2>2 DEF Frozen, Schedule
    <2> HIDE DEF u
    <2>8. Grows(s, u) /\ Advanced(s, u)
      BY <1>2, <1>4, <2>2, <2>6, <2>7, BoundsAssumption, OfferAssumption
      DEF Grows, Advanced, Amount
    <2>9. Intended(ix, s, u)
      BY <1>2, <1>4, <2>2, <2>6, OfferAssumption DEF Intended
    <2>10. QED
      BY <1>1, <1>4, <2>2, <2>8, <2>9, RewriteEffect
  <1>5. CASE ix.op = "lock"
    <2> DEFINE u == [s EXCEPT !.cancelable = FALSE]
    <2>1. /\ Exists(ix.id) /\ s.cancelable /\ shard' = [shard EXCEPT ![ix.id] = u]
      BY <1>5 DEF Executes, MakeNonCancelable, WaiverAccepted
    <2>2. /\ u \in Schedule /\ ~u.cancelable /\ u.claimed = s.claimed
          /\ u.kind = s.kind /\ u.start = s.start /\ u.cliff = s.cliff /\ u.end = s.end
          /\ u.total = s.total /\ u.tranches = s.tranches /\ u.signalled = s.signalled
          /\ u.cancelled_at = s.cancelled_at
      BY <1>2, <1>5, <2>1 DEF Schedule
    <2> HIDE DEF u
    <2>3. Grows(s, u) /\ Advanced(s, u)
      BY <1>2, <1>5, <2>1, <2>2, BoundsAssumption, OfferAssumption DEF Grows, Advanced, Amount
    <2>4. Intended(ix, s, u)
      BY <1>2, <1>5, <2>1, <2>2, OfferAssumption DEF Intended
    <2>5. QED
      BY <1>1, <1>5, <2>1, <2>3, <2>4, RewriteEffect
  <1>6. CASE ix.op = "transfer"
    <2> DEFINE u == [s EXCEPT !.beneficiary = ix.new_beneficiary]
    <2>1. /\ ix.new_beneficiary \in Account /\ Exists(ix.id)
          /\ shard' = [shard EXCEPT ![ix.id] = u]
      BY <1>6 DEF Decoded, Executes, TransferBeneficiary, TransferAccepted
    <2>2. /\ u \in Schedule /\ u.cancelable = s.cancelable /\ u.claimed = s.claimed
          /\ u.kind = s.kind /\ u.start = s.start /\ u.cliff = s.cliff /\ u.end = s.end
          /\ u.total = s.total /\ u.tranches = s.tranches /\ u.signalled = s.signalled
          /\ u.cancelled_at = s.cancelled_at /\ u.beneficiary = ix.new_beneficiary
      BY <1>2, <1>6, <2>1 DEF Schedule
    <2> HIDE DEF u
    <2>3. Grows(s, u)
      BY <1>2, <1>6, <2>1, <2>2, BoundsAssumption DEF Grows, Amount
    <2>4. Intended(ix, s, u)
      BY <1>2, <1>6, <2>1, <2>2, OfferAssumption DEF Intended
    <2>5. QED
      BY <1>1, <1>6, <2>1, <2>3, <2>4, RewriteEffect
  <1>7. CASE ix.op = "signal"
    <2> DEFINE u == [s EXCEPT !.signalled = @ \cup {ix.index}]
    <2>1. /\ ix.index \in 0..MaxTranches-1 /\ Exists(ix.id) /\ ix.index \notin s.signalled
          /\ shard' = [shard EXCEPT ![ix.id] = u]
      BY <1>7 DEF Decoded, Executes, SignalMilestone, SignalAccepted, MaySignal
    <2>2. /\ u \in Schedule /\ u.cancelable = s.cancelable /\ u.claimed = s.claimed
          /\ u.kind = s.kind /\ u.start = s.start /\ u.cliff = s.cliff /\ u.end = s.end
          /\ u.total = s.total /\ u.tranches = s.tranches
          /\ u.signalled = s.signalled \cup {ix.index}
          /\ u.cancelled_at = s.cancelled_at
      BY <1>2, <1>7, <2>1 DEF Schedule
    <2> HIDE DEF u
    <2>3. Grows(s, u) /\ Advanced(s, u)
      BY <1>2, <1>7, <2>1, <2>2, BoundsAssumption, OfferAssumption DEF Grows, Advanced, Amount
    <2>4. Intended(ix, s, u)
      BY <1>2, <1>7, <2>1, <2>2, OfferAssumption DEF Intended
    <2>5. QED
      BY <1>1, <1>7, <2>1, <2>3, <2>4, RewriteEffect
  <1>8. QED
    BY <1>1, <1>3, <1>4, <1>5, <1>6, <1>7, CreateEffect, BatchEffect

(* An instruction leaves the schedules it does not name alone. *)
LEMMA OthersUntouched ==
  ASSUME Inductive, NEW ix, Decoded(ix), Executes(ix), NEW id \in Id, ~Names(ix, id)
  PROVE  shard'[id] = shard[id]
  <1>1. /\ ix.op \in {"create", "batch", "claim", "cancel", "lock", "transfer", "signal"}
        /\ shard \in [Id -> Schedule \cup {NoSchedule}]
    BY DEF Decoded, Inductive, TypeOK
  <1>2. CASE ix.op = "batch"
    BY <1>2 DEF Executes, Names, CreateScheduleBatch
  <1>3. CASE ix.op # "batch"
    <2>1. \E u : shard' = [shard EXCEPT ![ix.id] = u]
      <3>1. CASE ix.op = "create"
        BY <3>1 DEF Executes, CreateSchedule
      <3>2. CASE ix.op = "claim"
        BY <3>2 DEF Executes, Claim
      <3>3. CASE ix.op = "cancel"
        BY <3>3 DEF Executes, Cancel
      <3>4. CASE ix.op = "lock"
        BY <3>4 DEF Executes, MakeNonCancelable
      <3>5. CASE ix.op = "transfer"
        BY <3>5 DEF Executes, TransferBeneficiary
      <3>6. CASE ix.op = "signal"
        BY <3>6 DEF Executes, SignalMilestone
      <3>7. QED
        BY <1>1, <1>3, <3>1, <3>2, <3>3, <3>4, <3>5, <3>6
    <2>2. ix.id # id
      BY <1>3 DEF Names
    <2>3. QED
      BY <1>1, <2>1, <2>2
  <1>4. QED
    BY <1>2, <1>3

----------------------------------------------------------------------------
(* Where the command starts. *)

(* What a command asks for names a schedule. *)
LEMMA CommandWatches ==
  ASSUME NEW c \in Commands
  PROVE  /\ Watches(c) \in Id
         /\ c.op \in {"create", "batch", "claim", "cancel", "lock", "transfer", "signal"}
         /\ c.op \in {"claim", "cancel"} => c \in Claims \cup Cancels /\ Genesis + c.at >= 0
         /\ c.op \notin {"claim", "cancel"} => Decoded(c)
  <1>1. CASE c \in Claims \cup Cancels /\ Genesis + c.at >= 0
    BY <1>1 DEF Claims, Cancels, Watches
  <1>2. CASE c.op \in {"create", "batch", "lock", "transfer", "signal"} /\ Decoded(c)
    <2>1. CASE c.op = "batch"
      <3>1. c.batch \in BatchId /\ 0 \in 0..MaxBatch-1
        BY <1>2, <2>1, BoundsAssumption DEF Decoded
      <3>2. BatchScheduleId[c.batch] \in [0..MaxBatch-1 -> Id]
        BY <3>1, IdAssumption
      <3>3. BatchScheduleId[c.batch][0] \in Id
        BY <3>1, <3>2
      <3>4. QED
        BY <1>2, <2>1, <3>3 DEF Watches
    <2>2. CASE c.op # "batch"
      <3>1. c.id \in Id
        BY <1>2, <2>2 DEF Decoded
      <3>2. QED
        BY <1>2, <2>2, <3>1 DEF Watches
    <2>3. QED
      BY <2>1, <2>2
  <1>3. QED
    BY <1>1, <1>2, CommandsAssumption

(* A command to claim has what a claim needs, and one to cancel what that does. *)
LEMMA CommandKind ==
  ASSUME NEW c \in Commands, c.op \in {"claim", "cancel"}
  PROVE  /\ Genesis + c.at >= 0
         /\ c.op = "claim" => c \in Claims
         /\ c.op = "cancel" => c \in Cancels
  <1>1. c \in Claims \cup Cancels /\ Genesis + c.at >= 0
    BY CommandWatches
  <1>2. (c \in Claims => c.op = "claim") /\ (c \in Cancels => c.op = "cancel")
    BY DEF Claims, Cancels
  <1>3. QED
    BY <1>1, <1>2

(* A ledger with one schedule, just created. *)
LEMMA ExistingInductive ==
  ASSUME ClientInit
  PROVE  Inductive
  <1>1. CASE LedgerInit
    BY <1>1, InitInductive DEF LedgerInit
  <1>2. ASSUME NEW e \in Existing, NEW c \in Commands,
               now = Genesis,
               shard = [id \in Id |-> IF id # Watches(c) THEN NoSchedule
                          ELSE NewState(e[2], Holding(id), e[3], e[4], e[1])],
               bal = Moved([p \in Party |-> [a \in Asset |->
                              IF p \in Account THEN InitialBalance[p][a] ELSE 0]],
                           e[2], Holding(Watches(c)), e[4], e[1].total)
        PROVE  Inductive
    <2> DEFINE w    == Watches(c)
               h    == Holding(w)
               full == [p \in Party |-> [a \in Asset |->
                          IF p \in Account THEN InitialBalance[p][a] ELSE 0]]
               u    == NewState(e[2], h, e[3], e[4], e[1])
               none == [id \in Id |-> NoSchedule]
    <2>1. w \in Id /\ h \in Holdings /\ h \in Party
      BY CommandWatches DEF Holdings, Party
    <2>2. /\ e[1] \in Terms /\ ValidTerms(e[1])
          /\ e[2] \in Account /\ e[2] \in Party /\ e[3] \in Account /\ e[4] \in Asset
          /\ e[1].total <= InitialBalance[e[2]][e[4]]
          /\ e[1].total \in Amount /\ e[1].total \in Nat
      BY ExistingAssumption, BoundsAssumption DEF Party, Terms, Amount
    <2>3. full \in [Party -> [Asset -> Nat]]
      BY AccountsAssumption
    <2>4. full[e[2]][e[4]] - e[1].total \in Nat
      BY <2>2, AccountsAssumption DEF Party
    <2>5. e[2] # h
      BY <2>1, <2>2, AccountsAssumption
    <2>6. /\ bal \in [Party -> [Asset -> Nat]]
          /\ bal[h][e[4]] >= e[1].total
          /\ \A p \in Party, a \in Asset : bal[p][a] \in Nat
      <3> DEFINE paid == [full EXCEPT ![e[2]][e[4]] = @ - e[1].total]
      <3>1. bal = [paid EXCEPT ![h][e[4]] = @ + e[1].total]
        BY <1>2 DEF Moved
      <3> HIDE DEF full
      <3>2. paid \in [Party -> [Asset -> Nat]]
        BY <2>2, <2>3, <2>4
      <3> HIDE DEF paid, h
      <3>3. bal \in [Party -> [Asset -> Nat]] /\ bal[h][e[4]] = paid[h][e[4]] + e[1].total
        BY <2>1, <2>2, <3>1, <3>2
      <3>4. QED
        BY <2>1, <2>2, <3>2, <3>3
    <2> HIDE DEF u, h
    <2>7. Genesis \in Genesis..TimeMax /\ now \in Nat
      BY <1>2, GenesisAssumption, BoundsAssumption DEF Time
    <2>8. u \in Schedule \cup {NoSchedule} => shard \in Shards
      BY <1>2, <2>1 DEF Shards, u, h
    <2>9. u \in Schedule => TypeOK
      BY <1>2, <2>6, <2>7, <2>8 DEF TypeOK, Shards
    <2>10. /\ u \in Schedule /\ Sound(u)
           /\ u.escrow = h /\ u.asset = e[4] /\ u.claimed = 0
           /\ Entitlement(u) = e[1].total
      BY <1>2, <2>1, <2>2, <2>7, NewStateSound DEF u
    <2>11. TypeOK /\ u # NoSchedule /\ shard[w] = u /\ shard \in Shards
      BY <1>2, <2>1, <2>8, <2>9, <2>10, OfferAssumption DEF u, h
    <2>12. \A id \in Id : id # w => shard[id] = NoSchedule
      BY <1>2
    <2> HIDE DEF w
    <2>13. none \in Shards
      BY DEF Shards
    <2>14. Opened(none, shard, {w}, h, e[4], e[1].total)
      BY <2>1, <2>10, <2>11, <2>12 DEF Opened
    <2>15. {w} \in SUBSET Id
      BY <2>1
    <2>16. Cardinality({w}) = 1
      BY FS_Singleton
    <2>17. ASSUME NEW g \in Holdings, NEW a \in Asset
           PROVE  Cardinality(OwedUnits(shard, g, a)) <= bal[g][a]
      <3>1. OwedUnits(none, g, a) = {}
        BY DEF OwedUnits, Secured
      <3>2. Cardinality(OwedUnits(none, g, a)) = 0
        BY <3>1, FS_EmptySet
      <3> HIDE DEF none
      <3>3. Cardinality(OwedUnits(shard, g, a)) =
              0 + IF h = g /\ e[4] = a THEN 1 * e[1].total ELSE 0
        BY <2>2, <2>11, <2>13, <2>14, <2>15, <2>16, <3>2, OwedGrows
      <3>4. bal[g][a] \in Nat
        BY <2>6 DEF Party
      <3>5. QED
        BY <2>2, <2>6, <3>3, <3>4
    <2>18. \A id \in Id : Exists(id) => Sound(shard[id])
      BY <2>10, <2>11, <2>12 DEF Exists
    <2>19. QED
      BY <2>11, <2>17, <2>18 DEF Inductive, EscrowSolvent
  <1>3. QED
    BY <1>1, <1>2 DEF ClientInit

----------------------------------------------------------------------------
(* What is spent once. *)

(* A schedule that grew vests, by any date, no more than it was going to: its
   terms are the same, and at most it was cancelled. *)
LEMMA VestsNoMore ==
  ASSUME NEW s, NEW t, s # NoSchedule, Grows(s, t), s.kind # "milestone",
         WellFormed(t), NEW at \in Nat
  PROVE  /\ Vested(s, at) \in Nat /\ Vested(t, at) \in Nat
         /\ Vested(t, at) <= Vested(s, at)
  <1>1. /\ s \in Schedule /\ s.cancelled_at \in Nat
        /\ t.kind = s.kind /\ t.start = s.start /\ t.cliff = s.cliff
        /\ t.end = s.end /\ t.total = s.total /\ t.tranches = s.tranches
        /\ s.cancelled_at # 0 => t.cancelled_at = s.cancelled_at
    BY BoundsAssumption DEF Grows, Schedule, Time
  <1>2. WellFormed(s)
    BY <1>1 DEF WellFormed
  <1>3. s.total \in Nat /\ Vested(s, at) \in Nat /\ Vested(t, at) \in Nat
    BY <1>1, <1>2, VestedBounds DEF WellFormed
  <1>4. CASE s.cancelled_at # 0 \/ t.cancelled_at = 0 \/ ~(t.cancelled_at < at)
    BY <1>1, <1>3, <1>4 DEF Vested, VestedAt
  <1>5. CASE s.cancelled_at = 0 /\ t.cancelled_at # 0 /\ t.cancelled_at < at
    <2> DEFINE c == t.cancelled_at
    <2>1. c \in Nat
      BY DEF WellFormed
    <2>2. Vested(t, at) = Vested(s, c)
      BY <1>1, <1>5 DEF Vested, VestedAt
    <2> HIDE DEF c
    <2>3. Vested(s, c) <= Vested(s, at)
      BY <1>2, <1>5, <2>1, VestedMonotone DEF c
    <2>4. QED
      BY <1>3, <2>2, <2>3
  <1>6. QED
    BY <1>4, <1>5

(* An instruction as a command builds it: a claim is of everything that the
   schedule it read owed. *)
InFull(ix, seen) ==
  ix.op = "claim" =>
    /\ seen \in Schedule /\ seen.kind # "milestone"
    /\ ix.amount = Claimable(seen, ix.at)

(* What an instruction that was applied leaves, for good: nothing is left for it
   to do. *)
Spent(ix, seen, t) ==
  /\ t \in Schedule
  /\ ix.op = "claim" => Vested(seen, ix.at) <= t.claimed
  /\ ix.op = "cancel" => t.cancelled_at # 0
  /\ ix.op = "lock" => ~t.cancelable
  /\ ix.op = "signal" => ix.index \in t.signalled

(* What an instruction asks for stays spent as the schedule grows. *)
LEMMA SpentStays ==
  ASSUME NEW ix, NEW seen, NEW t, NEW u, Spent(ix, seen, t), Grows(t, u),
         ix.op = "claim" => Vested(seen, ix.at) \in Nat
  PROVE  Spent(ix, seen, u)
  <1>1. t \in Schedule /\ u \in Schedule /\ t # NoSchedule
    BY OfferAssumption DEF Spent, Grows
  <1>2. t.claimed \in Nat /\ u.claimed \in Nat /\ t.claimed <= u.claimed
    BY <1>1, BoundsAssumption DEF Grows, Schedule, Amount
  <1>3. QED
    BY <1>1, <1>2 DEF Spent, Grows

(* An applied instruction spends what it asks for... *)
LEMMA ExecutesSpends ==
  ASSUME Inductive, NEW ix, Decoded(ix), Executes(ix), ix.op # "transfer",
         NEW seen, InFull(ix, seen),
         ix.op = "claim" => Grows(seen, shard[ix.id])
  PROVE  Spent(ix, seen, shard'[Watches(ix)])
  <1> DEFINE w == Watches(ix)
  <1>1. /\ ix.op # "batch" => w = ix.id /\ ix.id \in Id
        /\ ix.op \in {"create", "batch", "claim", "cancel", "lock", "signal"}
    BY DEF Decoded, Watches
  <1>2. w \in Id
    <2>1. CASE ix.op = "batch"
      <3>1. ix.batch \in BatchId /\ 0 \in 0..MaxBatch-1
        BY <2>1, BoundsAssumption DEF Decoded
      <3>2. BatchScheduleId[ix.batch] \in [0..MaxBatch-1 -> Id]
        BY <3>1, IdAssumption
      <3>3. QED
        BY <2>1, <3>1, <3>2 DEF Watches
    <2>2. QED
      BY <1>1, <2>1
  <1>3. Advanced(shard[w], shard'[w])
    BY <1>1, <1>2, ExecutesEffect DEF Effect
  <1> HIDE DEF w
  <1>4. shard'[w] \in Schedule
    <2>1. Inductive'
      BY ExecutesKeeps
    <2>2. QED
      BY <1>2, <1>3, <2>1 DEF Inductive, TypeOK, Advanced
  <1>5. ix.op = "claim" => Vested(seen, ix.at) <= shard'[w].claimed
    <2> SUFFICES ASSUME ix.op = "claim" PROVE Vested(seen, ix.at) <= shard'[w].claimed
      OBVIOUS
    <2> DEFINE s == shard[ix.id]
    <2>1. /\ ix.at \in Nat /\ ix.amount \in Nat /\ w = ix.id
          /\ Claim(ix.id, ix.seed, ix.asset, ix.amount, ix.at, ix.signer, ix.destination)
      BY <1>1 DEF Decoded, Executes
    <2>2. /\ Exists(ix.id) /\ ix.amount > 0
          /\ shard' = [shard EXCEPT ![ix.id] = AfterClaim(s, ix.amount, ix.at)]
      BY <2>1 DEF Claim, ClaimAccepted
    <2>3. s \in Schedule /\ s.claimed \in Nat /\ shard \in [Id -> Schedule \cup {NoSchedule}]
      BY <1>1, <2>2, BoundsAssumption DEF Inductive, TypeOK, Exists, Schedule, Amount
    <2>4. shard'[w].claimed = s.claimed + ix.amount
      BY <1>1, <2>1, <2>2, <2>3 DEF AfterClaim, Schedule
    <2>5. /\ seen.claimed \in Nat /\ seen.claimed <= s.claimed
          /\ seen # NoSchedule /\ seen.kind # "milestone"
      BY OfferAssumption, BoundsAssumption DEF InFull, Grows, Schedule, Amount
    <2>6. WellFormed(s)
      BY <1>1, <2>2, InductiveShard
    <2>7. Vested(seen, ix.at) \in Nat
      BY <2>1, <2>5, <2>6, VestsNoMore
    <2>8. ix.amount = Vested(seen, ix.at) - seen.claimed
      BY <2>1, <2>2, <2>5, <2>7 DEF InFull, Claimable
    <2>9. QED
      BY <2>1, <2>3, <2>4, <2>5, <2>7, <2>8
  <1>6. ix.op = "cancel" => shard'[w].cancelled_at # 0
    <2> SUFFICES ASSUME ix.op = "cancel" PROVE shard'[w].cancelled_at # 0
      OBVIOUS
    <2>1. ix.at \in Nat /\ Cancel(ix.id, ix.seed, ix.asset, ix.at, ix.signer)
      BY DEF Decoded, Executes
    <2>2. Exists(ix.id) /\ shard' = [shard EXCEPT ![ix.id] = Frozen(shard[ix.id], ix.at)]
      BY <2>1 DEF Cancel, CancelAccepted
    <2>3. shard[ix.id] \in Schedule /\ shard \in [Id -> Schedule \cup {NoSchedule}]
      BY <1>1, <2>2 DEF Inductive, TypeOK, Exists
    <2>4. shard'[w].cancelled_at = IF ix.at > 1 THEN ix.at ELSE 1
      BY <1>1, <2>2, <2>3 DEF Frozen, Schedule
    <2>5. QED
      BY <2>1, <2>4
  <1>7. ix.op = "lock" => ~shard'[w].cancelable
    <2> SUFFICES ASSUME ix.op = "lock" PROVE ~shard'[w].cancelable
      OBVIOUS
    <2>1. Exists(ix.id) /\ shard' = [shard EXCEPT ![ix.id].cancelable = FALSE]
      BY DEF Executes, MakeNonCancelable, WaiverAccepted
    <2>2. shard[ix.id] \in Schedule /\ shard \in [Id -> Schedule \cup {NoSchedule}]
      BY <1>1, <2>1 DEF Inductive, TypeOK, Exists
    <2>3. QED
      BY <1>1, <2>1, <2>2 DEF Schedule
  <1>8. ix.op = "signal" => ix.index \in shard'[w].signalled
    <2> SUFFICES ASSUME ix.op = "signal" PROVE ix.index \in shard'[w].signalled
      OBVIOUS
    <2>1. Exists(ix.id) /\ shard' = [shard EXCEPT ![ix.id].signalled = @ \cup {ix.index}]
      BY DEF Executes, SignalMilestone, SignalAccepted
    <2>2. shard[ix.id] \in Schedule /\ shard \in [Id -> Schedule \cup {NoSchedule}]
      BY <1>1, <2>1 DEF Inductive, TypeOK, Exists
    <2>3. QED
      BY <1>1, <2>1, <2>2 DEF Schedule
  <1>9. QED
    BY <1>4, <1>5, <1>6, <1>7, <1>8 DEF Spent, w

(* ... and what is spent is refused when it is asked for again. *)
LEMMA SpentRefuses ==
  ASSUME Inductive, NEW ix, Decoded(ix), ix.op # "transfer",
         NEW seen, InFull(ix, seen), Spent(ix, seen, shard[Watches(ix)]),
         ix.op = "claim" => Grows(seen, shard[ix.id])
  PROVE  ~Executes(ix)
  <1> SUFFICES ASSUME Executes(ix) PROVE FALSE
    OBVIOUS
  <1>1. /\ ix.op # "batch" => Watches(ix) = ix.id /\ ix.id \in Id
        /\ ix.op \in {"create", "batch", "claim", "cancel", "lock", "signal"}
        /\ shard[Watches(ix)] # NoSchedule
    BY OfferAssumption DEF Decoded, Watches, Spent
  <1>2. CASE ix.op = "create"
    BY <1>1, <1>2 DEF Executes, CreateSchedule, CreateAccepted, Fresh, Exists
  <1>3. CASE ix.op = "batch"
    <2> DEFINE n == Len(ix.payees)
    <2>1. n \in 1..MaxBatch /\ \A id \in BatchRows(ix.batch, n) : Fresh(id)
      BY <1>3 DEF Decoded, Executes, CreateScheduleBatch, BatchAccepted
    <2> HIDE DEF n
    <2>2. Watches(ix) \in BatchRows(ix.batch, n)
      BY <1>3, <2>1, BoundsAssumption DEF Watches, BatchRows
    <2>3. QED
      BY <1>1, <2>1, <2>2 DEF Fresh, Exists
  <1>4. CASE ix.op = "claim"
    <2> DEFINE s == shard[ix.id]
    <2>1. /\ ix.at \in Nat /\ ix.amount \in Nat
          /\ Claim(ix.id, ix.seed, ix.asset, ix.amount, ix.at, ix.signer, ix.destination)
      BY <1>4 DEF Decoded, Executes
    <2>2. Exists(ix.id) /\ ix.amount > 0 /\ ix.amount <= Claimable(s, ix.at)
      BY <2>1 DEF Claim, ClaimAccepted, MayClaim
    <2>3. WellFormed(s) /\ s.claimed \in Nat
      BY <1>1, <1>4, <2>2, InductiveShard, BoundsAssumption DEF Schedule, Amount
    <2>4. seen # NoSchedule /\ seen.kind # "milestone" /\ Grows(seen, s)
      BY <1>4, OfferAssumption DEF InFull
    <2>5. /\ Vested(seen, ix.at) \in Nat /\ Vested(s, ix.at) \in Nat
          /\ Vested(s, ix.at) <= Vested(seen, ix.at)
      BY <2>1, <2>3, <2>4, VestsNoMore
    <2>6. Vested(seen, ix.at) <= s.claimed
      BY <1>1, <1>4 DEF Spent
    <2>7. Claimable(s, ix.at) = 0
      BY <2>3, <2>5, <2>6 DEF Claimable
    <2>8. QED
      BY <2>1, <2>2, <2>7
  <1>5. CASE ix.op = "cancel"
    BY <1>1, <1>5 DEF Executes, Cancel, CancelAccepted, MayCancel, Spent
  <1>6. CASE ix.op = "lock"
    BY <1>1, <1>6 DEF Executes, MakeNonCancelable, WaiverAccepted, Spent
  <1>7. CASE ix.op = "signal"
    BY <1>1, <1>7 DEF Executes, SignalMilestone, SignalAccepted, MaySignal, Spent
  <1>8. QED
    BY <1>1, <1>2, <1>3, <1>4, <1>5, <1>6, <1>7

----------------------------------------------------------------------------
(* The invariant of a command. *)

Fields == {"cmd", "pc", "seen", "ix", "before", "height", "attempt", "sent",
           "look", "found", "verdict"}

(* The schedule was read before the first attempt, and some attempt was made. *)
Sending == cli.attempt # 0

(* The instruction is there. *)
Built == cli.pc = "before" \/ Sending

(* A record, a command, and a sequence of what blocks included. *)
Shape ==
  /\ cli = [f \in Fields |-> cli[f]]
  /\ cli.cmd \in Commands
  /\ cli.attempt \in Nat
  /\ \E S : log \in Seq(S)

(* Nothing is submitted before the first attempt. *)
Stage ==
  /\ cli.pc \in {"start", "build", "before", "send", "look", "after", "done"}
  /\ cli.pc \in {"start", "build", "before"} => ~Sending
  /\ cli.pc \in {"send", "look", "after"} => Sending
  /\ ~Sending => pool = {} /\ Ours = {}

(* Every attempt carries the instruction built for the command. *)
SameInstruction ==
  /\ \A tx \in pool : tx.ix = cli.ix /\ tx.by # 0
  /\ Built =>
       /\ Decoded(cli.ix) /\ cli.ix.op = cli.cmd.op
       /\ Watches(cli.ix) = Watches(cli.cmd)
       /\ cli.ix.op # "batch" => cli.ix.id = Watches(cli.ix)

(* What was read before still holds, grown. *)
ReadIsOld ==
  (cli.pc = "build" \/ Built) /\ cli.cmd.op \in {"claim", "cancel"} =>
    cli.seen \in Schedule /\ Grows(cli.seen, Watched)

(* An instruction asks for what the schedule read says. *)
Asks(ix, c, s) ==
  /\ c.op = "claim" =>
       /\ ix.signed /\ ix.asset = s.asset
       /\ ix.amount > 0 /\ ix.amount <= Claimable(s, ix.at)
       /\ c.amount = Default => ix.amount = Claimable(s, ix.at)
  /\ c.op = "cancel" =>
       ix.signed /\ ix.asset = s.asset /\ ix.refund = Unvested(s, ix.at)

WorkedOut == Built => Asks(cli.ix, cli.cmd, cli.seen)

(* What the shard read before the first attempt says of the attempts. *)
Compared ==
  Sending =>
    /\ Grows(cli.before, Watched)
    /\ cli.cmd.op # "transfer" /\ Applied # {} => Advanced(cli.before, Watched)

(* As long as nobody else touches the schedule, it is what was read, or what an
   attempt made of it. *)
Traced ==
  Sending =>
    /\ cli.height \in Nat /\ cli.height <= Len(log)
    /\ Undisturbed =>
         IF Applied = {} THEN Watched = cli.before
         ELSE ~Repeatable => Intended(cli.ix, cli.before, Watched)

(* The commands the program does not let repeat. *)
Once ==
  /\ cli.cmd.op # "transfer"
  /\ cli.cmd.op = "claim" => cli.cmd.amount = Default /\ cli.seen.kind # "milestone"

NotTwice ==
  Sending /\ Once =>
    /\ \A k, l \in Applied : k = l
    /\ Applied # {} => Spent(cli.ix, cli.seen, Watched)

ClientInv ==
  /\ Inductive /\ Shape /\ Stage /\ SameInstruction
  /\ ReadIsOld /\ WorkedOut /\ Compared /\ NotTwice /\ Traced

(* The invariant holds when the command starts. *)
LEMMA InitClientInv ==
  ClientInit => ClientInv
  <1> SUFFICES ASSUME ClientInit PROVE ClientInv
    OBVIOUS
  <1>1. Inductive
    BY ExistingInductive
  <1>2. log = << >> /\ pool = {}
    BY DEF ClientInit, LedgerInit
  <1>3. /\ cli = [f \in Fields |-> cli[f]] /\ cli.cmd \in Commands
        /\ cli.attempt = 0 /\ cli.pc = "start"
    BY DEF ClientInit, Fields
  <1>4. log \in Seq({})
    BY <1>2
  <1>5. Ours = {}
    BY <1>2 DEF Ours
  <1>6. QED
    BY <1>1, <1>2, <1>3, <1>4, <1>5
    DEF ClientInv, Shape, Stage, SameInstruction, ReadIsOld, WorkedOut, Compared,
        NotTwice, Traced, Built, Sending

(* What a block that includes a transaction does to the log and the shards. *)
LEMMA IncludeEffect ==
  ASSUME Inductive, NEW tx, Decoded(tx.ix), Include(tx), \E S : log \in Seq(S)
  PROVE  /\ Inductive' /\ \E S : log' \in Seq(S)
         /\ \A id \in Id : Grows(shard[id], shard'[id])
         /\ \E ok \in BOOLEAN :
              /\ IF ok THEN Executes(tx.ix) ELSE shard' = shard
              /\ DOMAIN log' = DOMAIN log \cup {Len(log) + 1}
              /\ Len(log) + 1 \notin DOMAIN log
              /\ Len(log) \in Nat /\ Len(log') = Len(log) + 1
              /\ \A k \in DOMAIN log : log'[k] = log[k]
              /\ log'[Len(log) + 1].tx = tx /\ log'[Len(log) + 1].ok = ok
              /\ log'[Len(log) + 1].before = shard
              /\ ~ok => ~Shielded(tx.ix)
  <1>1. Inductive'
    BY IncludeKeeps
  <1>2. PICK ok \in BOOLEAN :
          /\ IF ok THEN Executes(tx.ix) ELSE shard' = shard
          /\ log' = Append(log, [tx |-> tx, ok |-> ok, before |-> shard])
          /\ ~ok => ~Shielded(tx.ix)
    BY DEF Include, Applies, Refuses, Recorded, vars
  <1> DEFINE e == [tx |-> tx, ok |-> ok, before |-> shard]
  <1>3. PICK S : log \in Seq(S)
    OBVIOUS
  <1>4. log \in Seq(S \cup {e}) /\ e \in S \cup {e}
    BY <1>3
  <1>5. /\ log' \in Seq(S \cup {e}) /\ Len(log') = Len(log) + 1
        /\ \A k \in 1..Len(log) : log'[k] = log[k]
        /\ log'[Len(log) + 1] = e
    <2> HIDE DEF e
    <2>1. log' = Append(log, e)
      BY <1>2 DEF e
    <2>2. QED
      BY <1>4, <2>1, AppendProperties
  <1>6. /\ e.tx = tx /\ e.ok = ok /\ e.before = shard
    OBVIOUS
  <1> HIDE DEF e
  <1>7. /\ Len(log) \in Nat /\ DOMAIN log = 1..Len(log)
        /\ DOMAIN log' = 1..Len(log) + 1
    BY <1>4, <1>5
  <1>8. ASSUME NEW id \in Id PROVE Grows(shard[id], shard'[id])
    <2>1. CASE ok
      BY <1>2, <2>1, ExecutesEffect DEF Effect
    <2>2. CASE ~ok
      <3>1. shard[id] \in Schedule \cup {NoSchedule}
        BY DEF Inductive, TypeOK
      <3>2. QED
        BY <1>2, <2>2, <3>1, GrowsStill
    <2>3. QED
      BY <2>1, <2>2
  <1>9. /\ IF ok THEN Executes(tx.ix) ELSE shard' = shard
        /\ DOMAIN log' = DOMAIN log \cup {Len(log) + 1}
        /\ Len(log) + 1 \notin DOMAIN log
        /\ Len(log) \in Nat /\ Len(log') = Len(log) + 1
        /\ \A k \in DOMAIN log : log'[k] = log[k]
        /\ log'[Len(log) + 1].tx = tx /\ log'[Len(log) + 1].ok = ok
        /\ log'[Len(log) + 1].before = shard
        /\ ~ok => ~Shielded(tx.ix)
    BY <1>2, <1>5, <1>6, <1>7
  <1>10. QED
    BY <1>1, <1>5, <1>8, <1>9

(* A block includes a transaction of somebody else, or an attempt. *)
LEMMA IncludeClientInv ==
  ASSUME ClientInv, NEW tx, Decoded(tx.ix), Include(tx),
         UNCHANGED cli, pool' \subseteq pool,
         tx.by # 0 => Sending /\ tx.ix = cli.ix
  PROVE  ClientInv'
  <1> DEFINE n == Len(log) + 1
             w == Watches(cli.cmd)
  <1>1. /\ Inductive /\ Shape /\ Stage /\ SameInstruction
        /\ ReadIsOld /\ WorkedOut /\ Compared /\ NotTwice /\ Traced
    BY DEF ClientInv
  <1>2. Inductive' /\ Shape'
    BY <1>1, IncludeEffect DEF Shape
  <1>3. PICK ok \in BOOLEAN :
          /\ IF ok THEN Executes(tx.ix) ELSE shard' = shard
          /\ DOMAIN log' = DOMAIN log \cup {n}
          /\ n \notin DOMAIN log
          /\ Len(log) \in Nat /\ n = Len(log) + 1 /\ Len(log') = n
          /\ \A k \in DOMAIN log : log'[k] = log[k]
          /\ log'[n].tx = tx /\ log'[n].ok = ok
    BY <1>1, IncludeEffect DEF Shape
  <1> HIDE DEF n
  <1>4. w \in Id /\ Watched = shard[w] /\ Watched' = shard'[w]
    BY <1>1, CommandWatches DEF Shape, Watched
  <1> HIDE DEF w
  <1>5. Grows(Watched, Watched')
    BY <1>1, <1>4, IncludeEffect DEF Shape
  <1>6. /\ Ours' = IF tx.by # 0 THEN Ours \cup {n} ELSE Ours
        /\ Applied' = IF tx.by # 0 /\ ok THEN Applied \cup {n} ELSE Applied
    BY <1>3 DEF Ours, Applied
  <1>7. Stage'
    BY <1>1, <1>6 DEF Stage, Sending
  <1>8. SameInstruction' /\ WorkedOut'
    BY <1>1 DEF SameInstruction, WorkedOut, Built, Sending
  <1>9. ReadIsOld'
    BY <1>1, <1>5, GrowsTwice DEF ReadIsOld, Built, Sending
  <1>10. tx.by # 0 /\ ok => /\ Executes(cli.ix) /\ Decoded(cli.ix) /\ Built /\ Sending
                            /\ cli.ix.op = cli.cmd.op /\ w = Watches(cli.ix)
                            /\ cli.ix.op # "batch" => cli.ix.id = w
    BY <1>1, <1>3 DEF SameInstruction, Built, w
  <1>11. Compared'
    <2>1. Sending => Grows(cli.before, Watched')
      BY <1>1, <1>5, GrowsTwice DEF Compared
    <2>2. ASSUME Sending, cli.cmd.op # "transfer", Applied' # {}
          PROVE  Advanced(cli.before, Watched')
      <3>1. CASE Applied # {}
        BY <1>1, <1>5, <2>2, <3>1, AdvancedLater DEF Compared
      <3>2. CASE Applied = {}
        <4>1. tx.by # 0 /\ ok
          BY <1>6, <2>2, <3>2
        <4>2. Advanced(Watched, Watched')
          BY <1>1, <1>4, <1>10, <2>2, <4>1, ExecutesEffect DEF Effect
        <4>3. QED
          BY <1>1, <2>2, <4>2, AdvancedSince DEF Compared
      <3>3. QED
        BY <3>1, <3>2
    <2>3. QED
      BY <2>1, <2>2 DEF Compared, Sending
  <1>12. NotTwice'
    <2> SUFFICES ASSUME Sending, Once
                 PROVE  /\ \A k, l \in Applied' : k = l
                        /\ Applied' # {} => Spent(cli.ix, cli.seen, Watched')
      BY DEF NotTwice, Once, Sending
    <2>1. Built /\ Decoded(cli.ix) /\ cli.ix.op = cli.cmd.op /\ Watches(cli.ix) = w
      BY <1>1 DEF SameInstruction, Built, w
    <2>2. cli.ix.op = "claim" => cli.seen \in Schedule /\ Grows(cli.seen, Watched)
      BY <1>1, <2>1 DEF ReadIsOld
    <2>3. InFull(cli.ix, cli.seen)
      BY <1>1, <2>1, <2>2 DEF InFull, WorkedOut, Asks, Once
    <2>4. cli.ix.op # "transfer"
      BY <2>1 DEF Once
    <2>5. cli.ix.op = "claim" => cli.ix.id = w /\ Grows(cli.seen, shard[cli.ix.id])
      BY <1>1, <1>4, <2>1, <2>2 DEF SameInstruction, w
    <2>6. CASE Applied # {}
      <3>1. Spent(cli.ix, cli.seen, Watched) /\ \A k, l \in Applied : k = l
        BY <1>1, <2>6 DEF NotTwice
      <3>2. ~Executes(cli.ix)
        BY <1>1, <1>4, <2>1, <2>3, <2>4, <2>5, <3>1, SpentRefuses
      <3>3. Applied' = Applied
        BY <1>6, <1>10, <3>2
      <3>4. cli.ix.op = "claim" => Vested(cli.seen, cli.ix.at) \in Nat
        <4> SUFFICES ASSUME cli.ix.op = "claim" PROVE Vested(cli.seen, cli.ix.at) \in Nat
          OBVIOUS
        <4>1. cli.ix.at \in Nat
          BY <2>1 DEF Decoded
        <4>2. cli.seen # NoSchedule /\ cli.seen.kind # "milestone"
          BY <2>2, <2>3, OfferAssumption DEF InFull
        <4>3. Exists(w)
          BY <1>4, <3>1, OfferAssumption DEF Spent, Exists
        <4>4. WellFormed(Watched)
          BY <1>1, <1>4, <4>3, InductiveShard
        <4>5. QED
          BY <2>2, <4>1, <4>2, <4>4, VestsNoMore
      <3>5. Spent(cli.ix, cli.seen, Watched')
        BY <1>5, <3>1, <3>4, SpentStays
      <3>6. QED
        BY <3>1, <3>3, <3>5
    <2>7. CASE Applied = {}
      <3>1. CASE tx.by # 0 /\ ok
        <4>1. Applied' = {n}
          BY <1>6, <2>7, <3>1
        <4>2. Executes(cli.ix)
          BY <1>10, <3>1
        <4>3. Spent(cli.ix, cli.seen, Watched')
          BY <1>1, <1>4, <2>1, <2>3, <2>4, <2>5, <4>2, ExecutesSpends
        <4>4. QED
          BY <4>1, <4>3
      <3>2. CASE ~(tx.by # 0 /\ ok)
        BY <1>6, <2>7, <3>2
      <3>3. QED
        BY <3>1, <3>2
    <2>8. QED
      BY <2>6, <2>7
  <1>13. Traced'
    <2> SUFFICES ASSUME Sending
                 PROVE  /\ cli.height \in Nat /\ cli.height <= Len(log')
                        /\ Undisturbed' =>
                             IF Applied' = {} THEN Watched' = cli.before
                             ELSE ~Repeatable => Intended(cli.ix, cli.before, Watched')
      BY DEF Traced, Sending, Repeatable
    <2>1. cli.height \in Nat /\ cli.height <= Len(log')
      BY <1>1, <1>3 DEF Traced
    <2> SUFFICES ASSUME Undisturbed'
                 PROVE  IF Applied' = {} THEN Watched' = cli.before
                        ELSE ~Repeatable => Intended(cli.ix, cli.before, Watched')
      BY <2>1
    <2>2. /\ Undisturbed
          /\ ok /\ tx.by = 0 => ~Names(tx.ix, w)
      <3>1. n > cli.height
        BY <1>1, <1>3 DEF Traced
      <3>2. QED
        BY <1>3, <3>1 DEF Undisturbed, w
    <2>3. IF Applied = {} THEN Watched = cli.before
          ELSE ~Repeatable => Intended(cli.ix, cli.before, Watched)
      BY <1>1, <2>2 DEF Traced
    <2>4. CASE ~(tx.by # 0 /\ ok)
      <3>1. Watched' = Watched
        <4>1. CASE ok
          BY <1>1, <1>3, <1>4, <2>2, <2>4, <4>1, OthersUntouched
        <4>2. CASE ~ok
          BY <1>3, <1>4, <4>2
        <4>3. QED
          BY <4>1, <4>2
      <3>2. QED
        BY <1>6, <2>3, <2>4, <3>1
    <2>5. CASE tx.by # 0 /\ ok
      <3>1. Intended(cli.ix, Watched, Watched')
        BY <1>1, <1>4, <1>10, <2>5, ExecutesEffect DEF Effect
      <3>2. n \in Applied' /\ Applied \subseteq DOMAIN log
        BY <1>6, <2>5 DEF Applied, Ours
      <3>3. CASE Applied = {}
        BY <2>3, <3>1, <3>2, <3>3
      <3>4. CASE Applied # {}
        <4> SUFFICES ASSUME ~Repeatable PROVE Intended(cli.ix, cli.before, Watched')
          BY <3>2
        <4>1. ~Once
          <5>1. PICK k \in Applied : TRUE
            BY <3>4
          <5>2. k \in Applied' /\ k # n
            BY <1>3, <1>6, <2>5, <3>2, <5>1
          <5>3. QED
            BY <1>12, <3>2, <5>2 DEF NotTwice, Once, Sending
        <4>2. cli.ix.op = "transfer"
          BY <1>10, <2>5, <4>1 DEF Once, Repeatable
        <4>3. Intended(cli.ix, cli.before, Watched)
          BY <2>3, <3>4
        <4>4. QED
          BY <3>1, <4>2, <4>3 DEF Intended
      <3>5. QED
        BY <3>3, <3>4
    <2>6. QED
      BY <2>4, <2>5
  <1>14. QED
    BY <1>2, <1>7, <1>8, <1>9, <1>11, <1>12, <1>13 DEF ClientInv

(* Time passes, or the payer sends something else. *)
LEMMA QuietClientInv ==
  ASSUME ClientInv, Inductive', UNCHANGED <<shard, log, pool, cli>>
  PROVE  ClientInv'
  <1>1. Watched' = Watched /\ Ours' = Ours /\ Applied' = Applied
    BY DEF Watched, Ours, Applied
  <1>2. /\ Shape' /\ Stage' /\ SameInstruction' /\ ReadIsOld' /\ WorkedOut'
        /\ Compared' /\ NotTwice' /\ Traced'
    BY <1>1 DEF ClientInv, Shape, Stage, SameInstruction, ReadIsOld, WorkedOut, Compared,
                NotTwice, Traced, Undisturbed, Repeatable, Built, Sending, Once
  <1>3. QED
    BY <1>2 DEF ClientInv

(* A step of the command leaves the ledger alone. *)
LEMMA StepFrame ==
  ASSUME ClientInv, UNCHANGED <<now, shard, bal, log>>, cli'.cmd = cli.cmd
  PROVE  /\ Inductive' /\ Watched' = Watched /\ Ours' = Ours /\ Applied' = Applied
         /\ \E S : log' \in Seq(S)
  <1>1. UNCHANGED vars /\ Inductive
    BY DEF vars, ClientInv
  <1>2. Inductive'
    BY <1>1, NextKeeps
  <1>3. QED
    BY <1>2 DEF Watched, Ours, Applied, ClientInv, Shape

(* Sending, waiting and reporting: what was read, built and compared stays. *)
LEMMA SendingClientInv ==
  ASSUME ClientInv, UNCHANGED <<now, shard, bal, log>>,
         cli' = [f \in Fields |-> cli'[f]],
         cli'.cmd = cli.cmd, cli'.seen = cli.seen, cli'.ix = cli.ix,
         cli'.before = cli.before, cli'.height = cli.height,
         cli'.attempt \in Nat, cli'.attempt # 0 <=> Sending,
         cli'.pc \in {"send", "look", "after", "done"},
         cli'.pc # "done" => Sending,
         pool' # pool => Sending,
         \A tx \in pool' : tx \in pool \/ (tx.ix = cli.ix /\ tx.by # 0)
  PROVE  ClientInv'
  <1>1. /\ Inductive' /\ Watched' = Watched /\ Ours' = Ours /\ Applied' = Applied
        /\ \E S : log' \in Seq(S)
    BY StepFrame
  <1>2. Sending' = Sending /\ (Built' => Built) /\ cli'.pc # "build"
    BY DEF Sending, Built
  <1>3. Shape'
    BY <1>1 DEF ClientInv, Shape
  <1>4. Stage'
    BY <1>1, <1>2 DEF ClientInv, Stage
  <1>5. SameInstruction' /\ ReadIsOld' /\ WorkedOut'
    BY <1>1, <1>2 DEF ClientInv, SameInstruction, ReadIsOld, WorkedOut
  <1>6. Compared' /\ NotTwice'
    BY <1>1, <1>2 DEF ClientInv, Compared, NotTwice, Once
  <1>7. Traced'
    BY <1>1, <1>2 DEF ClientInv, Traced, Undisturbed, Repeatable
  <1>8. QED
    BY <1>1, <1>3, <1>4, <1>5, <1>6, <1>7 DEF ClientInv

(* Building the instruction. *)
LEMMA BuiltClientInv ==
  ASSUME ClientInv, UNCHANGED <<now, shard, bal, log, pool>>,
         cli.pc \in {"start", "build"},
         NEW ix, cli' = [cli EXCEPT !.pc = "before", !.ix = ix],
         Decoded(ix), ix.op = cli.cmd.op, Watches(ix) = Watches(cli.cmd),
         ix.op # "batch" => ix.id = Watches(ix),
         ix.op \in {"claim", "cancel"} => cli.pc = "build",
         Asks(ix, cli.cmd, cli.seen)
  PROVE  ClientInv'
  <1>1. /\ cli = [f \in Fields |-> cli[f]] /\ cli.attempt = 0
        /\ pool = {} /\ Ours = {}
    BY DEF ClientInv, Shape, Stage, Sending
  <1>2. /\ cli' = [f \in Fields |-> cli'[f]] /\ cli'.cmd = cli.cmd /\ cli'.attempt = 0
        /\ cli'.seen = cli.seen /\ cli'.ix = ix /\ cli'.pc = "before"
    BY <1>1 DEF Fields
  <1>3. /\ Inductive' /\ Watched' = Watched /\ Ours' = Ours /\ Applied' = Applied
        /\ \E S : log' \in Seq(S)
    BY <1>2, StepFrame
  <1>4. ~Sending' /\ Built'
    BY <1>2 DEF Sending, Built
  <1>5. Shape' /\ Stage'
    BY <1>1, <1>2, <1>3, <1>4 DEF ClientInv, Shape, Stage
  <1>6. SameInstruction' /\ WorkedOut'
    BY <1>1, <1>2 DEF SameInstruction, WorkedOut
  <1>7. ReadIsOld'
    BY <1>2, <1>3 DEF ClientInv, ReadIsOld
  <1>8. Compared' /\ NotTwice' /\ Traced'
    BY <1>4 DEF Compared, NotTwice, Traced
  <1>9. QED
    BY <1>3, <1>5, <1>6, <1>7, <1>8 DEF ClientInv

(* A command that fails sends nothing. *)
LEMMA FailsClientInv ==
  ASSUME ClientInv, cli.pc \in {"start", "build"}, Fails, UNCHANGED pool
  PROVE  ClientInv'
  <1>1. /\ cli = [f \in Fields |-> cli[f]] /\ cli.attempt \in Nat
        /\ UNCHANGED <<now, shard, bal, log>>
        /\ cli' = [cli EXCEPT !.pc = "done", !.verdict = "failed"]
    BY DEF ClientInv, Shape, Fails, Goes
  <1>2. /\ cli' = [f \in Fields |-> cli'[f]] /\ cli'.cmd = cli.cmd
        /\ cli'.attempt = cli.attempt /\ cli'.seen = cli.seen /\ cli'.ix = cli.ix
        /\ cli'.before = cli.before /\ cli'.height = cli.height /\ cli'.pc = "done"
    BY <1>1 DEF Fields
  <1>3. QED
    BY <1>1, <1>2, SendingClientInv DEF Sending

(* A read takes what the chain has at that moment. *)
LEMMA ReadScheduleClientInv ==
  ASSUME ClientInv, ReadSchedule
  PROVE  ClientInv'
  <1>1. CASE Watched = NoSchedule
    BY <1>1, FailsClientInv DEF ReadSchedule
  <1>2. CASE Watched # NoSchedule
    <2>1. /\ cli = [f \in Fields |-> cli[f]] /\ cli.attempt = 0 /\ cli.cmd \in Commands
          /\ pool = {} /\ Ours = {} /\ cli.pc = "start" /\ Inductive
          /\ UNCHANGED <<now, shard, bal, log, pool>>
          /\ cli' = [cli EXCEPT !.pc = "build", !.seen = Watched]
      BY <1>2 DEF ReadSchedule, Goes, ClientInv, Shape, Stage, Sending
    <2>2. /\ cli' = [f \in Fields |-> cli'[f]] /\ cli'.cmd = cli.cmd /\ cli'.attempt = 0
          /\ cli'.seen = Watched /\ cli'.pc = "build"
      BY <2>1 DEF Fields
    <2>3. /\ Inductive' /\ Watched' = Watched /\ Ours' = Ours /\ Applied' = Applied
          /\ \E S : log' \in Seq(S)
      BY <2>1, <2>2, StepFrame
    <2>4. Watched \in Schedule
      <3>1. Watches(cli.cmd) \in Id
        BY <2>1, CommandWatches
      <3>2. QED
        BY <1>2, <2>1, <3>1 DEF Watched, Inductive, TypeOK
    <2>5. Grows(Watched, Watched)
      BY <2>4, GrowsStill
    <2>6. ~Sending' /\ ~Built'
      BY <2>2 DEF Sending, Built
    <2>7. Shape' /\ Stage'
      <3>1. cli'.cmd \in Commands /\ cli'.attempt \in Nat
        <4>1. cli.cmd \in Commands
          BY <2>1
        <4>2. cli'.cmd = cli.cmd /\ cli'.attempt = 0
          BY <2>2
        <4>3. QED
          BY <4>1, <4>2
      <3>2. Shape'
        BY <2>2, <2>3, <3>1 DEF Shape
      <3>3. Stage'
        BY <2>1, <2>2, <2>3, <2>6 DEF Stage
      <3>4. QED
        BY <3>2, <3>3
    <2>8. SameInstruction' /\ WorkedOut' /\ Compared' /\ NotTwice' /\ Traced'
      BY <2>1, <2>6 DEF SameInstruction, WorkedOut, Compared, NotTwice, Traced
    <2>9. ReadIsOld'
      BY <2>2, <2>3, <2>4, <2>5 DEF ReadIsOld
    <2>10. QED
      BY <2>3, <2>7, <2>8, <2>9 DEF ClientInv
  <1>3. QED
    BY <1>1, <1>2

(* The other instructions are built from the arguments alone. *)
LEMMA BuildOtherClientInv ==
  ASSUME ClientInv, BuildOther
  PROVE  ClientInv'
  <1>1. /\ cli.pc = "start" /\ cli.cmd.op \notin {"claim", "cancel"}
        /\ UNCHANGED <<now, shard, bal, log, pool>>
        /\ cli' = [cli EXCEPT !.pc = "before", !.ix = cli.cmd] /\ cli.cmd \in Commands
    BY DEF BuildOther, Goes, ClientInv, Shape
  <1>2. Decoded(cli.cmd)
    BY <1>1, CommandWatches
  <1>3. cli.cmd.op # "batch" => cli.cmd.id = Watches(cli.cmd)
    BY DEF Watches
  <1>4. Asks(cli.cmd, cli.cmd, cli.seen)
    BY <1>1 DEF Asks
  <1>5. QED
    BY <1>1, <1>2, <1>3, <1>4, BuiltClientInv

(* A claim is worked out from the schedule read. *)
LEMMA BuildClaimClientInv ==
  ASSUME ClientInv, BuildClaim
  PROVE  ClientInv'
  <1> DEFINE at     == now + cli.cmd.at
             owed   == Claimable(cli.seen, at)
             amount == OrDefault(cli.cmd.amount, owed)
             ix     == [cli.cmd EXCEPT !.at = at, !.amount = amount,
                                       !.asset = cli.seen.asset]
  <1>1. cli.pc = "build" /\ cli.cmd.op = "claim" /\ cli.cmd \in Commands /\ UNCHANGED pool
    BY DEF BuildClaim, ClientInv, Shape
  <1>2. CASE RefusesHere(amount, owed)
    <2>1. Fails
      BY <1>2 DEF BuildClaim
    <2>2. QED
      BY <1>1, <2>1, FailsClientInv
  <1>3. CASE ~RefusesHere(amount, owed)
    <2>1. Goes([cli EXCEPT !.pc = "before", !.ix = ix])
      BY <1>3 DEF BuildClaim
    <2>2. /\ UNCHANGED <<now, shard, bal, log>>
          /\ cli' = [cli EXCEPT !.pc = "before", !.ix = ix]
      <3> HIDE DEF ix
      <3>1. QED
        BY <2>1 DEF Goes
    <2>3. cli.cmd \in Claims /\ Genesis + cli.cmd.at >= 0
      BY <1>1, CommandKind
    <2>4. at \in Nat
      <3>1. cli.cmd.at \in Int
        BY <2>3 DEF Claims
      <3>2. now \in Nat /\ now >= Genesis /\ Genesis \in Nat
        BY GenesisAssumption, BoundsAssumption DEF ClientInv, Inductive, TypeOK, Time
      <3>3. QED
        BY <2>3, <3>1, <3>2
    <2>5. cli.seen \in Schedule /\ Grows(cli.seen, Watched)
      BY <1>1 DEF ClientInv, ReadIsOld
    <2>6. owed \in Nat
      <3>1. Watched \in Schedule /\ Watched # NoSchedule /\ Watches(cli.cmd) \in Id
        BY <1>1, <2>5, CommandWatches, OfferAssumption DEF Grows
      <3>2. Sound(Watched)
        BY <3>1 DEF ClientInv, Inductive, Exists, Watched
      <3>3. SoundTerms(cli.seen)
        BY <2>5, <3>1, <3>2, OfferAssumption DEF Sound, SoundTerms, Grows
      <3>4. WellFormed(cli.seen)
        BY <2>5, <3>3, SoundWellFormed
      <3> HIDE DEF at
      <3>5. Vested(cli.seen, at) \in Nat
        BY <2>4, <3>4, VestedBounds DEF WellFormed
      <3>6. cli.seen.claimed \in Nat
        BY <2>5, BoundsAssumption DEF Schedule, Amount
      <3>7. QED
        BY <3>5, <3>6 DEF Claimable
    <2> HIDE DEF at, owed
    <2>15. amount # 0 /\ ~(amount > owed)
      BY <1>3 DEF RefusesHere
    <2>7. amount \in Nat
      BY <2>3, <2>6 DEF OrDefault, Claims
    <2>8. cli.cmd.amount = Default => amount = owed
      BY DEF OrDefault
    <2> HIDE DEF amount
    <2>9. /\ ix.op = "claim" /\ ix.signed = TRUE /\ ix.id = cli.cmd.id /\ ix.id \in Id
          /\ ix.seed \in Id /\ ix.asset = cli.seen.asset /\ ix.signer \in Account
          /\ ix.destination \in Party /\ ix.private \in BOOLEAN
          /\ ix.at = at /\ ix.amount = amount
      BY <2>3 DEF Claims
    <2>14. cli.seen.asset \in Asset
      BY <2>5 DEF Schedule
    <2> HIDE DEF ix
    <2>10. Decoded(ix)
      BY <2>4, <2>7, <2>9, <2>14 DEF Decoded
    <2>11. Watches(ix) = Watches(cli.cmd) /\ ix.id = Watches(ix)
      BY <1>1, <2>9 DEF Watches
    <2>12. Asks(ix, cli.cmd, cli.seen)
      <3>1. owed = Claimable(cli.seen, ix.at)
        BY <2>9 DEF owed
      <3>2. QED
        BY <1>1, <2>6, <2>7, <2>8, <2>9, <2>15, <3>1 DEF Asks
    <2>13. QED
      BY <1>1, <2>2, <2>9, <2>10, <2>11, <2>12, BuiltClientInv
  <1>4. QED
    BY <1>2, <1>3

(* A refund is worked out from the schedule read. *)
LEMMA BuildCancelClientInv ==
  ASSUME ClientInv, BuildCancel
  PROVE  ClientInv'
  <1> DEFINE at     == now + cli.cmd.at
             exact  == Unvested(cli.seen, at)
             refund == OrDefault(cli.cmd.refund, exact)
             ix     == [cli.cmd EXCEPT !.at = at, !.refund = refund,
                                       !.asset = cli.seen.asset]
  <1>1. cli.pc = "build" /\ cli.cmd.op = "cancel" /\ cli.cmd \in Commands /\ UNCHANGED pool
    BY DEF BuildCancel, ClientInv, Shape
  <1>2. CASE refund # exact
    <2>1. Fails
      BY <1>2 DEF BuildCancel
    <2>2. QED
      BY <1>1, <2>1, FailsClientInv
  <1>3. CASE refund = exact
    <2>1. Goes([cli EXCEPT !.pc = "before", !.ix = ix])
      BY <1>3 DEF BuildCancel
    <2>2. /\ UNCHANGED <<now, shard, bal, log>>
          /\ cli' = [cli EXCEPT !.pc = "before", !.ix = ix]
      <3> HIDE DEF ix
      <3>1. QED
        BY <2>1 DEF Goes
    <2>3. cli.cmd \in Cancels /\ Genesis + cli.cmd.at >= 0
      BY <1>1, CommandKind
    <2>4. at \in Nat
      <3>1. cli.cmd.at \in Int
        BY <2>3 DEF Cancels
      <3>2. now \in Nat /\ now >= Genesis /\ Genesis \in Nat
        BY GenesisAssumption, BoundsAssumption DEF ClientInv, Inductive, TypeOK, Time
      <3>3. QED
        BY <2>3, <3>1, <3>2
    <2>9. cli.seen.asset \in Asset
      BY <1>1 DEF ClientInv, ReadIsOld, Schedule
    <2> HIDE DEF at, refund, exact
    <2>5. /\ ix.op = "cancel" /\ ix.signed = TRUE /\ ix.id = cli.cmd.id /\ ix.id \in Id
          /\ ix.seed \in Id /\ ix.asset = cli.seen.asset /\ ix.signer \in Account
          /\ ix.at = at /\ ix.refund = refund
      BY <2>3 DEF Cancels
    <2> HIDE DEF ix
    <2>6. Decoded(ix)
      BY <2>4, <2>5, <2>9 DEF Decoded
    <2>7. Watches(ix) = Watches(cli.cmd) /\ ix.id = Watches(ix)
      BY <1>1, <2>5 DEF Watches
    <2>10. Asks(ix, cli.cmd, cli.seen)
      <3>1. ix.refund = Unvested(cli.seen, ix.at)
        BY <1>3, <2>5 DEF exact
      <3>2. QED
        BY <1>1, <2>5, <3>1 DEF Asks
    <2>8. QED
      BY <1>1, <2>2, <2>5, <2>6, <2>7, <2>10, BuiltClientInv
  <1>4. QED
    BY <1>2, <1>3

(* The shard compared with is read before anything is sent. *)
LEMMA ReadBeforeClientInv ==
  ASSUME ClientInv, ReadBefore
  PROVE  ClientInv'
  <1>1. /\ cli = [f \in Fields |-> cli[f]] /\ cli.attempt = 0 /\ cli.cmd \in Commands
        /\ pool = {} /\ Ours = {} /\ cli.pc = "before" /\ Built /\ Inductive
        /\ SameInstruction /\ ReadIsOld /\ WorkedOut
        /\ UNCHANGED <<now, shard, bal, log, pool>>
        /\ cli' = [cli EXCEPT !.pc = "send", !.before = Watched, !.height = Len(log),
                              !.attempt = 1]
    BY DEF ReadBefore, Goes, ClientInv, Shape, Stage, Sending, Built
  <1>2. /\ cli' = [f \in Fields |-> cli'[f]] /\ cli'.cmd = cli.cmd /\ cli'.attempt = 1
        /\ cli'.seen = cli.seen /\ cli'.ix = cli.ix /\ cli'.before = Watched
        /\ cli'.height = Len(log) /\ cli'.pc = "send"
    BY <1>1 DEF Fields
  <1>3. /\ Inductive' /\ Watched' = Watched /\ Ours' = Ours /\ Applied' = Applied
        /\ \E S : log' \in Seq(S)
    BY <1>1, <1>2, StepFrame
  <1>4. Sending' /\ Built'
    BY <1>2 DEF Sending, Built
  <1>5. Applied' = {}
    BY <1>1, <1>3 DEF Applied
  <1>6. Shape'
    <2>1. cli'.cmd \in Commands /\ cli'.attempt \in Nat
      <3>1. cli.cmd \in Commands
        BY <1>1
      <3>2. cli'.cmd = cli.cmd /\ cli'.attempt = 1
        BY <1>2
      <3>3. QED
        BY <3>1, <3>2
    <2>2. QED
      BY <1>2, <1>3, <2>1 DEF Shape
  <1>7. Stage'
    BY <1>2, <1>4 DEF Stage
  <1>8. SameInstruction' /\ ReadIsOld' /\ WorkedOut'
    BY <1>1, <1>2, <1>3 DEF SameInstruction, ReadIsOld, WorkedOut
  <1>9. Grows(Watched, Watched)
    <2>1. Watches(cli.cmd) \in Id
      BY <1>1, CommandWatches
    <2>2. Watched \in Schedule \cup {NoSchedule}
      BY <1>1, <2>1 DEF Watched, Inductive, TypeOK
    <2>3. QED
      BY <2>2, GrowsStill
  <1>10. Compared' /\ NotTwice'
    BY <1>2, <1>3, <1>5, <1>9 DEF Compared, NotTwice
  <1>11. Traced'
    <2>1. Len(log) \in Nat /\ log' = log
      BY <1>1 DEF ClientInv, Shape
    <2>2. QED
      BY <1>2, <1>3, <1>5, <2>1 DEF Traced
  <1>12. QED
    BY <1>3, <1>6, <1>7, <1>8, <1>10, <1>11 DEF ClientInv

(* The transaction of an attempt. *)
LEMMA OwnTransaction ==
  ASSUME ClientInv, cli.pc = "send"
  PROVE  /\ Tx(cli.attempt).ix = cli.ix /\ Tx(cli.attempt).by # 0
         /\ Sending /\ cli.attempt \in Nat \ {0} /\ cli = [f \in Fields |-> cli[f]]
  BY DEF Tx, Again, ClientInv, Stage, Sending, Shape

(* An attempt repeats the instruction built. *)
LEMMA SendClientInv ==
  ASSUME ClientInv, Send
  PROVE  ClientInv'
  <1>1. /\ cli.pc = "send" /\ pool' = pool \cup {Tx(cli.attempt)}
        /\ UNCHANGED <<now, shard, bal, log>>
        /\ cli' = [cli EXCEPT !.pc = "look", !.look = 1,
                              !.sent = Append(cli.sent, cli.attempt), !.before = cli.before]
    BY DEF Send, Goes, BeforeOf
  <1>2. /\ Tx(cli.attempt).ix = cli.ix /\ Tx(cli.attempt).by # 0
        /\ Sending /\ cli.attempt \in Nat \ {0} /\ cli = [f \in Fields |-> cli[f]]
    BY <1>1, OwnTransaction
  <1>3. /\ cli' = [f \in Fields |-> cli'[f]] /\ cli'.cmd = cli.cmd
        /\ cli'.attempt = cli.attempt /\ cli'.seen = cli.seen /\ cli'.ix = cli.ix
        /\ cli'.before = cli.before /\ cli'.height = cli.height /\ cli'.pc = "look"
    BY <1>1, <1>2 DEF Fields
  <1>4. \A tx \in pool' : tx \in pool \/ (tx.ix = cli.ix /\ tx.by # 0)
    BY <1>1, <1>2
  <1>5. QED
    BY <1>1, <1>2, <1>3, <1>4, SendingClientInv DEF Sending

(* A submission that fails may have reached the network. *)
LEMMA SendFailsClientInv ==
  ASSUME ClientInv, SendFails
  PROVE  ClientInv'
  <1>1. /\ cli.pc = "send" /\ pool' \in {pool, pool \cup {Tx(cli.attempt)}}
        /\ UNCHANGED <<now, shard, bal, log>>
        /\ \/ cli' = [cli EXCEPT !.pc = "done", !.verdict = "rejected"]
           \/ cli' = [cli EXCEPT !.pc = "look", !.look = 1]
    BY DEF SendFails, Goes
  <1>2. /\ Tx(cli.attempt).ix = cli.ix /\ Tx(cli.attempt).by # 0
        /\ Sending /\ cli.attempt \in Nat \ {0} /\ cli = [f \in Fields |-> cli[f]]
    BY <1>1, OwnTransaction
  <1>3. /\ cli' = [f \in Fields |-> cli'[f]] /\ cli'.cmd = cli.cmd
        /\ cli'.attempt = cli.attempt /\ cli'.seen = cli.seen /\ cli'.ix = cli.ix
        /\ cli'.before = cli.before /\ cli'.height = cli.height
        /\ cli'.pc \in {"look", "done"}
    BY <1>1, <1>2 DEF Fields
  <1>4. \A tx \in pool' : tx \in pool \/ (tx.ix = cli.ix /\ tx.by # 0)
    BY <1>1, <1>2
  <1>5. QED
    BY <1>1, <1>2, <1>3, <1>4, SendingClientInv DEF Sending

(* Waiting for the attempts. *)
LEMMA WaitClientInv ==
  ASSUME ClientInv, Found \/ Missed
  PROVE  ClientInv'
  <1>1. /\ cli.pc = "look" /\ UNCHANGED <<now, shard, bal, log, pool>>
        /\ \/ cli' = [cli EXCEPT !.pc = "after", !.found = cli.sent[cli.look]]
           \/ cli' = [cli EXCEPT !.look = cli.look + 1]
           \/ cli' = [cli EXCEPT !.pc = "send", !.attempt = cli.attempt + 1]
           \/ cli' = [cli EXCEPT !.pc = "after"]
    BY DEF Found, Missed, Goes
  <1>2. Sending /\ cli.attempt \in Nat \ {0} /\ cli = [f \in Fields |-> cli[f]]
    BY <1>1 DEF ClientInv, Stage, Sending, Shape
  <1>3. /\ cli' = [f \in Fields |-> cli'[f]] /\ cli'.cmd = cli.cmd
        /\ cli'.attempt \in {cli.attempt, cli.attempt + 1}
        /\ cli'.seen = cli.seen /\ cli'.ix = cli.ix
        /\ cli'.before = cli.before /\ cli'.height = cli.height
        /\ cli'.pc \in {"send", "look", "after"}
    BY <1>1, <1>2 DEF Fields
  <1>4. cli'.attempt \in Nat \ {0}
    BY <1>2, <1>3
  <1>5. QED
    BY <1>1, <1>2, <1>3, <1>4, SendingClientInv

(* A report changes nothing but the verdict. *)
LEMMA ReportClientInv ==
  ASSUME ClientInv, ReportFound
  PROVE  ClientInv'
  <1>1. /\ cli.pc = "after" /\ UNCHANGED <<now, shard, bal, log, pool>>
        /\ cli' = [cli EXCEPT !.pc = "done",
                              !.verdict = Verdict(cli.found, cli.before, Watched)]
    BY DEF ReportFound, Goes
  <1>2. Sending /\ cli.attempt \in Nat \ {0} /\ cli = [f \in Fields |-> cli[f]]
    BY <1>1 DEF ClientInv, Stage, Sending, Shape
  <1>3. /\ cli' = [f \in Fields |-> cli'[f]] /\ cli'.cmd = cli.cmd
        /\ cli'.attempt = cli.attempt /\ cli'.seen = cli.seen /\ cli'.ix = cli.ix
        /\ cli'.before = cli.before /\ cli'.height = cli.height /\ cli'.pc = "done"
    BY <1>1, <1>2 DEF Fields
  <1>4. QED
    BY <1>1, <1>2, <1>3, SendingClientInv DEF Sending

----------------------------------------------------------------------------
(* The theorems. *)

(* Every step of the command, the network and the others keeps the invariant. *)
LEMMA NextClientInv ==
  ClientInv /\ [ClientNext]_clientVars => ClientInv'
  <1> SUFFICES ASSUME ClientInv, [ClientNext]_clientVars PROVE ClientInv'
    OBVIOUS
  <1>1. CASE IncludeOurs
    <2>1. PICK tx \in pool : /\ Include(tx) /\ pool' = pool \ {tx} /\ UNCHANGED cli
      BY <1>1 DEF IncludeOurs
    <2>2. Sending /\ tx.ix = cli.ix /\ Decoded(tx.ix)
      BY DEF ClientInv, Stage, SameInstruction, Built
    <2>3. QED
      BY <2>1, <2>2, IncludeClientInv
  <1>2. CASE OthersMove
    <2>1. CASE LedgerTick
      <3>1. Tick /\ UNCHANGED <<log, pool, cli>>
        BY <1>2, <2>1 DEF OthersMove, LedgerTick
      <3>2. Inductive' /\ UNCHANGED shard
        BY <3>1, TickKeeps DEF ClientInv, Tick
      <3>3. QED
        BY <3>1, <3>2, QuietClientInv
    <2>2. ASSUME NEW tx \in OthersTx, Include(tx) PROVE ClientInv'
      <3>1. Decoded(tx.ix) /\ tx.by = 0
        BY OfferedDecode DEF OthersTx
      <3>2. UNCHANGED cli /\ pool' \subseteq pool
        BY <1>2 DEF OthersMove
      <3>3. QED
        BY <2>2, <3>1, <3>2, IncludeClientInv
    <2>3. QED
      BY <1>2, <2>1, <2>2 DEF OthersMove
  <1>3. CASE PayerElsewhere
    <2>1. UNCHANGED <<now, shard, bal, log, pool, cli>>
      BY <1>3 DEF PayerElsewhere
    <2>2. Inductive'
      BY <2>1, NextKeeps DEF vars, ClientInv
    <2>3. QED
      BY <2>1, <2>2, QuietClientInv
  <1>4. CASE Step
    BY <1>4, ReadScheduleClientInv, BuildClaimClientInv, BuildCancelClientInv,
       BuildOtherClientInv, ReadBeforeClientInv, SendClientInv, SendFailsClientInv,
       WaitClientInv, ReportClientInv
    DEF Step
  <1>5. CASE UNCHANGED clientVars
    <2>1. UNCHANGED <<now, shard, bal, log, pool, cli>>
      BY <1>5 DEF clientVars
    <2>2. Inductive'
      BY <2>1, NextKeeps DEF vars, ClientInv
    <2>3. QED
      BY <2>1, <2>2, QuietClientInv
  <1>6. QED
    BY <1>1, <1>2, <1>3, <1>4, <1>5 DEF ClientNext

(* The invariant of a command holds whatever the network, the others and the
   ledger do between its calls. *)
THEOREM ClientInductive == ClientSpec => []ClientInv
  BY InitClientInv, NextClientInv, PTL DEF ClientSpec

(* Of the attempts of a command at most one applies, for every number of attempts
   and however the network treats them. *)
THEOREM SentAgainAppliesOnce == ClientSpec => []AppliesOnce
  <1>1. ClientInv => AppliesOnce
    <2> SUFFICES ASSUME ClientInv, ~Repeatable, cli.cmd.op # "transfer"
                 PROVE  Cardinality(Applied) <= 1
      BY DEF AppliesOnce
    <2>1. \A k, l \in Applied : k = l
      <3>1. CASE Sending
        BY <3>1 DEF ClientInv, NotTwice, Once, Repeatable
      <3>2. CASE ~Sending
        BY <3>2 DEF ClientInv, Stage, Applied
      <3>3. QED
        BY <3>1, <3>2
    <2>2. CASE Applied = {}
      <3>1. Cardinality(Applied) = 0
        BY <2>2, FS_EmptySet
      <3>2. QED
        BY <3>1
    <2>3. CASE Applied # {}
      <3>1. PICK k : Applied = {k}
        BY <2>1, <2>3
      <3>2. Cardinality(Applied) = 1
        BY <3>1, FS_Singleton
      <3>3. QED
        BY <3>2
    <2>4. QED
      BY <2>2, <2>3
  <1>2. QED
    BY <1>1, ClientInductive, PTL

(* What a step that ends a command tells. *)
LEMMA ReportStep ==
  ASSUME ClientInv, ClientNext, NEW verdict \in {"applied", "reverted"}, Reports(verdict)
  PROVE  /\ Sending /\ verdict = Verdict(cli.found, cli.before, Watched)
         /\ UNCHANGED log
  <1>1. cli.pc # "done" /\ cli'.pc = "done" /\ cli'.verdict = verdict
        /\ cli = [f \in Fields |-> cli[f]]
    BY DEF Reports, ClientInv, Shape
  <1>2. ~IncludeOurs /\ ~OthersMove /\ ~PayerElsewhere
    BY <1>1 DEF IncludeOurs, OthersMove, PayerElsewhere
  <1>3. ~Fails
    BY <1>1 DEF Fails, Goes, Fields
  <1>4. ~ReadSchedule
    BY <1>1, <1>3 DEF ReadSchedule, Goes, Fields
  <1>5. ~BuildClaim
    <2> SUFFICES ASSUME BuildClaim PROVE FALSE
      OBVIOUS
    <2>1. \E ix : cli' = [cli EXCEPT !.pc = "before", !.ix = ix]
      BY <1>3 DEF BuildClaim, Goes
    <2>2. QED
      BY <1>1, <2>1 DEF Fields
  <1>6. ~BuildCancel
    <2> SUFFICES ASSUME BuildCancel PROVE FALSE
      OBVIOUS
    <2>1. \E ix : cli' = [cli EXCEPT !.pc = "before", !.ix = ix]
      BY <1>3 DEF BuildCancel, Goes
    <2>2. QED
      BY <1>1, <2>1 DEF Fields
  <1>7. ~BuildOther /\ ~ReadBefore /\ ~Send
    BY <1>1 DEF BuildOther, ReadBefore, Send, Goes, Fields
  <1>8. ~SendFails
    BY <1>1 DEF SendFails, Goes, Fields
  <1>9. ~Found /\ ~Missed
    BY <1>1 DEF Found, Missed, Goes, Fields
  <1>10. ReportFound
    BY <1>2, <1>4, <1>5, <1>6, <1>7, <1>8, <1>9 DEF ClientNext, Step
  <1>11. /\ cli.pc = "after" /\ UNCHANGED log
         /\ cli' = [cli EXCEPT !.pc = "done",
                               !.verdict = Verdict(cli.found, cli.before, Watched)]
    BY <1>10 DEF ReportFound, Goes
  <1>12. QED
    BY <1>1, <1>11 DEF ClientInv, Stage, Fields

(* "reverted" is true of every attempt. *)
THEOREM RevertedNeverApplied == ClientSpec => RevertedIsTrue
  <1>1. ClientInv /\ [ClientNext]_clientVars =>
          [Reports("reverted") /\ cli.cmd.op # "transfer" => Applied = {}]_clientVars
    <2> SUFFICES ASSUME ClientInv, ClientNext, Reports("reverted"),
                        cli.cmd.op # "transfer"
                 PROVE  Applied = {}
      OBVIOUS
    <2>1. Sending /\ "reverted" = Verdict(cli.found, cli.before, Watched)
      BY ReportStep
    <2>2. Watched = cli.before
      BY <2>1 DEF Verdict
    <2>3. ~Advanced(cli.before, Watched)
      BY <2>2, AdvancedDiffers
    <2>4. QED
      BY <2>1, <2>3 DEF ClientInv, Compared
  <1>2. QED
    BY <1>1, ClientInductive, PTL DEF ClientSpec, RevertedIsTrue

(* "applied" is true as long as nobody else touches the schedule: the schedule is
   what an attempt made of the one that was read. *)
THEOREM AppliedWasIntended == ClientSpec => AppliedAsIntended
  <1>1. ClientInv /\ [ClientNext]_clientVars =>
          [Reports("applied") /\ Undisturbed /\ ~Repeatable =>
             Intended(cli.ix, cli.before, Watched)]_clientVars
    <2> SUFFICES ASSUME ClientInv, ClientNext, Reports("applied"), Undisturbed,
                        ~Repeatable
                 PROVE  Intended(cli.ix, cli.before, Watched)
      OBVIOUS
    <2>1. Sending /\ "applied" = Verdict(cli.found, cli.before, Watched)
      BY ReportStep
    <2>2. Watched # cli.before
      BY <2>1 DEF Verdict
    <2>3. QED
      BY <2>1, <2>2 DEF ClientInv, Traced
  <1>2. QED
    BY <1>1, ClientInductive, PTL DEF ClientSpec, AppliedAsIntended

(* A transaction of the command that was refused was not executable, and carried
   the instruction that was worked out. *)
LEMMA RefusalStep ==
  ASSUME ClientInv, ClientNext, Len(log') > Len(log), log'[Len(log')].tx.by # 0,
         ~log'[Len(log')].ok
  PROVE  Built /\ ~Executable(cli.ix)
  <1>1. PICK S : log \in Seq(S)
    BY DEF ClientInv, Shape
  <1>2. log' # log
    BY <1>1
  <1>3. ~PayerElsewhere /\ ~Step
    BY <1>2 DEF PayerElsewhere, Step, ReadSchedule, BuildClaim, BuildCancel, BuildOther,
                ReadBefore, Send, SendFails, Found, Missed, ReportFound, Fails, Goes
  <1>4. ASSUME NEW tx, Include(tx), tx.by = 0 \/ tx \in pool PROVE Built /\ ~Executable(cli.ix)
    <2>1. PICK ok \in BOOLEAN : /\ Recorded(tx, ok)
                                /\ ok = FALSE => ~Executable(tx.ix)
      BY <1>4 DEF Include, Applies, Refuses
    <2>2. log'[Len(log')] = [tx |-> tx, ok |-> ok, before |-> shard]
      BY <1>1, <2>1 DEF Recorded
    <2>3. tx.by # 0 /\ ok = FALSE
      BY <2>2
    <2>4. tx \in pool
      BY <1>4, <2>3
    <2>5. QED
      BY <2>1, <2>3, <2>4 DEF ClientInv, Stage, SameInstruction, Built
  <1>5. CASE IncludeOurs
    BY <1>4, <1>5 DEF IncludeOurs
  <1>6. CASE OthersMove
    <2>1. \E tx \in OthersTx : Include(tx)
      BY <1>2, <1>6 DEF OthersMove, LedgerTick
    <2>2. QED
      BY <1>4, <2>1 DEF OthersTx
  <1>7. QED
    BY <1>3, <1>5, <1>6 DEF ClientNext

(* A claim or a cancellation is refused only for what the command does not look at:
   what it worked out is right as long as the schedule is the one it read, and
   the escrow can pay it. *)
THEOREM RefusalWasCaused == ClientSpec => RefusedHasCause
  <1> DEFINE ix == cli.ix
             s  == cli.seen
             Cause == \/ Watched # s
                      \/ ~RightEscrow(s, ix.seed)
                      \/ /\ ix.op = "claim"
                         /\ ix.signer # s.beneficiary \/ ~ClaimWindowOpen(ix.at)
                      \/ /\ ix.op = "cancel"
                         /\ \/ ~MayCancel(s, ix.signer) \/ ~CancelWindowOpen(ix.at)
                            \/ ~NotBeforeLastClaim(s, ix.at)
  <1>1. ASSUME ClientInv, ClientNext, Len(log') > Len(log), log'[Len(log')].tx.by # 0,
               ~log'[Len(log')].ok, ix.op \in {"claim", "cancel"}
        PROVE  Cause
    <2> SUFFICES ASSUME ~Cause PROVE FALSE
      OBVIOUS
    <2>1. Built /\ ~Executable(ix)
      BY <1>1, RefusalStep
    <2>2. /\ Inductive /\ Decoded(ix) /\ ix.op = cli.cmd.op /\ ix.id = Watches(cli.cmd)
          /\ Asks(ix, cli.cmd, s) /\ s \in Schedule
      BY <1>1, <2>1 DEF ClientInv, SameInstruction, WorkedOut, ReadIsOld
    <2>3. ix.id \in Id /\ shard[ix.id] = s /\ Exists(ix.id)
      BY <1>1, <2>2, OfferAssumption DEF Decoded, Watched, Exists
    <2>4. Holding(ix.seed) = s.escrow /\ ix.asset = s.asset /\ ix.signed
      BY <1>1, <2>2 DEF RightEscrow, Asks
    <2>5. CASE ix.op = "claim"
      <3>1. /\ ix.at \in Nat /\ ix.at <= now /\ ix.amount \in Nat /\ ix.amount > 0
            /\ ix.amount <= Claimable(s, ix.at) /\ s.beneficiary = ix.signer
        BY <2>2, <2>5 DEF Decoded, Asks, ClaimWindowOpen
      <3>2. /\ Covers(s.escrow, s.asset, ix.amount)
            /\ s.claimed + ix.amount <= AmountMax
        BY <2>2, <2>3, <3>1, ClaimCovered
      <3>3. ClaimAccepted(ix.id, ix.seed, ix.asset, ix.amount, ix.at, ix.signer)
        BY <2>3, <2>4, <3>1, <3>2
        DEF ClaimAccepted, RightEscrow, RightAsset, ClaimWindowOpen, MayClaim
      <3>4. QED
        BY <2>1, <2>4, <2>5, <3>2, <3>3 DEF Executable
    <2>6. CASE ix.op = "cancel"
      <3>1. /\ ix.at \in Nat /\ CancelWindowOpen(ix.at) /\ MayCancel(s, ix.signer)
            /\ NotBeforeLastClaim(s, ix.at) /\ ix.refund = Unvested(s, ix.at)
        BY <2>2, <2>6 DEF Decoded, Asks
      <3>2. ix.at \in Time /\ s.cancelled_at = 0
        BY <3>1, BoundsAssumption DEF CancelWindowOpen, Time, MayCancel
      <3>3. Covers(s.escrow, s.asset, ix.refund)
        BY <2>2, <2>3, <3>1, <3>2, RefundCovered
      <3>4. CancelAccepted(ix.id, ix.seed, ix.asset, ix.at, ix.signer)
        BY <2>3, <2>4, <3>1 DEF CancelAccepted, RightEscrow, RightAsset
      <3>5. QED
        BY <2>1, <2>3, <2>4, <2>6, <3>1, <3>3, <3>4 DEF Executable
    <2>7. QED
      BY <1>1, <2>5, <2>6
  <1>2. ClientInv /\ [ClientNext]_clientVars =>
          [(Len(log') > Len(log) /\ log'[Len(log')].tx.by # 0
              /\ ~log'[Len(log')].ok /\ ix.op \in {"claim", "cancel"}) => Cause]_clientVars
    BY <1>1
  <1>3. QED
    BY <1>2, ClientInductive, PTL DEF ClientSpec, RefusedHasCause
----------------------------------------------------------------------------
(* The history of a schedule. *)

(* A schedule stays, with its escrow, and the time it has seen never falls. *)
Onward(s, t) ==
  s # NoSchedule =>
    t # NoSchedule /\ t.escrow = s.escrow /\ s.last_seen <= t.last_seen

(* What an applied instruction made of a schedule it names is what the replay would
   make of it, and the replay would have let it pass. *)
Explains(ix, id, s, t) ==
  \/ /\ Creation(ix)
     /\ s = NoSchedule /\ t # NoSchedule /\ t = FromTerms(id, ix, t)
  \/ /\ ~Creation(ix)
     /\ s # NoSchedule /\ Accepts(s, ix, t) /\ t = Replayed(s, ix)

(* What a transaction found and what it left of a schedule. *)
Explained(ix, ok, id, s, t) ==
  /\ Onward(s, t)
  /\ ~ok => ~Shielded(ix)
  /\ IF ok /\ Names(ix, id) THEN Explains(ix, id, s, t) ELSE t = s

(* The schedule a transaction of a log found; after the last, the present one. *)
Before(h, present, id, k) ==
  IF k \in DOMAIN h THEN h[k].before[id] ELSE present[id]

(* The invariant: the log accounts for every schedule from nothing to the present. *)
History ==
  \A id \in Id :
    /\ Before(log, shard, id, 1) = NoSchedule
    /\ \A k \in DOMAIN log :
         /\ Explained(log[k].tx.ix, log[k].ok, id,
                      Before(log, shard, id, k), Before(log, shard, id, k + 1))
         /\ Onward(Before(log, shard, id, k), shard[id])

(* The shards as the program leaves them. *)
SoundShards(shards) ==
  /\ shards \in [Id -> Schedule \cup {NoSchedule}]
  /\ \A id \in Id : shards[id] # NoSchedule => SoundTerms(shards[id])

HistoryInv ==
  /\ Inductive
  /\ \E S : log \in Seq(S)
  /\ \A k \in DOMAIN log :
       /\ Decoded(log[k].tx.ix) /\ log[k].ok \in BOOLEAN
       /\ SoundShards(log[k].before)
  /\ History

(* The schedules and the times they have seen only move on. *)
LEMMA OnwardTwice ==
  ASSUME NEW r \in Schedule \cup {NoSchedule}, NEW s \in Schedule \cup {NoSchedule},
         NEW t \in Schedule \cup {NoSchedule}, Onward(r, s), Onward(s, t)
  PROVE  Onward(r, t)
  <1>1. CASE r = NoSchedule
    BY <1>1 DEF Onward
  <1>2. CASE r # NoSchedule
    <2>1. s # NoSchedule /\ t # NoSchedule
      BY <1>2 DEF Onward
    <2>2. r.last_seen \in Int /\ s.last_seen \in Int /\ t.last_seen \in Int
      BY <1>2, <2>1, BoundsAssumption DEF Schedule, Time
    <2>3. QED
      BY <1>2, <2>1, <2>2 DEF Onward
  <1>3. QED
    BY <1>1, <1>2

(* A schedule left alone. *)
LEMMA OnwardStill ==
  ASSUME NEW s \in Schedule \cup {NoSchedule}
  PROVE  Onward(s, s)
  <1>1. s # NoSchedule => s.last_seen \in Int
    BY BoundsAssumption DEF Schedule, Time
  <1>2. QED
    BY <1>1 DEF Onward

(* A creation leaves the schedule the replay fills in from its terms. *)
LEMMA CreateExplained ==
  ASSUME Inductive, NEW ix, Decoded(ix), Executes(ix), ix.op = "create",
         NEW id \in Id, Names(ix, id)
  PROVE  Explains(ix, id, shard[id], shard'[id])
  <1> DEFINE u == NewState(ix.signer, Holding(ix.id), ix.beneficiary, ix.asset, ix.terms)
  <1>1. /\ ix.signer \in Account /\ ix.id = id
        /\ ix.beneficiary \in Account /\ ix.asset \in Asset /\ ix.terms \in Terms
        /\ CreateSchedule(ix.id, ix.signer, ix.beneficiary, ix.asset, ix.terms)
    BY DEF Decoded, Executes, Names
  <1>2. TypeOK /\ now \in Nat
    BY GenesisAssumption, BoundsAssumption DEF Inductive, TypeOK, Time
  <1>3. /\ ValidTerms(ix.terms) /\ shard[id] = NoSchedule
        /\ shard' = [shard EXCEPT ![id] = u]
    BY <1>1 DEF CreateSchedule, CreateAccepted, Fresh, Exists
  <1>4. Holding(ix.id) \in Holdings
    BY <1>1 DEF Holdings
  <1>5. u \in Schedule /\ u.escrow = Holding(ix.id)
    BY <1>1, <1>2, <1>3, <1>4, NewStateSound
  <1>6. u = FromTerms(id, ix, u)
    BY <1>5 DEF FromTerms
  <1> HIDE DEF u
  <1>7. u # NoSchedule /\ shard'[id] = u
    BY <1>2, <1>3, <1>5, OfferAssumption DEF TypeOK
  <1>8. QED
    BY <1>3, <1>6, <1>7 DEF Explains, Creation

(* So does a batch, for each of its members. *)
LEMMA BatchExplained ==
  ASSUME Inductive, NEW ix, Decoded(ix), Executes(ix), ix.op = "batch",
         NEW id \in Id, Names(ix, id)
  PROVE  Explains(ix, id, shard[id], shard'[id])
  <1> DEFINE n == Len(ix.payees)
             payees == [i \in 0..n-1 |-> ix.payees[i + 1]]
             i == CHOOSE i \in 0..n-1 : BatchScheduleId[ix.batch][i] = id
             u == NewState(ix.signer, Holding(ix.batch), payees[i], ix.asset, ix.terms)
  <1>1. /\ ix.batch \in BatchId /\ ix.asset \in Asset /\ ix.terms \in Terms
        /\ ix.payees \in Seq(Account) /\ n \in 1..MaxBatch /\ ix.signer \in Account
        /\ CreateScheduleBatch(ix.batch, n, payees, ix.signer, ix.asset, ix.terms)
        /\ id \in BatchRows(ix.batch, n)
    BY DEF Decoded, Executes, Names
  <1>2. now \in Nat
    BY GenesisAssumption, BoundsAssumption DEF Inductive, TypeOK, Time
  <1>3. /\ ValidTerms(ix.terms) /\ shard[id] = NoSchedule /\ shard'[id] = u
    <2> HIDE DEF n, payees
    <2>1. QED
      BY <1>1 DEF CreateScheduleBatch, BatchAccepted, Fresh, Exists
  <1>4. i \in 0..n-1
    <2>1. \E j \in 0..n-1 : BatchScheduleId[ix.batch][j] = id
      BY <1>1 DEF BatchRows
    <2>2. QED
      BY <2>1
  <1>5. payees[i] = ix.payees[1 + i] /\ payees[i] \in Account
    <2> HIDE DEF i
    <2>1. i + 1 \in 1..n /\ i + 1 = 1 + i
      BY <1>1, <1>4, BoundsAssumption
    <2>2. payees[i] = ix.payees[i + 1]
      BY <1>4
    <2>3. QED
      BY <1>1, <2>1, <2>2
  <1>6. Holding(ix.batch) \in Holdings
    BY <1>1, IdAssumption DEF Holdings
  <1>7. u \in Schedule /\ u.escrow = Holding(ix.batch)
    <2> HIDE DEF n, payees, i
    <2>1. QED
      BY <1>1, <1>2, <1>3, <1>5, <1>6, NewStateSound
  <1>8. u = FromTerms(id, ix, u)
    <2>1. FromTerms(id, ix, u)
            = NewState(ix.signer, u.escrow, ix.payees[1 + i], ix.asset, ix.terms)
      BY DEF FromTerms
    <2> HIDE DEF n, payees, i
    <2>2. QED
      BY <1>5, <1>7, <2>1
  <1> HIDE DEF n, payees, i, u
  <1>9. u # NoSchedule
    BY <1>7, OfferAssumption
  <1>10. QED
    BY <1>3, <1>8, <1>9 DEF Explains, Creation
(* Every other instruction rewrites a schedule as the replay does, in a way the
   replay lets pass. *)
LEMMA RewriteExplained ==
  ASSUME Inductive, NEW ix, Decoded(ix), Executes(ix), ~Creation(ix),
         NEW id \in Id, Names(ix, id)
  PROVE  Explains(ix, id, shard[id], shard'[id])
  <1> DEFINE s == shard[id]
             u == shard'[id]
  <1>1. /\ ix.id = id /\ ix.op \in {"claim", "cancel", "lock", "transfer", "signal"}
    BY DEF Decoded, Creation, Names
  <1>2. shard \in [Id -> Schedule \cup {NoSchedule}]
    BY DEF Inductive, TypeOK
  <1>3. Exists(id) =>
          /\ s \in Schedule /\ s # NoSchedule
          /\ s.last_seen \in Nat /\ s.claimed \in Nat
    BY <1>2, BoundsAssumption DEF Exists, Schedule, Time, Amount
  <1>4. CASE ix.op = "claim"
    <2>1. /\ ix.amount \in Nat /\ ix.at \in Nat
          /\ Claim(id, ix.seed, ix.asset, ix.amount, ix.at, ix.signer, ix.destination)
      BY <1>1, <1>4 DEF Decoded, Executes
    <2>2. /\ Exists(id) /\ ix.amount > 0 /\ MayClaim(s, ix.amount, ix.at, ix.signer)
          /\ u = AfterClaim(s, ix.amount, ix.at)
      BY <1>2, <2>1 DEF Claim, ClaimAccepted
    <2>3. u = Replayed(s, ix)
      BY <1>4, <2>2 DEF AfterClaim, Replayed, Later
    <2>4. u # NoSchedule /\ ix.at <= u.last_seen
      <3>1. u.last_seen = Later(s.last_seen, ix.at)
        BY <1>3, <1>4, <2>2, <2>3 DEF Replayed, Schedule
      <3>2. Advanced(s, u)
        BY <1>1, <1>4, ExecutesEffect DEF Effect, Watches
      <3>3. QED
        BY <1>3, <2>1, <2>2, <3>1, <3>2 DEF Later, Advanced
    <2>5. Accepts(s, ix, u)
      <3>1. ix.signer = s.beneficiary /\ ix.amount <= Owed(s, ix.at)
        BY <2>2 DEF MayClaim, Claimable, Owed
      <3>2. QED
        BY <1>4, <2>2, <2>4, <3>1 DEF Accepts, Reached
    <2>6. QED
      BY <1>4, <2>2, <2>3, <2>5 DEF Explains, Exists
  <1>5. CASE ix.op = "cancel"
    <2>1. /\ ix.at \in Nat /\ Cancel(id, ix.seed, ix.asset, ix.at, ix.signer)
          /\ ix.refund = Unvested(s, ix.at)
      BY <1>1, <1>5 DEF Decoded, Executes
    <2>2. /\ Exists(id) /\ CancelWindowOpen(ix.at) /\ MayCancel(s, ix.signer)
          /\ NotBeforeLastClaim(s, ix.at) /\ u = Frozen(s, ix.at)
      BY <1>2, <2>1 DEF Cancel, CancelAccepted
    <2>3. ix.at \in Nat \ {0}
      <3>1. ix.at \in Time /\ TypeOK
        BY <2>1, <2>2, BoundsAssumption DEF CancelWindowOpen, Time, Inductive, TypeOK
      <3>2. QED
        BY <2>2, <3>1, CancelDated
    <2>4. u = Replayed(s, ix)
      <3>1. (IF ix.at > 1 THEN ix.at ELSE 1) = ix.at
        BY <2>3
      <3>2. Later(s.last_seen, ix.at) = ix.at
        BY <1>3, <2>2, <2>3 DEF Later, NotBeforeLastClaim
      <3>3. QED
        BY <1>5, <2>2, <3>1, <3>2, <1>3 DEF Frozen, Replayed, Schedule
    <2>5. Unvested(s, ix.at) = s.total - Vested(s, ix.at)
      <3>1. [s EXCEPT !.cancelled_at = 0] = s
        BY <1>3, <2>2 DEF MayCancel, Schedule
      <3>2. QED
        BY <3>1 DEF Unvested
    <2>6. Accepts(s, ix, u)
      BY <1>5, <2>1, <2>2, <2>5 DEF Accepts, MayCancel
    <2>7. QED
      BY <1>5, <2>2, <2>4, <2>6 DEF Explains, Exists
  <1>6. CASE ix.op = "lock"
    <2>1. /\ Exists(id) /\ ix.signer = s.creator /\ u = [s EXCEPT !.cancelable = FALSE]
      BY <1>1, <1>2, <1>6 DEF Executes, MakeNonCancelable, WaiverAccepted
    <2>2. QED
      BY <1>6, <2>1 DEF Explains, Exists, Creation, Accepts, Replayed
  <1>7. CASE ix.op = "transfer"
    <2>1. /\ Exists(id) /\ ix.signer = s.beneficiary /\ s.transferable
          /\ u = [s EXCEPT !.beneficiary = ix.new_beneficiary]
      BY <1>1, <1>2, <1>7 DEF Executes, TransferBeneficiary, TransferAccepted
    <2>2. QED
      BY <1>7, <2>1 DEF Explains, Exists, Creation, Accepts, Replayed
  <1>8. CASE ix.op = "signal"
    <2>1. /\ Exists(id) /\ ix.signer = s.milestone_authority
          /\ ix.index < s.tranches /\ ix.index \notin s.signalled
          /\ u = [s EXCEPT !.signalled = @ \cup {ix.index}]
      BY <1>1, <1>2, <1>8
      DEF Executes, SignalMilestone, SignalAccepted, MaySignal
    <2>2. QED
      BY <1>8, <2>1 DEF Explains, Exists, Creation, Accepts, Replayed
  <1>9. QED
    BY <1>1, <1>4, <1>5, <1>6, <1>7, <1>8
(* What the replay makes of a schedule keeps its escrow, and a later time seen. *)
LEMMA ReplayedOnward ==
  ASSUME NEW ix, Decoded(ix), NEW s \in Schedule, NEW t \in Schedule,
         ~Creation(ix), t = Replayed(s, ix)
  PROVE  Onward(s, t)
  <1>1. /\ ix.op \in {"claim", "cancel", "lock", "transfer", "signal"}
        /\ s.last_seen \in Int
    BY BoundsAssumption DEF Decoded, Creation, Schedule, Time
  <1>2. t.escrow = s.escrow /\ s.last_seen <= t.last_seen
    <2>1. CASE ix.op = "claim"
      <3>1. ix.at \in Nat
        BY <2>1 DEF Decoded
      <3>2. t.escrow = s.escrow /\ t.last_seen = Later(s.last_seen, ix.at)
        BY <2>1 DEF Replayed, Schedule
      <3>3. QED
        BY <1>1, <3>1, <3>2 DEF Later
    <2>2. CASE ix.op = "cancel"
      <3>1. ix.at \in Nat
        BY <2>2 DEF Decoded
      <3>2. t.escrow = s.escrow /\ t.last_seen = Later(s.last_seen, ix.at)
        BY <2>2 DEF Replayed, Schedule
      <3>3. QED
        BY <1>1, <3>1, <3>2 DEF Later
    <2>3. CASE ix.op = "lock"
      BY <1>1, <2>3 DEF Replayed, Schedule
    <2>4. CASE ix.op = "transfer"
      BY <1>1, <2>4 DEF Replayed, Schedule
    <2>5. CASE ix.op = "signal"
      BY <1>1, <2>5 DEF Replayed, Schedule
    <2>6. QED
      BY <1>1, <2>1, <2>2, <2>3, <2>4, <2>5
  <1>3. QED
    BY <1>2, OfferAssumption DEF Onward

(* Every transaction a block includes is accounted for, schedule by schedule. *)
LEMMA ExecutesExplained ==
  ASSUME Inductive, NEW ix, Decoded(ix), Executes(ix), NEW id \in Id
  PROVE  Explained(ix, TRUE, id, shard[id], shard'[id])
  <1>1. Inductive'
    BY ExecutesKeeps
  <1>2. /\ shard[id] \in Schedule \cup {NoSchedule}
        /\ shard'[id] \in Schedule \cup {NoSchedule}
    BY <1>1 DEF Inductive, TypeOK
  <1>3. CASE ~Names(ix, id)
    <2>1. shard'[id] = shard[id]
      BY <1>3, OthersUntouched
    <2>2. Onward(shard[id], shard'[id])
      BY <1>2, <2>1, OnwardStill
    <2>3. QED
      BY <1>3, <2>1, <2>2 DEF Explained
  <1>4. CASE Names(ix, id)
    <2>1. Explains(ix, id, shard[id], shard'[id])
      <3>1. CASE ix.op = "create"
        BY <1>4, <3>1, CreateExplained
      <3>2. CASE ix.op = "batch"
        BY <1>4, <3>2, BatchExplained
      <3>3. CASE ~Creation(ix)
        BY <1>4, <3>3, RewriteExplained
      <3>4. QED
        BY <3>1, <3>2, <3>3 DEF Creation
    <2>2. Onward(shard[id], shard'[id])
      <3>1. CASE shard[id] = NoSchedule
        BY <3>1 DEF Onward
      <3>2. CASE shard[id] # NoSchedule
        <4>1. ~Creation(ix) /\ shard'[id] = Replayed(shard[id], ix)
          BY <2>1, <3>2 DEF Explains
        <4>2. shard'[id] # NoSchedule
          <5>1. Grows(shard[id], shard'[id])
            BY ExecutesEffect DEF Effect
          <5>2. QED
            BY <3>2, <5>1, OfferAssumption DEF Grows
        <4>3. QED
          BY <1>2, <3>2, <4>1, <4>2, ReplayedOnward
      <3>3. QED
        BY <3>1, <3>2
    <2>3. QED
      BY <1>4, <2>1, <2>2 DEF Explained
  <1>5. QED
    BY <1>3, <1>4
(* A log that starts empty accounts for nothing. *)
LEMMA InitHistoryInv ==
  ASSUME LedgerInit
  PROVE  HistoryInv
  <1>1. Inductive
    BY InitInductive DEF LedgerInit
  <1>2. log \in Seq({}) /\ DOMAIN log = {}
    BY DEF LedgerInit
  <1>3. \A id \in Id : Before(log, shard, id, 1) = NoSchedule
    BY <1>2 DEF Before, LedgerInit, Init
  <1>4. \E S : log \in Seq(S)
    BY <1>2
  <1>5. History
    BY <1>2, <1>3 DEF History
  <1>6. QED
    BY <1>1, <1>2, <1>4, <1>5 DEF HistoryInv

(* A block adds one transaction, and what it found is what the last one left. *)
LEMMA IncludeHistoryInv ==
  ASSUME HistoryInv, NEW tx, Decoded(tx.ix), Include(tx)
  PROVE  HistoryInv'
  <1> DEFINE n == Len(log) + 1
  <1>1. Inductive /\ \E S : log \in Seq(S)
    BY DEF HistoryInv
  <1>2. PICK ok \in BOOLEAN :
          /\ IF ok THEN Executes(tx.ix) ELSE shard' = shard
          /\ DOMAIN log' = DOMAIN log \cup {n}
          /\ n \notin DOMAIN log
          /\ \A k \in DOMAIN log : log'[k] = log[k]
          /\ log'[n].tx = tx /\ log'[n].ok = ok /\ log'[n].before = shard
          /\ ~ok => ~Shielded(tx.ix)
    BY <1>1, IncludeEffect
  <1>3. Inductive' /\ (\E S : log \in Seq(S))'
    BY <1>1, IncludeEffect
  <1>4. /\ Len(log) \in Nat /\ DOMAIN log = 1..Len(log)
        /\ n + 1 \notin DOMAIN log'
    BY <1>1, <1>2
  <1> HIDE DEF n
  <1>5. /\ shard \in [Id -> Schedule \cup {NoSchedule}]
        /\ shard' \in [Id -> Schedule \cup {NoSchedule}]
    BY <1>1, <1>3 DEF Inductive, TypeOK
  <1>6. \A k \in DOMAIN log' :
          /\ Decoded(log'[k].tx.ix) /\ log'[k].ok \in BOOLEAN
          /\ SoundShards(log'[k].before)
    <2>1. SoundShards(shard)
      BY <1>1, <1>5 DEF SoundShards, Inductive, Sound, Exists
    <2>2. QED
      BY <1>2, <2>1 DEF HistoryInv
  <1>7. ASSUME NEW id \in Id
        PROVE  /\ Before(log', shard', id, 1) = NoSchedule
               /\ \A k \in DOMAIN log' :
                    /\ Explained(log'[k].tx.ix, log'[k].ok, id,
                                 Before(log', shard', id, k), Before(log', shard', id, k + 1))
                    /\ Onward(Before(log', shard', id, k), shard'[id])
    <2>1. /\ Before(log, shard, id, 1) = NoSchedule
          /\ \A k \in DOMAIN log :
               /\ Explained(log[k].tx.ix, log[k].ok, id,
                      Before(log, shard, id, k), Before(log, shard, id, k + 1))
               /\ Onward(Before(log, shard, id, k), shard[id])
      BY DEF HistoryInv, History
    <2>2. \A k \in DOMAIN log : Before(log', shard', id, k) = Before(log, shard, id, k)
      BY <1>2 DEF Before
    <2>3. Before(log', shard', id, n) = shard[id] /\ Before(log, shard, id, n) = shard[id]
      BY <1>2 DEF Before
    <2>4. Before(log', shard', id, n + 1) = shard'[id]
      BY <1>4 DEF Before
    <2>5. \A k \in DOMAIN log : k + 1 \in DOMAIN log \cup {n}
      BY <1>4 DEF n
    <2>6. 1 \in DOMAIN log \cup {n}
      BY <1>4 DEF n
    <2>7. Before(log', shard', id, 1) = NoSchedule
      BY <2>1, <2>2, <2>3, <2>6
    <2>8. Explained(tx.ix, ok, id, shard[id], shard'[id])
      <3>1. CASE ok
        BY <1>1, <1>2, <3>1, ExecutesExplained
      <3>2. CASE ~ok
        <4>1. shard'[id] = shard[id] /\ ~Shielded(tx.ix)
          BY <1>2, <3>2
        <4>2. Onward(shard[id], shard'[id])
          BY <1>5, <4>1, OnwardStill
        <4>3. QED
          BY <3>2, <4>1, <4>2 DEF Explained
      <3>3. QED
        BY <3>1, <3>2
    <2>9. Onward(shard[id], shard'[id])
      BY <2>8 DEF Explained
    <2>10. ASSUME NEW k \in DOMAIN log'
           PROVE  /\ Explained(log'[k].tx.ix, log'[k].ok, id,
                               Before(log', shard', id, k), Before(log', shard', id, k + 1))
                  /\ Onward(Before(log', shard', id, k), shard'[id])
      <3>1. CASE k \in DOMAIN log
        <4>1. /\ Before(log', shard', id, k) = Before(log, shard, id, k)
              /\ Before(log', shard', id, k + 1) = Before(log, shard, id, k + 1)
          BY <2>2, <2>3, <2>5, <3>1
        <4>2. Before(log, shard, id, k) \in Schedule \cup {NoSchedule}
          BY <3>1 DEF Before, HistoryInv, SoundShards
        <4>3. Onward(Before(log, shard, id, k), shard'[id])
          BY <1>5, <2>1, <2>9, <3>1, <4>2, OnwardTwice
        <4>4. QED
          BY <1>2, <2>1, <3>1, <4>1, <4>3
      <3>2. CASE k = n
        BY <1>2, <2>3, <2>4, <2>8, <2>9, <3>2
      <3>3. QED
        BY <1>2, <3>1, <3>2
    <2>11. QED
      BY <2>7, <2>10
  <1>8. History'
    BY <1>7 DEF History
  <1>9. QED
    BY <1>3, <1>6, <1>8 DEF HistoryInv

(* The ledger accounts for every schedule, whatever blocks include. *)
THEOREM LedgerAccounts == LedgerSpec => []HistoryInv
  <1>1. LedgerInit => HistoryInv
    BY InitHistoryInv
  <1>2. ASSUME HistoryInv, [LedgerNext]_ledgerVars PROVE HistoryInv'
    <2>1. ASSUME UNCHANGED <<shard, log>>, Inductive' PROVE HistoryInv'
      BY <1>2, <2>1 DEF HistoryInv, History, Before
    <2>2. Inductive
      BY <1>2 DEF HistoryInv
    <2>3. CASE LedgerTick
      BY <2>1, <2>2, <2>3, TickKeeps DEF LedgerTick, Tick
    <2>4. ASSUME NEW tx \in OthersTx, Include(tx) PROVE HistoryInv'
      <3>1. Decoded(tx.ix)
        BY OfferedDecode DEF OthersTx
      <3>2. QED
        BY <1>2, <2>4, <3>1, IncludeHistoryInv
    <2>5. CASE UNCHANGED ledgerVars
      <3>1. UNCHANGED vars /\ UNCHANGED <<shard, log>>
        BY <2>5 DEF ledgerVars, vars
      <3>2. QED
        BY <2>1, <2>2, <3>1, NextKeeps
    <2>6. QED
      BY <1>2, <2>3, <2>4, <2>5 DEF LedgerNext
  <1>3. QED
    BY <1>1, <1>2, PTL DEF LedgerSpec
----------------------------------------------------------------------------
(* The replay of a history. *)

ReplayStart(fin) == [created |-> FALSE, st |-> Emptied(fin), ok |-> FALSE]

(* The replay at position k of the log, from the replay before it. *)
ReplayAt(id, fin, k, r) ==
  IF k \in Listed(id) THEN ReplayStep(id, r, log[k].tx.ix, fin) ELSE r

Replays(id, fin, n, g) ==
  g = [k \in 0..n |-> IF k = 0 THEN ReplayStart(fin)
                      ELSE ReplayAt(id, fin, k, g[k - 1])]

(* There is a replay of every length. *)
LEMMA ReplaysExist ==
  ASSUME NEW id, NEW fin, NEW n \in Nat
  PROVE  \E g : Replays(id, fin, n, g)
  <1> DEFINE Q == {m \in Nat : \E g : Replays(id, fin, m, g)}
  <1>1. 0 \in Q
    <2> DEFINE g == [k \in 0..0 |-> ReplayStart(fin)]
    <2>1. Replays(id, fin, 0, g)
      BY DEF Replays
    <2>2. QED
      BY <2>1
  <1>2. ASSUME NEW m \in Q PROVE m + 1 \in Q
    <2>1. m \in Nat
      OBVIOUS
    <2>2. PICK g : Replays(id, fin, m, g)
      OBVIOUS
    <2> DEFINE h == [k \in 0..(m + 1) |->
                       IF k = m + 1 THEN ReplayAt(id, fin, m + 1, g[m]) ELSE g[k]]
    <2>3. ASSUME NEW k \in 0..(m + 1)
          PROVE  h[k] = IF k = 0 THEN ReplayStart(fin) ELSE ReplayAt(id, fin, k, h[k - 1])
      <3>1. CASE k = m + 1
        <4>1. k # 0 /\ k - 1 = m /\ k - 1 \in 0..(m + 1) /\ m # m + 1
          BY <2>1, <3>1
        <4>2. h[k] = ReplayAt(id, fin, m + 1, g[m]) /\ h[k - 1] = g[m]
          BY <3>1, <4>1
        <4>3. QED
          BY <3>1, <4>1, <4>2
      <3>2. CASE k # m + 1
        <4>1. k \in 0..m /\ h[k] = g[k]
          BY <2>1, <3>2
        <4>2. CASE k = 0
          BY <2>2, <4>1, <4>2 DEF Replays
        <4>3. CASE k # 0
          <5>1. k - 1 \in 0..(m + 1) /\ k - 1 # m + 1
            BY <2>1, <4>1, <4>3
          <5>2. h[k - 1] = g[k - 1]
            BY <5>1
          <5>3. g[k] = ReplayAt(id, fin, k, g[k - 1])
            BY <2>2, <4>1, <4>3 DEF Replays
          <5>4. QED
            BY <4>1, <4>3, <5>2, <5>3
        <4>4. QED
          BY <4>2, <4>3
      <3>3. QED
        BY <3>1, <3>2
    <2> HIDE DEF h
    <2>4. h = [k \in 0..(m + 1) |-> h[k]]
      BY DEF h
    <2>5. Replays(id, fin, m + 1, h)
      BY <2>3, <2>4 DEF Replays
    <2>6. QED
      BY <2>1, <2>5
  <1>3. Q = Nat
    <2>1. Q \in SUBSET Nat
      OBVIOUS
    <2> HIDE DEF Q
    <2>2. QED
      BY <1>1, <1>2, <2>1, NatSetInduction
  <1>4. QED
    BY <1>3

(* The replay goes through the log, step by step. *)
LEMMA ReplayDef ==
  ASSUME NEW id, NEW fin, Len(log) \in Nat
  PROVE  /\ Replay(id, fin)[0] = ReplayStart(fin)
         /\ \A k \in 1..Len(log) :
              Replay(id, fin)[k] = ReplayAt(id, fin, k, Replay(id, fin)[k - 1])
  <1>1. PICK g : Replays(id, fin, Len(log), g)
    BY ReplaysExist
  <1>2. \E r : r = [k \in 0..Len(log) |->
                IF k = 0 THEN [created |-> FALSE, st |-> Emptied(fin), ok |-> FALSE]
                ELSE IF k \in Listed(id)
                  THEN ReplayStep(id, r[k - 1], log[k].tx.ix, fin)
                  ELSE r[k - 1]]
    BY <1>1 DEF Replays, ReplayStart, ReplayAt
  <1>3. Replays(id, fin, Len(log), Replay(id, fin))
    BY <1>2 DEF Replays, Replay, ReplayStart, ReplayAt
  <1> DEFINE r == Replay(id, fin)
  <1> HIDE DEF r
  <1>4. Replays(id, fin, Len(log), r)
    BY <1>3 DEF r
  <1>5. r[0] = ReplayStart(fin)
    BY <1>4 DEF Replays
  <1>6. ASSUME NEW k \in 1..Len(log) PROVE r[k] = ReplayAt(id, fin, k, r[k - 1])
    BY <1>4 DEF Replays
  <1>7. QED
    BY <1>5, <1>6 DEF r
(* The verdicts are verdicts. *)
LEMMA AcceptsBoolean ==
  ASSUME NEW ix, Decoded(ix), ~Creation(ix), NEW s \in Schedule, NEW fin
  PROVE  Accepts(s, ix, fin) \in BOOLEAN
  <1>1. ix.op \in {"claim", "cancel", "lock", "transfer", "signal"}
    BY DEF Decoded, Creation
  <1>2. QED
    BY <1>1 DEF Accepts

(* An uncancelled schedule refunds what it has not vested. *)
LEMMA UnvestedUncut ==
  ASSUME NEW s \in Schedule, s.cancelled_at = 0, NEW t
  PROVE  Unvested(s, t) = s.total - Vested(s, t)
  <1>1. [s EXCEPT !.cancelled_at = 0] = s
    BY DEF Schedule
  <1>2. QED
    BY <1>1 DEF Unvested

(* What the replay accepts against one present it accepts against a later one. *)
LEMMA AcceptsLater ==
  ASSUME NEW ix, Decoded(ix), ~Creation(ix), NEW s \in Schedule,
         NEW t \in Schedule, NEW fin \in Schedule, t.last_seen <= fin.last_seen,
         Accepts(s, ix, t)
  PROVE  Accepts(s, ix, fin)
  <1>1. ix.op \in {"claim", "cancel", "lock", "transfer", "signal"}
    BY DEF Decoded, Creation
  <1>2. CASE ix.op = "claim"
    <2>1. ix.at \in Nat /\ t.last_seen \in Int /\ fin.last_seen \in Int
      BY <1>2, BoundsAssumption DEF Decoded, Schedule, Time
    <2>2. Reached(ix, t) => Reached(ix, fin)
      BY <2>1 DEF Reached
    <2>3. QED
      BY <1>2, <2>2 DEF Accepts
  <1>3. CASE ix.op # "claim"
    BY <1>1, <1>3 DEF Accepts
  <1>4. QED
    BY <1>2, <1>3

(* A refusal the replay knows of is one it makes. *)
LEMMA ToldRefuses ==
  ASSUME NEW e, NEW id \in Id, Decoded(e.tx.ix), ~Creation(e.tx.ix),
         ~Shielded(e.tx.ix), e.before[id] \in Schedule, SoundTerms(e.before[id]),
         shard[id] \in Schedule, Told(e, id)
  PROVE  ~Accepts(e.before[id], e.tx.ix, shard[id])
  <1> DEFINE s  == e.before[id]
             ix == e.tx.ix
  <1>1. /\ ix.op \in {"claim", "cancel", "lock", "transfer", "signal"}
        /\ s # NoSchedule
    BY OfferAssumption DEF Decoded, Creation
  <1>2. CASE ix.op = "claim"
    <2>1. ix.at \in Nat /\ ix.amount \in Nat /\ ~ix.private
      BY <1>2 DEF Decoded, Shielded
    <2>2. \/ ix.signer # s.beneficiary \/ ix.amount = 0
          \/ ix.amount > Claimable(s, ix.at) \/ ix.at > shard[id].last_seen
      BY <1>1, <1>2 DEF Told, Creation
    <2>3. Claimable(s, ix.at) = Owed(s, ix.at)
      BY DEF Claimable, Owed
    <2>4. Owed(s, ix.at) \in Int
      <3>1. WellFormed(s) /\ s.claimed \in Nat /\ s.total \in Nat
        BY SoundWellFormed, BoundsAssumption DEF Schedule, Amount
      <3>2. Vested(s, ix.at) \in 0..s.total
        BY <2>1, <3>1, VestedBounds
      <3>3. QED
        BY <3>1, <3>2 DEF Owed
    <2>5. shard[id].last_seen \in Int
      BY BoundsAssumption DEF Schedule, Time
    <2>6. QED
      BY <1>2, <2>1, <2>2, <2>3, <2>4, <2>5 DEF Accepts, Reached
  <1>3. CASE ix.op = "cancel"
    <2>1. \/ ix.signer # s.cancel_authority \/ ~s.cancelable
          \/ s.cancelled_at # 0 \/ ix.refund # Unvested(s, ix.at)
      BY <1>1, <1>3 DEF Told, Creation
    <2>2. s.cancelled_at = 0 => Unvested(s, ix.at) = s.total - Vested(s, ix.at)
      BY UnvestedUncut
    <2>3. QED
      BY <1>3, <2>1, <2>2 DEF Accepts
  <1>4. CASE ix.op = "lock"
    BY <1>1, <1>4 DEF Told, Creation, Accepts
  <1>5. CASE ix.op = "transfer"
    BY <1>1, <1>5 DEF Told, Creation, Accepts
  <1>6. CASE ix.op = "signal"
    <2>1. ix.index \in Nat /\ s.tranches \in Nat
      BY <1>6, BoundsAssumption DEF Decoded, Schedule
    <2>2. \/ ix.signer # s.milestone_authority
          \/ ix.index >= s.tranches \/ ix.index \in s.signalled
      BY <1>1, <1>6 DEF Told, Creation
    <2>3. QED
      BY <1>6, <2>1, <2>2 DEF Accepts
  <1>7. QED
    BY <1>1, <1>2, <1>3, <1>4, <1>5, <1>6
(* The replay is where the history is: nowhere before the creation, and at the
   schedule the next transaction found ever after. *)
Agrees(id, r, k) ==
  IF r[k].created
    THEN /\ r[k].st = Before(log, shard, id, k + 1)
         /\ Before(log, shard, id, k + 1) # NoSchedule
    ELSE /\ Before(log, shard, id, k + 1) = NoSchedule
         /\ \A j \in Listed(id) : k < j

(* One step of the replay, from where the history is. *)
LEMMA StepAgrees ==
  ASSUME HistoryInv, NEW id \in Id, Exists(id), FromCreation(id),
         NEW k \in 1..Len(log), NEW r, r = Replay(id, shard[id]), Agrees(id, r, k - 1)
  PROVE  /\ (k \in Listed(id) => Right(r, k)) => Agrees(id, r, k)
         /\ k \in Listed(id) => r[k].ok \in BOOLEAN
         /\ k \in Listed(id) /\ log[k].ok => Right(r, k) /\ r[k].ok
         /\ k \in Listed(id) /\ ~log[k].ok /\ Told(log[k], id) => Right(r, k)
  <1> DEFINE ix  == log[k].tx.ix
             s   == Before(log, shard, id, k)
             t   == Before(log, shard, id, k + 1)
             fin == shard[id]
  <1>1. /\ Len(log) \in Nat /\ DOMAIN log = 1..Len(log) /\ k \in DOMAIN log /\ k \in Nat
        /\ (k - 1) + 1 = k
    <2>1. PICK S : log \in Seq(S)
      BY DEF HistoryInv
    <2>2. QED
      BY <2>1
  <1>2. /\ Decoded(ix) /\ log[k].ok \in BOOLEAN /\ log[k].before[id] = s
        /\ Explained(ix, log[k].ok, id, s, t)
    BY <1>1 DEF HistoryInv, History, Before
  <1>3. /\ SoundShards(log[k].before) /\ SoundShards(shard)
        /\ fin \in Schedule /\ fin # NoSchedule
    BY <1>1, OfferAssumption
    DEF HistoryInv, SoundShards, Inductive, TypeOK, Sound, Exists
  <1>4. /\ s \in Schedule \cup {NoSchedule} /\ t \in Schedule \cup {NoSchedule}
        /\ s # NoSchedule => SoundTerms(s)
        /\ Onward(t, fin)
    <2>1. s \in Schedule \cup {NoSchedule} /\ (s # NoSchedule => SoundTerms(s))
      BY <1>2, <1>3 DEF SoundShards
    <2>2. CASE k + 1 \in DOMAIN log
      BY <2>1, <2>2 DEF Before, HistoryInv, History, SoundShards
    <2>3. CASE k + 1 \notin DOMAIN log
      BY <1>3, <2>1, <2>3, OnwardStill DEF Before
    <2>4. QED
      BY <2>2, <2>3
  <1>5. r[k] = ReplayAt(id, fin, k, r[k - 1])
    BY <1>1, ReplayDef
  <1>6. IF r[k - 1].created THEN r[k - 1].st = s /\ s # NoSchedule
        ELSE s = NoSchedule /\ \A j \in Listed(id) : k - 1 < j
    BY <1>1 DEF Agrees
  <1>7. Listed(id) \subseteq Nat
    BY <1>1 DEF Listed
  <1>8. CASE k \notin Listed(id)
    <2>1. r[k] = r[k - 1]
      BY <1>5, <1>8 DEF ReplayAt
    <2>2. t = s
      BY <1>1, <1>2, <1>8 DEF Explained, Listed
    <2>3. (\A j \in Listed(id) : k - 1 < j) => \A j \in Listed(id) : k < j
      BY <1>1, <1>7, <1>8
    <2>4. Agrees(id, r, k)
      BY <1>6, <2>1, <2>2, <2>3 DEF Agrees
    <2>5. QED
      BY <1>8, <2>4
  <1>9. ASSUME k \in Listed(id), ~r[k - 1].created
        PROVE  /\ r[k].ok \in BOOLEAN /\ (Right(r, k) => Agrees(id, r, k))
               /\ log[k].ok => Right(r, k) /\ r[k].ok
               /\ ~log[k].ok => ~Told(log[k], id)
    <2>1. s = NoSchedule /\ \A j \in Listed(id) : k - 1 < j
      BY <1>6, <1>9
    <2>2. Creation(ix)
      <3>1. PICK i \in Listed(id) :
              Creation(log[i].tx.ix) /\ \A j \in Listed(id) : i <= j
        BY DEF FromCreation
      <3>2. i = k
        BY <1>1, <1>7, <1>9, <2>1, <3>1
      <3>3. QED
        BY <3>1, <3>2
    <2>3. r[k] = [created |-> TRUE, st |-> FromTerms(id, ix, fin), ok |-> TRUE]
      BY <1>5, <1>9, <2>2 DEF ReplayAt, ReplayStep
    <2>4. r[k].created /\ r[k].st = FromTerms(id, ix, fin) /\ r[k].ok = TRUE
      BY <2>3
    <2>5. ~log[k].ok => ~Told(log[k], id)
      BY <1>2, <2>1 DEF Told
    <2>6. ASSUME log[k].ok PROVE Agrees(id, r, k)
      <3>1. t # NoSchedule /\ t = FromTerms(id, ix, t)
        BY <1>2, <1>9, <2>1, <2>6 DEF Explained, Explains, Listed
      <3>2. t.escrow = fin.escrow
        BY <1>4, <3>1 DEF Onward
      <3>3. FromTerms(id, ix, t) = FromTerms(id, ix, fin)
        BY <3>2 DEF FromTerms
      <3>4. QED
        BY <2>4, <3>1, <3>3 DEF Agrees
    <2>7. QED
      BY <1>2, <2>4, <2>5, <2>6 DEF Right
  <1>10. ASSUME k \in Listed(id), r[k - 1].created, Creation(ix)
         PROVE  /\ r[k].ok \in BOOLEAN /\ Right(r, k)
                /\ ~log[k].ok /\ Agrees(id, r, k)
    <2>1. r[k - 1].st = s /\ s # NoSchedule
      BY <1>6, <1>10
    <2>2. r[k] = [created |-> TRUE, st |-> s, ok |-> FALSE]
      BY <1>5, <1>10, <2>1 DEF ReplayAt, ReplayStep
    <2>3. ~log[k].ok
      BY <1>2, <1>10, <2>1 DEF Explained, Explains, Listed
    <2>4. t = s
      BY <1>2, <2>3 DEF Explained
    <2>5. r[k].created /\ r[k].st = s /\ r[k].ok = FALSE
      BY <2>2
    <2>6. QED
      BY <1>2, <2>1, <2>3, <2>4, <2>5 DEF Right, Agrees
  <1>11. ASSUME k \in Listed(id), r[k - 1].created, ~Creation(ix)
         PROVE  /\ r[k].ok \in BOOLEAN /\ (Right(r, k) => Agrees(id, r, k))
                /\ log[k].ok => Right(r, k) /\ r[k].ok
                /\ ~log[k].ok /\ Told(log[k], id) => Right(r, k)
    <2> DEFINE ok == Accepts(s, ix, fin)
    <2>1. r[k - 1].st = s /\ s # NoSchedule /\ s \in Schedule
      BY <1>4, <1>6, <1>11
    <2>2. ok \in BOOLEAN
      BY <1>2, <1>11, <2>1, AcceptsBoolean
    <2>3. r[k] = [created |-> r[k - 1].created \/ ~Shielded(ix),
                  st |-> IF ok THEN Replayed(s, ix) ELSE s, ok |-> ok]
      BY <1>5, <1>11, <2>1 DEF ReplayAt, ReplayStep
    <2> HIDE DEF ok
    <2>4. /\ r[k].created /\ r[k].ok = ok
          /\ r[k].st = IF ok THEN Replayed(s, ix) ELSE s
      <3> DEFINE c == r[k - 1].created \/ ~Shielded(ix)
                 u == IF ok THEN Replayed(s, ix) ELSE s
      <3>1. c
        BY <1>11
      <3>2. r[k] = [created |-> c, st |-> u, ok |-> ok]
        BY <2>3
      <3> HIDE DEF c, u
      <3>3. r[k].created = c /\ r[k].ok = ok /\ r[k].st = u
        BY <3>2
      <3>4. QED
        BY <3>1, <3>3 DEF u
    <2>5. ASSUME log[k].ok PROVE ok /\ Agrees(id, r, k)
      <3>1. Accepts(s, ix, t) /\ t = Replayed(s, ix)
        BY <1>2, <1>11, <2>5 DEF Explained, Explains, Listed
      <3>2. t # NoSchedule /\ t \in Schedule
        BY <1>2, <1>4, <2>1 DEF Explained, Onward
      <3>3. t.last_seen <= fin.last_seen
        BY <1>4, <3>2 DEF Onward
      <3>4. ok
        BY <1>2, <1>3, <1>11, <2>1, <3>1, <3>2, <3>3, AcceptsLater DEF ok
      <3>5. QED
        BY <2>4, <3>1, <3>2, <3>4 DEF Agrees
    <2>6. ASSUME ~log[k].ok PROVE ~ok => Agrees(id, r, k)
      <3>1. t = s
        BY <1>2, <2>6 DEF Explained
      <3>2. QED
        BY <2>1, <2>4, <3>1 DEF Agrees
    <2>7. ASSUME ~log[k].ok, Told(log[k], id) PROVE ~ok
      <3>1. ~Shielded(ix) /\ SoundTerms(s)
        BY <1>2, <1>4, <2>1, <2>7 DEF Explained
      <3>2. ~Accepts(log[k].before[id], log[k].tx.ix, shard[id])
        BY <1>2, <1>3, <1>11, <2>1, <2>7, <3>1, ToldRefuses
      <3>3. QED
        BY <1>2, <3>2 DEF ok
    <2>8. QED
      BY <1>2, <2>2, <2>4, <2>5, <2>6, <2>7 DEF Right
  <1>12. QED
    BY <1>8, <1>9, <1>10, <1>11
(* The replay stays with the history as long as its verdicts are right. *)
LEMMA AgreesWhileRight ==
  ASSUME HistoryInv, NEW id \in Id, Exists(id), FromCreation(id),
         NEW r, r = Replay(id, shard[id]), NEW n \in 0..Len(log),
         \A j \in Listed(id) : j <= n => Right(r, j)
  PROVE  Agrees(id, r, n)
  <1>1. Len(log) \in Nat /\ DOMAIN log = 1..Len(log)
    <2>1. PICK S : log \in Seq(S)
      BY DEF HistoryInv
    <2>2. QED
      BY <2>1
  <1> DEFINE Q == {m \in Nat : m <= n => Agrees(id, r, m)}
  <1>2. 0 \in Q
    <2>1. r[0] = ReplayStart(shard[id])
      BY <1>1, ReplayDef
    <2>2. ~r[0].created
      BY <2>1 DEF ReplayStart
    <2>3. Before(log, shard, id, 0 + 1) = NoSchedule
      BY DEF HistoryInv, History
    <2>4. \A j \in Listed(id) : 0 < j
      BY <1>1 DEF Listed
    <2>5. QED
      BY <2>2, <2>3, <2>4 DEF Agrees
  <1>3. ASSUME NEW m \in Q PROVE m + 1 \in Q
    <2>1. m \in Nat /\ (m + 1) - 1 = m
      OBVIOUS
    <2>2. CASE m + 1 <= n
      <3>1. m + 1 \in 1..Len(log) /\ m <= n
        BY <1>1, <2>1, <2>2
      <3>2. Agrees(id, r, (m + 1) - 1)
        BY <2>1, <3>1
      <3>3. m + 1 \in Listed(id) => Right(r, m + 1)
        BY <2>2
      <3>4. Agrees(id, r, m + 1)
        BY <3>1, <3>2, <3>3, StepAgrees
      <3>5. QED
        BY <2>1, <3>4
    <2>3. CASE ~(m + 1 <= n)
      BY <2>1, <2>3
    <2>4. QED
      BY <2>2, <2>3
  <1>4. Q = Nat
    <2>1. Q \in SUBSET Nat
      OBVIOUS
    <2> HIDE DEF Q
    <2>2. QED
      BY <1>2, <1>3, <2>1, NatSetInduction
  <1>5. n \in Nat /\ n <= n
    BY <1>1
  <1>6. QED
    BY <1>4, <1>5

(* The activity list never shows an applied transaction as refused before it has
   shown a refused one as applied (replayActivity of vesting_chain.cpp). *)
THEOREM ErrorsAreLenient == LedgerSpec => []FirstErrorIsLenient
  <1>1. HistoryInv => FirstErrorIsLenient
    <2>1. SUFFICES ASSUME HistoryInv, NEW id \in Id, Exists(id), FromCreation(id),
                          NEW r, r = Replay(id, shard[id]), NEW k \in Listed(id),
                          \A j \in Listed(id) : j < k => Right(r, j), ~Right(r, k)
                   PROVE  r[k].ok
      BY DEF FirstErrorIsLenient
    <2>2. k \in 1..Len(log) /\ Len(log) \in Nat /\ Listed(id) \subseteq Int
      <3>1. PICK S : log \in Seq(S)
        BY <2>1 DEF HistoryInv
      <3>2. QED
        BY <3>1 DEF Listed
    <2>3. /\ k - 1 \in 0..Len(log)
          /\ \A j \in Listed(id) : j <= k - 1 => Right(r, j)
      BY <2>1, <2>2
    <2>4. Agrees(id, r, k - 1)
      BY <2>1, <2>3, AgreesWhileRight
    <2>5. ~log[k].ok /\ r[k].ok \in BOOLEAN
      BY <2>1, <2>2, <2>4, StepAgrees
    <2>6. log[k].ok = FALSE
      BY <2>2, <2>5 DEF HistoryInv, Listed
    <2>7. QED
      BY <2>1, <2>5, <2>6 DEF Right
  <1>2. QED
    BY <1>1, LedgerAccounts, PTL
(* When the index lists no refusal the replay knows nothing of, every verdict is
   right and the replay ends at the schedule the chain holds. *)
THEOREM ToldReplaysRight == LedgerSpec => []ToldRefusalsReplayRight
  <1>1. HistoryInv => ToldRefusalsReplayRight
    <2>1. SUFFICES ASSUME HistoryInv, NEW id \in Id, NEW n \in 0..Len(log),
                          Exists(id), FromCreation(id),
                          NEW r, r = Replay(id, shard[id]),
                          \A k \in Listed(id) : k <= n => log[k].ok \/ Told(log[k], id)
                   PROVE  /\ \A k \in Listed(id) : k <= n => Right(r, k)
                          /\ n = Len(log) => Consistent(r[n], shard[id])
      BY DEF ToldRefusalsReplayRight
    <2>2. /\ Len(log) \in Nat /\ DOMAIN log = 1..Len(log)
          /\ Listed(id) \subseteq 1..Len(log)
      <3>1. PICK S : log \in Seq(S)
        BY <2>1 DEF HistoryInv
      <3>2. QED
        BY <3>1 DEF Listed
    <2> DEFINE Q == {m \in Nat : m <= n => \A k \in Listed(id) : k <= m => Right(r, k)}
    <2>3. 0 \in Q
      BY <2>2
    <2>4. ASSUME NEW m \in Q PROVE m + 1 \in Q
      <3>1. m \in Nat /\ (m + 1) - 1 = m
        OBVIOUS
      <3>2. CASE m + 1 <= n
        <4>1. m \in 0..Len(log) /\ m + 1 \in 1..Len(log) /\ m <= n
          BY <2>1, <2>2, <3>1, <3>2
        <4>2. \A k \in Listed(id) : k <= m => Right(r, k)
          BY <4>1
        <4>3. Agrees(id, r, (m + 1) - 1)
          BY <2>1, <3>1, <4>1, <4>2, AgreesWhileRight
        <4>4. m + 1 \in Listed(id) => Right(r, m + 1)
          BY <2>1, <3>2, <4>1, <4>3, StepAgrees
        <4>5. \A k \in Listed(id) : k <= m + 1 => k <= m \/ k = m + 1
          BY <2>2, <3>1
        <4>6. \A k \in Listed(id) : k <= m + 1 => Right(r, k)
          BY <4>2, <4>4, <4>5
        <4>7. QED
          BY <3>1, <4>6
      <3>3. CASE ~(m + 1 <= n)
        BY <3>1, <3>3
      <3>4. QED
        BY <3>2, <3>3
    <2>5. Q = Nat
      <3>1. Q \in SUBSET Nat
        OBVIOUS
      <3> HIDE DEF Q
      <3>2. QED
        BY <2>3, <2>4, <3>1, NatSetInduction
    <2>6. \A k \in Listed(id) : k <= n => Right(r, k)
      <3>1. n \in Nat /\ n <= n
        BY <2>2
      <3>2. QED
        BY <2>5, <3>1
    <2>7. ASSUME n = Len(log) PROVE Consistent(r[n], shard[id])
      <3>1. Agrees(id, r, n)
        BY <2>1, <2>6, AgreesWhileRight
      <3>2. Before(log, shard, id, n + 1) = shard[id]
        BY <2>2, <2>7 DEF Before
      <3>3. r[n].created /\ r[n].st = shard[id]
        BY <2>1, <3>1, <3>2 DEF Agrees, Exists
      <3>4. QED
        BY <3>3 DEF Consistent
    <2>8. QED
      BY <2>6, <2>7
  <1>2. QED
    BY <1>1, LedgerAccounts, PTL
=============================================================================
