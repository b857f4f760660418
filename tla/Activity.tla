------------------------------ MODULE Activity ------------------------------
(***************************************************************************)
(* The activity list of the desktop app (app/src/vesting_chain.cpp).  The  *)
(* explorer lists the transactions of a schedule's account without their   *)
(* outcomes, and its index trails the chain.  replayActivity executes the  *)
(* list against rules of its own to tell what applied from what was        *)
(* refused, and compares where it ends with the schedule the node holds.   *)
(*                                                                         *)
(* The app keeps no state between two lists: the model is a function of    *)
(* what the ledger included, and the properties quantify over every prefix *)
(* an index may have reached and over every later state of the schedule.   *)
(***************************************************************************)
EXTENDS Ledger

----------------------------------------------------------------------------
(* What the explorer lists for the account of a schedule. *)

Listed(id) == {k \in DOMAIN log : Names(log[k].tx.ix, id)}

----------------------------------------------------------------------------
(* The replay. *)

Creation(ix) == ix.op \in {"create", "batch"}

\* The schedule as created by ix, as the replay fills it in.
FromTerms(id, ix, fin) ==
  LET beneficiary ==
        IF ix.op = "create" THEN ix.beneficiary
        ELSE ix.payees[1 + CHOOSE i \in 0..Len(ix.payees)-1 :
                             BatchScheduleId[ix.batch][i] = id]
  IN  NewState(ix.signer, fin.escrow, beneficiary, ix.asset, ix.terms)

Emptied(s) ==
  [s EXCEPT !.claimed = 0, !.cancelled_at = 0, !.signalled = {}, !.last_seen = 0]

Reached_Before(ix, fin) == ix.at < fin.last_seen  \* mutant: off by one

\* An applied claim is not later than the last_seen the chain holds.
Reached(ix, fin) == ix.at <= fin.last_seen

Owed_Unclaimed(s, at) == Vested(s, at)            \* mutant: claims not deducted

Owed(s, at) == IF Vested(s, at) > s.claimed THEN Vested(s, at) - s.claimed ELSE 0

\* The rules of the replay: what it takes to have applied.
Accepts(s, ix, fin) ==
  CASE ix.op = "claim" ->
         \/ ix.private
         \/ /\ ix.signer = s.beneficiary
            /\ ix.amount > 0 /\ ix.amount <= Owed(s, ix.at)
            /\ Reached(ix, fin)
    [] ix.op = "cancel" ->
         /\ ix.signer = s.cancel_authority
         /\ s.cancelable /\ s.cancelled_at = 0
         /\ ix.refund = s.total - Vested(s, ix.at)
    [] ix.op = "lock" -> ix.signer = s.creator
    [] ix.op = "transfer" -> ix.signer = s.beneficiary /\ s.transferable
    [] ix.op = "signal" ->
         /\ ix.signer = s.milestone_authority
         /\ ix.index < s.tranches /\ ix.index \notin s.signalled

Later(t, at) == IF at > t THEN at ELSE t

\* What the replay makes of an instruction it accepted.
Replayed(s, ix) ==
  CASE ix.op = "claim" ->
         [s EXCEPT !.claimed = @ + ix.amount, !.last_seen = Later(@, ix.at)]
    [] ix.op = "cancel" ->
         [s EXCEPT !.cancelled_at = ix.at, !.last_seen = Later(@, ix.at)]
    [] ix.op = "lock" -> [s EXCEPT !.cancelable = FALSE]
    [] ix.op = "transfer" -> [s EXCEPT !.beneficiary = ix.new_beneficiary]
    [] ix.op = "signal" -> [s EXCEPT !.signalled = @ \cup {ix.index}]

\* One transaction of the list.  The first creation is taken to have applied.
\* When something else comes first, the creation is taken to be missing from
\* the index, and the replay starts from the schedule the node holds; a claim
\* into a shielded account only counts once it has started.
ReplayStep(id, r, ix, fin) ==
  IF Creation(ix)
    THEN IF r.created THEN [created |-> TRUE, st |-> r.st, ok |-> FALSE]
         ELSE [created |-> TRUE, st |-> FromTerms(id, ix, fin), ok |-> TRUE]
    ELSE LET s  == IF r.created THEN r.st ELSE Emptied(fin)
             ok == Accepts(s, ix, fin)
         IN  [created |-> r.created \/ ~Shielded(ix),
              st |-> IF ok THEN Replayed(s, ix) ELSE s, ok |-> ok]

\* The replay after each position of the log; `ok` is the verdict on the
\* transaction there, if it is listed.  An index that stops at a position knows
\* the replay up to there.
Replay(id, fin) ==
  LET replay[k \in 0..Len(log)] ==
        IF k = 0 THEN [created |-> FALSE, st |-> Emptied(fin), ok |-> FALSE]
        ELSE IF k \in Listed(id)
          THEN ReplayStep(id, replay[k - 1], log[k].tx.ix, fin)
          ELSE replay[k - 1]
  IN  replay

\* `consistent`, and the note that the result matches what the chain holds.
Consistent(r, fin) ==
  /\ r.created
  /\ r.st.claimed = fin.claimed
  /\ r.st.cancelled_at = fin.cancelled_at
  /\ r.st.signalled = fin.signalled
  /\ r.st.beneficiary = fin.beneficiary
  /\ r.st.cancelable = fin.cancelable

----------------------------------------------------------------------------
(* Correctness. *)

\* The index has the creation: it comes first.
FromCreation(id) ==
  \E k \in Listed(id) :
    Creation(log[k].tx.ix) /\ \A j \in Listed(id) : k <= j

Right(r, k) == r[k].ok = log[k].ok

\* The replay never calls an applied transaction refused out of the blue: the
\* first verdict it gets wrong, if any, is a refused transaction shown as
\* applied, wherever the index stops and however far the schedule has moved
\* since (last_seen never falls, and no rule of the replay is stricter than the
\* program's).
FirstErrorIsLenient ==
  \A id \in Id : Exists(id) /\ FromCreation(id) =>
    LET r == Replay(id, shard[id]) IN
    \A k \in Listed(id) :
      (\A j \in Listed(id) : j < k => Right(r, j)) /\ ~Right(r, k) => r[k].ok

\* The program refused this transaction for a reason the replay knows of too:
\* who signs, what is owed or refundable, a flag, a repeated signal, a time the
\* chain has not reached, an identifier that is taken.
Told(e, id) ==
  LET s == e.before[id] ix == e.tx.ix IN
  IF s = NoSchedule THEN FALSE
  ELSE CASE Creation(ix) -> TRUE
         [] ix.op = "claim" ->
              \/ ix.signer # s.beneficiary \/ ix.amount = 0
              \/ ix.amount > Claimable(s, ix.at)
              \/ ix.at > shard[id].last_seen
         [] ix.op = "cancel" ->
              \/ ix.signer # s.cancel_authority \/ ~s.cancelable
              \/ s.cancelled_at # 0 \/ ix.refund # Unvested(s, ix.at)
         [] ix.op = "lock" -> ix.signer # s.creator
         [] ix.op = "transfer" -> ix.signer # s.beneficiary \/ ~s.transferable
         [] ix.op = "signal" ->
              \/ ix.signer # s.milestone_authority
              \/ ix.index >= s.tranches \/ ix.index \in s.signalled

\* When every refusal in an index is one the replay knows, all its verdicts are
\* right, and an index that has caught up ends where the chain is.
ToldRefusalsReplayRight ==
  \A id \in Id, n \in 0..Len(log) :
    Exists(id) /\ FromCreation(id) =>
      LET r == Replay(id, shard[id]) IN
      (\A k \in Listed(id) : k <= n => log[k].ok \/ Told(log[k], id)) =>
        /\ \A k \in Listed(id) : k <= n => Right(r, k)
        /\ n = Len(log) => Consistent(r[n], shard[id])
=============================================================================
