------------------------------- MODULE Client -------------------------------
(***************************************************************************)
(* One command of antumbra-vesting (cli/src/main.rs) that sends an         *)
(* instruction, from the first read to the line it prints.                 *)
(*                                                                         *)
(* The command reads the chain several times, and blocks come in between.  *)
(* It sends at most three transactions, each under the nonce the payer has *)
(* on the chain at that moment, waits for each, and tells what became of   *)
(* them by comparing the schedule's shard before and after.  The network   *)
(* may hold a transaction for any time, drop it, or lose the answer to a   *)
(* submission that arrived; others use the schedule and the payer.         *)
(***************************************************************************)
EXTENDS Ledger

CONSTANTS
  Commands,      \* what the user may ask for: an instruction each, whose `at`
                 \* is an offset from now, and whose amount or refund
                 \* may be Default
  Default,       \* an amount or a refund the command works out itself, and
                 \* the asset, which it always takes from the schedule
  Attempts,      \* 3 in the code
  Existing,      \* the schedules the command may find: <<terms, creator, payee, asset>>
  PollsMayFail,  \* whether a poll can miss an included transaction
  MaxElsewhere,  \* bound: transactions the payer sends elsewhere
  None           \* nothing read, built or found yet

VARIABLES
  nonce,  \* the payer's nonce on the chain
  pool,   \* our transactions submitted and not included
  cli     \* the local variables of the command; `height`, which the code does
          \* not have, is how much blocks had included when `before` was read

clientVars == <<now, shard, bal, log, nonce, pool, cli>>

OrDefault(x, default) == IF x = Default THEN default ELSE x

ASSUME ExistingAssumption ==
  \A e \in Existing :
    /\ e[1] \in Terms /\ ValidTerms(e[1])
    /\ e[2] \in Account /\ e[3] \in Account /\ e[4] \in Asset
    /\ e[1].total <= InitialBalance[e[2]][e[4]]

\* A claim and a cancellation as they are asked for.
Claims ==
  [op: {"claim"}, signed: {TRUE}, id: Id, seed: Id, asset: {Default},
   amount: Nat \cup {Default}, at: Int, signer: Account, destination: Party,
   private: BOOLEAN]

Cancels ==
  [op: {"cancel"}, signed: {TRUE}, id: Id, seed: Id, asset: {Default},
   refund: Nat \cup {Default}, at: Int, signer: Account]

ASSUME CommandsAssumption ==
  /\ Attempts \in Nat \ {0} /\ PollsMayFail \in BOOLEAN
  /\ \A c \in Commands :
       \/ c.op \in {"create", "batch", "lock", "transfer", "signal"} /\ Decoded(c)
       \/ c \in Claims \cup Cancels /\ Genesis + c.at >= 0

----------------------------------------------------------------------------
(* The chain between the steps of the command. *)

Landed(n) == \E k \in DOMAIN log : log[k].tx.by = n

\* A block takes one of our transactions: only under the payer's next nonce,
\* which it uses up whether the program applies it or not.  One that is never
\* taken was dropped.
IncludeOurs ==
  \E tx \in pool :
    /\ tx.nonce = nonce
    /\ Include(tx)
    /\ pool' = pool \ {tx}
    /\ nonce' = nonce + 1
    /\ UNCHANGED cli

OthersMove ==
  /\ \/ LedgerTick
     \/ \E tx \in OthersTx : Include(tx)
  /\ UNCHANGED <<nonce, pool, cli>>

PayerElsewhere ==
  /\ nonce < MaxElsewhere + Cardinality({k \in DOMAIN log : log[k].tx.by # 0})
  /\ nonce' = nonce + 1
  /\ UNCHANGED <<now, shard, bal, log, pool, cli>>

----------------------------------------------------------------------------
(* The command. *)

Goes(c) ==
  /\ cli' = c
  /\ UNCHANGED <<now, shard, bal, log, nonce>>

\* The schedule a command looks at: of a batch its first.
Watches(c) == IF c.op = "batch" THEN BatchScheduleId[c.batch][0] ELSE c.id

Watched == shard[Watches(cli.cmd)]

Fails == Goes([cli EXCEPT !.pc = "done", !.verdict = "failed"])

\* claim and cancel read the schedule first, and fail when there is none.
ReadSchedule ==
  /\ cli.pc = "start" /\ cli.cmd.op \in {"claim", "cancel"}
  /\ IF Watched = NoSchedule THEN Fails
     ELSE Goes([cli EXCEPT !.pc = "build", !.seen = Watched])
  /\ UNCHANGED pool

\* The other instructions are sent as they were asked for.
BuildOther ==
  /\ cli.pc = "start" /\ cli.cmd.op \notin {"claim", "cancel"}
  /\ Goes([cli EXCEPT !.pc = "before", !.ix = cli.cmd])
  /\ UNCHANGED pool

RefusesHere_Never(amount, owed) == FALSE          \* mutant: no local check

\* Without --force.
RefusesHere(amount, owed) == amount = 0 \/ amount > owed

\* The time is `now`, `now+..` or `now-..`, by the clock as it stands once the
\* schedule was read; the amount is worked out from the schedule that was read.
BuildClaim ==
  /\ cli.pc = "build" /\ cli.cmd.op = "claim"
  /\ LET at     == now + cli.cmd.at
         owed   == Claimable(cli.seen, at)
         amount == OrDefault(cli.cmd.amount, owed)
     IN  IF RefusesHere(amount, owed) THEN Fails
         ELSE Goes([cli EXCEPT !.pc = "before",
                    !.ix = [cli.cmd EXCEPT !.at = at, !.amount = amount,
                                           !.asset = cli.seen.asset]])
  /\ UNCHANGED pool

BuildCancel ==
  /\ cli.pc = "build" /\ cli.cmd.op = "cancel"
  /\ LET at     == now + cli.cmd.at
         exact  == Unvested(cli.seen, at)
         refund == OrDefault(cli.cmd.refund, exact)
     IN  IF refund # exact THEN Fails
         ELSE Goes([cli EXCEPT !.pc = "before",
                    !.ix = [cli.cmd EXCEPT !.at = at, !.refund = refund,
                                           !.asset = cli.seen.asset]])
  /\ UNCHANGED pool

\* send_public reads the shard once, before the first attempt.
ReadBefore ==
  /\ cli.pc = "before"
  /\ Goes([cli EXCEPT !.pc = "send", !.before = Watched, !.height = Len(log),
                      !.attempt = 1])
  /\ UNCHANGED pool

BeforeOf_Reread(before) == Watched                \* mutant: read at every attempt

BeforeOf(before) == before

Again_Rebuilt(ix) ==                              \* mutant: worked out anew
  IF ix.op = "claim"
    THEN [ix EXCEPT !.at = now, !.amount = Claimable(Watched, now)] ELSE ix

\* Every attempt carries the instruction built before the first.
Again(ix) == ix

Tx(n) == [by |-> n, nonce |-> nonce, ix |-> Again(cli.ix)]

\* An attempt: signed with the nonce the chain has now, and submitted.
Send ==
  /\ cli.pc = "send"
  /\ pool' = pool \cup {Tx(cli.attempt)}
  /\ Goes([cli EXCEPT !.pc = "look", !.look = 1, !.sent = Append(cli.sent, cli.attempt),
           !.before = BeforeOf(cli.before)])

\* The submission fails, or its answer is lost.  With nothing to look for, the
\* command reports it as rejected; otherwise it goes on looking.
SendFails ==
  /\ cli.pc = "send"
  /\ pool' \in {pool, pool \cup {Tx(cli.attempt)}}
  /\ IF cli.sent = << >>
       THEN Goes([cli EXCEPT !.pc = "done", !.verdict = "rejected"])
       ELSE Goes([cli EXCEPT !.pc = "look", !.look = 1])

\* poll_transaction finds the transaction.
Found ==
  /\ cli.pc = "look"
  /\ Landed(cli.sent[cli.look])
  /\ Goes([cli EXCEPT !.pc = "after", !.found = cli.sent[cli.look]])
  /\ UNCHANGED pool

GivesUp_Never(n) == FALSE                         \* mutant: no timeout

\* The wait ends after 5 s or 300 s, or at once when the poll itself fails:
\* then also for a transaction that was included.
GivesUp(n) == PollsMayFail \/ ~Landed(n)

\* A claim into a shielded account is sent once, with its proof.
Limit == IF Shielded(cli.cmd) THEN 1 ELSE Attempts

\* The other attempts in order, then the next attempt, then the report.
Missed ==
  /\ cli.pc = "look"
  /\ GivesUp(cli.sent[cli.look])
  /\ IF cli.look < Len(cli.sent)
       THEN Goes([cli EXCEPT !.look = cli.look + 1])
       ELSE IF cli.attempt < Limit
         THEN Goes([cli EXCEPT !.pc = "send", !.attempt = cli.attempt + 1])
         ELSE Goes([cli EXCEPT !.pc = "after"])
  /\ UNCHANGED pool

Verdict_Included(found, before, after) ==         \* mutant: included means applied
  IF found = None THEN "not-included" ELSE "applied"

Verdict(found, before, after) ==
  IF found = None THEN "not-included"
  ELSE IF after # before THEN "applied"
  ELSE "reverted"

ReportFound ==
  /\ cli.pc = "after"
  /\ Goes([cli EXCEPT !.pc = "done", !.verdict = Verdict(cli.found, cli.before, Watched)])
  /\ UNCHANGED pool

Step ==
  \/ ReadSchedule \/ BuildClaim \/ BuildCancel \/ BuildOther
  \/ ReadBefore \/ Send \/ SendFails \/ Found \/ Missed \/ ReportFound

----------------------------------------------------------------------------
\* The ledger when the command starts: with no schedule, or with one just
\* created; `log` is what it includes from then on.
ClientInit ==
  /\ \/ LedgerInit
     \/ \E e \in Existing, c \in Commands :
          /\ now = Genesis
          /\ log = << >>
          /\ shard = [id \in Id |-> IF id # Watches(c) THEN NoSchedule
                        ELSE NewState(e[2], Holding(id), e[3], e[4], e[1])]
          /\ bal = Moved([p \in Party |-> [a \in Asset |->
                            IF p \in Account THEN InitialBalance[p][a] ELSE 0]],
                         e[2], Holding(Watches(c)), e[4], e[1].total)
  /\ nonce = 0 /\ pool = {}
  /\ cli \in [cmd: Commands, pc: {"start"}, seen: {None}, ix: {None},
              before: {None}, height: {0}, attempt: {0}, sent: {<< >>}, look: {0},
              found: {None}, verdict: {None}]

ClientNext == IncludeOurs \/ OthersMove \/ PayerElsewhere \/ Step

\* Every read, submission and wait of the command ends.
ClientSpec == ClientInit /\ [][ClientNext]_clientVars /\ WF_clientVars(Step)

----------------------------------------------------------------------------
(* Correctness. *)

Ours == {k \in DOMAIN log : log[k].tx.by # 0}

Applied == {k \in Ours : log[k].ok}

Reports(verdict) == cli.pc # "done" /\ cli'.pc = "done" /\ cli'.verdict = verdict

\* "reverted" is true of every attempt: none of them has applied, whichever one
\* was found, whoever else changed the schedule, and however the attempts
\* overtook each other.  Not of a transfer, which a later one can undo.
RevertedIsTrue ==
  [][Reports("reverted") /\ cli.cmd.op # "transfer" => Applied = {}]_clientVars

\* The commands the program lets repeat: a claim of a named amount, and a claim
\* of milestones (a signal makes more of them due).
Repeatable ==
  /\ cli.cmd.op = "claim"
  /\ cli.cmd.amount # Default \/ cli.seen = None \/ cli.seen.kind = "milestone"

\* Nobody else's transaction applied to the schedule since it was read.
Undisturbed ==
  \A k \in DOMAIN log :
    k > cli.height /\ log[k].ok /\ Names(log[k].tx.ix, Watches(cli.cmd)) =>
      log[k].tx.by # 0

\* What the instruction ix is sent to do to the schedule.
Intended(ix, s, t) ==
  /\ t # NoSchedule
  /\ s = NoSchedule <=> ix.op \in {"create", "batch"}
  /\ ix.op = "claim" => t.claimed = s.claimed + ix.amount
  /\ ix.op = "cancel" => s.cancelled_at = 0 /\ t.cancelled_at # 0
  /\ ix.op = "lock" => s.cancelable /\ ~t.cancelable
  /\ ix.op = "transfer" => t.beneficiary = ix.new_beneficiary
  /\ ix.op = "signal" =>
       ix.index \notin s.signalled /\ t.signalled = s.signalled \cup {ix.index}

\* "applied" is true as long as nobody else's transaction applied to the schedule
\* meanwhile: then it changed as the instruction intends, and once, although
\* several attempts may have landed and the one found may have been refused.
AppliedAsIntended ==
  [][Reports("applied") /\ Undisturbed /\ ~Repeatable =>
       Intended(cli.ix, cli.before, Watched)]_clientVars

\* What the command works out and checks before it sends is what the program
\* asks for, and an escrow can always pay it: the program refuses a claim or a
\* cancellation only when the schedule is no longer the one that was read, or
\* for a reason the command does not look at: the row it names (its signer and
\* escrow), the transaction's window, or, of a cancellation, a schedule that
\* cannot be cancelled and a time before the last claim.
RefusedHasCause ==
  [][LET ix == cli.ix
         s  == cli.seen
     IN  (Len(log') > Len(log) /\ log'[Len(log')].tx.by # 0
            /\ ~log'[Len(log')].ok /\ ix.op \in {"claim", "cancel"}) =>
           \/ Watched # s
           \/ ~RightEscrow(s, ix.seed)
           \/ /\ ix.op = "claim"
              /\ ix.signer # s.beneficiary \/ ~ClaimWindowOpen(ix.at)
           \/ /\ ix.op = "cancel"
              /\ \/ ~MayCancel(s, ix.signer) \/ ~CancelWindowOpen(ix.at)
                 \/ ~NotBeforeLastClaim(s, ix.at)
    ]_clientVars

\* Sending again does not do it again: of the attempts of a command at most one
\* applies, although two of them may land.  Except where the program itself
\* allows a repetition, a transfer among them.
AppliesOnce ==
  ~Repeatable /\ cli.cmd.op # "transfer" => Cardinality(Applied) <= 1

\* The command reports, also when everything it sends is dropped.
Reported == <>(cli.pc = "done")

\* "they share a nonce and at most one lands; every earlier attempt is looked
\* for before the next is sent" (cli/src/main.rs).
AtMostOneLands == Cardinality(Ours) <= 1
=============================================================================
