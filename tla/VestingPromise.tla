--------------------------- MODULE VestingPromise ---------------------------
(***************************************************************************)
(* What the vesting program promises the people who use it, with no clock, *)
(* no schedule kinds, no escrow accounts and no instructions: every grant  *)
(* has a purse of its own.                                                 *)
(*                                                                         *)
(* A purse is filled once, with exactly the grant's total.  The part that  *)
(* is earned only grows, except that one revocation, while the grant is    *)
(* still revocable, fixes it for good at a value no smaller than what has  *)
(* been paid, and returns the rest, exactly, to the refund account.  A     *)
(* payment never exceeds what is earned.  Purses never mix.                *)
(***************************************************************************)
EXTENDS Integers, FiniteSets

CONSTANTS
  Account, Party, Asset, Id,
  Opening,          \* [Account -> [Asset -> Nat]], the wallets at the start
  NoGrant

VARIABLES
  grant,   \* grant[id]: the terms and progress of a grant, or NoGrant
  earned,  \* earned[id]: the part of the grant the beneficiary has earned
  wallet   \* wallet[p][a]: what account p holds of asset a

Open(id) == grant[id] # NoGrant

Accruing(id) == Open(id) /\ grant[id].standing # "revoked"

\* What is left in the purse of grant id.
Purse(id) ==
  (IF Accruing(id) THEN grant[id].total ELSE earned[id]) - grant[id].paid

Init ==
  /\ grant = [id \in Id |-> NoGrant]
  /\ earned = [id \in Id |-> 0]
  /\ wallet = Opening

\* A payment into an account that is not a wallet leaves the wallets alone.
Credit(to, asset, amount) ==
  wallet' = [p \in Account |->
               IF p = to THEN [wallet[p] EXCEPT ![asset] = @ + amount]
                         ELSE wallet[p]]

Debit(from, asset, amount) ==
  /\ amount <= wallet[from][asset]
  /\ wallet' = [wallet EXCEPT ![from][asset] = @ - amount]

\* One funder opens some grants at once, on the same terms, paying for each.
OpenGrants(ids, from, asset, total, refundTo, standing) ==
  /\ ids # {} /\ \A id \in ids : ~Open(id)
  /\ Debit(from, asset, total * Cardinality(ids))
  /\ grant' = [id \in Id |->
                 IF id \in ids
                   THEN [asset |-> asset, total |-> total, refundTo |-> refundTo,
                         paid |-> 0, standing |-> standing]
                   ELSE grant[id]]
  /\ earned' \in [Id -> Nat]
  /\ \A id \in Id : IF id \in ids THEN earned'[id] <= total
                                 ELSE earned'[id] = earned[id]

\* Time or a milestone: grants that are not revoked may earn more.
Accrue ==
  /\ earned' \in [Id -> Nat]
  /\ \A id \in Id : IF Accruing(id)
                      THEN earned'[id] \in earned[id]..grant[id].total
                      ELSE earned'[id] = earned[id]
  /\ UNCHANGED <<grant, wallet>>

Pay(id, amount, to) ==
  /\ Open(id)
  /\ amount <= earned[id] - grant[id].paid
  /\ grant' = [grant EXCEPT ![id].paid = @ + amount]
  /\ Credit(to, grant[id].asset, amount)
  /\ UNCHANGED earned

Revoke(id, share) ==
  /\ Open(id) /\ grant[id].standing = "revocable"
  /\ share >= grant[id].paid
  /\ grant' = [grant EXCEPT ![id].standing = "revoked"]
  /\ earned' = [earned EXCEPT ![id] = share]
  /\ Credit(grant[id].refundTo, grant[id].asset, grant[id].total - share)

\* The funder gives up the power to revoke.
Waive(id) ==
  /\ Open(id) /\ grant[id].standing = "revocable"
  /\ grant' = [grant EXCEPT ![id].standing = "irrevocable"]
  /\ UNCHANGED <<earned, wallet>>

\* Money somebody gives away to an escrow enters no purse.
Give(from, asset, amount) ==
  /\ Debit(from, asset, amount)
  /\ UNCHANGED <<grant, earned>>

Next ==
  \/ Accrue
  \/ \E id \in Id : Open(id) /\ \E amount \in 1..grant[id].total, to \in Party :
       Pay(id, amount, to)
  \/ \E id \in Id : Open(id) /\ \E share \in 0..grant[id].total : Revoke(id, share)
  \/ \E id \in Id : Waive(id)
  \/ \E from \in Account, asset \in Asset :
       \E amount \in 1..wallet[from][asset] : Give(from, asset, amount)
  \/ \E ids \in SUBSET Id, from \in Account, asset \in Asset,
        refundTo \in Party, standing \in {"revocable", "irrevocable"} :
       \E total \in 1..wallet[from][asset] :
         OpenGrants(ids, from, asset, total, refundTo, standing)

Spec == Init /\ [][Next]_<<grant, earned, wallet>>
=============================================================================
