--------------------------------- MODULE App ---------------------------------
(***************************************************************************)
(* The desktop app: the view (app/src/qml/Main.qml) asks, the backend      *)
(* (antumbra_lez_backend.cpp) answers later, by token, out of a chain that *)
(* it reads in several requests (vesting_chain.cpp).  Each request goes to *)
(* the node the settings name when it is sent; the user meanwhile opens    *)
(* another schedule, closes it, prepares a claim or saves new settings.    *)
(***************************************************************************)
EXTENDS Naturals

CONSTANTS
  Account,    \* schedule accounts
  Node,       \* settings: a node, its explorer and a program on it
  Person,     \* beneficiaries
  Holder,     \* the beneficiaries at first: [Account -> Person]
  None,
  MaxEvents   \* bound: questions asked, saves of the settings and changes of a
              \* beneficiary on the beneficiary, together

ASSUME AppAssumption ==
  /\ Holder \in [Account -> Person]
  /\ None \notin Account \cup Person
  /\ MaxEvents \in Nat

VARIABLES
  settings,       \* the node and program in force in the backend
  saving,         \* how many saves the view has not been told of yet
  waiting,        \* the questions in flight
  looking,        \* the lookup's spinner
  detail,         \* the schedule shown
  detailState,
  activity,       \* its activity list
  activityState,
  sheet,          \* the schedule the open claim sheet was filled from
  claimCtx,       \* the fee and the balance that the claim sheet shows
  claimCtxState,  \* their spinner
  beneficiary,    \* on the chain
  events,         \* how often the bounded actions happened
  overlapped,     \* history: a question was in flight when the view moved on
  outdated        \* history: the beneficiary shown changed under the claim sheet,
                  \* since it was opened or last filled in

claim == <<sheet, claimCtx, claimCtxState>>
view == <<looking, detail, detailState, activity, activityState, claim>>
back == <<settings, saving>>
vars == <<view, back, beneficiary, waiting, events, overlapped, outdated>>

\* Whether requests that answer a question follow one another or, of one round,
\* are sent together.  Longer sequences add nothing: what is read is read before
\* or after the settings change.
Requests == [lookup |-> 2, open |-> 2, refresh |-> 2, activity |-> 2, claim |-> 1]

\* A schedule as it is shown: as it was read, and from where.
Shown == [account: Account, beneficiary: Person, read: SUBSET Node]

ASSUME NoneAssumption == None \notin Shown

Init ==
  /\ settings \in Node
  /\ saving = 0
  /\ waiting = {}
  /\ looking = FALSE
  /\ detail = None
  /\ detailState = "idle"
  /\ activity = None
  /\ activityState = "idle"
  /\ sheet = None
  /\ claimCtx = None
  /\ claimCtxState = "idle"
  /\ beneficiary = Holder
  /\ events = 0
  /\ overlapped = FALSE /\ outdated = FALSE

----------------------------------------------------------------------------
(* Asking. *)

AskedOf(kind, a, withActivity, person) ==
  [kind |-> kind, account |-> a, withActivity |-> withActivity,
   left |-> Requests[kind], read |-> {settings}, person |-> person]

WithToken(q, k) ==
  [f \in DOMAIN q \cup {"token"} |-> IF f = "token" THEN k ELSE q[f]]

\* A token tells a question from the others in flight, nothing more: the code's
\* counter is never reused, this one is, by questions that differ otherwise.
Tokened(q, others) ==
  WithToken(q, CHOOSE k \in 1..MaxEvents :
                 /\ WithToken(q, k) \notin others
                 /\ \A j \in 1..(k - 1) : WithToken(q, j) \in others)

\* The questions still in flight are `others`.
Ask(kind, a, withActivity, person, others) ==
  /\ events < MaxEvents
  /\ events' = events + 1
  /\ waiting' = others \cup {Tokened(AskedOf(kind, a, withActivity, person), others)}

\* Reads that may replace the schedule shown.
Showing == {q \in waiting : q.kind \in {"lookup", "open", "refresh"}}

\* The claim sheet is a modal dialog.  The settings are another, which can be
\* closed while a save is answered.
HandsFree == sheet = None

MovesOn(inFlight) == overlapped' = (overlapped \/ inFlight # {})

Lookup(a) ==
  /\ HandsFree
  /\ looking' = TRUE
  /\ Ask("lookup", a, FALSE, beneficiary[a], waiting)
  /\ MovesOn(Showing)
  /\ UNCHANGED <<detail, detailState, activity, activityState, claim, back, beneficiary,
                 outdated>>

Open(a) ==
  /\ HandsFree
  /\ detail' = None
  /\ detailState' = "loading"
  /\ activity' = None
  /\ activityState' = "idle"
  /\ Ask("open", a, FALSE, beneficiary[a], waiting)
  /\ MovesOn(Showing)
  /\ UNCHANGED <<looking, claim, back, beneficiary, outdated>>

\* The arrow asks for the activity too; the timer, every minute, does not and
\* runs under a dialog as well.
RefreshDetail(withActivity) ==
  /\ withActivity => HandsFree
  /\ detail # None /\ detailState = "ready"
  /\ Ask("refresh", detail.account, withActivity, detail.beneficiary, waiting)
  /\ UNCHANGED <<view, back, beneficiary, overlapped, outdated>>

Closed ==
  /\ detail' = None
  /\ detailState' = "idle"
  /\ activity' = None
  /\ sheet' = None

CloseDetail ==
  /\ HandsFree
  /\ detailState # "idle"
  /\ Closed
  /\ MovesOn(Showing)
  /\ UNCHANGED <<looking, activityState, claimCtx, claimCtxState, back, beneficiary,
                 waiting, events, outdated>>

PrepareClaim ==
  /\ HandsFree
  /\ detail # None /\ detailState = "ready"
  /\ sheet' = detail.account
  /\ claimCtx' = None
  /\ claimCtxState' = "loading"
  /\ outdated' = FALSE
  /\ Ask("claim", detail.account, FALSE, detail.beneficiary, waiting)
  /\ MovesOn(Showing)
  /\ UNCHANGED <<looking, detail, detailState, activity, activityState,
                 back, beneficiary>>

CloseSheet ==
  /\ sheet # None
  /\ sheet' = None
  /\ UNCHANGED <<looking, detail, detailState, activity, activityState, claimCtx,
                 claimCtxState, back, beneficiary, waiting, events, overlapped, outdated>>

----------------------------------------------------------------------------
(* Answering. *)

\* One request is answered and the next is sent, to the node then in force.
Continue(q) ==
  /\ q.left > 1
  /\ LET next == [q EXCEPT !.left = @ - 1, !.read = @ \cup {settings},
                           !.person = beneficiary[q.account]]
     IN  waiting' = (waiting \ {q}) \cup {Tokened(next, waiting \ {q})}
  /\ UNCHANGED <<view, back, beneficiary, events, overlapped, outdated>>

Read(q) == [account |-> q.account, beneficiary |-> q.person, read |-> q.read]

StillShown_Any(a) == detail # None                \* mutant: whatever is shown

\* Answers about a schedule that is not the one shown are dropped.
StillShown(a) == detail # None /\ detail.account = a

\* The claim sheet keeps its amount, its destination and its figures.
Replaces(q) ==
  /\ detail' = Read(q)
  /\ outdated' = (outdated \/ (sheet # None /\ detail.beneficiary # q.person))

ShowDetail(q) ==
  /\ Replaces(q)
  /\ detailState' = "ready"
  /\ activity' = None
  /\ activityState' = "loading"
  /\ Ask("activity", q.account, FALSE, q.person, waiting \ {q})

LookupAnswered(q) ==
  /\ q.kind = "lookup"
  /\ looking' = FALSE
  /\ ShowDetail(q)
  /\ UNCHANGED claim

OpenAnswered(q) ==
  /\ q.kind = "open"
  /\ ShowDetail(q)
  /\ UNCHANGED <<looking, claim>>

RefreshAnswered(q) ==
  /\ q.kind = "refresh"
  /\ StillShown(q.account)
  /\ Replaces(q)
  /\ IF q.withActivity
       THEN /\ activityState' = "loading"
            /\ Ask("activity", q.account, FALSE, q.person, waiting \ {q})
       ELSE UNCHANGED activityState /\ waiting' = waiting \ {q} /\ UNCHANGED events
  /\ UNCHANGED <<looking, detailState, activity, claim>>

\* Without an explorer the list says so: the answer is shown like any other.
ActivityAnswered(q) ==
  /\ q.kind = "activity"
  /\ StillShown(q.account)
  /\ activity' = [account |-> q.account, read |-> q.read]
  /\ activityState' = "ready"
  /\ waiting' = waiting \ {q}
  /\ UNCHANGED <<events, looking, detail, detailState, claim, outdated>>

StillBenefits_Any(p) == detail # None             \* mutant: whoever it is

StillBenefits(p) == detail # None /\ detail.beneficiary = p

\* A failure is shown as figures that were not read.
ClaimAnswered(q) ==
  /\ q.kind = "claim"
  /\ StillBenefits(q.person)
  /\ claimCtx' \in {[person |-> q.person, read |-> q.read], None}
  /\ claimCtxState' = "ready"
  /\ outdated' = FALSE
  /\ waiting' = waiting \ {q}
  /\ UNCHANGED <<events, looking, detail, detailState, activity, activityState, sheet>>

\* The handlers that return early, the claim's before it ends the spinner.
Dropped(q) ==
  /\ \/ q.kind \in {"refresh", "activity"} /\ ~StillShown(q.account)
     \/ q.kind = "claim" /\ ~StillBenefits(q.person)
  /\ waiting' = waiting \ {q}
  /\ UNCHANGED <<view, events, outdated>>

Answered(q) ==
  /\ q.left = 1
  /\ \/ LookupAnswered(q)
     \/ OpenAnswered(q)
     \/ RefreshAnswered(q)
     \/ ActivityAnswered(q)
     \/ ClaimAnswered(q)
     \/ Dropped(q)
  /\ UNCHANGED <<back, beneficiary, overlapped>>

TellsFailure_Silent == FALSE                      \* mutant: error passed over

\* A request fails or times out after 20 s, or there is no such schedule.  The
\* other questions have handlers that show the error as the answer.
TellsFailure == TRUE

Failed(q) ==
  /\ q.kind \in {"lookup", "open", "refresh"}
  /\ waiting' = waiting \ {q}
  /\ looking' = (looking /\ q.kind # "lookup")
  /\ detailState' = IF q.kind = "open" /\ TellsFailure THEN "error" ELSE detailState
  /\ UNCHANGED <<detail, activity, activityState, claim, events, back, beneficiary,
                 overlapped, outdated>>

----------------------------------------------------------------------------
(* The settings, and the chain. *)

Save(n) ==
  /\ HandsFree
  /\ events < MaxEvents
  /\ events' = events + 1
  /\ settings' = n
  /\ saving' = saving + 1
  /\ MovesOn(waiting)
  /\ UNCHANGED <<view, beneficiary, waiting, outdated>>

CloseOnSave_Not == UNCHANGED <<detail, detailState, activity, sheet>>  \* mutant

CloseOnSave == Closed

\* The view hears that the settings were saved.
Saved ==
  /\ saving > 0
  /\ saving' = saving - 1
  /\ CloseOnSave
  /\ UNCHANGED <<looking, activityState, claimCtx, claimCtxState, settings, beneficiary,
                 waiting, events, overlapped, outdated>>

\* Somebody else's transaction: external.
TransferBeneficiary(a, p) ==
  /\ events < MaxEvents
  /\ events' = events + 1
  /\ p # beneficiary[a]
  /\ beneficiary' = [beneficiary EXCEPT ![a] = p]
  /\ UNCHANGED <<view, back, waiting, overlapped, outdated>>

Next ==
  \/ \E a \in Account : Lookup(a) \/ Open(a)
  \/ \E withActivity \in BOOLEAN : RefreshDetail(withActivity)
  \/ CloseDetail
  \/ PrepareClaim
  \/ CloseSheet
  \/ \E q \in waiting : Continue(q) \/ Answered(q) \/ Failed(q)
  \/ \E n \in Node : Save(n)
  \/ Saved
  \/ \E a \in Account, p \in Person : TransferBeneficiary(a, p)

Spec == Init /\ [][Next]_vars

----------------------------------------------------------------------------
(* Correctness. *)

\* The activity list under a schedule is that schedule's, whatever was opened
\* and closed while the explorer was read.
ActivityOfShown ==
  activity # None => detail # None /\ activity.account = detail.account

Awaited(kind, a) == \E q \in waiting : q.kind = kind /\ q.account = a

\* While the view says that it reads, a question that will end it is in flight.
\* The claim sheet's spinner is the exception: once another beneficiary is shown
\* under the sheet, the answer is dropped and it turns until the sheet is closed.
SpinnersHaveACause ==
  /\ detailState = "loading" => \E a \in Account : Awaited("open", a)
  /\ activityState = "loading" /\ detail # None => Awaited("activity", detail.account)
  /\ looking => \E a \in Account : Awaited("lookup", a)
  /\ sheet # None /\ claimCtxState = "loading" /\ ~outdated =>
       \E q \in waiting : q.kind = "claim" /\ q.person = detail.beneficiary

\* If the settings never changed and the view never moved on under a question in
\* flight, all that is shown was read, whole, from the node in force.
ShownFromNodeInForce ==
  ~overlapped /\ saving = 0 =>
    /\ detail # None => detail.read = {settings}
    /\ activity # None => activity.read = {settings}
    /\ sheet # None /\ claimCtx # None => claimCtx.read = {settings}

\* A claim sheet stands over the schedule it was filled in for, unless a read was
\* in flight when it was opened; and the figures in it are those of the
\* beneficiary shown, however late they come, unless that changed after they came.
ClaimSheetOfShown ==
  sheet # None =>
    /\ detail # None
    /\ ~overlapped => sheet = detail.account
    /\ claimCtx # None => claimCtx.person = detail.beneficiary \/ outdated
=============================================================================
