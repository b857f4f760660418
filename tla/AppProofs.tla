----------------------------- MODULE AppProofs -----------------------------
(***************************************************************************)
(* What the desktop app shows belongs together, for every set of schedules,*)
(* nodes and people, any number of questions in flight, and every order in *)
(* which they are answered or fail.                                        *)
(***************************************************************************)
EXTENDS App, TLAPS

----------------------------------------------------------------------------
(* The invariant. *)

Fields == {"token", "kind", "account", "withActivity", "left", "read", "person"}

QuestionOK(q) ==
  /\ q = [f \in Fields |-> q[f]]
  /\ q.account \in Account /\ q.person \in Person /\ q.read \in SUBSET Node
  /\ q.kind = "claim" => q.left = 1

Typed ==
  /\ settings \in Node
  /\ saving \in Nat
  /\ beneficiary \in [Account -> Person]
  /\ detail # None => detail \in Shown
  /\ \A q \in waiting : QuestionOK(q)

(* Every question in flight read one node, the one in force. *)
ReadFromOne == ~overlapped => \A q \in waiting : q.read = {settings}

(* Under an open claim sheet the schedule shown is read again, and no other. *)
SheetAlone ==
  ~overlapped /\ sheet # None =>
    \A q \in Showing : q.kind = "refresh" /\ q.account = sheet

AppInv ==
  /\ Typed /\ ReadFromOne /\ SheetAlone
  /\ ActivityOfShown /\ SpinnersHaveACause
  /\ ShownFromNodeInForce /\ ClaimSheetOfShown

----------------------------------------------------------------------------
(* An empty view. *)
LEMMA InitAppInv ==
  Init => AppInv
  BY AppAssumption
  DEF Init, AppInv, Typed, ReadFromOne, SheetAlone, Showing,
      ActivityOfShown, SpinnersHaveACause, ShownFromNodeInForce, ClaimSheetOfShown

(* What is shown of an answer. *)
LEMMA ReadShown ==
  ASSUME NEW q, QuestionOK(q)
  PROVE  /\ Read(q) \in Shown /\ Read(q) # None
         /\ Read(q).account = q.account /\ Read(q).beneficiary = q.person
         /\ Read(q).read = q.read
  BY NoneAssumption DEF QuestionOK, Read, Shown

(* A token changes nothing else in a question. *)
LEMMA TokenedSame ==
  ASSUME NEW q, NEW others, DOMAIN q \cup {"token"} = Fields
  PROVE  /\ Tokened(q, others) = [f \in Fields |-> Tokened(q, others)[f]]
         /\ \A f \in Fields \ {"token"} : Tokened(q, others)[f] = q[f]
  <1>1. \A k : WithToken(q, k) = [f \in Fields |-> WithToken(q, k)[f]]
    BY DEF WithToken
  <1>2. \A k : \A f \in Fields \ {"token"} : WithToken(q, k)[f] = q[f]
    BY DEF WithToken
  <1>3. \E k : Tokened(q, others) = WithToken(q, k)
    BY DEF Tokened
  <1>4. QED
    BY <1>1, <1>2, <1>3

(* A question asked is about what it was asked about, read at the node in force. *)
LEMMA AskedQuestion ==
  ASSUME Typed, NEW kind \in {"lookup", "open", "refresh", "activity", "claim"},
         NEW a \in Account, NEW p \in Person, NEW w, NEW others
  PROVE  LET n == Tokened(AskedOf(kind, a, w, p), others)
         IN  /\ QuestionOK(n) /\ n.kind = kind /\ n.account = a /\ n.person = p
             /\ n.read = {settings}
  <1> DEFINE q == AskedOf(kind, a, w, p)
  <1>1. DOMAIN q \cup {"token"} = Fields
    BY DEF AskedOf, Fields
  <1>2. /\ q["kind"] = kind /\ q["account"] = a /\ q["person"] = p
        /\ q["read"] = {settings} /\ q["left"] = Requests[kind]
    BY DEF AskedOf
  <1>3. settings \in Node /\ (kind = "claim" => Requests[kind] = 1)
    BY DEF Typed, Requests
  <1> DEFINE n == Tokened(q, others)
  <1> HIDE DEF q
  <1>4. n = [f \in Fields |-> n[f]] /\ \A f \in Fields \ {"token"} : n[f] = q[f]
    BY <1>1, TokenedSame
  <1> HIDE DEF n
  <1>5. /\ n["kind"] = kind /\ n["account"] = a /\ n["person"] = p
        /\ n["read"] = {settings} /\ n["left"] = Requests[kind]
    BY <1>2, <1>4 DEF Fields
  <1>6. QuestionOK(n)
    BY <1>3, <1>4, <1>5 DEF QuestionOK
  <1>7. QED
    BY <1>5, <1>6 DEF n, q

(* A lookup asks and shows nothing. *)
LEMMA LookupKeeps ==
  ASSUME AppInv, NEW a \in Account, Lookup(a)
  PROVE  AppInv'
  <1>1. PICK n : /\ waiting' = waiting \cup {n} /\ QuestionOK(n)
                 /\ n.kind = "lookup" /\ n.account = a /\ n.person = beneficiary[a]
                 /\ n.read = {settings}
    <2>1. Typed /\ beneficiary[a] \in Person
      BY DEF AppInv, Typed
    <2> DEFINE no == FALSE
               n == Tokened(AskedOf("lookup", a, no, beneficiary[a]), waiting)
    <2> HIDE DEF no
    <2>2. /\ QuestionOK(n) /\ n.kind = "lookup" /\ n.account = a /\ n.person = beneficiary[a]
          /\ n.read = {settings}
      BY <2>1, AskedQuestion
    <2>3. waiting' = waiting \cup {n}
      BY DEF no, Lookup, Ask
    <2> HIDE DEF n
    <2>4. QED
      BY <2>2, <2>3
  <1>2. /\ sheet = None /\ looking' = TRUE
        /\ UNCHANGED <<detail, detailState, activity, activityState, sheet, claimCtx,
                       claimCtxState, outdated, settings, saving, beneficiary>>
        /\ ~overlapped' => ~overlapped
    BY DEF Lookup, HandsFree, MovesOn, back, claim
  <1>3. Typed' /\ ReadFromOne'
    BY <1>1, <1>2 DEF AppInv, Typed, QuestionOK, ReadFromOne
  <1>4. SheetAlone' /\ ActivityOfShown' /\ ShownFromNodeInForce' /\ ClaimSheetOfShown'
    BY <1>2 DEF AppInv, SheetAlone, ActivityOfShown, ShownFromNodeInForce, ClaimSheetOfShown
  <1>5. SpinnersHaveACause'
    BY <1>1, <1>2 DEF AppInv, SpinnersHaveACause, Awaited
  <1>6. QED
    BY <1>3, <1>4, <1>5 DEF AppInv

(* Opening a schedule shows it before anything is read. *)
LEMMA OpenKeeps ==
  ASSUME AppInv, NEW a \in Account, Open(a)
  PROVE  AppInv'
  <1>1. PICK n : /\ waiting' = waiting \cup {n} /\ QuestionOK(n)
                 /\ n.kind = "open" /\ n.account = a /\ n.person = beneficiary[a]
                 /\ n.read = {settings}
    <2>1. Typed /\ beneficiary[a] \in Person
      BY DEF AppInv, Typed
    <2> DEFINE no == FALSE
               n == Tokened(AskedOf("open", a, no, beneficiary[a]), waiting)
    <2> HIDE DEF no
    <2>2. /\ QuestionOK(n) /\ n.kind = "open" /\ n.account = a /\ n.person = beneficiary[a]
          /\ n.read = {settings}
      BY <2>1, AskedQuestion
    <2>3. waiting' = waiting \cup {n}
      BY DEF no, Open, Ask
    <2> HIDE DEF n
    <2>4. QED
      BY <2>2, <2>3
  <1>2. /\ sheet = None /\ detail' = None /\ activity' = None
        /\ detailState' = "loading" /\ activityState' = "idle"
        /\ UNCHANGED <<looking, sheet, claimCtx, claimCtxState, outdated, settings, saving,
                       beneficiary>>
        /\ ~overlapped' => ~overlapped
    BY DEF Open, HandsFree, MovesOn, back, claim
  <1>3. Typed' /\ ReadFromOne'
    BY <1>1, <1>2 DEF AppInv, Typed, QuestionOK, ReadFromOne
  <1>4. SheetAlone' /\ ActivityOfShown' /\ ShownFromNodeInForce' /\ ClaimSheetOfShown'
    BY <1>2 DEF AppInv, SheetAlone, ActivityOfShown, ShownFromNodeInForce, ClaimSheetOfShown
  <1>5. SpinnersHaveACause'
    BY <1>1, <1>2 DEF AppInv, SpinnersHaveACause, Awaited
  <1>6. QED
    BY <1>3, <1>4, <1>5 DEF AppInv

(* A refresh asks about the schedule shown. *)
LEMMA RefreshKeeps ==
  ASSUME AppInv, NEW withActivity \in BOOLEAN, RefreshDetail(withActivity)
  PROVE  AppInv'
  <1>1. detail # None /\ detail \in Shown /\ Typed
    BY DEF RefreshDetail, AppInv, Typed
  <1>2. PICK n : /\ waiting' = waiting \cup {n} /\ QuestionOK(n)
                 /\ n.kind = "refresh" /\ n.account = detail.account
                 /\ n.person = detail.beneficiary /\ n.read = {settings}
    <2>1. detail.account \in Account /\ detail.beneficiary \in Person
      BY <1>1 DEF Shown
    <2> DEFINE n == Tokened(AskedOf("refresh", detail.account, withActivity, detail.beneficiary),
                            waiting)
    <2>2. /\ QuestionOK(n) /\ n.kind = "refresh" /\ n.account = detail.account
          /\ n.person = detail.beneficiary /\ n.read = {settings}
      BY <1>1, <2>1, AskedQuestion
    <2>3. waiting' = waiting \cup {n}
      BY DEF RefreshDetail, Ask
    <2> HIDE DEF n
    <2>4. QED
      BY <2>2, <2>3
  <1>3. UNCHANGED <<looking, detail, detailState, activity, activityState, sheet, claimCtx,
                    claimCtxState, outdated, settings, saving, beneficiary, overlapped>>
    BY DEF RefreshDetail, view, back, claim
  <1>4. Typed' /\ ReadFromOne'
    BY <1>1, <1>2, <1>3 DEF AppInv, Typed, QuestionOK, ReadFromOne
  <1>5. ActivityOfShown' /\ ShownFromNodeInForce' /\ ClaimSheetOfShown'
    BY <1>3 DEF AppInv, ActivityOfShown, ShownFromNodeInForce, ClaimSheetOfShown
  <1>6. SheetAlone'
    BY <1>2, <1>3 DEF AppInv, SheetAlone, Showing, ClaimSheetOfShown
  <1>7. SpinnersHaveACause'
    BY <1>2, <1>3 DEF AppInv, SpinnersHaveACause, Awaited
  <1>8. QED
    BY <1>4, <1>5, <1>6, <1>7 DEF AppInv

(* The claim sheet opens about the schedule shown. *)
LEMMA PrepareKeeps ==
  ASSUME AppInv, PrepareClaim
  PROVE  AppInv'
  <1>1. detail # None /\ detail \in Shown /\ Typed
    BY DEF PrepareClaim, AppInv, Typed
  <1>2. PICK n : /\ waiting' = waiting \cup {n} /\ QuestionOK(n)
                 /\ n.kind = "claim" /\ n.account = detail.account
                 /\ n.person = detail.beneficiary /\ n.read = {settings}
    <2>1. detail.account \in Account /\ detail.beneficiary \in Person
      BY <1>1 DEF Shown
    <2> DEFINE no == FALSE
               n == Tokened(AskedOf("claim", detail.account, no, detail.beneficiary),
                            waiting)
    <2> HIDE DEF no
    <2>2. /\ QuestionOK(n) /\ n.kind = "claim" /\ n.account = detail.account
          /\ n.person = detail.beneficiary /\ n.read = {settings}
      BY <1>1, <2>1, AskedQuestion
    <2>3. waiting' = waiting \cup {n}
      BY DEF no, PrepareClaim, Ask
    <2> HIDE DEF n
    <2>4. QED
      BY <2>2, <2>3
  <1>3. /\ sheet' = detail.account /\ claimCtx' = None
        /\ UNCHANGED <<looking, detail, detailState, activity, activityState,
                       settings, saving, beneficiary>>
        /\ ~overlapped' => ~overlapped /\ Showing = {}
    BY DEF PrepareClaim, MovesOn, back
  <1>4. Typed' /\ ReadFromOne'
    BY <1>1, <1>2, <1>3 DEF AppInv, Typed, QuestionOK, ReadFromOne
  <1>5. ActivityOfShown' /\ ShownFromNodeInForce' /\ ClaimSheetOfShown'
    BY <1>1, <1>3 DEF AppInv, ActivityOfShown, ShownFromNodeInForce, ClaimSheetOfShown
  <1>6. SheetAlone'
    BY <1>2, <1>3 DEF SheetAlone, Showing
  <1>7. SpinnersHaveACause'
    BY <1>2, <1>3 DEF AppInv, SpinnersHaveACause, Awaited
  <1>8. QED
    BY <1>4, <1>5, <1>6, <1>7 DEF AppInv

(* Closing a sheet or the schedule, and the view hearing of a save. *)
LEMMA CloseKeeps ==
  ASSUME AppInv, CloseDetail \/ CloseSheet \/ Saved
  PROVE  AppInv'
  <1>1. /\ UNCHANGED <<looking, activityState, settings, beneficiary, waiting>>
        /\ sheet' = None
        /\ saving' \in Nat
        /\ ~overlapped' => ~overlapped
        /\ \/ detail' = None /\ activity' = None /\ detailState' = "idle"
           \/ UNCHANGED <<detail, detailState, activity, saving>>
    <2>1. CASE CloseDetail
      BY <2>1 DEF CloseDetail, Closed, MovesOn, back, AppInv, Typed
    <2>2. CASE CloseSheet
      BY <2>2 DEF CloseSheet, back, AppInv, Typed
    <2>3. CASE Saved
      BY <2>3 DEF Saved, CloseOnSave, Closed, AppInv, Typed
    <2>4. QED
      BY <2>1, <2>2, <2>3
  <1>2. Typed' /\ ReadFromOne' /\ SheetAlone'
    BY <1>1 DEF AppInv, Typed, QuestionOK, ReadFromOne, SheetAlone
  <1>3. ActivityOfShown' /\ ClaimSheetOfShown'
    BY <1>1 DEF AppInv, ActivityOfShown, ClaimSheetOfShown
  <1>4. ShownFromNodeInForce'
    BY <1>1 DEF AppInv, ShownFromNodeInForce
  <1>5. SpinnersHaveACause'
    BY <1>1 DEF AppInv, SpinnersHaveACause, Awaited
  <1>6. QED
    BY <1>2, <1>3, <1>4, <1>5 DEF AppInv

(* One request of a question is answered and the next is sent. *)
LEMMA ContinueKeeps ==
  ASSUME AppInv, NEW q \in waiting, Continue(q)
  PROVE  AppInv'
  <1> DEFINE next == [q EXCEPT !.left = @ - 1, !.read = @ \cup {settings},
                               !.person = beneficiary[q.account]]
             n == Tokened(next, waiting \ {q})
  <1>1. /\ waiting' = (waiting \ {q}) \cup {n}
        /\ UNCHANGED <<looking, detail, detailState, activity, activityState, sheet, claimCtx,
                       claimCtxState, outdated, settings, saving, beneficiary, overlapped>>
    BY DEF Continue, view, back, claim
  <1>2. /\ QuestionOK(q) /\ settings \in Node /\ beneficiary \in [Account -> Person]
        /\ q.kind # "claim"
    BY DEF AppInv, Typed, QuestionOK, Continue
  <1>3. /\ QuestionOK(n) /\ n.kind = q.kind /\ n.account = q.account
        /\ n.person = beneficiary[q.account] /\ n.read = q.read \cup {settings}
    <2>1. /\ DOMAIN next \cup {"token"} = Fields
          /\ next["kind"] = q.kind /\ next["account"] = q.account
          /\ next["person"] = beneficiary[q.account]
          /\ next["read"] = q.read \cup {settings}
      BY <1>2 DEF QuestionOK, Fields
    <2> HIDE DEF next
    <2>2. n = [f \in Fields |-> n[f]] /\ \A f \in Fields \ {"token"} : n[f] = next[f]
      BY <2>1, TokenedSame
    <2> HIDE DEF n
    <2>3. /\ n["kind"] = q.kind /\ n["account"] = q.account
          /\ n["person"] = beneficiary[q.account] /\ n["read"] = q.read \cup {settings}
      BY <2>1, <2>2 DEF Fields
    <2>4. QED
      BY <1>2, <2>2, <2>3 DEF QuestionOK
  <1> HIDE DEF n, next
  <1>4. Typed' /\ ReadFromOne'
    <2>1. Typed'
      BY <1>1, <1>2, <1>3 DEF AppInv, Typed, QuestionOK
    <2>2. ReadFromOne'
      BY <1>1, <1>3 DEF AppInv, ReadFromOne
    <2>3. QED
      BY <2>1, <2>2
  <1>5. ActivityOfShown' /\ ShownFromNodeInForce' /\ ClaimSheetOfShown'
    BY <1>1 DEF AppInv, ActivityOfShown, ShownFromNodeInForce, ClaimSheetOfShown
  <1>6. SheetAlone'
    BY <1>1, <1>3 DEF AppInv, SheetAlone, Showing
  <1>7. SpinnersHaveACause'
    BY <1>1, <1>2, <1>3 DEF AppInv, SpinnersHaveACause, Awaited
  <1>8. QED
    BY <1>4, <1>5, <1>6, <1>7 DEF AppInv

(* The schedule shown is replaced by what a question read: the figures of an open
   claim sheet then are outdated, or still those of the person shown. *)
LEMMA ReplacesKeeps ==
  ASSUME AppInv, NEW q \in waiting, Replaces(q), UNCHANGED <<sheet, claimCtx, overlapped>>,
         \/ ~overlapped => sheet = None
         \/ detail # None /\ detail.account = q.account
  PROVE  /\ detail' \in Shown /\ detail' # None /\ detail'.account = q.account
         /\ detail'.beneficiary = q.person /\ detail'.read = q.read
         /\ ClaimSheetOfShown'
         /\ sheet # None /\ ~outdated' => ~outdated /\ detail.beneficiary = q.person
  <1>1. QuestionOK(q)
    BY DEF AppInv, Typed
  <1>2. /\ detail' \in Shown /\ detail' # None /\ detail'.account = q.account
        /\ detail'.beneficiary = q.person /\ detail'.read = q.read
    BY <1>1, ReadShown DEF Replaces
  <1>3. outdated' <=> outdated \/ (sheet # None /\ detail.beneficiary # q.person)
    BY DEF Replaces
  <1>4. ClaimSheetOfShown'
    BY <1>2, <1>3 DEF AppInv, ClaimSheetOfShown
  <1>5. QED
    BY <1>2, <1>3, <1>4

(* A schedule that was looked up or opened is shown, and its activity asked for. *)
LEMMA ShowKeeps ==
  ASSUME AppInv, NEW q \in waiting, q.kind \in {"lookup", "open"}, ShowDetail(q),
         looking' = IF q.kind = "lookup" THEN FALSE ELSE looking,
         UNCHANGED <<sheet, claimCtx, claimCtxState, settings, saving, beneficiary, overlapped>>
  PROVE  AppInv'
  <1>1. QuestionOK(q) /\ Typed
    BY DEF AppInv, Typed
  <1>2. PICK n : /\ waiting' = (waiting \ {q}) \cup {n} /\ QuestionOK(n)
                 /\ n.kind = "activity" /\ n.account = q.account
                 /\ n.person = q.person /\ n.read = {settings}
    <2>1. q.account \in Account /\ q.person \in Person
      BY <1>1 DEF QuestionOK
    <2> DEFINE no == FALSE
               n == Tokened(AskedOf("activity", q.account, no, q.person), waiting \ {q})
    <2> HIDE DEF no
    <2>2. /\ QuestionOK(n) /\ n.kind = "activity" /\ n.account = q.account
          /\ n.person = q.person /\ n.read = {settings}
      BY <1>1, <2>1, AskedQuestion
    <2>3. waiting' = (waiting \ {q}) \cup {n}
      BY DEF no, ShowDetail, Ask
    <2> HIDE DEF n
    <2>4. QED
      BY <2>2, <2>3
  <1>3. /\ Replaces(q) /\ detailState' = "ready" /\ activity' = None
        /\ activityState' = "loading"
    BY DEF ShowDetail
  <1>4. ~overlapped => sheet = None
    BY DEF AppInv, SheetAlone, Showing
  <1>5. /\ detail' \in Shown /\ detail' # None /\ detail'.account = q.account
        /\ detail'.beneficiary = q.person /\ detail'.read = q.read
        /\ ClaimSheetOfShown'
        /\ sheet # None /\ ~outdated' => ~outdated /\ detail.beneficiary = q.person
    BY <1>3, <1>4, ReplacesKeeps
  <1>6. Typed' /\ ReadFromOne'
    BY <1>1, <1>2, <1>5 DEF AppInv, Typed, QuestionOK, ReadFromOne
  <1>7. SheetAlone' /\ ActivityOfShown'
    BY <1>3, <1>4 DEF SheetAlone, ActivityOfShown
  <1>8. ShownFromNodeInForce'
    BY <1>3, <1>4, <1>5 DEF AppInv, ReadFromOne, ShownFromNodeInForce
  <1>9. SpinnersHaveACause'
    BY <1>2, <1>3, <1>5 DEF AppInv, SpinnersHaveACause, Awaited
  <1>10. QED
    BY <1>5, <1>6, <1>7, <1>8, <1>9 DEF AppInv

(* The answer to a refresh replaces the schedule only if it is still shown. *)
LEMMA RefreshAnsweredKeeps ==
  ASSUME AppInv, NEW q \in waiting, RefreshAnswered(q),
         UNCHANGED <<settings, saving, beneficiary, overlapped>>
  PROVE  AppInv'
  <1>1. QuestionOK(q) /\ Typed
    BY DEF AppInv, Typed
  <1>2. /\ q.kind = "refresh" /\ detail # None /\ detail.account = q.account
        /\ Replaces(q)
        /\ UNCHANGED <<looking, detailState, activity, sheet, claimCtx, claimCtxState>>
    BY DEF RefreshAnswered, StillShown, claim
  <1>3. /\ detail' \in Shown /\ detail' # None /\ detail'.account = q.account
        /\ detail'.beneficiary = q.person /\ detail'.read = q.read
        /\ ClaimSheetOfShown'
        /\ sheet # None /\ ~outdated' => ~outdated /\ detail.beneficiary = q.person
    BY <1>2, ReplacesKeeps
  <1>4. PICK more : /\ waiting' = (waiting \ {q}) \cup more
                    /\ IF more = {} THEN UNCHANGED activityState ELSE activityState' = "loading"
                    /\ \A n \in more : /\ QuestionOK(n) /\ n.kind = "activity"
                                       /\ n.account = q.account /\ n.person = q.person
                                       /\ n.read = {settings}
    <2>1. CASE q.withActivity
      <3>1. q.account \in Account /\ q.person \in Person
        BY <1>1 DEF QuestionOK
      <3> DEFINE no == FALSE
                 n == Tokened(AskedOf("activity", q.account, no, q.person), waiting \ {q})
      <3> HIDE DEF no
      <3>2. /\ QuestionOK(n) /\ n.kind = "activity" /\ n.account = q.account
            /\ n.person = q.person /\ n.read = {settings}
        BY <1>1, <3>1, AskedQuestion
      <3>3. waiting' = (waiting \ {q}) \cup {n} /\ activityState' = "loading"
        BY <2>1 DEF no, RefreshAnswered, Ask
      <3> HIDE DEF n
      <3>4. {n} # {}
        OBVIOUS
      <3>5. QED
        BY <3>2, <3>3, <3>4
    <2>2. CASE ~q.withActivity
      <3> DEFINE more == {}
      <3>1. waiting' = (waiting \ {q}) \cup more /\ activityState' = activityState
        BY <2>2 DEF RefreshAnswered
      <3>2. more = {}
        OBVIOUS
      <3> HIDE DEF more
      <3>3. QED
        BY <3>1, <3>2
    <2>3. QED
      BY <2>1, <2>2
  <1>5. Typed' /\ ReadFromOne'
    BY <1>1, <1>3, <1>4 DEF AppInv, Typed, QuestionOK, ReadFromOne
  <1>6. SheetAlone'
    BY <1>2, <1>4 DEF AppInv, SheetAlone, Showing
  <1>7. ActivityOfShown'
    BY <1>2, <1>3 DEF AppInv, ActivityOfShown
  <1>8. ShownFromNodeInForce'
    BY <1>2, <1>3 DEF AppInv, ReadFromOne, ShownFromNodeInForce
  <1>9. SpinnersHaveACause'
    BY <1>2, <1>3, <1>4 DEF AppInv, SpinnersHaveACause, Awaited
  <1>10. QED
    BY <1>3, <1>5, <1>6, <1>7, <1>8, <1>9 DEF AppInv

(* The activity or the claim's figures are shown, or an answer is dropped. *)
LEMMA OtherAnsweredKeeps ==
  ASSUME AppInv, NEW q \in waiting, ActivityAnswered(q) \/ ClaimAnswered(q) \/ Dropped(q),
         UNCHANGED <<settings, saving, beneficiary, overlapped>>
  PROVE  AppInv'
  <1>1. /\ waiting' = waiting \ {q} /\ UNCHANGED <<looking, detail, detailState, sheet>>
    BY DEF ActivityAnswered, ClaimAnswered, Dropped, view, claim
  <1>2. q.kind \in {"activity", "refresh", "claim"}
    BY DEF ActivityAnswered, ClaimAnswered, Dropped
  <1>3. Typed' /\ ReadFromOne' /\ SheetAlone'
    BY <1>1 DEF AppInv, Typed, QuestionOK, ReadFromOne, SheetAlone, Showing
  <1>4. CASE ActivityAnswered(q)
    <2>1. /\ detail # None /\ detail.account = q.account /\ activityState' = "ready"
          /\ activity' = [account |-> q.account, read |-> q.read]
          /\ UNCHANGED <<claimCtx, claimCtxState, outdated>>
          /\ q.kind = "activity"
      BY <1>4 DEF ActivityAnswered, StillShown, claim
    <2>2. ActivityOfShown' /\ ClaimSheetOfShown'
      BY <1>1, <2>1 DEF AppInv, ActivityOfShown, ClaimSheetOfShown
    <2>3. ShownFromNodeInForce'
      BY <1>1, <2>1 DEF AppInv, ReadFromOne, ShownFromNodeInForce
    <2>4. SpinnersHaveACause'
      BY <1>1, <2>1 DEF AppInv, SpinnersHaveACause, Awaited
    <2>5. QED
      BY <1>3, <2>2, <2>3, <2>4 DEF AppInv
  <1>5. CASE ClaimAnswered(q)
    <2>1. /\ detail # None /\ detail.beneficiary = q.person
          /\ claimCtx' \in {[person |-> q.person, read |-> q.read], None}
          /\ claimCtxState' = "ready"
          /\ UNCHANGED <<activity, activityState>> /\ q.kind = "claim"
      BY <1>5 DEF ClaimAnswered, StillBenefits
    <2>2. ActivityOfShown' /\ ClaimSheetOfShown'
      BY <1>1, <2>1 DEF AppInv, ActivityOfShown, ClaimSheetOfShown
    <2>3. ShownFromNodeInForce'
      BY <1>1, <2>1 DEF AppInv, ReadFromOne, ShownFromNodeInForce
    <2>4. SpinnersHaveACause'
      BY <1>1, <2>1 DEF AppInv, SpinnersHaveACause, Awaited
    <2>5. QED
      BY <1>3, <2>2, <2>3, <2>4 DEF AppInv
  <1>6. CASE Dropped(q)
    <2>1. UNCHANGED <<activity, activityState, claimCtx, claimCtxState, outdated>>
      BY <1>6 DEF Dropped, view, claim
    <2>2. /\ q.kind = "activity" => detail = None \/ detail.account # q.account
          /\ q.kind = "claim" => detail = None \/ detail.beneficiary # q.person
      BY <1>6 DEF Dropped, StillShown, StillBenefits
    <2>3. ActivityOfShown' /\ ClaimSheetOfShown' /\ ShownFromNodeInForce'
      BY <1>1, <2>1 DEF AppInv, ActivityOfShown, ClaimSheetOfShown, ShownFromNodeInForce
    <2>4. sheet # None => detail # None
      BY DEF AppInv, ClaimSheetOfShown
    <2>5. SpinnersHaveACause'
      BY <1>1, <1>2, <2>1, <2>2, <2>4 DEF AppInv, SpinnersHaveACause, Awaited
    <2>6. QED
      BY <1>3, <2>3, <2>5 DEF AppInv
  <1>7. QED
    BY <1>4, <1>5, <1>6

(* Every answer keeps the invariant. *)
LEMMA AnsweredKeeps ==
  ASSUME AppInv, NEW q \in waiting, Answered(q)
  PROVE  AppInv'
  <1>1. UNCHANGED <<settings, saving, beneficiary, overlapped>>
    BY DEF Answered, back, claim
  <1>2. CASE LookupAnswered(q)
    BY <1>1, <1>2, ShowKeeps DEF LookupAnswered, claim
  <1>3. CASE OpenAnswered(q)
    BY <1>1, <1>3, ShowKeeps DEF OpenAnswered, claim
  <1>4. CASE RefreshAnswered(q)
    BY <1>1, <1>4, RefreshAnsweredKeeps
  <1>5. CASE ActivityAnswered(q) \/ ClaimAnswered(q) \/ Dropped(q)
    BY <1>1, <1>5, OtherAnsweredKeeps
  <1>6. QED
    BY <1>2, <1>3, <1>4, <1>5 DEF Answered

(* A failure ends the spinner of its question. *)
LEMMA FailedKeeps ==
  ASSUME AppInv, NEW q \in waiting, Failed(q)
  PROVE  AppInv'
  <1>1. /\ waiting' = waiting \ {q} /\ q.kind \in {"lookup", "open", "refresh"}
        /\ looking' = (looking /\ q.kind # "lookup")
        /\ detailState' = IF q.kind = "open" THEN "error" ELSE detailState
        /\ UNCHANGED <<detail, activity, activityState, sheet, claimCtx,
                       claimCtxState, outdated, settings, saving, beneficiary, overlapped>>
    BY DEF Failed, TellsFailure, back, claim
  <1>2. Typed' /\ ReadFromOne' /\ SheetAlone'
    BY <1>1 DEF AppInv, Typed, QuestionOK, ReadFromOne, SheetAlone, Showing
  <1>3. ActivityOfShown' /\ ClaimSheetOfShown' /\ ShownFromNodeInForce'
    BY <1>1 DEF AppInv, ActivityOfShown, ClaimSheetOfShown, ShownFromNodeInForce
  <1>4. SpinnersHaveACause'
    BY <1>1 DEF AppInv, SpinnersHaveACause, Awaited
  <1>5. QED
    BY <1>2, <1>3, <1>4 DEF AppInv

(* Saved settings leave the questions in flight to the old node. *)
LEMMA SaveKeeps ==
  ASSUME AppInv, NEW n \in Node, Save(n)
  PROVE  AppInv'
  <1>1. /\ sheet = None /\ settings' = n /\ saving' = saving + 1 /\ saving \in Nat
        /\ UNCHANGED <<looking, detail, detailState, activity, activityState, sheet, claimCtx,
                       claimCtxState, outdated, beneficiary, waiting>>
        /\ ~overlapped' => ~overlapped /\ waiting = {}
    BY DEF Save, HandsFree, MovesOn, view, claim, AppInv, Typed
  <1>2. Typed' /\ ReadFromOne' /\ SheetAlone'
    BY <1>1 DEF AppInv, Typed, QuestionOK, ReadFromOne, SheetAlone, Showing
  <1>3. ActivityOfShown' /\ ClaimSheetOfShown' /\ ShownFromNodeInForce' /\ SpinnersHaveACause'
    BY <1>1 DEF AppInv, ActivityOfShown, ClaimSheetOfShown, ShownFromNodeInForce,
                SpinnersHaveACause, Awaited
  <1>4. QED
    BY <1>2, <1>3 DEF AppInv

(* A transfer by somebody else reaches the app only when it is read. *)
LEMMA HeirKeeps ==
  ASSUME AppInv, NEW a \in Account, NEW p \in Person, TransferBeneficiary(a, p)
  PROVE  AppInv'
  <1>1. /\ beneficiary' = [beneficiary EXCEPT ![a] = p]
        /\ UNCHANGED <<looking, detail, detailState, activity, activityState, sheet, claimCtx,
                       claimCtxState, outdated, settings, saving, waiting, overlapped>>
    BY DEF TransferBeneficiary, view, back, claim
  <1>2. Typed'
    BY <1>1 DEF AppInv, Typed, QuestionOK
  <1>3. ReadFromOne' /\ SheetAlone'
    BY <1>1 DEF AppInv, ReadFromOne, SheetAlone, Showing
  <1>4. ActivityOfShown' /\ ClaimSheetOfShown' /\ ShownFromNodeInForce' /\ SpinnersHaveACause'
    BY <1>1 DEF AppInv, ActivityOfShown, ClaimSheetOfShown, ShownFromNodeInForce,
                SpinnersHaveACause, Awaited
  <1>5. QED
    BY <1>2, <1>3, <1>4 DEF AppInv

(* Every handler and every answer keeps the invariant. *)
LEMMA NextAppInv ==
  AppInv /\ [Next]_vars => AppInv'
  <1> SUFFICES ASSUME AppInv, [Next]_vars PROVE AppInv'
    OBVIOUS
  <1>1. CASE UNCHANGED vars
    <2>1. UNCHANGED <<looking, detail, detailState, activity, activityState, sheet, claimCtx,
                      claimCtxState, outdated, settings, saving, beneficiary, waiting, overlapped>>
      BY <1>1 DEF vars, view, back, claim
    <2>2. QED
      BY <2>1 DEF AppInv, Typed, QuestionOK, ReadFromOne, SheetAlone,
                  Showing, ActivityOfShown, SpinnersHaveACause, Awaited,
                  ShownFromNodeInForce, ClaimSheetOfShown
  <1>2. QED
    BY <1>1, LookupKeeps, OpenKeeps, RefreshKeeps, PrepareKeeps, CloseKeeps,
       ContinueKeeps, AnsweredKeeps, FailedKeeps, SaveKeeps, HeirKeeps
    DEF Next

----------------------------------------------------------------------------
(* The theorems. *)

(* The invariant of the view holds for every order of questions, answers and
   settings. *)
THEOREM AppInductive == Spec => []AppInv
  BY InitAppInv, NextAppInv, PTL DEF Spec

(* The activity list under a schedule is always that schedule's. *)
THEOREM ActivityBelongs == Spec => []ActivityOfShown
  <1>1. AppInv => ActivityOfShown
    BY DEF AppInv
  <1>2. QED
    BY <1>1, AppInductive, PTL

(* A spinner that turns has a question in flight that will end it, but for the
   claim sheet's once another beneficiary is shown under it. *)
THEOREM SpinnersCaused == Spec => []SpinnersHaveACause
  <1>1. AppInv => SpinnersHaveACause
    BY DEF AppInv
  <1>2. QED
    BY <1>1, AppInductive, PTL

(* Unless the view moved on under a question, all it shows is from one node. *)
THEOREM ShownWhole == Spec => []ShownFromNodeInForce
  <1>1. AppInv => ShownFromNodeInForce
    BY DEF AppInv
  <1>2. QED
    BY <1>1, AppInductive, PTL

(* In the same case the claim sheet is of the schedule shown; in every case its
   figures are of the person shown unless another is shown since they came. *)
THEOREM SheetBelongs == Spec => []ClaimSheetOfShown
  <1>1. AppInv => ClaimSheetOfShown
    BY DEF AppInv
  <1>2. QED
    BY <1>1, AppInductive, PTL
=============================================================================
