------------------------- MODULE ToolDispatchProofs -------------------------
(***************************************************************************)
(* Proofs about ToolDispatch, for any number of threads, requests, grants   *)
(* and any ceiling: the budget, the one-time grants, and the receipts as a  *)
(* store of effects that happen once.                                      *)
(***************************************************************************)
EXTENDS ToolDispatch, FiniteSetTheorems, TLAPS

dispatchAll == <<operationVars, dispatchVars>>

-----------------------------------------------------------------------------
(* The inductive invariant                                                 *)

\* Only a call past its reservation has one.
AddedOnItsWay ==
    \A c \in Call : call[c].added => call[c].pc \in {"admitted", "approved", "running", "leaving"}

\* A call that is approved for an effect has spent a grant given for it; nobody else
\* is approved under that grant, and nothing has run under it.
ApprovedUnderGrant ==
    \A c \in Call : call[c].pc = "approved" /\ call[c].req \in Effectful =>
        /\ grants[GrantOf[call[c].req]] = [state |-> "consumed", subject |-> SubjectOf[call[c].req]]
        /\ \A q \in Effectful : GrantOf[q] = GrantOf[call[c].req] => runs[q] = 0
        /\ \A d \in Call :
              /\ call[d].pc = "approved" /\ call[d].req \in Effectful
              /\ GrantOf[call[d].req] = GrantOf[call[c].req]
              => c = d

\* The store executes the request of the one call that is running.
OneRuns ==
    /\ \A c \in Call : call[c].pc = "running" => attempt = call[c].req
    /\ \A c, d \in Call : call[c].pc = "running" /\ call[d].pc = "running" => c = d
    /\ attempt \in Request => receipts[attempt] = "none"

DispatchInv ==
    /\ OperationsTypeOK
    /\ DispatchTypeOK
    /\ CallsAreCovered
    /\ AddedOnItsWay
    /\ ApprovedUnderGrant
    /\ OneRuns

-----------------------------------------------------------------------------
(* Initial states and the operator                                         *)

LEMMA AtRestTyped == AtRest \in CallRecord /\ AtRest.pc = "idle" /\ AtRest.added = FALSE
BY DispatchAssumption DEF AtRest, CallRecord, Pc

LEMMA DispatchInvInit == OperationsInit /\ DispatchInit => DispatchInv
<1> SUFFICES ASSUME OperationsInit, DispatchInit
             PROVE  DispatchInv
  OBVIOUS
<1> USE DEF OperationsInit, DispatchInit
<1>1. OperationsTypeOK
  BY DispatchAssumption DEF OperationsTypeOK, GrantRecord, Receipt, Stored
<1>2. DispatchTypeOK
  BY AtRestTyped DEF DispatchTypeOK
<1>3. \A c \in Call : call[c].pc = "idle" /\ ~call[c].added
  BY AtRestTyped
<1>4. CallsAreCovered
  <2>1. BudgetHolds
    BY <1>3, DispatchAssumption DEF BudgetHolds, CeilingHolds, ReservationsTruthful
  <2>2. GrantBuysOneRun
    BY DispatchAssumption DEF GrantBuysOneRun
  <2>3. QED
    BY <2>1, <2>2 DEF CallsAreCovered
<1>5. AddedOnItsWay /\ ApprovedUnderGrant
  BY <1>3 DEF AddedOnItsWay, ApprovedUnderGrant
<1>6. OneRuns
  BY <1>3, NoKeyAssumption, DispatchAssumption DEF OneRuns
<1>7. QED
  BY <1>1, <1>2, <1>4, <1>5, <1>6 DEF DispatchInv

LEMMA OperatorKeepsInv == DispatchInv /\ OperatorStep => DispatchInv'
<1> SUFFICES ASSUME DispatchInv, OperatorStep
             PROVE  DispatchInv'
  OBVIOUS
<1> USE DEF DispatchInv
<1>0. UNCHANGED <<receipts, reconciliations, attempt, call, executed, inFlight, runs>>
  BY DEF OperatorStep, receiptVars, dispatchVars
<1>1. PICK r \in Effectful, q \in Effectful :
         GrantIssued(GrantOf[r], SubjectOf[q]) \/ GrantExpires(GrantOf[r])
  BY DEF OperatorStep
<1>2. GrantOf[r] \in Grant /\ SubjectOf[q] \in Subject
  BY DispatchAssumption
<1>3. grants' \in [Grant -> GrantRecord]
  BY <1>1, <1>2 DEF OperationsTypeOK, GrantIssued, GrantExpires, GrantRecord
<1>4. \A g \in Grant : grants[g].state = "consumed" => grants'[g] = grants[g]
  BY <1>1, <1>2 DEF OperationsTypeOK, GrantIssued, GrantExpires, GrantRecord
<1>5. OperationsTypeOK' /\ DispatchTypeOK' /\ AddedOnItsWay' /\ OneRuns'
  BY <1>0, <1>3 DEF OperationsTypeOK, DispatchTypeOK, AddedOnItsWay, OneRuns
<1>6. BudgetHolds'
  BY <1>0 DEF CallsAreCovered, BudgetHolds, CeilingHolds, ReservationsTruthful
<1>7. GrantBuysOneRun'
  BY <1>0, <1>4, DispatchAssumption DEF CallsAreCovered, GrantBuysOneRun
<1>8. ApprovedUnderGrant'
  BY <1>0, <1>4, DispatchAssumption DEF ApprovedUnderGrant
<1>9. QED
  BY <1>5, <1>6, <1>7, <1>8 DEF CallsAreCovered

-----------------------------------------------------------------------------
(* The steps of a call                                                     *)

\* A step that only moves its call, keeps what it has reserved, and neither spends a
\* grant nor reaches the runner.
LEMMA QuietStep ==
    ASSUME DispatchInv, NEW c \in Call, NEW rec \in CallRecord,
           call' = [call EXCEPT ![c] = rec],
           rec.pc \notin {"approved", "running"},
           rec.added = call[c].added,
           rec.added => rec.req = call[c].req /\ rec.pc \in {"admitted", "leaving"},
           UNCHANGED <<operationVars, executed, inFlight, runs>>
    PROVE  DispatchInv'
<1> USE DEF DispatchInv
<1>0. UNCHANGED <<receipts, reconciliations, attempt, grants, executed, inFlight, runs>>
  BY DEF operationVars, receiptVars
<1>1. OperationsTypeOK' /\ DispatchTypeOK'
  BY <1>0 DEF OperationsTypeOK, DispatchTypeOK
<1>2. \A d \in Call : call'[d] = IF d = c THEN rec ELSE call[d]
  BY DEF DispatchTypeOK
<1>3. ReservationsTruthful'
  <2>1. {d \in Call : call'[d].added} = {d \in Call : call[d].added}
    BY <1>2
  <2>2. \A d \in Call : call[d].added => call'[d].req = call[d].req
    BY <1>2
  <2>3. QED
    BY <1>0, <1>2, <2>1, <2>2 DEF CallsAreCovered, BudgetHolds, ReservationsTruthful
<1>4. CallsAreCovered'
  BY <1>0, <1>3 DEF CallsAreCovered, BudgetHolds, CeilingHolds, GrantBuysOneRun
<1>5. AddedOnItsWay'
  BY <1>2 DEF AddedOnItsWay
<1>6. ApprovedUnderGrant'
  BY <1>0, <1>2 DEF ApprovedUnderGrant
<1>7. OneRuns'
  BY <1>0, <1>2 DEF OneRuns
<1>8. QED
  BY <1>1, <1>4, <1>5, <1>6, <1>7

LEMMA QuietCallsKeepInv ==
    ASSUME DispatchInv, NEW c \in Call,
           \/ \E r \in Request : CallArrives(c, r)
           \/ CallRefused(c) \/ CallOverBudget(c)
           \/ CallNotApproved(c) \/ CallReplays(c) \/ CallStopped(c)
    PROVE  DispatchInv'
<1> USE DEF DispatchInv
<1>1. call[c] \in CallRecord
  BY DEF DispatchTypeOK
<1>2. ASSUME NEW r \in Request, CallArrives(c, r)
      PROVE  DispatchInv'
  <2> DEFINE rec == [pc |-> "checked", req |-> r, added |-> FALSE]
  <2>1. rec \in CallRecord /\ ~call[c].added
    BY <1>1, <1>2 DEF CallRecord, Pc, CallArrives, AddedOnItsWay
  <2>2. QED
    BY <1>1, <1>2, <2>1, QuietStep DEF CallArrives, CallRecord
<1>3. CASE CallRefused(c) \/ CallOverBudget(c)
  <2>1. call[c].pc = "checked" /\ call' = [call EXCEPT ![c] = AtRest]
    BY <1>3 DEF CallRefused, CallOverBudget, EndsChecked
  <2>2. UNCHANGED <<operationVars, executed, inFlight, runs>>
    BY <1>3 DEF CallRefused, CallOverBudget
  <2>3. call[c].added = FALSE
    BY <1>1, <2>1 DEF AddedOnItsWay, CallRecord
  <2>4. QED
    BY <2>1, <2>2, <2>3, AtRestTyped, QuietStep
<1>4. CASE CallNotApproved(c) \/ CallReplays(c) \/ CallStopped(c)
  <2> DEFINE rec == [call[c] EXCEPT !.pc = "leaving"]
  <2>1. call' = [call EXCEPT ![c] = rec]
    BY <1>4 DEF CallNotApproved, CallReplays, CallStopped, Moves
  <2>2. rec \in CallRecord /\ rec.pc = "leaving" /\ rec.added = call[c].added /\ rec.req = call[c].req
    BY <1>1 DEF CallRecord, Pc
  <2>3. UNCHANGED <<operationVars, executed, inFlight, runs>>
    BY <1>4 DEF CallNotApproved, CallReplays, CallStopped
  <2>4. QED
    BY <2>1, <2>2, <2>3, QuietStep
<1>5. QED
  BY <1>2, <1>3, <1>4

\* A call reserves its request, unless somebody has.
LEMMA AdmissionKeepsInv ==
    ASSUME DispatchInv, NEW c \in Call, CallAdmitted(c)
    PROVE  DispatchInv'
<1> USE DEF DispatchInv
<1> DEFINE rec == [call[c] EXCEPT !.pc = "admitted", !.added = Adds(c)]
<1>0. UNCHANGED <<receipts, reconciliations, attempt, grants, executed, runs>>
  BY DEF CallAdmitted, operationVars, receiptVars
<1>1. call[c] \in CallRecord /\ call[c].pc = "checked" /\ ~call[c].added
  BY DEF DispatchTypeOK, CallAdmitted, AddedOnItsWay
<1>2. rec \in CallRecord /\ rec.pc = "admitted" /\ rec.req = call[c].req /\ rec.added = Adds(c)
  BY <1>1 DEF CallRecord, Pc, Adds
<1>3. \A d \in Call : call'[d] = IF d = c THEN rec ELSE call[d]
  BY DEF CallAdmitted, DispatchTypeOK
<1>4. inFlight' = inFlight \cup {call[c].req}
  BY DEF CallAdmitted
<1> HIDE DEF rec
<1>5. OperationsTypeOK' /\ DispatchTypeOK'
  <2>1. call' \in [Call -> CallRecord]
    BY <1>2, <1>3 DEF CallAdmitted, DispatchTypeOK
  <2>2. QED
    BY <1>0, <1>1, <1>4, <2>1 DEF OperationsTypeOK, DispatchTypeOK, CallRecord
<1>6. ReservationsTruthful'
  <2>1. /\ inFlight = {call[d].req : d \in {e \in Call : call[e].added}}
        /\ \A d, e \in Call : call[d].added /\ call[e].added /\ call[d].req = call[e].req => d = e
    BY DEF CallsAreCovered, BudgetHolds, ReservationsTruthful
  <2>2. CASE Adds(c)
    <3>1. rec.added = TRUE /\ call[c].req \notin inFlight
      BY <1>2, <2>2 DEF Adds
    <3>2. {e \in Call : call'[e].added} = {e \in Call : call[e].added} \cup {c}
      BY <1>3, <3>1
    <3>3. \A d \in Call : call'[d].req = call[d].req
      BY <1>2, <1>3
    <3>4. \A d, e \in Call : call'[d].added /\ call'[e].added /\ call'[d].req = call'[e].req => d = e
      BY <1>1, <1>2, <1>3, <2>1, <3>1
    <3>5. inFlight' = {call'[d].req : d \in {e \in Call : call'[e].added}}
      BY <1>4, <2>1, <3>2, <3>3
    <3>6. QED
      BY <3>4, <3>5 DEF ReservationsTruthful
  <2>3. CASE ~Adds(c)
    <3>1. rec.added = FALSE /\ call[c].req \in inFlight
      BY <1>2, <2>3 DEF Adds
    <3>2. {e \in Call : call'[e].added} = {e \in Call : call[e].added}
      BY <1>1, <1>3, <3>1
    <3>3. \A d \in Call : call'[d].req = call[d].req
      BY <1>2, <1>3
    <3>4. QED
      BY <1>4, <2>1, <3>1, <3>2, <3>3 DEF ReservationsTruthful
  <2>4. QED
    BY <2>2, <2>3
<1>7. CallsAreCovered'
  BY <1>0, <1>6 DEF CallsAreCovered, BudgetHolds, CeilingHolds, GrantBuysOneRun
<1>8. AddedOnItsWay' /\ ApprovedUnderGrant' /\ OneRuns'
  BY <1>0, <1>2, <1>3 DEF AddedOnItsWay, ApprovedUnderGrant, OneRuns
<1>9. QED
  BY <1>5, <1>7, <1>8

\* The step of a call to a place where its reservation is untouched.
LEMMA MovedCall ==
    ASSUME DispatchInv, NEW c \in Call, NEW from \in Pc, NEW to \in {"approved", "running", "leaving"},
           from \in {"admitted", "approved", "running"}, Moves(c, from, to)
    PROVE  /\ call[c] \in CallRecord
           /\ call' \in [Call -> CallRecord]
           /\ \A d \in Call : call'[d].req = call[d].req /\ call'[d].added = call[d].added
           /\ \A d \in Call : call'[d].pc = IF d = c THEN to ELSE call[d].pc
           /\ AddedOnItsWay'
<1> USE DEF DispatchInv, Moves, DispatchTypeOK
<1>1. call[c] \in CallRecord
  OBVIOUS
<1>2. [call[c] EXCEPT !.pc = to] \in CallRecord
  BY <1>1 DEF CallRecord, Pc
<1>3. \A d \in Call : call'[d] = IF d = c THEN [call[c] EXCEPT !.pc = to] ELSE call[d]
  OBVIOUS
<1>4. call' \in [Call -> CallRecord]
  BY <1>2
<1>5. \A d \in Call : call'[d].req = call[d].req /\ call'[d].added = call[d].added
  BY <1>1, <1>3 DEF CallRecord
<1>6. \A d \in Call : call'[d].pc = IF d = c THEN to ELSE call[d].pc
  BY <1>1, <1>3 DEF CallRecord
<1>7. AddedOnItsWay'
  BY <1>5, <1>6 DEF AddedOnItsWay
<1>8. QED
  BY <1>1, <1>4, <1>5, <1>6, <1>7

LEMMA ReservationsKept ==
    ASSUME DispatchInv, inFlight' = inFlight,
           \A d \in Call : call'[d].req = call[d].req /\ call'[d].added = call[d].added
    PROVE  ReservationsTruthful'
<1>1. {d \in Call : call'[d].added} = {d \in Call : call[d].added}
  OBVIOUS
<1>2. QED
  BY <1>1 DEF DispatchInv, CallsAreCovered, BudgetHolds, ReservationsTruthful

\* An approval for an effect spends a grant that was still open: nothing has run under
\* it, and nobody else is approved under it.
LEMMA ApprovalKeepsInv ==
    ASSUME DispatchInv, NEW c \in Call, CallApproved(c)
    PROVE  DispatchInv'
<1> USE DEF DispatchInv
<1> DEFINE r == call[c].req
           g == GrantOf[r]
<1>0. UNCHANGED <<receipts, reconciliations, attempt, executed, inFlight, runs>>
  BY DEF CallApproved, receiptVars
<1>1. Moves(c, "admitted", "approved")
  BY DEF CallApproved
<1>2. /\ r \in Request
      /\ call' \in [Call -> CallRecord]
      /\ \A d \in Call : call'[d].req = call[d].req /\ call'[d].added = call[d].added
      /\ \A d \in Call : call'[d].pc = IF d = c THEN "approved" ELSE call[d].pc
      /\ AddedOnItsWay'
  BY <1>1, MovedCall DEF Pc, CallRecord
<1>3. ReservationsTruthful' /\ CeilingHolds'
  BY <1>0, <1>2, ReservationsKept DEF CallsAreCovered, BudgetHolds, CeilingHolds
<1>4. OneRuns'
  BY <1>0, <1>2 DEF OneRuns
<1>5. CASE r \notin Effectful
  <2>1. grants' = grants
    BY <1>5 DEF CallApproved
  <2>2. OperationsTypeOK' /\ DispatchTypeOK'
    BY <1>0, <1>2, <2>1 DEF OperationsTypeOK, DispatchTypeOK
  <2>3. GrantBuysOneRun'
    BY <1>0, <2>1 DEF CallsAreCovered, GrantBuysOneRun
  <2>4. ApprovedUnderGrant'
    BY <1>0, <1>2, <1>5, <2>1 DEF ApprovedUnderGrant
  <2>5. QED
    BY <1>2, <1>3, <1>4, <2>2, <2>3, <2>4 DEF CallsAreCovered, BudgetHolds
<1>6. CASE r \in Effectful
  <2>1. g \in Grant /\ GrantConsumed(g, SubjectOf[r])
    BY <1>6, DispatchAssumption DEF CallApproved
  <2>2. /\ grants[g].state = "open" /\ grants[g].subject = SubjectOf[r]
        /\ grants' \in [Grant -> GrantRecord]
        /\ grants'[g] = [state |-> "consumed", subject |-> SubjectOf[r]]
        /\ \A h \in Grant : h # g => grants'[h] = grants[h]
    BY <2>1 DEF GrantConsumed, GrantCovers, OperationsTypeOK, GrantRecord
  <2>3. OperationsTypeOK' /\ DispatchTypeOK'
    BY <1>0, <1>2, <2>2 DEF OperationsTypeOK, DispatchTypeOK
  <2>4. \A q \in Effectful : GrantOf[q] = g => ~(runs[q] > 0)
    <3>1. SUFFICES ASSUME NEW q \in Effectful, GrantOf[q] = g, runs[q] > 0
                   PROVE  FALSE
      OBVIOUS
    <3>2. grants[GrantOf[q]] = [state |-> "consumed", subject |-> SubjectOf[q]]
      BY <3>1 DEF CallsAreCovered, GrantBuysOneRun
    <3>3. grants[g].state = "consumed"
      BY <3>1, <3>2
    <3>4. QED
      BY <2>2, <3>3
  <2>5. GrantBuysOneRun'
    BY <1>0, <2>2, <2>4, DispatchAssumption DEF CallsAreCovered, GrantBuysOneRun
  <2>6. \A q \in Effectful : GrantOf[q] = g => runs[q] = 0
    <3>1. \A q \in Effectful : runs[q] \in Nat
      BY DispatchAssumption DEF DispatchTypeOK
    <3>2. QED
      BY <2>4, <3>1
  <2>7. \A d \in Call : call[d].pc = "approved" /\ call[d].req \in Effectful => GrantOf[call[d].req] # g
    <3>1. SUFFICES ASSUME NEW d \in Call, call[d].pc = "approved", call[d].req \in Effectful,
                          GrantOf[call[d].req] = g
                   PROVE  FALSE
      OBVIOUS
    <3>2. grants[GrantOf[call[d].req]] = [state |-> "consumed", subject |-> SubjectOf[call[d].req]]
      BY <3>1 DEF ApprovedUnderGrant
    <3>3. grants[g].state = "consumed"
      BY <3>1, <3>2
    <3>4. QED
      BY <2>2, <3>3
  <2>8. ApprovedUnderGrant'
    <3>1. SUFFICES ASSUME NEW d \in Call, call'[d].pc = "approved", call'[d].req \in Effectful
                   PROVE  /\ grants'[GrantOf[call'[d].req]] =
                                 [state |-> "consumed", subject |-> SubjectOf[call'[d].req]]
                          /\ \A q \in Effectful : GrantOf[q] = GrantOf[call'[d].req] => runs'[q] = 0
                          /\ \A e \in Call :
                                /\ call'[e].pc = "approved" /\ call'[e].req \in Effectful
                                /\ GrantOf[call'[e].req] = GrantOf[call'[d].req]
                                => d = e
      BY DEF ApprovedUnderGrant
    <3>2. \A e \in Call : call'[e].req = call[e].req
      BY <1>2
    <3>3. CASE d = c
      BY <1>0, <1>2, <2>2, <2>6, <2>7, <3>2, <3>3
    <3>4. CASE d # c
      <4>1. call[d].pc = "approved" /\ call[d].req \in Effectful
        BY <1>2, <3>1, <3>2, <3>4
      <4>2. GrantOf[call[d].req] # g /\ GrantOf[call[d].req] \in Grant
        BY <2>7, <4>1, DispatchAssumption
      <4>3. grants'[GrantOf[call[d].req]] = grants[GrantOf[call[d].req]]
        BY <2>2, <4>2
      <4>4. \A e \in Call :
               /\ call'[e].pc = "approved" /\ call'[e].req \in Effectful
               /\ GrantOf[call'[e].req] = GrantOf[call'[d].req]
               => e # c /\ call[e].pc = "approved"
        BY <1>2, <3>2, <4>2
      <4>5. QED
        BY <1>0, <3>2, <4>1, <4>3, <4>4 DEF ApprovedUnderGrant
    <3>5. QED
      BY <3>3, <3>4
  <2>9. QED
    BY <1>2, <1>3, <1>4, <2>3, <2>5, <2>8 DEF CallsAreCovered, BudgetHolds
<1>7. QED
  BY <1>5, <1>6

\* The runner is called under the ceiling, and for an effect under its own grant.
LEMMA RunKeepsInv ==
    ASSUME DispatchInv, NEW c \in Call, CallRuns(c)
    PROVE  DispatchInv'
<1> USE DEF DispatchInv
<1> DEFINE r == call[c].req
<1>0. UNCHANGED <<receipts, reconciliations, grants, inFlight>> /\ attempt' = r
  BY DEF CallRuns, AttemptBegins
<1>1. Moves(c, "approved", "running") /\ attempt = NoKey /\ receipts[r] = "none" /\ executed < Ceiling
  BY DEF CallRuns, AttemptBegins, AttemptMayRun, StoreFree, WithinCeiling
<1>2. /\ r \in Request
      /\ call' \in [Call -> CallRecord]
      /\ \A d \in Call : call'[d].req = call[d].req /\ call'[d].added = call[d].added
      /\ \A d \in Call : call'[d].pc = IF d = c THEN "running" ELSE call[d].pc
      /\ AddedOnItsWay'
  BY <1>1, MovedCall DEF Pc, CallRecord
<1>3. call[c].pc = "approved"
  BY <1>1 DEF Moves
<1>4. /\ executed' = executed + 1 /\ executed \in Nat /\ executed' \in Nat
      /\ runs' \in [Request -> Nat]
      /\ \A q \in Request : runs'[q] = IF q = r THEN runs[q] + 1 ELSE runs[q]
  BY <1>2 DEF CallRuns, DispatchTypeOK
<1>5. OperationsTypeOK' /\ DispatchTypeOK'
  BY <1>0, <1>2, <1>4, DispatchAssumption DEF OperationsTypeOK, DispatchTypeOK
<1>6. CeilingHolds'
  <2>1. \A q \in Request : runs[q] \in Nat /\ runs[q] <= executed
    BY DEF DispatchTypeOK, CallsAreCovered, BudgetHolds, CeilingHolds
  <2>2. QED
    BY <1>1, <1>4, <2>1, DispatchAssumption DEF CeilingHolds
<1>7. ReservationsTruthful'
  BY <1>0, <1>2, ReservationsKept
<1>8. OneRuns'
  <2>1. \A d \in Call : call[d].pc # "running"
    BY <1>1, NoKeyAssumption, DispatchAssumption DEF OneRuns, DispatchTypeOK, CallRecord
  <2>2. QED
    BY <1>0, <1>1, <1>2, <2>1 DEF OneRuns
<1>9. GrantBuysOneRun'
  <2>1. CASE r \notin Effectful
    BY <1>0, <1>4, <2>1, DispatchAssumption DEF CallsAreCovered, GrantBuysOneRun
  <2>2. CASE r \in Effectful
    <3>1. /\ grants[GrantOf[r]] = [state |-> "consumed", subject |-> SubjectOf[r]]
          /\ \A q \in Effectful : GrantOf[q] = GrantOf[r] => runs[q] = 0
      BY <1>3, <2>2 DEF ApprovedUnderGrant
    <3>2. runs'[r] = 1 /\ \A q \in Effectful : q # r => runs'[q] = runs[q]
      BY <1>2, <1>4, <2>2, <3>1, DispatchAssumption
    <3>3. QED
      BY <1>0, <2>2, <3>1, <3>2 DEF CallsAreCovered, GrantBuysOneRun
  <2>3. QED
    BY <2>1, <2>2
<1>10. ApprovedUnderGrant'
  <2>1. \A d \in Call : call'[d].pc = "approved" => d # c /\ call[d].pc = "approved"
    BY <1>2
  <2>2. \A d \in Call : \A q \in Effectful :
           call'[d].pc = "approved" /\ call[d].req \in Effectful /\ GrantOf[q] = GrantOf[call[d].req]
              => q # r
    BY <1>3, <2>1 DEF ApprovedUnderGrant
  <2>3. QED
    <3>1. \A d \in Call : \A q \in Effectful :
             call'[d].pc = "approved" /\ call[d].req \in Effectful /\ GrantOf[q] = GrantOf[call[d].req]
                => runs'[q] = runs[q]
      BY <1>4, <2>2, DispatchAssumption
    <3>2. QED
      BY <1>0, <1>2, <2>1, <3>1 DEF ApprovedUnderGrant
<1>11. QED
  BY <1>2, <1>5, <1>6, <1>7, <1>8, <1>9, <1>10 DEF CallsAreCovered, BudgetHolds

LEMMA ReturnKeepsInv ==
    ASSUME DispatchInv, NEW c \in Call, NEW result \in RunnerResult, RunnerReturns(c, result)
    PROVE  DispatchInv'
<1> USE DEF DispatchInv
<1> DEFINE r == call[c].req
<1>0. UNCHANGED <<grants, executed, inFlight, runs>>
  BY DEF RunnerReturns
<1>1. Moves(c, "running", "leaving") /\ AttemptEnds(r, Classified(r, result))
  BY DEF RunnerReturns
<1>2. /\ r \in Request
      /\ call' \in [Call -> CallRecord]
      /\ \A d \in Call : call'[d].req = call[d].req /\ call'[d].added = call[d].added
      /\ \A d \in Call : call'[d].pc = IF d = c THEN "leaving" ELSE call[d].pc
      /\ AddedOnItsWay'
  BY <1>1, MovedCall DEF Pc, CallRecord
<1>3. OperationsTypeOK' /\ DispatchTypeOK'
  BY <1>0, <1>1, <1>2, DispatchAssumption
     DEF OperationsTypeOK, DispatchTypeOK, AttemptEnds, Receipt, Stored
<1>4. CallsAreCovered'
  BY <1>0, <1>2, ReservationsKept DEF CallsAreCovered, BudgetHolds, CeilingHolds, GrantBuysOneRun
<1>5. ApprovedUnderGrant'
  BY <1>0, <1>2 DEF ApprovedUnderGrant
<1>6. OneRuns'
  <2>1. attempt' = NoKey /\ call[c].pc = "running"
    BY <1>1 DEF AttemptEnds, Moves
  <2>2. \A d \in Call : call'[d].pc # "running"
    BY <1>2, <2>1 DEF OneRuns
  <2>3. QED
    BY <2>1, <2>2, NoKeyAssumption, DispatchAssumption DEF OneRuns
<1>7. QED
  BY <1>2, <1>3, <1>4, <1>5, <1>6

\* A call that leaves frees its request's slot exactly if it had taken it.
LEMMA LeavingKeepsInv ==
    ASSUME DispatchInv, NEW c \in Call, CallLeaves(c)
    PROVE  DispatchInv'
<1> USE DEF DispatchInv
<1>0. UNCHANGED <<receipts, reconciliations, attempt, grants, executed, runs>>
  BY DEF CallLeaves, operationVars, receiptVars
<1>1. call[c] \in CallRecord /\ call[c].pc = "leaving"
  BY DEF DispatchTypeOK, CallLeaves
<1>2. \A d \in Call : call'[d] = IF d = c THEN AtRest ELSE call[d]
  BY DEF CallLeaves, DispatchTypeOK
<1>3. call' \in [Call -> CallRecord]
  BY AtRestTyped DEF CallLeaves, DispatchTypeOK
<1>4. inFlight' = IF call[c].added THEN inFlight \ {call[c].req} ELSE inFlight
  BY DEF CallLeaves, Releases
<1>5. OperationsTypeOK' /\ DispatchTypeOK'
  BY <1>0, <1>3, <1>4 DEF OperationsTypeOK, DispatchTypeOK
<1>6. ReservationsTruthful'
  <2>1. /\ inFlight = {call[d].req : d \in {e \in Call : call[e].added}}
        /\ \A d, e \in Call : call[d].added /\ call[e].added /\ call[d].req = call[e].req => d = e
    BY DEF CallsAreCovered, BudgetHolds, ReservationsTruthful
  <2>2. {e \in Call : call'[e].added} = {e \in Call : call[e].added} \ {c}
    BY <1>2, AtRestTyped
  <2>3. \A d \in Call : d # c => call'[d].req = call[d].req
    BY <1>2
  <2>4. \A d, e \in Call : call'[d].added /\ call'[e].added /\ call'[d].req = call'[e].req => d = e
    BY <2>1, <2>2, <2>3
  <2>5. inFlight' = {call'[d].req : d \in {e \in Call : call'[e].added}}
    BY <1>4, <2>1, <2>2, <2>3
  <2>6. QED
    BY <2>4, <2>5 DEF ReservationsTruthful
<1>7. CallsAreCovered'
  BY <1>0, <1>6 DEF CallsAreCovered, BudgetHolds, CeilingHolds, GrantBuysOneRun
<1>8. AddedOnItsWay' /\ ApprovedUnderGrant' /\ OneRuns'
  BY <1>0, <1>2, AtRestTyped DEF AddedOnItsWay, ApprovedUnderGrant, OneRuns
<1>9. QED
  BY <1>5, <1>7, <1>8

-----------------------------------------------------------------------------
(* The theorems                                                            *)

LEMMA DispatchInvNext == DispatchInv /\ [DispatchNext]_dispatchAll => DispatchInv'
<1> SUFFICES ASSUME DispatchInv, [DispatchNext]_dispatchAll
             PROVE  DispatchInv'
  OBVIOUS
<1>1. CASE OperatorStep
  BY <1>1, OperatorKeepsInv
<1>2. ASSUME NEW c \in Call, CallStep(c) \/ \E r \in Request : CallArrives(c, r)
      PROVE  DispatchInv'
  BY <1>2, QuietCallsKeepInv, AdmissionKeepsInv, ApprovalKeepsInv, RunKeepsInv, ReturnKeepsInv,
     LeavingKeepsInv DEF CallStep
<1>3. CASE UNCHANGED dispatchAll
  <2>1. UNCHANGED <<receipts, reconciliations, attempt, grants, call, executed, inFlight, runs>>
    BY <1>3 DEF dispatchAll, operationVars, receiptVars, dispatchVars
  <2>2. OperationsTypeOK' /\ DispatchTypeOK' /\ CallsAreCovered'
    BY <2>1 DEF DispatchInv, OperationsTypeOK, DispatchTypeOK, CallsAreCovered, BudgetHolds,
                CeilingHolds, ReservationsTruthful, GrantBuysOneRun
  <2>3. AddedOnItsWay' /\ ApprovedUnderGrant' /\ OneRuns'
    BY <2>1 DEF DispatchInv, AddedOnItsWay, ApprovedUnderGrant, OneRuns
  <2>4. QED
    BY <2>2, <2>3 DEF DispatchInv
<1>4. QED
  BY <1>1, <1>2, <1>3 DEF DispatchNext

\* The invariant holds in every state of every session (tool_dispatch.py).
THEOREM DispatchInvariant == DispatchSpec => []DispatchInv
<1>1. DispatchInv /\ [DispatchNext]_<<operationVars, dispatchVars>> => DispatchInv'
  BY DispatchInvNext DEF dispatchAll
<1>2. QED
  BY DispatchInvInit, <1>1, PTL DEF DispatchSpec

\* For any threads and requests, the runner is called at most Ceiling times a session,
\* the reservations are those of the calls on their way, and every effect that ran has
\* spent a grant given for it and for nothing else (tool_dispatch.py:448-490, 596-665).
THEOREM CallsCovered == DispatchSpec => []CallsAreCovered
<1>1. DispatchInv => CallsAreCovered
  BY DEF DispatchInv
<1>2. QED
  BY DispatchInvariant, <1>1, PTL

-----------------------------------------------------------------------------
(* The receipts as a store of effects that happen once                     *)

Running == {call[c].req : c \in {d \in Call : call[d].pc = "running"}}
Settled == {r \in Request : receipts[r] # "none"}

\* A step that changes neither who runs nor what is stored.
LEMMA EffectStutters ==
    ASSUME receipts' = receipts,
           {d \in Call : call'[d].pc = "running"} = {d \in Call : call[d].pc = "running"},
           \A d \in Call : call[d].pc = "running" => call'[d].req = call[d].req
    PROVE  UNCHANGED <<Running, Settled>>
BY DEF Running, Settled

LEMMA CallEffects ==
    ASSUME DispatchInv, NEW c \in Call, CallStep(c) \/ \E r \in Request : CallArrives(c, r)
    PROVE  ToolEffects!Next \/ UNCHANGED <<Running, Settled>>
<1> USE DEF DispatchInv
<1>0. call \in [Call -> CallRecord]
  BY DEF DispatchTypeOK
<1>1. CASE CallRuns(c)
  <2>1. Moves(c, "approved", "running") /\ attempt = NoKey /\ receipts[call[c].req] = "none"
        /\ receipts' = receipts
    BY <1>1 DEF CallRuns, AttemptBegins, AttemptMayRun, StoreFree
  <2>2. \A d \in Call : call[d].pc # "running"
    BY <1>0, <2>1, NoKeyAssumption, DispatchAssumption DEF OneRuns, CallRecord
  <2>3. /\ call[c].req \in Request
        /\ \A d \in Call : call'[d].req = call[d].req
        /\ \A d \in Call : call'[d].pc = IF d = c THEN "running" ELSE call[d].pc
    BY <2>1, MovedCall DEF Pc, CallRecord
  <2>4. Running = {} /\ Running' = {call[c].req} /\ Settled' = Settled /\ call[c].req \notin Settled
    BY <2>1, <2>2, <2>3 DEF Running, Settled
  <2>5. PICK k \in Request : k = call[c].req
    BY <2>3
  <2>6. ToolEffects!Starts(k)
    BY <2>4, <2>5 DEF ToolEffects!Starts, Running, Settled
  <2>7. QED
    BY <2>6 DEF ToolEffects!Next
<1>2. ASSUME NEW result \in RunnerResult, RunnerReturns(c, result)
      PROVE  ToolEffects!Next
  <2> DEFINE r == call[c].req
             outcome == Classified(r, result)
  <2>1. Moves(c, "running", "leaving") /\ AttemptEnds(r, outcome) /\ call[c].pc = "running"
    BY <1>2 DEF RunnerReturns, Moves
  <2>2. /\ r \in Request
        /\ \A d \in Call : call'[d].req = call[d].req
        /\ \A d \in Call : call'[d].pc = IF d = c THEN "leaving" ELSE call[d].pc
    BY <2>1, MovedCall DEF Pc, CallRecord
  <2>3. \A d \in Call : call[d].pc = "running" => d = c
    BY <2>1 DEF OneRuns
  <2>4. Running = {r} /\ Running' = {}
    BY <2>1, <2>2, <2>3 DEF Running
  <2>5. receipts \in [Key -> Receipt] /\ r \in Key
    BY <2>2, DispatchAssumption DEF OperationsTypeOK
  <2>6. PICK k \in Request : k = r
    BY <2>2
  <2>7. CASE outcome \in {"succeeded", "unknown"}
    <3>1. Settled' = Settled \cup {r}
      BY <2>1, <2>2, <2>5, <2>7, DispatchAssumption DEF Settled, AttemptEnds
    <3>2. ToolEffects!Settles(k)
      BY <2>4, <2>6, <3>1 DEF ToolEffects!Settles, Running, Settled
    <3>3. QED
      BY <3>2 DEF ToolEffects!Next
  <2>8. CASE outcome \notin {"succeeded", "unknown"}
    <3>1. Settled' = Settled
      BY <2>1, <2>8 DEF Settled, AttemptEnds
    <3>2. ToolEffects!Drops(k)
      BY <2>4, <2>6, <3>1 DEF ToolEffects!Drops, Running, Settled
    <3>3. QED
      BY <3>2 DEF ToolEffects!Next
  <2>9. QED
    BY <2>7, <2>8
<1>3. ASSUME NEW rec, call' = [call EXCEPT ![c] = rec], rec.pc # "running",
             call[c].pc # "running", receipts' = receipts
      PROVE  UNCHANGED <<Running, Settled>>
  <2>1. \A d \in Call : call'[d] = IF d = c THEN rec ELSE call[d]
    BY <1>0, <1>3
  <2>2. QED
    BY <1>3, <2>1, EffectStutters
<1>4. ASSUME NEW from \in {"admitted", "approved"}, NEW to \in {"approved", "leaving"},
             Moves(c, from, to), receipts' = receipts
      PROVE  UNCHANGED <<Running, Settled>>
  <2>1. /\ \A d \in Call : call'[d].req = call[d].req
        /\ \A d \in Call : call'[d].pc = IF d = c THEN to ELSE call[d].pc
    BY <1>4, MovedCall DEF Pc
  <2>2. call[c].pc # "running"
    BY <1>4 DEF Moves
  <2>3. QED
    BY <1>4, <2>1, <2>2, EffectStutters
<1>5. CASE CallApproved(c) \/ CallNotApproved(c) \/ CallReplays(c) \/ CallStopped(c)
  BY <1>4, <1>5 DEF CallApproved, CallNotApproved, CallReplays, CallStopped, operationVars, receiptVars
<1>6. CASE CallRefused(c) \/ CallOverBudget(c) \/ CallLeaves(c)
  <2>1. call' = [call EXCEPT ![c] = AtRest] /\ call[c].pc # "running" /\ receipts' = receipts
    BY <1>6 DEF CallRefused, CallOverBudget, CallLeaves, EndsChecked, operationVars, receiptVars
  <2>2. QED
    BY <1>3, <2>1, AtRestTyped
<1>7. CASE CallAdmitted(c)
  <2> DEFINE rec == [call[c] EXCEPT !.pc = "admitted", !.added = Adds(c)]
  <2>1. call' = [call EXCEPT ![c] = rec] /\ call[c].pc # "running" /\ receipts' = receipts
    BY <1>0, <1>7 DEF CallAdmitted, operationVars, receiptVars
  <2>2. rec.pc # "running"
    BY <1>0 DEF CallRecord
  <2>3. QED
    BY <1>3, <2>1, <2>2
<1>8. ASSUME NEW r \in Request, CallArrives(c, r)
      PROVE  UNCHANGED <<Running, Settled>>
  <2> DEFINE rec == [pc |-> "checked", req |-> r, added |-> FALSE]
  <2>1. call' = [call EXCEPT ![c] = rec] /\ call[c].pc # "running" /\ receipts' = receipts
    BY <1>8 DEF CallArrives, operationVars, receiptVars
  <2>2. rec.pc # "running"
    OBVIOUS
  <2> HIDE DEF rec
  <2>3. QED
    BY <1>3, <2>1, <2>2
<1>9. QED
  BY <1>1, <1>2, <1>5, <1>6, <1>7, <1>8 DEF CallStep

\* Every behaviour of the dispatch is one of a store that runs each request's effect at
\* most once and never after it was recorded (operation_store.py:29-36).
THEOREM DispatchRunsOnce == DispatchSpec => ToolEffects!Spec
<1>1. OperationsInit /\ DispatchInit => ToolEffects!Init
  <2>1. SUFFICES ASSUME OperationsInit, DispatchInit
                 PROVE  Running = {} /\ Settled = {}
    BY DEF ToolEffects!Init, Running, Settled
  <2>2. \A c \in Call : call[c].pc # "running"
    BY <2>1, AtRestTyped DEF DispatchInit
  <2>3. \A r \in Request : receipts[r] = "none"
    BY <2>1, DispatchAssumption DEF OperationsInit
  <2>4. QED
    BY <2>2, <2>3 DEF Running, Settled
<1>2. DispatchInv /\ [DispatchNext]_<<operationVars, dispatchVars>> => [ToolEffects!Next]_(ToolEffects!vars)
  <2>1. SUFFICES ASSUME DispatchInv, [DispatchNext]_<<operationVars, dispatchVars>>
                 PROVE  ToolEffects!Next \/ UNCHANGED <<Running, Settled>>
    BY DEF ToolEffects!vars, Running, Settled
  <2>2. CASE OperatorStep
    <3>1. receipts' = receipts /\ call' = call
      BY <2>2 DEF OperatorStep, receiptVars, dispatchVars
    <3>2. QED
      BY <3>1, EffectStutters
  <2>3. CASE UNCHANGED <<operationVars, dispatchVars>>
    BY <2>3, EffectStutters DEF operationVars, receiptVars, dispatchVars
  <2>4. QED
    BY <2>1, <2>2, <2>3, CallEffects DEF DispatchNext
<1>3. QED
  BY DispatchInvariant, <1>1, <1>2, PTL DEF DispatchSpec, ToolEffects!Spec
=============================================================================
