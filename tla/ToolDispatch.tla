---------------------------- MODULE ToolDispatch ----------------------------
(***************************************************************************)
(* Typed dispatch of chat tool requests (src/workbench/tool_dispatch.py).  *)
(* Calls run in the threads of the hub: each crosses the replay check, the *)
(* checks against the session's pin, the budget's early refusal, the       *)
(* one-time approval, the receipt store's executor with the budget's gate, *)
(* and the release of what it reserved.                                    *)
(***************************************************************************)
EXTENDS OperationReceipts

CONSTANTS Call,          \* threads that dispatch
          Request,       \* tool requests, each with its own request digest
          Effectful,     \* the requests whose tool has an effect
          GrantOf,       \* the grant an effectful request names
          SubjectOf,     \* what an effectful request asks to do
          Ceiling        \* the session's lifetime ceiling of tool calls

ASSUME DispatchAssumption ==
    /\ Request \subseteq Key /\ Request # {} /\ Subject # {}
    /\ Effectful \subseteq Request
    /\ GrantOf \in [Effectful -> Grant]
    /\ SubjectOf \in [Effectful -> Subject]
    /\ Ceiling \in Nat

VARIABLES call,          \* where each thread is, with which request
          executed,      \* _executed_count
          inFlight,      \* _in_flight
          runs           \* how often the runner was called for a request

dispatchVars == <<call, executed, inFlight, runs>>

Pc == {"idle", "checked", "admitted", "approved", "running", "leaving"}
CallRecord == [pc : Pc, req : Request, added : BOOLEAN]

DispatchTypeOK ==
    /\ call \in [Call -> CallRecord]
    /\ executed \in Nat
    /\ inFlight \subseteq Request
    /\ runs \in [Request -> Nat]

AtRest == [pc |-> "idle", req |-> CHOOSE r \in Request : TRUE, added |-> FALSE]

DispatchInit ==
    /\ call = [c \in Call |-> AtRest]
    /\ executed = 0
    /\ inFlight = {}
    /\ runs = [r \in Request |-> 0]

Moves(c, from, to) ==
    /\ call[c].pc = from
    /\ call' = [call EXCEPT ![c].pc = to]

\* A call ends with an error before it has reserved anything.
EndsChecked(c) ==
    /\ call[c].pc = "checked"
    /\ call' = [call EXCEPT ![c] = AtRest]

\* Steps 1 and 2: a stored receipt is answered at once (nothing changes), and
\* looking for it waits for the store.
CallArrives(c, r) ==
    /\ call[c].pc = "idle"
    /\ StoreFree /\ receipts[r] = "none"
    /\ call' = [call EXCEPT ![c] = [pc |-> "checked", req |-> r, added |-> FALSE]]
    /\ UNCHANGED <<operationVars, executed, inFlight, runs>>

\* Steps 3 to 5 refuse: the pin, the inputs or the tool's health.
CallRefused(c) ==
    /\ EndsChecked(c)
    /\ UNCHANGED <<operationVars, executed, inFlight, runs>>

\* Whether this call is the one that reserves its request.
Adds(c) == call[c].req \notin inFlight

\* _reserve_budget: a request already reserved takes no second slot, a new one
\* needs room beside what was executed and what is reserved.
CallAdmitted(c) ==
    /\ call[c].pc = "checked"
    /\ Adds(c) => executed + Cardinality(inFlight) < Ceiling
    /\ call' = [call EXCEPT ![c].pc = "admitted", ![c].added = Adds(c)]
    /\ inFlight' = inFlight \cup {call[c].req}
    /\ UNCHANGED <<operationVars, executed, runs>>

CallOverBudget(c) ==
    /\ Adds(c) /\ executed + Cardinality(inFlight) >= Ceiling
    /\ EndsChecked(c)
    /\ UNCHANGED <<operationVars, executed, inFlight, runs>>

\* _consume_approval: the grant is spent before the receipt store is reached.
CallApproved(c) ==
    LET r == call[c].req IN
    /\ Moves(c, "admitted", "approved")
    /\ IF r \in Effectful THEN GrantConsumed(GrantOf[r], SubjectOf[r]) ELSE UNCHANGED grants
    /\ UNCHANGED <<receiptVars, executed, inFlight, runs>>

CallNotApproved(c) ==
    LET r == call[c].req IN
    /\ r \in Effectful /\ ~GrantCovers(GrantOf[r], SubjectOf[r])
    /\ Moves(c, "admitted", "leaving")
    /\ UNCHANGED <<operationVars, executed, inFlight, runs>>

\* record_attempt finds the receipt another call stored meanwhile.
CallReplays(c) ==
    /\ StoreFree /\ receipts[call[c].req] # "none"
    /\ Moves(c, "approved", "leaving")
    /\ UNCHANGED <<operationVars, executed, inFlight, runs>>

\* The authoritative gate in the executor.
WithinCeiling == executed < Ceiling

CallRuns(c) ==
    LET r == call[c].req IN
    /\ WithinCeiling
    /\ AttemptBegins(r)
    /\ Moves(c, "approved", "running")
    /\ executed' = executed + 1
    /\ runs' = [runs EXCEPT ![r] = @ + 1]
    /\ UNCHANGED <<grants, inFlight>>

\* The gate refuses after the grant was spent: nothing is stored.
CallStopped(c) ==
    /\ AttemptMayRun(call[c].req) /\ ~WithinCeiling
    /\ Moves(c, "approved", "leaving")
    /\ UNCHANGED <<operationVars, executed, inFlight, runs>>

\* What the runner can do: answer with an outcome, raise, return something else,
\* or answer with an outcome whose receipt the contract refuses.
RunnerResult == {"succeeded", "failed", "denied", "unknown", "raises", "malformed", "unreceiptable"}

\* What the executor makes of it: an effect that raised or that answered nonsense
\* may have happened.
Classified(r, result) ==
    IF result \in {"raises", "malformed"} /\ r \in Effectful THEN "unknown" ELSE result

RunnerReturns(c, result) ==
    LET r == call[c].req IN
    /\ Moves(c, "running", "leaving")
    /\ AttemptEnds(r, Classified(r, result))
    /\ UNCHANGED <<grants, executed, inFlight, runs>>

\* Mutant: every call frees its request's slot.
MutantReleases(c) == TRUE

\* Only the call that reserved the slot frees it.
Releases(c) == call[c].added

\* The finally block, then the answer.
CallLeaves(c) ==
    /\ call[c].pc = "leaving"
    /\ call' = [call EXCEPT ![c] = AtRest]
    /\ inFlight' = IF Releases(c) THEN inFlight \ {call[c].req} ELSE inFlight
    /\ UNCHANGED <<operationVars, executed, runs>>

\* The operator decides on a preview, or is too late.
OperatorStep ==
    /\ \E r, q \in Effectful : GrantIssued(GrantOf[r], SubjectOf[q]) \/ GrantExpires(GrantOf[r])
    /\ UNCHANGED <<receiptVars, dispatchVars>>

CallStep(c) ==
    \/ CallRefused(c)
    \/ CallAdmitted(c)
    \/ CallOverBudget(c)
    \/ CallApproved(c)
    \/ CallNotApproved(c)
    \/ CallReplays(c)
    \/ CallRuns(c)
    \/ CallStopped(c)
    \/ \E result \in RunnerResult : RunnerReturns(c, result)
    \/ CallLeaves(c)

DispatchNext ==
    \/ OperatorStep
    \/ \E c \in Call : CallStep(c) \/ \E r \in Request : CallArrives(c, r)

DispatchSpec ==
    OperationsInit /\ DispatchInit /\ [][DispatchNext]_<<operationVars, dispatchVars>>

----------------------------------------------------------------------------
\* The number of runner calls of a session never passes its ceiling, however
\* many calls slip past the early refusal (tool_dispatch.py:480-490).
CeilingHolds ==
    /\ executed <= Ceiling
    /\ \A r \in Request : runs[r] <= executed

\* The reservations are exactly those of the calls still on their way: a
\* duplicate neither frees the slot of the call it duplicates nor leaves one
\* behind (tool_dispatch.py:640-665).
ReservationsTruthful ==
    /\ inFlight = {call[c].req : c \in {d \in Call : call[d].added}}
    /\ \A c, d \in Call : call[c].added /\ call[d].added /\ call[c].req = call[d].req => c = d

\* The session's budget: its runner calls and its reservations, together.
BudgetHolds == CeilingHolds /\ ReservationsTruthful

\* A grant pays for at most one run of the runner, of the very call it was given
\* for, in whatever order calls, duplicates and mutated inputs reach it
\* (tool_dispatch.py:448-450, 596-620).
GrantBuysOneRun ==
    /\ \A r \in Effectful :
          runs[r] > 0 => /\ runs[r] = 1
                         /\ grants[GrantOf[r]] = [state |-> "consumed", subject |-> SubjectOf[r]]
    /\ \A r, q \in Effectful : runs[r] > 0 /\ runs[q] > 0 /\ GrantOf[r] = GrantOf[q] => r = q

\* Tool calls stay within the session's ceiling and within the grants given for them.
CallsAreCovered == BudgetHolds /\ GrantBuysOneRun

\* A dispatch runs its request's effect at most once: the receipts are a store of
\* effects that happen once (operation_store.py:29-36).
ToolEffects == INSTANCE OnceEffect WITH
    Effect <- Request,
    running <- {call[c].req : c \in {d \in Call : call[d].pc = "running"}},
    settled <- {r \in Request : receipts[r] # "none"}

\* Every dispatch comes back to its caller: no lock, reservation or spent grant
\* leaves it waiting (tool_dispatch.py:430-541).
DispatchesReturn == \A c \in Call : call[c].pc # "idle" ~> call[c].pc = "idle"
============================================================================
