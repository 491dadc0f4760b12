------------------------- MODULE OperationReceipts -------------------------
(***************************************************************************)
(* The receipt store and the approval store of typed operations            *)
(* (src/workbench/operation_store.py).  An attempt runs its executor under *)
(* the receipt store's lock, so `attempt` names the one key being executed *)
(* and the readers of the store wait while there is one.                   *)
(***************************************************************************)
EXTENDS Naturals, FiniteSets

CONSTANTS Key,           \* idempotency keys of attempts
          Subject,       \* what an approval binds: action, payload hash and scope
          Grant,         \* approval grant ids
          NoKey          \* no attempt holds the store

ASSUME NoKeyAssumption == NoKey \notin Key

VARIABLES receipts,          \* the stored receipt of each key
          reconciliations,   \* the keys with an open reconciliation item
          attempt,           \* the key whose executor is running, or NoKey
          grants             \* the one-time approval grants

receiptVars == <<receipts, reconciliations, attempt>>
operationVars == <<receiptVars, grants>>

Stored == {"succeeded", "reconciliation_required"}
Receipt == Stored \cup {"none"}
GrantRecord == [state : {"absent", "open", "expired", "consumed"}, subject : Subject]

OperationsTypeOK ==
    /\ receipts \in [Key -> Receipt]
    /\ reconciliations \subseteq Key
    /\ attempt \in Key \cup {NoKey}
    /\ grants \in [Grant -> GrantRecord]

OperationsInit ==
    /\ receipts = [k \in Key |-> "none"]
    /\ reconciliations = {}
    /\ attempt = NoKey
    /\ grants = [g \in Grant |-> [state |-> "absent", subject |-> CHOOSE s \in Subject : TRUE]]

StoreFree == attempt = NoKey

\* Mutant: the stored receipt is looked for before the lock is taken, not under it.
MutantAttemptMayRun(k) == StoreFree

\* record_attempt up to its executor: the lock, and no stored receipt to replay.
AttemptMayRun(k) == StoreFree /\ receipts[k] = "none"

AttemptBegins(k) ==
    /\ AttemptMayRun(k)
    /\ attempt' = k
    /\ UNCHANGED <<receipts, reconciliations>>

\* Mutant: an executor that stores nothing leaves the lock taken.
MutantAttemptEnds(k, outcome) ==
    /\ attempt = k
    /\ attempt' = IF outcome \in {"succeeded", "unknown"} THEN NoKey ELSE attempt
    /\ receipts' = IF outcome = "succeeded" THEN [receipts EXCEPT ![k] = "succeeded"]
                   ELSE IF outcome = "unknown"
                        THEN [receipts EXCEPT ![k] = "reconciliation_required"]
                        ELSE receipts
    /\ reconciliations' = IF outcome = "unknown" THEN reconciliations \cup {k}
                          ELSE reconciliations

\* record_attempt after its executor: a success and an unknown outcome are kept,
\* an unknown one with its reconciliation item; a failure or a denial is answered
\* and not kept, and an error of the executor leaves nothing.
AttemptEnds(k, outcome) ==
    /\ attempt = k
    /\ attempt' = NoKey
    /\ receipts' = IF outcome = "succeeded" THEN [receipts EXCEPT ![k] = "succeeded"]
                   ELSE IF outcome = "unknown"
                        THEN [receipts EXCEPT ![k] = "reconciliation_required"]
                        ELSE receipts
    /\ reconciliations' = IF outcome = "unknown" THEN reconciliations \cup {k}
                          ELSE reconciliations

----------------------------------------------------------------------------
\* grant: an operator's decision, once per grant id.
GrantIssued(g, s) ==
    /\ grants[g].state = "absent"
    /\ grants' = [grants EXCEPT ![g] = [state |-> "open", subject |-> s]]

\* The clock passes a grant's deadline.
GrantExpires(g) ==
    /\ grants[g].state = "open"
    /\ grants' = [grants EXCEPT ![g].state = "expired"]

\* What consume demands: a known grant, neither used nor expired, bound to this
\* very action, payload and scope.
GrantCovers(g, s) == grants[g].state = "open" /\ grants[g].subject = s

GrantConsumed(g, s) ==
    /\ GrantCovers(g, s)
    /\ grants' = [grants EXCEPT ![g].state = "consumed"]
============================================================================
