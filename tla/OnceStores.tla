----------------------------- MODULE OnceStores -----------------------------
(***************************************************************************)
(* Two other stores that run an effect once per key, each under its own    *)
(* lock: the idempotency store of the conversation endpoints               *)
(* (src/workbench/idempotency_store.py) and the Deliver start              *)
(* (src/workbench/deliver.py).  A caller that finds a record is answered   *)
(* from it, or refused, and nothing changes.                               *)
(***************************************************************************)
EXTENDS Naturals

CONSTANTS OnceKey,       \* an idempotency key with its actor and operation, or a digest
          Hash,          \* material request hashes sent under an idempotency key
          NoHash         \* no record

ASSUME OnceAssumption == NoHash \notin Hash

VARIABLES record,        \* the idempotency records: the hash each key is bound to
          executing,     \* the key and hash whose executor holds the idempotency store
          started,       \* the Deliver intents with an accepted receipt
          launching,     \* the intents whose launch holds the Deliver store
          ready          \* whether a Deliver start's preconditions hold now

onceVars == <<record, executing, started, launching, ready>>
idempotencyVars == <<record, executing>>
deliverVars == <<started, launching, ready>>

OnceTypeOK ==
    /\ record \in [OnceKey -> Hash \cup {NoHash}]
    /\ executing \subseteq [key : OnceKey, hash : Hash]
    /\ started \subseteq OnceKey /\ launching \subseteq OnceKey
    /\ ready \in BOOLEAN

OnceInit ==
    /\ record = [k \in OnceKey |-> NoHash] /\ executing = {}
    /\ started = {} /\ launching = {} /\ ready = FALSE

----------------------------------------------------------------------------
\* A key runs where it is bound to nothing: the same hash is a replay, another
\* hash a conflict.
Unclaimed(k, h) == record[k] = NoHash

\* run: the executor is called under the lock.
IdempotencyRuns(k, h) ==
    /\ executing = {} /\ Unclaimed(k, h)
    /\ executing' = {[key |-> k, hash |-> h]}
    /\ UNCHANGED <<record, deliverVars>>

IdempotencyRecords(e) ==
    /\ executing = {e}
    /\ record' = [record EXCEPT ![e.key] = e.hash]
    /\ executing' = {}
    /\ UNCHANGED deliverVars

\* The executor raises: nothing is stored.
IdempotencyRaises(e) ==
    /\ executing = {e} /\ executing' = {}
    /\ UNCHANGED <<record, deliverVars>>

----------------------------------------------------------------------------
\* start: an accepted receipt is answered as a duplicate, an unmet precondition is
\* denied and not stored, and the launch runs once every precondition holds.
DeliverLaunches(k) ==
    /\ launching = {} /\ k \notin started /\ ready
    /\ launching' = {k}
    /\ UNCHANGED <<started, ready, idempotencyVars>>

DeliverStarts(k) ==
    /\ launching = {k} /\ launching' = {}
    /\ started' = started \cup {k}
    /\ UNCHANGED <<ready, idempotencyVars>>

DeliverLaunchRaises(k) ==
    /\ launching = {k} /\ launching' = {}
    /\ UNCHANGED <<started, ready, idempotencyVars>>

----------------------------------------------------------------------------
\* The preconditions of a start come and go outside the store.
WorldChanges ==
    /\ ready' = ~ready
    /\ UNCHANGED <<idempotencyVars, started, launching>>

OnceStep(k) ==
    \/ \E h \in Hash : IdempotencyRuns(k, h)
    \/ DeliverLaunches(k) \/ DeliverStarts(k) \/ DeliverLaunchRaises(k)

OnceNext ==
    \/ WorldChanges
    \/ \E k \in OnceKey : OnceStep(k)
    \/ \E e \in executing : IdempotencyRecords(e) \/ IdempotencyRaises(e)

OnceSpec == OnceInit /\ [][OnceNext]_onceVars

----------------------------------------------------------------------------
\* Each of the two is a store of effects that happen once per key.
IdempotentEffects == INSTANCE OnceEffect WITH
    Effect <- OnceKey,
    running <- {e.key : e \in executing},
    settled <- {k \in OnceKey : record[k] # NoHash}

DeliverEffects == INSTANCE OnceEffect WITH
    Effect <- OnceKey, running <- launching, settled <- started

============================================================================
