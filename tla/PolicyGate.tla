----------------------------- MODULE PolicyGate -----------------------------
(***************************************************************************)
(* The gate policy changes go through (src/workbench/preference_gates.py): *)
(* an operation is applied inside the receipt store's executor, which      *)
(* consumes the approval, commits to the preference store or calls the     *)
(* provider the form names, and answers with the outcome that is recorded. *)
(* The operation's digest is its identity for the receipts and for the     *)
(* approvals.  The provider is a field of the form and not of the digest.  *)
(***************************************************************************)
EXTENDS OperationReceipts, Preferences

CONSTANTS Op,            \* the operations, by what the digest hashes
          Provider,      \* the providers a form may name
          Hub,           \* the hub's own preference store
          Declared,      \* what the other providers declared allowed
          Refused        \* the operations the hub's preference store does not take

ASSUME GateAssumption ==
    /\ Op \subseteq [cell : Cell, kind : {"set", "reset"}, value : Value \cup {NoValue},
                     version : Nat \ {0}]
    /\ Op \subseteq Key /\ Op \subseteq Subject
    /\ Hub \in Provider
    /\ Declared \subseteq [provider : Provider \ {Hub}, cell : Cell, kind : {"set", "reset"}]
    /\ Refused \subseteq Op

VARIABLES stage,         \* how far the executor of the running attempt is
          asked,         \* the provider the running attempt names
          named,         \* the provider each stored receipt names
          effects        \* how often each operation took effect at each provider

gateVars == <<stage, asked, named, effects>>
Stage == {"none", "approval", "effect", "record"}

GateTypeOK ==
    /\ stage \in Stage
    /\ asked \in Provider
    /\ named \in [Op -> Provider]
    /\ effects \in [Op -> [Provider -> Nat]]

GateInit ==
    /\ stage = "none"
    /\ asked = Hub
    /\ named = [o \in Op |-> Hub]
    /\ effects = [o \in Op |-> [p \in Provider |-> 0]]

\* apply: the operation's digest is its receipt key; a stored receipt is answered,
\* whichever provider the form names, and changes nothing.
ApplyBegins(o, p) ==
    /\ AttemptBegins(o)
    /\ stage' = "approval"
    /\ asked' = p
    /\ UNCHANGED <<grants, named, effects, prefVars>>

\* record_attempt after the executor: a receipt that is kept names the provider.
ApplyEnds(o, outcome) ==
    /\ AttemptEnds(o, outcome)
    /\ stage' = "none"
    /\ asked' = Hub
    /\ named' = IF outcome \in {"succeeded", "unknown"} THEN [named EXCEPT ![o] = asked] ELSE named
    /\ UNCHANGED <<grants, prefVars>>

\* The executor consumes the grant the caller named, or answers "denied".  What a
\* grant binds is the digest: it covers the operation at any provider.
ApplyApproved(o, g) ==
    /\ attempt = o /\ stage = "approval"
    /\ GrantConsumed(g, o)
    /\ stage' = "effect"
    /\ UNCHANGED <<receiptVars, asked, named, effects, prefVars>>

ApplyDenied(o, g) ==
    /\ stage = "approval" /\ ~GrantCovers(g, o)
    /\ ApplyEnds(o, "denied")
    /\ UNCHANGED effects

\* _commit_hub_local: the version the operation produces is one above the stored one.
ApplyCommits(o) ==
    /\ attempt = o /\ stage = "effect" /\ asked = Hub /\ o \notin Refused
    /\ Commits(o.cell, o.kind, o.value, o.version - 1)
    /\ effects' = [effects EXCEPT ![o][Hub] = @ + 1]
    /\ stage' = "record"
    /\ UNCHANGED <<operationVars, asked, named, seen>>

\* The store refuses the write before it compares versions: the grant is spent.
ApplyRefused(o) ==
    /\ stage = "effect" /\ asked = Hub /\ o \in Refused
    /\ ApplyEnds(o, "denied")
    /\ UNCHANGED effects

\* Mutant: a stale version is taken for a repeated write, and reported as done.
MutantApplyStale(o) ==
    /\ stage = "effect" /\ asked = Hub /\ o \notin Refused
    /\ ~VersionMatches(o.cell, o.version - 1)
    /\ ApplyEnds(o, "succeeded")
    /\ UNCHANGED effects

\* Another write moved the version: the grant is spent, nothing is stored.
ApplyStale(o) ==
    /\ stage = "effect" /\ asked = Hub /\ o \notin Refused
    /\ ~VersionMatches(o.cell, o.version - 1)
    /\ ApplyEnds(o, "failed")
    /\ UNCHANGED effects

ApplyRecords(o) ==
    /\ stage = "record"
    /\ ApplyEnds(o, "succeeded")
    /\ UNCHANGED effects

\* A provider other than the hub: it is called only for what it declared, and an
\* adapter that raises may have acted.
ApplyAsksProvider(o) ==
    /\ stage = "effect" /\ asked # Hub
    /\ \/ /\ [provider |-> asked, cell |-> o.cell, kind |-> o.kind] \notin Declared
          /\ ApplyEnds(o, "denied")
          /\ UNCHANGED effects
       \/ /\ [provider |-> asked, cell |-> o.cell, kind |-> o.kind] \in Declared
          /\ \E outcome \in {"succeeded", "unknown"} :
                /\ ApplyEnds(o, outcome)
                /\ effects' = [effects EXCEPT ![o][asked] = @ + 1]
       \/ /\ [provider |-> asked, cell |-> o.cell, kind |-> o.kind] \in Declared
          /\ \E outcome \in {"failed", "denied", "unknown"} : ApplyEnds(o, outcome)
          /\ UNCHANGED effects

ApplyStep(o) ==
    \/ \E p \in Provider : ApplyBegins(o, p)
    \/ \E g \in Grant : ApplyApproved(o, g) \/ ApplyDenied(o, g)
    \/ ApplyCommits(o)
    \/ ApplyRefused(o)
    \/ ApplyStale(o)
    \/ ApplyRecords(o)
    \/ ApplyAsksProvider(o)

\* The approver's decisions, and the tabs' own writes, which take no receipt.
ApproverStep ==
    /\ \E g \in Grant : (\E o \in Op : GrantIssued(g, o)) \/ GrantExpires(g)
    /\ UNCHANGED <<receiptVars, gateVars, prefVars>>

WriterStep == TabStep /\ UNCHANGED <<operationVars, gateVars>>

GateNext ==
    \/ ApproverStep
    \/ WriterStep
    \/ \E o \in Op : ApplyStep(o)

GateSpec ==
    /\ OperationsInit /\ PreferencesInit /\ GateInit
    /\ [][GateNext]_<<operationVars, prefVars, gateVars>>

----------------------------------------------------------------------------
\* A policy operation takes effect once, at one provider, under a grant that was given
\* for its digest.  A success receipt is true of the provider it names; and once the
\* attempt is over, an effect has its receipt, which names the provider: a success for
\* a commit of the hub, at least an item to reconcile for another (preference_gates.py:12-26).
ReceiptsMeanCommits ==
    \A o \in Op :
        /\ receipts[o] = "succeeded" => effects[o][named[o]] = 1
        /\ \A p \in Provider : effects[o][p] # 0 =>
              /\ effects[o][p] = 1
              /\ \A q \in Provider \ {p} : effects[o][q] = 0
              /\ \E g \in Grant : grants[g] = [state |-> "consumed", subject |-> o]
              /\ attempt # o => named[o] = p /\ receipts[o] \in Stored
              /\ attempt # o /\ p = Hub => receipts[o] = "succeeded"

\* "a grant bound to precisely this effect" (preference_gates.py:251-253), and a replay
\* answers "the same operation identity" (preference_gates.py:270-273): a form that is
\* answered with a success has been applied where it asked.  The digest leaves the
\* provider out, so this does not hold of the code.
SuccessIsOfTheProviderAsked ==
    \A o \in Op, p \in Provider : receipts[o] = "succeeded" => effects[o][p] = 1

\* An operation's receipt key is its identity, and "a correctly-versioned re-submit
\* has a DIFFERENT digest" (preference_gates.py:347-349): no form built at the stored
\* version is answered with an old receipt of the hub's own.  A reset that removes the
\* version with the record breaks this.
ResubmitIsNew ==
    \A o \in Op : attempt # o /\ named[o] = Hub /\ VersionMatches(o.cell, o.version - 1) =>
        receipts[o] = "none"

\* The gate's receipts are a store of effects that happen once.
PolicyEffects == INSTANCE OnceEffect WITH
    Effect <- Op,
    running <- {attempt} \cap Op,
    settled <- {o \in Op : receipts[o] # "none"}
============================================================================
