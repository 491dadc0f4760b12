---------------------------- MODULE RecordProofs ----------------------------
(***************************************************************************)
(* Proofs about the hub's records, for any operations, grants, tabs and     *)
(* packets: policy receipts mean commits (PolicyGate), a write is made by a *)
(* tab that has seen the latest one (Preferences), a directive shown as     *)
(* included was carried (Directives), what runs was reviewed (Plugins),     *)
(* what is served fits (EffectiveSettings), and, put together (Records),    *)
(* the stores behind them are typed and run their effects once.             *)
(***************************************************************************)
EXTENDS Records, ToolDispatchProofs, WorkflowCursorProofs, WellFoundedInduction

-----------------------------------------------------------------------------
(* The policy gate                                                          *)

GrantSpent(o) == \E g \in Grant : grants[g] = [state |-> "consumed", subject |-> o]

\* What accounts for an operation's effects: the attempt that is about to record one, or
\* the stored receipt, which names the provider; a success of the one it names is never in
\* doubt, nor is a commit of the hub.
Accounted(o) ==
    \A p \in Provider :
        /\ effects[o][p] = 1 => GrantSpent(o)
        /\ attempt = o => (effects[o][p] = 1 <=> stage = "record" /\ p = Hub)
        /\ attempt # o /\ effects[o][p] = 1 =>
              receipts[o] \in Stored /\ named[o] = p /\ (p = Hub => receipts[o] = "succeeded")
        /\ attempt # o /\ receipts[o] = "succeeded" /\ named[o] = p => effects[o][p] = 1

\* How far the running attempt is, what is stored, and the shapes they have.
GateInv ==
    /\ receipts \in [Key -> Receipt]
    /\ attempt \in Op \cup {NoKey}
    /\ grants = [g \in Grant |-> [state |-> grants[g].state, subject |-> grants[g].subject]]
    /\ stage \in Stage /\ (stage = "none" <=> attempt = NoKey)
    /\ asked \in Provider /\ named \in [Op -> Provider]
    /\ effects \in [Op -> [Provider -> {0, 1}]]
    /\ attempt # NoKey => receipts[attempt] = "none"
    /\ stage = "record" => asked = Hub
    /\ stage \in {"effect", "record"} => GrantSpent(attempt)
    /\ \A o \in Op : Accounted(o)

LEMMA OpIsKey == Op \subseteq Key /\ NoKey \notin Op
BY GateAssumption, NoKeyAssumption

LEMMA GateInitially == OperationsInit /\ GateInit => GateInv
BY OpIsKey, GateAssumption DEF OperationsInit, GateInit, GateInv, Accounted, Receipt, Stored, Stage, GrantSpent

\* A grant that was consumed stays consumed for its operation.
LEMMA GrantsMove ==
    ASSUME GateInv,
           \/ UNCHANGED grants
           \/ \E g \in Grant : GrantExpires(g) \/ \E o : GrantIssued(g, o) \/ GrantConsumed(g, o)
    PROVE  /\ grants' = [g \in Grant |-> [state |-> grants'[g].state, subject |-> grants'[g].subject]]
           /\ \A o \in Op : GrantSpent(o) => GrantSpent(o)'
<1>1. CASE UNCHANGED grants
  BY <1>1 DEF GateInv, GrantSpent
<1>2. ASSUME NEW g \in Grant, GrantExpires(g) \/ \E o : GrantIssued(g, o) \/ GrantConsumed(g, o)
      PROVE  /\ grants' = [h \in Grant |-> [state |-> grants'[h].state, subject |-> grants'[h].subject]]
             /\ \A o \in Op : GrantSpent(o) => GrantSpent(o)'
  <2>1. grants[g].state # "consumed" /\ \A h \in Grant \ {g} : grants'[h] = grants[h]
    BY <1>2 DEF GateInv, GrantExpires, GrantIssued, GrantConsumed, GrantCovers
  <2>2. /\ grants' = [h \in Grant |-> grants'[h]]
        /\ grants'[g] = [state |-> grants'[g].state, subject |-> grants'[g].subject]
    BY <1>2 DEF GateInv, GrantExpires, GrantIssued, GrantConsumed
  <2>3. \A h \in Grant : grants[h] = [state |-> grants[h].state, subject |-> grants[h].subject]
    BY DEF GateInv
  <2>4. ASSUME NEW o \in Op, GrantSpent(o)
        PROVE  GrantSpent(o)'
    <3>1. PICK h \in Grant : grants[h] = [state |-> "consumed", subject |-> o]
      BY <2>4 DEF GrantSpent
    <3>2. grants'[h] = grants[h]
      BY <2>1, <3>1
    <3>3. QED
      BY <3>1, <3>2 DEF GrantSpent
  <2>5. \A h \in Grant : grants'[h] = [state |-> grants'[h].state, subject |-> grants'[h].subject]
    BY <2>1, <2>2, <2>3
  <2>6. QED
    BY <2>2, <2>4, <2>5
<1>3. QED
  BY <1>1, <1>2

\* How an attempt can end: without an effect, with the hub's commit, or with an answer of
\* another provider.
Ends(o, outcome) ==
    /\ ApplyEnds(o, outcome)
    /\ \/ outcome \in {"failed", "denied"} /\ stage # "record" /\ UNCHANGED effects
       \/ outcome = "succeeded" /\ stage = "record" /\ UNCHANGED effects
       \/ outcome = "unknown" /\ stage = "effect" /\ asked # Hub /\ UNCHANGED effects
       \/ /\ outcome \in {"succeeded", "unknown"} /\ stage = "effect" /\ asked # Hub
          /\ effects' = [effects EXCEPT ![o][asked] = @ + 1]

LEMMA EndsKeep ==
    ASSUME GateInv, NEW o \in Op, NEW outcome, Ends(o, outcome)
    PROVE  GateInv'
<1>1. /\ attempt = o /\ attempt' = NoKey /\ stage' = "none" /\ asked' = Hub
      /\ UNCHANGED grants /\ receipts[o] = "none" /\ asked \in Provider
  BY OpIsKey DEF Ends, ApplyEnds, AttemptEnds, GateInv
<1>2. \A p \in Op : GrantSpent(p)' <=> GrantSpent(p)
  BY <1>1 DEF GrantSpent
<1>3. /\ receipts' \in [Key -> Receipt] /\ \A k \in Key \ {o} : receipts'[k] = receipts[k]
      /\ receipts'[o] = "succeeded" <=> outcome = "succeeded"
      /\ receipts'[o] \in Stored <=> outcome \in {"succeeded", "unknown"}
  BY <1>1, OpIsKey DEF Ends, ApplyEnds, AttemptEnds, GateInv, Receipt, Stored
<1>4. /\ named' \in [Op -> Provider] /\ \A p \in Op \ {o} : named'[p] = named[p]
      /\ outcome \in {"succeeded", "unknown"} => named'[o] = asked
  BY <1>1 DEF Ends, ApplyEnds, GateInv
<1>5. /\ effects' \in [Op -> [Provider -> {0, 1}]]
      /\ \A p \in Op \ {o} : effects'[p] = effects[p]
      /\ \A p \in Provider : effects'[o][p] = 1 => p = asked /\ outcome \in {"succeeded", "unknown"}
      /\ outcome = "succeeded" => effects'[o][asked] = 1
      /\ asked = Hub => outcome # "unknown"
      /\ \A p \in Provider : effects'[o][p] = 1 => stage \in {"effect", "record"}
  <2>1. \A p \in Provider : effects[o][p] \in {0, 1} /\ (effects[o][p] = 1 <=> stage = "record" /\ p = Hub)
    BY <1>1 DEF GateInv, Accounted
  <2>2. effects \in [Op -> [Provider -> {0, 1}]] /\ (stage = "record" => asked = Hub)
    BY DEF GateInv
  <2>3. CASE UNCHANGED effects
    BY <1>1, <2>1, <2>2, <2>3, GateAssumption DEF Ends
  <2>4. CASE /\ outcome \in {"succeeded", "unknown"} /\ stage = "effect" /\ asked # Hub
             /\ effects' = [effects EXCEPT ![o][asked] = @ + 1]
    <3>1. \A p \in Provider : effects[o][p] = 0
      BY <2>1, <2>4
    <3>2. /\ effects'[o] = [effects[o] EXCEPT ![asked] = 1]
          /\ \A p \in Op \ {o} : effects'[p] = effects[p]
          /\ effects' = [p \in Op |-> effects'[p]]
      <4>1. effects[o][asked] + 1 = 1
        BY <1>1, <3>1
      <4>2. effects' = [effects EXCEPT ![o] = [effects[o] EXCEPT ![asked] = effects[o][asked] + 1]]
        BY <2>4
      <4>3. effects' = [effects EXCEPT ![o] = [effects[o] EXCEPT ![asked] = 1]]
        BY <4>1, <4>2
      <4>4. QED
        BY <2>2, <4>3
    <3>3. effects'[o] \in [Provider -> {0, 1}] /\ \A p \in Op \ {o} : effects'[p] \in [Provider -> {0, 1}]
      BY <1>1, <2>2, <3>2
    <3>4. effects' \in [Op -> [Provider -> {0, 1}]]
      BY <3>2, <3>3
    <3>5. \A p \in Provider : effects'[o][p] = IF p = asked THEN 1 ELSE 0
      BY <1>1, <2>2, <3>1, <3>2
    <3>6. QED
      BY <1>1, <2>4, <3>2, <3>4, <3>5
  <2>5. QED
    BY <2>3, <2>4 DEF Ends
<1>6. GrantSpent(o) \/ stage \notin {"effect", "record"}
  BY <1>1 DEF GateInv
<1>7. Accounted(o)'
  BY <1>1, <1>2, <1>3, <1>4, <1>5, <1>6, OpIsKey DEF Accounted
<1>8. \A p \in Op \ {o} : Accounted(p)'
  <2>1. \A p \in Op \ {o} : Accounted(p) /\ attempt # p /\ attempt' # p /\ receipts'[p] = receipts[p]
    BY <1>1, <1>3, OpIsKey DEF GateInv
  <2>2. QED
    BY <2>1, <1>2, <1>4, <1>5 DEF Accounted
<1>9. QED
  BY <1>1, <1>3, <1>4, <1>5, <1>7, <1>8, GateAssumption DEF GateInv, Stage

LEMMA StepEnds ==
    ASSUME GateInv, NEW o \in Op,
           \/ \E g \in Grant : ApplyDenied(o, g)
           \/ ApplyRefused(o) \/ ApplyStale(o) \/ ApplyRecords(o) \/ ApplyAsksProvider(o)
    PROVE  \E outcome \in {"succeeded", "failed", "denied", "unknown"} : Ends(o, outcome)
BY DEF GateInv, Ends, ApplyDenied, ApplyRefused, ApplyStale, ApplyRecords, ApplyAsksProvider

LEMMA GateInductive == GateInv /\ [GateNext]_<<operationVars, prefVars, gateVars>> => GateInv'
<1> SUFFICES ASSUME GateInv, [GateNext]_<<operationVars, prefVars, gateVars>>
             PROVE  GateInv'
  OBVIOUS
<1>1. CASE UNCHANGED <<operationVars, gateVars>>
  BY <1>1 DEF GateInv, Accounted, GrantSpent, operationVars, receiptVars, gateVars
<1>2. CASE ApproverStep
  <2>1. UNCHANGED <<receipts, attempt, stage, asked, named, effects>>
    BY <1>2 DEF ApproverStep, receiptVars, gateVars
  <2>2. /\ grants' = [g \in Grant |-> [state |-> grants'[g].state, subject |-> grants'[g].subject]]
        /\ \A o \in Op : GrantSpent(o) => GrantSpent(o)'
    BY <1>2, GrantsMove DEF ApproverStep
  <2>3. \A o \in Op : Accounted(o)'
    BY <2>1, <2>2 DEF GateInv, Accounted
  <2>4. QED
    BY <2>1, <2>2, <2>3, OpIsKey DEF GateInv, Stage
<1>3. ASSUME NEW o \in Op, ApplyStep(o)
      PROVE  GateInv'
  <2>1. ASSUME NEW p \in Provider, ApplyBegins(o, p)
        PROVE  GateInv'
    <3>1. /\ attempt = NoKey /\ receipts[o] = "none" /\ attempt' = o
          /\ stage' = "approval" /\ asked' = p /\ UNCHANGED <<receipts, grants, named, effects>>
      BY <2>1 DEF ApplyBegins, AttemptBegins, AttemptMayRun, StoreFree
    <3>2. \A x \in Op : GrantSpent(x)' <=> GrantSpent(x)
      BY <3>1 DEF GrantSpent
    <3>3. \A x \in Op : Accounted(x)'
      <4>1. \A x \in Op : Accounted(x) /\ attempt # x
        BY <3>1, OpIsKey DEF GateInv
      <4>2. QED
        BY <3>1, <3>2, <4>1 DEF Accounted, Stored
    <3>4. QED
      BY <2>1, <3>1, <3>2, <3>3, OpIsKey DEF GateInv, Stage
  <2>2. ASSUME NEW g \in Grant, ApplyApproved(o, g)
        PROVE  GateInv'
    <3>1. /\ grants' = [h \in Grant |-> [state |-> grants'[h].state, subject |-> grants'[h].subject]]
          /\ \A p \in Op : GrantSpent(p) => GrantSpent(p)'
      BY <2>2, GrantsMove DEF ApplyApproved
    <3>2. grants'[g] = [state |-> "consumed", subject |-> o]
      BY <2>2 DEF ApplyApproved, GrantConsumed, GrantCovers, GateInv
    <3>3. GrantSpent(o)'
      BY <3>2 DEF GrantSpent
    <3>4. /\ attempt = o /\ stage = "approval" /\ stage' = "effect"
          /\ UNCHANGED <<receipts, attempt, asked, named, effects>>
      BY <2>2 DEF ApplyApproved, receiptVars
    <3>5. \A x \in Op : Accounted(x)'
      BY <3>1, <3>4 DEF GateInv, Accounted
    <3>6. QED
      BY <3>1, <3>3, <3>4, <3>5, OpIsKey DEF GateInv, Stage
  <2>3. CASE ApplyCommits(o)
    <3>1. /\ attempt = o /\ asked = Hub /\ stage = "effect" /\ stage' = "record"
          /\ UNCHANGED <<receipts, attempt, grants, asked, named>>
          /\ effects' = [effects EXCEPT ![o][Hub] = @ + 1]
      BY <2>3 DEF ApplyCommits, operationVars, receiptVars
    <3>2. /\ effects \in [Op -> [Provider -> {0, 1}]] /\ Hub \in Provider
          /\ \A p \in Provider : effects[o][p] = 0
      BY <3>1, GateAssumption DEF GateInv, Accounted
    <3>3. /\ effects' \in [Op -> [Provider -> {0, 1}]]
          /\ \A p \in Provider : effects'[o][p] = IF p = Hub THEN 1 ELSE 0
          /\ \A x \in Op \ {o} : effects'[x] = effects[x]
      <4>1. effects'[o] = [effects[o] EXCEPT ![Hub] = 1] /\ \A x \in Op \ {o} : effects'[x] = effects[x]
        <5>1. effects[o][Hub] + 1 = 1
          BY <3>2
        <5>2. effects' = [effects EXCEPT ![o] = [effects[o] EXCEPT ![Hub] = effects[o][Hub] + 1]]
          BY <3>1
        <5>3. effects' = [effects EXCEPT ![o] = [effects[o] EXCEPT ![Hub] = 1]]
          BY <5>1, <5>2
        <5>4. QED
          BY <3>2, <5>3
      <4>2. effects' = [x \in Op |-> effects'[x]] /\ effects'[o] \in [Provider -> {0, 1}]
        BY <3>1, <3>2, <4>1
      <4>3. QED
        BY <3>2, <4>1, <4>2
    <3>4. GrantSpent(o) /\ \A x \in Op : GrantSpent(x)' <=> GrantSpent(x)
      BY <3>1 DEF GateInv, GrantSpent
    <3>5. \A x \in Op : Accounted(x)'
      <4>1. Accounted(o)'
        BY <3>1, <3>3, <3>4 DEF Accounted
      <4>2. \A x \in Op \ {o} : Accounted(x)'
        BY <3>1, <3>3, <3>4 DEF GateInv, Accounted
      <4>3. QED
        BY <4>1, <4>2
    <3>6. QED
      BY <3>1, <3>3, <3>4, <3>5, OpIsKey DEF GateInv, Stage
  <2>4. CASE \/ \E g \in Grant : ApplyDenied(o, g)
             \/ ApplyRefused(o) \/ ApplyStale(o) \/ ApplyRecords(o) \/ ApplyAsksProvider(o)
    BY <2>4, StepEnds, EndsKeep
  <2>5. QED
    BY <1>3, <2>1, <2>2, <2>3, <2>4 DEF ApplyStep
<1>4. QED
  BY <1>1, <1>2, <1>3 DEF GateNext, WriterStep

THEOREM GateInvariant == GateSpec => []GateInv
BY GateInitially, GateInductive, PTL DEF GateSpec

\* A policy operation takes effect at most once, at one provider, under a grant given for
\* its digest; a success receipt is true of the provider it names, and every effect whose
\* attempt is over has its receipt, which names its provider (preference_gates.apply), for
\* any operations, grants, providers and declarations.
THEOREM ReceiptsTruthful == GateSpec => []ReceiptsMeanCommits
<1>1. GateInv => ReceiptsMeanCommits
  <2>1. SUFFICES ASSUME GateInv, NEW o \in Op
                 PROVE  /\ receipts[o] = "succeeded" => effects[o][named[o]] = 1
                        /\ \A p \in Provider : effects[o][p] # 0 =>
                              /\ effects[o][p] = 1
                              /\ \A q \in Provider \ {p} : effects[o][q] = 0
                              /\ GrantSpent(o)
                              /\ attempt # o => named[o] = p /\ receipts[o] \in Stored
                              /\ attempt # o /\ p = Hub => receipts[o] = "succeeded"
    BY DEF ReceiptsMeanCommits, GrantSpent
  <2>2. /\ Accounted(o) /\ named[o] \in Provider /\ (attempt = o => receipts[o] = "none")
        /\ \A p \in Provider : effects[o][p] \in {0, 1}
    BY <2>1, OpIsKey DEF GateInv
  <2>3. QED
    BY <2>2 DEF Accounted
<1>2. QED
  BY <1>1, GateInvariant, PTL

-----------------------------------------------------------------------------
(* Preferences: a record that was not reset since a tab saw it is as many   *)
(* versions ahead as it had edits since, so the version tells the history.  *)

SightFits(t, c) ==
    /\ seen[t][c].version \in Nat /\ seen[t][c].at \in History
    /\ seen[t][c].at.edits <= history[c].edits /\ seen[t][c].at.resets <= history[c].resets
    /\ seen[t][c].at.resets = history[c].resets =>
          history[c].edits - seen[t][c].at.edits = pref[c].version - seen[t][c].version

PrefInv ==
    /\ PreferencesTypeOK
    /\ \A t \in Tab, c \in Cell : SightFits(t, c)

\* A cell is left alone, set, or reset where it was set.
CellMove(c) ==
    \/ pref'[c] = pref[c] /\ history'[c] = history[c]
    \/ /\ pref'[c].version = pref[c].version + 1
       /\ pref'[c] # Unset
       /\ history'[c].edits = history[c].edits + 1 /\ history'[c].resets = history[c].resets
    \/ /\ pref'[c] = Unset
       /\ history'[c].edits = history[c].edits + 1 /\ history'[c].resets = history[c].resets + 1

StoreMoves ==
    /\ pref' \in [Cell -> PrefRecord] /\ history' \in [Cell -> History]
    /\ \A c \in Cell : pref'[c].version = 0 <=> pref'[c] = Unset
    /\ \A c \in Cell : CellMove(c)

LEMMA CellChanges ==
    ASSUME PrefInv, NEW c \in Cell, NEW kind, NEW v \in Value \cup {NoValue}
    PROVE  /\ Changed(c, kind, v) \in PrefRecord /\ Recorded(c, kind) \in History
           /\ Changed(c, kind, v).version = 0 <=> Changed(c, kind, v) = Unset
           /\ \/ Changed(c, kind, v) = pref[c] /\ Recorded(c, kind) = history[c]
              \/ /\ Changed(c, kind, v).version = pref[c].version + 1
                 /\ Recorded(c, kind).edits = history[c].edits + 1
                 /\ Recorded(c, kind).resets = history[c].resets
              \/ /\ Changed(c, kind, v) = Unset
                 /\ Recorded(c, kind).edits = history[c].edits + 1
                 /\ Recorded(c, kind).resets = history[c].resets + 1
<1>1. pref[c] \in PrefRecord /\ history[c] \in History
  BY DEF PrefInv, PreferencesTypeOK
<1>2. pref[c].version + 1 # 0
  BY <1>1 DEF PrefRecord
<1>3. CASE kind = "set"
  BY <1>1, <1>2, <1>3 DEF Changed, Recorded, PrefRecord, History, Unset
<1>4. CASE kind # "set"
  BY <1>1, <1>4 DEF Changed, Recorded, PrefRecord, History, Unset
<1>5. QED
  BY <1>3, <1>4

LEMMA CommitMoves ==
    ASSUME PrefInv, NEW c \in Cell, NEW kind, NEW v \in Value \cup {NoValue}, NEW n,
           Commits(c, kind, v, n)
    PROVE  StoreMoves /\ pref[c].version = n
           /\ \A d \in Cell \ {c} : pref'[d] = pref[d] /\ history'[d] = history[d]
<1>1. pref[c].version = n
  BY DEF Commits, VersionMatches
<1>2. PICK p, h : p = Changed(c, kind, v) /\ h = Recorded(c, kind)
  OBVIOUS
<1>3. pref' = [pref EXCEPT ![c] = p] /\ history' = [history EXCEPT ![c] = h]
  BY <1>2 DEF Commits
<1>4. /\ p \in PrefRecord /\ h \in History
      /\ p.version = 0 <=> p = Unset
      /\ \/ p = pref[c] /\ h = history[c]
         \/ p.version = pref[c].version + 1 /\ h.edits = history[c].edits + 1 /\ h.resets = history[c].resets
         \/ p = Unset /\ h.edits = history[c].edits + 1 /\ h.resets = history[c].resets + 1
  BY <1>2, CellChanges
<1>5. /\ pref \in [Cell -> PrefRecord] /\ history \in [Cell -> History]
      /\ \A d \in Cell : pref[d].version = 0 <=> pref[d] = Unset
      /\ pref[c].version + 1 # 0
  BY DEF PrefInv, PreferencesTypeOK, PrefRecord
<1>6. \A d \in Cell \ {c} : pref'[d] = pref[d] /\ history'[d] = history[d]
  BY <1>3, <1>5
<1>7. pref'[c] = p /\ history'[c] = h
  BY <1>3, <1>5
<1>8. pref' \in [Cell -> PrefRecord] /\ history' \in [Cell -> History]
  BY <1>3, <1>4, <1>5
<1>9. CellMove(c)
  BY <1>4, <1>5, <1>7 DEF CellMove
<1>10. QED
  BY <1>1, <1>4, <1>5, <1>6, <1>7, <1>8, <1>9 DEF StoreMoves, CellMove

LEMMA BatchMoves ==
    ASSUME PrefInv, NEW C \in SUBSET Cell, NEW kind, NEW v, NEW n,
           \A c \in C : v[c] \in Value \cup {NoValue},
           CommitsBatch(C, kind, v, n)
    PROVE  StoreMoves /\ (\A c \in C : pref[c].version = n[c])
           /\ \A d \in Cell \ C : pref'[d] = pref[d] /\ history'[d] = history[d]
<1>1. \A c \in C : pref[c].version = n[c]
  BY DEF CommitsBatch, VersionMatches
<1>2. PICK p, h : /\ p = [c \in Cell |-> IF c \in C THEN Changed(c, kind[c], v[c]) ELSE pref[c]]
                  /\ h = [c \in Cell |-> IF c \in C THEN Recorded(c, kind[c]) ELSE history[c]]
  OBVIOUS
<1>3. pref' = p /\ history' = h
  BY <1>2 DEF CommitsBatch
<1>4. ASSUME NEW d \in Cell
      PROVE  /\ p[d] \in PrefRecord /\ h[d] \in History
             /\ p[d].version = 0 <=> p[d] = Unset
             /\ d \notin C => p[d] = pref[d] /\ h[d] = history[d]
             /\ \/ p[d] = pref[d] /\ h[d] = history[d]
                \/ /\ p[d].version = pref[d].version + 1 /\ pref[d].version + 1 # 0
                   /\ h[d].edits = history[d].edits + 1 /\ h[d].resets = history[d].resets
                \/ p[d] = Unset /\ h[d].edits = history[d].edits + 1 /\ h[d].resets = history[d].resets + 1
  <2>1. pref[d] \in PrefRecord /\ history[d] \in History /\ (pref[d].version = 0 <=> pref[d] = Unset)
        /\ pref[d].version + 1 # 0
    BY DEF PrefInv, PreferencesTypeOK, PrefRecord
  <2>2. CASE d \in C
    <3>1. PICK k, x : k = kind[d] /\ x = v[d]
      OBVIOUS
    <3>2. x \in Value \cup {NoValue} /\ p[d] = Changed(d, k, x) /\ h[d] = Recorded(d, k)
      BY <1>2, <2>2, <3>1
    <3>3. QED
      BY <2>1, <2>2, <3>2, CellChanges
  <2>3. CASE d \notin C
    BY <1>2, <2>1, <2>3
  <2>4. QED
    BY <2>2, <2>3
<1>5. pref' \in [Cell -> PrefRecord] /\ history' \in [Cell -> History]
  BY <1>2, <1>3, <1>4
<1>6. \A d \in Cell : CellMove(d)
  BY <1>3, <1>4 DEF CellMove
<1>7. QED
  BY <1>1, <1>3, <1>4, <1>5, <1>6 DEF StoreMoves

\* The tab t sees the cells C as they are after the step.
Looks(t, C) ==
    seen' = [seen EXCEPT ![t] = [c \in Cell |->
                IF c \in C THEN [version |-> pref'[c].version, at |-> history'[c]] ELSE seen[t][c]]]

\* It changes only cells it knows the latest of, or removes one it saw unset.
Knows(t, C) ==
    \A c \in C : \/ history'[c] = history[c]
                 \/ pref[c].version = seen[t][c].version
                 \/ seen[t][c].version = 0 /\ pref'[c] = Unset

TabMoves == \E t \in Tab, C \in SUBSET Cell : Looks(t, C) /\ Knows(t, C)

LEMMA NothingMoves == PrefInv /\ UNCHANGED <<pref, history>> => StoreMoves
BY DEF PrefInv, PreferencesTypeOK, StoreMoves, CellMove

LEMMA TabActs == PrefInv /\ TabStep => StoreMoves /\ TabMoves
<1> SUFFICES ASSUME PrefInv, NEW t \in Tab,
                    \/ TabPreviews(t)
                    \/ TabResetsScope(t)
                    \/ \E v \in [Open -> Value \cup {NoValue}] : TabImports(t, v)
                    \/ \E c \in Open : \/ TabReads(t, c)
                                       \/ TabResets(t, c)
                                       \/ \E v \in Value : TabSets(t, c, v)
             PROVE  StoreMoves /\ TabMoves
  BY DEF TabStep
<1>1. Open \subseteq Cell
  BY PreferencesAssumption
<1>2. CASE TabPreviews(t)
  <2>1. UNCHANGED <<pref, history>> /\ Looks(t, Open)
    BY <1>2 DEF TabPreviews, Sight, Looks
  <2>2. Knows(t, Open)
    BY <2>1 DEF Knows
  <2>3. QED
    BY <1>1, <2>1, <2>2, NothingMoves DEF TabMoves
<1>3. ASSUME NEW c \in Open, TabReads(t, c)
      PROVE  StoreMoves /\ TabMoves
  <2>1. UNCHANGED <<pref, history>> /\ Looks(t, {c})
    BY <1>3 DEF TabReads, Sight, Looks
  <2>2. Knows(t, {c})
    BY <2>1 DEF Knows
  <2>3. QED
    BY <1>1, <2>1, <2>2, NothingMoves DEF TabMoves
<1>4. ASSUME NEW c \in Open, NEW kind, NEW v \in Value \cup {NoValue},
             Commits(c, kind, v, seen[t][c].version), seen' = Sight({c}, t, pref', history')
      PROVE  StoreMoves /\ TabMoves
  <2>1. PICK n : n = seen[t][c].version
    OBVIOUS
  <2>2. Commits(c, kind, v, n)
    BY <1>4, <2>1
  <2>3. StoreMoves /\ pref[c].version = n
    BY <1>1, <2>2, CommitMoves
  <2>4. Looks(t, {c}) /\ Knows(t, {c})
    BY <1>4, <2>1, <2>3 DEF Looks, Knows, Sight
  <2>5. QED
    BY <1>1, <2>3, <2>4 DEF TabMoves
<1>5. ASSUME NEW v \in [Open -> Value \cup {NoValue}], TabImports(t, v)
      PROVE  StoreMoves /\ TabMoves
  <2>1. PICK kind, C, n : /\ kind = [c \in Open |-> ImportKind(c, v[c])]
                          /\ C = {c \in Open : kind[c] # "none"}
                          /\ n = [c \in Open |-> seen[t][c].version]
    OBVIOUS
  <2>2. CommitsBatch(C, kind, v, n) /\ seen' = Sight(C, t, pref', history')
    BY <1>5, <2>1 DEF TabImports
  <2>3. C \in SUBSET Cell /\ \A c \in C : v[c] \in Value \cup {NoValue}
    BY <1>1, <2>1
  <2>4. StoreMoves /\ \A c \in C : pref[c].version = n[c]
    BY <2>2, <2>3, BatchMoves
  <2>5. Looks(t, C) /\ Knows(t, C)
    BY <2>1, <2>2, <2>4 DEF Looks, Knows, Sight
  <2>6. QED
    BY <2>3, <2>4, <2>5 DEF TabMoves
<1>6. CASE TabResetsScope(t)
  <2>1. PICK C, kind, v, n : /\ C = {c \in Open : pref[c] # Unset}
                             /\ kind = [c \in C |-> "reset"]
                             /\ v = [c \in C |-> NoValue]
                             /\ n = [c \in C |-> ResetVersion(t, c)]
    OBVIOUS
  <2>2. CommitsBatch(C, kind, v, n) /\ seen' = Sight(C, t, pref', history')
    BY <1>6, <2>1 DEF TabResetsScope
  <2>3. C \in SUBSET Cell /\ \A c \in C : v[c] \in Value \cup {NoValue}
    BY <1>1, <2>1
  <2>4. StoreMoves /\ \A c \in C : pref[c].version = n[c]
    BY <2>2, <2>3, BatchMoves
  <2>5. \A c \in C : pref'[c] = Unset
    BY <2>1, <2>2, <2>3 DEF CommitsBatch, Changed
  <2>6. \A c \in C : seen[t][c].version \in Nat
    BY <2>3 DEF PrefInv, SightFits
  <2>7. Looks(t, C)
    BY <2>2 DEF Looks, Sight
  <2>8. ASSUME NEW c \in C
        PROVE  pref[c].version = seen[t][c].version \/ seen[t][c].version = 0
    <3>1. pref[c].version = ResetVersion(t, c)
      BY <2>1, <2>4
    <3>2. QED
      BY <2>6, <3>1 DEF ResetVersion
  <2>9. Knows(t, C)
    BY <2>5, <2>8 DEF Knows
  <2>10. QED
    BY <2>3, <2>4, <2>7, <2>9 DEF TabMoves
<1>7. QED
  BY <1>2, <1>3, <1>4, <1>5, <1>6 DEF TabSets, TabResets

LEMMA SightsKept ==
    ASSUME PrefInv, StoreMoves, UNCHANGED seen \/ TabMoves
    PROVE  PrefInv'
<1>1. ASSUME NEW u \in Tab, NEW d \in Cell
      PROVE  \/ seen'[u][d] = seen[u][d]
             \/ seen'[u][d] = [version |-> pref'[d].version, at |-> history'[d]]
  <2>1. seen \in [Tab -> [Cell -> [version : Nat, at : History]]]
    BY DEF PrefInv, PreferencesTypeOK
  <2>2. CASE UNCHANGED seen
    BY <2>2
  <2>3. CASE TabMoves
    <3>1. PICK t \in Tab, C \in SUBSET Cell : Looks(t, C)
      BY <2>3 DEF TabMoves
    <3>2. seen'[u] = IF u = t THEN [c \in Cell |-> IF c \in C THEN [version |-> pref'[c].version, at |-> history'[c]]
                                                             ELSE seen[t][c]]
                     ELSE seen[u]
      BY <2>1, <3>1 DEF Looks
    <3>3. QED
      BY <3>2
  <2>4. QED
    BY <2>2, <2>3
<1>2. \A d \in Cell : /\ pref[d] \in PrefRecord /\ history[d] \in History
                      /\ pref'[d] \in PrefRecord /\ history'[d] \in History
  BY DEF PrefInv, PreferencesTypeOK, StoreMoves
<1>3. ASSUME NEW u \in Tab, NEW d \in Cell
      PROVE  SightFits(u, d)' /\ seen'[u][d] \in [version : Nat, at : History]
  <2>1. CASE seen'[u][d] = seen[u][d]
    <3>1. SightFits(u, d) /\ CellMove(d) /\ seen[u][d] \in [version : Nat, at : History]
      BY DEF PrefInv, PreferencesTypeOK, StoreMoves
    <3>2. QED
      BY <1>2, <2>1, <3>1 DEF SightFits, CellMove, PrefRecord, History, Unset
  <2>2. CASE seen'[u][d] = [version |-> pref'[d].version, at |-> history'[d]]
    BY <1>2, <2>2 DEF SightFits, PrefRecord, History
  <2>3. QED
    BY <1>1, <2>1, <2>2
<1>4. seen' \in [Tab -> [Cell -> [version : Nat, at : History]]]
  <2>1. seen' = [u \in Tab |-> [d \in Cell |-> seen'[u][d]]]
    BY DEF TabMoves, Looks, PrefInv, PreferencesTypeOK
  <2>2. QED
    BY <1>3, <2>1
<1>5. QED
  BY <1>3, <1>4 DEF PrefInv, PreferencesTypeOK, StoreMoves

LEMMA LatestSeen ==
    ASSUME PrefInv, TabMoves, NEW t \in Tab, NEW c \in Cell,
           history'[c] # history[c], seen'[t][c] # seen[t][c]
    PROVE  \/ seen[t][c].at = history[c]
           \/ history[c].resets # seen[t][c].at.resets
           \/ seen[t][c].version = 0 /\ pref'[c] = Unset
<1>1. PICK u \in Tab, C \in SUBSET Cell : Looks(u, C) /\ Knows(u, C)
  BY DEF TabMoves
<1>2. u = t /\ c \in C
  BY <1>1 DEF Looks, PrefInv, PreferencesTypeOK
<1>3. \/ pref[c].version = seen[t][c].version
      \/ seen[t][c].version = 0 /\ pref'[c] = Unset
  BY <1>1, <1>2 DEF Knows
<1>4. SightFits(t, c) /\ history[c] \in History /\ pref[c] \in PrefRecord
  BY DEF PrefInv, PreferencesTypeOK
<1>5. QED
  BY <1>3, <1>4 DEF SightFits, History, PrefRecord

LEMMA GateMovesPrefs ==
    PrefInv /\ [GateNext]_<<operationVars, prefVars, gateVars>> =>
        StoreMoves /\ (UNCHANGED seen \/ TabMoves)
<1> SUFFICES ASSUME PrefInv, [GateNext]_<<operationVars, prefVars, gateVars>>
             PROVE  StoreMoves /\ (UNCHANGED seen \/ TabMoves)
  OBVIOUS
<1>1. CASE UNCHANGED prefVars
  BY <1>1, NothingMoves DEF prefVars
<1>2. CASE TabStep
  BY <1>2, TabActs
<1>3. ASSUME NEW o \in Op, ApplyCommits(o)
      PROVE  StoreMoves /\ UNCHANGED seen
  <2>1. PICK c, kind, v, n : c = o.cell /\ kind = o.kind /\ v = o.value /\ n = o.version - 1
    OBVIOUS
  <2>2. Commits(c, kind, v, n) /\ UNCHANGED seen
    BY <1>3, <2>1 DEF ApplyCommits
  <2>3. c \in Cell /\ v \in Value \cup {NoValue}
    BY <2>1, GateAssumption
  <2>4. QED
    BY <2>2, <2>3, CommitMoves
<1>4. ASSUME NEW o \in Op, ApplyStep(o), ~ApplyCommits(o)
      PROVE  UNCHANGED prefVars
  BY <1>4 DEF ApplyStep, ApplyBegins, ApplyApproved, ApplyDenied, ApplyRefused, ApplyStale, ApplyRecords,
              ApplyAsksProvider, ApplyEnds
<1>5. QED
  BY <1>1, <1>2, <1>3, <1>4 DEF GateNext, ApproverStep, WriterStep

LEMMA PrefsInvariant == GateSpec => []PrefInv
<1>1. PreferencesInit => PrefInv
  <2>1. SUFFICES ASSUME PreferencesInit
                 PROVE  PrefInv
    OBVIOUS
  <2>2. PreferencesTypeOK
    BY <2>1 DEF PreferencesInit, PreferencesTypeOK, Unset, PrefRecord, History
  <2>3. QED
    BY <2>1, <2>2 DEF PreferencesInit, PrefInv, SightFits, Unset, History
<1>2. PrefInv /\ [GateNext]_<<operationVars, prefVars, gateVars>> => PrefInv'
  BY GateMovesPrefs, SightsKept
<1>3. QED
  BY <1>1, <1>2, PTL DEF GateSpec

\* A save gets through only from a tab that has seen the latest change of the cell, or
\* after a reset took the version back (PreferenceStore.set_preference and apply_batch).
THEOREM SavesAreSeen == GateSpec => SavesSeeLatest
<1>1. PrefInv /\ [GateNext]_<<operationVars, prefVars, gateVars>> =>
        [\A t \in Tab, c \in Cell :
            history'[c] # history[c] /\ seen'[t][c] # seen[t][c] =>
                \/ seen[t][c].at = history[c]
                \/ history[c].resets # seen[t][c].at.resets
                \/ seen[t][c].version = 0 /\ pref'[c] = Unset]_prefVars
  BY GateMovesPrefs, LatestSeen
<1>2. QED
  BY <1>1, PrefsInvariant, PTL DEF GateSpec, SavesSeeLatest

-----------------------------------------------------------------------------
(* Directives: a mark that is in the log, or about to be, is of a packet     *)
(* that is queued with everything it had room for.                          *)

MarksCovered == \A j \in DOMAIN log : log[j] <= Len(log) /\ Carries(log[j]) \subseteq carried

DirectivesInv ==
    /\ log \in Seq(Nat)
    /\ queueing \in [step : {"idle", "read", "inserted"}, mark : Nat]
    /\ queueing.mark <= Len(log)
    /\ MarksCovered
    /\ queueing.step = "inserted" => Carries(queueing.mark) \subseteq carried

LEMMA MaxOf ==
    ASSUME NEW n \in Nat, NEW T, T \subseteq 1 .. n, T # {}
    PROVE  \E m \in T : \A j \in T : j <= m
<1> DEFINE Less == {ss \in Nat \X Nat : ss[1] < ss[2]}
           U == {n - i : i \in T}
<1>1. IsWellFoundedOn(Less, Nat)
  BY NatLessThanWellFounded DEF OpToRel
<1>2. \A i \in T : n - i \in Nat
  OBVIOUS
<1>3. U \subseteq Nat /\ U # {}
  BY <1>2
<1>4. PICK x \in U : \A y \in U : ~(<<y, x>> \in Less)
  BY <1>1, <1>3, WFMin
<1>5. PICK m \in T : x = n - m
  OBVIOUS
<1>6. \A j \in T : ~(n - j < n - m)
  BY <1>3, <1>4, <1>5
<1>7. QED
  BY <1>2, <1>6

LEMMA LastDirectiveBound ==
    ASSUME log \in Seq(Nat)
    PROVE  LastDirective \in Nat /\ LastDirective <= Len(log)
<1>1. Len(log) \in Nat /\ DOMAIN log = 1 .. Len(log) /\ Directive \subseteq 1 .. Len(log)
  BY DEF Directive
<1>2. PICK n, T : n = Len(log) /\ n \in Nat /\ T = Directive
  BY <1>1
<1>3. T # {} => \E m \in T : \A j \in T : j <= m
  BY <1>1, <1>2, MaxOf
<1>4. CASE Directive = {}
  BY <1>1, <1>4 DEF LastDirective
<1>5. CASE Directive # {}
  <2>1. LastDirective \in Directive
    BY <1>2, <1>3, <1>5 DEF LastDirective
  <2>2. QED
    BY <1>1, <2>1
<1>6. QED
  BY <1>4, <1>5

\* What a packet carries does not change when the log grows.
LEMMA CarriesKept ==
    ASSUME log \in Seq(Nat), NEW e \in Nat, log' = Append(log, e), NEW m \in Nat, m <= Len(log)
    PROVE  Carries(m)' = Carries(m)
<1>1. /\ Len(log) \in Nat /\ DOMAIN log = 1 .. Len(log) /\ DOMAIN log' = 1 .. Len(log) + 1
      /\ \A j \in 1 .. Len(log) : log'[j] = log[j]
  OBVIOUS
<1>2. \A i \in Nat : i <= m => (i \in Directive' <=> i \in Directive)
  BY <1>1 DEF Directive
<1>3. Directive \subseteq Nat /\ Directive' \subseteq Nat
  BY <1>1 DEF Directive
<1>4. \A i : {j \in Directive : i < j /\ j <= m}' = {j \in Directive : i < j /\ j <= m}
  BY <1>2, <1>3
<1>5. QED
  BY <1>2, <1>3, <1>4 DEF Carries

LEMMA LogGrows ==
    ASSUME DirectivesInv, NEW e \in Nat, log' = Append(log, e), e <= Len(log),
           Carries(e) \subseteq carried', carried \subseteq carried'
    PROVE  /\ log' \in Seq(Nat) /\ Len(log') = Len(log) + 1 /\ MarksCovered'
           /\ \A m \in Nat : m <= Len(log) => Carries(m)' = Carries(m)
<1>1. /\ log \in Seq(Nat) /\ Len(log) \in Nat /\ DOMAIN log = 1 .. Len(log)
      /\ log' \in Seq(Nat) /\ Len(log') = Len(log) + 1 /\ DOMAIN log' = 1 .. Len(log) + 1
      /\ \A j \in 1 .. Len(log) : log'[j] = log[j] /\ log[j] \in Nat
      /\ log'[Len(log) + 1] = e
  BY DEF DirectivesInv
<1>2. \A m \in Nat : m <= Len(log) => Carries(m)' = Carries(m)
  BY <1>1, CarriesKept
<1>3. MarksCovered'
  <2>1. SUFFICES ASSUME NEW j \in DOMAIN log'
                 PROVE  /\ log'[j] <= Len(log')
                        /\ {i \in Directive' : i <= log'[j] /\
                               Cardinality({q \in Directive' : i < q /\ q <= log'[j]}) < Window}
                           \subseteq carried'
    BY DEF MarksCovered, Carries
  <2>2. PICK m \in Nat : m = log'[j] /\ m <= Len(log) /\ Carries(m) \subseteq carried'
    BY <1>1, <2>1 DEF DirectivesInv, MarksCovered
  <2>3. Carries(m)' \subseteq carried'
    BY <1>2, <2>2
  <2>4. QED
    BY <1>1, <2>2, <2>3 DEF Carries
<1>4. QED
  BY <1>1, <1>2, <1>3

LEMMA DirectivesInductive == DirectivesInv /\ [DirectivesNext]_directiveVars => DirectivesInv'
<1> SUFFICES ASSUME DirectivesInv, [DirectivesNext]_directiveVars
             PROVE  DirectivesInv'
  OBVIOUS
<1>1. /\ log \in Seq(Nat) /\ Len(log) \in Nat /\ MarksCovered
      /\ queueing = [step |-> queueing.step, mark |-> queueing.mark]
      /\ queueing.mark \in Nat /\ queueing.mark <= Len(log)
      /\ queueing.step = "inserted" => Carries(queueing.mark) \subseteq carried
  BY DEF DirectivesInv
<1>2. PICK last \in Nat : last = LastDirective /\ last <= Len(log)
  BY <1>1, LastDirectiveBound
<1>3. PICK mark \in Nat : mark = queueing.mark
  BY <1>1
<1>4. Carries(0) = {}
  BY <1>1 DEF Carries, Directive
\* The log grows by a directive, or by a mark of what is carried now.
<1>5. ASSUME NEW e \in Nat, log' = Append(log, e), e <= Len(log), Carries(e) \subseteq carried',
             carried \subseteq carried', queueing' = queueing \/ queueing' = Idle
      PROVE  DirectivesInv'
  <2>1. /\ log' \in Seq(Nat) /\ Len(log') = Len(log) + 1 /\ MarksCovered'
        /\ \A m \in Nat : m <= Len(log) => Carries(m)' = Carries(m)
    BY <1>5, LogGrows
  <2>2. queueing' \in [step : {"idle", "read", "inserted"}, mark : Nat] /\ queueing'.mark <= Len(log')
    BY <1>1, <1>5, <2>1 DEF DirectivesInv, Idle
  <2>3. ASSUME queueing'.step = "inserted"
        PROVE  Carries(queueing.mark)' \subseteq carried'
    <3>1. queueing' = queueing /\ Carries(mark) \subseteq carried'
      BY <1>1, <1>3, <1>5, <2>3 DEF Idle
    <3>2. Carries(mark)' \subseteq carried'
      BY <1>1, <1>3, <2>1, <3>1
    <3>3. QED
      BY <1>3, <3>1, <3>2 DEF Carries
  <2>4. QED
    BY <2>1, <2>2, <2>3 DEF DirectivesInv
\* The log stays: nothing that is carried is dropped.
<1>6. ASSUME log' = log, carried \subseteq carried',
             queueing' \in [step : {"idle", "read", "inserted"}, mark : Nat], queueing'.mark <= Len(log),
             queueing'.step = "inserted" => Carries(queueing'.mark) \subseteq carried'
      PROVE  DirectivesInv'
  <2>1. MarksCovered'
    BY <1>1, <1>6 DEF MarksCovered, Carries, Directive
  <2>2. queueing'.step = "inserted" => Carries(queueing.mark)' \subseteq carried'
    BY <1>6 DEF Carries, Directive
  <2>3. QED
    BY <1>1, <1>6, <2>1, <2>2 DEF DirectivesInv
<1>7. CASE SubmitDirective
  BY <1>1, <1>4, <1>5, <1>7 DEF SubmitDirective
<1>8. CASE StartWorkflowRun
  <2>1. Carries(last) \subseteq carried' /\ carried \subseteq carried' /\ queueing' = queueing
    BY <1>2, <1>8 DEF StartWorkflowRun
  <2>2. CASE last > 0
    BY <1>2, <1>5, <1>8, <2>1, <2>2 DEF StartWorkflowRun, Marked
  <2>3. CASE last = 0
    BY <1>1, <1>2, <1>6, <1>8, <2>1, <2>3 DEF StartWorkflowRun, Marked, DirectivesInv
  <2>4. QED
    BY <2>2, <2>3
<1>9. CASE QueueReads
  BY <1>2, <1>6, <1>9 DEF QueueReads
<1>10. CASE QueueInserts
  <2>1. log' = log /\ carried' = carried \cup Carries(mark) /\ queueing' = [step |-> "inserted", mark |-> mark]
    BY <1>1, <1>3, <1>10 DEF QueueInserts
  <2>2. QED
    BY <1>1, <1>3, <1>6, <2>1
<1>11. CASE QueueMarks
  <2>1. log' = Marked(mark) /\ carried' = carried /\ queueing' = Idle /\ Carries(mark) \subseteq carried
    BY <1>1, <1>3, <1>11 DEF QueueMarks, MarkOf
  <2>2. CASE mark > 0
    BY <1>1, <1>3, <1>5, <2>1, <2>2 DEF Marked
  <2>3. CASE mark = 0
    BY <1>1, <1>6, <2>1, <2>3 DEF Marked, Idle
  <2>4. QED
    BY <2>2, <2>3
<1>12. CASE QueueStops
  BY <1>1, <1>6, <1>12 DEF QueueStops, Idle
<1>13. CASE UNCHANGED directiveVars
  BY <1>1, <1>6, <1>13 DEF directiveVars, DirectivesInv
<1>14. QED
  BY <1>7, <1>8, <1>9, <1>10, <1>11, <1>12, <1>13 DEF DirectivesNext

\* A directive shown as included is in a queued packet, or was passed by Window later
\* ones (session_directive_view and the packet markers of store.py), for any window.
THEOREM IncludedIsCarried == DirectivesSpec => []IncludedWasCarried
<1>1. DirectivesInit => DirectivesInv
  BY DEF DirectivesInit, DirectivesInv, MarksCovered, Idle
<1>2. DirectivesInv => IncludedWasCarried
  <2>1. SUFFICES ASSUME DirectivesInv, NEW i \in Included \ carried
                 PROVE  \E j \in DOMAIN log :
                            i <= log[j] /\ Cardinality({d \in Directive : i < d /\ d <= log[j]}) >= Window
    BY DEF IncludedWasCarried
  <2>2. PICK j \in DOMAIN log : i <= log[j]
    BY <2>1 DEF Included
  <2>3. i \in Directive /\ i \notin Carries(log[j]) /\ Directive \subseteq 1 .. Len(log) /\ Len(log) \in Nat
    BY <2>1, <2>2 DEF DirectivesInv, MarksCovered, Included, Directive
  <2>4. PICK D : D = {d \in Directive : i < d /\ d <= log[j]}
    OBVIOUS
  <2>5. IsFiniteSet(1 .. Len(log)) /\ D \subseteq 1 .. Len(log)
    <3>1. PICK n \in Int : n = Len(log)
      BY <2>3
    <3>2. IsFiniteSet(1 .. n)
      BY FS_Interval
    <3>3. QED
      BY <2>3, <2>4, <3>1, <3>2
  <2>6. Cardinality(D) \in Nat
    BY <2>5, FS_Subset, FS_CardinalityType
  <2>7. ~(Cardinality(D) < Window)
    BY <2>2, <2>3, <2>4 DEF Carries
  <2>8. Cardinality(D) >= Window
    BY <2>6, <2>7, DirectivesAssumption
  <2>9. QED
    BY <2>2, <2>4, <2>8
<1>3. QED
  BY <1>1, <1>2, DirectivesInductive, PTL DEF DirectivesSpec

-----------------------------------------------------------------------------
(* The stores are stores of effects that happen once (OnceEffect).          *)

LEMMA ApplyEffects ==
    ASSUME GateInv, NEW o \in Op, ApplyStep(o)
    PROVE  [PolicyEffects!Next]_(PolicyEffects!vars)
<1> DEFINE running == {attempt} \cap Op
           settled == {p \in Op : receipts[p] # "none"}
<1>1. CASE \E p \in Provider : ApplyBegins(o, p)
  <2>1. attempt = NoKey /\ receipts[o] = "none" /\ attempt' = o /\ receipts' = receipts
    BY <1>1 DEF ApplyBegins, AttemptBegins, AttemptMayRun, StoreFree
  <2>2. running = {} /\ running' = {o} /\ settled' = settled /\ o \notin settled
    BY <2>1, OpIsKey
  <2>3. QED
    BY <2>2 DEF PolicyEffects!Next, PolicyEffects!Starts
<1>2. ASSUME NEW outcome, AttemptEnds(o, outcome)
      PROVE  PolicyEffects!Next
  <2>1. /\ attempt = o /\ attempt' = NoKey
        /\ receipts' = receipts \/ \E r \in Stored : receipts' = [receipts EXCEPT ![o] = r]
    BY <1>2 DEF AttemptEnds, Stored
  <2>2. running = {o} /\ running' = {}
    BY <2>1, OpIsKey
  <2>3. settled' = settled \/ settled' = settled \cup {o}
    BY <2>1, OpIsKey DEF GateInv, Stored
  <2>4. QED
    BY <2>2, <2>3 DEF PolicyEffects!Next, PolicyEffects!Drops, PolicyEffects!Settles
<1>3. ASSUME UNCHANGED <<receipts, attempt>>
      PROVE  UNCHANGED PolicyEffects!vars
  BY <1>3 DEF PolicyEffects!vars
<1>4. CASE \E g \in Grant : ApplyApproved(o, g)
  BY <1>3, <1>4 DEF ApplyApproved, receiptVars
<1>5. CASE ApplyCommits(o)
  BY <1>3, <1>5 DEF ApplyCommits, operationVars, receiptVars
<1>6. CASE \/ \E g \in Grant : ApplyDenied(o, g)
           \/ ApplyRefused(o) \/ ApplyStale(o) \/ ApplyRecords(o) \/ ApplyAsksProvider(o)
  BY <1>2, <1>6, StepEnds DEF Ends, ApplyEnds
<1>7. QED
  BY <1>1, <1>4, <1>5, <1>6 DEF ApplyStep

\* No policy operation that was recorded runs again, and none runs twice at a time
\* (OperationReceiptStore.record_attempt).
THEOREM PolicyRunsOnce == GateSpec => PolicyEffects!Spec
<1>1. OperationsInit /\ GateInit => PolicyEffects!Init
  BY OpIsKey DEF OperationsInit, PolicyEffects!Init
<1>2. GateInv /\ [GateNext]_<<operationVars, prefVars, gateVars>> => [PolicyEffects!Next]_(PolicyEffects!vars)
  <2>1. SUFFICES ASSUME GateInv, [GateNext]_<<operationVars, prefVars, gateVars>>
                 PROVE  [PolicyEffects!Next]_(PolicyEffects!vars)
    OBVIOUS
  <2>2. CASE UNCHANGED <<receipts, attempt>>
    BY <2>2 DEF PolicyEffects!vars
  <2>3. ASSUME ~(\E o \in Op : ApplyStep(o))
        PROVE  UNCHANGED <<receipts, attempt>>
    BY <2>1, <2>3 DEF GateNext, ApproverStep, WriterStep, operationVars, receiptVars
  <2>4. QED
    BY <2>1, <2>2, <2>3, ApplyEffects
<1>3. QED
  BY <1>1, <1>2, GateInvariant, PTL DEF GateSpec, PolicyEffects!Spec

OnceInv ==
    /\ record \in [OnceKey -> Hash \cup {NoHash}]
    /\ executing \subseteq [key : OnceKey, hash : Hash]
    /\ \A e \in executing : record[e.key] = NoHash /\ executing = {e}
    /\ launching \subseteq OnceKey /\ started \subseteq OnceKey
    /\ \A k \in launching : k \notin started /\ launching = {k}

LEMMA OnceInductive == OnceInv /\ [OnceNext]_onceVars => OnceInv'
<1> SUFFICES ASSUME OnceInv, [OnceNext]_onceVars
             PROVE  OnceInv'
  OBVIOUS
<1>1. CASE WorldChanges
  BY <1>1 DEF WorldChanges, OnceInv, idempotencyVars
<1>2. ASSUME NEW k \in OnceKey, NEW h \in Hash, IdempotencyRuns(k, h)
      PROVE  OnceInv'
  BY <1>2 DEF IdempotencyRuns, Unclaimed, OnceInv, deliverVars
<1>3. ASSUME NEW e \in executing, IdempotencyRecords(e) \/ IdempotencyRaises(e)
      PROVE  OnceInv'
  BY <1>3, OnceAssumption DEF IdempotencyRecords, IdempotencyRaises, OnceInv, deliverVars
<1>4. ASSUME NEW k \in OnceKey, DeliverLaunches(k) \/ DeliverStarts(k) \/ DeliverLaunchRaises(k)
      PROVE  OnceInv'
  BY <1>4 DEF DeliverLaunches, DeliverStarts, DeliverLaunchRaises, OnceInv, idempotencyVars
<1>5. CASE UNCHANGED onceVars
  BY <1>5 DEF onceVars, OnceInv
<1>6. QED
  BY <1>1, <1>2, <1>3, <1>4, <1>5 DEF OnceNext, OnceStep

LEMMA IdempotencyEffect ==
    ASSUME OnceInv, NEW e \in [key : OnceKey, hash : Hash],
           (executing = {} /\ IdempotencyRuns(e.key, e.hash))
               \/ IdempotencyRecords(e) \/ IdempotencyRaises(e)
    PROVE  IdempotentEffects!Next
<1> DEFINE running == {d.key : d \in executing}
           settled == {k \in OnceKey : record[k] # NoHash}
<1>1. e.key \in OnceKey /\ e.hash # NoHash /\ e = [key |-> e.key, hash |-> e.hash]
  BY OnceAssumption
<1>2. CASE IdempotencyRuns(e.key, e.hash)
  <2>1. running = {} /\ running' = {e.key} /\ settled' = settled /\ e.key \notin settled
    BY <1>1, <1>2 DEF IdempotencyRuns, Unclaimed
  <2>2. QED
    BY <1>1, <2>1 DEF IdempotentEffects!Next, IdempotentEffects!Starts
<1>3. CASE IdempotencyRaises(e)
  <2>1. running = {e.key} /\ running' = {} /\ settled' = settled
    BY <1>3 DEF IdempotencyRaises
  <2>2. QED
    BY <1>1, <2>1 DEF IdempotentEffects!Next, IdempotentEffects!Drops
<1>4. CASE IdempotencyRecords(e)
  <2>1. running = {e.key} /\ running' = {}
    BY <1>4 DEF IdempotencyRecords
  <2>2. settled' = settled \cup {e.key}
    BY <1>1, <1>4 DEF IdempotencyRecords, OnceInv
  <2>3. QED
    BY <1>1, <2>1, <2>2 DEF IdempotentEffects!Next, IdempotentEffects!Settles
<1>5. QED
  BY <1>2, <1>3, <1>4

\* Neither a keyed conversation request nor a Deliver start runs again once it is
\* recorded (MemoryIdempotencyStore.run, MemoryDeliverStartStore.start).
THEOREM KeysRunOnce == OnceSpec => IdempotentEffects!Spec /\ DeliverEffects!Spec
<1>1. OnceInit => OnceInv /\ IdempotentEffects!Init /\ DeliverEffects!Init
  BY DEF OnceInit, OnceInv, IdempotentEffects!Init, DeliverEffects!Init
<1>2. ASSUME OnceInv, [OnceNext]_onceVars
      PROVE  [IdempotentEffects!Next]_(IdempotentEffects!vars)
  <2>1. CASE UNCHANGED <<record, executing>>
    BY <2>1 DEF IdempotentEffects!vars
  <2>2. ASSUME NEW k \in OnceKey, NEW h \in Hash, IdempotencyRuns(k, h)
        PROVE  IdempotentEffects!Next
    <3>1. PICK e \in [key : OnceKey, hash : Hash] : e.key = k /\ e.hash = h
      <4>1. [key |-> k, hash |-> h] \in [key : OnceKey, hash : Hash]
        OBVIOUS
      <4>2. QED
        BY <4>1
    <3>2. executing = {} /\ IdempotencyRuns(e.key, e.hash)
      BY <2>2, <3>1 DEF IdempotencyRuns
    <3>3. QED
      BY <1>2, <3>2, IdempotencyEffect
  <2>3. ASSUME NEW e \in executing, IdempotencyRecords(e) \/ IdempotencyRaises(e)
        PROVE  IdempotentEffects!Next
    BY <1>2, <2>3, IdempotencyEffect DEF OnceInv
  <2>4. QED
    BY <1>2, <2>1, <2>2, <2>3
    DEF OnceNext, OnceStep, WorldChanges, DeliverLaunches, DeliverStarts, DeliverLaunchRaises,
        idempotencyVars, onceVars
<1>3. ASSUME OnceInv, [OnceNext]_onceVars
      PROVE  [DeliverEffects!Next]_(DeliverEffects!vars)
  <2>1. ASSUME NEW k \in OnceKey, DeliverLaunches(k) \/ DeliverStarts(k) \/ DeliverLaunchRaises(k)
        PROVE  DeliverEffects!Next
    BY <1>3, <2>1
    DEF DeliverLaunches, DeliverStarts, DeliverLaunchRaises,
        DeliverEffects!Next, DeliverEffects!Starts, DeliverEffects!Drops, DeliverEffects!Settles
  <2>2. CASE UNCHANGED <<started, launching>>
    BY <2>2 DEF DeliverEffects!vars
  <2>3. QED
    BY <1>3, <2>1, <2>2
    DEF OnceNext, OnceStep, WorldChanges, IdempotencyRuns, IdempotencyRecords, IdempotencyRaises,
        deliverVars, onceVars
<1>4. QED
  BY <1>1, <1>2, <1>3, OnceInductive, PTL DEF OnceSpec, IdempotentEffects!Spec, DeliverEffects!Spec

-----------------------------------------------------------------------------
(* Reviewed plugins                                                         *)

\* The parts of the promise, with the documents and the install store they rest on.
PluginInv ==
    /\ deployed \in Documents
    /\ installs = [r \in InstallRequest |-> installs[r]]
    /\ \A i \in installing :
          /\ installing = {i} /\ i.req \in InstallRequest /\ installs[i.req] = "none"
    /\ InstallsAsApproved
    /\ \A c \in dispatched :
          /\ c.req.inputs \in c.tool.inputs
          /\ c.tool.effectful =>
                [id |-> c.req.id, digest |-> c.req.digest, tool |-> c.tool.id,
                 inputs |-> c.req.inputs] \in shown

LEMMA ResolvedEntry ==
    ASSUME NEW d, NEW r, NEW e \in Resolved(d, r)
    PROVE  /\ e \in d.catalog.plugins /\ e.id = r.id /\ e.digest = r.digest
           /\ \E p \in d.profile.plugins : p.id = e.id /\ p.digest = e.digest
  BY DEF Resolved, AtDigest

\* An admitted effect carries the approval of its own payload, of the tool it names.
LEMMA AdmittedCall ==
    ASSUME NEW r \in CallRequest, NEW t \in Admitted(r, TRUE)
    PROVE  /\ r.inputs \in t.inputs
           /\ t.effectful =>
                 /\ r.approval # NoApproval
                 /\ r.approval.payload = [id |-> r.id, digest |-> r.digest, tool |-> t.id,
                                          inputs |-> r.inputs]
<1>1. RequestValid(r) /\ r.kind = "tool_call" /\ CallFits(t, r, TRUE)
  BY DEF Admitted
<1>2. t.id = r.tool
  BY <1>1 DEF Admitted, ResolvedTool
<1>3. QED
  BY <1>1, <1>2 DEF CallFits, RequestValid, ApprovalBinds, Payload

LEMMA PluginInductive == PluginInv /\ [PluginsNext]_pluginVars => PluginInv'
<1> SUFFICES ASSUME PluginInv, [PluginsNext]_pluginVars
             PROVE  PluginInv'
  OBVIOUS
<1>1. CASE Redeploy
  BY <1>1 DEF Redeploy, PluginInv, InstallsAsApproved, installVars, callVars
<1>2. ASSUME NEW r \in InstallRequest, InstallRuns(r)
      PROVE  PluginInv'
  <2>1. PICK entry \in Resolved(deployed, r), owned \in SUBSET CredentialRef :
           /\ entry.refs \subseteq owned
           /\ installing' = {[req |-> r, entry |-> entry, handles |-> Handles(entry, owned),
                              by |-> deployed]}
    BY <1>2 DEF InstallRuns
  <2>2. PICK i : i = [req |-> r, entry |-> entry, handles |-> Handles(entry, owned), by |-> deployed]
    OBVIOUS
  <2>3. installing' = {i} /\ i.req = r /\ i.entry = entry /\ i.by = deployed /\ i.handles = entry.refs
    <3>1. Handles(entry, owned) = entry.refs
      BY <2>1 DEF Handles
    <3>2. QED
      BY <2>1, <2>2, <3>1
  <2>4. /\ installs[r] = "none" /\ r.preview /\ r.approval.payload = Payload(r)
        /\ UNCHANGED <<deployed, installs, callVars>>
    BY <1>2 DEF InstallRuns, RequestValid, ApprovalBinds, InstallIsNew, Lifecycle
  <2>5. /\ entry \in deployed.catalog.plugins /\ entry.id = r.id /\ entry.digest = r.digest
        /\ \E p \in deployed.profile.plugins : p.id = entry.id /\ p.digest = entry.digest
    BY <2>1, ResolvedEntry
  <2>6. InstallsAsApproved'
    BY <2>3, <2>4, <2>5 DEF InstallsAsApproved
  <2>7. QED
    BY <2>3, <2>4, <2>6 DEF PluginInv, callVars
<1>3. ASSUME NEW i \in installing, NEW receipt, InstallEnds(i, receipt) \/ InstallFails(i)
      PROVE  PluginInv'
  BY <1>3 DEF InstallEnds, InstallFails, PluginInv, InstallsAsApproved, callVars
<1>4. CASE OpenSession
  BY <1>4 DEF OpenSession, PluginInv, InstallsAsApproved, installVars
<1>5. ASSUME NEW r \in CallRequest, PreviewCall(r)
      PROVE  PluginInv'
  BY <1>5 DEF PreviewCall, PluginInv, InstallsAsApproved, installVars
<1>6. ASSUME NEW r \in CallRequest, DispatchCall(r)
      PROVE  PluginInv'
  <2>1. PICK t \in Admitted(r, TRUE) : dispatched' = {[req |-> r, tool |-> t]}
    BY <1>6 DEF DispatchCall
  <2>2. /\ r.inputs \in t.inputs
        /\ t.effectful => [id |-> r.id, digest |-> r.digest, tool |-> t.id, inputs |-> r.inputs] \in shown
    BY <1>6, AdmittedCall DEF DispatchCall
  <2>3. UNCHANGED <<deployed, installVars, shown>>
    BY <1>6 DEF DispatchCall
  <2>4. QED
    BY <2>1, <2>2, <2>3 DEF PluginInv, InstallsAsApproved, installVars
<1>7. ASSUME NEW scope, NEW key, NEW v, SetOption(scope, key, v)
      PROVE  PluginInv'
  BY <1>7 DEF SetOption, PluginInv, InstallsAsApproved, installVars, callVars
<1>8. CASE UNCHANGED pluginVars
  BY <1>8 DEF pluginVars, installVars, callVars, PluginInv, InstallsAsApproved
<1>9. QED
  BY <1>1, <1>2, <1>3, <1>4, <1>5, <1>6, <1>7, <1>8
     DEF PluginsNext, InstallNext, CallNext, OptionNext

\* What a preview shows makes the same call pass once it is approved.
LEMMA PreviewedPasses ==
    ASSUME NEW r \in CallRequest, NEW t \in Admitted(r, FALSE), t.effectful
    PROVE  t \in Admitted([r EXCEPT !.approval = [action |-> r.kind, payload |-> Payload(r)]], TRUE)
<1>1. PICK s : s = [r EXCEPT !.approval = [action |-> r.kind, payload |-> Payload(r)]]
  OBVIOUS
<1>2. /\ s.kind = r.kind /\ s.id = r.id /\ s.digest = r.digest /\ s.target = r.target
      /\ s.tool = r.tool /\ s.inputs = r.inputs /\ s.intact = r.intact
      /\ s.approval = [action |-> r.kind, payload |-> Payload(r)]
  BY <1>1, RequestAssumption
<1>3. r.kind = "tool_call" /\ r.intact /\ r.inputs \in t.inputs
  BY DEF Admitted, RequestValid, CallFits
<1>4. s.approval # NoApproval /\ Payload(s) = Payload(r)
  BY <1>2, RequestAssumption DEF Payload
<1>5. RequestValid(s) /\ CallFits(t, s, TRUE)
  BY <1>2, <1>3, <1>4 DEF RequestValid, ApprovalBinds, CallFits, Lifecycle
<1>6. ASSUME NEW d
      PROVE  ResolvedTool(d, s) = ResolvedTool(d, r)
  <2>1. Resolved(d, s) = Resolved(d, r)
    BY <1>2 DEF Resolved, AtDigest
  <2>2. QED
    BY <1>2, <2>1 DEF ResolvedTool, AtDigest
<1>7. t \in UNION {ResolvedTool(d, s) : d \in session}
  BY <1>6 DEF Admitted
<1>8. t \in Admitted(s, TRUE)
  BY <1>2, <1>3, <1>5, <1>7 DEF Admitted
<1>9. QED
  BY <1>1, <1>8

\* One entry of a catalog has an id.
LEMMA OneEntry ==
    ASSUME NEW d \in Documents, NEW e \in d.catalog.plugins, NEW f \in d.catalog.plugins, e.id = f.id
    PROVE  e = f
  BY DEF Documents, CatalogValid

LEMMA ListedResolves ==
    ASSUME NEW d \in Documents, NEW e \in d.catalog.plugins, NEW t
    PROVE  (\E p \in Published(d) : p.id = e.id /\ t.id \in p.tools)
           <=> ResolvedTool(d, [id |-> e.id, digest |-> e.digest, tool |-> t.id]) # {}
<1>1. PICK r : r = [id |-> e.id, digest |-> e.digest, tool |-> t.id]
  OBVIOUS
<1>2. r.id = e.id /\ r.digest = e.digest /\ r.tool = t.id
  BY <1>1
<1>3. ASSUME NEW p \in Published(d), p.id = e.id, t.id \in p.tools
      PROVE  ResolvedTool(d, r) # {}
  <2>1. PICK q \in d.profile.plugins :
           p = [id |-> q.id, digest |-> q.digest,
                tools |-> {u.id : u \in ToolsOf({f \in d.catalog.plugins : AtDigest(f, q)})} \cap q.tools]
    BY DEF Published
  <2>2. q.id = e.id /\ t.id \in q.tools
    BY <1>3, <2>1
  <2>3. PICK u \in ToolsOf({f \in d.catalog.plugins : AtDigest(f, q)}) : u.id = t.id
    BY <1>3, <2>1
  <2>4. PICK f \in d.catalog.plugins : AtDigest(f, q) /\ u \in f.tools
    BY <2>3 DEF ToolsOf
  <2>5. f = e
    BY <2>2, <2>4, OneEntry DEF AtDigest
  <2>6. AtDigest(e, r) /\ AtDigest(q, r) /\ u \in e.tools
    BY <1>2, <2>4, <2>5 DEF AtDigest
  <2>7. e \in Resolved(d, r)
    BY <2>6 DEF Resolved
  <2>8. u \in ToolsOf(Resolved(d, r))
    BY <2>6, <2>7 DEF ToolsOf
  <2>9. u \in ResolvedTool(d, r)
    BY <1>2, <2>2, <2>3, <2>6, <2>8 DEF ResolvedTool
  <2>10. QED
    BY <2>9
<1>4. ASSUME NEW u \in ResolvedTool(d, r)
      PROVE  \E p \in Published(d) : p.id = e.id /\ t.id \in p.tools
  <2>1. u \in ToolsOf(Resolved(d, r)) /\ u.id = t.id
    BY <1>2 DEF ResolvedTool
  <2>2. PICK q \in d.profile.plugins : AtDigest(q, r) /\ u.id \in q.tools
    BY DEF ResolvedTool
  <2>3. PICK f \in d.catalog.plugins : AtDigest(f, r) /\ u \in f.tools
    BY <2>1 DEF ToolsOf, Resolved
  <2>4. AtDigest(f, q)
    BY <2>2, <2>3 DEF AtDigest
  <2>5. u \in ToolsOf({g \in d.catalog.plugins : AtDigest(g, q)})
    BY <2>3, <2>4 DEF ToolsOf
  <2>6. PICK p : p = [id |-> q.id, digest |-> q.digest,
                      tools |-> {v.id : v \in ToolsOf({g \in d.catalog.plugins : AtDigest(g, q)})} \cap q.tools]
    OBVIOUS
  <2>7. p \in Published(d)
    BY <2>4, <2>6 DEF Published
  <2>8. p.id = e.id /\ t.id \in p.tools
    BY <1>2, <2>1, <2>2, <2>5, <2>6 DEF AtDigest
  <2>9. QED
    BY <2>7, <2>8
<1>5. QED
  BY <1>1, <1>3, <1>4

LEMMA PluginsInvariant == PluginsSpec => []PluginInv
<1>1. PluginsInit => PluginInv
  BY DEF PluginsInit, PluginInv, InstallsAsApproved
<1>2. QED
  BY <1>1, PluginInductive, PTL DEF PluginsSpec

\* What is installed and called is what was reviewed and approved, at its digest, with its
\* own references and inputs, and the published list is what resolves (plugin_host.py,
\* tool_dispatch.preview and dispatch), however documents are redeployed in between.
THEOREM PluginsReviewed == PluginsSpec => []PluginsActAsReviewed
<1>1. PluginInv => PluginsActAsReviewed
  <2> SUFFICES ASSUME PluginInv PROVE PluginsActAsReviewed
    OBVIOUS
  <2>1. CallsAsPreviewed
    BY PreviewedPasses DEF PluginInv, CallsAsPreviewed
  <2>2. ListedMeansResolvable
    BY ListedResolves DEF PluginInv, ListedMeansResolvable
  <2>3. QED
    BY <2>1, <2>2 DEF PluginInv, PluginsActAsReviewed
<1>2. QED
  BY <1>1, PluginsInvariant, PTL

\* An install request is run by one host at a time and never again once its receipt is
\* stored (MemoryPluginHostStore.install).
THEOREM InstallsRunOnce == PluginsSpec => InstallEffects!Spec
<1> DEFINE running == {i.req : i \in installing}
           settled == {r \in InstallRequest : installs[r] # "none"}
<1>1. PluginsInit => PluginInv /\ InstallEffects!Init
  BY DEF PluginsInit, PluginInv, InstallsAsApproved, InstallEffects!Init
<1>2. ASSUME PluginInv, [PluginsNext]_pluginVars
      PROVE  [InstallEffects!Next]_(InstallEffects!vars)
  <2>1. CASE UNCHANGED installVars
    BY <2>1 DEF InstallEffects!vars, installVars
  <2>2. ASSUME NEW r \in InstallRequest, InstallRuns(r)
        PROVE  InstallEffects!Next
    <3>1. PICK i : i.req = r /\ installing' = {i}
      BY <2>2 DEF InstallRuns
    <3>2. running = {} /\ running' = {r} /\ settled' = settled /\ r \notin settled
      BY <2>2, <3>1 DEF InstallRuns, InstallIsNew
    <3>3. QED
      BY <3>2 DEF InstallEffects!Next, InstallEffects!Starts
  <2>3. ASSUME NEW i \in installing, InstallFails(i)
        PROVE  InstallEffects!Next
    <3>1. running = {i.req} /\ running' = {} /\ settled' = settled /\ i.req \in InstallRequest
      BY <1>2, <2>3 DEF InstallFails, PluginInv
    <3>2. QED
      BY <3>1 DEF InstallEffects!Next, InstallEffects!Drops
  <2>4. ASSUME NEW i \in installing, NEW receipt \in {"accepted", "reconcile"}, InstallEnds(i, receipt)
        PROVE  InstallEffects!Next
    <3>1. running = {i.req} /\ running' = {} /\ i.req \in InstallRequest
      BY <1>2, <2>4 DEF InstallEnds, PluginInv
    <3>2. settled' = settled \cup {i.req}
      BY <1>2, <2>4, <3>1 DEF InstallEnds, PluginInv
    <3>3. QED
      BY <3>1, <3>2 DEF InstallEffects!Next, InstallEffects!Settles
  <2>5. QED
    BY <1>2, <2>1, <2>2, <2>3, <2>4
       DEF PluginsNext, InstallNext, CallNext, OptionNext, Redeploy, OpenSession, PreviewCall,
           DispatchCall, SetOption, pluginVars
<1>3. QED
  BY <1>1, <1>2, PluginInductive, PTL DEF PluginsSpec, InstallEffects!Spec

-----------------------------------------------------------------------------
(* Effective values                                                         *)

\* The option a turn is served, candidate by candidate.
LEMMA OptionServed ==
    ASSUME NEW tool, NEW turn, NEW key
    PROVE  EffectiveOption(tool, turn, key) =
               IF Usable(tool, turn) THEN turn
               ELSE IF Usable(tool, stored["actor"][key]) THEN stored["actor"][key]
               ELSE IF Usable(tool, stored["project"][key]) THEN stored["project"][key]
               ELSE tool.default
<1> DEFINE candidate == <<turn, stored["actor"][key], stored["project"][key]>>
           usable == {i \in 1 .. 3 : Usable(tool, candidate[i])}
           first == CHOOSE i \in usable : \A j \in usable : i <= j
<1>1. /\ candidate[1] = turn /\ candidate[2] = stored["actor"][key]
      /\ candidate[3] = stored["project"][key]
  OBVIOUS
<1>2. EffectiveOption(tool, turn, key) = IF usable = {} THEN tool.default ELSE candidate[first]
  BY DEF EffectiveOption
<1> HIDE DEF candidate
<1>3. usable \subseteq {1, 2, 3} /\ \A i \in {1, 2, 3} : i \in usable <=> Usable(tool, candidate[i])
  OBVIOUS
<1> HIDE DEF usable
<1>4. /\ 1 \in usable => first = 1
      /\ 1 \notin usable /\ 2 \in usable => first = 2
      /\ 1 \notin usable /\ 2 \notin usable /\ 3 \in usable => first = 3
  <2>1. ASSUME NEW m \in usable, \A j \in usable : m <= j
        PROVE  first = m
    <3>1. first \in usable /\ \A j \in usable : first <= j
      BY <2>1
    <3>2. first <= m /\ m <= first /\ first \in {1, 2, 3} /\ m \in {1, 2, 3}
      BY <1>3, <2>1, <3>1
    <3> HIDE DEF first
    <3>3. QED
      BY <3>2
  <2> HIDE DEF first
  <2>2. QED
    BY <1>3, <2>1
<1> HIDE DEF first
<1>5. QED
  BY <1>1, <1>2, <1>3, <1>4

LEMMA OptionsInForce == PluginInv => OptionsFit
<1> SUFFICES ASSUME PluginInv, NEW key \in ToolKeysOf(deployed.catalog),
                    NEW turn \in Setting \cup {NoSetting},
                    NEW tool \in ToolAt(deployed.catalog, key),
                    NEW served, served = EffectiveOption(tool, turn, key)
             PROVE  /\ served \in tool.options
                    /\ turn \in tool.options => served = turn
                    /\ stored["actor"][key] \in tool.options => served \in {turn, stored["actor"][key]}
                    /\ stored["project"][key] \in tool.options =>
                          served \in {turn, stored["actor"][key], stored["project"][key]}
  BY DEF OptionsFit
<1>1. PICK e \in deployed.catalog.plugins : tool \in e.tools
  BY DEF ToolAt, ToolsOf
<1>2. deployed.catalog \in Catalog /\ CatalogValid(deployed.catalog)
  BY DEF PluginInv, Documents
<1>3. tool.default \in tool.options /\ NoSetting \notin tool.options
  BY <1>1, <1>2, PluginsAssumption DEF CatalogValid, EntryValid, ToolValid
<1>4. QED
  BY <1>3, OptionServed DEF Usable

\* Of two views that agree on a setting and on its ceiling, the effective value is one.
LEMMA EffectiveAgrees ==
    ASSUME NEW c, NEW x, NEW live, NEW v, NEW w, v[x] = w[x],
           c.ceiling[x] # NoCell => v[c.ceiling[x]] = w[c.ceiling[x]]
    PROVE  Effective(c, v, x, live) = Effective(c, w, x, live)
<1>1. Repaired(c, v, x, live) = Repaired(c, w, x, live)
  BY DEF Repaired, Inherited
<1>2. CASE c.ceiling[x] = NoCell
  BY <1>1, <1>2 DEF Effective
<1>3. CASE c.ceiling[x] # NoCell
  <2>1. Repaired(c, v, c.ceiling[x], live) = Repaired(c, w, c.ceiling[x], live)
    BY <1>3 DEF Repaired, Inherited
  <2>2. QED
    BY <1>1, <2>1 DEF Effective
<1>4. QED
  BY <1>2, <1>3

LEMMA SettingsInForce == PreferencesTypeOK => SettingsFit
<1> SUFFICES ASSUME PreferencesTypeOK, NEW c \in SoundCatalogs, NEW live \in SUBSET Value,
                    NEW x \in Cell, NEW served, served = Served(c, x, live)
             PROVE  /\ c.type[x] = "ref" => served \in live \cup {NoValue}
                    /\ \A b \in Cell \ {x} :
                          c.ceiling[x] = b /\ c.type[x] = "int" /\ c.type[b] = "int" /\ Unbounded(c, b) =>
                            served <= Served(c, b, live)
                    /\ /\ pref[x].value # NoValue
                       /\ Unbounded(c, x) /\ (c.type[x] = "int" \/ pref[x].value \in live)
                       => served = pref[x].value
                    /\ (\A y \in Cell : Unbounded(c, y) \/ c.scope[c.ceiling[y]] \in Authority) =>
                          served = AfterReset(c, x, live)
  BY DEF SettingsFit
<1>1. PICK view : view = View(c, SettingScope)
  OBVIOUS
<1>2. \A y \in Cell : c.scope[y] \in SettingScope /\ view[y] = pref[y].value
  BY <1>1 DEF SoundCatalogs, CatalogSound, View
<1>3. \A y \in Cell : view[y] \in Value \cup {NoValue} /\ Inherited(view, y) \in Value
  BY <1>2, PreferencesAssumption DEF PreferencesTypeOK, PrefRecord, Inherited
<1>4. served = Effective(c, view, x, live)
  BY <1>1 DEF Served
<1>5. c.type[x] = "ref" => served \in live \cup {NoValue}
  BY <1>4 DEF Effective, Repaired
<1>6. ASSUME NEW b \in Cell \ {x}, c.ceiling[x] = b, c.type[x] = "int", c.type[b] = "int",
             Unbounded(c, b)
      PROVE  served <= Served(c, b, live)
  <2>1. PICK v, w : v = Inherited(view, x) /\ w = Inherited(view, b)
    OBVIOUS
  <2>2. v \in Int /\ w \in Int
    BY <1>3, <2>1, SettingsAssumption
  <2>3. b # NoCell
    BY SettingsAssumption
  <2>4. Repaired(c, view, x, live) = v /\ Repaired(c, view, b, live) = w
    BY <1>6, <2>1 DEF Repaired
  <2>5. Served(c, b, live) = w
    BY <1>1, <1>6, <2>4 DEF Served, Effective, Unbounded
  <2>6. served = IF v > w THEN w ELSE v
    BY <1>4, <1>6, <2>3, <2>4 DEF Effective
  <2>7. QED
    BY <2>2, <2>5, <2>6
<1>7. ASSUME pref[x].value # NoValue, Unbounded(c, x), c.type[x] = "int" \/ pref[x].value \in live
      PROVE  served = pref[x].value
  BY <1>2, <1>4, <1>7 DEF Effective, Repaired, Inherited, Unbounded
<1>8. ASSUME \A y \in Cell : Unbounded(c, y) \/ c.scope[c.ceiling[y]] \in Authority
      PROVE  served = AfterReset(c, x, live)
  <2>1. PICK partial : partial = View(c, Authority \cup {c.scope[x]})
    OBVIOUS
  <2>2. partial[x] = view[x]
    BY <1>2, <2>1 DEF View
  <2>3. c.ceiling[x] # NoCell => partial[c.ceiling[x]] = view[c.ceiling[x]]
    <3>1. c.ceiling[x] # NoCell => c.ceiling[x] \in Cell /\ c.scope[c.ceiling[x]] \in Authority
      BY <1>8 DEF SoundCatalogs, CatalogSound, Unbounded
    <3>2. QED
      BY <1>2, <2>1, <3>1 DEF View
  <2>4. QED
    BY <1>4, <2>1, <2>2, <2>3, EffectiveAgrees DEF AfterReset
<1>9. QED
  BY <1>5, <1>6, <1>7, <1>8

\* Whatever tabs, imports, policy operations and deployments have left in the stores, the
\* values served fit the descriptors in force, and a reset and a read answer the same
\* (models.py:1909-2023, plugin_preference_store.py).
THEOREM ServedValuesFit == GateSpec /\ PluginsSpec => []EffectiveValuesFit
<1>1. PrefInv /\ PluginInv => EffectiveValuesFit
  BY OptionsInForce, SettingsInForce DEF PrefInv, EffectiveValuesFit
<1>2. QED
  BY <1>1, PrefsInvariant, PluginsInvariant, PTL

-----------------------------------------------------------------------------
(* The stores put together: each part goes by its own specification, except *)
(* that the receipts are the tool calls' in one scene and the gate's in the *)
(* others.                                                                  *)

ToolScene == scene = "tools"
gateStore == <<operationVars, prefVars, gateVars>>

LEMMA SceneStays ==
    /\ ToolScene /\ [RecordsNext]_recordsVars => ToolScene'
    /\ ~ToolScene /\ [RecordsNext]_recordsVars => ~ToolScene'
BY DEF ToolScene, RecordsNext, recordsVars, InTools, InPlugins, InCursor

\* Whatever the scene is, the parts that share nothing go by their own specifications.
LEMMA PartsMove ==
    ASSUME [RecordsNext]_recordsVars
    PROVE  /\ [OnceNext]_onceVars /\ [PluginsNext]_pluginVars /\ [DirectivesNext]_directiveVars
           /\ [Next]_vars
BY DEF RecordsNext, recordsVars, storeVars, InTools, InPlugins, InCursor, PluginsNext

\* With tools on stage the calls go by theirs, and the gate rests.
LEMMA ToolsMove ==
    ASSUME ToolScene, [RecordsNext]_recordsVars
    PROVE  [DispatchNext]_<<operationVars, dispatchVars>> /\ UNCHANGED <<prefVars, gateVars>>
<1>1. CASE InTools(DispatchNext)
  BY <1>1 DEF InTools
<1>2. CASE UNCHANGED recordsVars
  BY <1>2 DEF recordsVars, storeVars
<1>3. CASE InCursor(Next)
  BY <1>3 DEF ToolScene, InCursor
<1>4. QED
  BY <1>1, <1>2, <1>3 DEF ToolScene, RecordsNext, InPlugins

\* Otherwise the gate goes by its own, and the calls rest.
LEMMA GateMoves ==
    ASSUME ~ToolScene, [RecordsNext]_recordsVars
    PROVE  [GateNext]_gateStore /\ UNCHANGED dispatchVars
<1>1. CASE scene = "policy" /\ GateNext /\ UNCHANGED dispatchVars
  BY <1>1
<1>2. CASE scene = "tabs" /\ TabStep /\ UNCHANGED <<operationVars, dispatchVars, gateVars>>
  BY <1>2 DEF GateNext, WriterStep
<1>3. CASE UNCHANGED <<operationVars, dispatchVars, prefVars, gateVars>>
  BY <1>3 DEF gateStore
<1>4. QED
  BY <1>1, <1>2, <1>3 DEF ToolScene, RecordsNext, recordsVars, storeVars, InTools, InPlugins, InCursor

LEMMA PartsSpec ==
    RecordsSpec => OnceSpec /\ PluginsSpec /\ DirectivesSpec /\ Spec
<1>1. RecordsInit => OnceInit /\ PluginsInit /\ DirectivesInit /\ Init
  BY DEF RecordsInit
<1>2. QED
  BY <1>1, PartsMove, PTL DEF RecordsSpec, OnceSpec, PluginsSpec, DirectivesSpec, Spec

LEMMA ScenesSpec ==
    /\ RecordsSpec => []ToolScene \/ []~ToolScene
    /\ RecordsSpec /\ []ToolScene => DispatchSpec
    /\ RecordsSpec /\ []~ToolScene => GateSpec
<1>1. RecordsInit => OperationsInit /\ PreferencesInit /\ GateInit /\ DispatchInit
  BY DEF RecordsInit
<1>2. ToolScene /\ [RecordsNext]_recordsVars => [DispatchNext]_<<operationVars, dispatchVars>>
  BY ToolsMove
<1>3. ~ToolScene /\ [RecordsNext]_recordsVars => [GateNext]_<<operationVars, prefVars, gateVars>>
  BY GateMoves DEF gateStore
<1>4. QED
  BY <1>1, <1>2, <1>3, SceneStays, PTL DEF RecordsSpec, DispatchSpec, GateSpec

\* The receipts stay typed under the gate as well.
LEMMA GateReceipts == GateSpec => []OperationsTypeOK
<1>1. OperationsInit => OperationsTypeOK
  <2>1. Subject # {}
    BY DispatchAssumption
  <2>2. (CHOOSE s \in Subject : TRUE) \in Subject
    BY <2>1
  <2>3. QED
    BY <2>2 DEF OperationsInit, OperationsTypeOK, Receipt, GrantRecord
<1>2. ASSUME OperationsTypeOK, [GateNext]_gateStore
      PROVE  OperationsTypeOK'
  <2>1. CASE UNCHANGED operationVars
    BY <1>2, <2>1 DEF operationVars, receiptVars, OperationsTypeOK
  <2>2. ASSUME NEW o \in Op, NEW g \in Grant, GrantIssued(g, o) \/ GrantExpires(g) \/ GrantConsumed(g, o),
               UNCHANGED receiptVars
        PROVE  OperationsTypeOK'
    <3>1. o \in Subject /\ grants[g] \in GrantRecord
      BY <1>2, GateAssumption DEF OperationsTypeOK
    <3>2. \A state \in {"open", "expired", "consumed"} :
             /\ [grants[g] EXCEPT !.state = state] \in GrantRecord
             /\ [state |-> state, subject |-> o] \in GrantRecord
      BY <3>1 DEF GrantRecord
    <3>3. \E rec \in GrantRecord : grants' = [grants EXCEPT ![g] = rec]
      BY <2>2, <3>2 DEF GrantIssued, GrantExpires, GrantConsumed
    <3>4. QED
      BY <1>2, <2>2, <3>3 DEF OperationsTypeOK, receiptVars
  <2>3. ASSUME NEW o \in Op, AttemptBegins(o), UNCHANGED grants
        PROVE  OperationsTypeOK'
    BY <1>2, <2>3, OpIsKey DEF AttemptBegins, OperationsTypeOK
  <2>4. ASSUME NEW o \in Op, NEW outcome, AttemptEnds(o, outcome), UNCHANGED grants
        PROVE  OperationsTypeOK'
    BY <1>2, <2>4, OpIsKey DEF AttemptEnds, OperationsTypeOK, Receipt, Stored
  <2>5. ASSUME NEW o \in Op, ApplyStep(o)
        PROVE  OperationsTypeOK'
    <3>1. CASE \E p \in Provider : ApplyBegins(o, p)
      BY <2>3, <3>1 DEF ApplyBegins
    <3>2. CASE \E g \in Grant : ApplyApproved(o, g)
      BY <2>2, <3>2 DEF ApplyApproved
    <3>3. CASE \/ \E g \in Grant : ApplyDenied(o, g)
               \/ ApplyRefused(o) \/ ApplyStale(o) \/ ApplyRecords(o) \/ ApplyAsksProvider(o)
      BY <2>4, <3>3 DEF ApplyDenied, ApplyRefused, ApplyStale, ApplyRecords, ApplyAsksProvider, ApplyEnds
    <3>4. CASE ApplyCommits(o)
      BY <2>1, <3>4 DEF ApplyCommits
    <3>5. QED
      BY <2>5, <3>1, <3>2, <3>3, <3>4 DEF ApplyStep
  <2>6. CASE ApproverStep
    <3>1. PICK g \in Grant : (\E o \in Op : GrantIssued(g, o)) \/ GrantExpires(g)
      BY <2>6 DEF ApproverStep
    <3>2. UNCHANGED receiptVars
      BY <2>6 DEF ApproverStep
    <3>3. CASE \E o \in Op : GrantIssued(g, o)
      BY <2>2, <3>2, <3>3
    <3>4. CASE GrantExpires(g)
      <4>1. grants[g] \in GrantRecord /\ [grants[g] EXCEPT !.state = "expired"] \in GrantRecord
        BY <1>2 DEF OperationsTypeOK, GrantRecord
      <4>2. QED
        BY <1>2, <3>2, <3>4, <4>1 DEF GrantExpires, OperationsTypeOK, receiptVars
    <3>5. QED
      BY <3>1, <3>3, <3>4
  <2>7. QED
    BY <1>2, <2>1, <2>5, <2>6 DEF GateNext, WriterStep, gateStore
<1>3. QED
  BY <1>1, <1>2, PTL DEF GateSpec, gateStore

\* What OnceInv, PluginInv and DirectivesInv leave out of the types of their parts.
LEMMA OnceTyped == OnceSpec => []OnceTypeOK
<1>1. OnceInit => OnceInv /\ ready \in BOOLEAN
  BY DEF OnceInit, OnceInv
<1>2. ready \in BOOLEAN /\ [OnceNext]_onceVars => (ready \in BOOLEAN)'
  BY DEF OnceNext, OnceStep, WorldChanges, IdempotencyRuns, IdempotencyRecords, IdempotencyRaises,
         DeliverLaunches, DeliverStarts, DeliverLaunchRaises, onceVars, deliverVars
<1>3. OnceInv /\ ready \in BOOLEAN => OnceTypeOK
  BY DEF OnceInv, OnceTypeOK
<1>4. QED
  BY <1>1, <1>2, <1>3, OnceInductive, PTL DEF OnceSpec

LEMMA DirectivesTyped == DirectivesSpec => []DirectivesTypeOK
<1>1. DirectivesInit => DirectivesInv /\ carried \subseteq 1 .. Len(log)
  BY DEF DirectivesInit, DirectivesInv, MarksCovered, Idle
<1>2. DirectivesInv /\ carried \subseteq 1 .. Len(log) /\ [DirectivesNext]_directiveVars =>
        (carried \subseteq 1 .. Len(log))'
  <2> SUFFICES ASSUME DirectivesInv, carried \subseteq 1 .. Len(log), [DirectivesNext]_directiveVars
               PROVE  carried' \subseteq 1 .. Len(log')
    OBVIOUS
  <2>1. \A mark : Carries(mark) \subseteq 1 .. Len(log)
    BY DEF DirectivesInv, Carries, Directive
  <2>2. Len(log) \in Nat /\ Len(log') \in Nat /\ Len(log) <= Len(log')
    BY DEF DirectivesInv, DirectivesNext, SubmitDirective, StartWorkflowRun, QueueReads, QueueInserts,
           QueueMarks, QueueStops, Marked, directiveVars
  <2>3. carried' \subseteq 1 .. Len(log)
    BY <2>1 DEF DirectivesNext, SubmitDirective, StartWorkflowRun, QueueReads, QueueInserts,
                QueueMarks, QueueStops, directiveVars
  <2>4. QED
    BY <2>2, <2>3
<1>3. DirectivesInv /\ carried \subseteq 1 .. Len(log) => DirectivesTypeOK
  BY DEF DirectivesInv, DirectivesTypeOK
<1>4. QED
  BY <1>1, <1>2, <1>3, DirectivesInductive, PTL DEF DirectivesSpec

PluginRest ==
    /\ installs \in [InstallRequest -> {"none", "accepted", "reconcile"}]
    /\ \A i \in installing : i.by \in Documents
    /\ session \subseteq Documents
    /\ \A c \in dispatched : c.req \in CallRequest
    /\ stored \in [Scope -> [ToolKey -> Setting \cup {NoSetting}]]

LEMMA PluginsTyped == PluginsSpec => []PluginsTypeOK
<1>1. PluginsInit => PluginRest
  BY DEF PluginsInit, PluginRest
<1>2. PluginInv /\ PluginRest /\ [PluginsNext]_pluginVars => PluginRest'
  <2> SUFFICES ASSUME PluginInv, PluginRest, [PluginsNext]_pluginVars
               PROVE  PluginRest'
    OBVIOUS
  <2>1. CASE InstallNext
    <3>1. CASE Redeploy
      BY <3>1 DEF Redeploy, installVars, callVars, PluginRest
    <3>2. ASSUME NEW r \in InstallRequest, InstallRuns(r)
          PROVE  PluginRest'
      BY <3>2 DEF InstallRuns, callVars, PluginRest, PluginInv
    <3>3. ASSUME NEW i \in installing, NEW receipt \in {"accepted", "reconcile"},
                 InstallFails(i) \/ InstallEnds(i, receipt)
          PROVE  PluginRest'
      BY <3>3 DEF InstallFails, InstallEnds, callVars, PluginRest
    <3>4. QED
      BY <2>1, <3>1, <3>2, <3>3 DEF InstallNext
  <2>2. CASE CallNext
    <3>1. ASSUME NEW r \in CallRequest, PreviewCall(r) \/ DispatchCall(r)
          PROVE  PluginRest'
      <4>1. UNCHANGED <<installs, installing, session, stored>>
        BY <3>1 DEF PreviewCall, DispatchCall, installVars
      <4>2. dispatched' = dispatched \/ \E t : dispatched' = {[req |-> r, tool |-> t]}
        BY <3>1 DEF PreviewCall, DispatchCall
      <4>3. QED
        BY <4>1, <4>2 DEF PluginRest
    <3>2. CASE Redeploy \/ OpenSession
      BY <3>2 DEF Redeploy, OpenSession, installVars, callVars, PluginRest, PluginInv
    <3>3. QED
      BY <2>2, <3>1, <3>2 DEF CallNext
  <2>3. CASE OptionNext
    <3>1. CASE Redeploy
      BY <3>1 DEF Redeploy, installVars, callVars, PluginRest
    <3>2. ASSUME NEW scope \in Scope, NEW key, NEW v \in Setting, SetOption(scope, key, v)
          PROVE  PluginRest'
      <4>1. PICK options : options = [stored[scope] EXCEPT ![key] = v]
        OBVIOUS
      <4>2. options \in [ToolKey -> Setting \cup {NoSetting}]
        BY <4>1 DEF PluginRest
      <4>3. stored' = [stored EXCEPT ![scope] = options]
        BY <3>2, <4>1 DEF SetOption
      <4>4. QED
        BY <3>2, <4>2, <4>3 DEF SetOption, installVars, callVars, PluginRest
    <3>3. QED
      BY <2>3, <3>1, <3>2 DEF OptionNext
  <2>4. CASE UNCHANGED pluginVars
    BY <2>4 DEF pluginVars, installVars, callVars, PluginRest
  <2>5. QED
    BY <2>1, <2>2, <2>3, <2>4 DEF PluginsNext
<1>3. PluginInv /\ PluginRest => PluginsTypeOK
  BY DEF PluginInv, PluginRest, PluginsTypeOK
<1>4. QED
  BY <1>1, <1>2, <1>3, PluginsInvariant, PTL DEF PluginsSpec

\* Each store, the cursor and the tabs keep their types, whichever part is at work, for any
\* operations, calls, catalogs, keys and definitions (operation_store.py, tool_dispatch.py,
\* preference_store.py, preference_gates.py, idempotency_store.py, deliver.py,
\* plugin_host.py, directives.py, workflows.py).
THEOREM RecordsTypeCorrect == RecordsSpec => []RecordsTypeOK
<1>1. RecordsSpec => [](OnceTypeOK /\ PluginsTypeOK /\ DirectivesTypeOK /\ TypeOK)
  <2>1. CursorInv => TypeOK
    BY DEF CursorInv
  <2>2. QED
    BY <2>1, PartsSpec, OnceTyped, PluginsTyped, DirectivesTyped, CursorInvariant, PTL
<1>2. RecordsSpec /\ []ToolScene =>
        [](OperationsTypeOK /\ DispatchTypeOK /\ PreferencesTypeOK /\ GateTypeOK)
  <2>1. DispatchInv => OperationsTypeOK /\ DispatchTypeOK
    BY DEF DispatchInv
  <2>2. RecordsInit => PreferencesTypeOK /\ GateTypeOK
    BY GateAssumption
    DEF RecordsInit, PreferencesInit, PreferencesTypeOK, Unset, PrefRecord, History, GateInit,
           GateTypeOK, Stage
  <2>3. /\ PreferencesTypeOK /\ GateTypeOK /\ ToolScene /\ [RecordsNext]_recordsVars
        => (PreferencesTypeOK /\ GateTypeOK)'
    BY ToolsMove DEF prefVars, gateVars, PreferencesTypeOK, GateTypeOK
  <2>4. QED
    BY <2>1, <2>2, <2>3, ScenesSpec, DispatchInvariant, PTL DEF RecordsSpec
<1>3. RecordsSpec /\ []~ToolScene =>
        [](OperationsTypeOK /\ DispatchTypeOK /\ PreferencesTypeOK /\ GateTypeOK)
  <2>1. GateInv => GateTypeOK
    BY DEF GateInv, GateTypeOK
  <2>2. PrefInv => PreferencesTypeOK
    BY DEF PrefInv
  <2>3. RecordsInit => DispatchTypeOK
    <3>1. OperationsInit /\ DispatchInit => DispatchTypeOK
      BY DispatchInvInit DEF DispatchInv
    <3>2. QED
      BY <3>1 DEF RecordsInit
  <2>4. DispatchTypeOK /\ ~ToolScene /\ [RecordsNext]_recordsVars => DispatchTypeOK'
    BY GateMoves DEF dispatchVars, DispatchTypeOK
  <2>5. QED
    BY <2>1, <2>2, <2>3, <2>4, ScenesSpec, GateInvariant, PrefsInvariant, GateReceipts, PTL
    DEF RecordsSpec
<1>4. QED
  BY <1>1, <1>2, <1>3, ScenesSpec, PTL DEF RecordsTypeOK

\* The calls touch the receipts of their requests only, and the gate those of its
\* operations.
LEMMA CallsTouchRequests ==
    ASSUME DispatchInv, [DispatchNext]_<<operationVars, dispatchVars>>
    PROVE  /\ attempt' = attempt \/ attempt' \in Request \cup {NoKey}
           /\ \A k \in Key \ Request : receipts'[k] = receipts[k]
<1>1. receipts \in [Key -> Receipt] /\ \A c \in Call : call[c].req \in Request
  BY DEF DispatchInv, OperationsTypeOK, DispatchTypeOK, CallRecord
<1>2. CASE UNCHANGED receiptVars
  BY <1>2 DEF receiptVars
<1>3. ASSUME NEW c \in Call, CallRuns(c)
      PROVE  attempt' \in Request /\ receipts' = receipts
  BY <1>1, <1>3 DEF CallRuns, AttemptBegins
<1>4. ASSUME NEW r \in Request, NEW outcome, AttemptEnds(r, outcome)
      PROVE  attempt' = NoKey /\ \A k \in Key \ Request : receipts'[k] = receipts[k]
  BY <1>1, <1>4 DEF AttemptEnds
<1>5. ASSUME NEW c \in Call, NEW result \in RunnerResult, RunnerReturns(c, result)
      PROVE  attempt' = NoKey /\ \A k \in Key \ Request : receipts'[k] = receipts[k]
  BY <1>1, <1>4, <1>5 DEF RunnerReturns
<1>6. ASSUME NEW c \in Call, CallStep(c), ~CallRuns(c),
             \A result \in RunnerResult : ~RunnerReturns(c, result)
      PROVE  UNCHANGED receiptVars
  BY <1>6 DEF CallStep, CallRefused, CallAdmitted, CallOverBudget, CallApproved, CallNotApproved,
              CallReplays, CallStopped, CallLeaves, operationVars
<1>7. ASSUME OperatorStep \/ (\E c \in Call, r \in Request : CallArrives(c, r))
                 \/ UNCHANGED <<operationVars, dispatchVars>>
      PROVE  UNCHANGED receiptVars
  BY <1>7 DEF OperatorStep, CallArrives, operationVars
<1>8. QED
  BY <1>2, <1>3, <1>5, <1>6, <1>7 DEF DispatchNext

LEMMA GateTouchesOps ==
    ASSUME OperationsTypeOK, [GateNext]_gateStore
    PROVE  \A k \in Key \ Op : receipts'[k] = receipts[k]
<1>1. ASSUME NEW o \in Op, NEW outcome, AttemptEnds(o, outcome)
      PROVE  \A k \in Key \ Op : receipts'[k] = receipts[k]
  BY <1>1 DEF AttemptEnds, OperationsTypeOK
<1>2. ASSUME NEW o \in Op, ApplyStep(o)
      PROVE  receipts' = receipts \/ \E outcome : AttemptEnds(o, outcome)
  BY <1>2 DEF ApplyStep, ApplyBegins, AttemptBegins, ApplyApproved, ApplyDenied, ApplyCommits,
              ApplyRefused, ApplyStale, ApplyRecords, ApplyAsksProvider, ApplyEnds, operationVars, receiptVars
<1>3. CASE ApproverStep \/ WriterStep \/ UNCHANGED gateStore
  BY <1>3 DEF ApproverStep, WriterStep, gateStore, operationVars, receiptVars
<1>4. QED
  BY <1>1, <1>2, <1>3 DEF GateNext

\* A part that rests runs no effect, and what is stored of its effects stays.
NoOperationRuns == {attempt} \cap Op = {}

LEMMA GateRests ==
    ASSUME DispatchInv, NoOperationRuns, [DispatchNext]_<<operationVars, dispatchVars>>
    PROVE  NoOperationRuns' /\ UNCHANGED PolicyEffects!vars
<1>1. NoOperationRuns'
  BY CallsTouchRequests, OpIsKey, RecordsAssumption DEF NoOperationRuns
<1>2. \A o \in Op : receipts'[o] = receipts[o]
  BY CallsTouchRequests, OpIsKey, RecordsAssumption
<1>3. QED
  BY <1>1, <1>2 DEF NoOperationRuns, PolicyEffects!vars

LEMMA CallsRest ==
    ASSUME OperationsTypeOK, ~ToolScene, [RecordsNext]_recordsVars
    PROVE  UNCHANGED ToolEffects!vars
<1>1. call' = call
  BY GateMoves DEF dispatchVars
<1>2. \A r \in Request : receipts'[r] = receipts[r]
  BY GateMoves, GateTouchesOps, DispatchAssumption, RecordsAssumption
<1>3. QED
  BY <1>1, <1>2 DEF ToolEffects!vars

\* Every guarded effect of the hub happens at most once per key, whichever store guards it:
\* tool calls, policy operations, keyed conversation requests, Deliver starts and plugin
\* installs (operation_store.py, idempotency_store.py, deliver.py, plugin_host.py).
THEOREM GuardedEffectsOnce == RecordsSpec => EffectsOnce
<1>1. RecordsSpec => IdempotentEffects!Spec /\ DeliverEffects!Spec /\ InstallEffects!Spec
  BY PartsSpec, KeysRunOnce, InstallsRunOnce, PTL
<1>2. RecordsSpec /\ []ToolScene => ToolEffects!Spec /\ PolicyEffects!Spec
  <2>1. RecordsInit => NoOperationRuns /\ PolicyEffects!Init
    BY OpIsKey DEF RecordsInit, OperationsInit, NoOperationRuns, PolicyEffects!Init
  <2>2. DispatchInv /\ NoOperationRuns /\ [DispatchNext]_<<operationVars, dispatchVars>> =>
            NoOperationRuns' /\ [PolicyEffects!Next]_(PolicyEffects!vars)
    BY GateRests
  <2>3. QED
    BY <2>1, <2>2, ScenesSpec, DispatchInvariant, DispatchRunsOnce, PTL
    DEF RecordsSpec, DispatchSpec, PolicyEffects!Spec
<1>3. RecordsSpec /\ []~ToolScene => ToolEffects!Spec /\ PolicyEffects!Spec
  <2>1. RecordsInit => ToolEffects!Init
    <3>1. SUFFICES ASSUME OperationsInit, DispatchInit
                   PROVE  Running = {} /\ Settled = {}
      BY DEF RecordsInit, ToolEffects!Init, Running, Settled
    <3>2. \A c \in Call : call[c].pc # "running"
      BY <3>1, AtRestTyped DEF DispatchInit
    <3>3. \A r \in Request : receipts[r] = "none"
      BY <3>1, DispatchAssumption DEF OperationsInit
    <3>4. QED
      BY <3>2, <3>3 DEF Running, Settled
  <2>2. OperationsTypeOK /\ ~ToolScene /\ [RecordsNext]_recordsVars =>
            [ToolEffects!Next]_(ToolEffects!vars)
    BY CallsRest
  <2>3. QED
    BY <2>1, <2>2, ScenesSpec, GateReceipts, PolicyRunsOnce, PTL
    DEF RecordsSpec, ToolEffects!Spec
<1>4. QED
  BY <1>1, <1>2, <1>3, ScenesSpec, PTL DEF EffectsOnce

\* What the parts off stage have not begun.
NothingRun == CallsAreCovered /\ \A r \in Request : runs[r] = 0
NothingCommitted ==
    \A o \in Op : receipts[o] = "none" /\ \A p \in Provider : effects[o][p] = 0

\* What each part promises by itself holds in the composition, whichever part is at work:
\* calls, policy operations, directives, plugins, served values, the workflow graph and the
\* saves of the tabs.
THEOREM RecordsKeepPromises ==
    RecordsSpec => /\ [](CallsAreCovered /\ ReceiptsMeanCommits /\ IncludedWasCarried)
                   /\ [](PluginsActAsReviewed /\ EffectiveValuesFit /\ GraphIsFollowed)
                   /\ SavesSeeLatest
<1>1. RecordsSpec => [](IncludedWasCarried /\ PluginsActAsReviewed /\ GraphIsFollowed)
  BY PartsSpec, IncludedIsCarried, PluginsReviewed, GraphFollowed, PTL
<1>2. RecordsSpec => []EffectiveValuesFit
  <2>1. RecordsTypeOK => PreferencesTypeOK
    BY DEF RecordsTypeOK
  <2>2. PreferencesTypeOK /\ PluginInv => EffectiveValuesFit
    BY OptionsInForce, SettingsInForce DEF EffectiveValuesFit
  <2>3. QED
    BY <2>1, <2>2, PartsSpec, PluginsInvariant, RecordsTypeCorrect, PTL
<1>3. RecordsInit => NothingRun /\ NothingCommitted
  <2>1. RecordsInit => CallsAreCovered
    BY DispatchInvInit DEF RecordsInit, DispatchInv
  <2>2. QED
    BY <2>1, OpIsKey DEF RecordsInit, OperationsInit, DispatchInit, GateInit, NothingRun, NothingCommitted
<1>4. RecordsSpec /\ []ToolScene => [](CallsAreCovered /\ ReceiptsMeanCommits) /\ SavesSeeLatest
  <2>1. DispatchInv /\ NothingCommitted /\ ToolScene /\ [RecordsNext]_recordsVars =>
            NothingCommitted' /\ UNCHANGED prefVars
    <3>1. SUFFICES ASSUME DispatchInv, NothingCommitted, ToolScene, [RecordsNext]_recordsVars
                   PROVE  NothingCommitted' /\ UNCHANGED prefVars
      OBVIOUS
    <3>2. effects' = effects /\ UNCHANGED prefVars
      BY <3>1, ToolsMove DEF gateVars
    <3>3. \A o \in Op : receipts'[o] = receipts[o]
      BY <3>1, ToolsMove, CallsTouchRequests, OpIsKey, RecordsAssumption
    <3>4. QED
      BY <3>1, <3>2, <3>3 DEF NothingCommitted
  <2>2. NothingCommitted => ReceiptsMeanCommits
    BY DEF NothingCommitted, ReceiptsMeanCommits
  <2>3. QED
    BY <1>3, <2>1, <2>2, ScenesSpec, DispatchInvariant, CallsCovered, PTL
    DEF RecordsSpec, SavesSeeLatest
<1>5. RecordsSpec /\ []~ToolScene => [](CallsAreCovered /\ ReceiptsMeanCommits) /\ SavesSeeLatest
  <2>1. NothingRun /\ ~ToolScene /\ [RecordsNext]_recordsVars => NothingRun'
    <3>1. SUFFICES ASSUME NothingRun, ~ToolScene, [RecordsNext]_recordsVars
                   PROVE  NothingRun'
      OBVIOUS
    <3>2. call' = call /\ executed' = executed /\ inFlight' = inFlight /\ runs' = runs
      BY <3>1, GateMoves DEF dispatchVars
    <3>3. CeilingHolds' /\ ReservationsTruthful'
      BY <3>1, <3>2 DEF NothingRun, CallsAreCovered, BudgetHolds, CeilingHolds, ReservationsTruthful
    <3>4. GrantBuysOneRun'
      BY <3>1, <3>2, DispatchAssumption DEF NothingRun, GrantBuysOneRun
    <3>5. QED
      BY <3>1, <3>2, <3>3, <3>4 DEF NothingRun, CallsAreCovered, BudgetHolds
  <2>2. NothingRun => CallsAreCovered
    BY DEF NothingRun
  <2>3. QED
    BY <1>3, <2>1, <2>2, ScenesSpec, ReceiptsTruthful, SavesAreSeen, PTL DEF RecordsSpec
<1>6. QED
  BY <1>1, <1>2, <1>4, <1>5, ScenesSpec, PTL
=============================================================================
