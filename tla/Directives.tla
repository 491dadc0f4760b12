----------------------------- MODULE Directives -----------------------------
(***************************************************************************)
(* Operator directives of one session (src/workbench/directives.py) and    *)
(* the packets that carry them (src/workbench/store.py).  Directives and   *)
(* packet markers share one append-only event log; a packet carries the    *)
(* last Window directives (32 in the code), and its marker names the       *)
(* highest one.  Starting a workflow run writes packet and marker in one   *)
(* transaction; queueing a further run reads the log, inserts the command  *)
(* and appends the marker in three.                                        *)
(***************************************************************************)
EXTENDS Naturals, FiniteSets, Sequences

CONSTANTS Window,        \* directives a packet has room for
          MaxEvents      \* bound: events of the session

ASSUME DirectivesAssumption == Window \in Nat \ {0} /\ MaxEvents \in Nat

VARIABLES log,           \* 0 for a directive, or the high-water mark a packet names
          carried,       \* sequence numbers some queued packet carries
          queueing       \* the mark of the packet being queued, and whether it is inserted

directiveVars == <<log, carried, queueing>>

Idle == [step |-> "idle", mark |-> 0]

DirectivesTypeOK ==
    /\ log \in Seq(Nat)
    /\ carried \subseteq 1 .. Len(log)
    /\ queueing \in [step : {"idle", "read", "inserted"}, mark : 0 .. Len(log)]

DirectivesInit == log = <<>> /\ carried = {} /\ queueing = Idle

----------------------------------------------------------------------------
Directive == {i \in DOMAIN log : log[i] = 0}

\* The last Window directives at or below a mark.
Carries(mark) ==
    {i \in Directive : i <= mark /\ Cardinality({j \in Directive : i < j /\ j <= mark}) < Window}

\* The last directive of the log, 0 where there is none.
LastDirective == IF Directive = {} THEN 0
                 ELSE CHOOSE i \in Directive : \A j \in Directive : j <= i

\* submit_directive, past its refusals.
SubmitDirective ==
    /\ Len(log) < MaxEvents
    /\ log' = Append(log, 0)
    /\ UNCHANGED <<carried, queueing>>

\* A marker is appended only where a directive was carried.
Marked(mark) == IF mark > 0 THEN Append(log, mark) ELSE log

\* start_workflow_run: command, events and marker in one transaction.
StartWorkflowRun ==
    /\ Len(log) < MaxEvents
    /\ carried' = carried \cup Carries(LastDirective)
    /\ log' = Marked(LastDirective)
    /\ UNCHANGED queueing

\* enqueue_run reads the directives of the session ...
QueueReads ==
    /\ queueing.step = "idle" /\ Len(log) < MaxEvents
    /\ queueing' = [step |-> "read", mark |-> LastDirective]
    /\ UNCHANGED <<log, carried>>

\* ... inserts the command with them ...
QueueInserts ==
    /\ queueing.step = "read"
    /\ carried' = carried \cup Carries(queueing.mark)
    /\ queueing' = [queueing EXCEPT !.step = "inserted"]
    /\ UNCHANGED log

\* Mutant: the marker names the last directive at the time it is written.
MutantMarkOf(q) == LastDirective

\* The marker names what was read.
MarkOf(q) == q.mark

\* ... and appends the marker.
QueueMarks ==
    /\ queueing.step = "inserted"
    /\ log' = Marked(MarkOf(queueing))
    /\ queueing' = Idle
    /\ UNCHANGED carried

\* The hub stops, or the transaction fails, between two of them.
QueueStops ==
    /\ queueing.step # "idle"
    /\ queueing' = Idle
    /\ UNCHANGED <<log, carried>>

DirectivesNext ==
    \/ SubmitDirective
    \/ StartWorkflowRun
    \/ QueueReads
    \/ QueueInserts
    \/ QueueMarks
    \/ QueueStops

DirectivesSpec == DirectivesInit /\ [][DirectivesNext]_directiveVars

----------------------------------------------------------------------------
\* session_directive_view: the directives at or below some recorded mark.
Included == {i \in Directive : \E j \in DOMAIN log : i <= log[j]}

\* A directive the operator is shown as included is in a queued packet, unless the
\* packet that passed it by was full of Window later ones; one shown as pending may
\* have been carried by a packet whose marker was lost, never the other way round
\* (store.py:266-271, 2155-2188).
IncludedWasCarried ==
    \A i \in Included \ carried :
        \E j \in DOMAIN log :
            i <= log[j] /\ Cardinality({d \in Directive : i < d /\ d <= log[j]}) >= Window
============================================================================
