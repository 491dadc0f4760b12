---------------------------- MODULE ChatStreams ----------------------------
(***************************************************************************)
(* The streaming endpoints of src/workbench/conversation_api.py over the   *)
(* two stores: a send (POST .../send), an advanced run (.../advanced/run)  *)
(* and a dispatch of several branches (.../advanced/dispatch).  A handler  *)
(* is a coroutine of the hub's one event loop; each frame is pulled in a   *)
(* pool thread that a disconnect abandons but does not stop; requests of   *)
(* the browser that are not streams run in other pool threads.  A section  *)
(* of a coroutine without an await is never interrupted by another         *)
(* coroutine, but it is interrupted by threads between two store calls.    *)
(***************************************************************************)
EXTENDS Conversations, ResponseLifecycle

CONSTANTS Sends, Runs,        \* the streams a browser may open, each once
          Batch,              \* the branches of one dispatch, in order
          SendLimit, RunLimit, BatchLimit,   \* concurrent streams per actor
          ClientStatus,       \* the statuses of the turns the browser posts itself
          Mixes               \* bounds of a behaviour: the streams opened together
                              \* (streams), the deltas Serving sends in each (deltas),
                              \* the turns the browser posts (turns), what else befalls
                              \* conversations and turns (fates), the stops (stops)

Fate == {"archive", "unarchive", "delete", "expire", "advance"}

Branches == {Batch[i] : i \in DOMAIN Batch}
Advanced == Runs \cup Branches
Streams == Sends \cup Advanced

ASSUME StreamAssumption ==
    /\ Sends \cap Advanced = {} /\ Runs \cap Branches = {} /\ Client \notin Streams
    /\ Writer = Streams \cup {Client} /\ Request = Streams /\ Thread = Conv
    /\ Batch \in Seq(Branches) /\ Len(Batch) >= 2
    /\ \A i, j \in DOMAIN Batch : i # j => Batch[i] # Batch[j]
    /\ \A mix \in Mixes : /\ mix.streams \subseteq Streams
                          /\ mix.deltas \in Nat /\ mix.turns \in Nat /\ mix.stops \in Nat
                          /\ mix.fates \subseteq Fate
    /\ SendLimit \in Nat /\ RunLimit \in Nat /\ BatchLimit \in Nat
    /\ ClientStatus \subseteq TurnStatus /\ Conv # {}

VARIABLES bound,     \* the mix this behaviour is bounded by
          hub,       \* "up" or "down"
          stops,     \* stops of the hub so far
          task,      \* the coroutine of each stream
          thread,    \* its frame pull
          home,      \* the conversation it was opened on
          lineage,   \* the place the send read for its user turn
          base,      \* the turn it wrote when it was opened (0 before)
          seq,       \* the last sequence number it drew
          deltas,    \* the deltas its relay has yielded
          outcome,   \* relay.outcome
          token,     \* its CancellationToken
          verdict,   \* the turn status its attempt or its finalizer settled on
          slots      \* active streams per router

loopVars == <<task, thread, home, lineage, base, seq, deltas, outcome, token, verdict, slots>>
vars == <<convVars, respVars, bound, hub, stops, loopVars>>

Router == {"send", "run", "batch"}
RouterOf(s) == IF s \in Sends THEN "send" ELSE IF s \in Runs THEN "run" ELSE "batch"
Limit(r) == CASE r = "send" -> SendLimit [] r = "run" -> RunLimit [] r = "batch" -> BatchLimit

\* The streams that share one response body and one slot with s.
Group(s) == IF s \in Branches THEN Branches ELSE {s}

TaskState == {"unused", "idle", "read", "forked", "ready", "announced", "pulling",
              "answering", "leaving", "settling", "over", "left", "lost", "dead"}
Executing == {"entered", "reading", "drawnDelta", "drawnTerminal"}
ThreadState == {"none", "queued", "gotDelta", "gotTerminal", "closed"} \cup Executing
StreamOutcome == {"completed", "cancelled", "timed_out", "serving_unavailable"}

\* A coroutine in the middle of a section without an await keeps the loop.
LoopFree == \A s \in Streams : task[s] \notin {"read", "forked", "answering", "settling"}

Ended == {"over", "left", "dead"}
\* A stream takes a slot when it is opened.  It is at work, or it is lost: its body never
\* started, and what would give its slot back never runs.
Holding(s) == task[s] \notin Ended \cup {"unused", "idle"}
Lost(s) == task[s] = "lost"
AtWork(s) == Holding(s) /\ ~Lost(s)

\* Mutant: the lifecycle state of a timeout is written to the turn.
MutantTurnStatusFor(o) ==
    CASE o = "completed" -> "complete"
      [] o \in {"cancelled", "timed_out"} -> o
      [] o = "serving_unavailable" -> "failed"

\* terminal_turn_status and LIFECYCLE_STATE_FOR_OUTCOME.
TurnStatusFor(o) ==
    CASE o = "completed" -> "complete"
      [] o = "cancelled" -> "cancelled"
      [] o = "timed_out" -> "interrupted"
      [] o = "serving_unavailable" -> "failed"
LifecycleFor(o) == IF o = "serving_unavailable" THEN "interrupted" ELSE o

\* _partial_settlement: a completion that was not delivered is not one.
PartialOutcome(o) == IF o \in {"cancelled", "timed_out", "serving_unavailable"} THEN o ELSE "cancelled"

Acquire(r) == slots[r] < Limit(r) /\ slots' = [slots EXCEPT ![r] = @ + 1]
Release(r) == slots' = [slots EXCEPT ![r] = IF @ = 0 THEN 0 ELSE @ - 1]

\* Mutant: every branch of a batch gives the slot back.
MutantFinish(s, how) ==
    /\ task' = [task EXCEPT ![s] = how]
    /\ Release(RouterOf(s))

\* The coroutine of s ends; the slot goes with the last one of its group.
Finish(s, how) ==
    /\ task' = [task EXCEPT ![s] = how]
    /\ IF \A b \in Group(s) \ {s} : task[b] \in Ended THEN Release(RouterOf(s))
                                                      ELSE UNCHANGED slots

Readable(c) == conv[c] \in {"active", "archived", "deleted"}

----------------------------------------------------------------------------
(* POST /send, up to the response body.                                    *)

\* Where a send appends: a child of the last turn of the history it read.
SendLineage(c) == [parent |-> Tip(c), idx |-> NextSibling(c, Tip(c))]

\* Ownership read and slot; the place of the user turn is computed from it.
SendReads(s, c) ==
    /\ task[s] = "idle" /\ s \in Sends /\ LoopFree
    /\ Readable(c)
    /\ Acquire("send")
    /\ task' = [task EXCEPT ![s] = "read"]
    /\ home' = [home EXCEPT ![s] = c]
    /\ lineage' = [lineage EXCEPT ![s] = SendLineage(c)]
    /\ UNCHANGED <<convVars, respVars, thread, base, seq, deltas, outcome, token, verdict>>

\* The user turn and the response record, or a refusal that frees the slot.
SendWrites(s) ==
    LET c == home[s]
        at == lineage[s]
    IN  /\ task[s] = "read"
        /\ IF AppendAllowed(c, at.parent, at.idx)
           THEN /\ AppendTurn(c, at.parent, at.idx, "user", "complete", s)
                /\ Begin(s)
                /\ base' = [base EXCEPT ![s] = Len(turns) + 1]
                /\ task' = [task EXCEPT ![s] = "ready"]
                /\ UNCHANGED slots
           ELSE /\ Finish(s, "over")
                /\ UNCHANGED <<convVars, respVars, base>>
        /\ UNCHANGED <<thread, home, lineage, seq, deltas, outcome, token, verdict>>

----------------------------------------------------------------------------
(* POST /advanced/run and /advanced/dispatch, up to the response body.     *)

RunForks(s, c, p) ==
    /\ task[s] = "idle" /\ s \in Runs /\ LoopFree
    /\ BranchTurn(c, p, "assistant", "streaming", s)
    /\ Acquire("run")
    /\ task' = [task EXCEPT ![s] = "ready"]
    /\ home' = [home EXCEPT ![s] = c]
    /\ base' = [base EXCEPT ![s] = Len(turns) + 1]
    /\ UNCHANGED <<respVars, thread, lineage, seq, deltas, outcome, token, verdict>>

DispatchStarts(c, p) ==
    LET s == Batch[1]
    IN  /\ task[s] = "idle" /\ LoopFree
        /\ BranchTurn(c, p, "assistant", "streaming", s)
        /\ Acquire("batch")
        /\ task' = [task EXCEPT ![s] = "forked"]
        /\ home' = [b \in Streams |-> IF b \in Branches THEN c ELSE home[b]]
        /\ base' = [base EXCEPT ![s] = Len(turns) + 1]
        /\ UNCHANGED <<respVars, thread, lineage, seq, deltas, outcome, token, verdict>>

\* The next fork of the batch, under the same parent.
DispatchForks(i) ==
    LET s == Batch[i]
        p == turns[base[Batch[1]]].parent
    IN  /\ i > 1 /\ task[Batch[i - 1]] = "forked" /\ task[s] = "idle"
        /\ BranchTurn(home[s], p, "assistant", "streaming", s)
        /\ base' = [base EXCEPT ![s] = Len(turns) + 1]
        /\ task' = IF i < Len(Batch)
                   THEN [task EXCEPT ![s] = "forked"]
                   ELSE [b \in Streams |-> IF b \in Branches THEN "ready" ELSE task[b]]
        /\ UNCHANGED <<respVars, thread, home, lineage, seq, deltas, outcome, token, verdict, slots>>

\* A refused fork: the branches already forked settle failed, the batch is over.
DispatchForkFails(i) ==
    LET p == turns[base[Batch[1]]].parent
        forked == {base[Batch[j]] : j \in 1 .. i - 1}
    IN  /\ i > 1 /\ task[Batch[i - 1]] = "forked" /\ task[Batch[i]] = "idle"
        /\ ~(p \in OwnTurns(home[Batch[i]])
             /\ AppendAllowed(home[Batch[i]], p, NextSibling(home[Batch[i]], p)))
        /\ turns' = [t \in DOMAIN turns |->
                        IF t \in forked /\ MayAdvance(t) THEN [turns[t] EXCEPT !.status = "failed"]
                                                         ELSE turns[t]]
        /\ task' = [b \in Streams |-> IF b \in Branches THEN "over" ELSE task[b]]
        /\ Release("batch")
        /\ UNCHANGED <<conv, respVars, thread, home, lineage, base, seq, deltas, outcome, token, verdict>>

----------------------------------------------------------------------------
(* The response body starts, or the client is gone before it does: then the *)
(* server never runs the body, and so none of its finally clauses, which    *)
(* also give the slot back.                                                 *)

SetTasks(S, state) == task' = [b \in Streams |-> IF b \in S THEN state ELSE task[b]]
Queue(S) == thread' = [b \in Streams |-> IF b \in S THEN "queued" ELSE thread[b]]

BodyStarts(s) ==
    /\ task[s] = "ready" /\ LoopFree
    /\ IF s \in Branches THEN SetTasks(Branches, "announced") /\ UNCHANGED thread
                         ELSE SetTasks({s}, "pulling") /\ Queue({s})
    /\ UNCHANGED <<convVars, respVars, home, lineage, base, seq, deltas, outcome, token, verdict, slots>>

BodyNeverStarts(s) ==
    /\ task[s] = "ready" /\ LoopFree
    /\ SetTasks(Group(s), "lost")
    /\ UNCHANGED <<convVars, respVars, thread, home, lineage, base, seq, deltas, outcome, token, verdict, slots>>

\* The announce frame was taken: the task group starts one task per branch.
BranchesStart ==
    /\ LoopFree /\ \E b \in Branches : task[b] = "announced"
    /\ SetTasks(Branches, "pulling") /\ Queue(Branches)
    /\ UNCHANGED <<convVars, respVars, home, lineage, base, seq, deltas, outcome, token, verdict, slots>>

\* The client leaves at the announce frame, outside the task group: only the
\* outermost finally runs.
LeaveAtAnnounce ==
    /\ LoopFree /\ \E b \in Branches : task[b] = "announced"
    /\ SetTasks(Branches, "left")
    /\ Release("batch")
    /\ UNCHANGED <<convVars, respVars, thread, home, lineage, base, seq, deltas, outcome, token, verdict>>

----------------------------------------------------------------------------
(* The pulling thread: ChatStreamRelay.stream, sequence_events and, for an  *)
(* advanced stream, stream_advanced_attempt around it.                      *)

ThreadEnters(s) ==
    /\ thread[s] = "queued"
    /\ thread' = [thread EXCEPT ![s] =
                     IF resp[s].state = "absent" THEN "entered" ELSE "reading"]
    /\ UNCHANGED <<convVars, respVars, task, home, lineage, base, seq, deltas, outcome, token, verdict, slots>>

\* _prepare_advanced_stream, on the first pull.
ThreadBegins(s) ==
    /\ thread[s] = "entered"
    /\ Begin(s)
    /\ thread' = [thread EXCEPT ![s] = "reading"]
    /\ UNCHANGED <<convVars, task, home, lineage, base, seq, deltas, outcome, token, verdict, slots>>

\* One round of the relay: a tripped token wins over whatever frame Serving sent,
\* an error of the read over the token.  The same thread stamps the frame: a send
\* with its own stream's next number, an attempt with the conversation's.
ThreadReads(s) ==
    /\ thread[s] = "reading"
    /\ \/ /\ ~token[s] /\ deltas[s] < bound.deltas
          /\ deltas' = [deltas EXCEPT ![s] = @ + 1]
          /\ thread' = [thread EXCEPT ![s] = IF s \in Sends THEN "gotDelta" ELSE "drawnDelta"]
          /\ UNCHANGED outcome
       \/ /\ \E o \in StreamOutcome :
                /\ IF token[s] THEN o # "completed" ELSE o # "cancelled"
                /\ outcome' = [outcome EXCEPT ![s] = o]
          /\ thread' = [thread EXCEPT ![s] = IF s \in Sends THEN "gotTerminal" ELSE "drawnTerminal"]
          /\ UNCHANGED deltas
    /\ IF s \in Sends
       THEN seq' = [seq EXCEPT ![s] = @ + 1] /\ UNCHANGED respVars
       ELSE seq' = [seq EXCEPT ![s] = convSeq[home[s]] + 1] /\ DrawSeq(home[s])
    /\ UNCHANGED <<convVars, task, home, lineage, base, token, verdict, slots>>

\* Its heartbeat.  Only an abandoned attempt is refused: the error ends it.
ThreadCommits(s) ==
    /\ thread[s] = "drawnDelta"
    /\ IF MayCommit(s, seq[s])
       THEN Advance(s, home[s], "in_progress", seq[s]) /\ thread' = [thread EXCEPT ![s] = "gotDelta"]
       ELSE UNCHANGED respVars /\ thread' = [thread EXCEPT ![s] = "closed"]
    /\ UNCHANGED <<convVars, task, home, lineage, base, seq, deltas, outcome, token, verdict, slots>>

\* _settle_advanced_attempt: a completion may still be refined to one whose
\* output is not the JSON asked for.
ThreadSettles(s) ==
    /\ thread[s] = "drawnTerminal"
    /\ \E valid \in BOOLEAN :
          LET invalid == ~valid /\ outcome[s] = "completed"
              state == IF invalid THEN "interrupted" ELSE LifecycleFor(outcome[s])
              status == IF invalid THEN "failed" ELSE TurnStatusFor(outcome[s])
          IN  IF MayCommit(s, seq[s])
              THEN /\ Advance(s, home[s], state, seq[s])
                   /\ verdict' = [verdict EXCEPT ![s] = status]
                   /\ thread' = [thread EXCEPT ![s] = "gotTerminal"]
              ELSE /\ UNCHANGED <<respVars, verdict>>
                   /\ thread' = [thread EXCEPT ![s] = "closed"]
    /\ UNCHANGED <<convVars, task, home, lineage, base, seq, deltas, outcome, token, slots>>

----------------------------------------------------------------------------
(* The coroutine of a body, frame by frame.                                *)

\* A delta: a send commits its number here, an attempt has done so already.
YieldsDelta(s) ==
    /\ task[s] = "pulling" /\ thread[s] = "gotDelta" /\ LoopFree
    /\ IF s \in Sends THEN Advance(s, home[s], "in_progress", seq[s])
                      ELSE UNCHANGED respVars
    /\ thread' = [thread EXCEPT ![s] = "queued"]
    /\ UNCHANGED <<convVars, task, home, lineage, base, seq, deltas, outcome, token, verdict, slots>>

\* The terminal of a send: the assistant turn first ...
PersistAnswer(s) ==
    /\ task[s] = "pulling" /\ thread[s] = "gotTerminal" /\ s \in Sends /\ LoopFree
    /\ AppendTurn(home[s], base[s], 0, "assistant", TurnStatusFor(outcome[s]), s)
    /\ task' = [task EXCEPT ![s] = "answering"]
    /\ UNCHANGED <<respVars, thread, home, lineage, base, seq, deltas, outcome, token, verdict, slots>>

\* Mutant: the response is completed although its turn was refused.
MutantPersistFails(s) ==
    /\ task[s] = "pulling" /\ thread[s] = "gotTerminal" /\ s \in Sends /\ LoopFree
    /\ ~AppendAllowed(home[s], base[s], 0)
    /\ Advance(s, home[s], LifecycleFor(outcome[s]), seq[s])
    /\ Finish(s, "over")
    /\ UNCHANGED <<convVars, thread, home, lineage, base, seq, deltas, outcome, token, verdict>>

\* ... or, when the store refuses it, an interrupted response without one ...
PersistFails(s) ==
    /\ task[s] = "pulling" /\ thread[s] = "gotTerminal" /\ s \in Sends /\ LoopFree
    /\ ~AppendAllowed(home[s], base[s], 0)
    /\ Advance(s, home[s], LifecycleFor("serving_unavailable"), seq[s])
    /\ Finish(s, "over")
    /\ UNCHANGED <<convVars, thread, home, lineage, base, seq, deltas, outcome, token, verdict>>

\* ... and the response second.
CommitAnswer(s) ==
    /\ task[s] = "answering"
    /\ Advance(s, home[s], LifecycleFor(outcome[s]), seq[s])
    /\ Finish(s, "over")
    /\ UNCHANGED <<convVars, thread, home, lineage, base, seq, deltas, outcome, token, verdict>>

\* The result of an advanced attempt.  When the turn refuses it (the browser
\* settled the turn, or deleted the conversation) the finally clause finds the
\* response and the turn terminal and changes neither.
FinishAttempt(s) ==
    /\ task[s] = "pulling" /\ thread[s] = "gotTerminal" /\ s \in Advanced /\ LoopFree
    /\ IF MayAdvance(base[s]) THEN AdvanceTurn(base[s], verdict[s]) ELSE UNCHANGED convVars
    /\ Finish(s, "over")
    /\ UNCHANGED <<respVars, thread, home, lineage, base, seq, deltas, outcome, token, verdict>>

----------------------------------------------------------------------------
(* The client leaves while frames are pulled.  The await is cancelled at    *)
(* once; the finally clause trips the token, closes the generator (which    *)
(* only works when no thread is running it), settles the response and then  *)
(* the turn.                                                                *)

ClientLeaves(s) ==
    /\ task[s] = "pulling" /\ LoopFree
    /\ task' = [b \in Streams |->
                   IF b \in Group(s) /\ task[b] = "pulling" THEN "leaving" ELSE task[b]]
    /\ UNCHANGED <<convVars, respVars, thread, home, lineage, base, seq, deltas, outcome, token, verdict, slots>>

\* Mutant: the tail of the closed generator is trusted to settle the response.
MutantSettleResponse(s) ==
    /\ task[s] = "leaving" /\ LoopFree
    /\ token' = [token EXCEPT ![s] = TRUE]
    /\ thread' = [thread EXCEPT ![s] = IF @ \in Executing THEN @ ELSE "closed"]
    /\ verdict' = [verdict EXCEPT ![s] = TurnStatusFor(PartialOutcome(outcome[s]))]
    /\ task' = [task EXCEPT ![s] = "settling"]
    /\ UNCHANGED <<convVars, respVars, home, lineage, base, seq, deltas, outcome, slots>>

SettleResponse(s) ==
    /\ task[s] = "leaving" /\ LoopFree
    /\ token' = [token EXCEPT ![s] = TRUE]
    /\ thread' = [thread EXCEPT ![s] = IF @ \in Executing THEN @ ELSE "closed"]
    /\ IF s \in Sends
       THEN LET o == PartialOutcome(outcome[s])
            IN  /\ IF MayCommit(s, seq[s] + 1)
                   THEN Advance(s, home[s], LifecycleFor(o), seq[s] + 1)
                   ELSE UNCHANGED respVars
                /\ verdict' = [verdict EXCEPT ![s] = TurnStatusFor(o)]
                /\ seq' = [seq EXCEPT ![s] = @ + 1]
       ELSE /\ IF resp[s].state = "in_progress" THEN AdvanceUnnumbered(s, "cancelled")
                                                ELSE UNCHANGED respVars
            /\ UNCHANGED <<verdict, seq>>
    /\ task' = [task EXCEPT ![s] = "settling"]
    /\ UNCHANGED <<convVars, home, lineage, base, deltas, outcome, slots>>

SettleTurn(s) ==
    /\ task[s] = "settling"
    /\ IF s \in Sends
       THEN IF AppendAllowed(home[s], base[s], 0)
            THEN AppendTurn(home[s], base[s], 0, "assistant", verdict[s], s)
            ELSE UNCHANGED convVars
       ELSE IF MayAdvance(base[s]) THEN AdvanceTurn(base[s], "cancelled")
                                   ELSE UNCHANGED convVars
    /\ Finish(s, "left")
    /\ UNCHANGED <<respVars, thread, home, lineage, base, seq, deltas, outcome, token, verdict>>

----------------------------------------------------------------------------
(* The browser's other requests, each one store call in a pool thread.      *)

ClientTurns == {t \in DOMAIN turns : turns[t].by = Client}
ClientHasRoom == Cardinality(ClientTurns) < bound.turns

ClientAppends(c, p, i, status) ==
    ClientHasRoom /\ AppendTurn(c, p, i, "user", status, Client)

ClientBranches(c, p, status) ==
    ClientHasRoom /\ BranchTurn(c, p, "user", status, Client)

ClientRetries(c, t, status) ==
    ClientHasRoom /\ RetryTurn(c, t, "user", status, Client)

ClientStep ==
    /\ \E c \in Conv :
          \/ CreateConversation(c)
          \/ "archive" \in bound.fates /\ ArchiveConversation(c)
          \/ "unarchive" \in bound.fates /\ UnarchiveConversation(c)
          \/ /\ "delete" \in bound.fates
             /\ \E mode \in {"tombstone", "erase"} : DeleteConversation(c, mode)
          \/ \E status \in ClientStatus :
                \/ \E p \in {Root} \cup OwnTurns(c), i \in 0 .. 1 : ClientAppends(c, p, i, status)
                \/ \E p \in OwnTurns(c) : ClientBranches(c, p, status)
                \/ \E t \in OwnTurns(c) : ClientRetries(c, t, status)
                \/ /\ "advance" \in bound.fates /\ status # "streaming"
                   /\ \E t \in OwnTurns(c) : AdvanceTurn(t, status)
    /\ UNCHANGED <<respVars, bound, hub, stops, loopVars>>

RetentionStep ==
    /\ "expire" \in bound.fates
    /\ \E E \in SUBSET Conv : EnforceRetention(E)
    /\ UNCHANGED <<respVars, bound, hub, stops, loopVars>>

----------------------------------------------------------------------------
(* The hub stops, between two store calls or inside a deletion, and is      *)
(* opened again over the same rows.                                         *)

Stops ==
    /\ stops < bound.stops /\ stops' = stops + 1
    /\ hub' = "down"
    /\ task' = [s \in Streams |-> IF Holding(s) THEN "dead" ELSE task[s]]
    /\ thread' = [s \in Streams |-> "closed"]
    /\ slots' = [r \in Router |-> 0]
    /\ UNCHANGED <<respVars, bound, home, lineage, base, seq, deltas, outcome, token, verdict>>

HubStops == Stops /\ UNCHANGED convVars

HubStopsInDeletion ==
    /\ \E c \in Conv, mode \in {"tombstone", "erase"}, last \in 0 .. MaxTurns :
          DeletionCutShort(c, mode, last)
    /\ Stops

HubOpens ==
    /\ hub = "down" /\ hub' = "up"
    /\ RecoverConversations
    /\ RecoverResponses
    /\ UNCHANGED <<bound, stops, loopVars>>

----------------------------------------------------------------------------

ThreadStep(s) ==
    \/ ThreadEnters(s) \/ ThreadBegins(s) \/ ThreadReads(s)
    \/ ThreadCommits(s) \/ ThreadSettles(s)

OpenStep(s) ==
    \/ \E c \in Conv : SendReads(s, c)
    \/ \E c \in Conv : \E p \in OwnTurns(c) : RunForks(s, c, p)

DispatchStep ==
    \/ \E c \in Conv : \E p \in OwnTurns(c) : DispatchStarts(c, p)
    \/ \E i \in DOMAIN Batch : DispatchForks(i) \/ DispatchForkFails(i)

LeaveStep(s) == BodyNeverStarts(s) \/ ClientLeaves(s)

\* What the event loop runs on without anyone's doing.
LoopStep(s) ==
    \/ SendWrites(s) \/ BodyStarts(s) \/ YieldsDelta(s)
    \/ PersistAnswer(s) \/ PersistFails(s) \/ CommitAnswer(s) \/ FinishAttempt(s)
    \/ SettleResponse(s) \/ SettleTurn(s)

Next ==
    \/ /\ hub = "up"
       /\ \/ ClientStep
          \/ RetentionStep
          \/ /\ \/ \E s \in Streams : OpenStep(s) \/ ThreadStep(s) \/ LeaveStep(s) \/ LoopStep(s)
                \/ DispatchStep \/ BranchesStart \/ LeaveAtAnnounce
             /\ UNCHANGED <<bound, hub, stops>>
          \/ HubStops
          \/ HubStopsInDeletion
    \/ HubOpens

Init ==
    /\ ConversationsInit
    /\ ResponsesInit
    /\ hub = "up" /\ stops = 0
    /\ bound \in Mixes
    /\ task = [s \in Streams |-> IF s \in bound.streams THEN "idle" ELSE "unused"]
    /\ thread = [s \in Streams |-> "none"]
    /\ home = [s \in Streams |-> CHOOSE c \in Conv : TRUE]
    /\ lineage = [s \in Streams |-> [parent |-> Root, idx |-> 0]]
    /\ base = [s \in Streams |-> Root]
    /\ seq = [s \in Streams |-> 0]
    /\ deltas = [s \in Streams |-> 0]
    /\ outcome = [s \in Streams |-> "none"]
    /\ token = [s \in Streams |-> FALSE]
    /\ verdict = [s \in Streams |-> "none"]
    /\ slots = [r \in Router |-> 0]

\* A coroutine that can run and a thread that can run do run; a stopped hub is
\* started again; nothing is assumed of the browser, of retention or of when
\* the response bodies start.
Fairness ==
    /\ \A s \in Streams :
          /\ WF_vars(hub = "up" /\ ThreadStep(s) /\ UNCHANGED <<bound, hub, stops>>)
          /\ WF_vars(hub = "up" /\ LoopStep(s) /\ UNCHANGED <<bound, hub, stops>>)
    /\ WF_vars(HubOpens)

Spec == Init /\ [][Next]_vars
FairSpec == Spec /\ Fairness

----------------------------------------------------------------------------
(* What the two stores and the streams together promise.                    *)

ChatTypeOK ==
    /\ ConversationsTypeOK
    /\ ResponsesTypeOK
    /\ bound \in Mixes /\ hub \in {"up", "down"} /\ stops \in Nat
    /\ task \in [Streams -> TaskState]
    /\ thread \in [Streams -> ThreadState]
    /\ home \in [Streams -> Conv]
    /\ lineage \in [Streams -> [parent : 0 .. MaxTurns, idx : Nat]]
    /\ base \in [Streams -> 0 .. MaxTurns]
    /\ seq \in [Streams -> Nat] /\ deltas \in [Streams -> Nat]
    /\ outcome \in [Streams -> StreamOutcome \cup {"none"}]
    /\ token \in [Streams -> BOOLEAN]
    /\ verdict \in [Streams -> TerminalTurnStatus \cup {"none"}]
    /\ slots \in [Router -> Nat]

Answers(s) == {t \in DOMAIN turns : turns[t].by = s /\ turns[t].role = "assistant"}

\* A reconnecting client that reads "completed" for a send finds its answer: the
\* complete assistant turn is stored before the response is completed, and a
\* refused store, a disconnect or a stop of the hub in between never leaves the
\* one without the other; and no send ever has two answers.
CompletedIsPersisted ==
    \A s \in Sends :
        /\ Cardinality(Answers(s)) <= 1
        /\ resp[s].state = "completed" =>
              \E t \in Answers(s) : turns[t].status = "complete" /\ turns[t].parent = base[s]

\* A send whose client left before it took the terminal is never recorded as a
\* completed answer, even when the abandoned thread reads the completion.
LeftSendsNeverComplete ==
    \A s \in Sends :
        task[s] = "left" =>
            /\ resp[s].state \notin {"in_progress", "completed"}
            /\ \A t \in Answers(s) : turns[t].status # "complete"

\* "completed" is said of a send exactly when its answer was stored and delivered.
CompletedMeansDelivered == CompletedIsPersisted /\ LeftSendsNeverComplete

\* A frame in the hands of a stream that is still connected is never refused as
\* stale, though the streams of a conversation share one high-water mark.
FramesAreFresh ==
    \A s \in Streams :
        /\ task[s] = "pulling"
        /\ \/ thread[s] \in {"drawnDelta", "drawnTerminal"}
           \/ s \in Sends /\ thread[s] \in {"gotDelta", "gotTerminal"}
        => MayCommit(s, seq[s])

\* The counters that bound an actor's streams are the streams at work and those that were
\* lost: a refusal, a failed fork, the end of a body or the last of a batch's branches
\* gives back one slot, once.  A body that never starts is the one way out that gives none
\* back, and its slot stays counted until the hub restarts.
SlotsTruthful ==
    /\ slots["send"] = Cardinality({s \in Sends : AtWork(s)}) + Cardinality({s \in Sends : Lost(s)})
    /\ slots["run"] = Cardinality({s \in Runs : AtWork(s)}) + Cardinality({s \in Runs : Lost(s)})
    /\ slots["batch"] = IF \E b \in Branches : AtWork(b) \/ Lost(b) THEN 1 ELSE 0

\* What the limits are for, "concurrent live-stream ceiling" (conversation_api.py:844-847):
\* an actor with no stream at work has every slot.  A lost stream breaks this.
IdleActorHasSlots ==
    (\A s \in Streams : ~AtWork(s)) => \A r \in Router : slots[r] = 0

\* A reader of a response, or of a turn, sees it settle once and for all.
Responses == INSTANCE SettleOnce WITH
    Item <- Request, Outcome <- TerminalState,
    phase <- [r \in Request |-> IF resp[r].state = "absent" THEN "none"
                               ELSE IF resp[r].state = "in_progress" THEN "open"
                               ELSE resp[r].state]

Turns == INSTANCE SettleOnce WITH
    Item <- 1 .. MaxTurns, Outcome <- TerminalTurnStatus,
    phase <- [t \in 1 .. MaxTurns |-> IF t > Len(turns) THEN "none"
                                     ELSE IF turns[t].status = "streaming" THEN "open"
                                     ELSE turns[t].status]

SettlesOnce == Responses!Spec /\ Turns!Spec

\* Every stream that started comes to an end, with nothing left streaming: not
\* its coroutine, not the response a reconnecting client polls, not its turn.
Settled(s) ==
    /\ task[s] \in Ended
    /\ resp[s].state # "in_progress"
    /\ \A t \in DOMAIN turns : turns[t].by = s => turns[t].status # "streaming"

StartedStreamsSettle == \A s \in Streams : task[s] = "pulling" ~> Settled(s)

\* What the dispatch endpoint says of a disconnect: no branch is left streaming
\* once the client is gone.
DisconnectSettlesAll ==
    hub = "up" => \A s \in Branches : task[s] = "left" => turns[base[s]].status # "streaming"
============================================================================
