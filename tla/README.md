# Anvil Workbench: TLA+ models, checks and proofs

Anvil Workbench is a private hub that supervises AI coding deliveries. Operators
use it through an HTTP API. It keeps its own state in PostgreSQL or in memory, queues
work for a local *bridge* daemon that holds the worktree and the GitHub login, and serves
a chat, a playground and a settings UI. This directory holds TLA+ models of the parts of
the program where state and order matter, the TLC runs that check them on small instances,
and TLAPS proofs for the properties that should hold at any size.

`PROJECT.json` maps every definition to the lines it models, lists the hazards each
property is for, and names for every property a mutant of the code it catches.
Paths below are relative to the repository; `workbench/` is the Python package.

## 1. Inventory

### Delivery

| component | state | operations | what makes it correct |
|---|---|---|---|
| workflow definitions, `workflows.py` | none (pure) | `validate_definition`, `advance_cursor`, `resolve_operation` | accepted graphs end; joins wait; no branch is lost |
| sessions and workflows, `store.py` | status, cursor, pinned definition, version | create, revise, start with run, finish step | a draft is started once; a started workflow is pinned; run and workflow agree |
| worktree leases, `store.py` | holder, epoch, expiry per worktree | fence at start, validate, renew, release | epochs are unique fencing tokens; a lost fence stays lost |
| runs, approvals, command queue, `store.py` | status and epoch; binding and expiry; one row per command with a delivery lease | create, update, finalize, approve, consume, complete merge, enqueue, fetch, acknowledge | no session run is stranded; grants are one-time and spent under their fence; only granted actions are offered |
| directives, `directives.py`, event log of `store.py` | per-session log of directives and packet markers | submit, start, queue a further run, view | shown as included means carried |
| hub API, `api.py` | none of its own | endpoints: one or more store calls each | survives stopping between two of them |
| bridge daemon, `bridge.py` | where `poll_once` is, the heartbeat thread, what GitHub and State have seen | poll, run Codex, verify, submit, consume, act, settle, reconcile; preflight of typed operations | effects are granted and done once; shown states are earned |

### Chat

| component | state | operations | what makes it correct |
|---|---|---|---|
| conversations, `conversation_store.py`, `conversation_models.py` | conversations and their turns | create, append, branch, advance, archive, delete and purge, retention, recovery | histories are readable trees; deleted is final |
| response lifecycle, `response_lifecycle_store.py`, `stream_sequence.py` | per response a state and a version, a high-water mark of frames | begin, advance, cancel, recover | one terminal state; live frames are never stale |
| streaming endpoints, `conversation_api.py`, `chat_stream.py`, `advanced_runtime.py` | a coroutine and a puller thread per stream, slot counters | send, advanced run, dispatch of several branches, disconnect | answers and responses agree; everything settles; slots count the streams at work and those lost before their body ran |
| transfers, `conversation_transfer.py` | an artifact in its owner's hands | export, import turn by turn, rollback | imports are whole or leave nothing |
| tools, `tool_dispatch.py` | budget counters, reservations, session pins | preview, dispatch | ceiling and grants hold under concurrent calls |
| plugins, `plugin_host.py`, `capability_profiles.py` | validated documents, install receipts | discover, install, list | what runs is what was reviewed |

### Settings, once-only stores and displays

| component | state | operations | what makes it correct |
|---|---|---|---|
| preferences, `preference_store.py`, `configuration_transfer.py`, `plugin_preference_store.py` | versioned values per scope | set, reset, import, scoped reset, resolve | stale saves are refused; served values fit what is declared now |
| receipts and the policy gate, `operation_store.py`, `preference_gates.py` | receipts, reconciliation records, one-time approvals | grant, consume, record an attempt, apply | an effect happens once; a success receipt means an effect of the provider it names |
| idempotency and Deliver, `idempotency_store.py`, `deliver.py` | responses by key; starts by task | run, start | a key runs once, whoever retries |
| pins, `provider_catalogs.py`, `workflow_snapshot.py`, `run_context_store.py` | published catalogs, compiled snapshots, captured contexts | load, pin, compile, check drift, capture, resolve | an effect keeps the pins of its run |
| playground, `advanced_routes.py`, `advanced_playground.py` | presets, templates, ratings in memory | select, store, resolve, repair | the validators agree on a selection and on a pin |
| display records, `delivery_projection.py`, `project_context*.py` | references, verdicts, rows, projections | capture, publish, read | a start goes by a current verdict; history is kept |
| State reads, `state_manifest.py`, `state_snapshot_adapter.py`, `prd_content_adapter.py`, `projection_seed.py` | a seed directory | pin, read, write, load | a loadable seed is one snapshot |

The parts meet in four ways. An operator's request is a short sequence of store calls, and
each call is a transaction or holds the store's lock. The bridge polls: every answer it
gets is old when it acts on it, and its heartbeat thread talks to it through a list. A
streaming endpoint is a coroutine of one event loop that pulls frames in pool threads,
beside other requests in threads of their own. State, GitHub, model routes and tool hosts
are outside; the code learns an exit code or an answer from them.

What is hard: a worktree that changes hands under a queued command; answers lost after the
commit; commands and requests that come again; a daemon or hub that stops between two calls;
a grant that expires between fetch and effect; threads that outlive the coroutine that
started them; values read before and used after another writer; documents redeployed
between a preview and the call it was for; snapshots that arrive in another order than they
were made; a generator that stops half way.

## 2. Plan and where it stands

1. `WorkflowGraph`, `WorkflowCursor`, `Delivery`, `BridgeLoop`, with `WorkflowCursorProofs`,
   `DeliveryProofs`, `DeliveryGrantProofs`, `BridgeLoopProofs`: done.
2. `OnceEffect` (abstract), `OperationReceipts`, `ToolDispatch`, `Preferences`, `PolicyGate`,
   `OnceStores`, `Directives`, with `ToolDispatchProofs` and `RecordProofs`: done.
3. `SettleOnce` (abstract), `Conversations`, `ResponseLifecycle`, `ChatStreams`, with
   `ConversationProofs`: done.
4. `Plugins`, `EffectiveSettings`, `Transfers`, with `RecordProofs` and
   `ConversationProofs`: done.
5. `WorkflowPins`, `AdvancedPlayground`, `Validators`, `DeliveryProjection`,
   `ProjectionSeed`, with `DisplayProofs`: done.
6. `Records` and `Displays`, the compositions of the parts that share no store, with the
   type theorems of both: done.

Next, in this order: the lifetime of a voice relay; the state-event cursor of the bridge; a
theorem for each exception the properties name (how many directives a packet can lose).

## 3. The modules

### Delivery

**`WorkflowGraph`.** A definition is a record `[entry, kind, next, skills]`.
`ValidDefinition` is the graph part of `validate_definition`; `CanReach`, `AdvanceCursor`
and `CursorStatus` are `_can_reach`, `advance_cursor` and the status expression of
`complete_workflow_step`. `CanReach` is stated with closed sets instead of a search, so that
no recursion stands in the way of proofs. The cursor is a set: it has no repetition in the
code and nothing depends on its order.

**`WorkflowCursor`.** One workflow alone, over all graphs the validator accepts, with a
history variable `finished`. `Delivery` uses the same operators on one or two templates.

**`Delivery`.** Every action is one store transaction of `PostgresStore` with its whole
effect: the finalizer, for example, moves the run, the workflow and the lease and deletes
the command together. A session names its workflow, its run and that run's command, because
through the API a session has one workflow and a workflow starts once. An approval names
its command. A worktree lease is `[holder, epoch, ticks]`: `ticks` counts down with
`LeaseTick` and 0 means `expires_at` has passed; fencing and renewing set it to
`LeaseTicks`. `command[c].ahead` holds the commands created before `c` in its queue, which
is what `ORDER BY created_at` looks at. `handler` is the open half of a two-transaction
endpoint: `HubCrash` empties it. The bridge actions can be called by any registered bridge at
any time, in any order, with any run: the invariants of this module do not rely on what a
bridge does.

**`BridgeLoop`.** `daemon[b]` is the position of `poll_once`, its command and its heartbeat.
A hub request is a step that takes the corresponding `Delivery` action, or is refused
because that action is not enabled, takes effect but is answered with an error because the
hub's event or audit row failed after the commit (`FailsAfterCommit`), or is not delivered
(`Undelivered`); the last three are a `BridgeError`.
A lost *answer* is the committed request followed by `Crash`: a read error of `urlopen` is not
a `URLError`, so it is no `BridgeError`, and `main` catches nothing else. Because the module
EXTENDS `Delivery`, every hub change is literally one of its actions. `submitted` and
`effects` record what State and GitHub have seen; they are external and only written where
the code calls the command lines.

**`Directives`.** The event log of one session is a sequence of directives and packet
markers. A workflow start writes packet and marker in one transaction; `enqueue_run` reads
the log, inserts the command and appends the marker in three, and the hub may stop between
them. `Window` is the 32 of the code.

### Once-only stores

**`OnceEffect`** is the abstract promise of every store that guards an effect by a key:
`running` and `settled` sets of keys, and three steps.

**`OperationReceipts`** has the receipt store, whose executor runs under its lock, and the
approval store. **`ToolDispatch`** EXTENDS it with the threads of a chat tool session: each
call passes the replay check, the pin, the early refusal of the budget, its approval, the
executor with the gate, and its release, with other calls in between. **`PolicyGate`**
EXTENDS it and **`Preferences`**: an operation consumes its grant inside the executor, then
commits or asks the provider the form names, while browser tabs write the same cells. An
operation of the model is what its digest hashes (cell, kind, value, version), and like the
digest it leaves the provider out: `asked` is the provider of the running attempt, `named` that
of each stored receipt, and `effects` counts per operation and provider. `Refused` are the
operations the store does not take from an actor, `Declared` what other providers allow. A tab is what
it last saw of each cell; `history` counts the changes of a cell since the start, so that a
property can tell a stale save from a current one. **`EffectiveSettings`** is
`resolve_effective_value` over those cells. **`OnceStores`** has the idempotency store and
the Deliver starts. Each of the five stores is shown to implement `OnceEffect`.

**`Plugins`.** Documents are records; a digest is compared, never computed, and `intact`
says that the one a document carries is that of its content. Discovery, install, the session
pin, previews and calls, and the options of tools, with `Redeploy` at any time.

### Chat

**`SettleOnce`** is what a reader of a streamed record is promised: opened at most once,
settled at most once. **`Conversations`** has the turns as one sequence of records with
their conversation, parent and index; content is `purged` or not. A deletion is two steps
and the hub may stop between them. **`ResponseLifecycle`** has the responses, and per thread
the counter and the high-water mark of its frames. **`ChatStreams`** EXTENDS both. `task[s]`
is the place of a stream's coroutine; `thread[s]` is the pool thread that pulls its frame,
which a disconnect abandons but does not stop; `LoopFree` says that a coroutine in the middle of a
section without an await keeps the event loop, while threads still run. A mix (`Mixes`)
fixes which streams, posts, deletions and stops a behaviour may have.

**`Transfers`** EXTENDS `Conversations` with an artifact that its owner may edit and an
import that appends turn by turn beside the browser.

### Pins and displays

**`WorkflowPins`** follows a pin from the source of a catalog to the effect: loads, profile,
compiled snapshot, captured context, the hub's resolution and the bridge's preflight. A
digest is the content it digests. The repository ships these parts tested and not yet wired
to one dispatch: the dispatch is opaque and may send any operation under the context it has.
**`AdvancedPlayground`** has the routes, selections and in-memory stores of one actor.
**`DeliveryProjection`** has the display records of one project, each store call atomic.
**`ProjectionSeed`** EXTENDS it with the generator, State moving between its reads, and the
directory that loaders read. **`Validators`** puts the pins of a command beside the controls
of a route: `ValidatorsAgree` is the promise that what the code checks twice it judges alike.

### Compositions

**`Records`** composes the once-only stores, what is built on them and the workflow cursor;
**`Displays`** the pins, the playground, the display records with their seed, and the
transfers. Parts that share no store take turns as scenes: a behaviour belongs to one scene
from its first state. The specifications are unbounded, so that the theorems are about them;
`MCRecords` and `MCDisplays` add the documents, the bounds of each scene, and one initial
state for a part that is not on stage (`BoundedSpec`).

### Simplifications that matter when reading results

- A transaction is atomic and reads the clock once inside; `consume_approval_for_run` and
  `complete_approved_merge` (`workbench/store.py:1957`) read `now` before they wait for row
  locks. Requests share one connection per worker (`workbench/store.py:833`); that
  transactions do not nest is assumed.
- Payload hashes, task ids and head SHAs are not in the state of `Delivery`: their checks
  refuse a call, which is the nondeterministic failure branch of `ConsumeGrant` and
  `PerformEffect`. Text, tags, redaction, secret detection and hashing are left out everywhere.
- A hub restart in the chat keeps the rows and runs the recovery of `api.py:2008-2018`; the
  in-memory deployment would lose the rows instead. Opening the upstream connection never
  fails. Giving back a slot is part of the step that settles. There is one actor.
- An adapter of another provider that answers `failed` or `denied` is taken not to have acted;
  one that succeeds has, and one that raises may have.
- Operators approve only payloads a preview has shown them (`DispatchCall`); imports and
  resets use the versions their preview read.
- A registry loads its sources one after another; the model loads them at once. Reading a
  seed's files is one step.

## 4. The runs

| run | instance | distinct states | shows |
|---|---|---|---|
| `delivery` | 2 sessions on 1 worktree with 1 approval; 1 session and 1 session-less run with 2 bridges, 1 skill, 2 templates | 347,749 | fences, grants, completion and the queue under every order of calls |
| `bridge_loop` | 1 session, 2 approvals, 1 probe, 1 skill, 1 fault | 222,498 | effects once and granted, earned states, run commands settle |
| `chat` | five mixes of two sends, a run, a two-branch dispatch, the browser, a stop | 89,983 | readable histories, final deletions, one outcome per record, everything settles |
| `records` | nine scenes: tools, policy, tabs, once, installs, calls, options, directives, cursor | 49,754 | effects once per key, ceilings and grants, stale saves, reviewed plugins, carried directives, every graph of four steps |
| `displays` | six scenes: pins, playground, context, display, seed, transfers | 483,624 | pins kept, validators agree, current verdicts, whole seeds, whole imports |
| `workflow_join` | every graph over 4 steps with one join | violation | a join beside a branch that leads to it |
| `delivery_shown_completed` | 1 session, single-step template | violation | a reconciled run can have a `completed` workflow |
| `bridge_stale_action` | 1 session, 1 approval, no fault | violation | a stale approved action comes again for ever |
| `bridge_heartbeat` | 1 session, 1 fault | violation | evidence goes in after an unrecorded renewal failure |
| `dispatch_early_leave` | one dispatch of two branches | violation | forked turns stay streaming |
| `seed_overwritten` | the seed scene | violation | a loadable mixture of two snapshots |
| `policy_resubmit` | the policy scene | violation | a later set is answered with an old receipt |

Parts that share no store are checked in one run as *scenes*: a behaviour belongs to one
scene from its first state, and leaves the variables of the others alone. Nothing is lost by
that, because no action of one part reads or writes a variable of another.

**Bounds.**

- `MaxVersion` bounds revisions (2 is enough for a stale editor) and `MaxFaults` the crashes
  and undelivered requests of a daemon: one fault at every possible point, then the
  redelivery it causes. Two sessions suffice for a worktree to change hands under a stale
  run. Two ticks separate "renewed" from "about to expire". Two approvals on one run allow a
  pull request and a merge, two merges, or a merge racing a second grant. `Instances` joins
  two instances of `Delivery` in one run: two sessions on one worktree with an approval, and
  one session beside session-less runs, two bridges, skills and two templates.
- Four steps are the smallest graphs with a fan-out, a join and a shortcut past one branch.
- `chat`: each mix puts two streams, or a stream and the browser, on one conversation, with a
  stop where restarts matter. `MaxTurns = 8` is never reached. A request refused at a
  limit changes nothing, so it is the count (`SlotsTruthful`: streams at work and streams
  lost) that matters, not the limits.
- `records`: two calls of three requests (one read, two effects under one grant) with a
  ceiling of 2; two tabs and three edits; four policy operations (a set, its reset, a set of
  a cell the tabs write, one the store refuses), each with forms that name the hub or another
  provider, which declared one of them; two keys with two payloads; two revisions of a catalog and
  three profiles; `Window = 2` with six events, so that directives overflow a packet.
  `PolicyBound` leaves one tab in the policy scene.
- `displays`: two revisions of an operation and one gated; seven snapshots of State in which
  PRDs advance, vanish, share a feature or belong elsewhere (three of them in the seed scene,
  `SeedBound`); run rows and bindings, which no verdict reads, apart from verdicts
  (`DisplayBound`); at most two commands of a run (`SentBound`); in a transfer six turns, three
  posts, one edit of the artifact, a source that stands still once exported, an import as
  the last thing that happens, and a stop only during it (`TransferBound`).

Runs with `CHECK_DEADLOCK FALSE` have behaviours that come to an end: a closed workflow, a
mix whose streams have settled, a scene that has used up its requests.

**Fairness.**

- `FairBridgeSpec`: weak fairness of `poll_once`, which `main` calls in an endless loop and a
  supervisor restarts, and strong fairness of a delivery lease running out. The lease is five
  minutes of real time; `DeliveryLeaseExpires` only delays it while an idle daemon has
  unfetched commands left, since it fetches one every three seconds. That guard is an
  assumption: a hundred commands that fail at once and come back every five minutes would
  occupy the loop.
- `Fairness` of `ChatStreams`: a coroutine and a thread that can run do run, and a stopped
  hub is started again. Nothing is assumed of the browser, of retention, or of when response
  bodies start.
- `RecordsFairSpec`: a tool call that can go on does, and a tool runner comes back; whoever
  drives a workflow goes on finishing the steps it is offered.

Nothing is assumed of operators, heartbeats or faults.

## 5. The proofs

All theorems hold for every value of the constants that satisfies the named assumptions.

`DeliveryProofs`, from `IdsDisjoint`, `ConstantsOK` and `DefinitionsValid` of `Delivery`:

- `TypeCorrect`: the type invariant includes that a cursor stays inside its pinned
  definition, which the advance of the cursor needs. `TypeStep` has one step per action.
- `RunAndWorkflowStayAgreed`: `AgreeStep` adds the relation between run and workflow.
- `FencingTokensUnique`: the strengthening is that the lease row is never behind a run of its
  worktree.
- `LostFenceStaysLost`: `FenceFrame` says what every action does to the lease and the epochs:
  only a start fences, and it takes a larger epoch than every run has.

`DeliveryGrantProofs` builds on these: `SettledRunsAreUnfenced` (settling releases),
`GrantsConsumedInTheirEpoch` (consuming holds the fence), `ActiveRunsAreQueued` (`QueueStep`:
only a finalizer takes a session's command away), `QueuedActionsAreGranted` (inductive as
`GrantBeforeDelivery`: an open second half of the approve endpoint belongs to a granted
approval that is not queued), `CompletedMergesAreSpent` (nothing is left that could queue a
spent grant again), `StartedWorkflowsArePinned`.

`BridgeLoopProofs`: `BridgeImplementsDelivery` has the identity as its mapping; what is shown
(`StepIsHubStep`) is that each request has arguments of the right kind. The other theorems
rest on `PositionInv`, what each position of `poll_once` implies: with an action in hand no
second daemon has it; at the effect the grant is consumed and GitHub has not seen it.
`PositionKept` shows that nobody else invalidates a position, `PositionReached` that the
daemon's own steps establish it.

`WorkflowCursorProofs`: `Covered` (every successor of a finished step is finished, in the
cursor or reachable from it) and `JoinsBehind` (in a graph without shortcuts no join waits
beside a member that reaches it). The lemmas about `CanReach` carry it; `GraphFollowed`
collects the results.

`ToolDispatchProofs`: `DispatchInv` adds to the types that only a call past its reservation
has one (`AddedOnItsWay`), that a call approved for an effect has spent a grant nobody else is
approved under and nothing has run under (`ApprovedUnderGrant`), and that the store executes
the one running call (`OneRuns`). Most steps are `QuietStep`s that move one call only.
`DispatchRunsOnce` is the refinement of `OnceEffect`, with `Running` and `Settled` as mapping.

`RecordProofs`:

- `ReceiptsTruthful` and `PolicyRunsOnce` from `GateInv`: how far the running attempt is; that
  a grant once consumed stays consumed for its operation (`GrantsMove`); and per operation
  (`Accounted`) that its effects are those of one provider, which its receipt names once the
  attempt is over (`Ends`, `StepEnds`). It says of which provider a success is true, not that
  it is the one the form asked: see section 6.
- `SavesAreSeen`: `SightFits` relates what a tab saw of a cell to the cell's history: a version
  the tab saw that is still the stored one means no change since, or a reset in between.
- `IncludedIsCarried`: `MarksCovered`: what a marker covers and its window held is carried.
- `PluginsReviewed` from `PluginInv`: the promise part by part, with two facts it rests on: the
  deployed documents are one of `Documents`, and at most one install is under way, of a request
  not yet stored. `InstallsRunOnce` is the refinement of `OnceEffect` by the install store.
- `KeysRunOnce`: the two refinements of `OnceStores`.
- `ServedValuesFit`, from `SettingsAssumption`: what is served fits the ceilings, references
  and options in force, by cases on where the winning value comes from.
- `GuardedEffectsOnce` puts the five refinements together for the composition. The policy
  gate and the tool calls use one set of receipts in the model, and each refinement holds of
  its own scene; off stage the other's keys never move, because no request has the digest of
  an operation (`RecordsAssumption`). The argument splits a behaviour on the scene it starts
  in (`ToolScene` or not), which no step changes.
- `RecordsTypeCorrect`: the types of all parts, under the same split.
- `RecordsKeepPromises`: the theorems above, but for these two, are over each part's own
  specification; this one carries them to the composition the `records` run checks. Parts that
  share nothing keep their promises through `PartsSpec`. The calls, the gate and the tabs keep
  theirs through `ScenesSpec` while they are on stage, and off stage because nothing has run or
  committed (`NothingRun`, `NothingCommitted`).

`ConversationProofs`:

- The stores. Every action of `ChatStreams` is shown to be a `StoreStep` (one row appended
  past the append gate, or rows that settle), a `RespMove` and to keep `LoopInv`, the state
  of the coroutines that decides what they may still write. `ConvInv` is the tree with
  `DeletedIsFinal`; `LineageFits` bounds the index of an append computed from an older
  history. From the invariant follow `HistoryStaysReadable`, `DeletedStaysDeleted`, and the
  refinement `RecordsSettleOnce`: responses and turns, seen as records, are `SettleOnce`.
- The streams. `StreamInv` adds how far each stream is: a hub that is down holds nothing
  (`DownIsQuiet`), the branches of a dispatch are forked together (`BatchTogether`), the
  slots are the streams at work and those lost before their body ran (`SlotsCount`), and three facts per stream: its
  response and thread fit its place (`AttemptFits`), its own rows fit what it has written
  (`SendFits`), and a send past its answer has an answer in the history (`AnswerFits`). Each
  action keeps them for its own stream, and `StillFits` says that the other streams do not
  notice. `SlotsCountStreams`, `FramesStayFresh`, `CompletedIsDelivered` and
  `ConcurrencyIsBounded` are read off it.
- `ChatTypeCorrect` needs one thing more, the type of `Tip`, the recursive function that
  finds the last turn of a history. That it is defined at all is proved from the order of
  the rows (`LastChildIsLater`, `TipType`): a child has a larger number than its parent, so
  the recursion is solvable from the last row down.
- The transfers. `TransferInv` follows an import turn by turn: what every artifact keeps
  however it is edited (`ArtifactFits`), what an untouched one has besides (`InOrder`:
  parents first, one root, siblings apart), and that each turn already replayed stands under
  its own parent and index in a later row (`Replayed`). `StoreStepKeepsTransfers` shows that
  whatever else moves in the store keeps this. `TransfersStayWhole`, `TransfersKeepHistories`
  and `TransfersTypeCorrect` follow, from `TransfersAssumption`.

`DisplayProofs`:

- `PinsAreKept` from `PinsInv`: a captured context never changes, and what the bridge holds
  was checked against it. `PinReadersAgree` from `SnapshotsClosed`: a compiled snapshot's
  operations are in its profile and in its catalogs.
- `ChecksAgree`: the playground's part of `ValidatorsAgree` is no matter of steps but of all
  documents and selections, from `PresetAssumption` (the preset schema demands both digests).
- `VerdictsAreCurrent` from `ReferencesNamed`: a verdict was bound to a reference of the
  revision it was computed on.
- `HistoryIsKept`: the latest projection is a stored one, so that its revision is compared
  with every newer one.
- `FreshSeedsAreWhole` from `SeedInv`: what a generator has fetched is of its snapshot; while
  it writes into a fresh directory there is no manifest, and what it no longer has to write is
  whole.
- `DisplaysTypeCorrect`, over the composition. The types alone are not inductive: spending a
  grant needs that a gated command was checked under one (`ChecksGranted`), the limit of a
  playground store that what it holds is finite, and capturing from a seed that every file of
  the directory is a record of some valid snapshot, whatever generator left it there
  (`RecordFits`; it names the revision of that snapshot). From `PinsAssumption`, `ItemsAssumption`, `RevisionAssumption` (a snapshot
  has integer revisions) and `SeedAssumption` (paths of contents and references differ).
- `ServingStaysCurrent`: `VerdictsAreCurrent`, `HistoryIsKept` and `FreshSeedsAreWhole` again for
  a hub that answers and starts runs while a loader replaces the records (`ServingNext`), which
  no run explores. `RecordFits` is what it needs: a loaded reference names a valid snapshot and
  its own revision.
- `DisplaysKeepPromises` states all of these over the composition the `displays` run checks.

Every invariant and every safety property of the passing runs is stated by a theorem. Only
model-checked are the three liveness properties, `RunCommandSettles`, `StartedStreamsSettle`
and `StartedWorkEnds`, whose fairness the prover cannot express, and the seven violations.

## 6. Where code and documents differ

Each of these is a violation run; `PROJECT.json` quotes the lines.

1. `advance_cursor` does not count the siblings it adds as unfinished branches
   (`workflow_join`). `JoinsWait` proves that graphs without such a shortcut are safe.
2. A workflow whose agent step is last reads `completed` at evidence and keeps that
   status through a reconciliation (`delivery_shown_completed`).
3. `_approved_action_worktree` runs before the `try` of `poll_once`, so a stale approved
   action neither reconciles nor is acknowledged (`bridge_stale_action`).
4. The heartbeat records only a `BridgeError`; a renewal that times out while being read
   ends the thread silently (`bridge_heartbeat`).
5. A client that leaves at the announce frame of a dispatch leaves the forked turns streaming
   until the hub restarts (`dispatch_early_leave`).
6. A seed written over an earlier one is loadable half way, as a mixture (`seed_overwritten`).
7. A policy set, reset and set again has the identity of the first set and is answered with
   its receipt without being committed (`policy_resubmit`).

The following were met while modelling and are not runs of their own.

- `AdvancedTemplateStore.resolve` compares digests and reads the template in two lock
  sections. `ReadyTemplateIsThePinned` states "Never a silent substitution"
  (`workbench/advanced_playground.py:447`), and TLC finds it violated.
- The comment of `capture_eligibility` (`workbench/delivery_projection.py:371-376`) says a
  verdict on a superseded source is refused; a source that changes within one revision is not
  noticed (`StartsOnTheCurrentSnapshot` states the comment, `StartsOnTheCurrentRevision`
  what holds). Nothing joins that gate to Deliver yet.
- An advanced run that was cancelled can still be completed, against the comment at
  `workbench/conversation_api.py:1392-1394`.
- `recover_interrupted` (`workbench/response_lifecycle_store.py:490-518`) does not advance
  `state_version`, though the comment on the field says every committed change does.
- A turn can settle `cancelled` while its response says `completed` when the receipt of an
  advanced run is refused: `duration_ms` is held under 86,400,000, the receipt schema's
  latency under 3,600,000.
- With more than 32 directives the older ones are shown as included although no packet
  carried them: the exception `IncludedWasCarried` makes.
- A concurrent duplicate of an effectful tool call is answered `approval_invalid` instead of
  being replayed as the comment at `workbench/tool_dispatch.py:268-270` says.
- A policy operation's receipt key and the payload hash its grant binds leave the provider out
  (`workbench/preference_gates.py:209-214`, `workbench/models.py:1624-1653`), though the form
  names it (`workbench/api.py:1313`). After a success for one provider, the same operation for
  the other is answered with that receipt and nothing is done there, and a grant given for one
  pays for the other. The docstrings say "bound to precisely this effect"
  (`workbench/preference_gates.py:251-253`) and "the previewed effect"
  (`workbench/api.py:1397`). `SuccessIsOfTheProviderAsked` states that a form answered
  with a success was applied where it asked, and TLC finds it violated in five states; `ReceiptsMeanCommits` is what holds.
- A client that is gone before the response body starts never gives its slot back: every
  release of a started response is in the `finally` of the body
  (`workbench/conversation_api.py:1177`, `1410`, `1700`). Two such sends, two such
  runs or one such dispatch (limits 2, 2 and 1, each with its counter) shut the actor out of
  that endpoint until the hub restarts, though the limit is "concurrent"
  (`workbench/conversation_api.py:844-847`). `IdleActorHasSlots` states the
  limit's meaning, and TLC finds it violated; `SlotsTruthful` shows that nothing else leaks.
- A plugin host, a Deliver launch or an attempt whose receipt is refused stores nothing when
  it raises after its effect; a retry repeats the effect. `OnceEffect` allows exactly that
  (`Drops`).
- A scoped reset (`workbench/configuration_transfer.py:402-459`) also removes overrides made
  after its preview. After a reset a preference starts again at version 0, and a tab that
  still holds a version from before may fit.
- Settings: the resolver's docstring says every ceiling is authority-owned and that a reset
  agrees with GET; the validator allows a project-owned ceiling over a personal setting,
  and there they disagree. A ceiling under a ceiling is compared before it is itself held down.
- Playground: presets resolve as `unverifiable` because the deployment gives their store no
  live digests; the store docstring says "durable", the stores are in memory; a branch that
  names a control twice is not refused.
- An import that the hub stops half way leaves the turns replayed so far; the docstring's
  "all-or-nothing" covers failures only. Rolling a refused import back also removes what the
  browser has posted into the new conversation meanwhile. A copy has no deletion date.
- Publishing an older snapshot of an equal revision again leaves the latest pointer on the
  newer content.

## 7. Not modelled

- Voice relay, routing, health, retrieval and graph reads: bounded reads or relays that leave
  no state another part decides upon.
- Redaction, JSON-schema shapes, configuration, wiring and the web client: functions over text
  and start-up code. Cross-field validators are modelled where a property needs them.
- The state-event cursor, token broker and script-drift check of the bridge; audit rows and
  transcripts.
- `advanced_dispatch.py` and the request bodies of `advanced_runtime.py`; the display of tools.
- Authority seeds and skill adoption: single last-write-wins writes.
- Registering another bridge moves a project's commands away from the old bridge's runs
  (`workbench/store.py:1509`); the model reaches it and no document says what should happen.
  An evidenced run whose unattended lease lapses (`workbench/store.py:1886`) can only be
  reconciled by hand: a gap of the design, not checked.
- The approval a hub stop leaves between `approve` and `enqueue_command`
  (`workbench/api.py:2550`), and a session-less run left without a command
  (`workbench/api.py:2534`): reachable in the model, and no recovery is promised.
