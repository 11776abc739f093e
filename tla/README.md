# Anemoi, specified

Anemoi decides which model, on which inference runtime, answers a request, and keeps the
evidence and the state such decisions need. The models run elsewhere; what Anemoi owns is
coordination: who may bring a runtime to another model, what was last observed of each
runtime, which models are being loaded in the background and what context waits for them,
and what operators changed of the configuration. This directory holds TLA+ models of those
parts, TLC configurations that check them on small instances, and TLAPS proofs of the results
that should hold for every instance. `PROJECT.json` maps every definition to the lines it
models.

Line numbers below: `lib.rs` is `crates/anemoi-daemon/src/lib.rs`, `transition.rs` is
`crates/anemoi-policy/src/transition.rs`, `governance.rs` is
`crates/anemoi-daemon/src/governance.rs`.

## Inventory

| Component | State | Operations | Talks to |
|---|---|---|---|
| Transition coordinator, `transition.rs` | `active` (runtime -> transition), `next_fencing_token` | `request_transition`, `acquire_serving_lease`, `release_serving_lease`, `complete` | Anemoi instances; no caller in the daemon yet (docs/LIMITATIONS.md) |
| Reconciler, `lib.rs` 84-190, 1353-1388 | snapshot per runtime with time, stale flag, last error | `update`, `record_error`, `needs_refresh`, `get_snapshots`; one tick inspects all runtimes | runtime adapters; read by decide, catalog, status, eviction, staging |
| Staging worker, `lib.rs` 252-561, 1469-1525 | queue of intents | `queue_intent`, `commit_eviction_context`, `reconcile_ready`, `get_pending`, `update_state`, `take_context_ref_for_background` | decide queues, the staging loop commits and loads, execute takes contexts |
| Escalation context cache, `lib.rs` 598-676 | payloads with their time, bounded | `write`, `take` | staging tick writes, execute takes |
| Governance, `governance.rs`, handlers `lib.rs` 5278-5712 | overrides in memory, overrides file, effective bundle | `load`, `mutate`, seven editing handlers | decide and the gateway read the effective bundle |
| Scheduler, `anemoi-policy` | none | `decide(request, snapshots)`: candidates, floors, scores, continuity | called by decide |
| Configuration, `core/config`, `core/governance.rs` | baseline, merged with overrides | `validate_config`, the merge, `validate_governance` | read by decide, plans, the gateway, eviction |
| Daemon handlers and gateway, `lib.rs` 1117-1255, 6505-6985 | none of their own | decide, execute, chat completions | scheduler, staging, decision log, adapters |
| Eviction, `policy/eviction.rs`, `lib.rs` 1259-1350 | none | plan, execute; only tests call them | reads the reconciler, unloads through adapters |
| Decision log, `anemoi-telemetry` | in-memory index, JSONL file or SQLite | record, get, list, four kinds of events | decide, execute, ticks |
| Runtime adapters, `anemoi-runtime` | the mock's residents | inspect, load, unload, forward | the runtimes, over HTTP |
| llama-swap event stream, matrix, metrics | pushed model states | follow the stream, inspect | a llama-swap server |
| Core types, MCP, CLI, guard, dashboard | none that changes | | |

What is hard in it:

- Concurrency. Handlers, the reconciliation loop and the staging loop are tokio tasks over
  shared locks. No lock is held from a read to the action taken on it, except in governance.
  Ticks overlap; the staging tick works on a copy of its queue; a context's reference and its
  payload live under two locks.
- Failure. Inspections and loads fail, files fail to be written or renamed, the process
  crashes between any two file operations.
- Time. Leases, cache entries and contexts expire; owners that lost a lease resume.
- Order. Answers of inspections and loads arrive after newer ones; leases are released after
  what they protected is gone.
- Boundaries. The context cache is full; u32 counters and token sums saturate; roster overrides
  layer over a baseline; samples of some devices are missing.

The hazards are listed one by one, each at its line, in `PROJECT.json`.

What makes each part correct:

- Coordinator: one owner per runtime, fenced; completion exactly once; ranking decides and not
  arrival order; serving requests are protected.
- Reconciler: a decision runs on evidence that was refreshed when it was found wanting; failures
  never erase evidence; the cache converges to the truth.
- Staging: a context is handed off at most once; the cache is bounded and drops the oldest; an
  intent is loaded at most once and settles for good.
- Governance: decisions never see a stranded domain; an acknowledged edit survives crashes; the
  effective configuration changes by whole edits.
- Scheduler and daemon: the capability floor is hard, a denial means that nothing could run, a
  staged request is answered meanwhile; no runtime is asked to load or unload anything that
  nothing on record accounts for, whatever an operator edits in between.
- Decision log: a record nobody wrote into is one whole line for good; what is kept is served
  again after a restart.
- llama-swap: an inspection reports what was resident all at one time, and the pushed cache catches
  up with the server.

## Modules

| Module | Models | Checked by | Proved in |
|---|---|---|---|
| `FencedLease` | abstract: holders known by fencing tokens | (refined) | `FencedLeaseProofs` |
| `TransitionCoordinator` | `transition.rs` 27-445 | `MCTransition` | `TransitionCoordinatorProofs` |
| `Reconciler` | the cache, its ticks, the refresh before a decision | `MCReconciler` | `ReconcilerProofs` |
| `Staging` | staging worker, context cache, staging tick, execute's context part | `MCStaging` | `StagingProofs` |
| `RosterDirectory` | abstract: a directory of rosters, edited atomically | (refined) | |
| `Governance` | overrides, file, effective bundle, edits, crash and restart | `MCGovernance` | `GovernanceProofs` |
| `Scheduler` | `anemoi-policy`: decide, as operators | `MCDaemon` | `DaemonProofs` |
| `Adapters` | what each adapter reports and can do | `MCDaemon` | `DaemonProofs` |
| `Config` | baseline, validation, merge of overrides, warnings | `MCDaemon` | `DaemonProofs` |
| `Daemon` | decide, execute, gateway, staged loads, evictions, edits | `MCDaemon` | `DaemonProofs` |
| `DecisionJournal` | abstract: what the log promises its readers | (refined) | |
| `DecisionStore` | the three stores, torn appends, crash, rehydration | `MCDecisionStore` | `DecisionStoreProofs` |
| `Metrics`, `Matrix` | `/metrics` to memory, expressions to loadouts, as operators | `MCLlamaSwap` | `LlamaSwapProofs` |
| `LlamaSwap` | event stream, cache, reconnects, inspection | `MCLlamaSwap` | `LlamaSwapProofs` |

`Scheduler`, `Adapters`, `Config` and `Daemon` extend each other in that order, and `LlamaSwap`
extends `Metrics` and `Matrix`. `Daemon` composes the parts by what they leave at its interface: a
read of the reconciliation cache is any member of `World` (`Reconciler` says how such a snapshot
comes about, `LlamaSwap` how one runtime's does, and `Adapters!Reports`, an assumption on `World`,
what it may hold), an edit leaves any of `Overrides` (`Governance` says which), and the staging tick
appears with its loads and its readiness check only (`Staging` has the rest).

Each component module also defines, in a section of its own, mutated forms of some of its
operators (`IncomingWins_AnyPriority`): plausible bugs under which each property must fail.

### TransitionCoordinator

`active` and `next_fencing_token` are the code's fields, and an `ActiveTransition` is the code's
record, its ids abstracted to model values and instance ids to numbers, ordered as the strings
are. `request_transition` is the disjunction of `StartFresh`, `TakeOverExpired`, `Join`,
`Preempt` and `Decline`, one for each way through its early returns and `resolve_conflict`;
`Install` is `issue_token` and `install`. `clock` is the `now_ms` callers pass, taken to be
monotone.

The coordinator tells callers something and forgets; the properties are about what callers then
do. So the module keeps as history what each instance was told (`held`), which tokens were
completed or displaced, and the requests in service: `serving[rt]` leased the transition that is
active now, `stale[rt]` one that is gone. A request releases its lease once, when it ends, which
may be after the transition ended. `drained[rt]` records that no earlier lease was out when the
active transition started.

`FencedLease` is the promise in the module's doc comment, with no policy and no clock, and
`TransitionCoordinator` implements it.

### Reconciler

Every await of a tick is a step boundary: `Inspect` (the runtime answers), `Observe` (the cached
snapshot is read, the differences logged), `Update` or `RecordError` (the entry is stored).
Tickers are the background loop and handlers running an inline tick; nothing serialises them, in
the code or here. Residents are abstracted to a version of the runtime that grows with every
change, 0 for none. `Age` is the passing of the ttl, at any time. A runtime is up, refuses
(reports itself unavailable, without residents) or is down (inspect fails).

### Staging

An intent's id is its position in the queue, which only grows. A staging tick is a sequence of
steps: `BeginTick` and `CommitOne` are `commit_eviction_context`, during which the queue's lock is
held (so `QueueIntent` and `TakeRef` wait), `ReconcileReady`, `GetPending`, then `LoadNext` and
`LoadAnswers` for each pending intent, between which anything may happen. An `execute` handler
takes the reference, then the payload, then answers or fails. `expired` is the set of entries
older than the ttl, which only their reading or a later write removes. `residency` is what the
reconciliation cache reports of a model, and changes at any time.

### Governance

`mutate` holds the overrides lock throughout, so one edit is under way at a time, in the steps of
`write_overrides_atomic` (temporary file, rename, and the fallback that deletes the file and
renames again, each of which may fail), then the two assignments in memory. `Crash` may come
between any two, and a crash or a failure while the temporary file is written leaves part of it.
The effective bundle is read without the overrides lock, at any moment, and is what
`RosterDirectory` is about: the refinement maps `effective` to the directory. A reset of the
directory to the configuration file's is allowed there, since without an overrides file, or after
the fallback's delete, a restart is one.

### Scheduler, Adapters, Config

`Decide(cfg, req, snaps)` is `Scheduler::decide` in the order of the code: candidates by roster or
from a live runtime, floor, the largest cold model and the fallback, staging, ranking, denial, and
the `PolicyError` of a domain whose roster or model is undefined. A candidate carries its place in
the rosters, since `sort_by` is stable and the place decides a tie. `First` and `Largest` are
`CHOOSE`s over a total order, which the proofs show to be one. Reasons and texts are left out, but
which models were rejected is kept. A class label is its whole part and tenths, because
`parameter_class_value` drops the point between them.

`Config` has the fields the scheduler and the handlers read, what `validate_config` accepts,
`Effective` (the merge) and `ValidateGovernance` (the warnings). An override of a model the baseline
does not know gets no runtimes, as in the code.

### Daemon

A handler is at one of the awaits of its request: `MakeDecision` is `AppState::decide` up to the
decision log, `RecordDecision`, `RecordStagingStatus` and `RecordActionPlan` are the log's writes
(each of which may fail and ends the request with an error, leaving the intent queued), then
`Execute`, `Forward` or `Refuse`. `Edit` may come between any two, and `effective` is read again where
the code reads it again. `calls` is history, what runtimes were asked. A handler keeps `seen`, what
its decision was made from, until its next step, for the properties only.

### DecisionStore

A JSONL record reaches an unbuffered file in several writes: two are told apart, its head and its
tail, then the newline; a failing write may leave a cut piece. Nothing locks the file against another
handler's append. `memory` is the index, updated before the file is opened. A restart reads back the
lines that parse, which includes a line made of one record's head and another's tail, and does not
come up on a file cut inside a character of several bytes. SQLite's statements are atomic.
`DecisionJournal` is the abstract log: served stays served while the process lives, a restart brings
back everything kept and nothing nobody tried to record, and a query lists the newest events up to
its limit. Events have the number they got in their table (`noted`, the row id of SQLite), which is
the order they are listed in, so a list is a set of numbered rows: `Matching` is the WHERE of a query,
`Latest` its ORDER BY and LIMIT. `Kept` is what the refinement counts as kept: with SQLite what was acknowledged, with JSONL
what was acknowledged and `clean`, that is, began on a line of its own and was written into by nobody.

### LlamaSwap, Metrics, Matrix

The server and the network are external. `pipe` holds the frames pushed and not yet read; a stream
ends (`broken`) or goes silent (`dead`), which the client, without a read timeout, never hears of.
`Deliver` is one turn of the reading loop, `Disconnect` and `Connect` the reconnect. An inspection
probes health, lists models, reads the cache and scrapes memory in separate steps. `Memory` turns a
scrape, a set of sample lines, into totals and uses. `ParseOr`, `ParseAnd` and `ParseFactor` are the
three functions of the recursive-descent parser, each from a position to the loadouts read and the
position left off at; `LoadoutsWithVars` ties their recursion into one recursive function over
positions. What the parser is measured against is the language in the last section of `Matrix`: an
expression is an identifier, a grouping, a colocation or an alternative of expressions (`MadeOf`) and
means the loadouts that say so.

## Runs

| Run | Instance | Shows |
|---|---|---|
| `transition` | 2 runtimes, 2 models, 2 instances, 2 priorities, 2 tokens, 2 requests in service per runtime, clock 0..1, ttl 1 | type invariant, completion, holders, serving counts, ranking, protection, refinement of `FencedLease` |
| `transition_serving` | 1 runtime, 3 tokens | counterexample, see below |
| `reconciler` | 2 runtimes, a handler and the loop, one change each | refresh before scheduling, observations kept, convergence |
| `reconciler_failed_evidence` | 1 runtime, a handler and the loop whose ticks never overlap (`SerialSpec`) | counterexample |
| `staging` | 3 intents, cache of 2, 2 execute handlers, a mock and a live runtime | hand-off, bound, order of eviction, loads, terminal states, every pending intent settles |
| `governance` | 2 rosters, 1 model, a static and a live-roster domain | no stranded domain, no torn file, durability up to the fallback's delete, refinement of `RosterDirectory` |
| `governance_diverges` | the same | counterexample |
| `daemon` | a mock and a llama-swap with and without a matrix, 3 models, 3 edits, 4 requests and 4 bodies, any of 148 pictures of the runtimes | no hidden mutation, floor of whole classes, denials, staging, ranking, warnings |
| `daemon_staged_load` | the same | counterexample |
| `store` | 3 decisions, one with characters of several bytes, 2 handlers, 3 events, 2 crashes | clean appends, refinement of `DecisionJournal` |
| `store_restart` | the same | counterexample |
| `llama_swap` | 2 models, 2 changes, 1 lost stream, any scrape of 2 devices with lines missing or repeated, every expression nesting two operators | coherent snapshots, current when drained, memory, loadouts, convergence |

Bounds, and why they are enough to show what they should:

- Two tokens and two runtimes let an expired owner, its successor, a joiner and a stale completion
  meet on one runtime, or two owners hold two runtimes. A third token is needed only for the
  counterexample, where it is given. The proofs cover every bound but keep `MaxToken` finite.
- A clock of 0..1 with a ttl of 1 has leases that are live and leases that expired; `LeaseTtl = 0`
  adds nothing that an expired lease does not show.
- One change per runtime lets an inspection before it race one after it, with two tickers; entries of
  different runtimes do not interact in the cache.
- Three intents in a cache of two force an eviction with a choice of victim; two handlers race for
  one context.
- Two rosters and two domains are enough for delete to race assign, to recreate a removed roster
  and to empty a live-roster domain; models are payload.
- `daemon` gives out one id: one request, or one eviction, is under way, against edits at any moment
  and the staging tick loading what the same request also loads. The width is in the data, since a
  decision is a function of configuration, request and snapshots: the mock missing or present, the
  GPU down, empty, loading, hot, draining or swapping, memory unknown or tight, three matrices, and
  edits that unassign, redefine and move models. The proofs are for any number of handlers and ids.
- Two handlers interleave their pieces on a line, and two crashes tear a line and then show what a
  restart made of it; `RowCap` is 3 and the limit asked for is 2, so that lists are cut.
- Two changes and one lost stream put a snapshot in the pipe behind another, and a restart of the
  server with other models while the client has not noticed. Mutants of the parser and of the sums
  show that the expressions and scrapes tell them apart.

`SYMMETRY` is used in `transition` only, for values the definitions treat alike; no liveness
property is checked there. Deadlock is checked where the system never stops;
`CHECK_DEADLOCK FALSE` is said of `store`, `store_restart` and `llama_swap`, whose bounds (decisions,
events, changes) run out; a JSONL daemon may besides really stay down, on a
file cut inside a character.

### Fairness

- `CacheConverges` of `Reconciler` assumes that the loop's interval keeps firing (`serve`, a tokio interval
  whose loop body is awaited to its end) and that a started tick goes on: each of its awaits is on
  a lock held briefly or on an adapter whose HTTP client has a timeout. Nothing is assumed of
  handlers' requests; a handler that began a tick finishes it.
- `PendingResolved` of `Staging` assumes that the staging interval keeps firing and that loads answer
  or fail (the adapters' HTTP clients have a timeout).
- `CacheConverges` of `LlamaSwap` assumes that the stream's task runs (it is spawned for the life of
  the adapter and leaves its loop in no branch) and that the bytes of a stream that is not dead
  arrive. The property speaks of a server that in the end stays up and of a link that in the end is
  not dead: after a link died silently nothing in the code brings the client back.

The world (residency, health, ages, crashes, changes, losses) is under no fairness.

### Counterexamples

Each is a place where the code and what its comments say part; the run keeps the trace.

- `transition_serving`, `ServingProtected`: `release_serving_lease` names the runtime and not the
  transition. A request that leased a transition since completed releases on the next one, whose
  count drops to 0 while it serves, and a preemption follows. `DrainedServingProtected` is what does
  hold.
- `reconciler_failed_evidence`, `NoFailedEvidence`: a handler finds an entry aged, inspects the runtime
  in front of its decision, that inspection fails, and the decision runs on the last snapshot, flags
  dropped. The ticks of this run never overlap, so no other ticker's failure is needed. Without an
  entry the failure leaves an unavailable placeholder; it is the kept one that misleads.
- `governance_diverges`, `DiskMatchesMemory`: the first rename of an edit fails, the fallback deletes the
  overrides file, its rename fails too, and the edit is refused. Memory keeps the edits acknowledged
  before, the disk holds none. The comment of `mutate` (`governance.rs` 107-111) says that they never
  diverge. `Durable` is what holds: until a fallback deleted the file.
- `daemon_staged_load`, `StagedLoadSparesFallback`: a cold model found on another runtime than the
  fallback passes the colocation test, but decision, intent and plan name the fallback's runtime, and
  the load goes there, where the matrix may not admit the two.
- `store_restart`, `AcknowledgedReadable`: a decision acknowledged, and served since, is not found
  after a restart, because its line was shared: with another handler's pieces, or with the torn record
  of an earlier crash, which the next append continues.

### Met while modelling

Places where a doc says otherwise and no run is needed to see it:

- docs/INFERENCE_GATEWAY.md:261-262 calls `minimum_parameter_class` a hard floor, "a `32b` request cannot be
  silently satisfied by a `9b` model". `parameter_class_value` (`scoring.rs` 203) keeps the digits of a
  class and clamps them to 100: a 3.8b model counts 38 and satisfies 32b, a 120b one counts like a 100b.
  `FloorHonoured` measures models by their size and therefore speaks of whole classes up to 100 only.
  What it leaves out occurs in `daemon` (an edit gives `extra` the class 3.8b), and `PointPassesFloor`,
  an assumption of `MCDaemon` that TLC evaluates, is the decision that answers a 32b request with it.
- docs/live_validation/residency-truth-contract.md:59 says that llama-swap's `inspect()` returns empty
  residents. It returns those of the pushed cache (`adapter.rs`, `residents_from_states`), which is what
  `LlamaSwap` models.
- `jsonl.rs` 26-27 says that a partial write never prevents startup. A record cut inside a character of
  several bytes does: `read_to_string` refuses the file. `DecisionStore` has such files and no restart
  from them; its properties are about what a restart that does come up reads.
- `governance.rs` 62-63 says that a missing or unreadable file starts from empty overrides; one that
  cannot be read is an error that stops the daemon (71-72).

What no doc promises otherwise:

- Overlapping ticks log one resident transition twice. Contexts of blocked, failed and completed
  intents are committed too.
- A cold load the gateway refuses with 503 and a hint to retry is not started by anybody. The
  scheduler assumes 30 s for a model without an estimate, the gateway lets it pass.
- `allow_background_load` is never consulted. Eviction protects by the baseline's groups, not the
  edited ones; no adapter reports idle times, and of the adapters only the mock unloads.
- Loads through Ollama and llama.cpp are unsupported, so intents staged there fail. A mock's load
  stays `loading` for ever, and a llama-swap load that takes more than the client's 5 s is reported
  failed although the server goes on.
- Until the first pushed snapshot an inspection reports no residents; while the stream is lost it
  reports the last ones.
- A JSONL line may parse that neither of its two writers wrote. Memory is updated before a write that
  then fails, so a decision whose recording was refused is served until the process dies.

## Proofs

The proofs are for every value of the constants under the named assumptions of each module: the
constants' types and that sentinel values are not data (`ConstantsAssumption`,
`NoTransitionAssumption`, `SentinelAssumption`, ...), which TLC evaluates on every run. Two say more:
`ScrapeAssumption`, that the figures a llama-swap server gives for a device are the device's own
(the lines of a scrape may still be missing, repeated or without a device), and
`ExpressionAssumption`, that matrix expressions are made of expressions down to identifiers.

- `FencedLeaseProofs`: a token is in force on at most one runtime, and a fenced one never comes
  back. Typing, then one step per action.
- `TransitionCoordinatorProofs`: `ArbitrationTotal` shows that the ranking of two owners is a
  strict total order, so that the outcome never depends on who asked first. `TypeCorrect` is the
  typing invariant. `CompletionSafe` and `HoldersSafe` rest on `TokenInv`: tokens held are below
  `next_fencing_token`, tokens in force are held by nobody for another runtime or model, a token
  not yet issued was neither completed nor displaced, and no two runtimes share one. The bare
  properties are not inductive: nothing in them says that a fresh token is fresh. `ServingSafe`
  is inductive over typing. `PreemptionRankedSafe` and `DrainedServingSafe` are action properties
  derived from these; `LeaseRefinement` maps each step to a `Grant`, a `Retire` or a stutter, and
  `FencedOffForever` carries the abstract theorem over.
- `ReconcilerProofs`: the invariant `IInv` is typing, `ResultInv` (a ticker between inspection and
  store has a result, for a runtime it still has to do), `ShownInv` (an answer in flight was shown
  by its runtime) and `WantingInv` (what a handler still finds wanting is still in its own tick's
  `todo`). From it follow `RefreshedSafe` and, as an action property, `ObservationsKeptSafe`.

- `StagingProofs`: `PlaceInv` (an intent the tick is about to commit still has its payload; an id not
  queued was never handed over) carries `ContextInOnePlace` and `NoOrphanEntry`. `LoadInv` says that
  the tick's list names pending intents no load was tried for and that the one in flight is pending
  and off the list; `LoadedAtMostOnce` and `TerminalForGood` follow. `StampInv` gives every write a
  stamp of its own; with it `RoomBound` shows that what an eviction keeps is smaller than the
  capacity: the oldest entry kept has fewer than `Capacity - 1` newer ones, and all the others kept
  are among those. That there is an oldest one is `LeastNumber`, from the well-foundedness of `<`
  on the naturals, since induction is out of the prover's reach.
- `GovernanceProofs`: overrides, candidate and file are each well formed (`RecordsInv`: no roster is
  both removed and overridden, and merged with the baseline no domain is stranded); the bundle is
  the one of the overrides or one directory step behind the candidate's (`BundleInv`); the file
  holds what `Durable` says (`FileInv`). The lemmas on edits show that every handler's edit keeps
  overrides well formed and is one directory step on the merged bundle, which rests on
  `LookupsAgree`; so `SwapEffective` implements that step, `Restart` implements it or
  `Directory!Reset`, and everything else stutters (`DirectoryRefinement`).

- `DaemonProofs`: first the scheduler. Candidates are finitely many (`CandidatesSound`), `Ranks`
  orders them totally (`RanksOrder`), so `First` and `Largest` name a candidate (`FiniteFirst`,
  `FirstChosen`, `LargestChosen`), `First` the only one there is to name (`ChoiceUnique`: no map's
  iteration order decides); `DecideCases` gives the shape of each way out, from which follow
  `DecideKeepsFloor`, `DecideDenies`, `DecideAnswersMeanwhile` and, with `HotterScoresMore`,
  `DecideUndominated`. `PlainRunnable` shows that a static domain with a defined roster, a profiled model
  on it and a runtime of the baseline for that model has something to run for a request that asks for
  nothing in particular, on runtimes that are all up and empty. `DecideDenies` makes that a decision
  that is no denial, and `StrandedAlwaysWarned` the contraposition: where such a request is denied
  although every profile names a runtime, a roster, a model or a profile is missing, and the
  effective configuration warns of it.
  `EffectiveTyped` shows that the merge of a validated baseline with any
  overrides is a configuration again. Then the daemon: `Inv` says that
  what a handler decided is what `Decide` makes of what it saw, that from planning or forwarding on
  the decision is in the log, that a plan fits its decision and is in the log before it is executed,
  that ids on record were given out, and that an eviction's queue spares what the baseline protects
  and is not empty while it is executed. `EvictionsOrdered` is about the comparator alone, for idle
  times known or not; the adapters report none, and `EvictionProceeds` finds the next unload by the
  least id.
  `CallsAccounted` and the four properties of decisions follow. `NoHiddenMutation`
  alone is not inductive: it says nothing of a plan not yet carried out.
- `LlamaSwapProofs`: `Past` keeps every frame in the pipe, the cache and what an inspection has read
  to what the server was at one time; `Current` says that while a stream is open its last snapshot
  frame, or the cache when there is none, is the server's present state. They meet in
  `ParsedResidents`: the entries the parser drops stand for models that are not there.
  `MemoryCountsDevices` is about a fold. No induction theorem is used: `TotalsExist` builds the totals
  of a finite set from those of a smaller one at a least counterexample (`LeastSubset`, from the
  well-foundedness of strict inclusion), `AddingTotals` shows that the library's fold gives these
  totals whatever order it picks elements in, and `LinesCountDevices` that lines naming each device once
  total what the devices do. `ColocationListed` says that the parser is correct, for expressions of any
  depth. `ParsingEnds` first: the recursion of the three rules is well founded on any tokens, well
  formed or not, since a rule only asks for later positions (`RulesLookAhead`) and never reads past
  the end (`RulesReadOn`). Then, at a shortest expression that is misread, `Reads` is what a rule does
  with an expression *wherever it stands*, including what it goes on to do with the operator behind it;
  without that part the statement is not inductive, because a colocation nested to the left is parsed
  from the right. `CrossUnionAssociates` bridges the two.
- `DecisionStoreProofs`: while an append is clean the open line is exactly what it wrote (`OwnLine`),
  its decision is nobody else's, in memory and unacknowledged (`Pending`); closed lines are never
  written again (`WrittenStays`) and are read back (`WrittenRead`). `CleanAppendsKept` and
  `KeptDecisionsServed` follow. `StoreRefinesJournal` adds `Sourced` (every row and every piece in the
  file is of a decision somebody tried to record, so a restart serves nothing else) and maps each step:
  the first or last piece of a record to a `Record`, an insert to a `Note`, the pieces between to
  stutters. For an insert, `LatestAdd` and `NewestRows` show that cutting the whole table to the limit
  and cutting the last list with the new row added come to the same rows. From the refinement
  follows `NothingInvented`, an invariant of the journal that the store inherits. `ListingsComplete`
  counts rows: what a listing takes is what is newer than the newest row it leaves out.

Model-checked only:

- the liveness properties, `PendingResolved` and the two `CacheConverges`, which need fairness and so
  ENABLED, beyond this prover; every other property of a run that passes is proved;
- the counterexamples, which are TLC's by nature.

## Not modelled

- HTTP and JSON of the adapters, forwarding's headers and streams, the lexing of Prometheus lines,
  SSE chunks and matrix text: conversions between text and the data the modules start from.
- `execute_pending`, `unblock_and_queue` and `mark_stale`, which only tests call, and the tick
  counters of an intent.
- Status, catalog and telemetry views, and authentication: reads, or a check in front of everything.
- SQLite's own atomicity, reading YAML and expanding environment variables.
- The MCP adapter, the CLI, the guard and the dashboard: adapters without state, or lints of text.

What would come next: `World` in `Daemon` replaced by `Reconciler` itself, so that the age of what
a decision saw could be bounded; and the age of the llama-swap cache, which nothing in the code
bounds.
