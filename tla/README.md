# Verification of gaeng3's answer service

gaeng3 is a financial-product Agent behind a FastAPI service. This directory holds TLA+
models of the parts of it that are concurrent, that must survive failures or that many
boundaries can end, TLC instances that check them, and TLAPS proofs for any size of instance.
The source of every definition is
listed under `map` in `PROJECT.json`; paths below are relative to the repository root, and
`C/` stands for `finance_agent/packages/finance_agent_core/src/finance_agent_core/`.

Run everything from this directory:

    tlc -workers 2 -config MCRequestExecution.cfg MCRequestExecution.tla
    tlapm RequestExecutionProofs.tla

## 1. Inventory

One process serves one host (`WEB_CONCURRENCY=1`). Three kinds of thread act in it: the event
loop with the answer routes, a pool of executor threads that run the Agent
(`finance-answer`, 8 threads), and helper threads (audit writer, shadow observer, Starlette's
pool for the synchronous `/health`). Releases are activated by scripts outside it.

| component | state | operations | interacts with |
|---|---|---|---|
| Request execution, `fastapi_backend/app/request_execution.py` | `_active`, `_idle` of the admission; `_entries` (key to Future, completion time); a deadline per execution | submit, single-flight `_entry_for`, prune, `_complete`, timeout, abort | routes call it; it runs the Agent and two done-callbacks per Future |
| Transport audit, `app/http_audit.py` and the barrier in `request_execution.py` | whether the terminal event was written, deferred or is due; tracked workers | start, respond, fail, abort, track, settle | writes into the recorder; its drain is the first shutdown stage |
| Audit recorder, sink and readiness, `C/observability.py`, `app/audit_runtime.py` | sequence numbers, bounded queue, writer, JSONL file, counters, latch | emit, write, close, crash and restart, health poll | every Agent stage emits; `/health` and the lifespan read its verdict |
| Schema-link shadow observer, `C/retrieval/schema_shadow.py` | bounded queue, accepted and finished counts, one thread | submit, run, shutdown | fed by workers, emits into the invocation it was submitted for |
| Lifespan, `app/main.py` | one shared shutdown deadline | drain workers, shut the observer, close the sink | the three above, in this order |
| Plan authority, dataset approval and pinned connections, `C/execution/authority.py`, `C/storage/approval.py`, `C/storage/pinned_sqlite.py` | guard per family, cache of verified files, open descriptors, two locks | pin, approve, issue a receipt, open, match, read, recheck | every answer reads the database through them |
| Database preparation, `C/storage/prepare.py`, `sqlite.py` | per dataset a database and its sidecar; relation index, artifact, digest anchor; state file | validate, reuse, rebuild, stage and rename a relation release, write the state; `--force`; a cut anywhere | its volume is what the service starts on |
| Relation index and caches, `C/retrieval/relations.py`, `C/storage/identity_cache.py`, `record_cache.py`, `approval.py` | index manifests, identities and approvals by path and stat version | start (trust chain of `app/dependencies.py`), lookup, fill a cache | reads the volume while a later preparation may replace its files |
| Routed Agent, `C/agent/routed_service.py` | the stages of one request; a batch of searches on a pool of its own; the audit events | check, route, compile, authorise, search, compose, recheck, answer | uses authority, Oracle, verifier, renderer; every stage emits |
| Knowledge answers, `C/agent/knowledge_service.py` | the stages of a relation question | check, route, authorise, look up, verify, compose, recheck, answer | the relation index and its caches |
| Audit validator, `C/audit_validation.py` | none: a gate over a recorded trail | path rules of each kind of answer, control rule, lifecycle | reads what all of the above wrote |
| Release activation, `fastapi_backend/scripts/release_activation.py`, `compose-release.sh` | lock file, `active-binding.json`, Binding snapshots, containers | publish, lock, verify, validate, compose up, record, compose down | several launches, kills and host crashes |
| Rollback drill, `scripts/rollback_drill.py` | stages of a rehearsal | drive activation | on top of activation |

What is hard in each, and what makes it correct:

* **Request execution.** A worker finishes before, between or after the two
  `add_done_callback` calls, so its callbacks run on either thread; a GET may disconnect while
  others wait on its execution; the registry is pruned by age and by number. Correct: no slot
  leaks, one running execution per key and question, an answer is always the answer to the
  caller's own question, a disconnected GET does not cancel shared work, every call ends.
* **Audit path.** Sequence numbers and the queue must agree across threads; a write may be
  torn; closing has a deadline, races late emissions and may be called twice; a crash may cut
  a line. Correct: nothing is lost without a counter showing it, order is kept, and a
  "drained" verdict is true.
* **Invocation lifecycle.** The terminal event is due when the last worker of an invocation
  is over, whoever notices, and exactly once; the shutdown drains producers before consumers.
* **Database authority.** SQLite opens a path, not a descriptor: it asks where the guard's
  descriptor leads and opens what that path names by then; the file may be switched, written or
  restored between any two steps; connections find their own descriptor by comparing listings.
  Correct: an answer rests on approved content only.
* **Activation.** The process may be killed between any two steps and the host may lose an
  unsynced rename. Correct: releases form one chain, a reported success is recorded and
  serving, and what serves without being recorded is explained by a failed or killed run.
* **Preparation and lookup.** A preparation publishes by a row of renames and may be cut
  between any two; the next may come from another release of the code, forced or not; each
  cache takes a version with one look at a path and its content with another. Correct: what a
  preparation reports as prepared is whole, what is whole is reused, `--force` gets past any
  remains, and an answered lookup is of the one release its service was started with.
* **A request.** Several plans run on threads of their own, any stage may fail, the deadline
  may pass, approved files may be replaced, the caller may leave, and each boundary ends the
  request with events of its own from one of two threads. Correct: all families or none,
  nothing after the answer event but the transport's terminal, nothing stale served, a trail
  the validator accepts, and an end.

The full component list, with the reason for each part that is left out, is in
`PROJECT.json` under `components`; the places where these hazards bite are under `hazards`.

## 2. Modules

| module | models | state and actions |
|---|---|---|
| `RequestExecution` | `_ProcessAdmission`, `IdempotentRequestCoordinator`, the routes that call them | per call where the event loop is with it (`phase`) and the Future it waits on (`board`); per Future its state, callbacks, deadline; admission counter; registry as `flight`, `stamp`. An action is a stretch of code that no other thread can split |
| `SharedExecution` | what the coordinator promises | one execution per key while it runs; whoever joins gets its result or gives up. `RequestExecution` implements it |
| `AuditSink` | recorder, sink, writer, `close`, readiness latch | queue, item in the writer's hands, file of whole or torn lines, closers and pollers as processes, crash and restart |
| `AuditLog` | what the audit path promises | accepted events in order, an entry spoiled only by a loss that is noticed or a crash, a verdict that is clean only when it may be. `AuditSink` implements it |
| `AuditTrail` | middleware, barrier, shadow worker, lifespan shutdown | the coroutine of each attempt, the worker it launched or joined, callbacks, the trail of each invocation, the shutdown stage. It composes the drain of request execution with the sink's closing, each seen at the level this composition needs |
| `InvocationLifecycle` | what the audit validator demands of an invocation | opened once, closed once, silent after. `AuditTrail` implements it |
| `PinnedDatabase` | guard table, approval cache, pinned connections, receipt rechecks | the files with content and change count, the table of open descriptors, two locks, the locals of each request |
| `ReleaseActivation` | launcher snapshot and activation broker | where each run is, link counts, lock, recorded and durable state, what serves |
| `PreparedData` | the preparation over one data volume | per file the release of the code it was built from and, where code takes one, its stat version; the preparation as a machine with one action per rename; `Cut` |
| `RelationLookup` | start and lookups of the relation service over that volume, with the caches. Extends `PreparedData` | the process and its artifact, the checks of one reader, three caches, starts and lookups. Composes with a preparation that replaces files between any two checks |
| `AuditValidation` | the path rules of the audit validator as functions of a trace | `Issues(trace)` is the set of codes it would report; no variables |
| `RoutedRequest` | the product path of a request, its batch, its caller | where the request is, plans authorised, per family the stage of its search and its text, result, environment, the trail. Extends `AuditValidation` |
| `KnowledgeRequest` | the relation path, and the entry that chooses between the two. Extends `RoutedRequest` | the same variables |
| `*Proofs` | theorems about the module named before it | |
| `MC*` | instances for TLC | |

Abstractions that matter: keys, questions, Bindings and contents are model values; an Agent
result is safe or unsafe to replay; time is the freedom of a deadline to pass, plus the order
of completions for the replay TTL (`stamp`, and how far the TTL has advanced over it: `horizon`
now, `seen` when the GET that is entering read the clock); a counter that is only compared with zero is a flag; a
listing of `/proc/self/fd` is one step, and SQLite's opening of the guard's file two, with
everything else possible between the look-up of the path and the open.
A host crash in `ReleaseActivation` may leave any of the states in `durable`, the ones written
since the last directory sync. In `PreparedData` a file is named by the release whose approved
data it was built from (builds are deterministic, which a test of the repository compares),
and a stat version by the number of times its path was replaced. In the request modules the
events of one stage of one thread are one step; what a question is compiled to, what a search
finds and whether a text is rejected are free choices. An event keeps stage, outcome, reason,
disposition and plans, which is what the path rules of the validator compare.

## 3. Runs, bounds, results

| run | instance | shows |
|---|---|---|
| `request_execution` | three GET calls over every traffic of two keys and two questions (up to names), 2 slots, 2 threads, 1 replay entry | `AdmissionAccounting`, `CacheOnlySafe`, `ServedOwnQuestion`, `ReplayBound`, `SharedWorkSurvivesAbort`, `EvictedForCause`, refinement of `SharedExecution` |
| `request_liveness` | two calls of any kind, 1 slot, 1 thread | `CallAnswered` without assuming that an operation returns; `WorkDrains` when operations stop at their deadline |
| `audit_sink` | two threads of one invocation, two events, queue of one, two closers, two health requests, a crash and a restart | `TrailInSequence`, `NoSilentLoss`, `NothingStranded`, `CrashBoundary`, `LatchHolds`, `DrainedMeansDurable`, refinement of `AuditLog` |
| `audit_trail` | two GETs that may share a worker, aborts, timeouts, shadow tasks, a shutdown whose stages may time out | `TypeOK`, `QuietOnceWaited`, refinement of `InvocationLifecycle` |
| `audit_trail_liveness` | a GET and a POST over one slot | `TerminalNotForgotten`, `ShutdownEnds` |
| `pinned_database` | two requests of three connections each, two files behind one path, one in-place change, one foreign descriptor | `AnsweredFromApproved`, `PinnedOpensDoNotCollide`, `NoDescriptorLeaks` |
| `release_activation` | three runs; a bootstrap Binding, two rivals that pin it, a third generation; kills and host crashes anywhere | `ChainUnbroken`, `SuccessIsTrue`, `UnrecordedIsKnown`, `SnapshotSealed`, `RunEnds` |
| `relation_lookup` | two releases of the code over one volume of two datasets, three preparations, two starts, one lookup | `PublishedIsWhole`, `WholeIsReused`, `ForcedPublishes`, `IdentitiesOfThePath`, `EvidenceOfOneRelease` |
| `agent_request` | one request, GET or POST: a relation question, a single plan, or a batch of two families | `AllOrNone`, `SilentAfterAnswer`, `StaleNeverServed`, `ProductTrailAccepted`, `KnowledgeTrailAccepted`, `RequestEnds` |

The type invariants of the other modules are proved (section 5) and not repeated in a run.

Why the bounds are enough: the races here are between two parties and a third that comes
later. Three calls are a leader, a follower and a newcomer after eviction; one replay entry
makes every completion an overflow; two slots with three calls reach the overload. Two
emitting threads and a queue of one fill the queue with the writer busy, the second event
follows the torn write of the first, and two closers and two health requests are the pairs
that can race. Two requests are an opener and a closer of pinned connections,
and three descriptor numbers hold the guard with both connections, or with one of them and the
foreign one; with none left an open fails. Three runs are a killed broker, its orphaned Compose and a successor. Three preparations are one that
publishes, one of another release that is cut, and one that repairs; two datasets give a
mixture of databases; the second start follows the restart of the service. Two families are
the least batch, with one search that fails while the other runs; a third adds searches that
behave like one of the two. Named bounds (`MaxEvents`, `MaxRuns`, `MaxNotes`, `MaxChanges`,
`MaxForeign`, `Limit`, `MaxPrepares`, `MaxStarts`, `MaxLookups`) appear in guards only. Symmetry is used for interchangeable calls, threads, requests and files in the runs
without liveness properties, never with them.

`CHECK_DEADLOCK FALSE` is set because every instance has finitely many calls, events or runs
and stops when they are over.

Three runs look for what a document or comment says, and TLC finds that the code does
otherwise:

* `replays_only_safe`: "retryable failures are removed" from replay, but a retry that arrives
  between `set_result` and the `_complete` callback is handed the failure as a replay.
* `state_kept`: a state write that fails "keeps the previous state", but opening or syncing
  the directory may fail after `os.replace`, and the new release stays recorded while its
  stack is taken down.
* `batch_answers_traced`: the path of an answered request is to be complete for the validator,
  but the event `cross_composition_verified` of a batch names no plan, so the trace of every
  answer that was generated and verified across families is reported with
  `execution_plan_link_mismatch`.

## 4. Fairness

* `RequestExecution`: the event loop goes on with whatever is ready, idle executor threads
  take queued work, callbacks of a finished Future run, and deadlines pass: asyncio, the
  executor and the clock see to these. No operation is assumed to return; `WorkDrains` has
  `OperationsStop` as its premise, because `deadline.py` only asks operations to stop.
* `AuditSink` makes no liveness claim and assumes no fairness.
* `AuditTrail`: handlers, dispatch of terminals, queued workers with a free thread, callbacks,
  the shadow thread and the lifespan go on. `Finish` of a worker is not fair.
* `ReleaseActivation`: a started run goes on with its next step; kills, crashes and failures
  are free to happen or not.
* `RelationLookup`: a preparation that is not cut goes on, and so does a reader: both are
  single processes that wait for nobody. Cuts, starts and lookups are free.
* `KnowledgeRequest`: the threads of the Agent go on. Their waits are bounded by the request's
  own deadline: SQLite through its progress handler, providers through their HTTP timeouts.
  That the deadline passes, that files are replaced and that a caller leaves is free; the
  transport's terminal is a step of the event loop, which goes on.
* `PinnedDatabase` makes no liveness claim and assumes no fairness.

## 5. Proofs

TLAPS checks these for all values of the constants, from the named assumptions of each module
(`ConstantsAssumption`, `SinkAssumption`, `TrailAssumption`, `NothingAssumption`,
`BindingAssumption`, `DatabaseAssumption`, `PreparedDataAssumption`, `LookupAssumption`,
`ValidationAssumption`), which say no more than that limits are numbers (positive where the
code checks that), the markers for "nothing", for the loop thread, for a callback and for an
owner that is no request differ from real values, the set of calls is finite (slots are
counted), and no product family is configured twice (the planning policy refuses
duplicates, `planning_policy.py:112`).

**`RequestExecutionProofs`.** `IInv` = `TypeOK`, `Lifecycle` (how a Future follows its call),
`Registry` (every unfinished GET is the entry of its key, its completion is still pending, and
a completed entry is safe), `Slots` (the counter is the number of Futures whose release has
not run), `ServedOwnQuestion` and `Watched` (a wake-up is owed only to a
call of that Future, a GET is told to stop by its deadline only, the barrier holds what is unfinished).
`SingleFlight` alone is not inductive: that a second worker
cannot start follows from `Registry`, and pruning keeps it because only completed entries are
dropped. From these:
`AdmissionAccounting`, `WorkWithinLimit`, `SingleFlight`, `CacheOnlySafe`,
`ServedOwnQuestion`, `SharedWorkSurvivesAbort`, `BarrierHoldsUnfinished`, the action property
`EvictedForCause`, and the refinement of `SharedExecution` (initial states map to initial states,
every step to a step or a stutter). `ReplayBound` rests on a counting lemma about the prune
(`PruneBounds`): of the completed entries it keeps take the oldest; none of the others is
older, so those kept and those older than it are different live entries, and the prune kept
it because there are at most `MaxReplay` more live entries than older ones. The stamps need
not differ for this, and the number of keys need not be finite: an entry belongs to a call.
`EvictedForCause` turns this round: completions are stamped in order (`StampOrder`), so what a
prune drops without having expired is older than at least `MaxReplay` entries it leaves
(`PruneLeaves`), although the entering GET prunes as of a time it read before it had the lock.

**`AuditTrailProofs`.** The two counters are holder sets: an admission slot is held by a worker
whose release callback is still to be registered or run (`Slots`), a drain registration by an
attempt whose terminal waits for others (`Registrations`). `Inv` adds to `TypeOK`: one
coroutine at a time is in a stretch without an await (`Alone`); a worker is launched by its
own attempt (`Launched`), is unfinished only while it holds a slot (`Released`), and is
tracked by that attempt until it is over, so that the attempt's terminal is not due before
(`Tracked`, `Registered`); an attempt whose coroutine is gone and whose terminal is not
written holds a registration. The cascade looks at the slots when no coroutine is left, and at
the registrations after the slots; each stage past with `drained` still true says that its
holders are gone and cannot come back (`Cascade`, `Shadows`). `QuietOnceWaited` follows. The
refinement of `InvocationLifecycle` needs of it that nothing but shadow events follows a
terminal, and that a cascade that reports a drained trail leaves nobody to write.

**`ReleaseActivationProofs`.** `IInv` adds to `TypeOK`: whoever is in the broker holds the lock
(`Locked`), so what it validated is still so when it records it (`Validated`); who runs
Compose and what serves (`Composes`, `Serves`, `Known`); every state a crash may bring back
belongs to a run that did not succeed (`Undurable`); a snapshot past its check has one link
(`Sealed`). From these: `ChainUnbroken`, `SuccessIsTrue`, `UnrecordedIsKnown`,
`SnapshotSealed`, with kills and host crashes anywhere.

**`PinnedDatabaseProofs`.** `AnsweredFromApproved` needs that the guard is set once under its
lock (`Locked`, `Guarded`), that while its file shows no change it holds what was hashed
(`Digested`), that a receipt is issued only for an approved digest (`Issued`), and that what a
request read is approved unless the guard's file shows a change (`Gathered`), which the last
check then sees. Change counts never go down, so a change cannot be undone unseen; that is
what ctime in the fingerprint gives. SQLite may have opened another file: what counts is the
file that the descriptor in a request's hands is of, and once a request has matched it, that is
the approved one, or the match is `doubtful` (`Trusted`). A request that nothing disturbed
matches its own descriptor only, because the listing holds all others (`Listed`). `Table` is
about the descriptors: a request owns exactly one while it
works with its connection (`Owned`, `Holding`), the gate exactly one while it has a guard or
makes one under the guard's lock (`GateHolds`), which is `NoDescriptorLeaks`. From its first
listing to its second a request holds the lock (`Excluded`), and connections and closings wait
for that lock, so unless a descriptor outside it came or went, the listing stays true until
the connection adds its own number (`Listed`): the second listing then shows one match, which
is `PinnedOpensDoNotCollide`. The guard is opened without that lock, but before any request
can list.

**`AuditSinkProofs`.** `Inv` adds to `TypeOK`: the sentinel is the last entry of a queue that no
longer accepts, it is put by one closer only, and the writer leaves by it only (`Stopped`),
which is why nothing is stranded; a health request that is still looking began before any
degraded answer, because the latch is set before the answer is given (`Latched`); a restart is
left, and a torn last line holds bytes of the present run only (`Bounded`), so that no line
ever mixes two runs; what the writer emits is an event (`Carried`). From these:
`NothingStranded`, `CrashBoundary` and `LatchHolds`, for any number of threads, closers, health
requests and restarts, and any capacity. `Passage` follows an event through its places: queue,
writer's hand, file. Events of one invocation stand in the order of their numbers in each
place and from each to the next (`Ordered`). This is kept because a number is drawn and
enqueued under one lock: only the last number of an invocation can be in a thread's hands, and
in one thread's only (`Held`), while everything in a place was drawn before (`Numbered`).
While no counter is raised, every number drawn is in a place or in hand (`Complete`): a step
that takes an event out of one puts it in the next or raises the counter, and the one case
where a later write spoils an earlier line, the torn line, has raised it already
(`TornIsKnown`). From these `TrailInSequence`, `NoSilentLoss`, the action property
`DrainedMeansDurable`, and the refinement of `AuditLog`, step by step; an entry of the log is
spoiled when its line ended torn or was continued by another write.

**`PreparedDataProofs`.** `IInv` = `TypeOK`, `Placed` and `Progress`, which says what of the
volume is of the preparation's image at each of its places, whatever it found there: the
datasets it is past, then all of them, then index, artifact, anchor and state one after the
other. A reused release skips the renames, and has been compared with the state file of its own
image. From it `PublishedIsWhole` and the action property `WholeIsReused`.

**`RelationLookupProofs`.** Every writer moves the version of the path it replaces
(`FilesGrow`), so what was read at a version is still there while the path has that version: of
the cached identities (`Cached`), of the ones being loaded (`Loading`) and of the rows a lookup
has open (`Opened`). A lookup answers only with identities of its image (`Checked`), an index
bound to it (`BoundIndex`) and rows of the index it hashed (`Answered`). From these
`EvidenceOfOneRelease` and the action property `IdentitiesOfThePath`.

**`KnowledgeRequestProofs`.** `Inv` = `TypeOK`, `Placed` and `AllOrNone`. `Placed` says what
holds where the request is: nothing is granted before it is routed (`Unrouted`), every family
of the route is under way while the pool is joined (`Running`) and done when the answer is
composed (`Composing`), nothing is shown before that (`NothingShown`). `TraceInv` adds that no
search works while the pool is not being joined and that an ANSWER event ends the request;
`SilentAfterAnswer` follows because one step only writes that event (`Quiet`). For
`StaleNeverServed`, `Spoiled` (a file was replaced, nothing is answered yet, no result with data
waits to be answered) holds when a file is replaced before the last look, and every later step
keeps it. All of it for any list of product families.

The trail properties are proved rule by rule. `Framed`: the received event is first and alone,
the terminal last and alone, at most one answer. `Abstains`: while nothing is granted nothing
that executes is written, and an answer without data is decided there or for a batch whose
later plan is refused (`ControlAccepted`). `Tied`: what a relation request writes names its
plan. For the path itself, `Pathed` gives each place of a relation request the path its trail
has (`Tracks`): the prefix, then what the places before have added, one of the completed
executions after the composition, and once a boundary failed the path up to it and the boundary
(`Broken`), which is one of `PrefixesBefore`; or, when the composition broke unexpectedly, the
path without a boundary (`Unended`), whose last stage succeeded, so that the prefix rule is the
only one it offends. `Told` and `Closing` carry this through the
answer event and the terminal to the closed request, `Caused` ties the status of a result to
its cause, and `Related` says that a relation question gets a relation answer. From these
`KnowledgeTrailAccepted`: of a relation request the validator reports the known gaps only.
`PathOf` is a recursive function over the trail; that appending one event appends its key or
nothing (`PathAppend`) is first-order all the same, by the least position at which two such
functions would differ (`ChosenAgree`).

A product request is routed once, and what it compiles comes after that (`Ordered`). It compiles
the plans of its route, in the order of the route, in one step (`PlansCompiled`), so the plans
the validator collects from the trail are the route; this is where families have to differ. Every stage
executed later names one of these plans, except the verification of a cross-family answer,
which names none (`LinkedToRoute`, and the known gap). The searches of a batch interleave, so
the events of one plan stand anywhere among those of the others; `Staged` says for each family
that the first stages of its plan, as many as its own search has left behind, stand in the
trail one after the other (`Behind`), and a later event of any family moves none of them
(`Marks` is about positions). The pool is joined before the answer is composed and an
answer shows all families or none, so every plan of an answered request has all five
(`ServedProducts`): with that, each rule of `_validate_success_path` holds, and
`ProductTrailAccepted` follows.

Proved and no longer part of a run, because the proof covers every instance: `SingleFlight`,
`WorkWithinLimit`, `BarrierHoldsUnfinished`, and the type invariants; that of `AuditTrail` is
in a run too, because its bounds are those of the two counters and the observer's queue.

Only model-checked: every liveness property (`CallAnswered`, `WorkDrains`, `TerminalNotForgotten`,
`ShutdownEnds`, `RunEnds`, `ForcedPublishes`, `RequestEnds`): liveness under fairness and
`ENABLED` are out of the prover's reach.

## 6. Notes on the code

* `_entry_for` reads the clock before it takes the registry's lock (`request_execution.py:344`),
  so an entry whose replay time ran out while the call waited for the lock may still be
  replayed. No property denies it; `EvictedForCause` says that the old time drops no entry
  early.
* A GET looks at `future.done()` once before it waits (`request_execution.py:407`), so it may
  answer before the worker has run the callbacks of registry, slot and barrier; whoever waits
  with `wrap_future` is woken after the barrier's callback. `RequestExecution` and `AuditTrail`
  have both ways.
* A pinned connection that fails after its descriptor was matched and before its `try`
  (`pinned_sqlite.py:234-238`: two attributes and `PRAGMA query_only`, which reads nothing)
  would not be closed. `PinnedDatabase` has no action for it, so `NoDescriptorLeaks` does not
  speak of it.
* `start.sh` starts uvicorn without a graceful timeout, so the lifespan's shutdown begins
  after all request tasks are over; `AuditTrail` begins its shutdown there.
* The exit status of the final Compose `down` is not looked at; `UnrecordedIsKnown` is stated
  to allow what this leaves.
* A launcher killed between the hard link and the unlink leaves a snapshot with two links, and
  every later activation of that Binding is refused until the temporary file is removed.
* A pinned guard is never replaced: touching the database file refuses every later answer of
  that family until the process restarts.
* A release whose rename was undone by a host crash still serves; `durable` shows it.
* `flock` is to serialize Compose startup (`release_activation.py:380`,
  `agent-release-manifest.md:246`), but the lock is close-on-exec and dies with the broker
  while its Compose child works on. `SuccessIsTrue` holds all the same.
* The lock around pinned connections is to remove the reuse of descriptor numbers
  (`pinned_sqlite.py:207`, comment at 241-246), but health probes and approval checks open and
  close the same file without it, so a valid open may be given a number from the listing and
  is refused.
* The docstring of `PinnedSQLiteConnection` (`pinned_sqlite.py:76-81`) says that its check
  "cannot make an unapproved inode look authoritative". Together with such a foreign open it
  can: the file is switched after SQLite looked up where the guard's descriptor leads and
  switched back, so SQLite has opened another file, and a health probe opens the approved one
  before the second listing, where it is the one new descriptor of the approved file and is
  taken for SQLite's own (`doubtful` in `PinnedDatabase`: disturbed while it connects, and the
  approved file not in its own hands). `AnsweredFromApproved` makes this one exception;
  everything else that can be switched or opened is refused or harmless. TLC finds the trace
  when the exception is taken out.
* `KnownGaps` of `KnowledgeRequest` are the traces that the code really writes and the
  validator rejects: the verified cross-family answer (above); a batch whose later plan the
  execution policy refuses after an earlier one was authorised (`control_path_executed`, which
  a test of the validator demands of any control answer after an authority event); the
  terminal of a relation request whose caller aborted or timed out, or whose GET ended with a
  fatal error, where the transport writes its own outcome and not that of the answer event
  (`audit_validation.py:1585`); and a relation request whose composition ends with an error
  nobody expected (`knowledge_service.py:362-390`), which is left without a boundary event so
  that the validator rejects it (`routed_service.py:689-691`): `knowledge_failure_prefix_invalid`
  and no other code of the path. The two trail properties say that there are no others.
* `p0-10-public-relation-release-integration-handover-2026-08-20.md:523` says that the three relation files are created
  atomically; each is renamed on its own (`prepare.py:412`), a cut leaves a mixture, and an
  unforced rerun refuses it. Starts and lookups refuse a mixture too (`EvidenceOfOneRelease`),
  and `ForcedPublishes` shows the way out.
* An unforced preparation of a new data release replaces the databases first and is then
  refused at the relation release, until it is run with `--force`. What is left does not start.
* `verify_ready` records the versions of the databases after it verified them; a lookup does
  not rely on them and verifies all of them again.
* The state file of a preparation is not synced; after a host crash it may be empty, which is
  read as no state and leads to a rebuild or a refusal. Two preparations at once are not
  excluded by any lock; the model has one, as Compose starts one.
* A rewrite in place that keeps size and mtime would pass the stat versions of the two caches.
  No writer of the repository does this (all rename), so it is outside `PreparedData`;
  `PinnedDatabase` has such a change for the product path, whose gate refuses it.
* `RelationLookup` takes all datasets as bound by the relation release; the code binds three
  of its four (not the funds), whose databases no lookup reads.

## 7. Not modelled, and the plan

Not modelled because they are functions of one request's text, a plan and a database: parsers,
planning, linkers, SQL generation, the recomputation that verifies a result, wording of
answers, retrieval scoring, normalization. The request modules choose their outcomes freely.
Not modelled because they are checks of input files in one process: release identity, trust
verification (its outcome enters `ReleaseActivation`), CI, and the field formats, counts and
hash links of the audit validator. The evaluation harnesses (by far the largest part of the
source tree), load scripts and the rollback drill are run by hand and not part of the service.

In the modelled components these operations are left out: the non-atomic entry `answer()` and
the metrics of the Agent; aggregation and comparison plans, which have the stages of a search;
document plans of the knowledge agent, which the public route does not reach; the record cache,
which has the protocol of the identity cache; the permission pass of a preparation; the health
snapshot and failure latch of the shadow observer.

What follows, in this order:

1. `ShadowObserver`: failure latch, stored shutdown verdict, readiness; a shutdown that timed
   out stores its verdict and returns it again although the thread has drained since.
2. Two preparations at once over one volume, if a deployment is ever to allow it.
3. `RollbackDrill` over `ReleaseActivation`: what a resumed rehearsal may leave behind.
