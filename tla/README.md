# DeerNexus: a TLA+ verification project

DeerNexus is a multi-tenant gateway for long-running LangGraph agents. Several gateway
replicas share a SQL database and Redis; each replica keeps the runs it started in memory
and executes them as asyncio tasks. What makes the program hard is the same thing that
makes it useful: a run is at once a row that several processes may write, a record in one
process's memory, a task that can be cancelled at any `await`, a lease that can expire, and
a stream that somebody is waiting on.

This directory holds TLA+ modules translated from that code, TLC configurations that
check them on small instances, and TLAPS proofs of the most important results for every
instance. Paths below are relative to the repository root; `runs/` abbreviates
`backend/packages/harness/deerflow/runtime/runs/`.

## 1. Inventory

### The run core

| component | source | state | operations | interacts with |
|---|---|---|---|---|
| run state machine | `runs/transitions.py`, `runs/schemas.py` | none | `assert_run_transition`, `is_terminal_run_status` | called by `RunManager` before a status changes |
| `RunManager` | `runs/manager.py` | `_runs` (run id to `RunRecord`: status, `row_version`, abort event and action, task), one asyncio lock | `create_or_reject`, `set_status`, `cancel`, `update_run_completion`, `reconcile_orphaned_inflight_runs`, `shutdown` | writes the run table after it released the lock; cancels tasks |
| run table | `persistence/run/sql.py`, `model.py` | one row per run: status, `row_version`, cancel intent | `put`, `update_status` and `update_run_completion` (optional compare-and-set), `request_cancel`, `get_cancel_intent`, `list_inflight` | shared by all replicas |
| worker | `runs/worker.py` | a task per run, its heartbeat task | `run_agent`, `_run_lease_heartbeat` | `set_status`, lease store, stream bridge, checkpointer |
| lease | `runs/ownership.py` | a Redis key per run with a TTL | `claim`, `renew`, `release`, `get_holder` | worker (owner), reconciler (reader) |
| dispatcher | `runs/dispatch.py` | none | `submit` | `start_run` |
| reconcile worker | `app/gateway/reconcile_worker.py`, `deps.py` | a timer | one sweep per interval and one at startup | `RunManager.reconcile_orphaned_inflight_runs` |
| run requests | `app/gateway/services.py`, `routers/thread_runs.py` | none | `start_run`, cancel, `sse_consumer`, `wait_for_run_completion` | `RunManager`, dispatcher, stream bridge |
| stream bridge | `runtime/stream_bridge/` | per run: a bounded log of events and an ended mark (memory), a Redis stream and an end key (redis) | `publish`, `publish_end`, `subscribe`, `cleanup` | worker publishes, requests subscribe |

What is hard here: every manager operation changes memory under the lock and the row after
it, so two writers of one run interleave between the two; the reconciler of any replica is a
third writer that works from a listing that is already old; `task.cancel()` can arrive at
any `await` of the task, inside its handlers and its `finally` too; a lease can expire while
its owner is merely slow; a shutdown has a deadline; a crash can fall between any two steps.

What makes it correct: a terminal row never goes back to running and a completed run is
never relabelled; nobody's compare-and-set can succeed by accident; the sweep ends only what
is still in flight; one thread has one run in flight; whatever fails, every run ends; a
cancel that was accepted stops the agent; a subscriber sees the end of the stream, and sees
it for a run that really ended.

### The other components

| component | source | state and operations | hard behaviour, and what makes it correct |
|---|---|---|---|
| audit outbox | `persistence/audit/outbox.py`, `app/gateway/audit_worker.py` | outbox rows (pending, processing, published, dead_letter), claimed by one worker per replica, published to `audit_events`, retried with backoff, released when their claim is stale | a worker that outlives its claim, a transaction that raised after it committed, a crash in mid-pass; no event is lost, none is called published that is not recorded |
| audit archive | `app/gateway/audit_archive_worker.py` | a watermark, one object per batch, one manifest per day | replicas that export the same day, a pass that raises between two writes; what the watermark closes is archived |
| releases | `persistence/release/`, `app/gateway/release_resolver.py`, `release_gc_worker.py`, `routers/agent_artifacts.py` | version status, channel pointers moved by compare-and-set, release events, replay records | concurrent promotions, a request that is sent again, a replay record that was pruned, a revocation against a review or a resolution in flight |
| MCP session pool | `mcp/session_pool.py` | LRU of open sessions with per-key in-flight creation | eviction against use, close while another task initialises |
| memory queue | `agents/memory/queue.py` | debounced contexts, a timer, a processing flag | an update arriving while the batch is processed is not lost |
| subagent executor | `subagents/executor.py`, `tools/builtins/task_tool.py` | result holders shared by the task tool, a pool thread, the isolated loop and a deferred cleanup | a timeout, a cancel and a result that race; a terminal result is immutable, a job gives its pool thread back, the entry outlives those who look it up |
| sandbox providers | `community/aio_sandbox/`, `sandbox/local/` | per process active and warm sandboxes, containers shared by all processes, idle checker, replica limit | reaping and eviction against acquiring, two processes creating one sandbox, a crash that leaves containers behind |
| channel manager | `app/channels/manager.py` | queue of inbound messages, per-conversation tasks | ordering of replies, cancellation |
| run events and journal | `runtime/journal.py`, `runtime/events/store/` | buffered events, a sequence number per thread | concurrent appends, failed flush |
| thread metadata and rollback | `persistence/thread_meta/`, rollback in `runs/worker.py` | thread status, checkpoint lineage | the rollback of a displaced run against the run that displaced it |
| IAM and tenancy | `persistence/iam/`, `app/gateway/authorize*.py`, `tenancy/` | memberships, an authorisation cache | a revoked permission that is still cached |
| middlewares, models, tools, skills, doctor, frontend, deployment | various | little or none | sequential transformations and adapters |

`PROJECT.json` lists every component with its status, and under `hazards` the places of the
modelled code that are hard to test.

## 2. Modules

| module | models |
|---|---|
| `RunTransitions` | the status vocabulary, the legal edges, the guard |
| `RunLifecycle` | the run core: managers, table, lease, tasks, heartbeats, cancels, disconnects, sweeps, shutdown, crash, restart |
| `MCRunLifecycle` | the symmetry TLC may use |
| `RunLifecycleProofs` | types; the `row_version` fence and what follows from it; one run in flight per process; the end of the stream |
| `EventStream` | the promise of the `StreamBridge` interface, abstractly |
| `MemoryStream` | `MemoryStreamBridge`, shown to implement `EventStream` |
| `RedisStream` | `RedisStreamBridge`, shown to implement `EventStream` with an end that may overtake events |
| `StreamProofs`, `RedisStreamProofs` | the proofs of the two refinements |
| `AuditOutbox` | the outbox table, the publishers of all replicas, the ledger |
| `AuditOutboxProofs` | types, published events are recorded, dead letters are earned |
| `AuditArchive` | the daily export: export, object, manifest, read-back, watermark |
| `ArchiveProofs` | what a manifest and the watermark stand for |
| `ReleaseChannels` | version status, one channel under promote and rollback, replay records, the resolver |
| `ReleaseProofs` | types, the history of a channel, idempotency keys, revocation |
| `SubagentTasks` | the task tool, the scheduler pool, the execution and the deferred cleanup around a result holder |
| `SubagentProofs` | types, one outcome per task, the life of its entry, its usage |
| `SandboxPool` | the maps of `AioSandboxProvider` in several processes and the containers they share |
| `SandboxProofs` | types, active and warm are disjoint, creates do not race, every container is owned |
| `MCAuditArchive`, `MCReleaseChannels`, `MCSandboxPool` | the symmetries of these modules' runs |

### How RunLifecycle corresponds to the code

The model is one thread with a set `Runs` of run ids and a set `Replicas` of processes.

* `row[r]` is the row (`st` = `status`, `rv` = `row_version`, `intent` = the cancel intent's
  action), `mem[r]` the `RunRecord` in the memory of `home[r]`, with `abort` for the abort
  event and `action` for `abort_action`.
* `wpc[r]` is where `run_agent` is. The states that end in `_w`, and `fin_complete`, await a
  store write; `ww[r]` is that write, with the version it expects. Landing and resuming are
  one step, except when the task is cancelled while it awaits (below).
* `cw[r]` is the write a canceller still has to send: `cancel` with the version it captured,
  `create_or_reject` and `shutdown` without one (`exp = 0`). `LateWrite` sends it; for a
  `cancel` `LateSignal` then persists the intent as well.
* `lease[r]` says whether the ownership key exists; `hb[r]` is the heartbeat task: waiting for
  its tick, polling the intent, or off.
* `rec[p]` is the sweep of replica `p`: the versions `list_inflight` returned, the row it is
  at, and which check it is about to make.
* `Land` is `update_status` / `update_run_completion`: without an expected version the update
  is unconditional and leaves `row_version` alone; with one it succeeds on equality and
  advances it.
* `SetStatus` is `set_status` under the lock, `AfterCancel` and `StopTasks` are
  `task.cancel()`: a task not yet started or outside the `try` just ends; inside the `try` it
  enters `except CancelledError`; inside a handler it goes on to `finally`; inside `finally`
  it skips the rest. The request the task was awaiting did or did not take effect (`land`).
  The agent may swallow the error (`keep`).
* The faults an environment may inject are a constant, and `MaxFaults` bounds them: crash,
  graceful shutdown (`drain`), an error of the dispatcher, of the lease claim, of a renewal,
  of the release, of the holder lookup, of the store, and a stall of the process beyond the
  lease TTL. A store call that fails may have been applied; only its answer is lost.

Decisions a reader may want to challenge:

* A task that is cancelled while it awaits a store write resolves that write in the same step.
  A commit that was already sent precedes every later write of the row; otherwise it is
  rolled back. A late commit after the task went on is therefore not a separate case.
* The dispatcher is in-process, so a run is executed only by the replica that created it and
  `claim` meets a free key: the lost-claim branch of `run_agent` is unreachable and left out.
  For the same reason a restarted process never resumes a run.
* Rows are never deleted (`RunRepository.delete` has no caller), so the branches of
  `_persist_status` and `update_run_completion` that recreate a missing row are left out.
* `create_or_reject` holds the lock from the check to the insert, so it is one step; only the
  writes for the displaced runs come later.
* A cancelled waiter for the manager's lock is covered because the states `cancelled` and
  `failed`, which wait for it, can themselves be cancelled.
* A sweep starts only when it would find a row; an empty sweep changes nothing.
* Token counters, progress updates, event payloads, tenants and users are data no property
  here tells apart.

### How the stream modules correspond to the code

Both modules model the stream of one run, its producer and a set of `Subscribers`: clients
that subscribe, afresh or with the last event id they received, leave, and come back. Events
are numbered in the order of publication, so a log with its head evicted is an interval:
`start_offset + 1 .. tail` in `MemoryStream`, `lo + 1 .. hi` in `RedisStream`. `got[s]` is the
last event the client has, the cursor (`next_offset`, `cursor`) is the generator's.

* `MemoryStream`: a turn of the generator's loop runs under the condition's lock without an
  `await`, so it is one step: `Deliver`, `Finish` or `Wait`. A waiting generator goes on when it
  is notified or by `Heartbeat`, the timeout. `cleanup` removes the stream from the table while
  generators may hold it; `ref[s]` says whether a generator holds the stream of the run or the
  empty one that a later subscriber creates. `ProducerLost` is a worker that left without
  `publish_end` in a live process: the claim raised outside the `try`, or a cancellation landed
  before it or inside `finally`.
* `RedisStream`: each Redis command is a step. `XREAD` and the `EXISTS` of the ended key are two
  steps, and so are the entries of one answer, which are yielded one by one. A command that
  fails but was applied is the same step as one that succeeds, because the bridge does the same
  afterwards; `Fault` is the command that was not applied. `MAXLEN ~` may keep more than
  `MaxLen`, so the amount trimmed is a choice. `Expire` is the TTL, `ProducerLost` a crash of
  the producer or a task that was cancelled before `publish_end` (`RunLifecycle` shows it can).
* `EventStream` has the same clients and nothing else: a delivery is the next event, or a later
  one if the ones between were evicted; `SFinish` needs everything retained to be delivered,
  `SFinishEarly` does not. The mapping forgets which of its steps a generator is in.

The revalidation of a client's authorisation between events ends a stream like a disconnect
does, and is not told apart from it. An event the generator handed over after the client left
is not counted as received, which is the disconnect one step earlier.

### How AuditOutbox corresponds to the code

`status`, `attempts`, `ready` (`available_at` has come) and `aged` (`updated_at` is older than the
stale window) are the columns of a row; `ledger` is `audit_events`. `pc[w]` is the statement of
`drain_audit_outbox` that the worker of replica `w` is at, `held[w]` what it claimed and has not
handled, `cur[w]` the row in hand. Every transaction is a step and may raise, with its commit
landed or not (`Fault`); what the worker does next follows the handlers: a failed claim ends the
pass, an exception of the insert goes to `_safe_mark_failed`, an `IntegrityError` to
`mark_outbox_published` inside the handler, from where a second exception leaves the pass.

* `Claim` is one step, as `FOR UPDATE SKIP LOCKED` makes it on PostgreSQL. The SQLite branch
  selects and then updates; it is meant for one process, and two processes on one file could
  claim the same row.
* Neither mark is conditional on the claim: they update by row id. `MarkFailedRead` and
  `MarkFailedWrite` are two steps, because the row is read and written back by the unit of work,
  which sends only the columns that changed. A worker whose stale claim was taken over can
  therefore move a published row back to pending; `EventuallySettled` shows that it does not stay
  there, and `PublishedIsRecorded` that the ledger has the event all along.
* Undecodable payloads are a constant set; they skip the insert and go to `mark_outbox_failed`.

### How AuditArchive corresponds to the code

Days are numbers, and a pass exports the day before the one it started in. `rows[s]` is what
`_export_window` returned, `objects` the sequence of batches in the store (the batch id is random,
so each put is a new object), `manifest[d]` the batch named by the manifest of day `d`, which is
overwritten, `verified` the batches that were read back. `SweepRaises` is any exception, or the
death of the replica, between two writes. `Record` is the outbox worker's insert, on the day of
the event or, after a backlog, later.

### How ReleaseChannels corresponds to the code

One package, one channel. Requests are transactions at READ COMMITTED and each query is a step:
the replay lookup, `get_or_create_channel` (with the wait on the unique index while another
transaction inserts the row: `creator`), the gate, and `Move`, which is everything from the
compare-and-set to the commit, because the transaction holds the row lock in between. `events` is
`release_events` in commit order, `record[k]` the event whose response is stored for replay under
key `k`, and `pruned` remembers which records the daily sweep deleted. Reviews, publications and
revocations read the status and update the row by its id in two steps (`vreq`). The resolver reads
the pointer and the version in two sessions.

* Rollback and promote differ in the audit action only: both take a target version, both go
  through the gate, so they are one action.
* A client's `If-Match` is a version the channel had, or runs ahead by at most `Lookahead` (a
  client that pipelines its next request).
* `everRevoked` and `ahead` are history, read by properties only.

### How SubagentTasks corresponds to the code

`status`, `cancel` and `records` are the fields of a `SubagentResult`; `entry` the ids in
`_background_tasks`. `job[t]` is `run_task` on the scheduler pool (queued, waiting for the future,
the three steps of the timeout branch), `exec[t]` is `_aexecute` on the isolated loop, `tool[t]` the
polling loop of `task_tool`, `cleaner[t]` `_deferred_cleanup_subagent_task`. `journal[t]` says
what became of the usage in the parent's journal: nothing yet, recorded, or refused because no
recorder was found or it raised, which the code only logs. `answer[t]` is how the tool ended.

* `RunTask` sets `running` without looking at the status, as the code does: it relies on nobody
  ending a task before its job ran, which `AnswerIsFinal` would catch.
* A cancelled tool waits once more for the task (`AwaitEnds`), reports what usage there is, and
  only then tests whether the task is terminal (`CancelledToolLeaves`), which removes the entry
  or starts the deferred cleanup. The execution runs on another thread and may end between the
  two, so they are two steps.
* `CancelFuture` may or may not reach the coroutine; a `CancelledError` is not caught by
  `_aexecute`, so nothing is written then.
* A task id is the `tool_call_id` and is used once; a model that repeats an id is not modelled.

### How SandboxPool corresponds to the code

`active[p]` is `_sandbox_infos` (with `_sandboxes` and `_thread_sandboxes`, which change together
with it), `warm[p]` is `_warm_pool`. `running[s]` is the container that has the name of sandbox
`s`, numbered, so that a recreated container is another one. `acq[p][s]` is the acquire call under
the thread's lock: the first look, the health check outside the lock, the second look, the drop of
an unhealthy entry, the same for the warm pool, the file lock and both looks again, discovery,
eviction, creation, readiness. `condemned[p]` and `doomed[p]` are the gap between a decision of the
idle checker (or `shutdown`) and the call of `destroy`, and between taking an entry off the maps
and stopping the container. A stop goes by the container's id if `create` made the info and by
name if it was discovered or adopted (`Targets`).

* `missed` is history: containers left behind by a stop that failed (the code only logs it), an
  acquire cancelled while it creates or waits for readiness, or a start that could not list the
  containers.
* `docker run` and `docker stop` are one step each. `Cancel` is a cancellation of `acquire_async`
  at an await. Its `finally` clauses release the file lock and the thread lock at once, while the
  thread that runs the command goes on: a stop becomes a pending one (`doomed`), a create one that
  nobody waits for (`stray`), which makes its container later or never (`StrayCreate`). A process
  that dies leaves its creates in the same way. `orphans` are the containers made like this. The
  number of such a container is given out when its call goes, so numbers stay bounded by the
  acquires. Not modelled: a call cancelled while its thread looks at the maps.
* The count of `_replica_count` and the pop of `_evict_oldest_warm` are two critical sections, and
  two steps (`CheckReplicas`, `EvictWarm`).
* Release times are left out: any warm sandbox may be the oldest, any entry may be idle.
* Each sandbox belongs to one chat thread (the id is a hash of it); sandboxes acquired without a
  thread have random ids and are never shared.

## 3. Runs

The runs of `RunLifecycle` use one or two replicas and one or two runs. Two replicas are what it takes for a
writer that is not the owner; one run is enough for the fence, because rows of different runs
share nothing but admission, and the second run is there for the runs that check admission and
displacement. Two faults in one behaviour cover every pair (a stall and a lost write, a crash
after a failed renewal, and so on). Safety runs use symmetry; liveness runs do not. Deadlock
is not checked: when every run is over and the faults are spent, the system really stops.
`audit_outbox` and `release` check it: a worker loop never ends, and requests and reviews always
can. `audit_archive`, `subagent` and `sandbox` stop when their bounds are used up.

The stream runs use two clients, a buffer of two events and three or four events, so that the
buffer overflows while a client is behind, and again after it resumed. Clients do not interact
except through `notify_all`, so two are enough. An `XREAD` returns at most two entries, so that
an answer can be trimmed away while it is in hand and a full answer is not the whole log.

The bounds of the other modules: two workers and two failing transactions are what it takes for a
worker to lose its claim and then fail on the row, and with a threshold of two for a dead letter;
three events with an export limit of two fill and overfill a day, and three days let a slow pass
meet one that is a day ahead; two moves and two clients let a move be replayed, lost to a
compare-and-set and chained to another; two tasks on one pool thread let one be queued behind the
other, and one poll is enough for every poller to give up in any of its states; three acquires of
two sandboxes with a limit of one force evictions and let a container be recreated while somebody
holds its old entry.

| run | checks | shows |
|---|---|---|
| `run_cas` | `TypeOK`, `VersionsBehind`, `StaleWritesFenced`, `EndsUnlessAborted`, `NeverRevived`, `TerminalImmutable`, `ReconcileOnlyInflight` | one run, two replicas, every cancel and disconnect, both sweeps, any two faults except a shutdown: the compare-and-set arbitrates every race, and a task that is not aborted ends its stream in a terminal state |
| `run_multitask` | `AtMostOneInflight`, `SuccessIsFinal` | two runs, reject and rollback creates: one run in flight per process, and the unversioned writes for displaced runs relabel no success (that they revive nothing is proved, section 4) |
| `run_converge` | `EventuallyTerminal`, `SuccessIsFinal` | every fault kind, a shutdown included: each created run becomes terminal for good, and no shutdown relabels a run that completed |
| `run_intent` | `IntentStopsRun` | an agent that would stream for ever is stopped by a durable intent from another replica |
| `stream_memory` | `TypeOK`, `NoMissedWakeup`, `KeepsStreamPromise`, `ServedToTheEnd` | the memory bridge implements `EventStream!SSpec`; no generator sleeps while there is something for it; whoever holds the run's stream, cleaned up or not, is served to the end, or, if the worker left without `publish_end`, all that was published |
| `stream_redis` | `TypeOK`, `KeepsOrder`, `ServedWhileKeysLast` | the Redis bridge implements `EventStream!SSpecEarly` under a failing command, trimming, expiry, cleanup and a lost producer; clients are served to the end as long as the ended key is there |
| `audit_outbox` | `OutboxTypeOK`, `PublishedIsRecorded`, `DeadLetterIsEarned`, `EventuallySettled` | two workers, a decodable and an undecodable event, two failing transactions, a crash: nothing is marked published that is not recorded, crashes and releases cost no retries, every row settles for good |
| `audit_archive` | `ManifestComplete`, `WatermarkVerified` | two replicas, three days, three events of which two fit an export: whatever they overwrite of each other's, a manifest and the watermark stand for an object with all that was recorded before the day closed, on days that fit one export |
| `release` | `TypeOK`, `PointerMatchesHistory`, `HistoryChains`, `OneMovePerKey`, `RevokedNeverServed` | two clients with and without a key, a reviewer, pruning, aborts: the channel is where its history says, the history is a chain, a key moves it once, a revoked version is not served |
| `subagent` | `TypeOK`, `AnswerIsFinal`, `EntryOutlivesUsers`, `UsageReachesJournal`, `EveryJobEnds`, `EntryReclaimed` | two tasks on one pool thread, so that a task is cancelled, given up or cleaned up while it is queued, running or timing out; the usage of a task is lost only where the tool left before it was there, or the journal refused it |
| `sandbox` | `TypeOK`, `ActiveOrWarm`, `NoCreateRace`, `EveryContainerOwned` | two processes, two sandboxes, a limit of one, three acquires, two crashes or shutdowns, cancellation at every await of an acquire: the maps stay disjoint, the file lock keeps creates apart except from those whose caller is gone, no container is forgotten but those a failed or cancelled step left |

One run shows where the code does not keep what the repository says of it (its finding in
`PROJECT.json` quotes the lines):

| run | violated | what happens |
|---|---|---|
| `bad_unrevoked` | `RevokedNeverServed` | with two reviewers, a `:publish` that checked the status before a `:revoke` committed writes `published` over it; the revoked version is resolved for new runs again |

`release` checks the same property with one reviewer: revocation against promotions, rollbacks,
replays and resolutions in flight is safe, only a concurrent status change of the same version
undoes it.

Disagreements that a change of constants shows, without a run of their own:

| change | then fails | what happens |
|---|---|---|
| `run_cas` with `"drain"` in `FaultKinds` | `NeverRevived` | a shutdown writes `interrupted` without advancing `row_version`; a status write of the task that is still in flight matches and the row is `running` again (`runs/manager.py:1093`, against `runs/transitions.py:16`) |
| `run_multitask` with the `interrupt` strategy and `TerminalImmutable` | `TerminalImmutable` | an interrupting create overwrites a row the sweep already ended (`runs/manager.py:852`, against `runs/transitions.py:15`) |
| `run_converge` with one replica and the fault `"claim"` | `EventuallyTerminal` | a run whose lease claim raised stays `pending` for ever: the sweep takes its status for a live task (`runs/manager.py:958`, against `:883`) |

Other disagreements met while modelling the run core and the streams: a sweep between the insert of
the row and the claim of the lease ends a run that is about to start (`runs/manager.py:966`, against
`app/gateway/reconcile_worker.py:5`); a subscriber on another replica that disconnects leaves a
durable cancel intent (`app/gateway/services.py:584`); the last event and the end of a Redis stream
can both land between an empty `XREAD` and the `EXISTS`, and the client gets the end without the
event (`stream_bridge/redis.py:237`, against `:29`), which is why `RedisStream` is shown to
implement the weaker `SSpecEarly`; two replicas both admit a
`reject` run of one thread, because admission looks at one process's memory
(`runs/manager.py:793`, against `:776`); a task cancelled inside `finally` skips `publish_end`
(`runs/worker.py:610`, against `:353`); one failed renewal ends the heartbeat and with it the
only delivery of a cancel intent (`runs/worker.py:191`, against `runs/manager.py:674`), which is
why `run_intent` injects no faults; a run cancelled with `interrupt` after `create_or_reject`
and before `record.task` is set is dispatched all the same and ends as `error`
(`runs/worker.py:593`, against `runs/transitions.py:48`); a client that joins a finished run
after its stream was cleaned up (60 s, or the TTL) gets an empty stream that never ends, on
either bridge, as does every client of a run whose producer was lost, in a live process too,
because nobody else publishes the end (`runtime/stream_bridge/base.py:59` promises the end only once
`publish_end` was called); `runs/manager.py:607` says no-op self transitions are
rejected, `runs/transitions.py:72` allows them.

Met in the other components: the watermark is "only advanced forward" by its docstring, but the
upsert of a slow pass sets it back; a day with more rows than one export is cut off, and an event
recorded after its day was exported is never archived; a repeated export writes another object
under a new batch id and the manifest may name an object whose read-back failed
(`ManifestComplete` and `WatermarkVerified` state what remains). Two first promotions of a channel without
a key meet on the unique index and one is answered with a 500; a concurrent retry under one key is
answered by the CAS miss (409) rather than a replay; an `If-Match` that runs ahead can record a
`from_version_id` that was already replaced (`HistoryChains` excludes it). The usage of a subagent
is lost when it times out, when its tool gives up or is cancelled before the usage is there, when
the execution sets it between the report of a cancelled tool and its test for a terminal status
(`task_tool.py:438` and `:439`), and when the recorder is missing or raises (`UsageReachesJournal`
states what remains); an exception in the polling loop leaves the entry and the running subagent behind
(`EntryReclaimed` excludes it). Another process adopts a container that is in use and its idle
checker stops it, and a warm container can be stopped by eviction just after its thread rediscovered
it; a stale health check followed by a stop by name can stop a container that was recreated; an
`acquire_async` cancelled while it creates releases both locks although `docker run` goes on
(`aio_sandbox_provider.py:859` and `:792`), so that another call, of any process, discovers nothing
and creates as well, and whichever comes later meets its name in use; the container of the
cancelled call is tracked by nobody until an acquire discovers it or a process starts
(`NoCreateRace` states what remains: only such a create gets in between);
`SandboxMiddleware` says the sandbox is not released after each agent call, and releases it.

### Fairness

`Scheduling` is weak fairness of each step of a task (asyncio runs what is ready), of the
heartbeat and the sweep (timers of a live process), of key expiry (Redis), and of restart (an
orchestrator restarts a process). `StreamsEnd` adds that an agent's stream ends; without it
(`OpenEndedSpec`) only an agent whose abort event is set yields another chunk and leaves the
loop. Requests and faults are never fair.

The stream modules assume that the event loop runs the generators of connected clients.
`MemoryStream` assumes nothing else: `publish_end` may never come and the cleanup never happen.
`RedisStream` adds that a producer that is not lost calls `publish_end`; expiry and cleanup are not
fair.

`AuditOutbox` assumes that each publisher loop goes on (it catches everything and sleeps) and that
time passes (backoffs end, claims age); enqueues, faults and crashes are not fair. `SubagentTasks`
assumes that pool threads run, that the parent's loop runs the tool and the deferred cleanup, and
that `result(timeout)` returns; the execution itself may hang for ever, and `EveryJobEnds` holds all
the same.

## 4. Proofs

Every safety invariant, action property and refinement that a passing run checks is also proved,
for every value of the constants; what the proofs leave to TLC is liveness. Each module of proofs
rests on the named assumption of the module it extends (the shape of the constants), which TLC
evaluates in the runs. The inductive invariants were checked by TLC on the runs' instances before
they were proved.

### The run lifecycle

`RunLifecycleProofs`, from `LifecycleAssumption`, for every set of replicas and runs, and every
mix of cancels and disconnects. What an environment must not do differs:

| theorem | property | faults and strategies |
|---|---|---|
| `TypeCorrect` | `TypeOK` | all |
| `VersionsNeverAhead` | `VersionsBehind` | all |
| `SuccessNeverRelabelled` | `SuccessIsFinal` | all |
| `OneInflightPerReplica` | `AtMostOneInflight` | all |
| `EndsArePublished` | `EndsUnlessAborted` | all |
| `StaleWritesAreFenced` | `StaleWritesFenced` | no graceful shutdown |
| `TerminalNeverRevived` | `NeverRevived` | no graceful shutdown |
| `TerminalIsImmutable` | `TerminalImmutable` | no graceful shutdown, no displacing strategy |
| `SweepsOnlyInflight` | `ReconcileOnlyInflight` | no graceful shutdown, no displacing strategy |

The hypotheses are needed: section 3 lists what happens without them. A shutdown, and a create that
displaces a run, write a status without a version, so those two are exactly what a deployment must
avoid for the stronger statements.

The fence is one inductive invariant, `FenceInv` (theorem `FenceHolds`), whose parts say under
which hypothesis they hold: `RunInv` is `BaseInv`, with `CalmInv` if nobody shuts down (`Calm`),
and `ExactInv` if every write carries a version (`Exact`).
`NeverRevived` is not inductive. A step revives a row exactly when a write of `pending` or
`running` lands on a terminal row, so the invariant has to say why such a write cannot match:

* a write in flight carries the record's status and a version the row has had;
* whenever the row is terminal and the record is not, the row has moved past the version of
  the record and of the write: whoever ended the row (the sweep, or a cancel whose answer was
  lost) advanced it (`CalmInv`);
* the unversioned writes do not advance it, so they must only be pending while the record is
  itself `interrupted` or `error`: `create_or_reject` sets the record before it writes, and
  from there no legal edge leads back;
* a row is `success` only if its record is, for as long as its process lives, so a write for a
  displaced run, which was pending or running when it was displaced, never meets one;
* what a sweep listed is a version the row has had, and if the row is terminal at that very
  version it can only be `interrupted` (`SweepInv`), so the sweep's own write is harmless too.

With shutdowns `SuccessIsFinal` needs one fact more, `DrainInv`: a run that a shutdown cancelled
keeps its abort event and cannot become `success` before the second half of the shutdown writes
`interrupted` over its row, because every status that the task of an aborted run sets is
`running`, `interrupted` or `error`. Under `Exact`, `ExactInv` says that whoever holds the version
of a terminal row knows its status (its own status is reachable from it by legal edges) and that a
cancel in flight holds an older version; a sweep's listing is older too, hence
`TerminalImmutable` and `ReconcileOnlyInflight`.

`RunKept` is the step form: the invariant is kept, the row moves as `RunSafe` allows, and
`RowMoves` describes the move, which is all the sweeps need (`SweepFrame`).

Admission and the end of the stream have invariants of their own. `NotTaken`: no step but a create
takes a run into flight, and a create leaves no other in flight. `EndInv`: a task of a run nobody
aborted is never in the cancelled handler, has a terminal status in all states from its final
write on, ends early only before its first write, and has published the end only when it is done.
Its key step is that everybody who cancels a task sets the abort event of its run as well.

### The streams

Two modules prove the refinements of the streams for any number of subscribers, any buffer
size, and any number of events and faults, from `MemoryAssumption` and `RedisAssumption`:

* `NobodySleepsThrough` (`NoMissedWakeup`) and `MemoryKeepsPromise` (`KeepsStreamPromise`, that
  is `Spec => Abstract!SSpec`). The refinement needs to know that a generator's cursor and its
  client's last event agree: the two are equal, or both lie before the retained window
  (`CursorInv`), so that clamping the cursor skips evicted events only.
* `RedisKeepsOrder` (`KeepsOrder`): with `PlaceInv`, the client of an open generator is exactly
  at the cursor, or entries of an answer are being handed over and everything up to the cursor
  was evicted before it.
* `MemoryTypes` and `RedisTypes`: the type invariants of both.

### The other components

`AuditOutboxProofs`, from `OutboxAssumption` (a positive threshold, finitely many workers):

* `OutboxTypes` (`OutboxTypeOK`).
* `NothingPublishedUnrecorded` (`PublishedIsRecorded`). `RecordedInv` adds that a worker about to
  mark its row published, after its insert or after the duplicate was reported, has the event in
  the ledger, from which nothing is ever removed; so it does not matter who holds the claim.
* `DeadLettersAreEarned` (`DeadLetterIsEarned`). Several workers can be on their way to charge one
  row, and the write back of `mark_outbox_failed` uses the count it read earlier. `BudgetInv`
  counts them: the attempts of a decodable row, in the table or in the hand of such a worker, plus
  the number of workers still to charge it (`Failing`), never exceed the transactions that raised.
  Two steps change that number by one, hence the lemmas on cardinality.

`ReleaseProofs`, from `ReleaseAssumption`:

* `ReleaseTypeCorrect` (`TypeOK`), the state split into what the clients, the channel, the
  reviewers and the resolver own.
* `PointerFollowsHistory` (`PointerMatchesHistory`) and `HistoryIsAChain` (`HistoryChains`), from
  `HistoryInv`. The `from_version_id` of a move is read before its compare-and-set, so the
  invariant (`ReadIsCurrent`) says when it may be trusted: a request whose `If-Match` the channel
  had when it was sent, and which still matches, began at this `row_version`, hence nobody moved
  the channel in between.
* `KeysMoveOnce` (`OneMovePerKey`), from `KeyInv`: the key of every move has its record, unless it
  was pruned (`Retained`), so a later request under the key finds it.
* `RevokedStaysUnserved` (`RevokedNeverServed`), for `prod` and at most one reviewer at a time:
  then a transition that was checked is still legal when it is written (`RevokedInv`). The
  hypothesis is needed, as `bad_unrevoked` shows.

`SandboxProofs`, from `SandboxAssumption`:

* `NeverActiveAndWarm` (`ActiveOrWarm`). A call registers a sandbox long after it looked at the
  maps, outside their lock. `CallInv` states, for every position of a call, what it may still rely
  on: an entry it looked at is the one it saw or is gone, and where it found none, there is none,
  because whatever runs beside it can only take entries off or park the active one (`Shrinks`), and
  a second call for the sandbox waits for the thread's lock.
* `CreatesNeverRace` (`NoCreateRace`), from `LockInv`: a call beyond both maps holds the file lock,
  one call at a time holds it, so the only container that can appear under its name after its
  discovery is its own or one of the `orphans`. `StrayInv`: the creates without a
  caller, and the `orphans`, have numbers that were given out, so no later call is given one of them.
* `SandboxTypes` (`TypeOK`). That container numbers stay within the bound is not local: `InfoInv`
  says that entries and infos in hand are of containers made so far and about the sandbox they are
  filed under, and `CountInv` that the containers made, plus the calls that may still make one
  (`Pending`), are at most the acquires that began; a cancelled create keeps the sum, because its
  number counts as made from then on.
* `ContainersAreOwned` (`EveryContainerOwned`), from `OwnedInv` on top of `PoolInv` and `InfoInv`:
  something in some process leads to each running container (`Leads`), and every step that lets
  go of it hands it on: the eviction to the stop it is about to call, the wait to the map, a failed
  stop to `missed`, a dead process to the next start, a cancelled call to a pending stop or to
  `missed` (`Owning`).

`SubagentProofs`, from `SubagentAssumption`: `SubagentTypes` (`TypeOK`), `AnswersAreFinal`
(`AnswerIsFinal`), `EntriesOutliveUsers` (`EntryOutlivesUsers`) and `UsageIsReported`
(`UsageReachesJournal`), from one invariant per task (`TaskInv`) that says what its threads know of
each other: a queued job is `pending`, so that `run_task`, which sets `running` without looking,
overwrites no outcome; the entry goes only with a terminal status; while the tool polls nobody else
removes it, and the deferred cleanup starts only when the tool is done. `UsageIsReported` adds
`UsageInv`: a terminal status comes with the records of what was spent, unless it is `timed_out`, and
a tool that answers with the outcome, or was cancelled and saw the task end, reported after the
status was terminal. `Apart`: a step of one task
leaves all others alone.

`ArchiveProofs`, from `ArchiveAssumption`: `ManifestsAreComplete` (`ManifestComplete`) and
`WatermarkIsVerified` (`WatermarkVerified`), from `ArchiveInv`. Replicas overwrite each other's
manifests and a slow pass sets the watermark back, so nothing can be said of who wrote last; the
invariant says instead that every object ever put is `Sound`, it has what was recorded of its day
before the day closed, and that whatever a pass holds at its place (`SweeperInv`) is such an object
of its own window. `Sound` is stable because a day that is closed gets no further prompt event, and
late ones can only make the day exceed an export. The events of the model are assumed finite, as
those of a table are; the cardinality of a window needs it.

### Only model-checked

`EventuallyTerminal`, `IntentStopsRun`, `ServedToTheEnd`, `ServedWhileKeysLast`,
`EventuallySettled`, `EveryJobEnds` and `EntryReclaimed`: liveness needs fairness and `ENABLED`,
which are out of the prover's reach. The environments that a theorem excludes are not open
questions, the property fails there: section 3 shows it for shutdowns and for displacing creates,
and a sweep that listed a run before a displacing create wrote `interrupted` over its row, at the
same version, turns that row into `error` (`ReconcileOnlyInflight`).

## 5. Plan

Modules still to write, each with its hazards first:

1. `ThreadRollback`: the rollback of a displaced run's checkpoint against the run that displaced
   it. `create_or_reject` and `cancel` do not wait for the old task, so the rollback can land after
   the successor wrote: the question is which of the two states the thread ends with.
2. `EventJournal`: buffered flushes and sequence numbers per thread, with concurrent appends.
3. `MemoryQueue` and `McpSessionPool`: one process, a timer or tasks interleaving with close.
4. `ChannelDispatch`: per-conversation dispatch of inbound messages.

Theorems worth proving next: what remains of the fence when processes are shut down gracefully (the
row is revived only by the write of a task that was in flight when the shutdown wrote); the
adoption of a container by another process; and the safety properties of the modules above.

## 6. Not modelled

Prompt and message middlewares, model and tool adapters, skills, the frontend, docker and
migrations: sequential transformations or I/O without shared state. Request parsing,
authentication and tenancy are request-scoped checks of rows; the authorisation cache is a
candidate for later. Inside the modelled components: creation and import of release packages and
their content store, the synchronous `execute` of subagents and the shutdown of their loop, the
local and remote sandbox backends, sandboxes without a thread, ports. The components of section 5
that have no module yet are listed as `not_modelled` in `PROJECT.json`.
