# Agentic QE: a verification project

TLA+ models of the stateful parts of Agentic QE: the Queen Coordinator with its
queues, work stealing and circuit breakers; the A2A task server with its push
notifications and their retry queue; the replicated data types and their store;
and the claim service. With them the TLC configurations that check them, and
TLAPS proofs of the properties that hold for every instance.

The program is TypeScript on one JavaScript event loop. Code between two
`await`s is atomic; at an `await` any other ready coroutine may run. All
concurrency in the models is of that kind: an action is the code from one await
to the next, and a suspended call is a record that names its await.

## 1. Inventory

Paths are below `src/src/`.

| Component | State | Operations | Interacts with | What makes it correct |
|---|---|---|---|---|
| **Queen: queues** (`coordination/queen-task-management.ts`, `shared/utils/binary-insert.ts`) | one queue per priority, one list per target domain | enqueueTask, removeFromQueues, shift | read by placement and stealing | both indexes hold the same tasks; each priority queue is in order of creation; no task is lost |
| **Queen: lifecycle** (`coordination/queen-*.ts`) | `tasks` (execution records), `runningTaskCounter`; the waiting tasks saved at shutdown | submitTask, processQueue, assignTask, completion callback, TaskCompleted / TaskFailed / domain events, cancelTask, triggerWorkStealing, cleanup, initialize, dispose | plugins (call and callback), agent coordinator (call), breakers (call), router (events) | never more running tasks than the limit; slots neither leaked nor given back twice; queued tasks finish; retries are limited |
| **Domain circuit breakers** (`coordination/circuit-breaker/`) | per domain: state, failures, time of opening, probe successes | canExecute, execute, recordSuccess, recordFailure, forceOpen, reset, cascade | asked by the Queen before an assignment; fed by its event handlers | a full timeout before probing; closes after a streak; never stuck open; cascades are complete |
| **Agent coordinator** (`kernel/agent-coordinator.ts`) | agents and their status | spawn, stop, canSpawn | the Queen | the limit holds; every agent is stopped |
| **Domain plugins** (`shared/base-domain-plugin.ts`, `domains/*`) | health, handlers in progress | executeTask, runTaskAsync, dispose | the Queen's callback | one report per accepted task |
| **MCP handlers and task executor** (`mcp/handlers/handler-factory.ts`, `coordination/task-executor.ts`) | none of their own | submitTask, then execute and publish the outcome | Queen, router | one execution per task |
| **Router and event bus** (`coordination/cross-domain-router.ts`, `kernel/event-bus.ts`) | subscriptions, correlations, history | subscribe, publish, route | everything | each subscriber gets each event once; bounded history |
| **Claims** (`coordination/claims/`) | claims with status, claimant, expiry; pending handoffs; agents' activity | create, claim, release, steal, handoff, updateStatus, expireStale; request, complete, cancel a handoff | repository (async), timers, event bus | a claim is free when it is claimed; time runs only for a claim that somebody has; overdue claims are taken away; pending handoffs are bounded |
| **A2A tasks** (`adapters/a2a/tasks/`, `mcp/http-server.ts`) | tasks, history, artifacts, update times | create, transition, artifacts, evict, expire; streamed requests with a timer and an abort signal | HTTP clients, agents, notifications | a request that is over leaves no task working; errors and cancellation leave no half-made task behind |
| **A2A notifications** (`adapters/a2a/notifications/`) | subscriptions with failure counts and a status index; retry queue, deliveries in flight | notify, deliver, enqueue, processQueue, reschedule, remove, evict, cleanup | HTTP, task events | no notification forgotten, none repeated after its acknowledgement, none revived after removal; bounded queue and attempts |
| **CRDTs** (`memory/crdt/`) | register, counters, set; a store of them with versions and a delta history | local update, merge, full state, delta | other replicas, by snapshots | each replica is what the operations that reached it make it; deltas leave nothing out |
| **Workers** (`workers/`) | timers, abort controllers, status | start, stop, runNow, schedule | kernel | no overlapping runs; none after stop |
| **LLM breaker, failover, retry** (`shared/llm/`, `shared/retry-engine.ts`) | breaker, provider order | execute, fail over | HTTP | bounded half-open probes; a working provider is found |
| **Infrastructure healing** (`strange-loop/infra-healing/`) | locks with a time to live | acquire, release, recovery cycle | services | one recovery of a service at a time |
| **Task DAG** (`coordination/task-dag/`) | nodes, edges, status | add, schedule, complete, fail | executor | acyclic; a node runs after its predecessors |
| **Workflows and protocols** (`coordination/workflow-orchestrator.ts`, `protocol-executor.ts`) | executions, step results | execute, pause, cancel, rollback | domains | steps in order; one terminal state |
| **Teams, scaling, federation, hypotheses** | mailboxes, pools | send, scale, route | Queen (observers) | no message lost in routing |
| **Transport, kernel, memory, sync, CLI, learning, domains** | sockets, databases, patterns | I/O and computation | | left out, see section 7 |

What is hard in the Queen:

* **Interleaving.** A submission suspends at the governance check, then at the
  routing, the spawn, the `TaskAssigned` event and the plugin's acceptance.
  Completions, cancellations, thefts and other submissions run in between, and
  each touches the counter, the queues or the record.
* **Two ways to finish.** A plugin reports through a callback; an outside worker
  or the MCP executor through an event. The callback and the event handlers
  differ: only the callback stops agents and ignores the record's status, and
  only the events feed the breakers and retry.
* **Two indexes** of the waiting tasks that all paths must update together.
* **Errors as results.** Some error paths throw, others return `{success:
  false}`, and callers treat the two differently.
* **Lazy time.** A breaker leaves `open` when somebody reads its state.

What is hard elsewhere:

* **A2A.** Task operations are synchronous, but a streamed request sleeps for its
  timer while the client aborts, another client cancels, an agent asks a
  question or the store evicts. `completeTask` and `failTask` change the task
  before they find out that they must throw. Notifications are posted without
  being awaited; removal, eviction and unsubscription race with answers.
* **CRDTs.** Clocks disagree; snapshots are lost, repeated and reordered; the
  history of changes is trimmed, and a receiver notes a version it may not have
  all the changes of.
* **Claims.** Every operation is a read, an await and a write of the whole
  record: lost updates between any two of them, the expiry pass and the thief.
  `updateStatus` sets any status for anybody and leaves claimant and expiry alone.

`PROJECT.json` lists every hazard at its line.

## 2. Modules

| Module | What it is |
|---|---|
| `TaskQueues` | the queue data and its operations, as operators on a record `[prio, domain]` |
| `QueenCoordinator` | the task lifecycle, `EXTENDS TaskQueues`; one action per stretch of code between awaits |
| `DomainBreakers` | the breakers of all domains, the registry's cascade, and a clock |
| `TaskService` | abstract specification: what the Queen promises about a task's waiting, slot and end |
| `QueenService` | the refinement mapping from `QueenCoordinator` to `TaskService` |
| `QueenRestart` | `EXTENDS QueenCoordinator` with shutdown, crash and restart: what is saved, cancelled and loaded |
| `A2ATasks` | the A2A task manager and store: state machine, artifacts, eviction, as operators on the store |
| `RetryQueue` | the notification retry queue: batches in flight, eviction, rescheduling |
| `A2AServer` | composes the two (`EXTENDS A2ATasks, RetryQueue`) with subscriptions, notifications and the HTTP handlers |
| `CRDTs` | the replicated types as operators: local operations, merges, and what a replica must hold |
| `CRDTStore` | the store over them: versions, pending changes, delta history, snapshots on an unreliable network |
| `Claims` | service, repository, stealing, handoffs and expiry as coroutines over an asynchronous repository |
| `MCQueen`, `MCRestart`, `MCBreakers`, `MCA2A`, `MCCRDTs`, `MCClaims` | values of the constants for TLC |
| `TaskQueuesProofs` | lemmas: what insertion, removal and shift return and preserve |
| `QueenCoordinatorProofs` | inductive invariant and theorems about the lifecycle, in every configuration |
| `QueenSlotsProofs` | what the exactness of the counter rests on, and what follows, in the configurations named `Orderly` |
| `QueenServiceProofs` | the safety part of the refinement of `TaskService`; what holds through shutdowns and restarts |
| `DomainBreakersProofs` | inductive invariant and theorems about the breakers |
| `A2AServerProofs`, `CRDTStoreProofs`, `ClaimsProofs` | inductive invariants and theorems about the three components |

Definitions commented `FAULT` are mutants: plausible bugs, one per checked
property, used to see that the property would notice. They are part of no
specification.

### QueenRestart against the code

`Work` is any step of `QueenCoordinator` that may happen in the present `phase`
of `dispose`: its timers stop first, its subscriptions late, new tasks are turned
away at its end, and what is under way goes on throughout. `DisposeStarts`,
`DisposeSaves`, `DisposeCancels` (once per pending task, in the order of the map,
kept in `order`), `DisposeAnnounces`, `DisposeUnsubscribes` and `DisposeEnds` are
the code between the awaits of `dispose`. `Restart` may happen in every phase, so it is
also a crash: what was in memory is gone, `store` stays, and the initialization
of a new Queen loads it. `DisposeCancels` takes the step `Cancel` that a client's
`CancelTask` takes, as `dispose` calls `cancelTask`. `LoadState` models a value that is found as well,
although the code never finds one.

### QueenCoordinator against the code

State: `status`, `assigned`, `agents` and `retry` are the fields of a task's
`TaskExecution`; `queues` is `taskQueue` and `domainQueues`; `counter` is
`runningTaskCounter`; `live` the running agents; `thief` the local lists of a
`triggerWorkStealing` call; `frame` the suspended calls. `runs` and `jobs`
count the plugin handlers and outside executions that have yet to report.
`tripped` and `unhealthy` are what the Queen sees of breakers and plugins.
`starts` is a history variable.

| Code | Actions |
|---|---|
| `submitTask` | `SubmitTask` (to the governance await), then `GovernanceRejects`, `QueueTask` or `AssignDirectly` |
| `assignTask` | operator `Placement`: least loaded candidate that is not unhealthy |
| `assignTaskToDomain` | `BreakerRejects`, `SpawnAgent`, `StartTask`, then `PluginAccepts`, `PluginRefuses` or `NoHandler`, and `ExecuteReturns` |
| what the three callers of an assignment do next | operator `Return` |
| `processQueue` | operator `ProcessQueue`, resumed by `ScanResumes` |
| `handleTaskCompletionCallback` | `PluginCompletes` |
| `handleTaskCompleted`, `handleTaskFailed`, `handleDomainEvent` | `EventCompleted`, `EventFailed`, `DomainEvent` |
| `cancelTask`, `cleanupCompletedTasks` | `CancelTask`, `CleanupTask` |
| `triggerWorkStealing` | `StealingStarts`, `StealingContinues`, `StealingEnds` |
| a breaker's timeout, a plugin's `dispose` | `BreakerTimeout`, `PluginDisposed` |

Abstractions: task ids and creation times are the numbers of the tasks; payloads,
results, traces, metrics, audit and governance records are left out. A domain
becomes *idle* for stealing when it has no load and a time has passed: any
subset of the domains without load. A breaker may open at any failure
(`tripped`); `DomainBreakers` says exactly when.

### DomainBreakers against the code

One action per public method (`Admit` for `canExecute` and the head of
`execute`, `RecordSuccess`, `RecordFailure`, `ForceOpen`, `Reset`, and
`Observe` for the readers, which move the state), with the cascade of
`propagateCascade` inside the step that opens a breaker, as in the code, where
state-change handlers run synchronously. `Cascade(d)` is the set of breakers
the recursion opens: the least set that contains `d` and is closed under the
targets that are not open. `tripTime` and `streak` are history variables.

### TaskService and its refinement

`TaskService` has one variable, the stage of each task: new, waiting, holding a
slot, finished. A slot is held by at most `MaxConcurrent` tasks; a submission
gets one if it finds one free, else it waits; the oldest waiting task of a
priority is served first; weak fairness says that a free slot is given to some
waiting task and that a holder finishes. `QueenService` maps the Queen to it: a
task holds a slot from the step that reserves it (a frame that carries the
reservation), not only from its record becoming `running`. That is the point of
the mapping: between the two the record says nothing, and only the counter keeps
the limit.

### A2AServer against the code

`tasks` is the store's Map and `touched` its ids in the order of `updatedAt`;
`subs` and `index` are the subscription store and its `statusIndex`; `posting`
holds the first attempts that have no answer yet; `jobs` is every delivery ever
queued, `queue` those in the Map, `inFlight` `currentlyProcessing`. `request`
says how a task id was used; `fate` is a history variable, what became of each
notification.

| Code | Actions |
|---|---|
| `handleAgentRequest` | `StreamRequest` (to the timer), then `CompleteRequest`, `FailRequest` or `LoseRequest`; `AbortRequest` is its abort listener |
| `handleTaskSubmit`, `handleTaskCancel` | `SubmitTask`, `CancelTask` |
| `startTask`, `rejectTask`, `requestInput`, `requestAuth`, `resumeTask`, `provideInput` | `AgentMoves`, `ProvideInput` |
| `TaskStore.cleanupExpired`, `evictOldestTasks` | `ExpireTask`, operator `Evicted` inside `Create` |
| `notifySubscribers` and `deliver` | operator `Notify` in the step of the event; `PostSucceeds`, `PostFails`, `PostRefused` at the answer |
| `RetryQueue.processQueue`, `processDelivery` | `ProcessRetries`; `RetrySucceeds`, `RetryFails`, `RetryGivesUp`; `RetryDue` is time passing |
| push set, push delete, `unsubscribe` | `Subscribe`, `DeletePush`, `Unsubscribe` |
| `SubscriptionStore.cleanupExpired`, `cleanupFailed` | `CleanupExpired`, `CleanupFailed`; `SubExpires` is time passing |

`FailRequest` is the whole catch clause: the artifact added by `completeTask`
stays, the error is set, and the transition happens only if it may. Updates that
happen in one step keep their order in `touched`.

The server is modelled with the subscription store of its webhook service. By
default it makes a store of its own (`mcp/http-server.ts:342-343`), and then no
subscription made over HTTP is ever notified. Agents' moves are bounded by
`MaxHistory` so that the history of a task is finite.

### CRDTStore against the code

One key of each kind stands for all keys: the store treats keys independently
but for its version and its history, which are modelled. A replica's `seen`
sets, `had` and `ops` are history variables that every merge carries along.
`SetRegister`, `Count`, `AddToSet`, `RemoveFromSet` are the local operations with
their `recordChange`; `SendState` and `SendDelta` are `getState` and `getDelta`,
`flushDelta` included; `Deliver` is `applyState` or `applyDelta`. A snapshot
stays in `net` after its delivery, so that it may come again; `Drop` ends that.
`Only(data[n], pending[n])` in a history entry is the state at the time of the
flush, as the code copies it.

### Claims against the code

A promise (`call[p]`) is a suspended operation: what it will write, which its
copy of the record settles when `get` is called, or that it will throw.
`WriteReturns`, `StealReturns`, `Throws`, `HandoffWrites` are what happens after
the await. `sweep` is the rest of an `expireStale` pass. Requests for handoffs
count the pending ones after the await, in the step that adds theirs.
`repo[c].expiry` says whether `expiresAt` is set and has passed. `CallUpdate` is
`updateStatus` with a claimant (`who`), who is then checked, or without
(`None`), and with any status. So status and claimant need not agree: a claim
may be in progress and held by nobody, or completed by its holder and still bear
claimant and expiry; setting a released claim to `claimed` gives it neither. No
property demands that they agree. What remains true is that an expiry never runs
without a claimant (`ExpiryHasHolder`): every operation sets or clears the two
together or leaves the expiry cleared, and it writes a whole record.

## 3. Runs

| Run | Instance | What it shows |
|---|---|---|
| `queen_plugins` | 4 tasks, 2 coroutines, 2 domains, limit 2, 1 agent, plugins accept and report, fair | the counter is exact and the limit respected at every await; no task or agent is lost; queues are ordered and agree; finished tasks stay finished; **every queued task finishes**; the Queen implements `TaskService` |
| `queen_events` | 3 tasks, 3 coroutines, limit 2, events, retries, cancellation, domain events, retention | the counter stays exact and no queued task is lost when tasks end by events; no task runs with nobody to report it |
| `queen_mcp` | 2 tasks, 2 coroutines, 3 domains, limit 1; every switch on except domain events | what survives double completion, refusals, disposed plugins, breakers and stealing: the counter's bound, and a load that hides no waiting task |
| `breakers` | 3 domains cascading in a cycle, thresholds and periods 2/1/1, clock 0..3 | all breaker properties |
| `a2a` | 2 tasks, store of 1, 1 subscription that fails after 2, retry queue of 1, 2 attempts, fair | a stream that is over leaves a terminal task; every notification is accounted for; none is repeated or revived; **every queued delivery settles** |
| `crdts` | 2 nodes, times 1..2, 2 + 1 operations, history of 1, one snapshot at a time | the register, the counters and the set are what the operations seen make them; a delta is complete as far as the history reaches |
| `claims` | 1 claim, an agent and a human, 2 callers, the thief, the expiry pass, 2 handoffs, fair expiry timer | no mix of lost updates and statuses set by anybody leaves time running for nobody; pending handoffs are bounded; **an overdue claim does not stay so** |
| `claims_double` | violation of `ClaimTakesFree` | two callers get the same available claim |
| `queen_cancel` | violation of `CapacityRespected` | a callback after a cancellation gives the slot back twice |
| `queen_restart` | violation of `WaitingRestored` | the waiting tasks a shutdown saved are not found by the next start |
| `queen_retry` | violation of `RetriesLimited` | an assignment resets the retry count |
| `queen_slots` | violation of `CounterExact` | a breaker's rejection in `processQueue` leaks the slot and loses the task |

The runs switch features on in groups because the Queen's findings (section 4) and its work stealing defeat
the exact properties wherever their feature is on. `CounterExact`, for
instance, holds with plugins alone and with events and cancellation, and fails
once breakers, stealing, or plugins with cancellation are on.

**Bounds.** Coroutines: 2, so that any two calls interleave, and 3 in
`queen_events` (`queen_plugins` was also run with 3: 936,741 states, no error).
`AgentIds`: 8, more than can be in use at a time. `queen_events` has the agent
coordinator at its limit, where the event path soon leaves it: a task runs
without an agent, and the properties of that run do not depend on one (with an
agent and 2 coroutines: 1,921,854 states, no error). `MaxStarts`: how often a task may be started before its executions stop
failing; 2 or more lets a retry fail again. Tasks: 4 with limit 2, so that two
run and two wait; task 2 is urgent and may go to either domain, the others
share a priority and a domain. `MaxTime` 3 covers opening, timeout, probing and
opening again (also run with 4: 1,005,860 states). `MaxPending` 1 per domain is
enough for outcomes that arrive after the breaker opened, timed out or closed.
The loads and batch sizes are the smallest at which a theft happens.

`a2a`: with `MaxTasks = 1` the second task evicts the first as soon as it may,
also while its stream still runs; a queue of 1 is full whenever a delivery
waits, so a second failure evicts it, in flight or not; 2 attempts reach both
rescheduling and giving up; one subscription with 2 failures becomes `failed`
after a retried post. `MaxHistory` (3) stops agents from moving a task for ever.
`Watched` names the deliveries whose end is checked (the first two).
`crdts`: 2 times let the two clocks tie and run backwards; `MaxOps`, `MaxVersion`
and `MaxNet` bound the operations, the versions and the snapshots under way; a
history of 1 is trimmed by the second flush. Three nodes are covered by the
proofs only, as are longer histories of operations.
`claims`: `MaxWaiting` (2) operations are under way at a time, besides the expiry
pass, and only one caller (`Changers`) releases, updates or escalates. `Settable`
bounds the statuses set by `updateStatus` to `claimed` (which expiry and stealing
look for), `in-progress` (which may be stolen) and `completed`, and `Reasons` the
reasons of a release to `completed`, `handoff` and none: the guards treat
`blocked`, `abandoned` and `expired` as they do `completed`, and `release` treats
`stolen` as it does `handoff`. With `available` among them, too: 2,549,965
states, no error, but close to five minutes. The theorems allow every status and
reason. One expiry pass and one stealing round run at
a time: the code's `setInterval` would start another if one outlasted the
period. Idle thresholds and priorities are left open (any claimed record may be
stale, any stale claim may be the first); delays of published events are left out.

`CHECK_DEADLOCK FALSE`: every instance stops when its tasks are done or its
clock has reached its bound.

**Fairness.** `queen_plugins`: weak fairness of `Continue(c)` for each
coroutine: a promise that the Queen awaits settles and the event loop serves
every ready continuation. Weak fairness of `PluginCompletes` for each task: a
plugin's handler returns or throws, and `runTaskAsync` reports either. Nothing
is assumed of clients, timers or events. `a2a`: weak fairness of the answers to
posts and retries (each HTTP post has a timeout), of `ProcessRetries` (the
queue's interval timer), of `RetryDue` (time passes) and of each request's
`Timer` (`setTimeout`). `claims`: weak fairness of `SweepStarts` (the expiry
interval) and of the writes of a pass. Nothing is assumed of callers: they may
stay suspended for ever.

## 4. Findings

1. *Cancellation and callback both give a slot back* (`queen_cancel`).
2. *Saved tasks are never loaded* (`queen_restart`): `saveState` writes under the
   namespace `queen-coordinator`, `loadState` reads the default one. With equal
   namespaces (`LoadNamespace`) the same run finds no violation (34,605 states,
   complete) with two tasks of different priorities; with two of one priority the
   second would still have a record and no queue entry, because `createdAt` comes
   back from JSON as a string and the comparison throws.
3. *The retry limit is never reached* (`queen_retry`): the count is reset at
   each assignment.
4. *Rejected dequeued tasks leak their slot and vanish* (`queen_slots`).

5. *Two claims of one available claim both succeed* (`claims_double`): the check
   is made on a copy that is old by the time of the write.

Work stealing takes no slot either (`queen-work-stealing.ts:70`): with
`WorkStealing = TRUE` and `Cancellable <- NoTasks` in `queen_cancel.cfg`, TLC
finds `CapacityRespected` violated by a theft. No document speaks of the limit
for stolen tasks, so it is not listed among the findings.

Each is quoted with the test or document it contradicts in `PROJECT.json`.

## 5. Proofs

All theorems hold for every value of the constants that satisfies the named
assumptions: finite sets of tasks and domains numbered from 1, functions of the
right types, natural limits, positive thresholds and reset timeouts. For the
A2A server, the store of replicas and the claims the assumptions are those named
in their modules: limits are natural, nodes are positive numbers, agents and
humans are disjoint, and the thief is not a caller.

**Lifecycle** (`QueenCoordinatorProofs`). The inductive invariant `IInv` is
`TypeOK`, frames whose task and domain are real wherever their stage needs them
(`Framed`: without it, an assignment could start task 0), queues that are
ordered (`OrderedQueues`), and `CounterWithinLimit`. One lemma per operator that
callers share (`ProcessQueueType`, `ReturnType`, `TheftType`) and one per group
of actions. From it: `Typing`, `Limit` and `Order`; with `Covered`, which each operation on
the queues preserves, also `LoadCovered`. `Limit` holds because every
slot is taken in the step that found one free, whatever the callers do with the
result of the assignment.
`Order` rests on `BinaryInsertType`: in an ordered queue the tasks at least as
old as the new one are the first ones, so their number is its place.

**Slots** (`QueenSlotsProofs`). The findings show that the counter is exact
under assumptions only. `Orderly` names them: no breaker, no stealing, no
refusal, no MCP executor, a healthy domain for every task, and one reporter for
each, either its plugin, with nothing cancelled, or an outside worker, with
cancellation, retries, retention and domain events. They are constants, so a
theorem `Orderly /\ Spec => []P` is about every instance of these
configurations; `queen_plugins` and `queen_events` are two of them. `CounterExact`
alone is not inductive: a report about a task that is not running, or a task that
is in two hands, would break it. `SlotInv` adds that a task is in one place at a
time (`Placed`): in the queue, in the hands of one coroutine, or with one
reporter, and that its record says which; and that the two indexes hold it at
most once (`Tidy`). The counting lemmas are in `TaskQueuesProofs`: what an
insertion, a removal and a shift do to the number of copies of each task
(`Added`, `Removed`, `Shifted`), proved with explicit bijections. One lemma per
action shows that it moves a task from place to place and the counter with it; a
scan is treated on variables of its own (`ScanKeeps`), since `EventFailed` scans
a queue and a counter that the same step has changed. From `SlotInv`: `Exact`,
`Capacity`, `Lost`, `Agree`, `Workers`. When the plugins report, also `Agents`,
which is inductive relative to it, and `Final`, where records must be kept, as
retention ends a record's life; with events a late failure of a cancelled task
queues it again, and its agent is not stopped.

**Refinement** (`QueenServiceProofs`). `Implements`: under the assumptions of
`Final`, each step of the Queen is a step of `TaskService` or a stutter. A scan
serves the *oldest* waiting task because a waiting task that nobody holds is in
the queue of its priority (`Lost`) and the queue is in order (`Order`); it finds
a slot free because the holders are counted (`Exact`).

**Restarts** (`QueenServiceProofs`). `RInv` is `IInv`, `Covered`, and an empty
store under the namespace that `loadState` reads. So each restart empties the
Queen (`NothingSurvives`: the finding of `queen_restart`, in every
configuration), and the limit, the order and the loads of the Lifecycle theorems
hold in every phase of `dispose` and in every Queen after it
(`LimitsThroughRestarts`). `SlotInv` survives too, where an outside worker reports
the tasks (`SlotsThroughRestarts`): a cancellation by `dispose` is any other
cancellation. With plugins it is not: the callback of a task that `dispose`
cancelled gives its slot back a second time, as in `queen_cancel`. Both
theorems' formulas were first checked by TLC as invariants of `RSpec` with the
constants of `MCRestart` (34,453 states with plugins; 935,154 with events,
retries and domain events).

**Breakers** (`DomainBreakersProofs`). `IInv` says of each breaker (`Sound`)
how its state, its failures, its time of opening and its successes fit the
history variables; from it follow `BelowThreshold`, `Recovers`, `Timeout` and
`Probes`. `Cascades` needs `CascadeClosed` (the least closed set is closed) and
that only the steps through `Open` open a breaker. `Closes` needs that
successes never exceed the streak. `InOrder` has an invariant of its own, `FInv`:
the failures are in order and none is of the future, which a cascade and a probe's
failure keep because they append the present time or clear the record. From it
follows `RecentFailuresOpen`: what `cleanOldFailures` leaves is all within the
window, so a breaker opens on recent failures only.

**A2A server** (`A2AServerProofs`). None of the properties is inductive. `TaskInv`
adds that the task of a running stream has left `submitted`: every status it may
then have has a way to `canceled` and, but for the terminal ones, to `completed`
or `failed`, which is why neither an abort nor the timer can leave it working
(`Served`). `PostInv` numbers the notifications: each bears the number of an
event that its task had already had, so a new event's notification is a new one
and cannot reopen a settled one. `NoteInv` adds that each delivery is of a
notification of its own whose first attempt is over; with that, the step that
ends a delivery settles exactly its notification (`NothingForgotten`,
`AcknowledgedOnce`). `RemovedForGood` needs that batches are taken from the
queue and that new deliveries get new numbers. `QueueLimits` needs the number of
deliveries through eviction: a full queue has a least number, which is found by
well-founded induction, so `Overflow` has exactly one element. `Settled` and
`Terminated` say what is final: a notification stays in the books and an
acknowledgement is not taken back, a terminal status is not left.

The store of tasks has an invariant of its own, `OrderInv`: each stored task has
exactly one place in the order of updates, from which eviction takes the oldest
finished one. From it: `Forgotten` (only finished tasks leave the store) and
`StoreLimit` (it exceeds `maxTasks` only while nothing may be evicted). The model
removes a task's place by `RemoveAt`, as the prover knows nothing of
`SelectSeq`. `SubInv` adds to the types of the subscriptions that the index is
exact for active ones and keeps every failed one (`IndexExact`), and that no
active one has reached the limit of consecutive failures (`StopsFailing`): the
failure that reaches it moves the subscription in the same step.

**Replicated store** (`CRDTStoreProofs`). The inductive invariant says of every
store, wherever it is (at a replica, in a history entry, in a snapshot), that it
is what the operations seen make it (`SoundStores`); one lemma per operation and
per merge shows that it stays so. For the register this needs that
`compareTimestamps` is a total order (`LaterTotal`, `LaterTransitive`), for the
set that its tags and tombstones are the unions of what its operations added and
removed. `Convergence` follows: two sound stores that have seen the same
operations have the same greatest stamp, the same counts, the same elements.
`MergeLaws` states, on sound stores, what makes the order and the number of merges
irrelevant.

`WholeDeltas` needs to know what a version number stands for. `NodeInv` says of
each replica that its history is a chain of entries with increasing versions, and
that the last entry with a key has all the replica's operations under it unless
the key is pending. `DeltaInv` says, of every version ever given to another
replica, that the operations its owner learnt since are under a key that is
pending, that a later entry has, or that a trimmed entry may have had (`Knows`); a
flush that trims the oldest entry only shortens the reach, which `whole` records.
`Trusted` states what this is for: as long as every delta is whole, noting
another's version means to have all its operations. The assumption `[]AllWhole`
is needed, and the code does not guarantee it: TLC finds `UpToDate` violated
without it, and not with it. `getDelta` does not tell its caller that the
history was too short.

**Claims** (`ClaimsProofs`). The invariant extends `ExpiryHasHolder` (`Holding`)
from the records to everything that may be written later: each pending write,
each copy held by the expiry pass, each claim to be handed off. That is what
makes lost updates harmless for it: a write that comes late writes a record that
is consistent in itself. It assumes nothing of who calls `updateStatus`, nor with
which status. `Bounded` holds because the count and the addition are one step.

**Only model-checked.** Liveness under fairness is beyond the prover:
`QueuedFinishes`, `DeliveriesSettle`, `OverdueLeaves` and the fairness of the
refinement `ImplementsService`. Every safety property of a passing run is the
conclusion of a theorem.

## 6. Plan

Done: the Queen (queues, lifecycle, restart, its abstract service), the breakers, the A2A
server with tasks, notifications and retries, the replicated data types, the
claims; every safety property that the runs check is proved. Next, in
this order:

1. Claims with several claims in one expiry pass and several passes at a time;
   deletion of claims.
2. The store with deletion and clear, which are not replicated.
3. Workers (timers, aborts, overlapping runs), the LLM breaker, the healing lock,
   the task DAG, the federation mailbox, as room allows.
4. `Exact` for weaker assumptions: with breakers when no dequeued task meets an
   open one.

## 7. Not modelled, and why

* Databases, sockets, files, vector search, prompt and model calls, the command
  line: I/O without a state machine of its own.
* Test generation, coverage analysis, learning and governance rules:
  computations whose results the task core does not look at. A governance
  decision is a nondeterministic rejection.
* `configureBreaker`, called by no component of the source outside its tests.
* Completion callbacks that throw: `base-domain-plugin.ts` then reports the task
  twice; the mutant `CompletesAgain` shows that the properties notice.
* Subtasks and the archive of the A2A store, server-sent events, `deliverWithRetry`
  (the server does not call it), paused subscriptions (nothing pauses one), the
  `scheduledIndex` of the retry queue (written, never read).
* Deletion of CRDT keys and `clear`: they are not replicated, and a key deleted
  at one replica comes back with the next snapshot; the convergence tracker.
* The share of the repository that the models cover is small (about 4,500 of
  660,000 lines), and cannot become large by modelling: most of the source is
  test generation and analysis, pattern learning, prompts, commands and their
  completions, installers, copies of the same skills, adapters to databases and
  model providers, all computation and I/O whose state machines, where there are
  any, are those above or in the plan.
* Two work-stealing rounds at once: the timer's period is long against a round.
