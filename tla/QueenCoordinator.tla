-------------------------- MODULE QueenCoordinator --------------------------
(***************************************************************************)
(* The task lifecycle of the Queen (queen-coordinator.ts,                  *)
(* queen-task-management.ts, queen-event-handlers.ts,                      *)
(* queen-work-stealing.ts).  The program is one JavaScript event loop:     *)
(* code between two awaits is atomic, and at every await any other ready   *)
(* coroutine may run.  Each running async call is a coroutine whose stage  *)
(* names the await it is suspended at; one action is the code from one     *)
(* await to the next.                                                      *)
(***************************************************************************)
EXTENDS TaskQueues

CONSTANTS
  Candidates,       \* [Tasks -> Seq(Domains)]: targetDomains, else TASK_DOMAIN_MAP
  Compatible,       \* [Tasks -> SUBSET Domains]: TASK_DOMAIN_MAP[type], for stealing
  Handlers,         \* [Tasks -> SUBSET Domains]: plugins whose canHandleTask holds
  MaxConcurrent,    \* config.maxConcurrentTasks
  TaskRetryLimit,   \* config.taskRetryLimit
  MaxAgents,        \* limit of the agent coordinator
  LoadThreshold,    \* config.workStealing.loadThreshold
  StealBatchSize,   \* config.workStealing.stealBatchSize
  EventsOnAssign,   \* TRUE: an outside worker answers each assignment by an event
  ExecutorOnSubmit, \* TRUE: the MCP handler runs the task executor after submitTask
  PluginsMayRefuse, \* TRUE: executeTask may return an error
  Cancellable,      \* tasks a client may cancel
  Disposable,       \* domains whose plugin may be disposed, so unhealthy
  Breakers,         \* config.enableCircuitBreakers
  WorkStealing,     \* config.workStealing.enabled
  DomainEvents,     \* TRUE: domains publish other events
  Retention,        \* TRUE: the retention period of finished tasks may elapse
  Coroutines,       \* bound: async calls in progress at one time
  AgentIds,         \* bound: agent ids in use at one time
  MaxStarts         \* bound: a task started this often fails no more

ASSUME CapacityAssumption ==
  MaxConcurrent \in Nat /\ MaxAgents \in Nat /\ TaskRetryLimit \in Nat
  /\ LoadThreshold \in Nat /\ StealBatchSize \in Nat /\ MaxStarts \in Nat
ASSUME PlacementAssumption ==
  /\ Candidates \in [Tasks -> Seq(Domains)]
  /\ Compatible \in [Tasks -> SUBSET Domains]
  /\ Handlers \in [Tasks -> SUBSET Domains]
ASSUME SwitchAssumption ==
  /\ {EventsOnAssign, ExecutorOnSubmit, PluginsMayRefuse, Breakers,
      WorkStealing, DomainEvents, Retention} \subseteq BOOLEAN
  /\ Cancellable \subseteq Tasks /\ Disposable \subseteq Domains
ASSUME IdAssumption ==
  /\ Coroutines \subseteq Nat /\ IsFiniteSet(Coroutines)
  /\ AgentIds \subseteq Nat \ {0} /\ IsFiniteSet(AgentIds)

VARIABLES
  created,   \* tasks that have been submitted
  status,    \* the task's execution record in `tasks': "none" when absent
  assigned,  \* its assignedDomain, or NoDomain
  agents,    \* its assignedAgents (at most one), or NoAgent
  retry,     \* its retryCount
  starts,    \* history: how often the task was set running
  queues,    \* taskQueue and domainQueues
  counter,   \* runningTaskCounter
  live,      \* agents the agent coordinator has running
  frame,     \* the coroutines in progress
  thief,     \* the lists of the work-stealing round in progress
  runs,      \* plugin handlers in progress, per task
  jobs,      \* outside executions in progress, per task
  tripped,   \* domains whose circuit breaker is open
  unhealthy  \* domains whose plugin reports unhealthy

record == <<status, assigned, agents, retry, starts>>
work   == <<runs, jobs>>
faults == <<tripped, unhealthy>>
vars   == <<created, record, queues, counter, live, frame, thief, work, faults>>

NoTask == 0
NoDomain == 0
NoAgent == 0

Statuses == {"none", "queued", "running", "completed", "failed", "cancelled"}
Finished == {"completed", "failed", "cancelled"}

(* A coroutine: submitTask ("submit"), processQueue and what precedes it in *)
(* its caller ("scan"), or triggerWorkStealing ("steal").  Stages are       *)
(* awaits: the governance check, the routing, the agent spawn, the          *)
(* TaskAssigned event, the plugin's acceptance; "resume" is whatever a      *)
(* caller awaits before (re)entering its own loop.                          *)
Kinds  == {"idle", "submit", "scan", "steal"}
Stages == {"none", "governance", "route", "spawn", "announce", "execute", "resume"}

Frames == [kind: Kinds, stage: Stages, task: Tasks \cup {NoTask},
           domain: Domains \cup {NoDomain}, agent: AgentIds \cup {NoAgent},
           from: 0 .. 4]

Frame(kind, stage, t, d, from) ==
  [kind |-> kind, stage |-> stage, task |-> t, domain |-> d,
   agent |-> NoAgent, from |-> from]

Idle == Frame("idle", "none", NoTask, NoDomain, 0)
Scan(p) == Frame("scan", "resume", NoTask, NoDomain, p)
NoRound == [idle |-> {}, busy |-> {}, left |-> -1, load |-> [d \in Domains |-> 0]]

At(c, stage) == frame[c].stage = stage

(* The free coroutine slots are interchangeable: the least one is taken. *)
Fresh(c) == /\ frame[c] = Idle
            /\ \A e \in Coroutines : frame[e] = Idle => c <= e

(* An agent id is a fresh uuid: one that no agent or record still uses. *)
UsedAgents == live \cup {agents[t] : t \in Tasks}
                   \cup {frame[c].agent : c \in Coroutines}
FreshAgent(a) == a \notin UsedAgents /\ \A b \in AgentIds \ UsedAgents : a <= b

---------------------------------------------------------------------------
(* Placement and capacity *)

DomainLoad(d, q, st, dm) ==
  Len(q.domain[d]) + Cardinality({t \in Tasks : st[t] = "running" /\ dm[t] = d})

(* assignTask: the first of the least loaded candidates that is not         *)
(* unhealthy; {NoDomain} when there is none.                                *)
Placement(t, q, st, dm) ==
  LET ok == {i \in DOMAIN Candidates[t] : Candidates[t][i] \notin unhealthy}
      load(i) == DomainLoad(Candidates[t][i], q, st, dm)
  IN  IF ok = {} THEN {NoDomain}
      ELSE {Candidates[t][i] : i \in
              {k \in ok : \A j \in ok : load(k) < load(j)
                                        \/ (load(k) = load(j) /\ k <= j)}}

(* FAULT: the slot is not given back. *)
Kept(n) == n

(* A slot given back: Math.max(0, n - 1). *)
Released(n) == IF n > 1 THEN n - 1 ELSE 0

(* FAULT: off by one. *)
Overfull(n) == n > MaxConcurrent

Full(n) == n >= MaxConcurrent

CanSpawn == Cardinality(live) < MaxAgents

(* FAULT: the agents of a finished task go on running. *)
ForgetAgent(t) == live' = live

StopAgent(t) == live' = live \ {agents[t]}

(* processQueue from priority `from': reserve a slot and take one task of   *)
(* the first nonempty priority.  A task no domain can take is an error      *)
(* result, which processQueue ignores: it goes on with the next priority.   *)
ProcessQueue(c, from, n, q, st, dm) ==
  IF Full(n) \/ \A p \in Priorities : p >= from => q.prio[p] = <<>>
  THEN /\ counter' = n
       /\ queues' = q
       /\ frame' = [frame EXCEPT ![c] = Idle]
  ELSE \E p \in Priorities :
         /\ p >= from /\ q.prio[p] # <<>>
         /\ \A r \in Priorities : from <= r /\ r < p => q.prio[r] = <<>>
         /\ counter' = n + 1
         /\ queues' = Shift(q, p)
         /\ \E d \in Placement(Head(q.prio[p]), Shift(q, p), st, dm) :
              frame' = [frame EXCEPT ![c] =
                IF d = NoDomain THEN Scan(p + 1)
                ELSE Frame("scan", "route", Head(q.prio[p]), d, p + 1)]

(* FAULT: the completion does not process the queue. *)
NoScan(c) == frame' = frame

(* The caller will scan the queue when its awaits are over. *)
ScanLater(c) == frame' = [frame EXCEPT ![c] = Scan(0)]

(* What follows an assignTask that returned, in each of its callers. *)
Return(c, ok, n, st, dm) ==
  \/ /\ frame[c].kind = "submit"
     /\ counter' = IF ok THEN n ELSE n - 1
     /\ jobs' = IF ok /\ ExecutorOnSubmit
                THEN [jobs EXCEPT ![frame[c].task] = @ + 1] ELSE jobs
     /\ frame' = [frame EXCEPT ![c] = Idle]
     /\ UNCHANGED queues
  \/ /\ frame[c].kind = "scan"
     /\ ProcessQueue(c, frame[c].from, n, queues, st, dm)
     /\ UNCHANGED jobs
  \/ /\ frame[c].kind = "steal"
     /\ counter' = n
     /\ frame' = [frame EXCEPT ![c] = Frame("steal", "resume", NoTask, NoDomain, 0)]
     /\ UNCHANGED <<queues, jobs>>

---------------------------------------------------------------------------
Init ==
  /\ created = {}
  /\ status = [t \in Tasks |-> "none"]
  /\ assigned = [t \in Tasks |-> NoDomain]
  /\ agents = [t \in Tasks |-> NoAgent]
  /\ retry = [t \in Tasks |-> 0]
  /\ starts = [t \in Tasks |-> 0]
  /\ queues = EmptyQueues
  /\ counter = 0
  /\ live = {}
  /\ frame = [c \in Coroutines |-> Idle]
  /\ thief = NoRound
  /\ runs = [t \in Tasks |-> 0]
  /\ jobs = [t \in Tasks |-> 0]
  /\ tripped = {}
  /\ unhealthy = {}

(* submitTask up to the governance check; createdAt is taken here. *)
SubmitTask(t, c) ==
  /\ t \notin created /\ \A u \in Tasks : u < t => u \in created
  /\ Fresh(c)
  /\ created' = created \cup {t}
  /\ frame' = [frame EXCEPT ![c] = Frame("submit", "governance", t, NoDomain, 0)]
  /\ UNCHANGED <<record, queues, counter, live, thief, work, faults>>

GovernanceRejects(c) ==
  /\ At(c, "governance")
  /\ frame' = [frame EXCEPT ![c] = Idle]
  /\ UNCHANGED <<created, record, queues, counter, live, thief, work, faults>>

(* The counter went over the limit: queueTask. *)
QueueTask(c) ==
  LET t == frame[c].task IN
  /\ At(c, "governance")
  /\ counter + 1 > MaxConcurrent
  /\ queues' = EnqueueTask(queues, t)
  /\ status' = [status EXCEPT ![t] = "queued"]
  /\ jobs' = IF ExecutorOnSubmit THEN [jobs EXCEPT ![t] = @ + 1] ELSE jobs
  /\ frame' = [frame EXCEPT ![c] = Idle]
  /\ UNCHANGED <<created, assigned, agents, retry, starts, counter, live, thief,
                 runs, faults>>

(* FAULT: the capacity is checked on the tasks that run already (CC-002). *)
AssignUnreserved(c) ==
  LET t == frame[c].task IN
  /\ At(c, "governance")
  /\ Cardinality({u \in Tasks : status[u] = "running"}) < MaxConcurrent
  /\ \E d \in Placement(t, queues, status, assigned) :
       /\ counter' = IF d = NoDomain THEN counter ELSE counter + 1
       /\ frame' = [frame EXCEPT ![c] =
            IF d = NoDomain THEN Idle ELSE Frame("submit", "route", t, d, 0)]
  /\ UNCHANGED <<created, record, queues, live, thief, work, faults>>

(* The slot is reserved and the task placed; without a domain the slot is  *)
(* given back and the task forgotten.                                      *)
AssignDirectly(c) ==
  LET t == frame[c].task IN
  /\ At(c, "governance")
  /\ counter + 1 <= MaxConcurrent
  /\ \E d \in Placement(t, queues, status, assigned) :
       /\ counter' = IF d = NoDomain THEN counter ELSE counter + 1
       /\ frame' = [frame EXCEPT ![c] =
            IF d = NoDomain THEN Idle ELSE Frame("submit", "route", t, d, 0)]
  /\ UNCHANGED <<created, record, queues, live, thief, work, faults>>

(* assignTaskToDomain after the routing: an open breaker is an error *)
(* result; otherwise an agent is spawned if the limit allows one.    *)
BreakerRejects(c) ==
  /\ At(c, "route")
  /\ frame[c].domain \in tripped
  /\ Return(c, FALSE, counter, status, assigned)
  /\ UNCHANGED <<created, record, live, thief, runs, faults>>

SpawnAgent(c) ==
  /\ At(c, "route")
  /\ frame[c].domain \notin tripped
  /\ IF CanSpawn
     THEN \E a \in AgentIds :
            /\ FreshAgent(a)
            /\ live' = live \cup {a}
            /\ frame' = [frame EXCEPT ![c] = [@ EXCEPT !.stage = "spawn", !.agent = a]]
     ELSE /\ live' = live
          /\ frame' = [frame EXCEPT ![c] = [@ EXCEPT !.stage = "spawn"]]
  /\ UNCHANGED <<created, record, queues, counter, thief, work, faults>>

(* A new execution record replaces whatever the task's record was. *)
StartTask(c) ==
  LET t == frame[c].task IN
  /\ At(c, "spawn")
  /\ status' = [status EXCEPT ![t] = "running"]
  /\ assigned' = [assigned EXCEPT ![t] = frame[c].domain]
  /\ agents' = [agents EXCEPT ![t] = frame[c].agent]
  /\ retry' = [retry EXCEPT ![t] = 0]
  /\ starts' = [starts EXCEPT ![t] = @ + 1]
  /\ jobs' = IF EventsOnAssign THEN [jobs EXCEPT ![t] = @ + 1] ELSE jobs
  /\ frame' = [frame EXCEPT ![c] = [@ EXCEPT !.stage = "announce"]]
  /\ UNCHANGED <<created, queues, counter, live, thief, runs, faults>>

(* The plugin accepts: its handler runs in the background. *)
PluginAccepts(c) ==
  LET t == frame[c].task IN
  /\ At(c, "announce")
  /\ frame[c].domain \in Handlers[t]
  /\ runs' = [runs EXCEPT ![t] = @ + 1]
  /\ frame' = [frame EXCEPT ![c] = [@ EXCEPT !.stage = "execute"]]
  /\ UNCHANGED <<created, record, queues, counter, live, thief, jobs, faults>>

(* The plugin refuses: the record captured at StartTask is written back as *)
(* failed and the slot released, then the error returned.                  *)
PluginRefuses(c) ==
  LET t == frame[c].task
      st == [status EXCEPT ![t] = "failed"]
      dm == [assigned EXCEPT ![t] = frame[c].domain]
  IN
  /\ At(c, "announce") /\ PluginsMayRefuse
  /\ frame[c].domain \in Handlers[t]
  /\ status' = st
  /\ assigned' = dm
  /\ agents' = [agents EXCEPT ![t] = frame[c].agent]
  /\ retry' = [retry EXCEPT ![t] = 0]
  /\ Return(c, FALSE, Released(counter), st, dm)
  /\ UNCHANGED <<created, starts, live, thief, runs, faults>>

(* FAULT: the record captured before the awaits is written back after them. *)
StaleRecord(c) ==
  /\ At(c, "announce")
  /\ frame[c].domain \notin Handlers[frame[c].task]
  /\ status' = [status EXCEPT ![frame[c].task] = "running"]
  /\ Return(c, TRUE, counter, status', assigned)
  /\ UNCHANGED <<created, assigned, agents, retry, starts, live, thief, runs, faults>>

(* No plugin handles the task: an event is all the domain gets. *)
NoHandler(c) ==
  /\ At(c, "announce")
  /\ frame[c].domain \notin Handlers[frame[c].task]
  /\ Return(c, TRUE, counter, status, assigned)
  /\ UNCHANGED <<created, record, live, thief, runs, faults>>

ExecuteReturns(c) ==
  /\ At(c, "execute")
  /\ Return(c, TRUE, counter, status, assigned)
  /\ UNCHANGED <<created, record, live, thief, runs, faults>>

(* processQueue goes on after its caller's awaits, or after a task it could *)
(* not place.                                                               *)
ScanResumes(c) ==
  /\ At(c, "resume") /\ frame[c].kind = "scan"
  /\ ProcessQueue(c, frame[c].from, counter, queues, status, assigned)
  /\ UNCHANGED <<created, record, live, thief, work, faults>>

---------------------------------------------------------------------------
(* Completion: by the plugin's callback, or by an event *)

(* FAULT: the plugin may report a task again, as after an error of the *)
(* callback.                                                           *)
CompletesAgain(t, c) ==
  /\ runs[t] > 0
  /\ Fresh(c)
  /\ runs' = runs
  /\ \E result \in {"completed", "failed"} : status' = [status EXCEPT ![t] = result]
  /\ counter' = Released(counter)
  /\ StopAgent(t)
  /\ ScanLater(c)
  /\ UNCHANGED <<created, assigned, agents, retry, starts, queues, thief, jobs,
                 faults>>

(* handleTaskCompletionCallback.  A record that is gone is ignored; any     *)
(* other is finished whatever its status, and a slot is released.           *)
PluginCompletes(t, c) ==
  /\ runs[t] > 0
  /\ Fresh(c)
  /\ runs' = [runs EXCEPT ![t] = @ - 1]
  /\ IF status[t] = "none"
     THEN UNCHANGED <<status, counter, live, frame>>
     ELSE /\ \E result \in {"completed", "failed"} :
               status' = [status EXCEPT ![t] = result]
          /\ counter' = Released(counter)
          /\ StopAgent(t)
          /\ ScanLater(c)
  /\ UNCHANGED <<created, assigned, agents, retry, starts, queues, thief, jobs,
                 faults>>

(* FAULT: every event releases a slot. *)
AlwaysReleased(t) == Released(counter)

(* The slot an event about t releases: only a running task holds one. *)
CounterAfterEvent(t) ==
  IF status[t] = "running" THEN Released(counter) ELSE counter

(* handleTaskCompleted: the task's agent is not stopped. *)
EventCompleted(t, c) ==
  /\ jobs[t] > 0
  /\ Fresh(c)
  /\ jobs' = [jobs EXCEPT ![t] = @ - 1]
  /\ IF status[t] = "none"
     THEN /\ ProcessQueue(c, 0, counter, queues, status, assigned)
          /\ UNCHANGED status
     ELSE /\ counter' = CounterAfterEvent(t)
          /\ status' = [status EXCEPT ![t] = "completed"]
          /\ ScanLater(c)
          /\ UNCHANGED queues
  /\ UNCHANGED <<created, assigned, agents, retry, starts, live, thief, runs,
                 faults>>

(* handleTaskFailed: the breaker may open; the task is queued again until   *)
(* its retry count reaches the limit, and processQueue follows at once.     *)
EventFailed(t, c) ==
  /\ jobs[t] > 0 /\ starts[t] < MaxStarts
  /\ Fresh(c)
  /\ jobs' = [jobs EXCEPT ![t] = @ - 1]
  /\ tripped' \in IF Breakers /\ status[t] # "none" /\ assigned[t] # NoDomain
                  THEN {tripped, tripped \cup {assigned[t]}} ELSE {tripped}
  /\ \/ /\ status[t] = "none"
        /\ ProcessQueue(c, 0, counter, queues, status, assigned)
        /\ UNCHANGED <<status, retry>>
     \/ /\ status[t] # "none" /\ retry[t] < TaskRetryLimit
        /\ status' = [status EXCEPT ![t] = "queued"]
        /\ retry' = [retry EXCEPT ![t] = @ + 1]
        /\ ProcessQueue(c, 0, CounterAfterEvent(t), EnqueueTask(queues, t),
                        [status EXCEPT ![t] = "queued"], assigned)
     \/ /\ status[t] # "none" /\ retry[t] >= TaskRetryLimit
        /\ status' = [status EXCEPT ![t] = "failed"]
        /\ counter' = CounterAfterEvent(t)
        /\ ScanLater(c)
        /\ UNCHANGED <<retry, queues>>
  /\ UNCHANGED <<created, assigned, agents, starts, live, thief, runs, unhealthy>>

(* handleDomainEvent: every event of a domain starts a scan at once, those  *)
(* that announce a task's end included.                                     *)
DomainEvent(c) ==
  /\ DomainEvents
  /\ Fresh(c)
  /\ ProcessQueue(c, 0, counter, queues, status, assigned)
  /\ UNCHANGED <<created, record, live, thief, work, faults>>

---------------------------------------------------------------------------
(* Cancellation and retention *)

(* FAULT: a slot is given back for queued tasks too. *)
CancelReleases(t) ==
  /\ t \in Cancellable
  /\ status[t] \in {"queued", "running", "cancelled"}
  /\ counter' = Released(counter)
  /\ status' = [status EXCEPT ![t] = "cancelled"]
  /\ queues' = RemoveFromQueues(queues, t)
  /\ StopAgent(t)
  /\ UNCHANGED <<created, assigned, agents, retry, starts, frame, thief, work,
                 faults>>

(* cancelTask of a task that is not completed or failed. *)
Cancel(t) ==
  /\ status[t] \in {"queued", "running", "cancelled"}
  /\ counter' = IF status[t] = "running" THEN Released(counter) ELSE counter
  /\ status' = [status EXCEPT ![t] = "cancelled"]
  /\ queues' = RemoveFromQueues(queues, t)
  /\ StopAgent(t)
  /\ UNCHANGED <<created, assigned, agents, retry, starts, frame, thief, work,
                 faults>>

CancelTask(t) == t \in Cancellable /\ Cancel(t)

(* cleanupCompletedTasks, an hour after the task finished: every await of   *)
(* its assignment is over by then.                                          *)
CleanupTask(t) ==
  /\ Retention
  /\ status[t] \in Finished
  /\ \A c \in Coroutines : frame[c].task # t
  /\ status' = [status EXCEPT ![t] = "none"]
  /\ assigned' = [assigned EXCEPT ![t] = NoDomain]
  /\ agents' = [agents EXCEPT ![t] = NoAgent]
  /\ retry' = [retry EXCEPT ![t] = 0]
  /\ UNCHANGED <<created, starts, queues, counter, live, frame, thief, work, faults>>

---------------------------------------------------------------------------
(* Work stealing.  The idle and busy lists are computed once, at the start  *)
(* of the round, and used across the awaits of every theft.                 *)

Load(d) == DomainLoad(d, queues, status, assigned)

(* getIdleDomains, getBusyDomains.  Which of the domains without load have  *)
(* passed the idle threshold is a matter of time: any subset.  `left' is    *)
(* the number of tries left at the victim in turn, -1 before its turn.      *)
Round(I) == [idle |-> I, busy |-> {d \in Domains : Load(d) > LoadThreshold},
             left |-> -1, load |-> [d \in Domains |-> Load(d)]]

(* The busy domains are visited by decreasing load at the round's start. *)
Before(r, e, d) == r.load[e] > r.load[d] \/ (r.load[e] = r.load[d] /\ e < d)

(* stealCount: fixed when a victim's turn begins, counted down by a theft. *)
Tries(r, d) ==
  IF r.left >= 0 /\ \A e \in r.busy : ~Before(r, e, d) THEN r.left
  ELSE IF Len(queues.domain[d]) < StealBatchSize
       THEN Len(queues.domain[d]) ELSE StealBatchSize

(* queue.find(canDomainHandleTask): position k holds the first task of    *)
(* victim d that domain i can do.                                         *)
Finds(d, i, k) == LET q == queues.domain[d] IN
  i \in Compatible[q[k]] /\ \A j \in DOMAIN q : j < k => i \notin Compatible[q[j]]

Victim(r, d, i) ==
  /\ d \in r.busy /\ Tries(r, d) > 0
  /\ \E k \in DOMAIN queues.domain[d] : Finds(d, i, k)

FirstIdle(r, i) == i \in r.idle /\ \A j \in r.idle : i <= j

(* One theft of round r: the first idle domain takes a task of the first   *)
(* victim that has one for it; no slot is reserved for the task.           *)
Theft(c, r) ==
  \E d \in Domains, i \in Domains :
    /\ FirstIdle(r, i) /\ Victim(r, d, i)
    /\ \A e \in r.busy : Before(r, e, d) => ~Victim(r, e, i)
    /\ \E k \in DOMAIN queues.domain[d] :
         /\ Finds(d, i, k)
         /\ queues' = RemoveFromQueues(queues, queues.domain[d][k])
         /\ frame' = [frame EXCEPT ![c] =
                        Frame("steal", "route", queues.domain[d][k], i, 0)]
    /\ thief' = [idle |-> r.idle \ {i},
                 busy |-> {e \in r.busy : ~Before(r, e, d)},
                 left |-> Tries(r, d) - 1, load |-> r.load]

(* One round at a time: the timer's period is long against a round. *)
StealingStarts(c) ==
  /\ WorkStealing
  /\ Fresh(c) /\ \A e \in Coroutines : frame[e].kind # "steal"
  /\ \E I \in SUBSET {d \in Domains : Load(d) = 0} : Theft(c, Round(I))
  /\ UNCHANGED <<created, record, counter, live, work, faults>>

StealingContinues(c) ==
  /\ At(c, "resume") /\ frame[c].kind = "steal"
  /\ Theft(c, thief)
  /\ UNCHANGED <<created, record, counter, live, work, faults>>

StealingEnds(c) ==
  /\ At(c, "resume") /\ frame[c].kind = "steal"
  /\ \A d \in thief.busy, i \in thief.idle :
       FirstIdle(thief, i) => ~Victim(thief, d, i)
  /\ thief' = NoRound
  /\ frame' = [frame EXCEPT ![c] = Idle]
  /\ UNCHANGED <<created, record, queues, counter, live, work, faults>>

---------------------------------------------------------------------------
(* Environment: a breaker's reset timeout elapses, a plugin is disposed *)

BreakerTimeout(d) ==
  /\ d \in tripped
  /\ tripped' = tripped \ {d}
  /\ UNCHANGED <<created, record, queues, counter, live, frame, thief, work, unhealthy>>

PluginDisposed(d) ==
  /\ d \in Disposable \ unhealthy
  /\ unhealthy' = unhealthy \cup {d}
  /\ UNCHANGED <<created, record, queues, counter, live, frame, thief, work, tripped>>

---------------------------------------------------------------------------
Assignment(c) ==
  \/ BreakerRejects(c) \/ SpawnAgent(c) \/ StartTask(c) \/ PluginAccepts(c)
  \/ PluginRefuses(c) \/ NoHandler(c) \/ ExecuteReturns(c)

Governance(c) == GovernanceRejects(c) \/ QueueTask(c) \/ AssignDirectly(c)

Stealing(c) == StealingContinues(c) \/ StealingEnds(c)

(* What a suspended coroutine does when its await is over. *)
Continue(c) == Governance(c) \/ Assignment(c) \/ ScanResumes(c) \/ Stealing(c)

Next ==
  \/ \E c \in Coroutines : Continue(c) \/ StealingStarts(c) \/ DomainEvent(c)
  \/ \E t \in Tasks, c \in Coroutines :
       SubmitTask(t, c) \/ PluginCompletes(t, c)
       \/ EventCompleted(t, c) \/ EventFailed(t, c)
  \/ \E t \in Tasks : CancelTask(t) \/ CleanupTask(t)
  \/ \E d \in Domains : BreakerTimeout(d) \/ PluginDisposed(d)

Spec == Init /\ [][Next]_vars

(* Every promise the Queen awaits settles and the event loop is fair, and   *)
(* the handlers of the domain plugins return.  No client has to submit or   *)
(* cancel anything, and no domain has to publish an event.                  *)
Fairness ==
  /\ \A c \in Coroutines : WF_vars(Continue(c))
  /\ \A t \in Tasks : WF_vars(\E c \in Coroutines : PluginCompletes(t, c))

FairSpec == Spec /\ Fairness

---------------------------------------------------------------------------
(* Properties *)

TypeOK ==
  /\ created \subseteq Tasks
  /\ status \in [Tasks -> Statuses]
  /\ assigned \in [Tasks -> Domains \cup {NoDomain}]
  /\ agents \in [Tasks -> AgentIds \cup {NoAgent}]
  /\ retry \in [Tasks -> Nat]
  /\ starts \in [Tasks -> Nat]
  /\ queues \in Queues
  /\ counter \in Int
  /\ live \subseteq AgentIds
  /\ frame \in [Coroutines -> Frames]
  /\ thief \in [idle: SUBSET Domains, busy: SUBSET Domains, left: Int,
                load: [Domains -> Nat]]
  /\ runs \in [Tasks -> Nat]
  /\ jobs \in [Tasks -> Nat]
  /\ tripped \subseteq Domains
  /\ unhealthy \subseteq Domains

Running == {t \in Tasks : status[t] = "running"}

(* Coroutines that hold a slot for a task not running yet. *)
Reserving == {c \in Coroutines : frame[c].kind \in {"submit", "scan"}
                                 /\ frame[c].stage \in {"route", "spawn"}}

(* Coroutines that are assigning t and have not set it running yet. *)
Carrying(t) == {c \in Coroutines : frame[c].task = t
                                   /\ frame[c].stage \in {"route", "spawn"}}

(* runningTaskCounter never exceeds maxConcurrentTasks, at any await of any *)
(* interleaving of submissions, completions, scans and thefts (CC-002).     *)
CounterWithinLimit == counter <= MaxConcurrent

(* The counter is exact: one slot per running task and per assignment in    *)
(* progress, none leaked and none released twice.                           *)
CounterExact == counter = Cardinality(Running) + Cardinality(Reserving)

(* Never more tasks running than maxConcurrentTasks: what the counter is    *)
(* for (the assertion of queen-coordinator-race-condition.test.ts).         *)
CapacityRespected == Cardinality(Running) <= MaxConcurrent

(* No agent is leaked: each one is held by a running task or by the         *)
(* assignment that is about to record it.                                   *)
AgentsReleased ==
  \A a \in live : \/ \E t \in Running : agents[t] = a
                  \/ \E c \in Coroutines : frame[c].agent = a
                                           /\ frame[c].stage = "spawn"

(* Every running task has somebody who will report it: a plugin's handler,  *)
(* an outside worker, or the assignment that is about to hand it over.      *)
(* Without one the task would run, and hold its slot, for ever.             *)
RunningHasWorker ==
  \A t \in Running : \/ runs[t] + jobs[t] > 0
                     \/ \E c \in Coroutines : frame[c].task = t
                                              /\ frame[c].stage = "announce"

(* An accepted task that waits is in its priority queue exactly once, or in *)
(* the hands of a coroutine that is assigning it: none is forgotten.        *)
NoTaskLost ==
  \A t \in Tasks : status[t] = "queued" =>
    Copies(queues.prio[PriorityOf[t]], t) + Cardinality(Carrying(t)) = 1

(* A priority queue and the domain queues of its tasks' targets are two     *)
(* indexes of the same multiset, so that a domain's load counts each        *)
(* waiting task once and a stolen task is still waiting.                    *)
IndexesAgree ==
  \A t \in Tasks, d \in Domains : IsTarget(t, d) =>
    Copies(queues.domain[d], t) = Copies(queues.prio[PriorityOf[t]], t)

(* Each entry of a priority queue has one in each target's domain queue,    *)
(* even when tasks are queued twice: no domain is taken for idle while a    *)
(* task waits for it.                                                       *)
LoadNotUnderstated ==
  \A t \in Tasks, d \in Domains : IsTarget(t, d) =>
    Copies(queues.domain[d], t) >= Copies(queues.prio[PriorityOf[t]], t)

(* Each priority queue is in order of creation, retried tasks included, so  *)
(* the shift takes the oldest (PERF-001's binary insertion).                *)
OldestFirst ==
  \A p \in Priorities : \A i, j \in DOMAIN queues.prio[p] :
    i < j => queues.prio[p][i] <= queues.prio[p][j]

(* A finished task stays as it finished. *)
FinishedStaysFinished ==
  [][\A t \in Tasks : status[t] \in Finished => status'[t] = status[t]]_vars

(* taskRetryLimit: a task is started at most once more than its retries. *)
RetriesLimited == \A t \in Tasks : starts[t] <= TaskRetryLimit + 1

(* Every queued task is eventually finished. *)
QueuedFinishes ==
  \A t \in Tasks : status[t] = "queued" ~> status[t] \in Finished
=============================================================================
