----------------------- MODULE QueenCoordinatorProofs -----------------------
(* Invariants of the Queen for every set of tasks, domains, coroutines and  *)
(* agent ids, and every configuration.                                      *)
EXTENDS QueenCoordinator, TaskQueuesProofs

(* A coroutine suspended in the assignment of a task names the task. *)
Framed == {f \in Frames : f.stage \notin {"none", "resume"} => f.task \in Tasks}

(* The inductive invariant.  A slot is taken only under the limit and in    *)
(* the same step as the check, and a task enters a queue at its place, so   *)
(* the counter's bound and the order of the queues need no more than each   *)
(* other's typing and that of the frames.                                   *)
IInv == /\ TypeOK
        /\ frame \in [Coroutines -> Framed]
        /\ queues \in OrderedQueues
        /\ CounterWithinLimit

---------------------------------------------------------------------------
(* A coroutine frame built of parts in range is one. *)
LEMMA FrameType ==
  ASSUME NEW kind \in Kinds, NEW stage \in Stages, NEW t \in Tasks \cup {NoTask},
         NEW d \in Domains \cup {NoDomain}, NEW from \in 0 .. 4,
         stage \notin {"none", "resume"} => t \in Tasks
  PROVE  Frame(kind, stage, t, d, from) \in Framed
BY DEF Frame, Framed, Frames, NoAgent

(* The free slot is a frame. *)
LEMMA IdleType == Idle \in Framed
BY FrameType DEF Idle, Kinds, Stages

(* A scan about to go on at priority p is a frame. *)
LEMMA ScanType == \A p \in 0 .. 4 : Scan(p) \in Framed
BY FrameType DEF Scan, Kinds, Stages

(* Ordered queues are queues. *)
LEMMA QueuesType == OrderedQueues \subseteq Queues
BY DEF OrderedQueues

(* The empty round of stealing has the type of a round. *)
LEMMA NoRoundType ==
  NoRound \in [idle: SUBSET Domains, busy: SUBSET Domains, left: Int,
               load: [Domains -> Nat]]
BY DEF NoRound

(* A task is placed at a domain that may take it, or at none. *)
LEMMA PlacementType ==
  ASSUME NEW t \in Tasks, NEW q, NEW st, NEW dm
  PROVE  Placement(t, q, st, dm) \subseteq Domains \cup {NoDomain}
<1>1. Candidates[t] \in Seq(Domains)
  BY PlacementAssumption
<1>2. \A i \in DOMAIN Candidates[t] : Candidates[t][i] \in Domains
  BY <1>1
<1> QED  BY <1>2 DEF Placement

(* A scan keeps the counter within the limit: it takes a slot only when one *)
(* is free.                                                                 *)
LEMMA ProcessQueueType ==
  ASSUME frame \in [Coroutines -> Framed], NEW c \in Coroutines,
         NEW from \in 0 .. 4, NEW n \in Int, n <= MaxConcurrent,
         NEW q \in OrderedQueues, NEW st, NEW dm, ProcessQueue(c, from, n, q, st, dm)
  PROVE  /\ counter' \in Int /\ counter' <= MaxConcurrent
         /\ queues' \in OrderedQueues
         /\ frame' \in [Coroutines -> Framed]
<1>1. CASE Full(n) \/ \A p \in Priorities : p >= from => q.prio[p] = <<>>
  BY <1>1, IdleType DEF ProcessQueue
<1>2. CASE ~(Full(n) \/ \A p \in Priorities : p >= from => q.prio[p] = <<>>)
  <2>1. PICK p \in Priorities :
          /\ q.prio[p] # <<>>
          /\ counter' = n + 1
          /\ queues' = Shift(q, p)
          /\ \E d \in Placement(Head(q.prio[p]), Shift(q, p), st, dm) :
               frame' = [frame EXCEPT ![c] =
                 IF d = NoDomain THEN Scan(p + 1)
                 ELSE Frame("scan", "route", Head(q.prio[p]), d, p + 1)]
    BY <1>2 DEF ProcessQueue
  <2>2. Head(q.prio[p]) \in Tasks /\ queues' \in OrderedQueues
    BY <2>1, ShiftType
  <2>3. PICK d \in Domains \cup {NoDomain} :
          frame' = [frame EXCEPT ![c] =
            IF d = NoDomain THEN Scan(p + 1)
            ELSE Frame("scan", "route", Head(q.prio[p]), d, p + 1)]
    BY <2>1, <2>2, PlacementType
  <2>4. p + 1 \in 0 .. 4
    BY DEF Priorities
  <2>5. /\ Scan(p + 1) \in Framed
        /\ Frame("scan", "route", Head(q.prio[p]), d, p + 1) \in Framed
    BY <2>2, <2>4, ScanType, FrameType DEF Kinds, Stages
  <2>6. frame' \in [Coroutines -> Framed]
    BY <2>3, <2>5
  <2>7. counter' \in Int /\ counter' <= MaxConcurrent
    BY <1>2, <2>1, CapacityAssumption DEF Full
  <2> QED  BY <2>2, <2>6, <2>7
<1> QED  BY <1>1, <1>2

(* So does every caller of assignTask after it returns. *)
LEMMA ReturnType ==
  ASSUME IInv, NEW c \in Coroutines, NEW ok \in BOOLEAN,
         NEW n \in Int, n <= MaxConcurrent, NEW st, NEW dm,
         Return(c, ok, n, st, dm)
  PROVE  /\ counter' \in Int /\ counter' <= MaxConcurrent
         /\ queues' \in OrderedQueues
         /\ jobs' \in [Tasks -> Nat]
         /\ frame' \in [Coroutines -> Framed]
<1> USE DEF IInv
<1>1. CASE frame[c].kind = "submit"
  <2>1. counter' \in Int /\ counter' <= MaxConcurrent
    BY <1>1, CapacityAssumption DEF Return
  <2>2. jobs' \in [Tasks -> Nat]
    BY <1>1 DEF Return, TypeOK
  <2>3. frame' \in [Coroutines -> Framed]
    BY <1>1, IdleType DEF Return
  <2>4. queues' \in OrderedQueues
    BY <1>1 DEF Return, TypeOK
  <2> QED  BY <2>1, <2>2, <2>3, <2>4
<1>2. CASE frame[c].kind = "scan"
  <2>1. ProcessQueue(c, frame[c].from, n, queues, st, dm) /\ UNCHANGED jobs
    BY <1>2 DEF Return
  <2>2. frame[c].from \in 0 .. 4
    BY DEF Framed, Frames
  <2> QED  BY <2>1, <2>2, ProcessQueueType DEF TypeOK
<1>3. CASE frame[c].kind = "steal"
  <2>1. Frame("steal", "resume", NoTask, NoDomain, 0) \in Framed
    BY FrameType DEF Kinds, Stages
  <2> QED  BY <1>3, <2>1 DEF Return, TypeOK
<1> QED  BY <1>1, <1>2, <1>3 DEF Return

---------------------------------------------------------------------------
(* The task in the hands of a suspended assignment, and what its frame     *)
(* becomes at the next await.                                              *)
LEMMA CarriedTask ==
  ASSUME IInv, NEW c \in Coroutines,
         frame[c].stage \notin {"none", "resume"}
  PROVE  frame[c].task \in Tasks
BY DEF IInv, Framed

(* Going on to the next await keeps a frame in range. *)
LEMMA NextStage ==
  ASSUME IInv, NEW c \in Coroutines, frame[c].task \in Tasks,
         NEW stage \in Stages
  PROVE  [frame EXCEPT ![c] = [@ EXCEPT !.stage = stage]] \in [Coroutines -> Framed]
BY DEF IInv, Framed, Frames

(* Giving a slot back keeps the counter within the limit. *)
LEMMA ReleasedType ==
  ASSUME NEW n \in Int, n <= MaxConcurrent
  PROVE  Released(n) \in Int /\ Released(n) <= MaxConcurrent
BY CapacityAssumption DEF Released

(* A caller that will scan the queue is a frame. *)
LEMMA ScanLaterType ==
  ASSUME IInv, NEW c \in Coroutines, ScanLater(c)
  PROVE  frame' \in [Coroutines -> Framed]
BY ScanType DEF ScanLater, IInv

(* submitTask: the governance check and what follows it. *)
LEMMA SubmissionKeepsInv ==
  ASSUME IInv, NEW c \in Coroutines,
         (\E t \in Tasks : SubmitTask(t, c)) \/ Governance(c)
  PROVE  IInv'
<1> USE DEF IInv, TypeOK, record, work, faults, CounterWithinLimit
<1>1. ASSUME NEW t \in Tasks, SubmitTask(t, c) PROVE IInv'
  <2>1. Frame("submit", "governance", t, NoDomain, 0) \in Framed
    BY FrameType DEF Kinds, Stages
  <2>2. frame' \in [Coroutines -> Framed] /\ created' \subseteq Tasks
    BY <1>1, <2>1 DEF SubmitTask
  <2> QED  BY <1>1, <2>2 DEF SubmitTask, Framed
<1>2. CASE GovernanceRejects(c)
  <2>1. frame' \in [Coroutines -> Framed]
    BY <1>2, IdleType DEF GovernanceRejects
  <2> QED  BY <1>2, <2>1 DEF GovernanceRejects, Framed
<1>3. CASE QueueTask(c)
  <2>1. frame[c].task \in Tasks
    BY <1>3, CarriedTask DEF QueueTask, At
  <2>2. queues' \in OrderedQueues
    BY <1>3, <2>1, EnqueueType DEF QueueTask
  <2>3. status' \in [Tasks -> Statuses] /\ jobs' \in [Tasks -> Nat]
    BY <1>3, <2>1 DEF QueueTask, Statuses
  <2>4. frame' \in [Coroutines -> Framed]
    BY <1>3, IdleType DEF QueueTask
  <2> QED  BY QueuesType, <1>3, <2>2, <2>3, <2>4 DEF QueueTask, Framed
<1>4. CASE AssignDirectly(c)
  <2>1. frame[c].task \in Tasks
    BY <1>4, CarriedTask DEF AssignDirectly, At
  <2>2. PICK d \in Domains \cup {NoDomain} :
          /\ counter' = IF d = NoDomain THEN counter ELSE counter + 1
          /\ frame' = [frame EXCEPT ![c] =
               IF d = NoDomain THEN Idle
               ELSE Frame("submit", "route", frame[c].task, d, 0)]
    BY <1>4, <2>1, PlacementType DEF AssignDirectly
  <2>3. Frame("submit", "route", frame[c].task, d, 0) \in Framed
    BY <2>1, FrameType DEF Kinds, Stages
  <2>4. frame' \in [Coroutines -> Framed]
    BY <2>2, <2>3, IdleType
  <2>5. counter' \in Int /\ counter' <= MaxConcurrent
    BY <1>4, <2>2 DEF AssignDirectly
  <2> QED  BY <1>4, <2>4, <2>5 DEF AssignDirectly, Framed
<1> QED  BY <1>1, <1>2, <1>3, <1>4 DEF Governance

(* assignTaskToDomain: a step of an assignment in progress. *)
LEMMA AssignmentKeepsInv ==
  ASSUME IInv, NEW c \in Coroutines, Assignment(c) \/ ScanResumes(c)
  PROVE  IInv'
<1> USE DEF IInv, TypeOK, record, work, faults, CounterWithinLimit
<1>0. TRUE \in BOOLEAN /\ FALSE \in BOOLEAN
  OBVIOUS
<1>1. CASE BreakerRejects(c)
  <2>1. /\ Return(c, FALSE, counter, status, assigned)
        /\ UNCHANGED <<created, record, live, thief, runs, faults>>
    BY <1>1 DEF BreakerRejects
  <2> QED  BY QueuesType, <1>0, <2>1, ReturnType DEF Framed
<1>2. CASE SpawnAgent(c)
  <2>1. frame[c].task \in Tasks
    BY <1>2, CarriedTask DEF SpawnAgent, At
  <2>2. live' \subseteq AgentIds
    BY <1>2 DEF SpawnAgent
  <2>3. frame' \in [Coroutines -> Framed]
    <3>1. frame[c] \in Frames
      BY DEF Framed
    <3>2. [frame[c] EXCEPT !.stage = "spawn"] \in Framed
      BY <2>1, <3>1 DEF Framed, Frames, Stages
    <3>3. \A a \in AgentIds :
            [frame[c] EXCEPT !.stage = "spawn", !.agent = a] \in Framed
      BY <2>1, <3>1 DEF Framed, Frames, Stages
    <3> QED  BY <1>2, <3>2, <3>3 DEF SpawnAgent
  <2> QED  BY <1>2, <2>2, <2>3 DEF SpawnAgent, Framed
<1>3. CASE StartTask(c)
  <2>1. frame[c].task \in Tasks
    BY <1>3, CarriedTask DEF StartTask, At
  <2>2. frame[c].domain \in Domains \cup {NoDomain} /\ frame[c].agent \in AgentIds \cup {NoAgent}
    BY DEF Framed, Frames
  <2>3. frame' \in [Coroutines -> Framed]
    BY <1>3, <2>1, NextStage DEF StartTask, Stages
  <2>4. /\ status' \in [Tasks -> Statuses] /\ jobs' \in [Tasks -> Nat]
        /\ assigned' \in [Tasks -> Domains \cup {NoDomain}]
        /\ agents' \in [Tasks -> AgentIds \cup {NoAgent}]
        /\ retry' \in [Tasks -> Nat] /\ starts' \in [Tasks -> Nat]
    BY <1>3, <2>1, <2>2 DEF StartTask, Statuses
  <2> QED  BY <1>3, <2>3, <2>4 DEF StartTask, Framed
<1>4. CASE PluginAccepts(c)
  <2>1. frame[c].task \in Tasks
    BY <1>4, CarriedTask DEF PluginAccepts, At
  <2>2. frame' \in [Coroutines -> Framed]
    BY <1>4, <2>1, NextStage DEF PluginAccepts, Stages
  <2>3. runs' \in [Tasks -> Nat]
    BY <1>4, <2>1 DEF PluginAccepts
  <2> QED  BY <1>4, <2>2, <2>3 DEF PluginAccepts, Framed
<1>5. CASE PluginRefuses(c)
  <2>1. frame[c].task \in Tasks
    BY <1>5, CarriedTask DEF PluginRefuses, At
  <2>2. frame[c].domain \in Domains \cup {NoDomain} /\ frame[c].agent \in AgentIds \cup {NoAgent}
    BY DEF Framed, Frames
  <2>3. /\ status' \in [Tasks -> Statuses]
        /\ assigned' \in [Tasks -> Domains \cup {NoDomain}]
        /\ agents' \in [Tasks -> AgentIds \cup {NoAgent}]
        /\ retry' \in [Tasks -> Nat]
    BY <1>5, <2>1, <2>2 DEF PluginRefuses, Statuses
  <2>4. PICK st, dm : Return(c, FALSE, Released(counter), st, dm)
    BY <1>5 DEF PluginRefuses
  <2>5. /\ counter' \in Int /\ counter' <= MaxConcurrent
        /\ queues' \in OrderedQueues /\ jobs' \in [Tasks -> Nat]
        /\ frame' \in [Coroutines -> Framed]
    BY <1>0, <2>4, ReturnType, ReleasedType
  <2> QED  BY QueuesType, <1>5, <2>3, <2>5 DEF PluginRefuses, Framed
<1>6. CASE NoHandler(c) \/ ExecuteReturns(c)
  <2>1. /\ Return(c, TRUE, counter, status, assigned)
        /\ UNCHANGED <<created, record, live, thief, runs, faults>>
    BY <1>6 DEF NoHandler, ExecuteReturns
  <2> QED  BY QueuesType, <1>0, <2>1, ReturnType DEF Framed
<1>7. CASE ScanResumes(c)
  <2>1. /\ ProcessQueue(c, frame[c].from, counter, queues, status, assigned)
        /\ UNCHANGED <<created, record, live, thief, work, faults>>
    BY <1>7 DEF ScanResumes
  <2>2. frame[c].from \in 0 .. 4
    BY DEF Framed, Frames
  <2> QED  BY QueuesType, <2>1, <2>2, ProcessQueueType DEF Framed
<1> QED  BY <1>1, <1>2, <1>3, <1>4, <1>5, <1>6, <1>7 DEF Assignment

(* Completions, by callback or by event: a slot is given back, never taken, *)
(* before the queue is scanned.                                             *)
LEMMA CompletionKeepsInv ==
  ASSUME IInv, NEW c \in Coroutines, NEW t \in Tasks,
         PluginCompletes(t, c) \/ EventCompleted(t, c) \/ EventFailed(t, c)
  PROVE  IInv'
<1> USE DEF IInv, TypeOK, record, work, faults, CounterWithinLimit
<1>1. CounterAfterEvent(t) \in Int /\ CounterAfterEvent(t) <= MaxConcurrent
  BY ReleasedType DEF CounterAfterEvent
<1>2. 0 \in 0 .. 4
  OBVIOUS
<1>3. CASE PluginCompletes(t, c)
  <2>1. runs' \in [Tasks -> Nat]
    BY <1>3 DEF PluginCompletes
  <2>2. CASE status[t] = "none"
    BY <1>3, <2>1, <2>2 DEF PluginCompletes, Framed
  <2>3. CASE status[t] # "none"
    <3>1. status' \in [Tasks -> Statuses] /\ live' \subseteq AgentIds
      BY <1>3, <2>3 DEF PluginCompletes, Statuses, StopAgent
    <3>2. counter' \in Int /\ counter' <= MaxConcurrent
      BY <1>3, <2>3, ReleasedType DEF PluginCompletes
    <3>3. frame' \in [Coroutines -> Framed]
      BY <1>3, <2>3, ScanLaterType DEF PluginCompletes
    <3> QED  BY <1>3, <2>1, <3>1, <3>2, <3>3 DEF PluginCompletes, Framed
  <2> QED  BY <2>2, <2>3
<1>4. CASE EventCompleted(t, c)
  <2>1. jobs' \in [Tasks -> Nat]
    BY <1>4 DEF EventCompleted
  <2>2. /\ status' \in [Tasks -> Statuses]
        /\ counter' \in Int /\ counter' <= MaxConcurrent
        /\ queues' \in OrderedQueues
        /\ frame' \in [Coroutines -> Framed]
    <3>1. CASE status[t] = "none"
      BY <1>2, <1>4, <3>1, ProcessQueueType DEF EventCompleted
    <3>2. CASE status[t] # "none"
      BY <1>1, <1>4, <3>2, ScanLaterType DEF EventCompleted, Statuses
    <3> QED  BY <3>1, <3>2
  <2> QED  BY QueuesType, <1>4, <2>1, <2>2 DEF EventCompleted, Framed
<1>5. CASE EventFailed(t, c)
  <2>1. jobs' \in [Tasks -> Nat]
    BY <1>5 DEF EventFailed
  <2>2. tripped' \subseteq Domains
    BY <1>5 DEF EventFailed
  <2>3. /\ status' \in [Tasks -> Statuses] /\ retry' \in [Tasks -> Nat]
        /\ counter' \in Int /\ counter' <= MaxConcurrent
        /\ queues' \in OrderedQueues
        /\ frame' \in [Coroutines -> Framed]
    <3>1. CASE status[t] = "none"
      BY <1>2, <1>5, <3>1, ProcessQueueType DEF EventFailed
    <3>2. CASE status[t] # "none" /\ retry[t] < TaskRetryLimit
      <4>1. /\ status' = [status EXCEPT ![t] = "queued"]
            /\ retry' = [retry EXCEPT ![t] = @ + 1]
            /\ ProcessQueue(c, 0, CounterAfterEvent(t), EnqueueTask(queues, t),
                            [status EXCEPT ![t] = "queued"], assigned)
        BY <1>5, <3>2, CapacityAssumption DEF EventFailed
      <4>2. EnqueueTask(queues, t) \in OrderedQueues
        BY EnqueueType
      <4>3. /\ counter' \in Int /\ counter' <= MaxConcurrent
            /\ queues' \in OrderedQueues
            /\ frame' \in [Coroutines -> Framed]
        BY <1>1, <1>2, <4>1, <4>2, ProcessQueueType
      <4> QED  BY <4>1, <4>3 DEF Statuses
    <3>3. CASE status[t] # "none" /\ ~(retry[t] < TaskRetryLimit)
      BY <1>1, <1>5, <3>3, ScanLaterType DEF EventFailed, Statuses
    <3> QED  BY <3>1, <3>2, <3>3
  <2> QED  BY QueuesType, <1>5, <2>1, <2>2, <2>3 DEF EventFailed, Framed
<1> QED  BY <1>3, <1>4, <1>5

(* An event of a domain scans the queue, and takes a slot if one is free. *)
LEMMA DomainEventKeepsInv ==
  ASSUME IInv, NEW c \in Coroutines, DomainEvent(c)
  PROVE  IInv'
<1> USE DEF IInv, TypeOK, record, work, faults, CounterWithinLimit
<1>1. 0 \in 0 .. 4
  OBVIOUS
<1>2. /\ counter' \in Int /\ counter' <= MaxConcurrent
      /\ queues' \in OrderedQueues
      /\ frame' \in [Coroutines -> Framed]
  BY <1>1, ProcessQueueType DEF DomainEvent
<1> QED  BY QueuesType, <1>2 DEF DomainEvent, Framed

(* Cancellation and retention give slots back and take none. *)
LEMMA CancellationKeepsInv ==
  ASSUME IInv, NEW t \in Tasks, Cancel(t) \/ CleanupTask(t)
  PROVE  IInv'
<1> USE DEF IInv, TypeOK, record, work, faults, CounterWithinLimit
<1>1. CASE Cancel(t)
  <2>1. status' \in [Tasks -> Statuses] /\ live' \subseteq AgentIds
    BY <1>1 DEF Cancel, Statuses, StopAgent
  <2>2. counter' \in Int /\ counter' <= MaxConcurrent
    BY <1>1, ReleasedType DEF Cancel
  <2>3. queues' \in OrderedQueues
    BY <1>1, RemoveType DEF Cancel
  <2> QED  BY QueuesType, <1>1, <2>1, <2>2, <2>3 DEF Cancel, Framed
<1>2. CASE CleanupTask(t)
  <2>1. /\ status' \in [Tasks -> Statuses]
        /\ assigned' \in [Tasks -> Domains \cup {NoDomain}]
        /\ agents' \in [Tasks -> AgentIds \cup {NoAgent}]
        /\ retry' \in [Tasks -> Nat]
    BY <1>2 DEF CleanupTask, Statuses
  <2> QED  BY <1>2, <2>1 DEF CleanupTask, Framed
<1> QED  BY <1>1, <1>2

(* The load of a domain is a number. *)
LEMMA LoadType ==
  ASSUME NEW d \in Domains, NEW q \in Queues, NEW st, NEW dm
  PROVE  DomainLoad(d, q, st, dm) \in Nat
<1>1. Len(q.domain[d]) \in Nat
  BY DEF Queues
<1> DEFINE here == {t \in Tasks : st[t] = "running" /\ dm[t] = d}
<1>2. IsFiniteSet(Tasks) /\ here \subseteq Tasks
  BY TaskAssumption
<1> HIDE DEF here
<1>3. Cardinality(here) \in Nat
  BY <1>2, FS_Subset, FS_CardinalityType
<1> QED  BY <1>1, <1>3 DEF DomainLoad, here

Rounds == [idle: SUBSET Domains, busy: SUBSET Domains, left: Int,
           load: [Domains -> Nat]]

(* A theft leaves ordered queues, frames in range and a round. *)
LEMMA TheftType ==
  ASSUME IInv, NEW c \in Coroutines, NEW r \in Rounds, Theft(c, r)
  PROVE  /\ queues' \in OrderedQueues
         /\ frame' \in [Coroutines -> Framed]
         /\ thief' \in Rounds
<1> USE DEF IInv
<1>0. PICK d \in Domains, i \in Domains :
        /\ \E k \in DOMAIN queues.domain[d] :
             /\ queues' = RemoveFromQueues(queues, queues.domain[d][k])
             /\ frame' = [frame EXCEPT ![c] =
                            Frame("steal", "route", queues.domain[d][k], i, 0)]
        /\ thief' = [idle |-> r.idle \ {i},
                     busy |-> {e \in r.busy : ~Before(r, e, d)},
                     left |-> Tries(r, d) - 1, load |-> r.load]
  BY DEF Theft
<1>1. PICK k \in DOMAIN queues.domain[d] :
        /\ queues' = RemoveFromQueues(queues, queues.domain[d][k])
        /\ frame' = [frame EXCEPT ![c] =
                       Frame("steal", "route", queues.domain[d][k], i, 0)]
  BY <1>0
<1>2. queues.domain[d] \in Seq(Tasks)
  BY DEF OrderedQueues, Queues
<1>3. queues.domain[d][k] \in Tasks /\ Len(queues.domain[d]) \in Nat
  BY <1>2
<1>4. Frame("steal", "route", queues.domain[d][k], i, 0) \in Framed
  BY <1>3, FrameType DEF Kinds, Stages
<1>5. Tries(r, d) \in Int
  BY <1>3, CapacityAssumption DEF Tries, Rounds
<1>6. thief' \in Rounds
  BY <1>0, <1>5 DEF Rounds
<1> QED  BY <1>1, <1>4, <1>6, RemoveType

(* No step of a stealing round moves the counter. *)
LEMMA StealingKeepsInv ==
  ASSUME IInv, NEW c \in Coroutines, StealingStarts(c) \/ Stealing(c)
  PROVE  IInv'
<1> USE DEF IInv, TypeOK, record, work, faults, CounterWithinLimit
<1>1. CASE StealingStarts(c)
  <2>1. PICK I \in SUBSET Domains : Theft(c, Round(I))
    BY <1>1 DEF StealingStarts
  <2>2. \A d \in Domains : Load(d) \in Nat
    BY LoadType DEF Load
  <2>3. Round(I) \in Rounds
    BY <2>2 DEF Round, Rounds
  <2>4. /\ queues' \in OrderedQueues
        /\ frame' \in [Coroutines -> Framed]
        /\ thief' \in Rounds
    BY <2>1, <2>3, TheftType
  <2> QED  BY QueuesType, <1>1, <2>4 DEF StealingStarts, Framed, Rounds
<1>2. CASE StealingContinues(c)
  <2>1. thief \in Rounds
    BY DEF Rounds
  <2>2. /\ queues' \in OrderedQueues
        /\ frame' \in [Coroutines -> Framed]
        /\ thief' \in Rounds
    BY <1>2, <2>1, TheftType DEF StealingContinues
  <2> QED  BY QueuesType, <1>2, <2>2 DEF StealingContinues, Framed, Rounds
<1>3. CASE StealingEnds(c)
  <2>1. frame' \in [Coroutines -> Framed]
    BY <1>3, IdleType DEF StealingEnds
  <2> QED  BY <1>3, <2>1, NoRoundType DEF StealingEnds, Framed
<1> QED  BY <1>1, <1>2, <1>3 DEF Stealing

---------------------------------------------------------------------------
(* The invariant holds at first. *)
LEMMA InitHasInv == Init => IInv
<1> SUFFICES ASSUME Init PROVE IInv
  OBVIOUS
<1>1. frame \in [Coroutines -> Framed]
  BY IdleType DEF Init
<1>2. TypeOK
  BY <1>1, EmptyType, QueuesType, NoRoundType
     DEF Init, TypeOK, Framed, Statuses
<1>3. CounterWithinLimit
  BY CapacityAssumption DEF Init, CounterWithinLimit
<1> QED  BY <1>1, <1>2, <1>3, EmptyType DEF Init, IInv

(* Every step keeps it. *)
LEMMA NextKeepsInv == IInv /\ [Next]_vars => IInv'
<1> SUFFICES ASSUME IInv, [Next]_vars PROVE IInv'
  OBVIOUS
<1>1. CASE UNCHANGED vars
  BY <1>1 DEF IInv, TypeOK, CounterWithinLimit, vars, record, work, faults, Framed
<1>2. ASSUME NEW c \in Coroutines, Continue(c) PROVE IInv'
  BY <1>2, SubmissionKeepsInv, AssignmentKeepsInv, StealingKeepsInv DEF Continue
<1>3. ASSUME NEW c \in Coroutines, StealingStarts(c) PROVE IInv'
  BY <1>3, StealingKeepsInv
<1>4. ASSUME NEW t \in Tasks, NEW c \in Coroutines, SubmitTask(t, c) PROVE IInv'
  BY <1>4, SubmissionKeepsInv
<1>5. ASSUME NEW t \in Tasks, NEW c \in Coroutines,
             PluginCompletes(t, c) \/ EventCompleted(t, c) \/ EventFailed(t, c)
      PROVE IInv'
  BY <1>5, CompletionKeepsInv
<1>6. ASSUME NEW c \in Coroutines, DomainEvent(c) PROVE IInv'
  BY <1>6, DomainEventKeepsInv
<1>7. ASSUME NEW t \in Tasks, CancelTask(t) \/ CleanupTask(t) PROVE IInv'
  BY <1>7, CancellationKeepsInv DEF CancelTask
<1>8. ASSUME NEW d \in Domains, BreakerTimeout(d) \/ PluginDisposed(d) PROVE IInv'
  BY <1>8 DEF BreakerTimeout, PluginDisposed, IInv, TypeOK, CounterWithinLimit,
             record, work, faults, Framed
<1> QED  BY <1>1, <1>2, <1>3, <1>4, <1>5, <1>6, <1>7, <1>8 DEF Next

(* So it always holds. *)
LEMMA InvInvariant == Spec => []IInv
<1> QED  BY InitHasInv, NextKeepsInv, PTL DEF Spec

(* The Queen's records, queues and coroutines are well formed at every      *)
(* await of every interleaving.                                             *)
THEOREM Typing == Spec => []TypeOK
<1>1. IInv => TypeOK
  BY DEF IInv
<1> QED  BY <1>1, InvInvariant, PTL

(* runningTaskCounter never exceeds maxConcurrentTasks, whatever the number *)
(* of submitTask, processQueue, completion and stealing calls in progress.  *)
THEOREM Limit == Spec => []CounterWithinLimit
<1>1. IInv => CounterWithinLimit
  BY DEF IInv
<1> QED  BY <1>1, InvInvariant, PTL

(* Every priority queue stays in order of creation, through submissions     *)
(* that overtake each other at an await, retries, cancellations and thefts. *)
THEOREM Order == Spec => []OldestFirst
<1>1. IInv => OldestFirst
  BY DEF IInv, OldestFirst, OrderedQueues, InOrder
<1> QED  BY <1>1, InvInvariant, PTL

---------------------------------------------------------------------------
(* LoadNotUnderstated as a property of the queues, which every operation on *)
(* them preserves, also when tasks are queued twice.                        *)
Covered(q) ==
  \A t \in Tasks, d \in Domains : IsTarget(t, d) =>
    Copies(q.domain[d], t) >= Copies(q.prio[PriorityOf[t]], t)

(* The numbers of copies are numbers. *)
LEMMA CopiesType ==
  ASSUME NEW q \in Queues, NEW t \in Tasks
  PROVE  /\ \A p \in Priorities : Copies(q.prio[p], t) \in Nat
         /\ \A d \in Domains : Copies(q.domain[d], t) \in Nat
         /\ PriorityOf[t] \in Priorities
<1>1. /\ \A p \in Priorities : q.prio[p] \in Seq(Tasks)
      /\ \A d \in Domains : q.domain[d] \in Seq(Tasks)
  BY DEF Queues
<1> QED  BY <1>1, PlacesFinite, PriorityAssumption

(* enqueueTask adds the task's entry to both indexes. *)
LEMMA EnqueueCovers ==
  ASSUME NEW q \in Queues, NEW t \in Tasks, Covered(q)
  PROVE  Covered(EnqueueTask(q, t))
<1> DEFINE r == EnqueueTask(q, t)
<1>1. Added(q, r, t)
  BY EnqueueAdds
<1> HIDE DEF r
<1>2. ASSUME NEW u \in Tasks, NEW d \in Domains, IsTarget(u, d)
      PROVE  Copies(r.domain[d], u) >= Copies(r.prio[PriorityOf[u]], u)
  BY <1>1, <1>2, CopiesType DEF Added, Covered
<1>3. Covered(r)
  BY <1>2 DEF Covered
<1> QED  BY <1>3 DEF r

(* removeFromQueues takes from a domain queue no more than one entry, and   *)
(* then one from the priority queue if there is any.                        *)
LEMMA RemoveCovers ==
  ASSUME NEW q \in Queues, NEW t, Covered(q)
  PROVE  Covered(RemoveFromQueues(q, t))
<1> DEFINE r == RemoveFromQueues(q, t)
<1>1. Removed(q, r, t)
  BY RemoveRemoves
<1> HIDE DEF r
<1>2. ASSUME NEW u \in Tasks, NEW d \in Domains, IsTarget(u, d)
      PROVE  Copies(r.domain[d], u) >= Copies(r.prio[PriorityOf[u]], u)
  BY <1>1, <1>2, CopiesType DEF Removed, Covered, Less
<1>3. Covered(r)
  BY <1>2 DEF Covered
<1> QED  BY <1>3 DEF r

(* A shift takes at least as much from the priority queue. *)
LEMMA ShiftCovers ==
  ASSUME NEW q \in Queues, NEW p \in Priorities, q.prio[p] # <<>>, Covered(q)
  PROVE  Covered(Shift(q, p))
<1> DEFINE r == Shift(q, p)
           t == Head(q.prio[p])
<1>1. Shifted(q, r, p, t)
  BY ShiftShifts
<1> HIDE DEF r, t
<1>2. ASSUME NEW u \in Tasks, NEW d \in Domains, IsTarget(u, d)
      PROVE  Copies(r.domain[d], u) >= Copies(r.prio[PriorityOf[u]], u)
  BY <1>1, <1>2, CopiesType DEF Shifted, Covered, Less
<1>3. Covered(r)
  BY <1>2 DEF Covered
<1> QED  BY <1>3 DEF r

(* A scan shifts one queue or none. *)
LEMMA ScanCovers ==
  ASSUME NEW q \in Queues, Covered(q), NEW c, NEW from, NEW n, NEW st, NEW dm,
         ProcessQueue(c, from, n, q, st, dm)
  PROVE  Covered(queues')
BY ShiftCovers DEF ProcessQueue

(* A theft removes one task. *)
LEMMA TheftCovers ==
  ASSUME queues \in Queues, Covered(queues), NEW c, NEW r, Theft(c, r)
  PROVE  Covered(queues')
<1>1. PICK d \in Domains : \E k \in DOMAIN queues.domain[d] :
        queues' = RemoveFromQueues(queues, queues.domain[d][k])
  BY DEF Theft
<1> QED  BY <1>1, RemoveCovers

(* Every step does one of these, or leaves the queues alone. *)
LEMMA NextCovers == IInv /\ Covered(queues) /\ [Next]_vars => Covered(queues')
<1> SUFFICES ASSUME IInv, Covered(queues), [Next]_vars
             PROVE  Covered(queues')
  OBVIOUS
<1>1. queues \in OrderedQueues /\ queues \in Queues
  BY QueuesType DEF IInv
<1>2. ASSUME NEW c, NEW ok, NEW n, NEW st, NEW dm, Return(c, ok, n, st, dm)
      PROVE  Covered(queues')
  BY <1>1, <1>2, ScanCovers DEF Return
<1>3. ASSUME NEW c \in Coroutines, Governance(c)
      PROVE  Covered(queues')
  <2>1. CASE QueueTask(c)
    <3>1. queues' = EnqueueTask(queues, frame[c].task) /\ frame[c].stage = "governance"
      BY <2>1 DEF QueueTask, At
    <3>2. frame[c].task \in Tasks
      BY <3>1, CarriedTask
    <3> QED  BY <1>1, <3>1, <3>2, EnqueueCovers
  <2>2. CASE GovernanceRejects(c) \/ AssignDirectly(c)
    BY <2>2 DEF GovernanceRejects, AssignDirectly
  <2> QED  BY <1>3, <2>1, <2>2 DEF Governance
<1>4. ASSUME NEW c \in Coroutines, Assignment(c)
      PROVE  Covered(queues')
  <2>1. CASE BreakerRejects(c)
    BY <1>2, <2>1 DEF BreakerRejects
  <2>2. CASE PluginRefuses(c)
    BY <1>2, <2>2 DEF PluginRefuses
  <2>3. CASE NoHandler(c) \/ ExecuteReturns(c)
    BY <1>2, <2>3 DEF NoHandler, ExecuteReturns
  <2>4. CASE SpawnAgent(c) \/ StartTask(c) \/ PluginAccepts(c)
    BY <2>4 DEF SpawnAgent, StartTask, PluginAccepts
  <2> QED  BY <1>4, <2>1, <2>2, <2>3, <2>4 DEF Assignment
<1>5. ASSUME NEW c \in Coroutines, ScanResumes(c) \/ DomainEvent(c)
      PROVE  Covered(queues')
  BY <1>1, <1>5, ScanCovers DEF ScanResumes, DomainEvent
<1>6. ASSUME NEW c \in Coroutines, StealingStarts(c) \/ Stealing(c)
      PROVE  Covered(queues')
  BY <1>1, <1>6, TheftCovers DEF StealingStarts, Stealing, StealingContinues, StealingEnds
<1>7. ASSUME NEW t \in Tasks, NEW c \in Coroutines,
             SubmitTask(t, c) \/ PluginCompletes(t, c) \/ EventCompleted(t, c)
      PROVE  Covered(queues')
  BY <1>1, <1>7, ScanCovers DEF SubmitTask, PluginCompletes, EventCompleted
<1>8. ASSUME NEW t \in Tasks, NEW c \in Coroutines, EventFailed(t, c)
      PROVE  Covered(queues')
  <2>1. Covered(EnqueueTask(queues, t)) /\ EnqueueTask(queues, t) \in Queues
    BY <1>1, EnqueueCovers, EnqueueType, QueuesType
  <2> QED  BY <1>1, <1>8, <2>1, ScanCovers DEF EventFailed
<1>9. ASSUME NEW t \in Tasks, CancelTask(t) \/ CleanupTask(t)
      PROVE  Covered(queues')
  BY <1>1, <1>9, RemoveCovers DEF CancelTask, Cancel, CleanupTask
<1>10. ASSUME NEW d \in Domains, BreakerTimeout(d) \/ PluginDisposed(d)
       PROVE  Covered(queues')
  BY <1>10 DEF BreakerTimeout, PluginDisposed
<1>11. CASE UNCHANGED vars
  BY <1>11 DEF vars
<1> QED  BY <1>3, <1>4, <1>5, <1>6, <1>7, <1>8, <1>9, <1>10, <1>11 DEF Next, Continue

(* Empty queues leave no load out. *)
LEMMA EmptyCovered == Covered(EmptyQueues)
<1>1. \A t : Copies(<<>>, t) = 0
  BY FS_EmptySet DEF Copies
<1>2. /\ \A p \in Priorities : EmptyQueues.prio[p] = <<>>
      /\ \A d \in Domains : EmptyQueues.domain[d] = <<>>
  BY DEF EmptyQueues
<1> QED  BY <1>1, <1>2, PriorityAssumption DEF Covered

(* No domain's load is ever understated, in any configuration: with         *)
(* stealing, refusals and tasks that are queued twice too.                  *)
THEOREM LoadCovered == Spec => []LoadNotUnderstated
<1>1. Covered(queues) <=> LoadNotUnderstated
  BY DEF Covered, LoadNotUnderstated
<1>2. Init => Covered(queues)
  BY EmptyCovered DEF Init
<1>3. IInv /\ Covered(queues) /\ [Next]_vars => Covered(queues)'
  BY NextCovers
<1> QED  BY <1>1, <1>2, <1>3, InvInvariant, PTL DEF Spec
=============================================================================
