----------------------------- MODULE QueenRestart -----------------------------
(***************************************************************************)
(* The Queen's life beyond one process (queen-lifecycle.ts, initialize and *)
(* dispose of queen-coordinator.ts): an orderly shutdown saves the waiting *)
(* tasks and cancels what is pending, one task per await, while everything *)
(* else goes on; the process may end at any time, and the next Queen loads *)
(* what the memory back end kept.                                          *)
(***************************************************************************)
EXTENDS QueenCoordinator, SequencesExt

VARIABLES
  phase,  \* how far dispose has come
  order,  \* the keys of `tasks' in insertion order, as its iteration sees them
  cursor, \* position of dispose's loop in that order
  store   \* [Namespaces -> the value under the key queen:state]

lifecycle == <<phase, cursor, store>>
rvars == <<vars, order, lifecycle>>

Phases == {"up", "stopping", "cancelling", "announcing", "closing", "closed"}

SaveNamespace == "queen-coordinator"  \* of memory.set in saveState
LoadNamespace == "default"            \* of memory.get in loadState: no option
Namespaces == {SaveNamespace, LoadNamespace}

Pending(t) == status[t] \in {"queued", "running"}

(* The execution record of t, as far as its fields matter here. *)
RecordOf(t) == [task |-> t, domain |-> assigned[t], agent |-> agents[t],
                retries |-> retry[t]]

(* Map.set appends a new key and keeps the place of an old one. *)
KeysChange ==
  LET new  == {t \in Tasks : status[t] = "none" /\ status'[t] # "none"}
      kept == SelectSeq(order, LAMBDA t : status'[t] # "none")
  IN  order' = kept \o SetToSeq(new)

---------------------------------------------------------------------------
(* saveState: the waiting tasks, in the order of the map *)
Waiting ==
  LET queued == SelectSeq(order, LAMBDA t : status[t] = "queued")
  IN  [i \in DOMAIN queued |-> RecordOf(queued[i])]

(* loadState of a value that was found.  The dates came back from JSON as  *)
(* strings, so the first comparison of binaryInsert throws: the second     *)
(* task of a priority has its record but no entry, those after it neither. *)
Queued(saved) ==
  LET twice(i) == \E j \in 1 .. i - 1 :
                    PriorityOf[saved[j].task] = PriorityOf[saved[i].task]
  IN  {i \in DOMAIN saved : \A j \in 1 .. i : ~twice(j)}

Loaded(saved) == {i \in DOMAIN saved : \A j \in 1 .. i - 1 : j \in Queued(saved)}

(* The records in the map of the new Queen, or an empty one. *)
Restored(saved, t) ==
  IF \E i \in Loaded(saved) : saved[i].task = t
  THEN saved[CHOOSE i \in Loaded(saved) : saved[i].task = t]
  ELSE [task |-> NoTask, domain |-> NoDomain, agent |-> NoAgent, retries |-> 0]

LoadState(saved) ==
  /\ status' = [t \in Tasks |->
                  IF Restored(saved, t).task = t THEN "queued" ELSE "none"]
  /\ assigned' = [t \in Tasks |-> Restored(saved, t).domain]
  /\ agents' = [t \in Tasks |-> Restored(saved, t).agent]
  /\ retry' = [t \in Tasks |-> Restored(saved, t).retries]
  /\ order' = [i \in Loaded(saved) |-> saved[i].task]
  /\ queues' = FoldLeft(EnqueueTask, EmptyQueues,
                        [i \in Queued(saved) |-> saved[i].task])

---------------------------------------------------------------------------
RInit ==
  /\ Init
  /\ phase = "up" /\ order = <<>> /\ cursor = 0
  /\ store = [n \in Namespaces |-> <<>>]

(* The timers of stealing and retention stop first, the subscriptions late, *)
(* and only a Queen that is not initialized turns a new task away.          *)
Timers == \E c \in Coroutines, t \in Tasks : StealingStarts(c) \/ CleanupTask(t)

Listening ==
  \E c \in Coroutines, t \in Tasks :
    DomainEvent(c) \/ EventCompleted(t, c) \/ EventFailed(t, c)

Submitting == \E c \in Coroutines, t \in Tasks : SubmitTask(t, c)

Going ==
  \/ \E c \in Coroutines : Continue(c)
  \/ \E c \in Coroutines, t \in Tasks : PluginCompletes(t, c)
  \/ \E t \in Tasks : CancelTask(t)
  \/ \E d \in Domains : BreakerTimeout(d) \/ PluginDisposed(d)

(* The Queen at work, before and during dispose.  The breaker registry is   *)
(* gone from the save on: nothing trips any more.                           *)
Work ==
  /\ \/ Going
     \/ phase = "up" /\ Timers
     \/ phase \notin {"closing", "closed"} /\ Listening
     \/ phase # "closed" /\ Submitting
  /\ phase \notin {"up", "stopping"} => tripped' = {}
  /\ KeysChange
  /\ UNCHANGED lifecycle

(* dispose up to its first await. *)
DisposeStarts ==
  /\ phase = "up"
  /\ phase' = "stopping"
  /\ UNCHANGED <<vars, order, cursor, store>>

(* The registries are dropped and the waiting tasks saved. *)
DisposeSaves ==
  /\ phase = "stopping"
  /\ phase' = "cancelling"
  /\ cursor' = 0
  /\ tripped' = {}
  /\ store' = [store EXCEPT ![SaveNamespace] = Waiting]
  /\ UNCHANGED <<created, record, queues, counter, live, frame, thief, work,
                 unhealthy, order>>

(* The next pending task of the map is cancelled; cancelTask awaits the *)
(* stop of its agent.                                                   *)
DisposeCancels ==
  /\ phase = "cancelling"
  /\ \E i \in DOMAIN order, t \in Tasks :
       /\ i > cursor /\ order[i] = t /\ Pending(t)
       /\ \A j \in DOMAIN order : cursor < j /\ j < i => ~Pending(order[j])
       /\ cursor' = i
       /\ Cancel(t)
  /\ UNCHANGED <<order, phase, store>>

(* The loop is over: QueenShutdown is published, and waited for. *)
DisposeAnnounces ==
  /\ phase = "cancelling"
  /\ \A i \in DOMAIN order : i > cursor => ~Pending(order[i])
  /\ phase' = "announcing"
  /\ UNCHANGED <<vars, order, cursor, store>>

(* Events are unsubscribed, and the router's dispose waited for. *)
DisposeUnsubscribes ==
  /\ phase = "announcing"
  /\ phase' = "closing"
  /\ UNCHANGED <<vars, order, cursor, store>>

(* The Queen is initialized no more. *)
DisposeEnds ==
  /\ phase = "closing"
  /\ phase' = "closed"
  /\ UNCHANGED <<vars, order, cursor, store>>

(* The process ends, in whatever phase it is, and another starts: a new     *)
(* Queen is constructed and initialized.  It starts no scan.                *)
Restart ==
  /\ phase' = "up" /\ cursor' = 0
  /\ LoadState(store[LoadNamespace])
  /\ counter' = 0 /\ live' = {}
  /\ frame' = [c \in Coroutines |-> Idle] /\ thief' = NoRound
  /\ runs' = [t \in Tasks |-> 0] /\ jobs' = [t \in Tasks |-> 0]
  /\ tripped' = {} /\ unhealthy' = {}
  /\ UNCHANGED <<created, starts, store>>

RNext ==
  \/ Work
  \/ DisposeStarts \/ DisposeSaves \/ DisposeCancels
  \/ DisposeAnnounces \/ DisposeUnsubscribes \/ DisposeEnds
  \/ Restart

RSpec == RInit /\ [][RNext]_rvars

---------------------------------------------------------------------------
(* Properties *)

(* "Load persisted state (queued tasks) from memory backend"              *)
(* (queen-lifecycle.ts:61): after an orderly shutdown, the tasks that it  *)
(* saved wait again in the next Queen, with their records and a place in  *)
(* their priority's queue.                                                *)
WaitingRestored ==
  [][phase = "closed" /\ phase' = "up" =>
       \A i \in DOMAIN store[SaveNamespace] :
         LET t == store[SaveNamespace][i].task
         IN  status'[t] = "queued" /\ Copies(queues'.prio[PriorityOf[t]], t) = 1]_rvars
=============================================================================
