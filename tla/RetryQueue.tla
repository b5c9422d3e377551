----------------------------- MODULE RetryQueue -----------------------------
(***************************************************************************)
(* The retry queue of the A2A webhook service (retry-queue.ts).  A         *)
(* delivery is numbered in the order of enqueueNew, so the least number in *)
(* the queue has the oldest originalTimestamp.  processQueue starts a      *)
(* batch and waits for all of it (Promise.allSettled); between its start   *)
(* and the answer to each HTTP post, anything else may happen.             *)
(*                                                                         *)
(* Time is the flag `due': scheduledAt has passed.  Which of the due       *)
(* deliveries come first in a batch that cannot take them all is left      *)
(* open, as their times carry random jitter.  scheduledIndex is left out:  *)
(* it is written and never read.                                           *)
(***************************************************************************)
EXTENDS Integers, Sequences, FiniteSets

CONSTANTS
  MaxAttempts,   \* retryConfig.maxAttempts, the service's default
  MaxQueueSize,  \* config.maxQueueSize
  MaxInFlight    \* config.maxConcurrent

ASSUME QueueAssumption ==
  MaxAttempts \in Nat \ {0} /\ MaxQueueSize \in Nat \ {0} /\ MaxInFlight \in Nat \ {0}

VARIABLES
  jobs,       \* every delivery made by enqueueNew: what it posts, attempt, due
  queue,      \* `queue': the deliveries that are in the Map
  inFlight    \* `currentlyProcessing'; isProcessing is inFlight # {}

retries == <<jobs, queue, inFlight>>

RetryInit == jobs = <<>> /\ queue = {} /\ inFlight = {}

Job(p) == [post |-> p, attempt |-> 1, due |-> TRUE]

(* evictOldest, when the queue is at its limit. *)
Overflow == {j \in queue : /\ Cardinality(queue) >= MaxQueueSize
                           /\ \A k \in queue : j <= k}

(* enqueueNew and enqueue. *)
Enqueue(p) ==
  LET new == Len(jobs) + 1
  IN  /\ jobs' = Append(jobs, Job(p))
      /\ queue' = (queue \ Overflow) \cup {new}
      /\ UNCHANGED inFlight

(* remove, for each delivery of J that is in the queue. *)
RemoveAll(J) == queue' = queue \ J

(* processQueue: a batch of due deliveries, unless one is still in progress. *)
ProcessQueue ==
  LET ready == {j \in queue : jobs[j].due}
      room == IF Cardinality(ready) < MaxInFlight THEN Cardinality(ready)
              ELSE MaxInFlight
  IN  /\ inFlight = {}
      /\ ready # {}
      /\ \E batch \in SUBSET ready : /\ Cardinality(batch) = room
                                     /\ inFlight' = batch
      /\ UNCHANGED <<jobs, queue>>

(* FAULT: a successful delivery stays in the queue. *)
LeaveDelivered(j) == /\ inFlight' = inFlight \ {j}
                     /\ UNCHANGED <<jobs, queue>>

(* processDelivery, success: the delivery is removed. *)
Succeed(j) ==
  /\ RemoveAll({j})
  /\ inFlight' = inFlight \ {j}
  /\ UNCHANGED jobs

(* processDelivery, no retry or no attempt left: the same removal. *)
GiveUp(j) ==
  /\ RemoveAll({j})
  /\ inFlight' = inFlight \ {j}
  /\ UNCHANGED jobs

(* FAULT: the delivery is put back into the queue. *)
RequeueAlways(j) ==
  /\ jobs' = [jobs EXCEPT ![j].attempt = @ + 1, ![j].due = FALSE]
  /\ queue' = queue \cup {j}
  /\ inFlight' = inFlight \ {j}

(* FAULT: the attempt is not counted. *)
RescheduleUncounted(j) ==
  /\ jobs' = [jobs EXCEPT ![j].due = FALSE]
  /\ inFlight' = inFlight \ {j}
  /\ UNCHANGED queue

(* rescheduleDelivery: a delivery removed meanwhile is changed too, but    *)
(* does not enter the queue again.                                         *)
Reschedule(j) ==
  /\ jobs' = [jobs EXCEPT ![j].attempt = @ + 1, ![j].due = FALSE]
  /\ inFlight' = inFlight \ {j}
  /\ UNCHANGED queue

(* The time to wait has passed. *)
BackoffElapses(j) ==
  /\ j \in queue /\ ~jobs[j].due
  /\ jobs' = [jobs EXCEPT ![j].due = TRUE]
  /\ UNCHANGED <<queue, inFlight>>
=============================================================================
