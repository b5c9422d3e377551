----------------------------- MODULE A2AServer -----------------------------
(***************************************************************************)
(* The A2A side of the HTTP server (mcp/http-server.ts): streamed agent    *)
(* requests, task submission and cancellation, and the push notifications  *)
(* of task events through the webhook service (webhook-service.ts), its    *)
(* subscription store (subscription-store.ts) and its retry queue.         *)
(*                                                                         *)
(* The server is given the webhook service's own subscription store        *)
(* (config.subscriptionStore = webhookService.getSubscriptionStore()); by  *)
(* default it makes a second one that nobody reads.                        *)
(*                                                                         *)
(* Task operations are synchronous.  What interleaves are the timer a      *)
(* streamed request waits for, the client that aborts or cancels it, the   *)
(* posts of each notification to its subscribers, and the retries.         *)
(***************************************************************************)
EXTENDS A2ATasks, RetryQueue

CONSTANTS
  Subs,         \* subscription ids
  SubsPerTask,  \* config.maxSubscriptionsPerTask
  MaxFailures,  \* config.maxConsecutiveFailures
  Subscribed,   \* webhookConfig.events
  Expirable,    \* subscriptions whose expiresAt may pass
  Steered,      \* tasks that an agent asks questions about
  MaxHistory,   \* bound: agents do not move a task with this many events
  Watched       \* deliveries whose end is checked

ASSUME SubscriptionAssumption == SubsPerTask \in Nat /\ MaxFailures \in Nat \ {0}
ASSUME WatchAssumption == Watched \subseteq Nat /\ MaxHistory \in Nat

VARIABLES
  request,  \* how a task id has been used: a stream is open, over, ...
  subs,     \* the subscription store
  index,    \* its statusIndex
  posting,  \* first attempts of notifications in progress
  fate      \* history: what became of each notification

subscriptions == <<subs, index>>
vars == <<store, request, subscriptions, posting, fate, retries>>

Requests == {"unused", "submitted", "streaming", "aborted", "served"}
SubStatuses == {"active", "failed", "expired"}
Fates == {"open", "acked", "lost"}

NoSub == [status |-> "none", task |-> "none", failures |-> 0, expired |-> FALSE]
NewSub(t) == [NoSub EXCEPT !.status = "active", !.task = t]
Present(s) == subs[s].status \in SubStatuses

Init ==
  /\ tasks = [t \in Ids |-> NoTask] /\ touched = <<>>
  /\ request = [t \in Ids |-> "unused"]
  /\ subs = [s \in Subs |-> NoSub]
  /\ index = [st \in SubStatuses |-> {}]
  /\ posting = {} /\ fate = <<>>
  /\ RetryInit

---------------------------------------------------------------------------
(* Notifications *)

(* getSubscribersForEvent: active, not expired, subscribed. *)
Subscribers(t) == {s \in Subs : /\ subs[s].status = "active"
                                /\ subs[s].task = t
                                /\ ~subs[s].expired}

(* notifySubscribers for the events of task t, up to its first await: a    *)
(* post to every subscriber is under way.                                  *)
Notify(t, events) ==
  LET new == {[sub |-> s, task |-> t, no |-> e.no] :
                s \in Subscribers(t), e \in {x \in events : x.event \in Subscribed}}
  IN  /\ posting' = posting \cup new
      /\ fate' = [p \in DOMAIN fate \cup new |-> IF p \in new THEN "open" ELSE fate[p]]

Settles(p, f) == fate' = [fate EXCEPT ![p] = f]

(* Deliveries of J leave the queue without an answer. *)
Drops(J) ==
  fate' = [p \in DOMAIN fate |->
             IF \E j \in J : jobs[j].post = p THEN "lost" ELSE fate[p]]

(* recordSuccess and recordFailure, on a subscription that may be gone. *)
RecordSuccess(s) ==
  /\ subs' = IF Present(s) THEN [subs EXCEPT ![s].failures = 0] ELSE subs
  /\ UNCHANGED index

RecordFailure(s) ==
  LET n == subs[s].failures + 1
      fails == subs[s].status = "active" /\ n >= MaxFailures
  IN  /\ subs' = IF ~Present(s) THEN subs
                 ELSE [subs EXCEPT ![s].failures = n,
                                   ![s].status = IF fails THEN "failed" ELSE @]
      /\ index' = IF fails THEN [index EXCEPT !["active"] = @ \ {s},
                                              !["failed"] = @ \cup {s}]
                  ELSE index

(* The answer to a first attempt: deliver, then the subscription's count. *)
PostSucceeds(p) ==
  /\ posting' = posting \ {p}
  /\ RecordSuccess(p.sub)
  /\ Settles(p, "acked")
  /\ UNCHANGED <<store, request, retries>>

(* FAULT: a failed post is reported as queued, and is not. *)
PostForgotten(p) ==
  /\ posting' = posting \ {p}
  /\ RecordFailure(p.sub)
  /\ UNCHANGED <<store, request, retries, fate>>

(* No answer, a 5xx or a 429: retried, even if the subscription is gone. *)
PostFails(p) ==
  /\ posting' = posting \ {p}
  /\ RecordFailure(p.sub)
  /\ Enqueue(p)
  /\ Drops(Overflow)
  /\ UNCHANGED <<store, request>>

PostRefused(p) ==
  /\ posting' = posting \ {p}
  /\ RecordFailure(p.sub)
  /\ Settles(p, "lost")
  /\ UNCHANGED <<store, request, retries>>

(* The answer to a retry. *)
RetrySucceeds(j) ==
  /\ Succeed(j)
  /\ Settles(jobs[j].post, "acked")
  /\ UNCHANGED <<store, request, subscriptions, posting>>

(* FAULT: one attempt more than maxAttempts. *)
RetryOnceMore(j) ==
  /\ jobs[j].attempt <= MaxAttempts
  /\ Reschedule(j)
  /\ UNCHANGED <<store, request, subscriptions, posting, fate>>

RetryFails(j) ==
  /\ jobs[j].attempt < MaxAttempts
  /\ Reschedule(j)
  /\ UNCHANGED <<store, request, subscriptions, posting, fate>>

RetryGivesUp(j) ==
  /\ GiveUp(j)
  /\ IF j \in queue THEN Settles(jobs[j].post, "lost") ELSE UNCHANGED fate
  /\ UNCHANGED <<store, request, subscriptions, posting>>

ProcessRetries ==
  /\ ProcessQueue
  /\ UNCHANGED <<store, request, subscriptions, posting, fate>>

RetryDue(j) ==
  /\ BackoffElapses(j)
  /\ UNCHANGED <<store, request, subscriptions, posting, fate>>

---------------------------------------------------------------------------
(* Subscriptions *)

(* handlePushNotificationSet. *)
Subscribe(s, t) ==
  /\ subs[s] = NoSub
  /\ Cardinality({r \in Subs : Present(r) /\ subs[r].task = t}) < SubsPerTask
  /\ subs' = [subs EXCEPT ![s] = NewSub(t)]
  /\ index' = [index EXCEPT !["active"] = @ \cup {s}]
  /\ UNCHANGED <<store, request, posting, fate, retries>>

(* SubscriptionStore.delete, for every subscription of S; ids are not used *)
(* again.                                                                  *)
DeleteSubs(S, st) ==
  /\ subs' = [s \in Subs |-> IF s \in S THEN [NoSub EXCEPT !.status = "gone"]
                             ELSE subs[s]]
  /\ index' = [x \in SubStatuses |-> st[x] \ {s \in S : subs[s].status = x}]

OfTask(t) == {s \in Subs : Present(s) /\ subs[s].task = t}

(* handlePushNotificationDelete: retries go on. *)
DeletePush(t) ==
  /\ OfTask(t) # {}
  /\ DeleteSubs(OfTask(t), index)
  /\ UNCHANGED <<store, request, posting, fate, retries>>

(* WebhookService.unsubscribe: retries in the queue are removed, whether   *)
(* the task has a subscription left or not.                               *)
Unsubscribe(t) ==
  LET mine == {j \in queue : jobs[j].post.task = t}
  IN  /\ RemoveAll(mine)
      /\ Drops(mine)
      /\ DeleteSubs(OfTask(t), index)
      /\ UNCHANGED <<store, request, posting, jobs, inFlight>>

(* expiresAt passes. *)
SubExpires(s) ==
  /\ s \in Expirable /\ Present(s) /\ ~subs[s].expired
  /\ subs' = [subs EXCEPT ![s].expired = TRUE]
  /\ UNCHANGED <<store, request, index, posting, fate, retries>>

(* cleanupExpired: a subscription that had failed keeps its entry in the   *)
(* index of failed ones.                                                   *)
CleanupExpired ==
  LET old == {s \in Subs : Present(s) /\ subs[s].expired}
  IN  /\ old # {}
      /\ subs' = [s \in Subs |-> IF s \in old THEN [NoSub EXCEPT !.status = "gone"]
                                 ELSE subs[s]]
      /\ index' = [index EXCEPT !["active"] = @ \ old]
      /\ UNCHANGED <<store, request, posting, fate, retries>>

(* cleanupFailed goes by the index. *)
CleanupFailed ==
  LET bad == {s \in index["failed"] : Present(s)}
  IN  /\ bad # {}
      /\ DeleteSubs(bad, index)
      /\ UNCHANGED <<store, request, posting, fate, retries>>

---------------------------------------------------------------------------
(* Tasks *)

(* transition, followed by what it emits. *)
Transition(t, st) ==
  /\ CanMove(tasks[t], st)
  /\ Update(t, Moved(tasks[t], st))
  /\ Notify(t, {MoveEvent(Moved(tasks[t], st))})

(* handleAgentRequest up to its timer: createTask and startTask. *)
StreamRequest(t) ==
  LET r == Moved(NewTask, "working")
  IN  /\ request[t] = "unused"
      /\ request' = [request EXCEPT ![t] = "streaming"]
      /\ Create(t, r)
      /\ Notify(t, {MoveEvent(r)})
      /\ UNCHANGED <<subscriptions, retries>>

(* handleTaskSubmit. *)
SubmitTask(t) ==
  /\ request[t] = "unused"
  /\ request' = [request EXCEPT ![t] = "submitted"]
  /\ Create(t, NewTask)
  /\ UNCHANGED <<subscriptions, posting, fate, retries>>

(* The stream is closed by the client: the abort listener cancels the task, *)
(* if it can; the timer then finds the signal aborted.                      *)
AbortRequest(t) ==
  /\ request[t] = "streaming"
  /\ request' = [request EXCEPT ![t] = "aborted"]
  /\ IF Stored(t) /\ CanMove(tasks[t], "canceled")
     THEN Transition(t, "canceled")
     ELSE UNCHANGED <<store, posting, fate>>
  /\ UNCHANGED <<subscriptions, retries>>

(* The timer: completeTask. *)
CompleteRequest(t) ==
  LET r == WithArtifact(tasks[t])
      done == Moved(r, "completed")
  IN  /\ request[t] = "streaming" /\ Stored(t)
      /\ CanMove(r, "completed")
      /\ request' = [request EXCEPT ![t] = "served"]
      /\ Update(t, done)
      /\ Notify(t, {ArtifactEvent(r), MoveEvent(done)})
      /\ UNCHANGED <<subscriptions, retries>>

(* The timer, when the task left `working' meanwhile: completeTask throws  *)
(* after it added the artifact, and failTask, called by the catch clause,  *)
(* sets the error before it finds out whether the task can fail.           *)
FailRequest(t) ==
  LET r == WithArtifact(tasks[t])
      failed == Moved(WithError(r), "failed")
  IN  /\ request[t] = "streaming" /\ Stored(t)
      /\ ~CanMove(r, "completed")
      /\ request' = [request EXCEPT ![t] = "served"]
      /\ IF CanMove(r, "failed")
         THEN Update(t, failed) /\ Notify(t, {ArtifactEvent(r), MoveEvent(failed)})
         ELSE Update(t, WithError(r)) /\ Notify(t, {ArtifactEvent(r)})
      /\ UNCHANGED <<subscriptions, retries>>

(* The timer, when the task is no longer stored: both calls throw. *)
LoseRequest(t) ==
  /\ request[t] = "streaming" /\ ~Stored(t)
  /\ request' = [request EXCEPT ![t] = "served"]
  /\ UNCHANGED <<store, subscriptions, posting, fate, retries>>

(* handleTaskCancel: the signal of a stream is not aborted. *)
CancelTask(t) ==
  /\ Stored(t) /\ Transition(t, "canceled")
  /\ UNCHANGED <<request, subscriptions, retries>>

(* startTask, rejectTask, requestInput, requestAuth, resumeTask, called by *)
(* an agent through the server's task manager.                             *)
AgentMoves(t, st) ==
  /\ t \in Steered /\ Stored(t) /\ EventNo(tasks[t]) < MaxHistory
  /\ Transition(t, st)
  /\ UNCHANGED <<request, subscriptions, retries>>

(* provideInput: the input becomes an artifact, and the task resumes. *)
ProvideInput(t) ==
  LET r == WithArtifact(tasks[t])
  IN  /\ tasks[t].status \in {"input_required", "auth_required"}
      /\ Update(t, Moved(r, "working"))
      /\ Notify(t, {ArtifactEvent(r), MoveEvent(Moved(r, "working"))})
      /\ UNCHANGED <<request, subscriptions, retries>>

(* TaskStore.cleanupExpired: a completed task's time to live is over. *)
ExpireTask(t) ==
  /\ tasks[t].status = "completed"
  /\ Delete(t)
  /\ UNCHANGED <<request, subscriptions, posting, fate, retries>>

---------------------------------------------------------------------------
PostAnswered == \E p \in posting : PostSucceeds(p) \/ PostFails(p) \/ PostRefused(p)
RetryAnswered == \E j \in inFlight : RetrySucceeds(j) \/ RetryFails(j) \/ RetryGivesUp(j)
SomeRetryDue == \E j \in queue : RetryDue(j)
Timer(t) == CompleteRequest(t) \/ FailRequest(t) \/ LoseRequest(t)

TaskStep(t) ==
  \/ StreamRequest(t) \/ SubmitTask(t) \/ AbortRequest(t) \/ Timer(t)
  \/ CancelTask(t) \/ ProvideInput(t) \/ ExpireTask(t)
  \/ \E st \in {"working", "rejected", "input_required", "auth_required"} : AgentMoves(t, st)
  \/ DeletePush(t) \/ Unsubscribe(t)

SubStep(s) == SubExpires(s) \/ \E t \in Ids : Subscribe(s, t)

Next ==
  \/ \E t \in Ids : TaskStep(t)
  \/ \E s \in Subs : SubStep(s)
  \/ CleanupExpired \/ CleanupFailed
  \/ PostAnswered \/ RetryAnswered \/ ProcessRetries \/ SomeRetryDue

Spec == Init /\ [][Next]_vars

(* Posts time out, the queue's interval timer runs, delays end, and so does *)
(* the wait of a streamed request.                                          *)
Fairness ==
  /\ WF_vars(PostAnswered) /\ WF_vars(RetryAnswered)
  /\ WF_vars(ProcessRetries) /\ WF_vars(SomeRetryDue)
  /\ \A t \in Ids : WF_vars(Timer(t))

FairSpec == Spec /\ Fairness

---------------------------------------------------------------------------
(* Properties *)

Posts == [sub: Subs, task: Ids, no: Nat]

(* The store, the subscriptions, the notifications and the queue stay in   *)
(* their types; a delivery never runs out of attempts unnoticed.           *)
TypeOK ==
  /\ tasks \in [Ids -> Tasks \cup {NoTask}] /\ touched \in Seq(Ids)
  /\ request \in [Ids -> Requests]
  /\ \A s \in Subs : subs[s].status \in SubStatuses \cup {"none", "gone"}
                     /\ subs[s].failures \in Nat
  /\ index \in [SubStatuses -> SUBSET Subs]
  /\ posting \subseteq Posts
  /\ \A p \in DOMAIN fate : p \in Posts /\ fate[p] \in Fates
  /\ jobs \in Seq([post: Posts, attempt: 1 .. MaxAttempts, due: BOOLEAN])
  /\ queue \subseteq DOMAIN jobs /\ inFlight \subseteq DOMAIN jobs

(* A streamed request that is over leaves no task behind that could still  *)
(* go on, whatever was done to the task while the request waited.          *)
ServedIsTerminal ==
  \A t \in Ids : request[t] \in {"aborted", "served"} /\ Stored(t)
                 => tasks[t].status \in Terminal

(* No notification is forgotten: until it is acknowledged, refused, given  *)
(* up, evicted or unsubscribed, its post is in progress or it is queued.   *)
Accounted ==
  \A p \in DOMAIN fate :
     fate[p] = "open" <=> p \in posting \/ \E j \in queue : jobs[j].post = p

(* An acknowledged notification is not posted again. *)
AckedIsOver ==
  \A p \in DOMAIN fate : fate[p] = "acked" =>
     p \notin posting /\ \A j \in queue \cup inFlight : jobs[j].post # p

(* The queue and the posts in flight keep to their limits. *)
QueueBounded ==
  Cardinality(queue) <= MaxQueueSize /\ Cardinality(inFlight) <= MaxInFlight

(* A delivery that was removed or evicted is not attempted again, even if  *)
(* an attempt was in flight when it was removed and fails after that.      *)
NeverRequeued ==
  [][\A j \in DOMAIN jobs \ queue :
        j \notin queue' /\ (j \notin inFlight => j \notin inFlight')]_vars

(* Every queued delivery is acknowledged or given up in the end. *)
DeliveriesSettle == \A j \in Watched : j \in queue ~> j \notin queue
=============================================================================
