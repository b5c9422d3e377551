---------------------------- MODULE A2AServerProofs ----------------------------
(***************************************************************************)
(* Proofs about the A2A server: a request that is over leaves a terminal   *)
(* task; every notification is under way, queued, or settled, and none is  *)
(* posted after it was acknowledged or removed.                            *)
(***************************************************************************)
EXTENDS A2AServer, FiniteSetTheorems, WellFoundedInduction, TLAPS

Jobs == [post: Posts, attempt: 1 .. MaxAttempts, due: BOOLEAN]

(* Tasks and requests. *)
TaskInv ==
  /\ tasks \in [Ids -> Tasks \cup {NoTask}]
  /\ request \in [Ids -> Requests]
  /\ \A t \in Ids : Stored(t) =>
       /\ request[t] # "unused"
       /\ request[t] = "streaming" => tasks[t].status # "submitted"
       /\ request[t] \in {"aborted", "served"} => tasks[t].status \in Terminal

(* A notification bears the number of an event of a task that was made.    *)
Numbered(p) ==
  /\ request[p.task] # "unused"
  /\ Stored(p.task) => p.no <= EventNo(tasks[p.task])

PostInv == \A p \in DOMAIN fate : p \in Posts /\ Numbered(p)

(* Every delivery is of a notification of its own, whose first attempt is  *)
(* over.                                                                   *)
NoteInv ==
  /\ \A p \in DOMAIN fate : fate[p] \in Fates
  /\ posting \subseteq DOMAIN fate
  /\ jobs \in Seq(Jobs)
  /\ queue \subseteq DOMAIN jobs /\ inFlight \subseteq DOMAIN jobs
  /\ \A j \in DOMAIN jobs : jobs[j].post \in DOMAIN fate \ posting
  /\ \A i \in DOMAIN jobs, j \in DOMAIN jobs : jobs[i].post = jobs[j].post => i = j
  /\ Accounted
  /\ AckedIsOver

IInv == TaskInv /\ PostInv /\ NoteInv

(* A set of numbers that is not empty has a least element. *)
LEMMA LeastElement ==
  ASSUME NEW S \in SUBSET Nat, S # {}
  PROVE  \E j \in S : \A k \in S : j <= k
<1> DEFINE R == OpToRel(<, Nat)
<1>1. PICK j \in S : \A k \in S : ~(<<k, j>> \in R)
  <2>1. IsWellFoundedOn(R, Nat) BY NatLessThanWellFounded
  <2> HIDE DEF R
  <2> QED BY <2>1, WFMin
<1>2. \A k \in S : ~(k < j) BY <1>1 DEF OpToRel
<1> QED BY <1>2

(* What the operations of the task manager make of a record. *)
LEMMA RecordFacts ==
  ASSUME NEW r \in Tasks
  PROVE  /\ EventNo(r) \in Nat
         /\ WithArtifact(r) \in Tasks /\ WithArtifact(r).status = r.status
         /\ EventNo(WithArtifact(r)) = EventNo(r) + 1
         /\ WithError(r) \in Tasks /\ WithError(r).status = r.status
         /\ EventNo(WithError(r)) = EventNo(r)
<1>1. /\ r \in [status: Statuses, history: Seq(Statuses), artifacts: Nat, error: BOOLEAN]
      /\ Len(r.history) \in Nat
  BY DEF Tasks
<1>2. /\ WithArtifact(r) \in Tasks /\ WithArtifact(r).status = r.status
      /\ WithArtifact(r).history = r.history /\ WithArtifact(r).artifacts = r.artifacts + 1
  BY <1>1 DEF WithArtifact, Tasks
<1>3. /\ WithError(r) \in Tasks /\ WithError(r).status = r.status
      /\ WithError(r).history = r.history /\ WithError(r).artifacts = r.artifacts
  BY <1>1 DEF WithError, Tasks
<1> QED BY <1>1, <1>2, <1>3 DEF EventNo

(* A transition leaves a task of the status it leads to, with one event *)
(* more.                                                                *)
LEMMA MovedFacts ==
  ASSUME NEW r \in Tasks, NEW st \in Statuses
  PROVE  /\ Moved(r, st) \in Tasks /\ Moved(r, st).status = st
         /\ EventNo(Moved(r, st)) = EventNo(r) + 1
<1>1. r.history \in Seq(Statuses) BY DEF Tasks
<1>2. Append(r.history, st) \in Seq(Statuses) /\ Len(Append(r.history, st)) = Len(r.history) + 1
  BY <1>1
<1> DEFINE h == Append(r.history, st)
<1>3. Moved(r, st) = [[r EXCEPT !.status = st] EXCEPT !.history = h] BY DEF Moved
<1> HIDE DEF h
<1>4. /\ Moved(r, st) \in Tasks /\ Moved(r, st).status = st
      /\ Moved(r, st).history = h /\ Moved(r, st).artifacts = r.artifacts
  BY <1>2, <1>3 DEF Tasks, h
<1>5. r.artifacts \in Nat /\ Len(r.history) \in Nat BY <1>1 DEF Tasks
<1> QED BY <1>2, <1>4, <1>5 DEF EventNo, h

(* A new task is a task, and no task is none. *)
LEMMA NewTaskFacts == NewTask \in Tasks /\ NewTask.status = "submitted" /\ NoTask \notin Tasks
<1>1. <<"submitted">> \in Seq(Statuses) BY DEF Statuses
<1> QED BY <1>1 DEF NewTask, NoTask, Tasks, Statuses, Terminal

(* No transition leaves a terminal status or leads to `submitted'; every   *)
(* other status may be canceled, and what cannot complete can fail.        *)
LEMMA MoveFacts ==
  ASSUME NEW r \in Tasks
  PROVE  /\ \A st : CanMove(r, st) =>
              st \in Statuses /\ st # "submitted" /\ r.status \notin Terminal
         /\ r.status \notin Terminal => CanMove(r, "canceled")
         /\ r.status \notin Terminal \cup {"submitted"} =>
              CanMove(r, "completed") \/ CanMove(r, "failed")
BY DEF CanMove, VALID_TRANSITIONS, Tasks, Statuses, Terminal

(* A task is stored when there is a record of it. *)
LEMMA StoredIsTask ==
  ASSUME TaskInv, NEW t \in Ids
  PROVE  Stored(t) <=> tasks[t] \in Tasks
BY NewTaskFacts DEF TaskInv, Stored

---------------------------------------------------------------------------
(* Notifications *)

(* What became of the notifications made so far, and a status that is      *)
(* final, are left alone.                                                  *)
FatesStay == \A p \in DOMAIN fate : p \in DOMAIN fate' /\ fate'[p] = fate[p]

FinalStays ==
  \A t \in Ids : Stored(t) /\ Stored(t)' /\ tasks[t].status \in Terminal
                 => tasks'[t].status = tasks[t].status

(* New notifications, each posted at once, keep the books. *)
LEMMA NoticeStep ==
  ASSUME NoteInv, NEW new, new \cap DOMAIN fate = {},
         posting' = posting \cup new,
         fate' = [p \in DOMAIN fate \cup new |-> IF p \in new THEN "open" ELSE fate[p]],
         UNCHANGED retries
  PROVE  NoteInv' /\ DOMAIN fate' = new \cup DOMAIN fate /\ FatesStay
<1>1. /\ DOMAIN fate' = new \cup DOMAIN fate
      /\ \A p \in new : fate'[p] = "open"
      /\ \A p \in DOMAIN fate : fate'[p] = fate[p]
  OBVIOUS
<1>2. jobs' = jobs /\ queue' = queue /\ inFlight' = inFlight BY DEF retries
<1>3. Accounted'
  BY <1>1, <1>2 DEF NoteInv, Accounted
<1>4. AckedIsOver'
  BY <1>1, <1>2 DEF NoteInv, AckedIsOver
<1>5. FatesStay BY <1>1 DEF FatesStay
<1> QED BY <1>1, <1>2, <1>3, <1>4, <1>5 DEF NoteInv, Fates

(* The events of a task, numbered after all that came before, are new. *)
LEMMA NotifyStep ==
  ASSUME IInv, NEW t \in Ids, NEW events, NEW last \in Nat,
         \A e \in events : /\ e.no \in Nat /\ e.no <= last
                           /\ Stored(t) => e.no > EventNo(tasks[t]),
         Stored(t) \/ request[t] = "unused",
         Notify(t, events), UNCHANGED retries
  PROVE  /\ NoteInv' /\ FatesStay
         /\ \A p \in DOMAIN fate' : p \in Posts /\ (p \in DOMAIN fate \/ (p.task = t /\ p.no <= last))
<1> DEFINE new == {[sub |-> s, task |-> t, no |-> e.no] :
                     s \in Subscribers(t), e \in {x \in events : x.event \in Subscribed}}
<1>1. \A p \in new : p \in Posts /\ p.task = t /\ \E e \in events : p.no = e.no
  BY DEF Posts, Subscribers
<1>2. /\ posting' = posting \cup new
      /\ fate' = [p \in DOMAIN fate \cup new |-> IF p \in new THEN "open" ELSE fate[p]]
  BY DEF Notify
<1> HIDE DEF new
<1>3. new \cap DOMAIN fate = {}
  <2> SUFFICES ASSUME NEW p \in new, p \in DOMAIN fate PROVE FALSE OBVIOUS
  <2>1. p.task = t /\ Numbered(p) BY <1>1 DEF IInv, PostInv
  <2>2. PICK e \in events : p.no = e.no BY <1>1
  <2>3. Stored(t) /\ p.no <= EventNo(tasks[t]) BY <2>1 DEF Numbered
  <2>4. EventNo(tasks[t]) \in Nat BY <2>3, StoredIsTask, RecordFacts DEF IInv
  <2> QED BY <2>2, <2>3, <2>4
<1>4. NoteInv' /\ DOMAIN fate' = new \cup DOMAIN fate /\ FatesStay
  BY <1>2, <1>3, NoticeStep DEF IInv
<1> QED BY <1>1, <1>4 DEF IInv, PostInv

(* Numbers stay right when a task goes on, is deleted or is made. *)
LEMMA PostStep ==
  ASSUME IInv, NEW t \in Ids, request'[t] # "unused",
         \A u \in Ids \ {t} : request'[u] = request[u] /\ tasks'[u] \in {tasks[u], NoTask},
         Stored(t) \/ request[t] = "unused",
         Stored(t) => EventNo(tasks[t]) <= EventNo(tasks'[t]),
         tasks'[t] \in Tasks,
         \A p \in DOMAIN fate' :
           p \in Posts /\ (p \in DOMAIN fate \/ (p.task = t /\ p.no <= EventNo(tasks'[t])))
  PROVE  PostInv'
<1> SUFFICES ASSUME NEW p \in DOMAIN fate' PROVE p \in Posts /\ Numbered(p)'
  BY DEF PostInv
<1>0. p \in Posts /\ p.task \in Ids /\ p.no \in Nat BY DEF Posts
<1>1. CASE p \notin DOMAIN fate BY <1>0, <1>1 DEF Numbered
<1>2. CASE p \in DOMAIN fate
  <2>1. Numbered(p) BY <1>2 DEF IInv, PostInv
  <2>2. CASE p.task = t
    <3>1. Stored(t) /\ p.no <= EventNo(tasks[t]) BY <2>1, <2>2 DEF Numbered
    <3>2. EventNo(tasks[t]) \in Nat /\ EventNo(tasks'[t]) \in Nat
      BY <3>1, StoredIsTask, RecordFacts DEF IInv
    <3>3. p.no <= EventNo(tasks'[t]) BY <1>0, <3>1, <3>2
    <3> QED BY <1>0, <2>2, <3>3 DEF Numbered
  <2>3. CASE p.task # t
    <3>1. request'[p.task] = request[p.task] /\ tasks'[p.task] \in {tasks[p.task], NoTask}
      BY <1>0, <2>3
    <3> QED BY <1>0, <2>1, <3>1 DEF Numbered, Stored
  <2> QED BY <2>2, <2>3
<1> QED BY <1>1, <1>2

---------------------------------------------------------------------------
(* Tasks *)

(* A stored task becomes r, and its request x; events are sent. *)
LEMMA Advance ==
  ASSUME IInv, NEW t \in Ids, Stored(t), NEW r \in Tasks, NEW events,
         \A e \in events : e.no \in Nat /\ EventNo(tasks[t]) < e.no /\ e.no <= EventNo(r),
         EventNo(tasks[t]) <= EventNo(r),
         tasks[t].status \in Terminal => r.status = tasks[t].status,
         Update(t, r), Notify(t, events),
         NEW x \in Requests \ {"unused"}, request' = [request EXCEPT ![t] = x],
         x = "streaming" => r.status # "submitted",
         x \in {"aborted", "served"} => r.status \in Terminal,
         UNCHANGED retries
  PROVE  IInv' /\ FatesStay /\ FinalStays
<1>1. tasks' = [tasks EXCEPT ![t] = r] BY DEF Update
<1>2. tasks \in [Ids -> Tasks \cup {NoTask}] /\ request \in [Ids -> Requests]
  BY DEF IInv, TaskInv
<1>3. tasks'[t] = r /\ request'[t] = x
      /\ \A u \in Ids \ {t} : request'[u] = request[u] /\ tasks'[u] = tasks[u]
  BY <1>1, <1>2
<1>4. TaskInv' BY <1>1, <1>2, <1>3 DEF IInv, TaskInv, Stored
<1>5. /\ NoteInv' /\ FatesStay
      /\ \A p \in DOMAIN fate' :
           p \in Posts /\ (p \in DOMAIN fate \/ (p.task = t /\ p.no <= EventNo(r)))
  BY RecordFacts, NotifyStep
<1>6. PostInv' BY <1>3, <1>5, PostStep
<1>7. FinalStays BY <1>3 DEF FinalStays
<1> QED BY <1>4, <1>5, <1>6, <1>7 DEF IInv

(* The store makes a task; another may be evicted. *)
LEMMA Launch ==
  ASSUME IInv, NEW t \in Ids, request[t] = "unused", NEW r \in Tasks, Create(t, r),
         NEW x \in {"submitted", "streaming"}, request' = [request EXCEPT ![t] = x],
         x = "streaming" => r.status # "submitted",
         NoteInv',
         \A p \in DOMAIN fate' :
           p \in Posts /\ (p \in DOMAIN fate \/ (p.task = t /\ p.no <= EventNo(r)))
  PROVE  IInv' /\ FinalStays
<1>1. tasks' = [u \in Ids |-> IF u = t THEN r
                              ELSE IF u \in Evicted THEN NoTask ELSE tasks[u]]
  BY DEF Create
<1>2. tasks \in [Ids -> Tasks \cup {NoTask}] /\ request \in [Ids -> Requests] /\ ~Stored(t)
  BY DEF IInv, TaskInv
<1>3. tasks'[t] = r /\ request'[t] = x
      /\ \A u \in Ids \ {t} : request'[u] = request[u] /\ tasks'[u] \in {tasks[u], NoTask}
  BY <1>1, <1>2
<1>4. TaskInv'
  <2>1. tasks' \in [Ids -> Tasks \cup {NoTask}] BY <1>1, <1>2
  <2>2. request' \in [Ids -> Requests] BY <1>2 DEF Requests
  <2> QED BY <1>3, <2>1, <2>2 DEF IInv, TaskInv, Stored
<1>5. PostInv' BY <1>2, <1>3, PostStep
<1>6. FinalStays BY <1>2, <1>3 DEF FinalStays, Stored
<1> QED BY <1>4, <1>5, <1>6 DEF IInv

(* A transition of a stored task, the request becoming x. *)
LEMMA TransitionTo ==
  ASSUME IInv, NEW t \in Ids, NEW st, Stored(t), Transition(t, st),
         NEW x \in Requests \ {"unused"}, request' = [request EXCEPT ![t] = x],
         x \in {"aborted", "served"} => st \in Terminal,
         UNCHANGED retries
  PROVE  IInv' /\ FatesStay /\ FinalStays
<1> DEFINE q == tasks[t]
           r == Moved(q, st)
<1>1. q \in Tasks BY StoredIsTask DEF IInv
<1>2. CanMove(q, st) /\ st \in Statuses /\ st # "submitted" /\ q.status \notin Terminal
  BY <1>1, MoveFacts DEF Transition
<1>3. r \in Tasks /\ r.status = st /\ EventNo(r) = EventNo(q) + 1 /\ EventNo(q) \in Nat
  BY <1>1, <1>2, MovedFacts, RecordFacts
<1>4. MoveEvent(r).no = EventNo(r) BY DEF MoveEvent
<1>5. Update(t, r) /\ Notify(t, {MoveEvent(r)}) BY DEF Transition
<1> HIDE DEF r
<1>7. \A e \in {MoveEvent(r)} : e.no \in Nat /\ EventNo(q) < e.no /\ e.no <= EventNo(r)
  BY <1>3, <1>4
<1>8. EventNo(q) <= EventNo(r) BY <1>3
<1> QED BY <1>2, <1>3, <1>5, <1>7, <1>8, Advance

(* Only a task that can go on makes a transition, so no request for it is  *)
(* over.                                                                   *)
LEMMA TransitionIInv ==
  ASSUME IInv, NEW t \in Ids, NEW st, Stored(t), Transition(t, st),
         UNCHANGED <<request, retries>>
  PROVE  IInv' /\ FatesStay /\ FinalStays
<1> DEFINE x == request[t]
<1>1. tasks[t].status \notin Terminal
  BY StoredIsTask, MoveFacts DEF Transition, IInv
<1>2. x \in Requests \ {"unused"} /\ x \notin {"aborted", "served"}
      /\ request' = [request EXCEPT ![t] = x]
  BY <1>1 DEF IInv, TaskInv
<1> HIDE DEF x
<1> QED BY <1>2, TransitionTo DEF retries

(* A request is over, and its task, if stored, is too. *)
LEMMA RequestOnly ==
  ASSUME IInv, NEW t \in Ids, request[t] = "streaming", NEW x \in {"aborted", "served"},
         request' = [request EXCEPT ![t] = x],
         Stored(t) => tasks[t].status \in Terminal,
         UNCHANGED <<tasks, posting, fate, retries>>
  PROVE  IInv' /\ FatesStay /\ FinalStays
<1>1. TaskInv' BY DEF IInv, TaskInv, Stored, Requests
<1>2. PostInv'
  BY DEF IInv, PostInv, Numbered, Stored, Posts, TaskInv
<1>3. NoteInv' BY DEF IInv, NoteInv, Accounted, AckedIsOver, retries
<1> QED BY <1>1, <1>2, <1>3 DEF IInv, FatesStay, FinalStays

(* A streamed request keeps the invariant: its task leaves submitted at *)
(* once.                                                                *)
LEMMA StreamRequestIInv ==
  ASSUME IInv, NEW t \in Ids, StreamRequest(t)
  PROVE  IInv' /\ FatesStay /\ FinalStays
<1> DEFINE r == Moved(NewTask, "working")
<1>1. r \in Tasks /\ r.status = "working" /\ EventNo(r) \in Nat
  BY NewTaskFacts, MovedFacts, RecordFacts DEF Statuses
<1>2. MoveEvent(r).no = EventNo(r) BY DEF MoveEvent
<1>3. /\ request[t] = "unused" /\ request' = [request EXCEPT ![t] = "streaming"]
      /\ Create(t, r) /\ Notify(t, {MoveEvent(r)}) /\ UNCHANGED retries
  BY DEF StreamRequest
<1> HIDE DEF r
<1>4. ~Stored(t) BY <1>3 DEF IInv, TaskInv
<1>5. \A e \in {MoveEvent(r)} : /\ e.no \in Nat /\ e.no <= EventNo(r)
                                /\ Stored(t) => e.no > EventNo(tasks[t])
  BY <1>1, <1>2, <1>4
<1>6. /\ NoteInv' /\ FatesStay
      /\ \A p \in DOMAIN fate' :
           p \in Posts /\ (p \in DOMAIN fate \/ (p.task = t /\ p.no <= EventNo(r)))
  BY <1>1, <1>3, <1>5, NotifyStep
<1> QED BY <1>1, <1>3, <1>6, Launch

(* So does a submission without a stream, which may evict a finished task. *)
LEMMA SubmitTaskIInv ==
  ASSUME IInv, NEW t \in Ids, SubmitTask(t)
  PROVE  IInv' /\ FatesStay /\ FinalStays
<1>1. NoteInv' BY DEF SubmitTask, IInv, NoteInv, Accounted, AckedIsOver, retries
<1>2. \A p \in DOMAIN fate' : p \in Posts /\ p \in DOMAIN fate
  BY DEF SubmitTask, IInv, PostInv
<1>3. FatesStay BY DEF SubmitTask, FatesStay
<1> QED BY <1>1, <1>2, <1>3, NewTaskFacts, Launch DEF SubmitTask

(* So does an abort: from every status a running stream's task may have *)
(* there is a way to canceled, or it is terminal.                       *)
LEMMA AbortRequestIInv ==
  ASSUME IInv, NEW t \in Ids, AbortRequest(t)
  PROVE  IInv' /\ FatesStay /\ FinalStays
<1>1. CASE Stored(t) /\ CanMove(tasks[t], "canceled")
  BY <1>1, TransitionTo DEF AbortRequest, Requests, Terminal
<1>2. CASE ~(Stored(t) /\ CanMove(tasks[t], "canceled"))
  <2>1. Stored(t) => tasks[t].status \in Terminal
    BY <1>2, StoredIsTask, MoveFacts DEF IInv
  <2> QED BY <1>2, <2>1, RequestOnly DEF AbortRequest, store
<1> QED BY <1>1, <1>2

(* So does the timer that completes the task. *)
LEMMA CompleteRequestIInv ==
  ASSUME IInv, NEW t \in Ids, CompleteRequest(t)
  PROVE  IInv' /\ FatesStay /\ FinalStays
<1> DEFINE q == tasks[t]
           r == WithArtifact(q)
           done == Moved(r, "completed")
           events == {ArtifactEvent(r), MoveEvent(done)}
<1>1. q \in Tasks /\ Stored(t) BY StoredIsTask DEF IInv, CompleteRequest
<1>2. r \in Tasks /\ EventNo(r) = EventNo(q) + 1 /\ EventNo(q) \in Nat BY <1>1, RecordFacts
<1>3. done \in Tasks /\ done.status = "completed" /\ EventNo(done) = EventNo(r) + 1
  BY <1>2, MovedFacts DEF Statuses, Terminal
<1>4. \A e \in events : e.no \in {EventNo(r), EventNo(done)} BY DEF ArtifactEvent, MoveEvent
<1>5. /\ Update(t, done) /\ Notify(t, events) /\ UNCHANGED retries
      /\ request' = [request EXCEPT ![t] = "served"]
  BY DEF CompleteRequest
<1> HIDE DEF r, done, events
<1>6. \A e \in events : e.no \in Nat /\ EventNo(q) < e.no /\ e.no <= EventNo(done)
  BY <1>2, <1>3, <1>4
<1>7. EventNo(q) <= EventNo(done) BY <1>2, <1>3
<1>8. q.status \notin Terminal BY <1>1, <1>2, MoveFacts, RecordFacts DEF CompleteRequest, r
<1> QED BY <1>1, <1>3, <1>5, <1>6, <1>7, <1>8, Advance DEF Requests, Terminal

(* So does the failure that is reported when the task could not be *)
(* completed.                                                      *)
LEMMA FailRequestIInv ==
  ASSUME IInv, NEW t \in Ids, FailRequest(t)
  PROVE  IInv' /\ FatesStay /\ FinalStays
<1> DEFINE q == tasks[t]
           r == WithArtifact(q)
           e1 == WithError(r)
           failed == Moved(e1, "failed")
<1>1. q \in Tasks /\ Stored(t) /\ q.status # "submitted"
  BY StoredIsTask DEF IInv, TaskInv, FailRequest
<1>2. /\ r \in Tasks /\ r.status = q.status
      /\ EventNo(r) = EventNo(q) + 1 /\ EventNo(q) \in Nat
  BY <1>1, RecordFacts
<1>3. e1 \in Tasks /\ e1.status = r.status /\ EventNo(e1) = EventNo(r) BY <1>2, RecordFacts
<1>4. failed \in Tasks /\ failed.status = "failed" /\ EventNo(failed) = EventNo(e1) + 1
  BY <1>3, MovedFacts DEF Statuses, Terminal
<1>5. request' = [request EXCEPT ![t] = "served"] /\ UNCHANGED retries BY DEF FailRequest
<1>6. ArtifactEvent(r).no = EventNo(r) /\ MoveEvent(failed).no = EventNo(failed)
  BY DEF ArtifactEvent, MoveEvent
<1>7. CASE CanMove(r, "failed")
  <2> DEFINE events == {ArtifactEvent(r), MoveEvent(failed)}
  <2>1. Update(t, failed) /\ Notify(t, events) BY <1>7 DEF FailRequest
  <2>2. \A e \in events : e.no \in {EventNo(r), EventNo(failed)} BY <1>6
  <2> HIDE DEF r, e1, failed, events
  <2>3. \A e \in events : e.no \in Nat /\ EventNo(q) < e.no /\ e.no <= EventNo(failed)
    BY <1>2, <1>3, <1>4, <2>2
  <2>4. EventNo(q) <= EventNo(failed) BY <1>2, <1>3, <1>4
  <2>5. q.status \notin Terminal BY <1>2, <1>7, MoveFacts
  <2> QED BY <1>1, <1>4, <1>5, <2>1, <2>3, <2>4, <2>5, Advance DEF Requests, Terminal
<1>8. CASE ~CanMove(r, "failed")
  <2> DEFINE events == {ArtifactEvent(r)}
  <2>1. Update(t, e1) /\ Notify(t, events) BY <1>8 DEF FailRequest
  <2>2. ~CanMove(r, "completed") BY DEF FailRequest
  <2>3. e1.status \in Terminal BY <1>1, <1>2, <1>3, <1>8, <2>2, MoveFacts
  <2> HIDE DEF r, e1
  <2>4. \A e \in events : e.no \in Nat /\ EventNo(q) < e.no /\ e.no <= EventNo(e1)
    BY <1>2, <1>3, <1>6
  <2>5. EventNo(q) <= EventNo(e1) BY <1>2, <1>3
  <2>6. e1.status = q.status BY <1>2, <1>3
  <2> HIDE DEF events
  <2> QED BY <1>1, <1>3, <1>5, <2>1, <2>3, <2>4, <2>5, <2>6, Advance DEF Requests
<1> QED BY <1>7, <1>8

(* So does the answer of a client to a task that asked. *)
LEMMA ProvideInputIInv ==
  ASSUME IInv, NEW t \in Ids, ProvideInput(t)
  PROVE  IInv' /\ FatesStay /\ FinalStays
<1> DEFINE q == tasks[t]
           r == WithArtifact(q)
           m == Moved(r, "working")
           events == {ArtifactEvent(r), MoveEvent(m)}
           x == request[t]
<1>1. q.status \in {"input_required", "auth_required"} BY DEF ProvideInput
<1>2. Stored(t) BY <1>1 DEF Stored, NoTask
<1>3. q \in Tasks BY <1>2, StoredIsTask DEF IInv
<1>4. r \in Tasks /\ EventNo(r) = EventNo(q) + 1 /\ EventNo(q) \in Nat BY <1>3, RecordFacts
<1>5. m \in Tasks /\ m.status = "working" /\ EventNo(m) = EventNo(r) + 1
  BY <1>4, MovedFacts DEF Statuses
<1>6. \A e \in events : e.no \in {EventNo(r), EventNo(m)} BY DEF ArtifactEvent, MoveEvent
<1>7. Update(t, m) /\ Notify(t, events) /\ UNCHANGED retries BY DEF ProvideInput
<1>8. x \in Requests \ {"unused"} /\ x \notin {"aborted", "served"}
      /\ request' = [request EXCEPT ![t] = x]
  BY <1>1, <1>2 DEF ProvideInput, IInv, TaskInv, Terminal
<1> HIDE DEF r, m, events, x
<1>9. \A e \in events : e.no \in Nat /\ EventNo(q) < e.no /\ e.no <= EventNo(m)
  BY <1>4, <1>5, <1>6
<1>10. EventNo(q) <= EventNo(m) BY <1>4, <1>5
<1>11. q.status \notin Terminal BY <1>1 DEF Terminal
<1> QED BY <1>2, <1>5, <1>7, <1>8, <1>9, <1>10, <1>11, Advance

(* So does the end of a task's time to live. *)
LEMMA ExpireTaskIInv ==
  ASSUME IInv, NEW t \in Ids, ExpireTask(t)
  PROVE  IInv' /\ FatesStay /\ FinalStays
<1>1. /\ tasks' = [tasks EXCEPT ![t] = NoTask]
      /\ UNCHANGED <<request, posting, fate, retries>>
  BY DEF ExpireTask, Delete
<1>2. TaskInv' BY <1>1 DEF IInv, TaskInv, Stored
<1>3. PostInv'
  <2> SUFFICES ASSUME NEW p \in DOMAIN fate PROVE p \in Posts /\ Numbered(p)'
    BY <1>1 DEF PostInv
  <2>1. p \in Posts /\ Numbered(p) BY DEF IInv, PostInv
  <2>2. CASE p.task = t BY <1>1, <2>1, <2>2 DEF Numbered, Stored, IInv, TaskInv
  <2>3. CASE p.task # t BY <1>1, <2>1, <2>3 DEF Numbered, Stored, IInv, TaskInv
  <2> QED BY <2>1, <2>2, <2>3
<1>4. NoteInv' BY <1>1 DEF IInv, NoteInv, Accounted, AckedIsOver, retries
<1>5. FatesStay /\ FinalStays BY <1>1 DEF FatesStay, FinalStays, Stored, IInv, TaskInv
<1> QED BY <1>2, <1>3, <1>4, <1>5 DEF IInv

---------------------------------------------------------------------------
(* Deliveries *)

(* A step that touches neither tasks nor requests keeps the invariant if it *)
(* keeps the books of the notifications.                                    *)
LEMMA NoteOnly ==
  ASSUME IInv, NoteInv', DOMAIN fate' = DOMAIN fate, UNCHANGED <<store, request>>
  PROVE  IInv'
<1>1. TaskInv' BY DEF IInv, TaskInv, Stored, store
<1>2. PostInv' BY DEF IInv, PostInv, Numbered, Stored, store
<1> QED BY <1>1, <1>2 DEF IInv

(* Steps that concern subscriptions only. *)
LEMMA QuietIInv ==
  ASSUME IInv, UNCHANGED <<store, request, posting, fate, retries>>
  PROVE  IInv'
<1>1. NoteInv' BY DEF IInv, NoteInv, Accounted, AckedIsOver, retries
<1> QED BY <1>1, NoteOnly

(* Removing the deliveries of a task settles exactly their notifications. *)
LEMMA UnsubscribeIInv ==
  ASSUME IInv, NEW t \in Ids, Unsubscribe(t)
  PROVE  IInv'
<1> DEFINE J == {j \in queue : jobs[j].post.task = t}
<1>1. /\ queue' = queue \ J /\ J \subseteq queue
      /\ fate' = [p \in DOMAIN fate |->
                    IF \E j \in J : jobs[j].post = p THEN "lost" ELSE fate[p]]
      /\ UNCHANGED <<store, request, posting, jobs, inFlight>>
  BY DEF Unsubscribe, RemoveAll, Drops
<1> HIDE DEF J
<1>2. Accounted' BY <1>1 DEF IInv, NoteInv, Accounted
<1>3. AckedIsOver' BY <1>1 DEF IInv, NoteInv, AckedIsOver
<1>4. NoteInv' BY <1>1, <1>2, <1>3 DEF IInv, NoteInv, Fates
<1> QED BY <1>1, <1>4, NoteOnly

(* A first post that is answered, or refused for good, settles its *)
(* notification.                                                   *)
LEMMA PostSettlesIInv ==
  ASSUME IInv, NEW p \in posting, PostSucceeds(p) \/ PostRefused(p)
  PROVE  IInv'
<1>1. PICK f \in {"acked", "lost"} :
        /\ posting' = posting \ {p} /\ fate' = [fate EXCEPT ![p] = f]
        /\ UNCHANGED <<store, request, jobs, queue, inFlight>>
  BY DEF PostSucceeds, PostRefused, Settles, retries
<1>2. DOMAIN fate' = DOMAIN fate /\ p \in DOMAIN fate BY <1>1 DEF IInv, NoteInv
<1>3. fate'[p] = f /\ \A q \in DOMAIN fate \ {p} : fate'[q] = fate[q] BY <1>1, <1>2
<1>4. Accounted' BY <1>1, <1>2, <1>3 DEF IInv, NoteInv, Accounted
<1>5. AckedIsOver' BY <1>1, <1>2, <1>3 DEF IInv, NoteInv, AckedIsOver
<1>6. NoteInv' BY <1>1, <1>2, <1>3, <1>4, <1>5 DEF IInv, NoteInv, Fates
<1> QED BY <1>1, <1>2, <1>6, NoteOnly

(* One that fails becomes a delivery, which may evict the oldest. *)
LEMMA PostFailsIInv ==
  ASSUME IInv, NEW p \in posting, PostFails(p)
  PROVE  IInv'
<1> DEFINE n == Len(jobs) + 1
           J == Overflow
<1>1. /\ posting' = posting \ {p}
      /\ jobs' = Append(jobs, Job(p)) /\ queue' = (queue \ J) \cup {n} /\ inFlight' = inFlight
      /\ fate' = [q \in DOMAIN fate |->
                    IF \E j \in J : jobs[j].post = q THEN "lost" ELSE fate[q]]
      /\ UNCHANGED <<store, request>>
  BY DEF PostFails, Enqueue, Drops
<1>2. J \subseteq queue /\ J \subseteq DOMAIN jobs BY DEF Overflow, IInv, NoteInv
<1>3. p \in DOMAIN fate /\ fate[p] = "open" /\ p \in Posts
  BY DEF IInv, NoteInv, Accounted, PostInv
<1>4. Job(p) \in Jobs /\ Job(p).post = p BY <1>3, QueueAssumption DEF Job, Jobs
<1>5. jobs \in Seq(Jobs) BY DEF IInv, NoteInv
<1> HIDE DEF J
<1>6. /\ jobs' \in Seq(Jobs) /\ DOMAIN jobs' = DOMAIN jobs \cup {n} /\ n \notin DOMAIN jobs
      /\ jobs'[n].post = p /\ \A j \in DOMAIN jobs : jobs'[j] = jobs[j]
  <2>1. DOMAIN jobs = 1 .. Len(jobs) /\ Len(jobs) \in Nat BY <1>5
  <2> QED BY <1>1, <1>4, <1>5, <2>1
<1> HIDE DEF n
<1>7. \A j \in DOMAIN jobs : jobs[j].post \in DOMAIN fate \ posting BY DEF IInv, NoteInv
<1>8. fate'[p] = "open" BY <1>1, <1>2, <1>3, <1>7
<1>9. Accounted'
  <2> SUFFICES ASSUME NEW q \in DOMAIN fate
               PROVE  fate'[q] = "open" <=>
                        q \in posting' \/ \E j \in queue' : jobs'[j].post = q
    BY <1>1 DEF Accounted
  <2>1. CASE q = p BY <1>1, <1>6, <1>8, <2>1
  <2>2. CASE q # p
    <3>1. fate'[q] = IF \E j \in J : jobs[j].post = q THEN "lost" ELSE fate[q] BY <1>1
    <3>2. (\E j \in queue' : jobs'[j].post = q) <=> \E j \in queue \ J : jobs[j].post = q
      BY <1>1, <1>6, <2>2 DEF IInv, NoteInv
    <3>3. fate[q] = "open" <=> q \in posting \/ \E j \in queue : jobs[j].post = q
      BY DEF IInv, NoteInv, Accounted
    <3>4. CASE \E j \in J : jobs[j].post = q
      <4>1. q \notin posting BY <1>2, <1>7, <3>4
      <4>2. ~\E j \in queue \ J : jobs[j].post = q BY <1>2, <3>4 DEF IInv, NoteInv
      <4> QED BY <1>1, <3>1, <3>2, <3>4, <4>1, <4>2
    <3>5. CASE ~\E j \in J : jobs[j].post = q BY <1>1, <2>2, <3>1, <3>2, <3>3, <3>5
    <3> QED BY <3>4, <3>5
  <2> QED BY <2>1, <2>2
<1>10. AckedIsOver'
  <2> SUFFICES ASSUME NEW q \in DOMAIN fate, fate'[q] = "acked"
               PROVE  q \notin posting' /\ \A j \in queue' \cup inFlight' : jobs'[j].post # q
    BY <1>1 DEF AckedIsOver
  <2>1. fate[q] = "acked" /\ q # p BY <1>1, <1>8
  <2>2. q \notin posting /\ \A j \in queue \cup inFlight : jobs[j].post # q
    BY <2>1 DEF IInv, NoteInv, AckedIsOver
  <2> QED BY <1>1, <1>6, <2>1, <2>2 DEF IInv, NoteInv
<1>11. \A i \in DOMAIN jobs', j \in DOMAIN jobs' : jobs'[i].post = jobs'[j].post => i = j
  <2>1. \A j \in DOMAIN jobs : jobs[j].post # p BY <1>7
  <2> QED BY <1>6, <2>1 DEF IInv, NoteInv
<1>12. \A j \in DOMAIN jobs' : jobs'[j].post \in DOMAIN fate' \ posting'
  BY <1>1, <1>3, <1>6, <1>7
<1>13. queue' \subseteq DOMAIN jobs' /\ inFlight' \subseteq DOMAIN jobs'
  BY <1>1, <1>6 DEF IInv, NoteInv
<1>14. NoteInv'
  BY <1>1, <1>6, <1>9, <1>10, <1>11, <1>12, <1>13 DEF IInv, NoteInv, Fates
<1> QED BY <1>1, <1>14, NoteOnly

(* A retry that ends its delivery: it leaves the queue and is settled, or  *)
(* had left the queue before.                                              *)
LEMMA RetryEndsIInv ==
  ASSUME IInv, NEW j \in inFlight, RetrySucceeds(j) \/ RetryGivesUp(j)
  PROVE  IInv'
<1> DEFINE p == jobs[j].post
<1>1. /\ queue' = queue \ {j} /\ inFlight' = inFlight \ {j}
      /\ UNCHANGED <<store, request, posting, jobs>>
      /\ \/ fate' = [fate EXCEPT ![p] = "acked"]
         \/ fate' = [fate EXCEPT ![p] = "lost"] /\ j \in queue
         \/ fate' = fate /\ j \notin queue
  BY DEF RetrySucceeds, RetryGivesUp, Succeed, GiveUp, RemoveAll, Settles
<1>2. p \in DOMAIN fate \ posting /\ j \in DOMAIN jobs
      /\ \A i \in DOMAIN jobs : jobs[i].post = p => i = j
  BY DEF IInv, NoteInv
<1> HIDE DEF p
<1>3. DOMAIN fate' = DOMAIN fate /\ \A q \in DOMAIN fate \ {p} : fate'[q] = fate[q]
  BY <1>1, <1>2
<1>4. fate'[p] \in {"acked", "lost"} \/ (fate' = fate /\ j \notin queue)
  BY <1>1, <1>2
<1>5. Accounted'
  <2> SUFFICES ASSUME NEW q \in DOMAIN fate
               PROVE  fate'[q] = "open" <=> q \in posting \/ \E i \in queue' : jobs[i].post = q
    BY <1>1, <1>3 DEF Accounted
  <2>1. fate[q] = "open" <=> q \in posting \/ \E i \in queue : jobs[i].post = q
    BY DEF IInv, NoteInv, Accounted
  <2>2. CASE q = p BY <1>1, <1>2, <1>4, <2>1, <2>2 DEF IInv, NoteInv
  <2>3. CASE q # p
    <3>1. jobs[j].post # q BY <2>3 DEF p
    <3> QED BY <1>1, <1>3, <2>1, <2>3, <3>1
  <2> QED BY <2>2, <2>3
<1>6. AckedIsOver'
  <2> SUFFICES ASSUME NEW q \in DOMAIN fate, fate'[q] = "acked"
               PROVE  q \notin posting /\ \A i \in queue' \cup inFlight' : jobs[i].post # q
    BY <1>1, <1>3 DEF AckedIsOver
  <2>1. CASE q = p BY <1>1, <1>2, <2>1 DEF IInv, NoteInv
  <2>2. CASE q # p BY <1>1, <1>3, <2>2 DEF IInv, NoteInv, AckedIsOver
  <2> QED BY <2>1, <2>2
<1>7. \A q \in DOMAIN fate' : fate'[q] \in Fates BY <1>1, <1>3 DEF IInv, NoteInv, Fates
<1>8. NoteInv' BY <1>1, <1>3, <1>5, <1>6, <1>7 DEF IInv, NoteInv
<1> QED BY <1>1, <1>3, <1>8, NoteOnly

(* Deliveries that change, but not in what they post. *)
LEMMA JobsChangeIInv ==
  ASSUME IInv, jobs' \in Seq(Jobs), DOMAIN jobs' = DOMAIN jobs,
         \A i \in DOMAIN jobs : jobs'[i].post = jobs[i].post,
         queue' = queue, inFlight' \subseteq inFlight,
         UNCHANGED <<store, request, posting, fate>>
  PROVE  IInv'
<1>1. Accounted' BY DEF IInv, NoteInv, Accounted
<1>2. AckedIsOver' BY DEF IInv, NoteInv, AckedIsOver
<1>3. NoteInv' BY <1>1, <1>2 DEF IInv, NoteInv
<1> QED BY <1>3, NoteOnly

(* A retry that fails is rescheduled or given up, unless it was removed *)
(* meanwhile.                                                           *)
LEMMA RetryFailsIInv ==
  ASSUME IInv, NEW j \in inFlight, RetryFails(j)
  PROVE  IInv'
<1>1. jobs \in Seq(Jobs) /\ j \in DOMAIN jobs /\ jobs[j] \in Jobs BY DEF IInv, NoteInv
<1> DEFINE d == [jobs[j] EXCEPT !.attempt = @ + 1, !.due = FALSE]
<1>2. d \in Jobs /\ d.post = jobs[j].post
  <2>1. /\ jobs[j].attempt \in 1 .. MaxAttempts /\ jobs[j].attempt < MaxAttempts
        /\ MaxAttempts \in Nat
    BY <1>1, QueueAssumption DEF RetryFails, Jobs
  <2> DEFINE n == jobs[j].attempt + 1
  <2>2. n \in 1 .. MaxAttempts BY <2>1
  <2>3. d = [[jobs[j] EXCEPT !.attempt = n] EXCEPT !.due = FALSE] OBVIOUS
  <2> HIDE DEF d, n
  <2> QED BY <1>1, <2>2, <2>3 DEF Jobs
<1>3. jobs' = [jobs EXCEPT ![j] = d] BY DEF RetryFails, Reschedule
<1> HIDE DEF d
<1>4. jobs' \in Seq(Jobs) /\ DOMAIN jobs' = DOMAIN jobs BY <1>1, <1>2, <1>3
<1>5. \A i \in DOMAIN jobs : jobs'[i].post = jobs[i].post BY <1>1, <1>2, <1>3
<1> QED BY <1>4, <1>5, JobsChangeIInv DEF RetryFails, Reschedule

(* A delay that elapses settles nothing. *)
LEMMA RetryDueIInv ==
  ASSUME IInv, NEW j \in queue, RetryDue(j)
  PROVE  IInv'
<1>1. jobs \in Seq(Jobs) /\ j \in DOMAIN jobs /\ jobs[j] \in Jobs BY DEF IInv, NoteInv
<1> DEFINE d == [jobs[j] EXCEPT !.due = TRUE]
<1>2. d \in Jobs /\ d.post = jobs[j].post BY <1>1 DEF Jobs
<1>3. jobs' = [jobs EXCEPT ![j] = d] BY DEF RetryDue, BackoffElapses
<1> HIDE DEF d
<1>4. jobs' \in Seq(Jobs) /\ DOMAIN jobs' = DOMAIN jobs BY <1>1, <1>2, <1>3
<1>5. \A i \in DOMAIN jobs : jobs'[i].post = jobs[i].post BY <1>1, <1>2, <1>3
<1> QED BY <1>4, <1>5, JobsChangeIInv DEF RetryDue, BackoffElapses

(* A batch of retries is taken from the queue. *)
LEMMA ProcessRetriesIInv ==
  ASSUME IInv, ProcessRetries
  PROVE  IInv'
<1>1. /\ inFlight' \subseteq queue
      /\ UNCHANGED <<store, request, posting, fate, jobs, queue>>
  BY DEF ProcessRetries, ProcessQueue
<1>2. Accounted' BY <1>1 DEF IInv, NoteInv, Accounted
<1>3. AckedIsOver' BY <1>1 DEF IInv, NoteInv, AckedIsOver
<1>4. NoteInv' BY <1>1, <1>2, <1>3 DEF IInv, NoteInv
<1> QED BY <1>1, <1>4, NoteOnly

---------------------------------------------------------------------------
(* The invariant holds at first. *)
LEMMA InitIInv == Init => IInv
BY DEF Init, RetryInit, IInv, TaskInv, PostInv, NoteInv, Accounted, AckedIsOver, Stored,
       NoTask, Requests

(* Every step of a task keeps it. *)
LEMMA TaskStepIInv ==
  ASSUME IInv, NEW t \in Ids, TaskStep(t)
  PROVE  IInv'
<1>1. CASE LoseRequest(t) BY <1>1, RequestOnly DEF LoseRequest, store
<1>2. CASE CancelTask(t) BY <1>2, TransitionIInv DEF CancelTask
<1>3. CASE \E st \in {"working", "rejected", "input_required", "auth_required"} : AgentMoves(t, st)
  BY <1>3, TransitionIInv DEF AgentMoves
<1>4. CASE DeletePush(t) BY <1>4, QuietIInv DEF DeletePush
<1> QED
  BY <1>1, <1>2, <1>3, <1>4, StreamRequestIInv, SubmitTaskIInv, AbortRequestIInv,
     CompleteRequestIInv, FailRequestIInv, ProvideInputIInv, ExpireTaskIInv, UnsubscribeIInv
  DEF TaskStep, Timer

(* Every step keeps the invariant. *)
LEMMA NextIInv == IInv /\ [Next]_vars => IInv'
<1> SUFFICES ASSUME IInv, [Next]_vars PROVE IInv' OBVIOUS
<1>1. ASSUME NEW s \in Subs, SubStep(s) PROVE IInv'
  BY <1>1, QuietIInv DEF SubStep, SubExpires, Subscribe
<1>2. CASE CleanupExpired \/ CleanupFailed
  BY <1>2, QuietIInv DEF CleanupExpired, CleanupFailed
<1>3. CASE PostAnswered BY <1>3, PostSettlesIInv, PostFailsIInv DEF PostAnswered
<1>4. CASE RetryAnswered BY <1>4, RetryEndsIInv, RetryFailsIInv DEF RetryAnswered
<1>5. CASE SomeRetryDue BY <1>5, RetryDueIInv DEF SomeRetryDue
<1>6. CASE UNCHANGED vars BY <1>6, QuietIInv DEF vars
<1> QED BY <1>1, <1>2, <1>3, <1>4, <1>5, <1>6, TaskStepIInv, ProcessRetriesIInv DEF Next

(* The inductive invariant holds of the server. *)
THEOREM Invariance == Spec => []IInv
BY InitIInv, NextIInv, PTL DEF Spec

(* A request that was served or aborted leaves no task that could go on.   *)
THEOREM Served == Spec => []ServedIsTerminal
<1>1. IInv => ServedIsTerminal BY DEF IInv, TaskInv, ServedIsTerminal
<1> QED BY <1>1, Invariance, PTL

(* A notification that is not settled is being posted or is queued, and a  *)
(* settled one is neither.                                                 *)
THEOREM NothingForgotten == Spec => []Accounted
<1>1. IInv => Accounted BY DEF IInv, NoteInv
<1> QED BY <1>1, Invariance, PTL

(* Once acknowledged, a notification is not posted again. *)
THEOREM AcknowledgedOnce == Spec => []AckedIsOver
<1>1. IInv => AckedIsOver BY DEF IInv, NoteInv
<1> QED BY <1>1, Invariance, PTL

---------------------------------------------------------------------------
(* What is final *)

(* A notification is never forgotten, and its fate is sealed once it is     *)
(* acknowledged; one given up may still be, by an attempt in flight.        *)
FatesMove ==
  \A p \in DOMAIN fate :
     /\ p \in DOMAIN fate'
     /\ \/ fate'[p] = fate[p]
        \/ fate[p] = "open"
        \/ fate[p] = "lost" /\ fate'[p] = "acked"

AckedStays == [][FatesMove]_vars

(* A task that completed, failed, was canceled or rejected stays so. *)
TerminalStays == [][FinalStays]_vars

(* A step that touches neither tasks nor notifications takes nothing back. *)
LEMMA NoMove == UNCHANGED <<store, fate>> => FatesMove /\ FinalStays
BY DEF FatesMove, FinalStays, store

(* A step of a task takes back no answer and no terminal status. *)
LEMMA TaskMoves ==
  ASSUME IInv, NEW t \in Ids, TaskStep(t)
  PROVE  FatesMove /\ FinalStays
<1>1. FatesStay => FatesMove BY DEF FatesStay, FatesMove
<1>2. CASE LoseRequest(t) BY <1>2, NoMove DEF LoseRequest
<1>3. CASE CancelTask(t) BY <1>1, <1>3, TransitionIInv DEF CancelTask
<1>4. CASE \E st \in {"working", "rejected", "input_required", "auth_required"} : AgentMoves(t, st)
  BY <1>1, <1>4, TransitionIInv DEF AgentMoves
<1>5. CASE DeletePush(t) BY <1>5, NoMove DEF DeletePush
<1>6. CASE Unsubscribe(t)
  <2> DEFINE J == {j \in queue : jobs[j].post.task = t}
  <2>1. /\ J \subseteq queue /\ UNCHANGED store
        /\ fate' = [p \in DOMAIN fate |->
                      IF \E j \in J : jobs[j].post = p THEN "lost" ELSE fate[p]]
    BY <1>6 DEF Unsubscribe, Drops
  <2> HIDE DEF J
  <2>2. FinalStays BY <2>1 DEF FinalStays, store
  <2>3. FatesMove BY <2>1 DEF FatesMove, IInv, NoteInv, Accounted
  <2> QED BY <2>2, <2>3
<1> QED
  BY <1>1, <1>2, <1>3, <1>4, <1>5, <1>6, StreamRequestIInv, SubmitTaskIInv, AbortRequestIInv,
     CompleteRequestIInv, FailRequestIInv, ProvideInputIInv, ExpireTaskIInv
  DEF TaskStep, Timer

(* Nor does any other step. *)
LEMMA NextMoves ==
  ASSUME IInv, [Next]_vars
  PROVE  FatesMove /\ FinalStays
<1>1. ASSUME NEW p \in posting, PostSucceeds(p) \/ PostRefused(p) PROVE FatesMove /\ FinalStays
  <2>1. fate[p] = "open" /\ p \in DOMAIN fate BY DEF IInv, NoteInv, Accounted
  <2>2. UNCHANGED store /\ (fate' = [fate EXCEPT ![p] = "acked"] \/ fate' = [fate EXCEPT ![p] = "lost"])
    BY <1>1 DEF PostSucceeds, PostRefused, Settles
  <2>3. FatesMove BY <2>1, <2>2 DEF FatesMove
  <2> QED BY <2>2, <2>3 DEF FinalStays, store
<1>2. ASSUME NEW p \in posting, PostFails(p) PROVE FatesMove /\ FinalStays
  <2>1. /\ UNCHANGED store
        /\ fate' = [q \in DOMAIN fate |->
                      IF \E j \in Overflow : jobs[j].post = q THEN "lost" ELSE fate[q]]
    BY <1>2 DEF PostFails, Drops
  <2>2. FatesMove BY <2>1 DEF FatesMove, Overflow, IInv, NoteInv, Accounted
  <2> QED BY <2>1, <2>2 DEF FinalStays, store
<1>3. ASSUME NEW j \in inFlight, RetrySucceeds(j) \/ RetryGivesUp(j)
      PROVE  FatesMove /\ FinalStays
  <2> DEFINE p == jobs[j].post
  <2>1. p \in DOMAIN fate /\ fate[p] \in {"open", "lost"} /\ (j \in queue => fate[p] = "open")
    BY DEF IInv, NoteInv, Accounted, AckedIsOver, Fates
  <2>2. /\ UNCHANGED store
        /\ \/ fate' = [fate EXCEPT ![p] = "acked"]
           \/ fate' = [fate EXCEPT ![p] = "lost"] /\ j \in queue
           \/ fate' = fate
    BY <1>3 DEF RetrySucceeds, RetryGivesUp, Settles
  <2> HIDE DEF p
  <2>3. FatesMove BY <2>1, <2>2 DEF FatesMove
  <2> QED BY <2>2, <2>3 DEF FinalStays, store
<1> QED
  BY <1>1, <1>2, <1>3, TaskMoves, NoMove
  DEF Next, PostAnswered, RetryAnswered, SomeRetryDue, RetryFails, RetryDue, ProcessRetries,
      SubStep, SubExpires, Subscribe, CleanupExpired, CleanupFailed, vars

(* An acknowledged notification stays acknowledged: no event is numbered as *)
(* an earlier one of its task, and no late answer takes it back.            *)
THEOREM Settled == Spec => AckedStays
<1>1. IInv /\ [Next]_vars => [FatesMove]_vars BY NextMoves
<1> QED BY <1>1, Invariance, PTL DEF Spec, AckedStays

(* Whatever agent, client or timer comes late, a terminal status is final. *)
THEOREM Terminated == Spec => TerminalStays
<1>1. IInv /\ [Next]_vars => [FinalStays]_vars BY NextMoves
<1> QED BY <1>1, Invariance, PTL DEF Spec, TerminalStays

---------------------------------------------------------------------------
(* Removal and limits *)

(* How a step may change the retry queue: it removes deliveries, and adds  *)
(* at most a new one, in place of the oldest if the queue is full; only    *)
(* queued deliveries are attempted, MaxInFlight at a time.                 *)
QueueStep ==
  /\ DOMAIN jobs \subseteq DOMAIN jobs'
  /\ \/ queue' \subseteq queue
     \/ queue' = (queue \ Overflow) \cup {Len(jobs) + 1}
  /\ \/ inFlight' \subseteq inFlight
     \/ /\ inFlight' \subseteq queue
        /\ Cardinality(inFlight') < MaxInFlight \/ Cardinality(inFlight') = MaxInFlight

(* A step that leaves the retry queue alone is one of these. *)
LEMMA RetriesStay == UNCHANGED retries => QueueStep
BY DEF retries, QueueStep

(* So is every step. *)
LEMMA NextQueueStep ==
  ASSUME IInv, [Next]_vars
  PROVE  QueueStep
<1>1. ASSUME NEW t \in Ids, TaskStep(t) PROVE QueueStep
  <2>1. CASE Unsubscribe(t) BY <2>1 DEF Unsubscribe, RemoveAll, QueueStep
  <2>2. CASE ~Unsubscribe(t)
    <3>1. UNCHANGED retries
      <4>1. CASE StreamRequest(t) BY <4>1 DEF StreamRequest
      <4>2. CASE SubmitTask(t) BY <4>2 DEF SubmitTask
      <4>3. CASE AbortRequest(t) BY <4>3 DEF AbortRequest
      <4>4. CASE Timer(t) BY <4>4 DEF Timer, CompleteRequest, FailRequest, LoseRequest
      <4>5. CASE CancelTask(t) BY <4>5 DEF CancelTask
      <4>6. CASE ProvideInput(t) BY <4>6 DEF ProvideInput
      <4>7. CASE ExpireTask(t) BY <4>7 DEF ExpireTask
      <4>8. CASE \E st \in {"working", "rejected", "input_required", "auth_required"} :
                   AgentMoves(t, st)
        BY <4>8 DEF AgentMoves
      <4>9. CASE DeletePush(t) BY <4>9 DEF DeletePush
      <4> QED
        BY <1>1, <2>2, <4>1, <4>2, <4>3, <4>4, <4>5, <4>6, <4>7, <4>8, <4>9 DEF TaskStep
    <3> QED BY <3>1, RetriesStay
  <2> QED BY <2>1, <2>2
<1>2. ASSUME NEW s \in Subs, SubStep(s) PROVE QueueStep
  BY <1>2, RetriesStay DEF SubStep, SubExpires, Subscribe
<1>3. CASE CleanupExpired \/ CleanupFailed
  BY <1>3, RetriesStay DEF CleanupExpired, CleanupFailed
<1>4. ASSUME NEW p \in posting, PostSucceeds(p) \/ PostRefused(p) PROVE QueueStep
  BY <1>4, RetriesStay DEF PostSucceeds, PostRefused
<1>5. ASSUME NEW p \in posting, PostFails(p) PROVE QueueStep
  <2>1. jobs \in Seq(Jobs) BY DEF IInv, NoteInv
  <2>2. DOMAIN jobs \subseteq DOMAIN Append(jobs, Job(p))
    <3>1. Len(jobs) \in Nat /\ DOMAIN jobs = 1 .. Len(jobs) BY <2>1
    <3>2. DOMAIN Append(jobs, Job(p)) = 1 .. (Len(jobs) + 1) BY <2>1, <3>1
    <3> QED BY <3>1, <3>2
  <2> QED BY <1>5, <2>2 DEF PostFails, Enqueue, QueueStep
<1>6. ASSUME NEW j \in inFlight, RetrySucceeds(j) \/ RetryGivesUp(j) PROVE QueueStep
  BY <1>6 DEF RetrySucceeds, RetryGivesUp, Succeed, GiveUp, RemoveAll, QueueStep
<1>7. ASSUME NEW j \in inFlight, RetryFails(j) PROVE QueueStep
  BY <1>7 DEF RetryFails, Reschedule, QueueStep, IInv, NoteInv
<1>8. ASSUME NEW j \in queue, RetryDue(j) PROVE QueueStep
  BY <1>8 DEF RetryDue, BackoffElapses, QueueStep, IInv, NoteInv
<1>9. CASE ProcessRetries BY <1>9 DEF ProcessRetries, ProcessQueue, QueueStep
<1>10. CASE UNCHANGED vars BY <1>10, RetriesStay DEF vars
<1> QED
  BY <1>1, <1>2, <1>3, <1>4, <1>5, <1>6, <1>7, <1>8, <1>9, <1>10
  DEF Next, PostAnswered, RetryAnswered, SomeRetryDue

(* A delivery removed or evicted never comes back, and is not attempted    *)
(* again once the attempt in flight is over.                               *)
THEOREM RemovedForGood == Spec => NeverRequeued
<1> DEFINE A == \A j \in DOMAIN jobs \ queue :
                  j \notin queue' /\ (j \notin inFlight => j \notin inFlight')
<1>1. IInv /\ [Next]_vars => A
  <2> SUFFICES ASSUME IInv, [Next]_vars, NEW j \in DOMAIN jobs, j \notin queue
               PROVE  j \notin queue' /\ (j \notin inFlight => j \notin inFlight')
    OBVIOUS
  <2>1. QueueStep BY NextQueueStep
  <2>2. Len(jobs) + 1 \notin DOMAIN jobs
    <3>1. jobs \in Seq(Jobs) BY DEF IInv, NoteInv
    <3>2. Len(jobs) \in Nat /\ DOMAIN jobs = 1 .. Len(jobs) BY <3>1
    <3> QED BY <3>2
  <2> QED BY <2>1, <2>2 DEF QueueStep
<1>2. IInv /\ [Next]_vars => [A]_vars BY <1>1
<1>3. NeverRequeued <=> [][A]_vars BY DEF NeverRequeued
<1> QED BY <1>2, <1>3, Invariance, PTL DEF Spec

(* A full queue has an oldest delivery, which gives way to a new one. *)
LEMMA OverflowWhenFull ==
  ASSUME queue \subseteq Nat, queue # {}, Cardinality(queue) >= MaxQueueSize
  PROVE  Overflow # {}
BY LeastElement DEF Overflow

LimitInv ==
  /\ IsFiniteSet(queue) /\ Cardinality(queue) <= MaxQueueSize
  /\ IsFiniteSet(inFlight) /\ Cardinality(inFlight) <= MaxInFlight

(* A part of a set within a limit is within it. *)
LEMMA PartFits ==
  ASSUME NEW S, NEW T, NEW limit \in Nat, T \subseteq S, IsFiniteSet(S), Cardinality(S) <= limit
  PROVE  IsFiniteSet(T) /\ Cardinality(T) <= limit
<1>1. IsFiniteSet(T) /\ Cardinality(T) <= Cardinality(S) BY FS_Subset
<1>2. Cardinality(T) \in Nat /\ Cardinality(S) \in Nat BY <1>1, FS_CardinalityType
<1> QED BY <1>1, <1>2

(* One more fits where the limit is not reached. *)
LEMMA OneMoreFits ==
  ASSUME NEW S, NEW x, NEW limit \in Nat, IsFiniteSet(S), Cardinality(S) < limit
  PROVE  IsFiniteSet(S \cup {x}) /\ Cardinality(S \cup {x}) <= limit
<1>1. IsFiniteSet(S \cup {x}) BY FS_AddElement
<1>2. Cardinality(S) \in Nat BY FS_CardinalityType
<1>3. Cardinality(S \cup {x}) = Cardinality(S) \/ Cardinality(S \cup {x}) = Cardinality(S) + 1
  BY FS_AddElement
<1> QED BY <1>1, <1>2, <1>3

(* Every step keeps the queue and the attempts within their limits. *)
LEMMA NextLimitInv == IInv /\ LimitInv /\ [Next]_vars => LimitInv'
<1> SUFFICES ASSUME IInv, LimitInv, [Next]_vars PROVE LimitInv' OBVIOUS
<1>1. QueueStep BY NextQueueStep
<1>2. MaxQueueSize \in Nat \ {0} /\ MaxInFlight \in Nat BY QueueAssumption
<1>3. IsFiniteSet(queue') /\ Cardinality(queue') <= MaxQueueSize
  <2>1. CASE queue' \subseteq queue BY <1>2, <2>1, PartFits DEF LimitInv
  <2>2. CASE queue' = (queue \ Overflow) \cup {Len(jobs) + 1}
    <3>1. IsFiniteSet(queue) /\ Cardinality(queue) <= MaxQueueSize /\ Cardinality(queue) \in Nat
      BY FS_CardinalityType DEF LimitInv
    <3>2. CASE Cardinality(queue) < MaxQueueSize
      <4>1. IsFiniteSet(queue \cup {Len(jobs) + 1})
            /\ Cardinality(queue \cup {Len(jobs) + 1}) <= MaxQueueSize
        BY <1>2, <3>1, <3>2, OneMoreFits
      <4>2. queue' \subseteq queue \cup {Len(jobs) + 1} BY <2>2
      <4> QED BY <1>2, <4>1, <4>2, PartFits
    <3>3. CASE ~(Cardinality(queue) < MaxQueueSize)
      <4>1. Cardinality(queue) >= MaxQueueSize /\ Cardinality(queue) # 0 BY <1>2, <3>1, <3>3
      <4>2. queue # {} BY <4>1, FS_EmptySet
      <4>3. queue \subseteq Nat
        <5>1. jobs \in Seq(Jobs) /\ queue \subseteq DOMAIN jobs BY DEF IInv, NoteInv
        <5>2. Len(jobs) \in Nat /\ DOMAIN jobs = 1 .. Len(jobs) BY <5>1
        <5> QED BY <5>1, <5>2
      <4>4. PICK m \in Overflow : TRUE BY <4>1, <4>2, <4>3, OverflowWhenFull
      <4>5. m \in queue BY DEF Overflow
      <4>6. IsFiniteSet(queue \ {m}) /\ Cardinality(queue \ {m}) = Cardinality(queue) - 1
        BY <3>1, <4>5, FS_RemoveElement
      <4>7. Cardinality(queue \ {m}) < MaxQueueSize BY <1>2, <3>1, <4>6
      <4> DEFINE T == (queue \ {m}) \cup {Len(jobs) + 1}
      <4>8. IsFiniteSet(T) /\ Cardinality(T) <= MaxQueueSize BY <1>2, <4>6, <4>7, OneMoreFits
      <4>9. queue' \subseteq T BY <2>2, <4>4
      <4> HIDE DEF T
      <4> QED BY <1>2, <4>8, <4>9, PartFits
    <3> QED BY <3>2, <3>3
  <2> QED BY <1>1, <2>1, <2>2 DEF QueueStep
<1>4. IsFiniteSet(inFlight') /\ Cardinality(inFlight') <= MaxInFlight
  <2>1. CASE inFlight' \subseteq inFlight BY <1>2, <2>1, PartFits DEF LimitInv
  <2>2. CASE /\ inFlight' \subseteq queue
             /\ Cardinality(inFlight') < MaxInFlight \/ Cardinality(inFlight') = MaxInFlight
    <3>1. IsFiniteSet(inFlight') BY <2>2, FS_Subset DEF LimitInv
    <3>2. Cardinality(inFlight') \in Nat BY <3>1, FS_CardinalityType
    <3> QED BY <1>2, <2>2, <3>1, <3>2
  <2> QED BY <1>1, <2>1, <2>2 DEF QueueStep
<1> QED BY <1>3, <1>4 DEF LimitInv

(* The retry queue and the posts in flight keep to their limits, evicting  *)
(* the oldest delivery when the queue is full.                             *)
THEOREM QueueLimits == Spec => []QueueBounded
<1>1. Init => LimitInv
  BY FS_EmptySet, QueueAssumption DEF Init, RetryInit, LimitInv
<1>2. LimitInv => QueueBounded BY DEF LimitInv, QueueBounded
<1> QED BY <1>1, <1>2, NextLimitInv, Invariance, PTL DEF Spec
---------------------------------------------------------------------------
(* The store *)

(* Each task in the store has one place in the order of updates. *)
OrderInv ==
  /\ touched \in Seq(Ids)
  /\ \A i \in DOMAIN touched, j \in DOMAIN touched : touched[i] = touched[j] => i = j
  /\ \A t \in Ids : Stored(t) <=> \E i \in DOMAIN touched : touched[i] = t

(* What a step does to the store: nothing, or one operation of it. *)
StoreStep ==
  \/ UNCHANGED store
  \/ \E t \in Ids, r \in Tasks : Stored(t) /\ Update(t, r)
  \/ \E t \in Ids, r \in Tasks : ~Stored(t) /\ Create(t, r)
  \/ \E t \in Ids : Stored(t) /\ tasks[t].status = "completed" /\ Delete(t)

(* A transition updates one record of the store. *)
LEMMA TransitionStore ==
  ASSUME IInv, NEW t \in Ids, NEW st, Stored(t), Transition(t, st)
  PROVE  StoreStep
<1>1. tasks[t] \in Tasks BY StoredIsTask DEF IInv
<1>2. Moved(tasks[t], st) \in Tasks BY <1>1, MoveFacts, MovedFacts DEF Transition
<1> QED BY <1>2 DEF Transition, StoreStep

(* Every step creates, updates or deletes one task, or leaves the store *)
(* alone.                                                               *)
LEMMA NextStoreStep ==
  ASSUME IInv, [Next]_vars
  PROVE  StoreStep
<1>1. ASSUME NEW t \in Ids, StreamRequest(t) \/ SubmitTask(t) PROVE StoreStep
  <2>1. NewTask \in Tasks /\ Moved(NewTask, "working") \in Tasks
    BY NewTaskFacts, MovedFacts DEF Statuses
  <2>2. ~Stored(t) BY <1>1 DEF StreamRequest, SubmitTask, IInv, TaskInv
  <2>3. Create(t, NewTask) \/ Create(t, Moved(NewTask, "working"))
    BY <1>1 DEF StreamRequest, SubmitTask
  <2> QED BY <2>1, <2>2, <2>3 DEF StoreStep
<1>2. ASSUME NEW t \in Ids, AbortRequest(t) \/ CancelTask(t) PROVE StoreStep
  BY <1>2, TransitionStore DEF AbortRequest, CancelTask, StoreStep
<1>3. ASSUME NEW t \in Ids, Timer(t) \/ ProvideInput(t) PROVE StoreStep
  <2>1. CASE LoseRequest(t) BY <2>1 DEF LoseRequest, StoreStep
  <2>2. CASE ~LoseRequest(t)
    <3> DEFINE q == tasks[t]
               r == WithArtifact(q)
    <3>1. Stored(t) /\ q \in Tasks
      BY <1>3, <2>2, StoredIsTask
      DEF Timer, CompleteRequest, FailRequest, ProvideInput, IInv, Stored, NoTask
    <3>2. r \in Tasks /\ WithError(r) \in Tasks BY <3>1, RecordFacts
    <3>3. /\ Moved(r, "completed") \in Tasks /\ Moved(r, "working") \in Tasks
          /\ Moved(WithError(r), "failed") \in Tasks
      BY <3>2, MovedFacts DEF Statuses, Terminal
    <3>4. \/ Update(t, Moved(r, "completed")) \/ Update(t, Moved(r, "working"))
          \/ Update(t, Moved(WithError(r), "failed")) \/ Update(t, WithError(r))
      BY <1>3, <2>2 DEF Timer, CompleteRequest, FailRequest, ProvideInput
    <3> HIDE DEF r
    <3> QED BY <3>1, <3>2, <3>3, <3>4 DEF StoreStep
  <2> QED BY <2>1, <2>2
<1>4. ASSUME NEW t \in Ids, ExpireTask(t) PROVE StoreStep
  BY <1>4 DEF ExpireTask, StoreStep, Stored, NoTask
<1>5. ASSUME NEW t \in Ids, NEW st, AgentMoves(t, st) PROVE StoreStep
  BY <1>5, TransitionStore DEF AgentMoves
<1>6. ASSUME NEW t \in Ids, DeletePush(t) \/ Unsubscribe(t) PROVE StoreStep
  BY <1>6 DEF DeletePush, Unsubscribe, StoreStep
<1>7. ASSUME NEW s \in Subs, SubStep(s) PROVE StoreStep
  BY <1>7 DEF SubStep, SubExpires, Subscribe, StoreStep
<1>8. CASE CleanupExpired \/ CleanupFailed
  BY <1>8 DEF CleanupExpired, CleanupFailed, StoreStep
<1>9. CASE PostAnswered
  BY <1>9 DEF PostAnswered, PostSucceeds, PostFails, PostRefused, StoreStep
<1>10. CASE RetryAnswered
  BY <1>10 DEF RetryAnswered, RetrySucceeds, RetryFails, RetryGivesUp, StoreStep
<1>11. CASE ProcessRetries \/ SomeRetryDue
  BY <1>11 DEF ProcessRetries, SomeRetryDue, RetryDue, StoreStep
<1>12. CASE UNCHANGED vars BY <1>12 DEF vars, StoreStep, store
<1>13. ASSUME NEW t \in Ids, TaskStep(t) PROVE StoreStep
  BY <1>1, <1>2, <1>3, <1>4, <1>5, <1>6, <1>13 DEF TaskStep
<1> QED BY <1>7, <1>8, <1>9, <1>10, <1>11, <1>12, <1>13 DEF Next

(* A sequence with one entry removed. *)
LEMMA RemoveAtFacts ==
  ASSUME NEW S, NEW s \in Seq(S), NEW i \in DOMAIN s
  PROVE  /\ RemoveAt(s, i) \in Seq(S)
         /\ DOMAIN RemoveAt(s, i) = 1 .. (Len(s) - 1)
         /\ \A j \in 1 .. (Len(s) - 1) :
              RemoveAt(s, i)[j] = IF j < i THEN s[j] ELSE s[j + 1]
<1> DEFINE a == SubSeq(s, 1, i - 1)
           b == SubSeq(s, i + 1, Len(s))
<1>1. Len(s) \in Nat /\ i \in 1 .. Len(s) /\ \A j \in 1 .. Len(s) : s[j] \in S OBVIOUS
<1>2. a \in Seq(S) /\ Len(a) = i - 1 /\ \A j \in 1 .. (i - 1) : a[j] = s[j]
  BY <1>1
<1>3. b \in Seq(S) /\ Len(b) = Len(s) - i /\ \A j \in 1 .. (Len(s) - i) : b[j] = s[i + j]
  BY <1>1
<1>4. RemoveAt(s, i) = a \o b BY DEF RemoveAt
<1> HIDE DEF a, b
<1>5. /\ a \o b \in Seq(S) /\ Len(a \o b) = Len(s) - 1
      /\ \A j \in 1 .. (Len(s) - 1) : (a \o b)[j] = IF j < i THEN a[j] ELSE b[j - (i - 1)]
  BY <1>1, <1>2, <1>3
<1>6. DOMAIN (a \o b) = 1 .. (Len(s) - 1) BY <1>5
<1>7. ASSUME NEW j \in 1 .. (Len(s) - 1)
      PROVE  (a \o b)[j] = IF j < i THEN s[j] ELSE s[j + 1]
  <2>1. CASE j < i BY <1>1, <1>2, <1>5, <2>1
  <2>2. CASE ~(j < i)
    <3>1. j - (i - 1) \in 1 .. (Len(s) - i) /\ i + (j - (i - 1)) = j + 1 BY <1>1, <2>2
    <3> QED BY <1>3, <1>5, <2>2, <3>1
  <2> QED BY <2>1, <2>2
<1> QED BY <1>4, <1>5, <1>6, <1>7

(* The order without a task has every other one, once. *)
LEMMA WithoutFacts ==
  ASSUME TaskInv, OrderInv, NEW t \in Ids, Stored(t)
  PROVE  /\ Without(t) \in Seq(Ids)
         /\ \A i \in DOMAIN Without(t), j \in DOMAIN Without(t) :
              Without(t)[i] = Without(t)[j] => i = j
         /\ \A u \in Ids : (\E i \in DOMAIN Without(t) : Without(t)[i] = u) <=> Stored(u) /\ u # t
<1> DEFINE k == CHOOSE i \in DOMAIN touched : touched[i] = t
           w == Without(t)
<1>1. k \in DOMAIN touched /\ touched[k] = t BY DEF OrderInv
<1>2. w = RemoveAt(touched, k) BY DEF Without
<1> HIDE DEF k, w
<1>3. /\ touched \in Seq(Ids) /\ Len(touched) \in Nat /\ DOMAIN touched = 1 .. Len(touched)
      /\ \A i \in DOMAIN touched, j \in DOMAIN touched : touched[i] = touched[j] => i = j
  BY DEF OrderInv
<1>4. /\ w \in Seq(Ids) /\ DOMAIN w = 1 .. (Len(touched) - 1)
      /\ \A j \in 1 .. (Len(touched) - 1) : w[j] = IF j < k THEN touched[j] ELSE touched[j + 1]
  BY <1>1, <1>2, <1>3, RemoveAtFacts
<1>5. \A i \in DOMAIN w, j \in DOMAIN w : w[i] = w[j] => i = j
  <2> SUFFICES ASSUME NEW i \in DOMAIN w, NEW j \in DOMAIN w, w[i] = w[j] PROVE i = j OBVIOUS
  <2> DEFINE f(x) == IF x < k THEN x ELSE x + 1
  <2>1. f(i) \in DOMAIN touched /\ f(j) \in DOMAIN touched BY <1>1, <1>3, <1>4
  <2>2. w[i] = touched[f(i)] /\ w[j] = touched[f(j)] BY <1>4
  <2>3. f(i) = f(j)
    <3> HIDE DEF f
    <3> QED BY <1>3, <2>1, <2>2
  <2> QED BY <1>1, <1>3, <1>4, <2>3
<1>6. ASSUME NEW u \in Ids, NEW i \in DOMAIN w, w[i] = u PROVE Stored(u) /\ u # t
  <2> DEFINE x == IF i < k THEN i ELSE i + 1
  <2>1. x \in DOMAIN touched /\ x # k /\ touched[x] = u BY <1>1, <1>3, <1>4, <1>6
  <2> HIDE DEF x
  <2> QED BY <1>1, <1>3, <2>1 DEF OrderInv
<1>7. ASSUME NEW u \in Ids, Stored(u), u # t PROVE \E i \in DOMAIN w : w[i] = u
  <2>1. PICK x \in DOMAIN touched : touched[x] = u BY <1>7 DEF OrderInv
  <2>2. x # k BY <1>1, <1>7, <2>1
  <2>3. CASE x < k
    <3>1. x \in DOMAIN w BY <1>1, <1>3, <1>4, <2>3
    <3> QED BY <1>4, <2>1, <2>3, <3>1
  <2>4. CASE ~(x < k)
    <3>1. x - 1 \in DOMAIN w /\ ~(x - 1 < k) /\ (x - 1) + 1 = x BY <1>1, <1>3, <1>4, <2>2, <2>4
    <3> QED BY <1>4, <2>1, <3>1
  <2> QED BY <2>3, <2>4
<1> QED BY <1>4, <1>5, <1>6, <1>7 DEF w

(* Adding the latest task at the end. *)
LEMMA TouchLast ==
  ASSUME NEW w \in Seq(Ids), NEW t \in Ids, \A i \in DOMAIN w : w[i] # t,
         \A i \in DOMAIN w, j \in DOMAIN w : w[i] = w[j] => i = j
  PROVE  LET z == Append(w, t) IN
         /\ z \in Seq(Ids)
         /\ \A i \in DOMAIN z, j \in DOMAIN z : z[i] = z[j] => i = j
         /\ \A u \in Ids : (\E i \in DOMAIN z : z[i] = u) <=> u = t \/ \E i \in DOMAIN w : w[i] = u
<1> DEFINE z == Append(w, t)
<1>1. Len(w) \in Nat /\ DOMAIN w = 1 .. Len(w) OBVIOUS
<1>2. /\ z \in Seq(Ids) /\ DOMAIN z = DOMAIN w \cup {Len(w) + 1}
      /\ z[Len(w) + 1] = t /\ \A i \in DOMAIN w : z[i] = w[i]
  BY <1>1
<1> HIDE DEF z
<1> QED BY <1>2 DEF z

(* At most one task is evicted: the store is full, and of the tasks that    *)
(* completed, failed or were canceled it was updated first.                 *)
Finished(t) == tasks[t].status \in {"completed", "failed", "canceled"}

(* What is evicted is one finished task, and there is one if the full store *)
(* has any.                                                                 *)
LEMMA EvictedFacts ==
  ASSUME TaskInv, OrderInv
  PROVE  /\ Evicted \subseteq {t \in Ids : Stored(t) /\ Finished(t)}
         /\ \A t \in Evicted, u \in Evicted : t = u
         /\ Cardinality(StoredIds) \in Nat /\ Cardinality(StoredIds) >= MaxTasks =>
              \A t \in StoredIds : Finished(t) => Evicted # {}
<1> DEFINE done == {i \in DOMAIN touched : Finished(touched[i])}
           first == {i \in done : \A j \in done : i <= j}
<1>1. Evicted = IF Cardinality(StoredIds) < MaxTasks THEN {} ELSE {touched[i] : i \in first}
  BY DEF Evicted, Finished
<1>2. touched \in Seq(Ids) /\ DOMAIN touched = 1 .. Len(touched) /\ Len(touched) \in Nat
  BY DEF OrderInv
<1>3. done \subseteq Nat /\ \A i \in first : i \in done BY <1>2
<1>4. \A i \in done : touched[i] \in Ids /\ Stored(touched[i]) /\ Finished(touched[i])
  BY <1>2 DEF OrderInv
<1>5. Evicted \subseteq {t \in Ids : Stored(t) /\ Finished(t)}
  BY <1>1, <1>3, <1>4
<1>6. \A i \in first, j \in first : i = j BY <1>3
<1>7. \A t \in Evicted, u \in Evicted : t = u BY <1>1, <1>6
<1>8. ASSUME Cardinality(StoredIds) \in Nat, Cardinality(StoredIds) >= MaxTasks,
             NEW t \in StoredIds, Finished(t)
      PROVE  Evicted # {}
  <2>1. done # {}
    <3>1. PICK i \in DOMAIN touched : touched[i] = t BY DEF OrderInv, StoredIds
    <3> QED BY <1>8, <3>1
  <2> HIDE DEF done
  <2>2. first # {} BY <1>3, <2>1, LeastElement
  <2> QED BY <1>1, <1>8, <2>2, StoreAssumption
<1> QED BY <1>5, <1>7, <1>8

(* Every step keeps each stored task at one place in the order of updates. *)
LEMMA NextOrder ==
  ASSUME IInv, OrderInv, [Next]_vars
  PROVE  OrderInv'
<1>1. StoreStep /\ TaskInv BY NextStoreStep DEF IInv
<1>2. tasks \in [Ids -> Tasks \cup {NoTask}] BY <1>1 DEF TaskInv
<1>3. CASE UNCHANGED store BY <1>3 DEF store, OrderInv, Stored
<1>4. ASSUME NEW t \in Ids, NEW r \in Tasks, Stored(t), Update(t, r) PROVE OrderInv'
  <2>1. tasks' = [tasks EXCEPT ![t] = r] /\ touched' = Append(Without(t), t)
    BY <1>4 DEF Update
  <2>2. \A u \in Ids : Stored(u)' <=> Stored(u)
    BY <1>2, <1>4, <2>1, NewTaskFacts DEF Stored
  <2>3. \A i \in DOMAIN Without(t) : Without(t)[i] # t
    BY <1>1, <1>4, WithoutFacts
  <2>4. /\ Without(t) \in Seq(Ids)
        /\ \A i \in DOMAIN Without(t), j \in DOMAIN Without(t) :
             Without(t)[i] = Without(t)[j] => i = j
        /\ \A u \in Ids : (\E i \in DOMAIN Without(t) : Without(t)[i] = u) <=> Stored(u) /\ u # t
    BY <1>1, <1>4, WithoutFacts
  <2> DEFINE w == Without(t)
  <2> HIDE DEF w
  <2>5. /\ touched' \in Seq(Ids)
        /\ \A i \in DOMAIN touched', j \in DOMAIN touched' : touched'[i] = touched'[j] => i = j
        /\ \A u \in Ids : (\E i \in DOMAIN touched' : touched'[i] = u)
                          <=> u = t \/ \E i \in DOMAIN w : w[i] = u
    BY <2>1, <2>3, <2>4, TouchLast DEF w
  <2> QED BY <1>4, <2>2, <2>4, <2>5 DEF OrderInv, w
<1>5. ASSUME NEW t \in Ids, NEW r \in Tasks, ~Stored(t), Create(t, r) PROVE OrderInv'
  <2> DEFINE w == IF Evicted = {} THEN touched ELSE Without(CHOOSE u \in Evicted : TRUE)
  <2>1. /\ tasks' = [u \in Ids |-> IF u = t THEN r ELSE IF u \in Evicted THEN NoTask ELSE tasks[u]]
        /\ touched' = Append(w, t)
    BY <1>5 DEF Create
  <2>2. \A u \in Ids : Stored(u)' <=> u = t \/ (Stored(u) /\ u \notin Evicted)
    BY <1>2, <2>1, NewTaskFacts DEF Stored
  <2>3. /\ w \in Seq(Ids)
        /\ \A i \in DOMAIN w, j \in DOMAIN w : w[i] = w[j] => i = j
        /\ \A u \in Ids : (\E i \in DOMAIN w : w[i] = u) <=> Stored(u) /\ u \notin Evicted
    <3>1. CASE Evicted = {} BY <3>1 DEF OrderInv
    <3>2. CASE Evicted # {}
      <4> DEFINE e == CHOOSE u \in Evicted : TRUE
      <4>1. e \in Ids /\ Stored(e) /\ \A u : u \in Evicted <=> u = e
        BY <1>1, <3>2, EvictedFacts
      <4>2. w = Without(e) BY <3>2
      <4> HIDE DEF e, w
      <4> QED BY <1>1, <4>1, <4>2, WithoutFacts
    <3> QED BY <3>1, <3>2
  <2> HIDE DEF w
  <2>4. \A i \in DOMAIN w : w[i] # t BY <1>5, <2>3
  <2>5. /\ touched' \in Seq(Ids)
        /\ \A i \in DOMAIN touched', j \in DOMAIN touched' : touched'[i] = touched'[j] => i = j
        /\ \A u \in Ids : (\E i \in DOMAIN touched' : touched'[i] = u)
                          <=> u = t \/ \E i \in DOMAIN w : w[i] = u
    BY <2>1, <2>3, <2>4, TouchLast
  <2> QED BY <2>2, <2>3, <2>5 DEF OrderInv
<1>6. ASSUME NEW t \in Ids, Stored(t), Delete(t) PROVE OrderInv'
  <2>1. tasks' = [tasks EXCEPT ![t] = NoTask] /\ touched' = Without(t) BY <1>6 DEF Delete
  <2>2. \A u \in Ids : Stored(u)' <=> Stored(u) /\ u # t BY <1>2, <2>1 DEF Stored
  <2> QED BY <1>1, <1>6, <2>1, <2>2, WithoutFacts DEF OrderInv
<1> QED BY <1>1, <1>3, <1>4, <1>5, <1>6 DEF StoreStep

(* So each stored task always has exactly one place there. *)
LEMMA OrderInvariant == Spec => []OrderInv
<1>1. Init => OrderInv BY DEF Init, OrderInv, Stored
<1> QED BY <1>1, NextOrder, Invariance, PTL DEF Spec

(* No unfinished task is forgotten: what leaves the store completed, failed *)
(* or was canceled, whether it is evicted or its time to live is over.      *)
ForgetsFinished == [][\A t \in Ids : Stored(t) /\ ~Stored(t)' => Finished(t)]_vars

(* A task that leaves the store in a step had finished. *)
LEMMA ForgottenIsFinished ==
  ASSUME IInv, OrderInv, [Next]_vars, NEW t \in Ids, Stored(t), ~Stored(t)'
  PROVE  Finished(t)
<1>1. StoreStep /\ TaskInv BY NextStoreStep DEF IInv
<1>2. tasks \in [Ids -> Tasks \cup {NoTask}] BY <1>1 DEF TaskInv
<1>3. CASE UNCHANGED store BY <1>3 DEF store, Stored
<1>4. ASSUME NEW u \in Ids, NEW r \in Tasks, Update(u, r) PROVE FALSE
  BY <1>2, <1>4, NewTaskFacts DEF Update, Stored
<1>5. ASSUME NEW u \in Ids, NEW r \in Tasks, Create(u, r) PROVE Finished(t)
  <2>1. t \in Evicted BY <1>5, NewTaskFacts DEF Create, Stored
  <2> QED BY <1>1, <2>1, EvictedFacts
<1>6. ASSUME NEW u \in Ids, tasks[u].status = "completed", Delete(u) PROVE Finished(t)
  BY <1>2, <1>6 DEF Delete, Stored, Finished
<1> QED BY <1>1, <1>3, <1>4, <1>5, <1>6 DEF StoreStep

(* Only finished tasks leave the store. *)
THEOREM Forgotten == Spec => ForgetsFinished
<1>1. IInv /\ OrderInv /\ [Next]_vars
      => [\A t \in Ids : Stored(t) /\ ~Stored(t)' => Finished(t)]_vars
  BY ForgottenIsFinished
<1> QED BY <1>1, Invariance, OrderInvariant, PTL DEF Spec, ForgetsFinished

(* The store grows beyond maxTasks only while none of its tasks can be      *)
(* evicted.                                                                 *)
GrowsOnlyIfNeeded ==
  [][Cardinality(StoredIds') > Cardinality(StoredIds) =>
       Cardinality(StoredIds) < MaxTasks \/ \A t \in StoredIds : ~Finished(t)]_vars

(* How the tasks stored change in a step. *)
LEMMA StoredStep ==
  ASSUME IInv, OrderInv, [Next]_vars
  PROVE  \/ StoredIds' \subseteq StoredIds
         \/ \E t \in Ids : StoredIds' = (StoredIds \ Evicted) \cup {t}
<1>1. StoreStep /\ TaskInv BY NextStoreStep DEF IInv
<1>2. tasks \in [Ids -> Tasks \cup {NoTask}] BY <1>1 DEF TaskInv
<1>3. CASE UNCHANGED store BY <1>3 DEF store, Stored, StoredIds
<1>4. ASSUME NEW t \in Ids, NEW r \in Tasks, Stored(t), Update(t, r)
      PROVE  StoredIds' \subseteq StoredIds
  BY <1>2, <1>4 DEF Update, Stored, StoredIds
<1>5. ASSUME NEW t \in Ids, NEW r \in Tasks, Create(t, r)
      PROVE  StoredIds' = (StoredIds \ Evicted) \cup {t}
  <2>1. tasks' = [u \in Ids |-> IF u = t THEN r ELSE IF u \in Evicted THEN NoTask ELSE tasks[u]]
    BY <1>5 DEF Create
  <2>2. \A u \in Ids : Stored(u)' <=> u = t \/ (Stored(u) /\ u \notin Evicted)
    BY <1>2, <2>1, NewTaskFacts DEF Stored
  <2> QED BY <2>2 DEF StoredIds
<1>6. ASSUME NEW t \in Ids, Delete(t) PROVE StoredIds' \subseteq StoredIds
  BY <1>2, <1>6 DEF Delete, Stored, StoredIds
<1> QED BY <1>1, <1>3, <1>4, <1>5, <1>6 DEF StoreStep

(* The store is finite: it grows by one task at a time. *)
StoreFinite == IsFiniteSet(StoredIds)

(* The store is always finite. *)
LEMMA StoredFinite == Spec => []StoreFinite
<1>1. Init => StoreFinite
  <2>1. Init => StoredIds = {} BY DEF Init, Stored, StoredIds
  <2> QED BY <2>1, FS_EmptySet DEF StoreFinite
<1>2. IInv /\ OrderInv /\ StoreFinite /\ [Next]_vars => StoreFinite'
  <2> SUFFICES ASSUME IInv, OrderInv, IsFiniteSet(StoredIds), [Next]_vars
               PROVE  IsFiniteSet(StoredIds')
    BY DEF StoreFinite
  <2>1. CASE StoredIds' \subseteq StoredIds BY <2>1, FS_Subset
  <2>2. ASSUME NEW t \in Ids, StoredIds' = (StoredIds \ Evicted) \cup {t}
        PROVE  IsFiniteSet(StoredIds')
    <3>1. IsFiniteSet(StoredIds \cup {t}) BY FS_AddElement
    <3>2. StoredIds' \subseteq StoredIds \cup {t} BY <2>2
    <3> QED BY <3>1, <3>2, FS_Subset
  <2> QED BY <2>1, <2>2, StoredStep
<1> QED BY <1>1, <1>2, Invariance, OrderInvariant, PTL DEF Spec

(* A full store that holds a finished task does not grow. *)
LEMMA GrowthStep ==
  ASSUME IInv, OrderInv, IsFiniteSet(StoredIds), [Next]_vars,
         Cardinality(StoredIds') > Cardinality(StoredIds),
         ~(Cardinality(StoredIds) < MaxTasks), NEW t \in StoredIds, Finished(t)
  PROVE  FALSE
<1> DEFINE n == Cardinality(StoredIds)
<1>1. n \in Nat /\ MaxTasks \in Nat BY FS_CardinalityType, StoreAssumption
<1>2. n >= MaxTasks BY <1>1
<1>3. Evicted \subseteq {u \in Ids : Stored(u) /\ Finished(u)} /\ Evicted # {}
  BY <1>1, <1>2, EvictedFacts DEF IInv
<1>4. CASE StoredIds' \subseteq StoredIds
  <2>1. Cardinality(StoredIds') <= n /\ IsFiniteSet(StoredIds') BY <1>4, FS_Subset
  <2>2. Cardinality(StoredIds') \in Nat BY <2>1, FS_CardinalityType
  <2> QED BY <1>1, <2>1, <2>2
<1>5. ASSUME NEW u \in Ids, StoredIds' = (StoredIds \ Evicted) \cup {u} PROVE FALSE
  <2>1. PICK e \in Evicted : e \in StoredIds BY <1>3 DEF StoredIds
  <2>2. IsFiniteSet(StoredIds \ {e}) /\ Cardinality(StoredIds \ {e}) = n - 1
    BY <2>1, FS_RemoveElement
  <2> DEFINE T == (StoredIds \ {e}) \cup {u}
  <2>3. Cardinality(StoredIds \ {e}) < n BY <1>1, <2>2
  <2>4. IsFiniteSet(T) /\ Cardinality(T) <= n BY <1>1, <2>2, <2>3, OneMoreFits
  <2>5. StoredIds' \subseteq T BY <1>5, <2>1
  <2> HIDE DEF T
  <2>6. Cardinality(StoredIds') <= Cardinality(T) /\ IsFiniteSet(StoredIds')
    BY <2>4, <2>5, FS_Subset
  <2>7. Cardinality(StoredIds') \in Nat /\ Cardinality(T) \in Nat
    BY <2>4, <2>6, FS_CardinalityType
  <2> QED BY <1>1, <2>4, <2>6, <2>7
<1> QED BY <1>4, <1>5, StoredStep

(* A full store evicts a task before it takes a new one, if it has any that *)
(* may be evicted.                                                          *)
THEOREM StoreLimit == Spec => GrowsOnlyIfNeeded
<1>1. IInv /\ OrderInv /\ StoreFinite /\ [Next]_vars
      => [Cardinality(StoredIds') > Cardinality(StoredIds) =>
            Cardinality(StoredIds) < MaxTasks \/ \A t \in StoredIds : ~Finished(t)]_vars
  BY GrowthStep DEF StoreFinite
<1> QED BY <1>1, Invariance, OrderInvariant, StoredFinite, PTL DEF Spec, GrowsOnlyIfNeeded

---------------------------------------------------------------------------
(* Subscriptions *)

SubRecords == [status: {"active", "failed", "none", "gone"}, task: Ids \cup {"none"},
               failures: Nat, expired: BOOLEAN]

(* The index is exact for active subscriptions; for failed ones it may keep *)
(* some that are gone, which cleanupExpired forgot, and so cleanupFailed    *)
(* deletes no subscription but failed ones.                                 *)
IndexMatches ==
  /\ index["active"] = {s \in Subs : subs[s].status = "active"}
  /\ \A s \in Subs : subs[s].status = "failed" => s \in index["failed"]
  /\ \A s \in index["failed"] : subs[s].status \in {"failed", "gone"}

(* An active subscription has not failed as often in a row as stops it. *)
FailuresStop == \A s \in Subs : subs[s].status = "active" => subs[s].failures < MaxFailures

SubInv ==
  /\ subs \in [Subs -> SubRecords]
  /\ index \in [SubStatuses -> SUBSET Subs]
  /\ IndexMatches
  /\ FailuresStop

(* The subscriptions of S are deleted, of which the index of failed ones    *)
(* may keep some.                                                           *)
LEMMA Deletion ==
  ASSUME SubInv, NEW S \in SUBSET Subs,
         subs' = [s \in Subs |-> IF s \in S THEN [NoSub EXCEPT !.status = "gone"] ELSE subs[s]],
         index' \in [SubStatuses -> SUBSET Subs],
         index'["active"] = index["active"] \ S,
         index'["failed"] \subseteq index["failed"], index["failed"] \ S \subseteq index'["failed"]
  PROVE  SubInv'
<1> DEFINE gone == [NoSub EXCEPT !.status = "gone"]
<1>1. gone \in SubRecords /\ gone.status = "gone" BY DEF SubRecords, NoSub
<1> HIDE DEF gone
<1>2. subs' = [s \in Subs |-> IF s \in S THEN gone ELSE subs[s]] BY DEF gone
<1>3. subs' \in [Subs -> SubRecords] BY <1>1, <1>2 DEF SubInv
<1>4. \A s \in Subs : subs'[s] = IF s \in S THEN gone ELSE subs[s] BY <1>2
<1>5. IndexMatches' BY <1>1, <1>4 DEF SubInv, IndexMatches, SubStatuses
<1>6. FailuresStop' BY <1>1, <1>4 DEF SubInv, FailuresStop
<1> QED BY <1>3, <1>5, <1>6 DEF SubInv

(* Deleting subscriptions leaves the index right for the others. *)
LEMMA DeleteSubsInv ==
  ASSUME SubInv, NEW S \in SUBSET Subs, DeleteSubs(S, index)
  PROVE  SubInv'
<1>1. /\ subs' = [s \in Subs |-> IF s \in S THEN [NoSub EXCEPT !.status = "gone"] ELSE subs[s]]
      /\ index' = [x \in SubStatuses |-> index[x] \ {s \in S : subs[s].status = x}]
  BY DEF DeleteSubs
<1>2. index \in [SubStatuses -> SUBSET Subs] BY DEF SubInv
<1>3. index' \in [SubStatuses -> SUBSET Subs] BY <1>1, <1>2
<1>4. /\ index'["active"] = index["active"] \ {s \in S : subs[s].status = "active"}
      /\ index'["failed"] = index["failed"] \ {s \in S : subs[s].status = "failed"}
  BY <1>1 DEF SubStatuses
<1>5. index'["active"] = index["active"] \ S BY <1>4 DEF SubInv, IndexMatches
<1> QED BY <1>1, <1>3, <1>4, <1>5, Deletion

(* A failure that reaches the limit moves the subscription from the active *)
(* to the failed ones in one step.                                         *)
LEMMA RecordFailureInv ==
  ASSUME SubInv, NEW s \in Subs, RecordFailure(s)
  PROVE  SubInv'
<1> DEFINE n == subs[s].failures + 1
           fails == subs[s].status = "active" /\ n >= MaxFailures
           r == [subs[s] EXCEPT !.failures = n, !.status = IF fails THEN "failed" ELSE @]
<1>1. subs[s] \in SubRecords /\ subs \in [Subs -> SubRecords] /\ MaxFailures \in Nat
  BY SubscriptionAssumption DEF SubInv
<1>2. n \in Nat BY <1>1 DEF SubRecords
<1>3. r = [[subs[s] EXCEPT !.failures = n] EXCEPT !.status = IF fails THEN "failed" ELSE @]
  OBVIOUS
<1>4. r \in SubRecords /\ r.failures = n
      /\ r.status = IF fails THEN "failed" ELSE subs[s].status
  <2> HIDE DEF n
  <2> QED BY <1>1, <1>2, <1>3 DEF SubRecords
<1>5. index' = IF fails THEN [index EXCEPT !["active"] = @ \ {s}, !["failed"] = @ \cup {s}]
               ELSE index
  BY DEF RecordFailure
<1>6. subs' = IF Present(s) THEN [subs EXCEPT ![s] = r] ELSE subs
  BY <1>1 DEF RecordFailure
<1>7. Present(s) <=> subs[s].status \in {"active", "failed"}
  BY <1>1 DEF Present, SubStatuses, SubRecords
<1> HIDE DEF r
<1>8. subs' \in [Subs -> SubRecords] BY <1>1, <1>4, <1>6
<1>9. CASE fails
  <2>1. r.status = "failed" /\ subs' = [subs EXCEPT ![s] = r] BY <1>4, <1>6, <1>7, <1>9
  <2>2. /\ index' \in [SubStatuses -> SUBSET Subs]
        /\ index'["active"] = index["active"] \ {s}
        /\ index'["failed"] = index["failed"] \cup {s}
    <3>1. index \in [SubStatuses -> SUBSET Subs] BY DEF SubInv
    <3>2. index' = [[index EXCEPT !["active"] = @ \ {s}] EXCEPT !["failed"] = @ \cup {s}]
      BY <1>5, <1>9
    <3> QED BY <3>1, <3>2 DEF SubStatuses
  <2>3. IndexMatches'
    <3>1. \A q \in Subs : subs'[q].status = IF q = s THEN "failed" ELSE subs[q].status
      BY <1>1, <2>1
    <3>2. s \in index["active"] /\ index["active"] \subseteq Subs /\ index["failed"] \subseteq Subs
      BY <1>9 DEF SubInv, IndexMatches, SubStatuses
    <3>3. index'["active"] = {q \in Subs : subs'[q].status = "active"}
      BY <2>2, <3>1 DEF SubInv, IndexMatches
    <3>4. \A q \in Subs : subs'[q].status = "failed" => q \in index'["failed"]
      BY <2>2, <3>1 DEF SubInv, IndexMatches
    <3>5. \A q \in index'["failed"] : subs'[q].status \in {"failed", "gone"}
      BY <2>2, <3>1, <3>2 DEF SubInv, IndexMatches
    <3> QED BY <3>3, <3>4, <3>5 DEF IndexMatches
  <2>4. FailuresStop' BY <1>1, <2>1 DEF SubInv, FailuresStop
  <2> QED BY <1>8, <2>2, <2>3, <2>4 DEF SubInv
<1>10. CASE ~fails
  <2>1. index' = index BY <1>5, <1>10
  <2>2. \A q \in Subs : subs'[q].status = subs[q].status BY <1>1, <1>4, <1>6, <1>10
  <2>3. IndexMatches'
    <3>1. index["failed"] \subseteq Subs BY DEF SubInv, SubStatuses
    <3>2. index'["active"] = {q \in Subs : subs'[q].status = "active"}
      BY <2>1, <2>2 DEF SubInv, IndexMatches
    <3>3. \A q \in Subs : subs'[q].status = "failed" => q \in index'["failed"]
      BY <2>1, <2>2 DEF SubInv, IndexMatches
    <3>4. \A q \in index'["failed"] : subs'[q].status \in {"failed", "gone"}
      BY <2>1, <2>2, <3>1 DEF SubInv, IndexMatches
    <3> QED BY <3>2, <3>3, <3>4 DEF IndexMatches
  <2>4. FailuresStop'
    <3> SUFFICES ASSUME NEW q \in Subs, subs'[q].status = "active"
                 PROVE  subs'[q].failures < MaxFailures
      BY DEF FailuresStop
    <3>1. CASE q = s
      <4>1. Present(s) /\ subs'[s] = r BY <1>1, <1>6, <1>7, <2>2, <3>1
      <4>2. n < MaxFailures BY <1>1, <1>2, <1>10, <2>2, <3>1
      <4> QED BY <1>4, <3>1, <4>1, <4>2
    <3>2. CASE q # s BY <1>1, <1>6, <3>2 DEF SubInv, FailuresStop
    <3> QED BY <3>1, <3>2
  <2> QED BY <1>8, <2>1, <2>3, <2>4 DEF SubInv
<1> QED BY <1>9, <1>10

(* A success takes the failures back to none. *)
LEMMA RecordSuccessInv ==
  ASSUME SubInv, NEW s \in Subs, RecordSuccess(s)
  PROVE  SubInv'
<1>1. subs \in [Subs -> SubRecords] /\ MaxFailures \in Nat \ {0}
  BY SubscriptionAssumption DEF SubInv
<1>2. index' = index /\ subs' = IF Present(s) THEN [subs EXCEPT ![s].failures = 0] ELSE subs
  BY DEF RecordSuccess
<1> DEFINE r == [subs[s] EXCEPT !.failures = 0]
<1>3. r \in SubRecords /\ r.failures = 0 /\ r.status = subs[s].status BY <1>1 DEF SubRecords
<1>4. subs' = [subs EXCEPT ![s] = r] \/ subs' = subs BY <1>2
<1> HIDE DEF r
<1>5. subs' \in [Subs -> SubRecords] /\ \A q \in Subs : subs'[q].status = subs[q].status
  BY <1>1, <1>3, <1>4
<1>6. FailuresStop' BY <1>1, <1>3, <1>4 DEF SubInv, FailuresStop
<1>7. IndexMatches' BY <1>2, <1>5 DEF SubInv, IndexMatches
<1> QED BY <1>2, <1>5, <1>6, <1>7 DEF SubInv

(* A new subscription is active and has not failed. *)
LEMMA SubscribeInv ==
  ASSUME SubInv, NEW s \in Subs, NEW t \in Ids, Subscribe(s, t)
  PROVE  SubInv'
<1>1. /\ subs[s] = NoSub
      /\ subs' = [subs EXCEPT ![s] = NewSub(t)]
      /\ index' = [index EXCEPT !["active"] = @ \cup {s}]
  BY DEF Subscribe
<1>2. /\ NewSub(t) \in SubRecords /\ NewSub(t).status = "active" /\ NewSub(t).failures = 0
  <2> DEFINE r == [NoSub EXCEPT !.status = "active"]
  <2>1. r \in SubRecords /\ r.status = "active" /\ r.failures = 0 BY DEF NoSub, SubRecords
  <2>2. NewSub(t) = [r EXCEPT !.task = t] BY DEF NewSub
  <2> HIDE DEF r
  <2> QED BY <2>1, <2>2 DEF SubRecords
<1>3. MaxFailures \in Nat \ {0} /\ subs \in [Subs -> SubRecords]
      /\ index \in [SubStatuses -> SUBSET Subs]
  BY SubscriptionAssumption DEF SubInv
<1>4. /\ index' \in [SubStatuses -> SUBSET Subs]
      /\ index'["active"] = index["active"] \cup {s} /\ index'["failed"] = index["failed"]
  BY <1>1, <1>3 DEF SubStatuses
<1>5. s \notin index["failed"] BY <1>1 DEF SubInv, IndexMatches, NoSub
<1>6. IndexMatches' BY <1>1, <1>2, <1>3, <1>4, <1>5 DEF SubInv, IndexMatches, SubStatuses
<1>7. FailuresStop' BY <1>1, <1>2, <1>3 DEF SubInv, FailuresStop
<1>8. subs' \in [Subs -> SubRecords] BY <1>1, <1>2, <1>3
<1> QED BY <1>4, <1>6, <1>7, <1>8 DEF SubInv

(* An expiry time that passes changes neither status nor index. *)
LEMMA SubExpiresInv ==
  ASSUME SubInv, NEW s \in Subs, SubExpires(s)
  PROVE  SubInv'
<1> DEFINE r == [subs[s] EXCEPT !.expired = TRUE]
<1>1. subs \in [Subs -> SubRecords] BY DEF SubInv
<1>2. r \in SubRecords /\ r.status = subs[s].status /\ r.failures = subs[s].failures
  BY <1>1 DEF SubRecords
<1>3. subs' = [subs EXCEPT ![s] = r] /\ index' = index BY DEF SubExpires
<1> HIDE DEF r
<1>4. /\ subs' \in [Subs -> SubRecords]
      /\ \A q \in Subs : subs'[q].status = subs[q].status /\ subs'[q].failures = subs[q].failures
  BY <1>1, <1>2, <1>3
<1> QED BY <1>3, <1>4 DEF SubInv, IndexMatches, FailuresStop

(* The two cleanups keep the index exact for active subscriptions. *)
LEMMA CleanupInv ==
  ASSUME SubInv, CleanupExpired \/ CleanupFailed
  PROVE  SubInv'
<1>1. CASE CleanupExpired
  <2> DEFINE old == {s \in Subs : Present(s) /\ subs[s].expired}
  <2>1. /\ subs' = [s \in Subs |-> IF s \in old THEN [NoSub EXCEPT !.status = "gone"] ELSE subs[s]]
        /\ index' = [index EXCEPT !["active"] = @ \ old]
    BY <1>1 DEF CleanupExpired
  <2> HIDE DEF old
  <2>2. index \in [SubStatuses -> SUBSET Subs] BY DEF SubInv
  <2>3. /\ index' \in [SubStatuses -> SUBSET Subs]
        /\ index'["active"] = index["active"] \ old /\ index'["failed"] = index["failed"]
    BY <2>1, <2>2 DEF SubStatuses
  <2>4. old \in SUBSET Subs BY DEF old
  <2> QED BY <2>1, <2>3, <2>4, Deletion
<1>2. CASE CleanupFailed
  <2> DEFINE bad == {s \in index["failed"] : Present(s)}
  <2>1. DeleteSubs(bad, index) BY <1>2 DEF CleanupFailed
  <2>2. bad \in SUBSET Subs BY DEF SubInv, SubStatuses
  <2> QED BY <2>1, <2>2, DeleteSubsInv
<1> QED BY <1>1, <1>2

(* Deliveries in progress and deliveries known are posts of a subscription. *)
LEMMA PostsTyped == IInv => posting \subseteq Posts /\ DOMAIN fate \subseteq Posts
BY DEF IInv, PostInv, NoteInv

(* Every step keeps subscriptions and index in agreement. *)
LEMMA NextSubInv ==
  ASSUME IInv, SubInv, [Next]_vars
  PROVE  SubInv'
<1>0. posting \subseteq Posts BY PostsTyped
<1>1. CASE UNCHANGED subscriptions
  BY <1>1 DEF subscriptions, SubInv, IndexMatches, FailuresStop
<1>2. CASE UNCHANGED vars BY <1>1, <1>2 DEF vars
<1>3. ASSUME NEW t \in Ids, TaskStep(t) PROVE SubInv'
  <2>1. CASE DeletePush(t) \/ Unsubscribe(t)
    <3>1. DeleteSubs(OfTask(t), index) BY <2>1 DEF DeletePush, Unsubscribe
    <3> QED BY <3>1, DeleteSubsInv DEF OfTask
  <2>2. CASE ~(DeletePush(t) \/ Unsubscribe(t))
    BY <1>1, <1>3, <2>2 DEF TaskStep, StreamRequest, SubmitTask, AbortRequest, Timer,
         CompleteRequest, FailRequest, LoseRequest, CancelTask, ProvideInput, ExpireTask, AgentMoves
  <2> QED BY <2>1, <2>2
<1>4. ASSUME NEW s \in Subs, SubStep(s) PROVE SubInv'
  BY <1>4, SubscribeInv, SubExpiresInv DEF SubStep
<1>5. CASE CleanupExpired \/ CleanupFailed BY <1>5, CleanupInv
<1>6. CASE PostAnswered
  <2>1. PICK p \in posting : PostSucceeds(p) \/ PostFails(p) \/ PostRefused(p)
    BY <1>6 DEF PostAnswered
  <2>2. p.sub \in Subs BY <1>0 DEF Posts
  <2>3. RecordSuccess(p.sub) \/ RecordFailure(p.sub)
    BY <2>1 DEF PostSucceeds, PostFails, PostRefused
  <2> QED BY <2>2, <2>3, RecordSuccessInv, RecordFailureInv
<1>7. CASE RetryAnswered \/ ProcessRetries \/ SomeRetryDue
  BY <1>1, <1>7 DEF RetryAnswered, RetrySucceeds, RetryFails, RetryGivesUp, ProcessRetries,
       SomeRetryDue, RetryDue
<1> QED BY <1>2, <1>3, <1>4, <1>5, <1>6, <1>7 DEF Next

(* So they always agree. *)
LEMMA SubInvariant == Spec => []SubInv
<1>1. ASSUME Init PROVE SubInv
  <2>1. NoSub \in SubRecords /\ NoSub.status = "none" BY DEF NoSub, SubRecords
  <2>2. subs = [s \in Subs |-> NoSub] /\ index = [st \in SubStatuses |-> {}]
    BY <1>1 DEF Init
  <2> QED BY <2>1, <2>2 DEF SubInv, IndexMatches, FailuresStop, SubStatuses
<1> QED BY <1>1, NextSubInv, Invariance, PTL DEF Spec

(* The index by status never hides a subscription that the cleanup of       *)
(* failed ones should delete, and never gives it one that still works.      *)
THEOREM IndexExact == Spec => []IndexMatches
BY SubInvariant, PTL DEF SubInv

(* A subscription that keeps failing is stopped: no active one has reached  *)
(* the limit of consecutive failures.                                       *)
THEOREM StopsFailing == Spec => []FailuresStop
BY SubInvariant, PTL DEF SubInv

---------------------------------------------------------------------------
(* The store, the subscriptions, the notifications and the queue stay in    *)
(* their types.                                                             *)
THEOREM Typing == Spec => []TypeOK
<1>1. ASSUME IInv, OrderInv, SubInv PROVE TypeOK
  <2>1. \A s \in Subs : subs[s].status \in SubStatuses \cup {"none", "gone"}
                         /\ subs[s].failures \in Nat
    BY <1>1 DEF SubInv, SubRecords, SubStatuses
  <2> QED BY <1>1, <2>1, PostsTyped
          DEF TypeOK, IInv, TaskInv, PostInv, NoteInv, OrderInv, SubInv, Jobs
<1> QED BY <1>1, Invariance, OrderInvariant, SubInvariant, PTL
=============================================================================
