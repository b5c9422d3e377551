------------------------- MODULE QueenServiceProofs -------------------------
(* The Queen from outside.  The safety part of the refinement: every step   *)
(* of the Queen is a step of TaskService, or none.  The slot invariant does *)
(* the work: it tells that a task that is started held no slot before, and  *)
(* that a task in the queue is in nobody's hands.  Then what holds through  *)
(* shutdowns and restarts, and what does not come back.                     *)
EXTENDS QueenSlotsProofs, QueenService, QueenRestart

(* StageOf, as a function of the variables it reads. *)
Holds(t, st, fr) == \/ st[t] = "running"
                    \/ \E c \in Coroutines : Reserves(fr[c]) /\ fr[c].task = t

StageIn(t, st, fr) ==
  IF st[t] \in Finished THEN "finished"
  ELSE IF Holds(t, st, fr) THEN "holding"
  ELSE IF st[t] = "queued" THEN "waiting"
  ELSE "new"

View == [t \in Tasks |-> StageOf(t)]

(* What a step shows of itself to the clients. *)
Shown == Service!Next \/ View' = View

(* View is StageIn of the present state, and then of the next. *)
LEMMA StageIs ==
  ASSUME NEW t \in Tasks
  PROVE  View[t] = StageIn(t, status, frame) /\ View'[t] = StageIn(t, status', frame')
<1>1. StageOf(t) = StageIn(t, status, frame)
  BY DEF StageOf, StageIn, Holds, Running, Reserving, Reserves
<1>2. StageOf(t)' = StageIn(t, status', frame')
  BY DEF StageOf, StageIn, Holds, Running, Reserving, Reserves
<1> QED  BY <1>1, <1>2 DEF View

(* A step that moves no stage is no step of the service. *)
LEMMA NothingShown ==
  ASSUME \A t \in Tasks : StageIn(t, status', frame') = StageIn(t, status, frame)
  PROVE  Shown
<1>1. \A t \in Tasks : StageOf(t) = StageIn(t, status, frame)
  BY StageIs DEF View
<1>2. \A t \in Tasks : StageOf(t)' = StageIn(t, status', frame')
  BY StageIs DEF View
<1>3. View' = View
  BY <1>1, <1>2 DEF View
<1> QED  BY <1>3 DEF Shown

(* One that moves the stage of one task does what Moves says. *)
LEMMA OneShown ==
  ASSUME NEW t \in Tasks, NEW a, NEW b,
         StageIn(t, status, frame) = a, StageIn(t, status', frame') = b,
         \A u \in Tasks : u # t => StageIn(u, status', frame') = StageIn(u, status, frame)
  PROVE  Service!Moves(t, a, b)
<1>1. \A u \in Tasks : StageOf(u) = StageIn(u, status, frame)
  BY StageIs DEF View
<1>2. \A u \in Tasks : StageOf(u)' = StageIn(u, status', frame')
  BY StageIs DEF View
<1>3. View[t] = a /\ View' = [View EXCEPT ![t] = b]
  BY <1>1, <1>2 DEF View
<1> QED  BY <1>3 DEF Service!Moves, View

(* The stages of the tasks that a coroutine's move does not concern. *)
LEMMA OthersShown ==
  ASSUME NEW c \in Coroutines, NEW u \in Tasks,
         \A e \in Coroutines : e # c => frame'[e] = frame[e],
         status'[u] = status[u],
         Reserves(frame[c]) => frame[c].task # u,
         Reserves(frame'[c]) => frame'[c].task # u
  PROVE  StageIn(u, status', frame') = StageIn(u, status, frame)
<1>1. \A e \in Coroutines : Reserves(frame'[e]) /\ frame'[e].task = u <=>
                            Reserves(frame[e]) /\ frame[e].task = u
  OBVIOUS
<1> QED  BY <1>1 DEF StageIn, Holds

(* A coroutine that goes on with its task, or without one, shows nothing. *)
LEMMA GoesOn ==
  ASSUME NEW c \in Coroutines, status' = status,
         \A e \in Coroutines : e # c => frame'[e] = frame[e],
         Reserves(frame'[c]) <=> Reserves(frame[c]),
         Reserves(frame[c]) => frame'[c].task = frame[c].task
  PROVE  Shown
<1>1. ASSUME NEW u \in Tasks
      PROVE  StageIn(u, status', frame') = StageIn(u, status, frame)
  <2>1. \A e \in Coroutines : Reserves(frame'[e]) /\ frame'[e].task = u <=>
                              Reserves(frame[e]) /\ frame[e].task = u
    OBVIOUS
  <2> QED  BY <2>1 DEF StageIn, Holds
<1> QED  BY <1>1, NothingShown

---------------------------------------------------------------------------
(* The service counts as the Queen does. *)
LEMMA SameCardinality == \A S : Service!Cardinality(S) = Cardinality(S)
BY DEF Service!Cardinality, Cardinality

(* The tasks that hold a slot for the clients are no more than the counter  *)
(* says.                                                                    *)
LEMMA SlotShown ==
  ASSUME SlotInv, counter < MaxConcurrent
  PROVE  Service!SlotFree
<1> DEFINE R == RunningIn(status)
           S == ReservingIn(frame)
           T == {frame[c].task : c \in S}
           H == {t \in Tasks : StageIn(t, status, frame) = "holding"}
           f == [c \in S |-> frame[c].task]
<1>1. IsFiniteSet(R) /\ IsFiniteSet(S)
  BY TaskAssumption, IdAssumption, FS_Subset DEF RunningIn, ReservingIn
<1>2. f \in Surjection(S, T)
  BY DEF Surjection
<1>3. IsFiniteSet(T) /\ Cardinality(T) <= Cardinality(S)
  BY <1>1, <1>2, FS_Surjection
<1>4. H \subseteq R \cup T
  BY DEF StageIn, Holds, RunningIn, ReservingIn
<1>5. counter = Cardinality(R) + Cardinality(S)
  BY DEF SlotInv, Slots
<1>6. H = {t \in Tasks : View[t] = "holding"}
  BY StageIs
<1> HIDE DEF R, S, T, H, f
<1>7. /\ IsFiniteSet(R \cup T)
      /\ Cardinality(R \cup T) = Cardinality(R) + Cardinality(T) - Cardinality(R \cap T)
  BY <1>1, <1>3, FS_Union
<1>8. /\ Cardinality(R) \in Nat /\ Cardinality(S) \in Nat /\ Cardinality(T) \in Nat
      /\ IsFiniteSet(R \cap T) /\ Cardinality(R \cap T) \in Nat
  <2>1. IsFiniteSet(R \cap T)
    BY <1>1, FS_Subset
  <2> QED  BY <1>1, <1>3, <2>1, FS_CardinalityType
<1>9. Cardinality(H) <= Cardinality(R \cup T) /\ IsFiniteSet(H)
  BY <1>4, <1>7, FS_Subset
<1>10. Cardinality(H) \in Nat
  BY <1>9, FS_CardinalityType
<1>11. Cardinality(R \cup T) \in Nat
  BY <1>7, FS_CardinalityType
<1>12. Cardinality(H) < MaxConcurrent
  BY <1>3, <1>5, <1>7, <1>8, <1>9, <1>10, <1>11, CapacityAssumption
<1>13. H = {t \in Tasks : [u \in Tasks |-> StageOf(u)][t] = "holding"}
  BY <1>6 DEF View
<1> QED  BY <1>12, <1>13, SameCardinality DEF Service!SlotFree

---------------------------------------------------------------------------
(* Only tasks in the hands of a coroutine or in the queue have that status, *)
(* and only those in hand have reserved a slot.                             *)
LEMMA StagesInHand ==
  ASSUME SlotInv, ~EventsOnAssign, NEW t \in Tasks
  PROVE  /\ StageIn(t, status, frame) = "waiting" => Entries(queues, t) = 1
         /\ Entries(queues, t) = 1 => StageIn(t, status, frame) = "waiting"
         /\ \A c \in Coroutines : frame[c].task = t /\ frame[c].stage = "governance" =>
              StageIn(t, status, frame) = "new"
         /\ \A c \in Coroutines : frame[c].task = t /\ frame[c].stage = "spawn" =>
              StageIn(t, status, frame) = "holding"
<1>1. Placed(t, created, status, queues, frame, runs, jobs)
  BY InvFacts
<1>2. \A c \in Coroutines : Shaped(frame[c])
  BY InvFacts
<1>3. \A c \in Coroutines : frame[c].task = t =>
        (Reserves(frame[c]) <=> Carries(frame[c], t))
  BY <1>2 DEF Reserves, Carries, Shaped
<1>4. \A c \in Coroutines : Carries(frame[c], t) => Assigns(frame[c], t)
  BY DEF Carries, Assigns
<1>5. StageIn(t, status, frame) = "waiting" => Entries(queues, t) = 1
  <2> SUFFICES ASSUME StageIn(t, status, frame) = "waiting"
               PROVE  Entries(queues, t) = 1
    OBVIOUS
  <2>1. status[t] = "queued" /\ ~ \E c \in Coroutines : Reserves(frame[c]) /\ frame[c].task = t
    BY DEF StageIn, Holds
  <2>2. \A c \in Coroutines : ~Carries(frame[c], t)
    BY <1>3, <2>1 DEF Carries
  <2> QED  BY <1>1, <2>1, <2>2 DEF Placed
<1>6. Entries(queues, t) = 1 => StageIn(t, status, frame) = "waiting"
  <2> SUFFICES ASSUME Entries(queues, t) = 1
               PROVE  StageIn(t, status, frame) = "waiting"
    OBVIOUS
  <2>1. status[t] = "queued" /\ \A c \in Coroutines : ~Assigns(frame[c], t)
    BY <1>1 DEF Placed
  <2>2. \A c \in Coroutines : ~(Reserves(frame[c]) /\ frame[c].task = t)
    BY <1>3, <1>4, <2>1
  <2> QED  BY <2>1, <2>2 DEF StageIn, Holds, Finished
<1>7. ASSUME NEW c \in Coroutines, frame[c].task = t, frame[c].stage = "governance"
      PROVE  StageIn(t, status, frame) = "new"
  <2>1. status[t] = "none" /\ Assigns(frame[c], t) /\ ~Reserves(frame[c])
    BY <1>1, <1>7 DEF Placed, Assigns, Reserves
  <2>2. \A e \in Coroutines : Assigns(frame[e], t) => e = c
    BY <1>1, <2>1 DEF Placed
  <2>3. \A e \in Coroutines : ~(Reserves(frame[e]) /\ frame[e].task = t)
    BY <1>3, <1>4, <2>1, <2>2
  <2> QED  BY <2>1, <2>3 DEF StageIn, Holds, Finished
<1>8. ASSUME NEW c \in Coroutines, frame[c].task = t, frame[c].stage = "spawn"
      PROVE  StageIn(t, status, frame) = "holding"
  <2>1. Reserves(frame[c]) /\ status[t] \in {"none", "queued"}
    BY <1>2, <1>8, StatusInHand DEF Shaped, Reserves
  <2> QED  BY <1>8, <2>1 DEF StageIn, Holds, Finished
<1> QED  BY <1>5, <1>6, <1>7, <1>8

(* The head of a priority's queue is the oldest of its waiting tasks. *)
LEMMA HeadOldest ==
  ASSUME SlotInv, ~EventsOnAssign, NEW p \in Priorities, queues.prio[p] # <<>>,
         PriorityOf[Head(queues.prio[p])] = p
  PROVE  Service!Oldest(Head(queues.prio[p]))
<1> DEFINE q == queues.prio[p]
           t == Head(q)
<1>1. q \in Seq(Tasks) /\ q # <<>> /\ InOrder(q)
  BY InvFacts DEF OrderedQueues, Queues
<1>2. Len(q) \in Nat /\ Len(q) # 0 /\ DOMAIN q = 1 .. Len(q) /\ t = q[1]
      /\ \A i \in 1 .. Len(q) : q[i] \in Tasks
  BY <1>1
<1>3. ASSUME NEW u \in Tasks, StageIn(u, status, frame) = "waiting", PriorityOf[u] = p
      PROVE  t <= u
  <2>1. Copies(q, u) = 1
    BY <1>3, StagesInHand DEF Entries
  <2> HIDE DEF q, t
  <2>2. PICK i \in DOMAIN q : q[i] = u
    BY <1>1, <2>1, PlacesFinite
  <2>3. i \in 1 .. Len(q) /\ 1 \in 1 .. Len(q)
    BY <1>2, <2>2
  <2>4. CASE i = 1
    BY <1>2, <1>3, <2>2, <2>4, TaskAssumption
  <2>5. CASE i # 1
    <3>1. 1 < i
      BY <1>2, <2>3, <2>5
    <3> QED  BY <1>1, <1>2, <2>2, <2>3, <3>1 DEF InOrder
  <2> QED  BY <2>4, <2>5
<1> HIDE DEF q, t
<1>4. PriorityOf[t] = p
  BY DEF t, q
<1>5. \A u \in Tasks : StageOf(u) = StageIn(u, status, frame)
  BY StageIs DEF View
<1>6. Service!Oldest(t)
  BY <1>3, <1>4, <1>5 DEF Service!Oldest
<1> QED  BY <1>6 DEF t, q

(* A scan that takes a task serves the oldest of its priority. *)
LEMMA ScanShown ==
  ASSUME SlotInv, ~EventsOnAssign, NEW c \in Coroutines, \A t \in Tasks : Away(frame[c], t),
         NEW from \in 0 .. 4, ProcessQueue(c, from, counter, queues, status, assigned),
         status' = status
  PROVE  Shown
<1>0. ~Reserves(frame[c])
  <2>1. frame[c] \in Framed
    BY InvFacts
  <2> QED  BY <2>1 DEF Away, Reserves, Framed
<1>1. CASE Full(counter) \/ \A p \in Priorities : p >= from => queues.prio[p] = <<>>
  <2>1. frame' = [frame EXCEPT ![c] = Idle]
    BY <1>1 DEF ProcessQueue
  <2>2. /\ \A e \in Coroutines : e # c => frame'[e] = frame[e]
        /\ frame'[c] = Idle
    BY <2>1, InvFacts
  <2>3. ~Reserves(Idle)
    BY DEF Reserves, Idle, Frame
  <2> QED  BY <1>0, <2>2, <2>3, GoesOn
<1>2. CASE ~(Full(counter) \/ \A p \in Priorities : p >= from => queues.prio[p] = <<>>)
  <2>1. PICK p \in Priorities :
          /\ queues.prio[p] # <<>>
          /\ queues' = Shift(queues, p)
          /\ \E d \in Placement(Head(queues.prio[p]), Shift(queues, p), status, assigned) :
               frame' = [frame EXCEPT ![c] =
                 IF d = NoDomain THEN Scan(p + 1)
                 ELSE Frame("scan", "route", Head(queues.prio[p]), d, p + 1)]
    BY <1>2 DEF ProcessQueue
  <2> DEFINE t == Head(queues.prio[p])
  <2>2. t \in Tasks
    BY <2>1, ShiftType, InvFacts
  <2>3. Shifted(queues, queues', p, t)
    BY <2>1, ShiftShifts, InvFacts
  <2>4. p = PriorityOf[t] /\ Entries(queues, t) = 1
    BY <2>2, <2>3, TidyShifted, InvFacts
  <2>5. Service!Oldest(t)
    BY <2>1, <2>4, HeadOldest
  <2>6. Orderly /\ unhealthy = {}
    BY DEF SlotInv
  <2>7. PICK d \in Domains : frame' = [frame EXCEPT ![c] = Frame("scan", "route", t, d, p + 1)]
    BY <2>1, <2>2, <2>6, PlacedAtDomain, DomainAssumption DEF NoDomain
  <2> HIDE DEF t
  <2>8. /\ \A e \in Coroutines : e # c => frame'[e] = frame[e]
        /\ frame'[c] = Frame("scan", "route", t, d, p + 1)
    BY <2>7, InvFacts
  <2>9. Reserves(frame'[c]) /\ frame'[c].task = t
    BY <2>8 DEF Frame, Reserves
  <2>10. StageIn(t, status, frame) = "waiting"
    BY <2>2, <2>4, StagesInHand
  <2>11. status[t] \notin Finished
    BY <2>10 DEF StageIn
  <2>12. StageIn(t, status', frame') = "holding"
    BY <2>9, <2>11 DEF StageIn, Holds
  <2>13. \A u \in Tasks : u # t => StageIn(u, status', frame') = StageIn(u, status, frame)
    BY <1>0, <2>8, <2>9, OthersShown
  <2>14. Service!Moves(t, "waiting", "holding")
    BY <2>2, <2>10, <2>12, <2>13, OneShown
  <2>15. Service!SlotFree
    <3>1. counter < MaxConcurrent
      BY <1>2, CapacityAssumption, InvFacts DEF Full, TypeOK
    <3> QED  BY <3>1, SlotShown
  <2>16. Service!Serve(t)
    BY <2>5, <2>14, <2>15 DEF Service!Serve
  <2> QED  BY <2>2, <2>16 DEF Shown, Service!Next
<1> QED  BY <1>1, <1>2

(* A submission waits, or gets a slot if one is free. *)
LEMMA SubmissionShown ==
  ASSUME SlotInv, ~EventsOnAssign, NEW c \in Coroutines, QueueTask(c) \/ AssignDirectly(c)
  PROVE  Shown
<1> DEFINE t == frame[c].task
<1>1. frame[c].stage = "governance" /\ ~Reserves(frame[c])
  BY DEF QueueTask, AssignDirectly, At, Reserves
<1>2. t \in Tasks /\ StageIn(t, status, frame) = "new"
  BY <1>1, HandsTask, StagesInHand
<1>3. CASE QueueTask(c)
  <2>1. status' = [status EXCEPT ![t] = "queued"] /\ frame' = [frame EXCEPT ![c] = Idle]
    BY <1>3 DEF QueueTask
  <2>2. /\ \A e \in Coroutines : e # c => frame'[e] = frame[e]
        /\ frame'[c] = Idle /\ ~Reserves(frame'[c])
    BY <2>1, InvFacts DEF Idle, Frame, Reserves
  <2>3. status'[t] = "queued" /\ \A u \in Tasks : u # t => status'[u] = status[u]
    BY <1>2, <2>1, InvFacts DEF TypeOK
  <2> HIDE DEF t
  <2>4. \A u \in Tasks : u # t => StageIn(u, status', frame') = StageIn(u, status, frame)
    BY <1>1, <2>2, <2>3, OthersShown
  <2>5. StageIn(t, status', frame') = "waiting"
    <3>1. ~ \E e \in Coroutines : Reserves(frame[e]) /\ frame[e].task = t
      <4>1. status[t] \notin Finished
        BY <1>2 DEF StageIn
      <4> QED  BY <1>2, <4>1 DEF StageIn, Holds
    <3>2. ~ \E e \in Coroutines : Reserves(frame'[e]) /\ frame'[e].task = t
      BY <2>2, <3>1
    <3> QED  BY <2>3, <3>2 DEF StageIn, Holds, Finished
  <2>6. Service!Wait(t)
    BY <1>2, <2>4, <2>5, OneShown DEF Service!Wait
  <2> QED  BY <1>2, <2>6 DEF Shown, Service!Next
<1>4. CASE AssignDirectly(c)
  <2>1. status' = status /\ counter + 1 <= MaxConcurrent
    BY <1>4 DEF AssignDirectly, record
  <2>2. PICK d \in Domains : frame' = [frame EXCEPT ![c] = Frame("submit", "route", t, d, 0)]
    <3>1. Orderly /\ unhealthy = {}
      BY DEF SlotInv
    <3>2. \A d \in Placement(t, queues, status, assigned) : d \in Domains /\ d # NoDomain
      BY <1>2, <3>1, PlacedAtDomain, DomainAssumption DEF NoDomain
    <3> QED  BY <1>4, <3>2 DEF AssignDirectly
  <2> HIDE DEF t
  <2>3. /\ \A e \in Coroutines : e # c => frame'[e] = frame[e]
        /\ Reserves(frame'[c]) /\ frame'[c].task = t
    BY <2>2, InvFacts DEF Frame, Reserves
  <2>4. \A u \in Tasks : u # t => StageIn(u, status', frame') = StageIn(u, status, frame)
    BY <1>1, <2>1, <2>3, OthersShown
  <2>5. status[t] \notin Finished
    BY <1>2 DEF StageIn
  <2>6. StageIn(t, status', frame') = "holding"
    BY <2>1, <2>3, <2>5 DEF StageIn, Holds
  <2>7. Service!SlotFree
    <3>1. counter < MaxConcurrent
      BY <2>1, CapacityAssumption, InvFacts DEF TypeOK
    <3> QED  BY <3>1, SlotShown
  <2>8. Service!Start(t)
    BY <1>2, <2>4, <2>6, <2>7, OneShown DEF Service!Start
  <2> QED  BY <1>2, <2>8 DEF Shown, Service!Next
<1> QED  BY <1>3, <1>4

(* The assignment of a task that holds its slot shows nothing. *)
LEMMA AssignmentShown ==
  ASSUME SlotInv, ~EventsOnAssign, NEW c \in Coroutines,
         SpawnAgent(c) \/ StartTask(c) \/ PluginAccepts(c)
  PROVE  Shown
<1> DEFINE t == frame[c].task
<1>0. Shaped(frame[c]) /\ frame \in [Coroutines -> Framed]
  BY InvFacts
<1>1. CASE SpawnAgent(c)
  <2>1. status' = status /\ frame[c].stage = "route"
    BY <1>1 DEF SpawnAgent, At, record
  <2>2. t \in Tasks /\ frame[c] \in Frames
    BY <2>1, HandsTask
  <2>3. /\ \A e \in Coroutines : e # c => frame'[e] = frame[e]
        /\ frame'[c].kind = frame[c].kind /\ frame'[c].task = t /\ frame'[c].stage = "spawn"
    <3>1. CASE CanSpawn
      <4>1. PICK a \in AgentIds :
              frame' = [frame EXCEPT ![c] = [frame[c] EXCEPT !.stage = "spawn", !.agent = a]]
        BY <1>1, <3>1 DEF SpawnAgent
      <4> QED  BY <1>0, <2>2, <4>1 DEF Frames
    <3>2. CASE ~CanSpawn
      <4>1. frame' = [frame EXCEPT ![c] = [frame[c] EXCEPT !.stage = "spawn"]]
        BY <1>1, <3>2 DEF SpawnAgent
      <4> QED  BY <1>0, <2>2, <4>1 DEF Frames
    <3> QED  BY <3>1, <3>2
  <2>4. Reserves(frame[c]) /\ Reserves(frame'[c])
    BY <1>0, <2>1, <2>3 DEF Shaped, Reserves
  <2> QED  BY <2>1, <2>3, <2>4, GoesOn
<1>2. CASE StartTask(c)
  <2>1. /\ frame[c].stage = "spawn" /\ status' = [status EXCEPT ![t] = "running"]
        /\ frame' = [frame EXCEPT ![c] = [frame[c] EXCEPT !.stage = "announce"]]
    BY <1>2 DEF StartTask, At
  <2>2. t \in Tasks /\ frame[c] \in Frames /\ StageIn(t, status, frame) = "holding"
    BY <2>1, HandsTask, StagesInHand
  <2>3. /\ \A e \in Coroutines : e # c => frame'[e] = frame[e]
        /\ ~Reserves(frame'[c])
    BY <1>0, <2>1, <2>2 DEF Frames, Reserves
  <2>4. status'[t] = "running" /\ \A u \in Tasks : u # t => status'[u] = status[u]
    BY <2>1, <2>2, InvFacts DEF TypeOK
  <2> HIDE DEF t
  <2>5. \A u \in Tasks : u # t => StageIn(u, status', frame') = StageIn(u, status, frame)
    BY <2>3, <2>4, OthersShown DEF t
  <2>6. StageIn(t, status', frame') = "holding"
    BY <2>4 DEF StageIn, Holds, Finished
  <2> QED  BY <2>2, <2>5, <2>6, NothingShown
<1>3. CASE PluginAccepts(c)
  <2>1. /\ frame[c].stage = "announce" /\ status' = status
        /\ frame' = [frame EXCEPT ![c] = [frame[c] EXCEPT !.stage = "execute"]]
    BY <1>3 DEF PluginAccepts, At, record
  <2>2. frame[c] \in Frames
    BY <2>1, HandsTask
  <2>3. /\ \A e \in Coroutines : e # c => frame'[e] = frame[e]
        /\ ~Reserves(frame'[c]) /\ ~Reserves(frame[c])
    BY <1>0, <2>1, <2>2 DEF Frames, Reserves
  <2> QED  BY <2>1, <2>3, GoesOn
<1> QED  BY <1>1, <1>2, <1>3

(* A callback finishes a task that held a slot. *)
LEMMA CompletionShown ==
  ASSUME SlotInv, ~EventsOnAssign, NEW t \in Tasks, NEW c \in Coroutines, PluginCompletes(t, c)
  PROVE  Shown
<1>1. status[t] = "running"
  BY StatusInHand DEF PluginCompletes
<1>2. PICK result \in {"completed", "failed"} :
        /\ status' = [status EXCEPT ![t] = result]
        /\ frame' = [frame EXCEPT ![c] = Scan(0)] /\ frame[c] = Idle
  BY <1>1 DEF PluginCompletes, ScanLater, Fresh
<1>3. /\ \A e \in Coroutines : e # c => frame'[e] = frame[e]
      /\ ~Reserves(frame[c]) /\ ~Reserves(frame'[c])
  BY <1>2, InvFacts DEF Idle, Scan, Frame, Reserves
<1>4. status'[t] \in Finished /\ \A u \in Tasks : u # t => status'[u] = status[u]
  BY <1>2, InvFacts DEF TypeOK, Finished
<1>5. \A u \in Tasks : u # t => StageIn(u, status', frame') = StageIn(u, status, frame)
  BY <1>3, <1>4, OthersShown
<1>6. StageIn(t, status, frame) = "holding" /\ StageIn(t, status', frame') = "finished"
  BY <1>1, <1>4 DEF StageIn, Holds, Finished
<1>7. Service!Finish(t)
  BY <1>5, <1>6, OneShown DEF Service!Finish
<1> QED  BY <1>7 DEF Shown, Service!Next

(* What remains: a submission that begins or is rejected, and scans. *)
LEMMA RestShown ==
  ASSUME SlotInv, ~EventsOnAssign, NEW c \in Coroutines,
         \/ GovernanceRejects(c) \/ \E t \in Tasks : SubmitTask(t, c)
         \/ ExecuteReturns(c) \/ ScanResumes(c) \/ DomainEvent(c)
  PROVE  Shown
<1>1. frame \in [Coroutines -> Framed] /\ Shaped(frame[c])
  BY InvFacts
<1>2. frame[c].from \in 0 .. 4 /\ 0 \in 0 .. 4
  BY <1>1 DEF Framed, Frames
<1>3. CASE GovernanceRejects(c)
  <2>1. status' = status /\ frame' = [frame EXCEPT ![c] = Idle] /\ frame[c].stage = "governance"
    BY <1>3 DEF GovernanceRejects, record, At
  <2>2. /\ \A e \in Coroutines : e # c => frame'[e] = frame[e]
        /\ ~Reserves(frame[c]) /\ ~Reserves(frame'[c])
    BY <1>1, <2>1 DEF Idle, Frame, Reserves
  <2> QED  BY <2>1, <2>2, GoesOn
<1>4. CASE \E t \in Tasks : SubmitTask(t, c)
  <2>1. PICK t \in Tasks :
          /\ status' = status /\ frame[c] = Idle
          /\ frame' = [frame EXCEPT ![c] = Frame("submit", "governance", t, NoDomain, 0)]
    BY <1>4 DEF SubmitTask, record, Fresh
  <2>2. /\ \A e \in Coroutines : e # c => frame'[e] = frame[e]
        /\ ~Reserves(frame[c]) /\ ~Reserves(frame'[c])
    BY <1>1, <2>1 DEF Idle, Frame, Reserves
  <2> QED  BY <2>1, <2>2, GoesOn
<1>5. CASE ExecuteReturns(c)
  <2>1. /\ Return(c, TRUE, counter, status, assigned) /\ status' = status
        /\ frame[c].stage = "execute"
    BY <1>5 DEF ExecuteReturns, record, At
  <2>2. CASE frame[c].kind = "submit"
    <3>1. frame' = [frame EXCEPT ![c] = Idle]
      BY <2>1, <2>2 DEF Return
    <3>2. /\ \A e \in Coroutines : e # c => frame'[e] = frame[e]
          /\ ~Reserves(frame[c]) /\ ~Reserves(frame'[c])
      BY <1>1, <2>1, <3>1 DEF Idle, Frame, Reserves
    <3> QED  BY <2>1, <3>2, GoesOn
  <2>3. CASE frame[c].kind = "scan"
    <3>1. ProcessQueue(c, frame[c].from, counter, queues, status, assigned)
      BY <2>1, <2>3 DEF Return
    <3>2. \A t \in Tasks : Away(frame[c], t)
      BY <2>1 DEF Away
    <3> QED  BY <1>2, <2>1, <3>1, <3>2, ScanShown
  <2> QED  BY <1>1, <2>1, <2>2, <2>3 DEF Shaped
<1>6. CASE ScanResumes(c)
  <2>1. /\ ProcessQueue(c, frame[c].from, counter, queues, status, assigned)
        /\ status' = status /\ frame[c].stage = "resume"
    BY <1>6 DEF ScanResumes, record, At
  <2>2. \A t \in Tasks : Away(frame[c], t)
    BY <2>1 DEF Away
  <2> QED  BY <1>2, <2>1, <2>2, ScanShown
<1>7. CASE DomainEvent(c)
  <2>1. /\ ProcessQueue(c, 0, counter, queues, status, assigned)
        /\ status' = status /\ Fresh(c)
    BY <1>7 DEF DomainEvent, record
  <2>2. \A t \in Tasks : Away(frame[c], t)
    BY <2>1, FreeSlot
  <2> QED  BY <1>2, <2>1, <2>2, ScanShown
<1> QED  BY <1>3, <1>4, <1>5, <1>6, <1>7

---------------------------------------------------------------------------
(* At the start every task is new. *)
LEMMA InitShown == Init => Service!Init
<1> SUFFICES ASSUME Init PROVE Service!Init
  OBVIOUS
<1>1. ASSUME NEW t \in Tasks
      PROVE  StageOf(t) = "new"
  <2>1. status[t] = "none" /\ \A c \in Coroutines : frame[c] = Idle
    BY DEF Init
  <2>2. ~Reserves(Idle)
    BY DEF Reserves, Idle, Frame
  <2>3. StageIn(t, status, frame) = "new"
    BY <2>1, <2>2 DEF StageIn, Holds, Finished
  <2> QED  BY <2>3, StageIs DEF View
<1> QED  BY <1>1 DEF Service!Init

(* When the plugins report and records are kept, the Queen is a task        *)
(* service: whatever is interleaved at its awaits, a client sees a task     *)
(* wait, get one of maxConcurrentTasks slots, the oldest of its priority    *)
(* first, and finish once.                                                  *)
THEOREM Implements ==
  Orderly /\ ~EventsOnAssign /\ ~Retention /\ Spec => Service!Safety
<1>1. SlotInv /\ ~EventsOnAssign /\ ~Retention /\ [Next]_vars =>
        [Service!Next]_[t \in Tasks |-> StageOf(t)]
  <2> SUFFICES ASSUME SlotInv, ~EventsOnAssign, ~Retention, [Next]_vars
               PROVE  Shown
    BY DEF Shown, View
  <2>1. CASE UNCHANGED vars
    <3>1. status' = status /\ frame' = frame
      BY <2>1 DEF vars, record
    <3> QED  BY <3>1, NothingShown
  <2>2. CASE Next
    <3>1. \A t \in Tasks : ~CleanupTask(t)
      BY DEF CleanupTask
    <3> QED  BY <2>2, <3>1, PluginSteps, SubmissionShown, AssignmentShown, CompletionShown,
                RestShown
  <2> QED  BY <2>1, <2>2
<1>2. ASSUME ~EventsOnAssign, ~Retention
      PROVE  Orderly /\ Spec => Service!Safety
  <2>1. SlotInv /\ [Next]_vars => [Service!Next]_[t \in Tasks |-> StageOf(t)]
    BY <1>1, <1>2
  <2> QED  BY <2>1, InitShown, SlotsInvariant, PTL DEF Spec, Service!Safety
<1> QED  BY <1>2

---------------------------------------------------------------------------
(* The Queen's life beyond one process: the invariants of QueenCoordinator  *)
(* through orderly shutdowns, and through ends of the process in any phase. *)

(* Whatever is saved, nothing is saved where the next Queen looks for it. *)
RInv == IInv /\ Covered(queues) /\ store[LoadNamespace] = <<>>

(* The Queen at work does what QueenCoordinator does. *)
LEMMA WorkIsNext == Work => Next /\ UNCHANGED lifecycle
<1> SUFFICES ASSUME Work PROVE Next /\ UNCHANGED lifecycle
  OBVIOUS
<1>1. CASE Going
  BY <1>1 DEF Work, Going, Next
<1>2. CASE Timers
  BY <1>2 DEF Work, Timers, Next
<1>3. CASE Listening
  BY <1>3 DEF Work, Listening, Next
<1>4. CASE Submitting
  BY <1>4 DEF Work, Submitting, Next
<1> QED  BY <1>1, <1>2, <1>3, <1>4 DEF Work

(* A Queen that finds nothing starts with nothing. *)
LEMMA NothingLoaded ==
  ASSUME LoadState(<<>>)
  PROVE  /\ status' = [t \in Tasks |-> "none"]
         /\ assigned' = [t \in Tasks |-> NoDomain]
         /\ agents' = [t \in Tasks |-> NoAgent]
         /\ retry' = [t \in Tasks |-> 0]
         /\ queues' = EmptyQueues
<1>1. Queued(<<>>) = {} /\ Loaded(<<>>) = {}
  BY DEF Queued, Loaded
<1>2. \A t : Restored(<<>>, t) = [task |-> NoTask, domain |-> NoDomain, agent |-> NoAgent,
                                  retries |-> 0]
  BY <1>1 DEF Restored
<1>3. \A t \in Tasks : t # NoTask
  BY TaskAssumption DEF NoTask
<1>4. queues' = EmptyQueues
  BY <1>1 DEF LoadState, FoldLeft, MapThenFoldSet
<1> QED  BY <1>2, <1>3, <1>4 DEF LoadState

(* A restart puts the Queen back where it started, but for the tasks that   *)
(* were submitted before and how often they were started.                   *)
LEMMA RestartsEmpty ==
  ASSUME Restart, store[LoadNamespace] = <<>>
  PROVE  /\ status' = [t \in Tasks |-> "none"]
         /\ assigned' = [t \in Tasks |-> NoDomain]
         /\ agents' = [t \in Tasks |-> NoAgent]
         /\ retry' = [t \in Tasks |-> 0]
         /\ queues' = EmptyQueues
         /\ counter' = 0 /\ live' = {} /\ frame' = [c \in Coroutines |-> Idle]
         /\ thief' = NoRound
         /\ runs' = [t \in Tasks |-> 0] /\ jobs' = [t \in Tasks |-> 0]
         /\ tripped' = {} /\ unhealthy' = {}
         /\ created' = created /\ starts' = starts /\ store' = store
BY NothingLoaded DEF Restart

DisposeCloses == DisposeAnnounces \/ DisposeUnsubscribes \/ DisposeEnds

(* The steps of dispose but for the cancellations leave the tasks alone. *)
LEMMA DisposeLeaves ==
  ASSUME DisposeStarts \/ DisposeSaves \/ DisposeCloses
  PROVE  /\ UNCHANGED <<created, record, queues, counter, live, frame, thief, work, unhealthy>>
         /\ tripped' \in {tripped, {}}
         /\ store'[LoadNamespace] = store[LoadNamespace]
<1>1. CASE DisposeStarts \/ DisposeCloses
  BY <1>1 DEF DisposeStarts, DisposeCloses, DisposeAnnounces, DisposeUnsubscribes, DisposeEnds,
     vars, faults
<1>2. CASE DisposeSaves
  BY <1>2 DEF DisposeSaves, LoadNamespace, SaveNamespace, faults
<1> QED  BY <1>1, <1>2

(* Every step of the Queen's life keeps the invariant.  A cancellation by   *)
(* dispose is one by a client, and a restart finds nothing to load.         *)
LEMMA RestartKeepsInv == RInv /\ [RNext]_rvars => RInv'
<1> SUFFICES ASSUME RInv, [RNext]_rvars PROVE RInv'
  OBVIOUS
<1>0. IInv /\ Covered(queues) /\ store[LoadNamespace] = <<>>
  BY DEF RInv
<1>1. CASE Work
  <2>1. Next /\ store' = store
    BY <1>1, WorkIsNext DEF lifecycle
  <2> QED  BY <1>0, <2>1, NextKeepsInv, NextCovers DEF RInv
<1>2. CASE DisposeStarts \/ DisposeSaves \/ DisposeCloses
  <2>1. /\ UNCHANGED <<created, record, queues, counter, live, frame, thief, work, unhealthy>>
        /\ tripped' \in {tripped, {}}
        /\ store'[LoadNamespace] = store[LoadNamespace]
    BY <1>2, DisposeLeaves
  <2>2. IInv'
    BY <1>0, <2>1 DEF IInv, TypeOK, CounterWithinLimit, record, work, Framed
  <2> QED  BY <1>0, <2>1, <2>2 DEF RInv
<1>3. CASE DisposeCancels
  <2>1. PICK t \in Tasks : Cancel(t) /\ store' = store
    BY <1>3 DEF DisposeCancels
  <2>2. IInv'
    BY <1>0, <2>1, CancellationKeepsInv
  <2>3. queues \in Queues
    BY <1>0, QueuesType DEF IInv
  <2>4. Covered(queues')
    BY <1>0, <2>1, <2>3, RemoveCovers DEF Cancel
  <2> QED  BY <1>0, <2>1, <2>2, <2>4 DEF RInv
<1>4. CASE Restart
  <2>1. IInv'
    <3>1. frame' \in [Coroutines -> Framed]
      BY <1>0, <1>4, RestartsEmpty, IdleType
    <3>2. TypeOK'
      BY <1>0, <1>4, <3>1, RestartsEmpty, EmptyType, QueuesType, NoRoundType
         DEF IInv, TypeOK, Framed, Statuses
    <3>3. CounterWithinLimit'
      BY <1>0, <1>4, RestartsEmpty, CapacityAssumption DEF CounterWithinLimit
    <3> QED  BY <1>0, <1>4, <3>1, <3>2, <3>3, RestartsEmpty, EmptyType DEF IInv
  <2> QED  BY <1>0, <1>4, <2>1, RestartsEmpty, EmptyCovered DEF RInv
<1>5. CASE UNCHANGED rvars
  <2>1. UNCHANGED vars /\ queues' = queues /\ store' = store
    BY <1>5 DEF rvars, vars, lifecycle
  <2> QED  BY <1>0, <2>1, NextKeepsInv DEF RInv
<1> QED  BY <1>1, <1>2, <1>3, <1>4, <1>5 DEF RNext, DisposeCloses

(* So it always holds. *)
LEMMA RestartInvariant == RSpec => []RInv
<1>1. RInit => RInv
  BY InitHasInv, EmptyCovered DEF RInit, RInv, Init, Namespaces
<1> QED  BY <1>1, RestartKeepsInv, PTL DEF RSpec

(* No restart, however orderly the shutdown before it, brings a task back:  *)
(* saveState writes under another namespace than loadState reads.           *)
NothingRestored ==
  [][Restart => \A t \in Tasks : status'[t] = "none"]_rvars

(* The Queen that comes after a restart has no task, whatever the last one *)
(* saved: the finding of the restart run, for every configuration.         *)
THEOREM NothingSurvives == RSpec => NothingRestored
<1>1. RInv /\ [RNext]_rvars => [Restart => \A t \in Tasks : status'[t] = "none"]_rvars
  <2> SUFFICES ASSUME RInv, Restart, NEW t \in Tasks PROVE status'[t] = "none"
    OBVIOUS
  <2> QED  BY RestartsEmpty DEF RInv
<1> QED  BY <1>1, RestartInvariant, PTL DEF RSpec, NothingRestored

(* Through shutdowns in progress and restarts in any phase, in every        *)
(* configuration, the limit holds, the oldest is first and no load is       *)
(* understated.                                                             *)
THEOREM LimitsThroughRestarts ==
  RSpec => [](CounterWithinLimit /\ OldestFirst /\ LoadNotUnderstated)
<1>1. RInv => CounterWithinLimit /\ OldestFirst /\ LoadNotUnderstated
  BY DEF RInv, IInv, OldestFirst, OrderedQueues, InOrder, Covered, LoadNotUnderstated
<1> QED  BY <1>1, RestartInvariant, PTL

(* With an outside worker, who reports a cancelled task too, dispose and    *)
(* restart keep the slots exact.                                            *)
LEMMA RestartKeepsSlots ==
  RInv /\ RInv' /\ EventsOnAssign /\ SlotInv /\ [RNext]_rvars => SlotInv'
<1> SUFFICES ASSUME RInv, RInv', EventsOnAssign, SlotInv, [RNext]_rvars PROVE SlotInv'
  OBVIOUS
<1>0. Orderly' /\ IInv'
  BY DEF RInv, SlotInv, Orderly
<1>1. CASE Work
  BY <1>1, WorkIsNext, NextKeepsSlots
<1>2. CASE DisposeStarts \/ DisposeSaves \/ DisposeCloses
  <2>1. /\ UNCHANGED <<created, status, queues, counter, frame, runs, jobs, unhealthy>>
        /\ tripped' \in {tripped, {}}
    BY <1>2, DisposeLeaves DEF record, work
  <2> QED  BY <1>0, <2>1 DEF SlotInv
<1>3. CASE DisposeCancels
  <2>1. PICK t \in Tasks : Cancel(t)
    BY <1>3 DEF DisposeCancels
  <2> QED  BY <1>0, <2>1, CancelKeeps DEF StillWhole, SlotInv
<1>4. CASE Restart
  <2>1. /\ status' = [t \in Tasks |-> "none"] /\ queues' = EmptyQueues
        /\ frame' = [c \in Coroutines |-> Idle] /\ counter' = 0
        /\ runs' = [t \in Tasks |-> 0] /\ jobs' = [t \in Tasks |-> 0]
        /\ tripped' = {} /\ unhealthy' = {}
    BY <1>4, RestartsEmpty DEF RInv
  <2>2. Whole(created', status', queues', frame', runs', jobs') /\ Slots(status', frame') = 0
    BY <2>1, EmptyHasSlots
  <2> QED  BY <1>0, <2>1, <2>2 DEF SlotInv
<1>5. CASE UNCHANGED rvars
  BY <1>5, NextKeepsSlots DEF rvars
<1> QED  BY <1>1, <1>2, <1>3, <1>4, <1>5 DEF RNext, DisposeCloses

(* Where an outside worker reports the tasks, the counter stays exact, no   *)
(* more tasks run than may, no waiting task is lost, the indexes agree and  *)
(* each running task has its worker, also while dispose cancels what is     *)
(* pending one task per await, and in each Queen after it.                  *)
THEOREM SlotsThroughRestarts ==
  Orderly /\ EventsOnAssign /\ RSpec =>
    [](CounterExact /\ CapacityRespected /\ NoTaskLost /\ IndexesAgree /\ RunningHasWorker)
<1>1. ASSUME Orderly, EventsOnAssign
      PROVE  RSpec => []SlotInv
  <2>1. RInit => SlotInv
    BY <1>1, InitHasSlots DEF RInit
  <2>2. RInv /\ RInv' /\ SlotInv /\ [RNext]_rvars => SlotInv'
    BY <1>1, RestartKeepsSlots
  <2> QED  BY <2>1, <2>2, RestartInvariant, PTL DEF RSpec
<1>2. ASSUME Orderly, EventsOnAssign
      PROVE  RSpec => [](CounterExact /\ CapacityRespected /\ NoTaskLost /\ IndexesAgree
                         /\ RunningHasWorker)
  <2>1. RSpec => []SlotInv
    BY <1>1, <1>2
  <2> QED  BY <2>1, SlotsTell, PTL
<1> QED  BY <1>2
=============================================================================
