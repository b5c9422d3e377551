-------------------------- MODULE QueenSlotsProofs --------------------------
(* The slots of the Queen, for every set of tasks, domains and coroutines:  *)
(* what the exactness of runningTaskCounter rests on, and what follows from *)
(* it.  The findings show that it does not hold without assumptions on the  *)
(* configuration; the ones made here are those of the passing runs.         *)
EXTENDS QueenCoordinatorProofs

(* No circuit breaker, no stealing, no refusal, a healthy domain for every  *)
(* task, and one reporter for each: its plugin, in which case nothing is    *)
(* cancelled, or an outside worker.                                         *)
Orderly ==
  /\ ~Breakers /\ ~WorkStealing /\ ~PluginsMayRefuse /\ ~ExecutorOnSubmit
  /\ Disposable = {} /\ \A t \in Tasks : Candidates[t] # <<>>
  /\ \/ /\ ~EventsOnAssign /\ Cancellable = {}
        /\ \A t \in Tasks : Handlers[t] = Domains
     \/ EventsOnAssign /\ \A t \in Tasks : Handlers[t] = {}

(* The two indexes agree, and hold a task at most once, under its priority. *)
Entries(q, t) == Copies(q.prio[PriorityOf[t]], t)

Tidy(q) == \A t \in Tasks :
  /\ Entries(q, t) \in 0 .. 1
  /\ \A p \in Priorities : p # PriorityOf[t] => Copies(q.prio[p], t) = 0
  /\ \A d \in Domains : Copies(q.domain[d], t) = IF IsTarget(t, d) THEN Entries(q, t) ELSE 0

(* The frame is on its way to hand t over to its reporter. *)
Assigns(f, t) == f.task = t /\ \/ f.stage \in {"governance", "route", "spawn"}
                               \/ f.stage = "announce" /\ ~EventsOnAssign

Carries(f, t) == f.task = t /\ f.stage \in {"route", "spawn"}

Reserves(f) == f.kind \in {"submit", "scan"} /\ f.stage \in {"route", "spawn"}

(* Stages that a coroutine of each kind may have when nothing is stolen. *)
Shaped(f) ==
  /\ f.kind # "steal"
  /\ f.stage = "governance" => f.kind = "submit"
  /\ f.stage \in {"route", "spawn", "announce", "execute"} =>
       f.kind \in {"submit", "scan"} /\ f.domain \in Domains
  /\ f.stage = "resume" => f.kind = "scan"

(* A task is in one place at a time: waiting in the queue, in the hands of  *)
(* one coroutine, or with its reporter; and its record says which.  The     *)
(* arguments are the variables, so that a scan can be studied on its own.   *)
Placed(t, cr, st, q, fr, rn, jb) ==
  LET waits == Entries(q, t) = 1
      held  == \E c \in Coroutines : Assigns(fr[c], t)
  IN
  /\ \A c, e \in Coroutines : Assigns(fr[c], t) /\ Assigns(fr[e], t) => c = e
  /\ waits => st[t] = "queued" /\ ~held
  /\ waits \/ held => rn[t] = 0 /\ jb[t] = 0
  /\ rn[t] + jb[t] <= 1
  /\ EventsOnAssign => rn[t] = 0 /\ (st[t] = "running" => jb[t] = 1)
  /\ ~EventsOnAssign =>
       /\ jb[t] = 0
       /\ st[t] = "running" <=>
            rn[t] = 1 \/ \E c \in Coroutines : fr[c].task = t /\ fr[c].stage = "announce"
       /\ \A c \in Coroutines : Carries(fr[c], t) => st[t] \in {"none", "queued"}
  /\ st[t] = "queued" => waits \/ \E c \in Coroutines : Carries(fr[c], t)
  /\ \A c \in Coroutines : fr[c].task = t /\ fr[c].stage = "governance" => st[t] = "none"
  /\ t \notin cr => st[t] = "none" /\ ~held /\ rn[t] = 0 /\ jb[t] = 0

Whole(cr, st, q, fr, rn, jb) ==
  /\ Tidy(q)
  /\ \A c \in Coroutines : Shaped(fr[c])
  /\ \A t \in Tasks : Placed(t, cr, st, q, fr, rn, jb)

(* The slots in use. *)
RunningIn(st) == {t \in Tasks : st[t] = "running"}
ReservingIn(fr) == {c \in Coroutines : Reserves(fr[c])}
Slots(st, fr) == Cardinality(RunningIn(st)) + Cardinality(ReservingIn(fr))

(* The inductive invariant. *)
SlotInv ==
  /\ Orderly /\ IInv
  /\ tripped = {} /\ unhealthy = {}
  /\ Whole(created, status, queues, frame, runs, jobs)
  /\ counter = Slots(status, frame)

---------------------------------------------------------------------------
(* What the operations on the queues do to tidy ones. *)
LEMMA TidyAdded ==
  ASSUME NEW q, NEW r, NEW t \in Tasks, Added(q, r, t), Tidy(q), Entries(q, t) = 0
  PROVE  Tidy(r) /\ \A u \in Tasks : Entries(r, u) = IF u = t THEN 1 ELSE Entries(q, u)
<1>1. \A u \in Tasks : PriorityOf[u] \in Priorities
  BY PriorityAssumption
<1>2. \A u \in Tasks : Entries(r, u) = IF u = t THEN 1 ELSE Entries(q, u)
  BY <1>1 DEF Added, Entries, Tidy
<1>3. \A u \in Tasks : Entries(r, u) \in 0 .. 1
  BY <1>2 DEF Tidy
<1>4. \A u \in Tasks : \A p \in Priorities :
        p # PriorityOf[u] => Copies(r.prio[p], u) = 0
  BY DEF Added, Tidy
<1>5. \A u \in Tasks : \A d \in Domains :
        Copies(r.domain[d], u) = IF IsTarget(u, d) THEN Entries(r, u) ELSE 0
  BY <1>2 DEF Added, Tidy
<1> QED  BY <1>2, <1>3, <1>4, <1>5 DEF Tidy

(* A removal leaves no entry of its task. *)
LEMMA TidyRemoved ==
  ASSUME NEW q, NEW r, NEW t \in Tasks, Removed(q, r, t), Tidy(q)
  PROVE  Tidy(r) /\ \A u \in Tasks : Entries(r, u) = IF u = t THEN 0 ELSE Entries(q, u)
<1>1. \A u \in Tasks : PriorityOf[u] \in Priorities
  BY PriorityAssumption
<1>2. \A u \in Tasks : Entries(r, u) = IF u = t THEN 0 ELSE Entries(q, u)
  BY <1>1 DEF Removed, Entries, Tidy, Less
<1>3. \A u \in Tasks : Entries(r, u) \in 0 .. 1
  BY <1>2 DEF Tidy
<1>4. \A u \in Tasks : \A p \in Priorities :
        p # PriorityOf[u] => Copies(r.prio[p], u) = 0
  BY DEF Removed, Tidy
<1>5. \A u \in Tasks : \A d \in Domains :
        Copies(r.domain[d], u) = IF IsTarget(u, d) THEN Entries(r, u) ELSE 0
  BY <1>2 DEF Removed, Tidy, Less
<1> QED  BY <1>2, <1>3, <1>4, <1>5 DEF Tidy

(* Nor does a shift, which finds one. *)
LEMMA TidyShifted ==
  ASSUME NEW q, NEW r, NEW p \in Priorities, NEW t \in Tasks, Shifted(q, r, p, t), Tidy(q)
  PROVE  /\ p = PriorityOf[t] /\ Entries(q, t) = 1
         /\ Tidy(r)
         /\ \A u \in Tasks : Entries(r, u) = IF u = t THEN 0 ELSE Entries(q, u)
<1>1. \A u \in Tasks : PriorityOf[u] \in Priorities
  BY PriorityAssumption
<1>2. p = PriorityOf[t] /\ Entries(q, t) = 1
  BY DEF Shifted, Tidy, Entries
<1>3. \A u \in Tasks : Entries(r, u) = IF u = t THEN 0 ELSE Entries(q, u)
  BY <1>1, <1>2 DEF Shifted, Entries, Tidy, Less
<1>4. \A u \in Tasks : Entries(r, u) \in 0 .. 1
  BY <1>3 DEF Tidy
<1>5. \A u \in Tasks : \A k \in Priorities :
        k # PriorityOf[u] => Copies(r.prio[k], u) = 0
  BY <1>2 DEF Shifted, Tidy
<1>6. \A u \in Tasks : \A d \in Domains :
        Copies(r.domain[d], u) = IF IsTarget(u, d) THEN Entries(r, u) ELSE 0
  BY <1>2, <1>3 DEF Shifted, Tidy, Less
<1> QED  BY <1>2, <1>3, <1>4, <1>5, <1>6 DEF Tidy

---------------------------------------------------------------------------
(* One element's part in the size of a finite set. *)
LEMMA SizeWith ==
  ASSUME NEW S, IsFiniteSet(S), NEW x
  PROVE  /\ IsFiniteSet(S \ {x}) /\ Cardinality(S \ {x}) \in Nat
         /\ Cardinality(S) = Cardinality(S \ {x}) + IF x \in S THEN 1 ELSE 0
<1>1. IsFiniteSet(S \ {x}) /\ Cardinality(S) \in Nat /\ Cardinality(S \ {x}) \in Nat
  BY FS_RemoveElement, FS_CardinalityType
<1> QED  BY <1>1, FS_RemoveElement

(* How the slots in use follow the status of one task. *)
LEMMA StatusSlots ==
  ASSUME NEW st, NEW s2, NEW t \in Tasks, \A u \in Tasks : u # t => s2[u] = st[u]
  PROVE  /\ Cardinality(RunningIn(st)) \in Nat /\ Cardinality(RunningIn(s2)) \in Nat
         /\ st[t] = "running" => Cardinality(RunningIn(st)) > 0
         /\ Cardinality(RunningIn(s2)) =
              Cardinality(RunningIn(st)) - (IF st[t] = "running" THEN 1 ELSE 0)
                                         + (IF s2[t] = "running" THEN 1 ELSE 0)
<1>1. IsFiniteSet(RunningIn(st)) /\ IsFiniteSet(RunningIn(s2))
  BY TaskAssumption, FS_Subset DEF RunningIn
<1>2. RunningIn(st) \ {t} = RunningIn(s2) \ {t}
  BY DEF RunningIn
<1>3. t \in RunningIn(st) <=> st[t] = "running"
  BY DEF RunningIn
<1>4. t \in RunningIn(s2) <=> s2[t] = "running"
  BY DEF RunningIn
<1> DEFINE n == Cardinality(RunningIn(st) \ {t})
<1>5. /\ n \in Nat
      /\ Cardinality(RunningIn(st)) = n + IF t \in RunningIn(st) THEN 1 ELSE 0
  BY <1>1, SizeWith
<1>6. Cardinality(RunningIn(s2)) = n + IF t \in RunningIn(s2) THEN 1 ELSE 0
  BY <1>1, <1>2, SizeWith
<1> HIDE DEF n
<1>7. /\ Cardinality(RunningIn(st)) = n + IF st[t] = "running" THEN 1 ELSE 0
      /\ Cardinality(RunningIn(s2)) = n + IF s2[t] = "running" THEN 1 ELSE 0
  BY <1>3, <1>4, <1>5, <1>6
<1> QED  BY <1>5, <1>7

(* And the frame of one coroutine. *)
LEMMA FrameSlots ==
  ASSUME NEW fr, NEW f2, NEW c \in Coroutines, \A e \in Coroutines : e # c => f2[e] = fr[e]
  PROVE  /\ Cardinality(ReservingIn(fr)) \in Nat /\ Cardinality(ReservingIn(f2)) \in Nat
         /\ Cardinality(ReservingIn(f2)) =
              Cardinality(ReservingIn(fr)) - (IF Reserves(fr[c]) THEN 1 ELSE 0)
                                           + (IF Reserves(f2[c]) THEN 1 ELSE 0)
<1>1. IsFiniteSet(ReservingIn(fr)) /\ IsFiniteSet(ReservingIn(f2))
  BY IdAssumption, FS_Subset DEF ReservingIn
<1>2. ReservingIn(fr) \ {c} = ReservingIn(f2) \ {c}
  BY DEF ReservingIn
<1>3. c \in ReservingIn(fr) <=> Reserves(fr[c])
  BY DEF ReservingIn
<1>4. c \in ReservingIn(f2) <=> Reserves(f2[c])
  BY DEF ReservingIn
<1> DEFINE n == Cardinality(ReservingIn(fr) \ {c})
<1>5. /\ n \in Nat
      /\ Cardinality(ReservingIn(fr)) = n + IF c \in ReservingIn(fr) THEN 1 ELSE 0
  BY <1>1, SizeWith
<1>6. Cardinality(ReservingIn(f2)) = n + IF c \in ReservingIn(f2) THEN 1 ELSE 0
  BY <1>1, <1>2, SizeWith
<1> HIDE DEF n
<1>7. /\ Cardinality(ReservingIn(fr)) = n + IF Reserves(fr[c]) THEN 1 ELSE 0
      /\ Cardinality(ReservingIn(f2)) = n + IF Reserves(f2[c]) THEN 1 ELSE 0
  BY <1>3, <1>4, <1>5, <1>6
<1> QED  BY <1>5, <1>7

---------------------------------------------------------------------------
(* The frame has no part in where t is. *)
Away(f, t) == f.task = t => /\ f.stage \notin {"governance", "route", "spawn"}
                            /\ f.stage = "announce" => EventsOnAssign

(* A task that a step does not touch stays where it was. *)
LEMMA Untouched ==
  ASSUME NEW t, NEW cr, NEW st, NEW q, NEW fr, NEW rn, NEW jb,
         NEW c2, NEW s2, NEW q2, NEW f2, NEW r2, NEW j2,
         Placed(t, cr, st, q, fr, rn, jb),
         s2[t] = st[t], Entries(q2, t) = Entries(q, t), r2[t] = rn[t], j2[t] = jb[t],
         t \in c2 <=> t \in cr,
         \A e \in Coroutines : f2[e] = fr[e] \/ (Away(fr[e], t) /\ Away(f2[e], t))
  PROVE  Placed(t, c2, s2, q2, f2, r2, j2)
<1>1. \A e \in Coroutines : /\ Assigns(f2[e], t) <=> Assigns(fr[e], t)
                            /\ Carries(f2[e], t) <=> Carries(fr[e], t)
  BY DEF Away, Assigns, Carries
<1>2. \A e \in Coroutines : f2[e].task = t /\ f2[e].stage = "governance" <=>
                            fr[e].task = t /\ fr[e].stage = "governance"
  BY DEF Away
<1>3. ~EventsOnAssign => \A e \in Coroutines :
        f2[e].task = t /\ f2[e].stage = "announce" <=> fr[e].task = t /\ fr[e].stage = "announce"
  BY DEF Away
<1> QED  BY <1>1, <1>2, <1>3 DEF Placed

(* The placement of a task finds it a domain when all are healthy. *)
LEMMA PlacedAtDomain ==
  ASSUME Orderly, unhealthy = {}, NEW t \in Tasks, NEW q, NEW st, NEW dm,
         NEW d \in Placement(t, q, st, dm)
  PROVE  d \in Domains
<1>1. Candidates[t] \in Seq(Domains) /\ Candidates[t] # <<>>
  BY PlacementAssumption DEF Orderly
<1>2. DOMAIN Candidates[t] # {} /\ \A i \in DOMAIN Candidates[t] : Candidates[t][i] \in Domains
  <2> SUFFICES ASSUME NEW s \in Seq(Domains), s # <<>>
               PROVE  DOMAIN s # {} /\ \A i \in DOMAIN s : s[i] \in Domains
    BY <1>1
  <2>1. Len(s) \in Nat /\ Len(s) # 0 /\ DOMAIN s = 1 .. Len(s)
    BY EmptySeq
  <2>2. 1 \in DOMAIN s
    BY <2>1
  <2> QED  BY <2>1, <2>2
<1>3. {i \in DOMAIN Candidates[t] : Candidates[t][i] \notin unhealthy} # {}
  BY <1>2
<1> QED  BY <1>2, <1>3 DEF Placement

(* A scan of the queue takes a slot with each task it takes, and moves the  *)
(* task from the queue into the hands of the scanning coroutine.            *)
LEMMA ScanKeeps ==
  ASSUME Orderly, unhealthy = {}, frame \in [Coroutines -> Framed],
         NEW c \in Coroutines, NEW from \in 0 .. 4, NEW n, NEW q \in OrderedQueues,
         NEW cr, NEW st, NEW dm, NEW rn, NEW jb,
         Whole(cr, st, q, frame, rn, jb), n = Slots(st, frame),
         \A t \in Tasks : Away(frame[c], t),
         ProcessQueue(c, from, n, q, st, dm)
  PROVE  Whole(cr, st, queues', frame', rn, jb) /\ counter' = Slots(st, frame')
<1>0. ~Reserves(frame[c])
  BY DEF Away, Reserves, Framed
<1>1. CASE Full(n) \/ \A p \in Priorities : p >= from => q.prio[p] = <<>>
  <2>1. counter' = n /\ queues' = q /\ frame' = [frame EXCEPT ![c] = Idle]
    BY <1>1 DEF ProcessQueue
  <2>2. /\ \A e \in Coroutines : e # c => frame'[e] = frame[e]
        /\ frame'[c] = Idle
    BY <2>1
  <2>3. Shaped(Idle) /\ ~Reserves(Idle) /\ \A t \in Tasks : Away(Idle, t)
    BY DEF Idle, Frame, Shaped, Reserves, Away
  <2>4. \A t \in Tasks : Placed(t, cr, st, queues', frame', rn, jb)
    BY <2>1, <2>2, <2>3, Untouched DEF Whole
  <2>5. Slots(st, frame') = Slots(st, frame)
    BY <1>0, <2>2, <2>3, FrameSlots DEF Slots
  <2> QED  BY <2>1, <2>2, <2>3, <2>4, <2>5 DEF Whole
<1>2. CASE ~(Full(n) \/ \A p \in Priorities : p >= from => q.prio[p] = <<>>)
  <2>1. PICK p \in Priorities :
          /\ q.prio[p] # <<>>
          /\ counter' = n + 1
          /\ queues' = Shift(q, p)
          /\ \E d \in Placement(Head(q.prio[p]), Shift(q, p), st, dm) :
               frame' = [frame EXCEPT ![c] =
                 IF d = NoDomain THEN Scan(p + 1)
                 ELSE Frame("scan", "route", Head(q.prio[p]), d, p + 1)]
    BY <1>2 DEF ProcessQueue
  <2> DEFINE t == Head(q.prio[p])
  <2>2. t \in Tasks
    BY <2>1, ShiftType
  <2>3. Shifted(q, queues', p, t)
    BY <2>1, ShiftShifts, QueuesType
  <2> HIDE DEF t
  <2>4. /\ Entries(q, t) = 1 /\ Tidy(queues')
        /\ \A u \in Tasks : Entries(queues', u) = IF u = t THEN 0 ELSE Entries(q, u)
    BY <2>2, <2>3, TidyShifted DEF Whole
  <2>5. PICK d \in Domains : frame' = [frame EXCEPT ![c] = Frame("scan", "route", t, d, p + 1)]
    BY <2>1, <2>2, PlacedAtDomain, DomainAssumption DEF t, NoDomain
  <2>6. /\ \A e \in Coroutines : e # c => frame'[e] = frame[e]
        /\ frame'[c] = Frame("scan", "route", t, d, p + 1)
    BY <2>5
  <2>7. Shaped(frame'[c]) /\ Reserves(frame'[c])
    BY <2>6 DEF Frame, Shaped, Reserves
  <2>8. frame'[c].task = t /\ frame'[c].stage = "route"
    BY <2>6 DEF Frame
  <2>9. ASSUME NEW u \in Tasks, u # t
        PROVE  Placed(u, cr, st, queues', frame', rn, jb)
    <3>1. Away(frame'[c], u)
      BY <2>8, <2>9 DEF Away
    <3> QED  BY <2>4, <2>6, <2>9, <3>1, Untouched DEF Whole
  <2>10. Placed(t, cr, st, queues', frame', rn, jb)
    <3>1. Placed(t, cr, st, q, frame, rn, jb)
      BY <2>2 DEF Whole
    <3>2. /\ st[t] = "queued" /\ rn[t] = 0 /\ jb[t] = 0 /\ t \in cr
          /\ \A e \in Coroutines : ~Assigns(frame[e], t)
      BY <2>4, <3>1 DEF Placed
    <3>3. \A e \in Coroutines : e # c => ~Assigns(frame'[e], t)
      BY <2>6, <3>2
    <3>4. Assigns(frame'[c], t) /\ Carries(frame'[c], t)
      BY <2>8 DEF Assigns, Carries
    <3>5. Entries(queues', t) = 0
      BY <2>2, <2>4
    <3>6. ~EventsOnAssign =>
          ~ \E e \in Coroutines : frame'[e].task = t /\ frame'[e].stage = "announce"
      BY <2>8, <3>3 DEF Assigns
    <3>7. \A e \in Coroutines : ~(frame'[e].task = t /\ frame'[e].stage = "governance")
      BY <2>8, <3>3 DEF Assigns
    <3> QED  BY <3>2, <3>3, <3>4, <3>5, <3>6, <3>7 DEF Placed
  <2>11. Slots(st, frame') = Slots(st, frame) + 1
    <3>1. Cardinality(ReservingIn(frame')) = Cardinality(ReservingIn(frame)) + 1
          /\ Cardinality(ReservingIn(frame)) \in Nat
      BY <1>0, <2>6, <2>7, FrameSlots
    <3>2. Cardinality(RunningIn(st)) \in Nat
      BY <2>2, StatusSlots
    <3> QED  BY <3>1, <3>2 DEF Slots
  <2>12. \A e \in Coroutines : Shaped(frame'[e])
    BY <2>6, <2>7 DEF Whole
  <2> QED  BY <2>1, <2>4, <2>9, <2>10, <2>11, <2>12 DEF Whole
<1> QED  BY <1>1, <1>2

---------------------------------------------------------------------------
(* What has to be shown of each step. *)
StillWhole ==
  /\ tripped' = {} /\ unhealthy' = {}
  /\ Whole(created', status', queues', frame', runs', jobs')
  /\ counter' = Slots(status', frame')

(* The invariant as its users need it. *)
LEMMA InvFacts ==
  ASSUME SlotInv
  PROVE  /\ TypeOK /\ frame \in [Coroutines -> Framed]
         /\ queues \in OrderedQueues /\ queues \in Queues
         /\ Tidy(queues)
         /\ \A c \in Coroutines : Shaped(frame[c])
         /\ \A t \in Tasks : /\ Placed(t, created, status, queues, frame, runs, jobs)
                             /\ Entries(queues, t) \in 0 .. 1
                             /\ status[t] \in Statuses /\ runs[t] \in Nat /\ jobs[t] \in Nat
BY QueuesType DEF SlotInv, IInv, Whole, Tidy, TypeOK

(* A task that a step of the Queen does not touch. *)
LEMMA StaysPlaced ==
  ASSUME SlotInv, NEW u \in Tasks, u \in created' <=> u \in created,
         status'[u] = status[u], runs'[u] = runs[u], jobs'[u] = jobs[u],
         Entries(queues', u) = Entries(queues, u),
         \A e \in Coroutines : \/ frame'[e] = frame[e]
                               \/ Away(frame[e], u) /\ Away(frame'[e], u)
  PROVE  Placed(u, created', status', queues', frame', runs', jobs')
<1>1. Placed(u, created, status, queues, frame, runs, jobs)
  BY InvFacts
<1> QED  BY <1>1, Untouched

(* A coroutine that has no task in hand is away from all of them. *)
LEMMA AwayFromAll ==
  ASSUME NEW f, f.stage \notin {"governance", "route", "spawn", "announce"}, NEW t
  PROVE  Away(f, t)
BY DEF Away

(* A free coroutine slot is idle. *)
LEMMA FreeSlot ==
  ASSUME NEW c \in Coroutines, Fresh(c)
  PROVE  /\ frame[c] = Idle /\ ~Reserves(frame[c]) /\ \A t : Away(frame[c], t)
         /\ Shaped(Idle) /\ ~Reserves(Idle) /\ \A t : Away(Idle, t)
BY DEF Fresh, Idle, Frame, Reserves, Away, Shaped

(* The slots when only the frame of c changes. *)
LEMMA SlotsOfFrame ==
  ASSUME NEW st, NEW fr, NEW f2, NEW c \in Coroutines,
         \A e \in Coroutines : e # c => f2[e] = fr[e]
  PROVE  Slots(st, f2) = Slots(st, fr) - (IF Reserves(fr[c]) THEN 1 ELSE 0)
                                       + (IF Reserves(f2[c]) THEN 1 ELSE 0)
<1>1. IsFiniteSet(RunningIn(st))
  BY TaskAssumption, FS_Subset DEF RunningIn
<1>2. Cardinality(RunningIn(st)) \in Nat
  BY <1>1, FS_CardinalityType
<1>3. /\ Cardinality(ReservingIn(fr)) \in Nat
      /\ Cardinality(ReservingIn(f2)) =
           Cardinality(ReservingIn(fr)) - (IF Reserves(fr[c]) THEN 1 ELSE 0)
                                        + (IF Reserves(f2[c]) THEN 1 ELSE 0)
  BY FrameSlots
<1> QED  BY <1>2, <1>3 DEF Slots

(* The slots when only the status of t changes. *)
LEMMA SlotsOfStatus ==
  ASSUME NEW st, NEW s2, NEW fr, NEW t \in Tasks, \A u \in Tasks : u # t => s2[u] = st[u]
  PROVE  /\ Slots(s2, fr) = Slots(st, fr) - (IF st[t] = "running" THEN 1 ELSE 0)
                                           + (IF s2[t] = "running" THEN 1 ELSE 0)
         /\ Slots(st, fr) \in Nat /\ (st[t] = "running" => Slots(st, fr) > 0)
<1>1. IsFiniteSet(ReservingIn(fr))
  BY IdAssumption, FS_Subset DEF ReservingIn
<1>2. Cardinality(ReservingIn(fr)) \in Nat
  BY <1>1, FS_CardinalityType
<1>3. /\ Cardinality(RunningIn(st)) \in Nat
      /\ st[t] = "running" => Cardinality(RunningIn(st)) > 0
      /\ Cardinality(RunningIn(s2)) =
           Cardinality(RunningIn(st)) - (IF st[t] = "running" THEN 1 ELSE 0)
                                      + (IF s2[t] = "running" THEN 1 ELSE 0)
  BY StatusSlots
<1> QED  BY <1>2, <1>3 DEF Slots

(* submitTask, up to the governance check. *)
LEMMA SubmitKeeps ==
  ASSUME SlotInv, NEW t \in Tasks, NEW c \in Coroutines, SubmitTask(t, c)
  PROVE  StillWhole
<1>1. /\ t \notin created /\ created' = created \cup {t} /\ Fresh(c)
      /\ frame' = [frame EXCEPT ![c] = Frame("submit", "governance", t, NoDomain, 0)]
      /\ status' = status /\ queues' = queues /\ counter' = counter
      /\ runs' = runs /\ jobs' = jobs /\ tripped' = tripped /\ unhealthy' = unhealthy
  BY DEF SubmitTask, record, work, faults
<1>2. /\ \A e \in Coroutines : e # c => frame'[e] = frame[e]
      /\ frame'[c] = Frame("submit", "governance", t, NoDomain, 0)
  BY <1>1, InvFacts
<1>3. /\ Shaped(frame'[c]) /\ ~Reserves(frame'[c])
      /\ frame'[c].task = t /\ frame'[c].stage = "governance"
  BY <1>2 DEF Frame, Shaped, Reserves
<1>4. ASSUME NEW u \in Tasks, u # t
      PROVE  Placed(u, created', status', queues', frame', runs', jobs')
  <2>1. Away(frame'[c], u) /\ Away(frame[c], u)
    BY <1>1, <1>3, <1>4, FreeSlot DEF Away
  <2>3. u \in created' <=> u \in created
    BY <1>1, <1>4
  <2> QED  BY <1>1, <1>2, <2>1, <2>3, StaysPlaced
<1>5. Placed(t, created', status', queues', frame', runs', jobs')
  <2>1. Placed(t, created, status, queues, frame, runs, jobs)
    BY InvFacts
  <2>2. /\ status[t] = "none" /\ runs[t] = 0 /\ jobs[t] = 0 /\ Entries(queues, t) # 1
        /\ \A e \in Coroutines : ~Assigns(frame[e], t)
    BY <1>1, <2>1 DEF Placed
  <2>3. \A e \in Coroutines : e # c => ~Assigns(frame'[e], t)
    BY <1>2, <2>2
  <2>4. ~Carries(frame'[c], t) /\ \A e \in Coroutines : ~Carries(frame'[e], t)
    BY <1>3, <2>3 DEF Assigns, Carries
  <2>5. ~EventsOnAssign =>
          ~ \E e \in Coroutines : frame'[e].task = t /\ frame'[e].stage = "announce"
    BY <1>3, <2>3 DEF Assigns
  <2> QED  BY <1>1, <2>2, <2>3, <2>4, <2>5 DEF Placed
<1>6. Slots(status', frame') = Slots(status, frame)
  <2>1. ~Reserves(frame[c])
    BY <1>1, FreeSlot
  <2>2. Slots(status, frame) \in Nat
    BY SlotsOfStatus
  <2>3. Slots(status, frame') = Slots(status, frame)
    BY <1>2, <1>3, <2>1, <2>2, SlotsOfFrame
  <2> QED  BY <1>1, <2>3
<1>7. \A e \in Coroutines : Shaped(frame'[e])
  BY <1>2, <1>3, InvFacts
<1> QED  BY <1>1, <1>4, <1>5, <1>6, <1>7 DEF StillWhole, Whole, SlotInv

(* A coroutine in hand of a task is the only one, and the task waits nowhere *)
(* and has no reporter yet.                                                  *)
LEMMA InHand ==
  ASSUME SlotInv, NEW c \in Coroutines, NEW t \in Tasks, Assigns(frame[c], t)
  PROVE  /\ \A e \in Coroutines : e # c => ~Assigns(frame[e], t)
         /\ Entries(queues, t) = 0 /\ runs[t] = 0 /\ jobs[t] = 0
         /\ t \in created
<1>1. /\ Placed(t, created, status, queues, frame, runs, jobs)
      /\ Entries(queues, t) \in 0 .. 1
  BY InvFacts
<1>2. Entries(queues, t) # 1
  BY <1>1 DEF Placed
<1> QED  BY <1>1, <1>2 DEF Placed

(* A coroutine that is suspended in hand of a task. *)
LEMMA HandsTask ==
  ASSUME SlotInv, NEW c \in Coroutines,
         frame[c].stage \in {"governance", "route", "spawn", "announce", "execute"}
  PROVE  frame[c].task \in Tasks /\ frame[c] \in Frames
<1>1. frame[c] \in Framed
  BY InvFacts
<1> QED  BY <1>1 DEF Framed

(* A rejected submission leaves no trace. *)
LEMMA RejectionKeeps ==
  ASSUME SlotInv, NEW c \in Coroutines, GovernanceRejects(c)
  PROVE  StillWhole
<1> DEFINE t == frame[c].task
<1>1. /\ frame[c].stage = "governance" /\ frame' = [frame EXCEPT ![c] = Idle]
      /\ created' = created /\ status' = status /\ queues' = queues /\ counter' = counter
      /\ runs' = runs /\ jobs' = jobs /\ tripped' = tripped /\ unhealthy' = unhealthy
  BY DEF GovernanceRejects, At, record, work, faults
<1>2. t \in Tasks /\ Assigns(frame[c], t)
  BY <1>1, HandsTask DEF Assigns
<1>3. /\ \A e \in Coroutines : e # c => frame'[e] = frame[e]
      /\ frame'[c] = Idle
  BY <1>1, InvFacts
<1>4. /\ Shaped(Idle) /\ ~Reserves(Idle) /\ \A u : Away(Idle, u)
      /\ ~Reserves(frame[c])
  BY <1>1 DEF Shaped, Idle, Frame, Reserves, Away
<1> HIDE DEF t
<1>5. ASSUME NEW u \in Tasks, u # t
      PROVE  Placed(u, created', status', queues', frame', runs', jobs')
  <2>1. Away(frame'[c], u) /\ Away(frame[c], u)
    BY <1>3, <1>4, <1>5 DEF Away, t
  <2> QED  BY <1>1, <1>3, <2>1, StaysPlaced
<1>6. Placed(t, created', status', queues', frame', runs', jobs')
  <2>1. Placed(t, created, status, queues, frame, runs, jobs)
    BY <1>2, InvFacts
  <2>2. /\ Entries(queues, t) = 0 /\ runs[t] = 0 /\ jobs[t] = 0 /\ t \in created
        /\ \A e \in Coroutines : e # c => ~Assigns(frame[e], t)
    BY <1>2, InHand
  <2>3. status[t] = "none"
    BY <1>1, <2>1 DEF Placed, t
  <2>4. \A e \in Coroutines : ~Assigns(frame'[e], t)
    BY <1>2, <1>3, <1>4, <2>2 DEF Assigns, Away, Idle, Frame
  <2>5. \A e \in Coroutines : ~Carries(frame'[e], t)
    BY <2>4 DEF Assigns, Carries
  <2>6. ~EventsOnAssign =>
          ~ \E e \in Coroutines : frame'[e].task = t /\ frame'[e].stage = "announce"
    BY <2>4 DEF Assigns
  <2> QED  BY <1>1, <2>2, <2>3, <2>4, <2>5, <2>6 DEF Placed
<1>7. Slots(status', frame') = Slots(status, frame)
  <2>1. Slots(status, frame) \in Nat
    BY <1>2, SlotsOfStatus
  <2>2. Slots(status, frame') = Slots(status, frame)
    BY <1>3, <1>4, <2>1, SlotsOfFrame
  <2> QED  BY <1>1, <2>2
<1>8. \A e \in Coroutines : Shaped(frame'[e])
  BY <1>3, <1>4, InvFacts
<1> QED  BY <1>1, <1>5, <1>6, <1>7, <1>8 DEF StillWhole, Whole, SlotInv

(* A submission that finds no slot enters the queue. *)
LEMMA QueueTaskKeeps ==
  ASSUME SlotInv, NEW c \in Coroutines, QueueTask(c)
  PROVE  StillWhole
<1> DEFINE t == frame[c].task
<1>0. ~ExecutorOnSubmit
  BY DEF SlotInv, Orderly
<1>1. /\ frame[c].stage = "governance" /\ frame' = [frame EXCEPT ![c] = Idle]
      /\ queues' = EnqueueTask(queues, t) /\ status' = [status EXCEPT ![t] = "queued"]
      /\ created' = created /\ counter' = counter /\ runs' = runs /\ jobs' = jobs
      /\ tripped' = tripped /\ unhealthy' = unhealthy
  BY <1>0 DEF QueueTask, At, faults
<1>2. t \in Tasks /\ Assigns(frame[c], t)
  BY <1>1, HandsTask DEF Assigns
<1>3. /\ \A e \in Coroutines : e # c => frame'[e] = frame[e]
      /\ frame'[c] = Idle
  BY <1>1, InvFacts
<1>4. /\ Shaped(Idle) /\ ~Reserves(Idle) /\ \A u : Away(Idle, u)
      /\ ~Reserves(frame[c])
  BY <1>1 DEF Shaped, Idle, Frame, Reserves, Away
<1>5. /\ Entries(queues, t) = 0 /\ runs[t] = 0 /\ jobs[t] = 0 /\ t \in created
      /\ \A e \in Coroutines : e # c => ~Assigns(frame[e], t)
  BY <1>2, InHand
<1>6. status[t] = "none"
  <2>1. Placed(t, created, status, queues, frame, runs, jobs)
    BY <1>2, InvFacts
  <2> QED  BY <1>1, <2>1 DEF Placed
<1>7. status'[t] = "queued" /\ \A u \in Tasks : u # t => status'[u] = status[u]
  BY <1>1, <1>2, InvFacts DEF TypeOK
<1> HIDE DEF t
<1>8. /\ Tidy(queues')
      /\ \A u \in Tasks : Entries(queues', u) = IF u = t THEN 1 ELSE Entries(queues, u)
  <2>1. Added(queues, queues', t)
    BY <1>1, <1>2, EnqueueAdds, InvFacts
  <2> QED  BY <1>2, <1>5, <2>1, TidyAdded, InvFacts
<1>9. ASSUME NEW u \in Tasks, u # t
      PROVE  Placed(u, created', status', queues', frame', runs', jobs')
  <2>1. Away(frame'[c], u) /\ Away(frame[c], u)
    BY <1>3, <1>4, <1>9 DEF Away, t
  <2> QED  BY <1>1, <1>3, <1>7, <1>8, <1>9, <2>1, StaysPlaced
<1>10. Placed(t, created', status', queues', frame', runs', jobs')
  <2>1. \A e \in Coroutines : ~Assigns(frame'[e], t)
    BY <1>2, <1>3, <1>5 DEF Assigns, Idle, Frame
  <2>2. \A e \in Coroutines : ~Carries(frame'[e], t)
    BY <2>1 DEF Assigns, Carries
  <2>3. \A e \in Coroutines : ~(frame'[e].task = t /\ frame'[e].stage = "governance")
    BY <2>1 DEF Assigns
  <2>4. ~EventsOnAssign =>
          ~ \E e \in Coroutines : frame'[e].task = t /\ frame'[e].stage = "announce"
    BY <2>1 DEF Assigns
  <2>5. Entries(queues', t) = 1
    BY <1>2, <1>8
  <2> QED  BY <1>1, <1>5, <1>7, <2>1, <2>2, <2>3, <2>4, <2>5 DEF Placed
<1>11. Slots(status', frame') = Slots(status, frame)
  <2>1. Slots(status, frame) \in Nat /\ Slots(status', frame) = Slots(status, frame)
    BY <1>2, <1>6, <1>7, SlotsOfStatus
  <2> QED  BY <1>3, <1>4, <2>1, SlotsOfFrame
<1>12. \A e \in Coroutines : Shaped(frame'[e])
  BY <1>3, <1>4, InvFacts
<1> QED  BY <1>1, <1>8, <1>9, <1>10, <1>11, <1>12 DEF StillWhole, Whole, SlotInv

(* A submission that finds one reserves it. *)
LEMMA AssignDirectlyKeeps ==
  ASSUME SlotInv, NEW c \in Coroutines, AssignDirectly(c)
  PROVE  StillWhole
<1> DEFINE t == frame[c].task
<1>1. /\ frame[c].stage = "governance"
      /\ created' = created /\ status' = status /\ queues' = queues
      /\ runs' = runs /\ jobs' = jobs /\ tripped' = tripped /\ unhealthy' = unhealthy
  BY DEF AssignDirectly, At, record, work, faults
<1>2. t \in Tasks /\ Assigns(frame[c], t)
  BY <1>1, HandsTask DEF Assigns
<1>3. PICK d \in Domains :
        counter' = counter + 1 /\ frame' = [frame EXCEPT ![c] = Frame("submit", "route", t, d, 0)]
  <2>1. Orderly /\ unhealthy = {}
    BY DEF SlotInv
  <2>2. \A d \in Placement(t, queues, status, assigned) : d \in Domains /\ d # NoDomain
    BY <1>2, <2>1, PlacedAtDomain, DomainAssumption DEF NoDomain
  <2> QED  BY <2>2 DEF AssignDirectly
<1>4. /\ \A e \in Coroutines : e # c => frame'[e] = frame[e]
      /\ frame'[c] = Frame("submit", "route", t, d, 0)
  BY <1>3, InvFacts
<1> HIDE DEF t
<1>5. /\ Shaped(frame'[c]) /\ Reserves(frame'[c]) /\ ~Reserves(frame[c])
      /\ frame'[c].task = t /\ frame'[c].stage = "route"
  BY <1>1, <1>4 DEF Shaped, Frame, Reserves
<1>6. ASSUME NEW u \in Tasks, u # t
      PROVE  Placed(u, created', status', queues', frame', runs', jobs')
  <2>1. Away(frame'[c], u) /\ Away(frame[c], u)
    BY <1>5, <1>6 DEF Away, t
  <2> QED  BY <1>1, <1>4, <2>1, StaysPlaced
<1>7. Placed(t, created', status', queues', frame', runs', jobs')
  <2>1. Placed(t, created, status, queues, frame, runs, jobs)
    BY <1>2, InvFacts
  <2>2. /\ Entries(queues, t) = 0 /\ runs[t] = 0 /\ jobs[t] = 0 /\ t \in created
        /\ \A e \in Coroutines : e # c => ~Assigns(frame[e], t)
    BY <1>2, InHand
  <2>3. status[t] = "none"
    BY <1>1, <2>1 DEF Placed, t
  <2>4. \A e \in Coroutines : e # c => ~Assigns(frame'[e], t)
    BY <1>4, <2>2
  <2>5. ~EventsOnAssign =>
          ~ \E e \in Coroutines : frame'[e].task = t /\ frame'[e].stage = "announce"
    BY <1>5, <2>4 DEF Assigns
  <2> QED  BY <1>1, <2>2, <2>3, <2>4, <2>5 DEF Placed
<1>8. Slots(status', frame') = Slots(status, frame) + 1
  <2>1. Slots(status, frame) \in Nat
    BY <1>2, SlotsOfStatus
  <2>2. Slots(status, frame') = Slots(status, frame) + 1
    BY <1>4, <1>5, <2>1, SlotsOfFrame
  <2> QED  BY <1>1, <2>2
<1>9. \A e \in Coroutines : Shaped(frame'[e])
  BY <1>4, <1>5, InvFacts
<1> QED  BY <1>1, <1>3, <1>6, <1>7, <1>8, <1>9 DEF StillWhole, Whole, SlotInv

---------------------------------------------------------------------------
(* The spawn of an agent leaves the task and its slot where they were. *)
LEMMA SpawnKeeps ==
  ASSUME SlotInv, NEW c \in Coroutines, SpawnAgent(c)
  PROVE  StillWhole
<1> DEFINE t == frame[c].task
<1>1. /\ frame[c].stage = "route"
      /\ created' = created /\ status' = status /\ queues' = queues /\ counter' = counter
      /\ runs' = runs /\ jobs' = jobs /\ tripped' = tripped /\ unhealthy' = unhealthy
  BY DEF SpawnAgent, At, record, work, faults
<1>2. t \in Tasks /\ Assigns(frame[c], t) /\ Carries(frame[c], t) /\ frame[c] \in Frames
  BY <1>1, HandsTask DEF Assigns, Carries
<1>3. /\ \A e \in Coroutines : e # c => frame'[e] = frame[e]
      /\ frame'[c].kind = frame[c].kind /\ frame'[c].task = t
      /\ frame'[c].domain = frame[c].domain /\ frame'[c].stage = "spawn"
  <2>1. CASE CanSpawn
    <3>1. PICK a \in AgentIds :
            frame' = [frame EXCEPT ![c] = [frame[c] EXCEPT !.stage = "spawn", !.agent = a]]
      BY <2>1, InvFacts DEF SpawnAgent
    <3> QED  BY <1>2, <3>1, InvFacts DEF Frames
  <2>2. CASE ~CanSpawn
    <3>1. frame' = [frame EXCEPT ![c] = [frame[c] EXCEPT !.stage = "spawn"]]
      BY <2>2, InvFacts DEF SpawnAgent
    <3> QED  BY <1>2, <3>1, InvFacts DEF Frames
  <2> QED  BY <2>1, <2>2
<1>5. Shaped(frame[c])
  BY InvFacts
<1> HIDE DEF t
<1>6. Shaped(frame'[c]) /\ Reserves(frame'[c]) /\ Reserves(frame[c])
  BY <1>1, <1>3, <1>5 DEF Shaped, Reserves
<1>7. ASSUME NEW u \in Tasks, u # t
      PROVE  Placed(u, created', status', queues', frame', runs', jobs')
  <2>1. Away(frame'[c], u) /\ Away(frame[c], u)
    BY <1>1, <1>3, <1>7 DEF Away, t
  <2> QED  BY <1>1, <1>3, <2>1, StaysPlaced
<1>8. Placed(t, created', status', queues', frame', runs', jobs')
  <2>1. Placed(t, created, status, queues, frame, runs, jobs)
    BY <1>2, InvFacts
  <2>2. Assigns(frame'[c], t) /\ Carries(frame'[c], t)
    BY <1>3 DEF Assigns, Carries
  <2>3. \A e \in Coroutines : /\ Assigns(frame'[e], t) <=> Assigns(frame[e], t)
                              /\ Carries(frame'[e], t) <=> Carries(frame[e], t)
    BY <1>2, <1>3, <2>2
  <2>4. \A e \in Coroutines : frame'[e].stage \in {"governance", "announce"} =>
                                frame'[e] = frame[e]
    BY <1>3
  <2>5. \A e \in Coroutines : frame[e].stage \in {"governance", "announce"} =>
                                frame'[e] = frame[e]
    BY <1>1, <1>3
  <2>6. \A e \in Coroutines :
          /\ (frame'[e].task = t /\ frame'[e].stage = "governance" <=>
              frame[e].task = t /\ frame[e].stage = "governance")
          /\ (frame'[e].task = t /\ frame'[e].stage = "announce" <=>
              frame[e].task = t /\ frame[e].stage = "announce")
    BY <2>4, <2>5
  <2>7. Placed(t, created, status, queues, frame', runs, jobs)
    BY <2>1, <2>3, <2>6 DEF Placed
  <2> QED  BY <1>1, <2>7
<1>9. Slots(status', frame') = Slots(status, frame)
  <2>1. Slots(status, frame) \in Nat
    BY <1>2, SlotsOfStatus
  <2>2. Slots(status, frame') = Slots(status, frame)
    BY <1>3, <1>6, <2>1, SlotsOfFrame
  <2> QED  BY <1>1, <2>2
<1>10. \A e \in Coroutines : Shaped(frame'[e])
  BY <1>3, <1>6, InvFacts
<1> QED  BY <1>1, <1>7, <1>8, <1>9, <1>10 DEF StillWhole, Whole, SlotInv

(* A record set running uses the slot that was reserved for it. *)
LEMMA StartKeeps ==
  ASSUME SlotInv, NEW c \in Coroutines, StartTask(c)
  PROVE  StillWhole
<1> DEFINE t == frame[c].task
<1>1. /\ frame[c].stage = "spawn" /\ status' = [status EXCEPT ![t] = "running"]
      /\ frame' = [frame EXCEPT ![c] = [frame[c] EXCEPT !.stage = "announce"]]
      /\ jobs' = IF EventsOnAssign THEN [jobs EXCEPT ![t] = jobs[t] + 1] ELSE jobs
      /\ created' = created /\ queues' = queues /\ counter' = counter
      /\ runs' = runs /\ tripped' = tripped /\ unhealthy' = unhealthy
  BY InvFacts DEF StartTask, At, faults, TypeOK
<1>2. t \in Tasks /\ Assigns(frame[c], t) /\ Carries(frame[c], t) /\ frame[c] \in Frames
  BY <1>1, HandsTask DEF Assigns, Carries
<1>3. /\ \A e \in Coroutines : e # c => frame'[e] = frame[e]
      /\ frame'[c].kind = frame[c].kind /\ frame'[c].task = t
      /\ frame'[c].domain = frame[c].domain /\ frame'[c].stage = "announce"
  BY <1>1, <1>2, InvFacts DEF Frames
<1>4. Shaped(frame[c])
  BY InvFacts
<1>5. /\ status'[t] = "running" /\ \A u \in Tasks : u # t => status'[u] = status[u]
      /\ jobs'[t] = (IF EventsOnAssign THEN jobs[t] + 1 ELSE jobs[t])
      /\ \A u \in Tasks : u # t => jobs'[u] = jobs[u]
  BY <1>1, <1>2, InvFacts DEF TypeOK
<1> HIDE DEF t
<1>6. Shaped(frame'[c]) /\ ~Reserves(frame'[c]) /\ Reserves(frame[c])
  BY <1>1, <1>3, <1>4 DEF Shaped, Reserves
<1>7. /\ Entries(queues, t) = 0 /\ runs[t] = 0 /\ jobs[t] = 0 /\ t \in created
      /\ \A e \in Coroutines : e # c => ~Assigns(frame[e], t)
  BY <1>2, InHand
<1>8. status[t] # "running"
  <2>1. Placed(t, created, status, queues, frame, runs, jobs)
    BY <1>2, InvFacts
  <2>2. CASE EventsOnAssign
    BY <1>7, <2>1, <2>2 DEF Placed
  <2>3. CASE ~EventsOnAssign
    <3>1. \A e \in Coroutines : ~(frame[e].task = t /\ frame[e].stage = "announce")
      BY <1>1, <1>7, <2>3 DEF Assigns
    <3> QED  BY <1>7, <2>1, <2>3, <3>1 DEF Placed
  <2> QED  BY <2>2, <2>3
<1>9. ASSUME NEW u \in Tasks, u # t
      PROVE  Placed(u, created', status', queues', frame', runs', jobs')
  <2>1. Away(frame'[c], u) /\ Away(frame[c], u)
    BY <1>3, <1>9 DEF Away, t
  <2> QED  BY <1>1, <1>3, <1>5, <1>9, <2>1, StaysPlaced
<1>10. Placed(t, created', status', queues', frame', runs', jobs')
  <2>1. \A e \in Coroutines : e # c => ~Assigns(frame'[e], t)
    BY <1>3, <1>7
  <2>2. \A e \in Coroutines : ~Carries(frame'[e], t) /\
                              ~(frame'[e].task = t /\ frame'[e].stage = "governance")
    BY <1>3, <2>1 DEF Assigns, Carries
  <2>3. EventsOnAssign => ~Assigns(frame'[c], t)
    BY <1>3 DEF Assigns
  <2>4. Entries(queues', t) = 0 /\ runs'[t] = 0
    BY <1>1, <1>7
  <2>5. CASE EventsOnAssign
    BY <1>1, <1>5, <1>7, <2>1, <2>2, <2>3, <2>4, <2>5 DEF Placed
  <2>6. CASE ~EventsOnAssign
    BY <1>1, <1>3, <1>5, <1>7, <2>1, <2>2, <2>4, <2>6 DEF Placed
  <2> QED  BY <2>5, <2>6
<1>11. Slots(status', frame') = Slots(status, frame)
  <2>1. Slots(status, frame) \in Nat /\ Slots(status', frame) = Slots(status, frame) + 1
    BY <1>2, <1>5, <1>8, SlotsOfStatus
  <2>2. Slots(status', frame') = Slots(status', frame) - 1
    BY <1>3, <1>6, <2>1, SlotsOfFrame
  <2> QED  BY <2>1, <2>2
<1>12. \A e \in Coroutines : Shaped(frame'[e])
  BY <1>3, <1>6, InvFacts
<1> QED  BY <1>1, <1>9, <1>10, <1>11, <1>12 DEF StillWhole, Whole, SlotInv

(* A plugin that accepts the task becomes its reporter. *)
LEMMA AcceptKeeps ==
  ASSUME SlotInv, NEW c \in Coroutines, PluginAccepts(c)
  PROVE  StillWhole
<1> DEFINE t == frame[c].task
<1>1. /\ frame[c].stage = "announce" /\ frame[c].domain \in Handlers[t]
      /\ frame' = [frame EXCEPT ![c] = [frame[c] EXCEPT !.stage = "execute"]]
      /\ runs' = [runs EXCEPT ![t] = runs[t] + 1]
      /\ created' = created /\ status' = status /\ queues' = queues /\ counter' = counter
      /\ jobs' = jobs /\ tripped' = tripped /\ unhealthy' = unhealthy
  BY InvFacts DEF PluginAccepts, At, faults, record, TypeOK
<1>2. t \in Tasks /\ frame[c] \in Frames
  BY <1>1, HandsTask
<1>3. ~EventsOnAssign
  BY <1>1, <1>2 DEF SlotInv, Orderly
<1>4. Assigns(frame[c], t)
  BY <1>1, <1>3 DEF Assigns
<1>5. /\ \A e \in Coroutines : e # c => frame'[e] = frame[e]
      /\ frame'[c].kind = frame[c].kind /\ frame'[c].task = t
      /\ frame'[c].domain = frame[c].domain /\ frame'[c].stage = "execute"
  BY <1>1, <1>2, InvFacts DEF Frames
<1>6. Shaped(frame[c])
  BY InvFacts
<1>7. runs'[t] = runs[t] + 1 /\ \A u \in Tasks : u # t => runs'[u] = runs[u]
  BY <1>1, <1>2, InvFacts DEF TypeOK
<1>8. /\ Entries(queues, t) = 0 /\ runs[t] = 0 /\ jobs[t] = 0 /\ t \in created
      /\ \A e \in Coroutines : e # c => ~Assigns(frame[e], t)
  BY <1>2, <1>4, InHand
<1>9. status[t] = "running"
  <2>1. Placed(t, created, status, queues, frame, runs, jobs)
    BY <1>2, InvFacts
  <2> QED  BY <1>1, <1>3, <2>1 DEF Placed
<1> HIDE DEF t
<1>10. Shaped(frame'[c]) /\ ~Reserves(frame'[c]) /\ ~Reserves(frame[c])
  BY <1>1, <1>5, <1>6 DEF Shaped, Reserves
<1>11. ASSUME NEW u \in Tasks, u # t
      PROVE  Placed(u, created', status', queues', frame', runs', jobs')
  <2>1. Away(frame'[c], u) /\ Away(frame[c], u)
    BY <1>5, <1>11 DEF Away, t
  <2> QED  BY <1>1, <1>5, <1>7, <1>11, <2>1, StaysPlaced
<1>12. Placed(t, created', status', queues', frame', runs', jobs')
  <2>1. \A e \in Coroutines : ~Assigns(frame'[e], t)
    BY <1>5, <1>8 DEF Assigns
  <2>2. \A e \in Coroutines : ~Carries(frame'[e], t) /\
                              ~(frame'[e].task = t /\ frame'[e].stage = "governance")
    BY <2>1 DEF Assigns, Carries
  <2>3. Entries(queues', t) = 0 /\ runs'[t] = 1 /\ jobs'[t] = 0 /\ status'[t] = "running"
    BY <1>1, <1>7, <1>8, <1>9
  <2> QED  BY <1>1, <1>3, <1>8, <2>1, <2>2, <2>3 DEF Placed
<1>13. Slots(status', frame') = Slots(status, frame)
  <2>1. Slots(status, frame) \in Nat
    BY <1>2, SlotsOfStatus
  <2>2. Slots(status, frame') = Slots(status, frame)
    BY <1>5, <1>10, <2>1, SlotsOfFrame
  <2> QED  BY <1>1, <2>2
<1>14. \A e \in Coroutines : Shaped(frame'[e])
  BY <1>5, <1>10, InvFacts
<1> QED  BY <1>1, <1>11, <1>12, <1>13, <1>14 DEF StillWhole, Whole, SlotInv

---------------------------------------------------------------------------
(* A scan by a coroutine that has no task in hand. *)
LEMMA ScanStillWhole ==
  ASSUME SlotInv, NEW c \in Coroutines, \A t \in Tasks : Away(frame[c], t),
         NEW from \in 0 .. 4, ProcessQueue(c, from, counter, queues, status, assigned),
         created' = created, status' = status, runs' = runs, jobs' = jobs,
         tripped' = tripped, unhealthy' = unhealthy
  PROVE  StillWhole
<1>1. /\ Orderly /\ unhealthy = {} /\ tripped = {}
      /\ Whole(created, status, queues, frame, runs, jobs)
      /\ counter = Slots(status, frame)
  BY DEF SlotInv
<1>2. /\ Whole(created, status, queues', frame', runs, jobs)
      /\ counter' = Slots(status, frame')
  BY <1>1, InvFacts, ScanKeeps
<1> QED  BY <1>1, <1>2 DEF StillWhole

(* What follows an assignment that came to its end: the submission is over, *)
(* or the scan goes on.                                                     *)
LEMMA ReturnKeeps ==
  ASSUME SlotInv, NEW c \in Coroutines, frame[c].stage \in {"announce", "execute"},
         \A t \in Tasks : Away(frame[c], t),
         Return(c, TRUE, counter, status, assigned),
         created' = created, status' = status, runs' = runs,
         tripped' = tripped, unhealthy' = unhealthy
  PROVE  StillWhole
<1>1. ~ExecutorOnSubmit /\ Shaped(frame[c]) /\ frame[c] \in Framed
  BY InvFacts DEF SlotInv, Orderly
<1>2. CASE frame[c].kind = "submit"
  <2>1. /\ frame' = [frame EXCEPT ![c] = Idle]
        /\ counter' = counter /\ jobs' = jobs /\ queues' = queues
    BY <1>1, <1>2 DEF Return
  <2>2. /\ \A e \in Coroutines : e # c => frame'[e] = frame[e]
        /\ frame'[c] = Idle
    BY <2>1, InvFacts
  <2>3. /\ Shaped(Idle) /\ ~Reserves(Idle) /\ \A t : Away(Idle, t)
        /\ ~Reserves(frame[c])
    BY DEF Shaped, Idle, Frame, Reserves, Away
  <2>4. ASSUME NEW t \in Tasks
        PROVE  Placed(t, created', status', queues', frame', runs', jobs')
    <3>1. Away(frame'[c], t) /\ Away(frame[c], t)
      BY <2>2, <2>3
    <3> QED  BY <2>1, <2>2, <3>1, StaysPlaced
  <2>5. Slots(status, frame) \in Nat
    BY <1>1, SlotsOfStatus DEF Framed
  <2>6. Slots(status, frame') = Slots(status, frame)
    BY <2>2, <2>3, <2>5, SlotsOfFrame
  <2>7. \A e \in Coroutines : Shaped(frame'[e])
    BY <2>2, <2>3, InvFacts
  <2> QED  BY <2>1, <2>4, <2>6, <2>7 DEF StillWhole, Whole, SlotInv
<1>3. CASE frame[c].kind = "scan"
  <2>1. /\ ProcessQueue(c, frame[c].from, counter, queues, status, assigned)
        /\ jobs' = jobs
    BY <1>3 DEF Return
  <2>2. frame[c].from \in 0 .. 4
    BY <1>1 DEF Framed, Frames
  <2> QED  BY <2>1, <2>2, ScanStillWhole
<1>4. frame[c].kind \in {"submit", "scan"}
  BY <1>1 DEF Shaped
<1> QED  BY <1>2, <1>3, <1>4

(* Nothing of what an assignment may run into happens: each of its steps    *)
(* hands the task on.                                                       *)
LEMMA AssignmentKeeps ==
  ASSUME SlotInv, NEW c \in Coroutines, Assignment(c)
  PROVE  StillWhole
<1>1. CASE BreakerRejects(c)
  BY <1>1 DEF BreakerRejects, SlotInv
<1>2. CASE SpawnAgent(c)
  BY <1>2, SpawnKeeps
<1>3. CASE StartTask(c)
  BY <1>3, StartKeeps
<1>4. CASE PluginAccepts(c)
  BY <1>4, AcceptKeeps
<1>5. CASE PluginRefuses(c)
  BY <1>5 DEF PluginRefuses, SlotInv, Orderly
<1>6. CASE NoHandler(c)
  <2>1. /\ frame[c].stage = "announce" /\ frame[c].domain \notin Handlers[frame[c].task]
        /\ Return(c, TRUE, counter, status, assigned)
        /\ created' = created /\ status' = status /\ runs' = runs
        /\ tripped' = tripped /\ unhealthy' = unhealthy
    BY <1>6 DEF NoHandler, At, record, faults
  <2>2. frame[c].domain \in Domains /\ frame[c].task \in Tasks
    BY <2>1, HandsTask, InvFacts DEF Shaped
  <2>3. EventsOnAssign
    BY <2>1, <2>2 DEF SlotInv, Orderly
  <2>4. \A t \in Tasks : Away(frame[c], t)
    BY <2>1, <2>3 DEF Away
  <2> QED  BY <2>1, <2>4, ReturnKeeps
<1>7. CASE ExecuteReturns(c)
  <2>1. /\ frame[c].stage = "execute"
        /\ Return(c, TRUE, counter, status, assigned)
        /\ created' = created /\ status' = status /\ runs' = runs
        /\ tripped' = tripped /\ unhealthy' = unhealthy
    BY <1>7 DEF ExecuteReturns, At, record, faults
  <2>2. \A t \in Tasks : Away(frame[c], t)
    BY <2>1 DEF Away
  <2> QED  BY <2>1, <2>2, ReturnKeeps
<1> QED  BY <1>1, <1>2, <1>3, <1>4, <1>5, <1>6, <1>7 DEF Assignment

(* A suspended scan goes on, and a domain's event starts one. *)
LEMMA ScansKeep ==
  ASSUME SlotInv, NEW c \in Coroutines, ScanResumes(c) \/ DomainEvent(c)
  PROVE  StillWhole
<1>1. CASE ScanResumes(c)
  <2>1. /\ frame[c].stage = "resume"
        /\ ProcessQueue(c, frame[c].from, counter, queues, status, assigned)
        /\ created' = created /\ status' = status /\ runs' = runs /\ jobs' = jobs
        /\ tripped' = tripped /\ unhealthy' = unhealthy
    BY <1>1 DEF ScanResumes, At, record, work, faults
  <2>2. \A t \in Tasks : Away(frame[c], t)
    BY <2>1 DEF Away
  <2>3. frame[c].from \in 0 .. 4
    BY InvFacts DEF Framed, Frames
  <2> QED  BY <2>1, <2>2, <2>3, ScanStillWhole
<1>2. CASE DomainEvent(c)
  <2>1. /\ Fresh(c) /\ ProcessQueue(c, 0, counter, queues, status, assigned)
        /\ created' = created /\ status' = status /\ runs' = runs /\ jobs' = jobs
        /\ tripped' = tripped /\ unhealthy' = unhealthy
    BY <1>2 DEF DomainEvent, record, work, faults
  <2>2. \A t \in Tasks : Away(frame[c], t)
    BY <2>1, FreeSlot
  <2> QED  BY <2>1, <2>2, ScanStillWhole
<1> QED  BY <1>1, <1>2

---------------------------------------------------------------------------
(* A task that has a reporter is nowhere else. *)
LEMMA WithReporter ==
  ASSUME SlotInv, NEW t \in Tasks, runs[t] + jobs[t] > 0
  PROVE  /\ Entries(queues, t) = 0 /\ t \in created /\ status[t] # "queued"
         /\ \A e \in Coroutines : ~Assigns(frame[e], t)
         /\ \/ runs[t] = 1 /\ jobs[t] = 0 /\ ~EventsOnAssign /\ status[t] = "running"
            \/ runs[t] = 0 /\ jobs[t] = 1 /\ EventsOnAssign
<1>1. /\ Placed(t, created, status, queues, frame, runs, jobs)
      /\ Entries(queues, t) \in 0 .. 1 /\ runs[t] \in Nat /\ jobs[t] \in Nat
  BY InvFacts
<1>2. ~(runs[t] = 0 /\ jobs[t] = 0)
  BY <1>1
<1>3. Entries(queues, t) # 1 /\ \A e \in Coroutines : ~Assigns(frame[e], t)
  BY <1>1, <1>2 DEF Placed
<1>4. \A e \in Coroutines : ~Carries(frame[e], t)
  BY <1>3 DEF Assigns, Carries
<1>5. status[t] # "queued" /\ t \in created
  BY <1>1, <1>2, <1>3, <1>4 DEF Placed
<1>6. \/ runs[t] = 1 /\ jobs[t] = 0
      \/ runs[t] = 0 /\ jobs[t] = 1
  BY <1>1, <1>2 DEF Placed
<1>7. \/ runs[t] = 1 /\ jobs[t] = 0 /\ ~EventsOnAssign /\ status[t] = "running"
      \/ runs[t] = 0 /\ jobs[t] = 1 /\ EventsOnAssign
  BY <1>1, <1>6 DEF Placed
<1> QED  BY <1>1, <1>3, <1>5, <1>7

(* Its report ends the task and gives its slot back, once. *)
LEMMA ReportKeeps ==
  ASSUME SlotInv, NEW t \in Tasks, NEW c \in Coroutines, Fresh(c),
         runs[t] + jobs[t] > 0, status[t] # "none",
         status'[t] \in Finished, \A u \in Tasks : u # t => status'[u] = status[u],
         runs'[t] = 0, \A u \in Tasks : u # t => runs'[u] = runs[u],
         jobs'[t] = 0, \A u \in Tasks : u # t => jobs'[u] = jobs[u],
         counter' = CounterAfterEvent(t), ScanLater(c),
         created' = created, queues' = queues, tripped' = tripped, unhealthy' = unhealthy
  PROVE  StillWhole
<1>1. /\ \A e \in Coroutines : e # c => frame'[e] = frame[e]
      /\ frame'[c] = Scan(0)
  BY InvFacts DEF ScanLater
<1>2. /\ Shaped(Scan(0)) /\ ~Reserves(Scan(0)) /\ \A u : Away(Scan(0), u)
      /\ ~Reserves(frame[c]) /\ \A u : Away(frame[c], u)
  BY FreeSlot DEF Shaped, Scan, Frame, Reserves, Away
<1>3. ASSUME NEW u \in Tasks, u # t
      PROVE  Placed(u, created', status', queues', frame', runs', jobs')
  <2>1. Away(frame'[c], u) /\ Away(frame[c], u)
    BY <1>1, <1>2
  <2> QED  BY <1>1, <1>3, <2>1, StaysPlaced
<1>4. Placed(t, created', status', queues', frame', runs', jobs')
  <2>1. /\ Entries(queues, t) = 0 /\ t \in created
        /\ \A e \in Coroutines : ~Assigns(frame[e], t)
    BY WithReporter
  <2>2. \A e \in Coroutines : ~Assigns(frame'[e], t)
    BY <1>1, <2>1 DEF Assigns, Scan, Frame
  <2>3. \A e \in Coroutines : ~Carries(frame'[e], t) /\
                              ~(frame'[e].task = t /\ frame'[e].stage = "governance")
    BY <2>2 DEF Assigns, Carries
  <2>4. ~EventsOnAssign =>
          ~ \E e \in Coroutines : frame'[e].task = t /\ frame'[e].stage = "announce"
    BY <2>2 DEF Assigns
  <2>5. status'[t] # "queued" /\ status'[t] # "running"
    BY DEF Finished
  <2> QED  BY <2>1, <2>2, <2>3, <2>4, <2>5 DEF Placed
<1>5. counter' = Slots(status', frame')
  <2>0. status'[t] # "running"
    BY DEF Finished
  <2>1. /\ Slots(status, frame) \in Nat
        /\ status[t] = "running" => Slots(status, frame) > 0
        /\ Slots(status', frame) =
             Slots(status, frame) - (IF status[t] = "running" THEN 1 ELSE 0)
                                  + (IF status'[t] = "running" THEN 1 ELSE 0)
    BY SlotsOfStatus
  <2>2. Slots(status', frame) \in Nat
    BY <2>0, <2>1
  <2>4. Slots(status', frame') = Slots(status', frame)
    BY <1>1, <1>2, <2>2, SlotsOfFrame
  <2>3. counter = Slots(status, frame)
    BY DEF SlotInv
  <2> QED  BY <2>0, <2>1, <2>3, <2>4 DEF CounterAfterEvent, Released
<1>6. \A e \in Coroutines : Shaped(frame'[e])
  BY <1>1, <1>2, InvFacts
<1> QED  BY <1>3, <1>4, <1>5, <1>6, InvFacts DEF StillWhole, Whole, SlotInv

(* A plugin's callback. *)
LEMMA CompletionKeeps ==
  ASSUME SlotInv, NEW t \in Tasks, NEW c \in Coroutines, PluginCompletes(t, c)
  PROVE  StillWhole
<1>1. /\ runs[t] > 0 /\ Fresh(c) /\ runs' = [runs EXCEPT ![t] = runs[t] - 1]
      /\ created' = created /\ queues' = queues /\ jobs' = jobs
      /\ tripped' = tripped /\ unhealthy' = unhealthy
  BY DEF PluginCompletes, faults
<1>2. runs[t] = 1 /\ jobs[t] = 0 /\ status[t] = "running" /\ runs[t] + jobs[t] > 0
  <2>1. runs[t] \in Nat /\ jobs[t] \in Nat
    BY InvFacts
  <2>2. runs[t] + jobs[t] > 0
    BY <1>1, <2>1
  <2> QED  BY <1>1, <2>2, WithReporter
<1>3. PICK result \in {"completed", "failed"} :
        /\ status' = [status EXCEPT ![t] = result]
        /\ counter' = Released(counter) /\ ScanLater(c)
  BY <1>2 DEF PluginCompletes
<1>4. status'[t] \in Finished /\ \A u \in Tasks : u # t => status'[u] = status[u]
  BY <1>3, InvFacts DEF TypeOK, Finished
<1>5. /\ runs'[t] = 0 /\ \A u \in Tasks : u # t => runs'[u] = runs[u]
      /\ jobs'[t] = 0 /\ \A u \in Tasks : u # t => jobs'[u] = jobs[u]
  BY <1>1, <1>2, InvFacts DEF TypeOK
<1>6. counter' = CounterAfterEvent(t)
  BY <1>2, <1>3 DEF CounterAfterEvent
<1> QED  BY <1>1, <1>2, <1>3, <1>4, <1>5, <1>6, ReportKeeps

(* An event about a task whose record is gone is followed by a scan. *)
LEMMA LateEventKeeps ==
  ASSUME SlotInv, NEW t \in Tasks, NEW c \in Coroutines, Fresh(c),
         runs[t] + jobs[t] > 0, status[t] = "none",
         jobs'[t] = 0, \A u \in Tasks : u # t => jobs'[u] = jobs[u],
         ProcessQueue(c, 0, counter, queues, status, assigned),
         created' = created, status' = status, runs' = runs,
         tripped' = tripped, unhealthy' = unhealthy
  PROVE  StillWhole
<1>1. /\ Entries(queues, t) = 0 /\ t \in created
      /\ \A e \in Coroutines : ~Assigns(frame[e], t)
      /\ runs[t] = 0
  BY WithReporter
<1>2. ASSUME NEW u \in Tasks
      PROVE  Placed(u, created, status, queues, frame, runs, jobs')
  <2>1. Placed(u, created, status, queues, frame, runs, jobs)
    BY InvFacts
  <2>2. CASE u # t
    BY <2>1, <2>2, Untouched
  <2>3. CASE u = t
    BY <1>1, <2>1, <2>3 DEF Placed
  <2> QED  BY <2>2, <2>3
<1>3. Whole(created, status, queues, frame, runs, jobs')
  BY <1>2, InvFacts DEF Whole
<1>4. \A u \in Tasks : Away(frame[c], u)
  BY FreeSlot
<1>5. Orderly /\ unhealthy = {} /\ tripped = {} /\ counter = Slots(status, frame)
  BY DEF SlotInv
<1>6. /\ Whole(created, status, queues', frame', runs, jobs')
      /\ counter' = Slots(status, frame')
  BY <1>3, <1>4, <1>5, InvFacts, ScanKeeps
<1> QED  BY <1>5, <1>6 DEF StillWhole

(* What an event about t does to its worker. *)
LEMMA WorkerReports ==
  ASSUME SlotInv, NEW t \in Tasks, jobs[t] > 0, jobs' = [jobs EXCEPT ![t] = @ - 1]
  PROVE  /\ runs[t] + jobs[t] > 0 /\ EventsOnAssign /\ runs[t] = 0
         /\ jobs'[t] = 0 /\ \A u \in Tasks : u # t => jobs'[u] = jobs[u]
<1>1. runs[t] \in Nat /\ jobs[t] \in Nat
  BY InvFacts
<1>2. runs[t] + jobs[t] > 0
  BY <1>1
<1>3. jobs[t] = 1 /\ EventsOnAssign /\ runs[t] = 0
  BY <1>2, WithReporter
<1> QED  BY <1>2, <1>3, InvFacts DEF TypeOK

(* A worker's success. *)
LEMMA SuccessKeeps ==
  ASSUME SlotInv, NEW t \in Tasks, NEW c \in Coroutines, EventCompleted(t, c)
  PROVE  StillWhole
<1>1. /\ jobs[t] > 0 /\ Fresh(c) /\ jobs' = [jobs EXCEPT ![t] = @ - 1]
      /\ created' = created /\ runs' = runs
      /\ tripped' = tripped /\ unhealthy' = unhealthy
  BY DEF EventCompleted, faults
<1>2. /\ runs[t] + jobs[t] > 0 /\ runs'[t] = 0
      /\ jobs'[t] = 0 /\ \A u \in Tasks : u # t => jobs'[u] = jobs[u]
  BY <1>1, WorkerReports
<1>3. CASE status[t] = "none"
  <2>1. /\ ProcessQueue(c, 0, counter, queues, status, assigned)
        /\ status' = status
    BY <1>3 DEF EventCompleted
  <2> QED  BY <1>1, <1>2, <1>3, <2>1, LateEventKeeps
<1>4. CASE status[t] # "none"
  <2>1. /\ counter' = CounterAfterEvent(t) /\ ScanLater(c) /\ queues' = queues
        /\ status' = [status EXCEPT ![t] = "completed"]
    BY <1>4 DEF EventCompleted
  <2>2. status'[t] \in Finished /\ \A u \in Tasks : u # t => status'[u] = status[u]
    BY <2>1, InvFacts DEF TypeOK, Finished
  <2> QED  BY <1>1, <1>2, <1>4, <2>1, <2>2, ReportKeeps
<1> QED  BY <1>3, <1>4

(* A failed task waits again, and frees its slot, before the scan. *)
LEMMA RetryKeeps ==
  ASSUME SlotInv, NEW t \in Tasks, NEW c \in Coroutines, Fresh(c),
         runs[t] + jobs[t] > 0, status[t] # "none", EventsOnAssign, runs[t] = 0,
         status'[t] = "queued", \A u \in Tasks : u # t => status'[u] = status[u],
         jobs'[t] = 0, \A u \in Tasks : u # t => jobs'[u] = jobs[u],
         ProcessQueue(c, 0, CounterAfterEvent(t), EnqueueTask(queues, t), status', assigned),
         created' = created, runs' = runs, tripped' = tripped, unhealthy' = unhealthy
  PROVE  StillWhole
<1> DEFINE q == EnqueueTask(queues, t)
           n == CounterAfterEvent(t)
<1>1. /\ Entries(queues, t) = 0 /\ t \in created
      /\ \A e \in Coroutines : ~Assigns(frame[e], t)
  BY WithReporter
<1>2. q \in OrderedQueues /\ Added(queues, q, t)
  BY EnqueueType, EnqueueAdds, InvFacts
<1>3. ProcessQueue(c, 0, n, q, status', assigned)
  OBVIOUS
<1>4. /\ Orderly /\ unhealthy = {} /\ tripped = {}
      /\ counter = Slots(status, frame)
  BY DEF SlotInv
<1>5. n = Slots(status', frame)
  <2>1. /\ Slots(status, frame) \in Nat
        /\ status[t] = "running" => Slots(status, frame) > 0
        /\ Slots(status', frame) =
             Slots(status, frame) - (IF status[t] = "running" THEN 1 ELSE 0)
                                  + (IF status'[t] = "running" THEN 1 ELSE 0)
    BY SlotsOfStatus
  <2> QED  BY <1>4, <2>1 DEF CounterAfterEvent, Released
<1> HIDE DEF q, n
<1>6. /\ Tidy(q)
      /\ \A u \in Tasks : Entries(q, u) = IF u = t THEN 1 ELSE Entries(queues, u)
  BY <1>1, <1>2, TidyAdded, InvFacts
<1>7. ASSUME NEW u \in Tasks, u # t
      PROVE  Placed(u, created, status', q, frame, runs, jobs')
  <2>1. Placed(u, created, status, queues, frame, runs, jobs)
    BY InvFacts
  <2> QED  BY <1>6, <1>7, <2>1, Untouched
<1>8. Placed(t, created, status', q, frame, runs, jobs')
  <2>1. \A e \in Coroutines : ~Carries(frame[e], t) /\
                              ~(frame[e].task = t /\ frame[e].stage = "governance")
    BY <1>1 DEF Assigns, Carries
  <2>2. Entries(q, t) = 1
    BY <1>6
  <2> QED  BY <1>1, <2>1, <2>2 DEF Placed
<1>9. Whole(created, status', q, frame, runs, jobs')
  BY <1>6, <1>7, <1>8, InvFacts DEF Whole
<1>10. \A u \in Tasks : Away(frame[c], u)
  BY FreeSlot
<1>11. /\ Whole(created, status', queues', frame', runs, jobs')
       /\ counter' = Slots(status', frame')
  BY <1>2, <1>3, <1>4, <1>5, <1>9, <1>10, InvFacts, ScanKeeps
<1> QED  BY <1>4, <1>11 DEF StillWhole

(* A worker's failure. *)
LEMMA FailureKeeps ==
  ASSUME SlotInv, NEW t \in Tasks, NEW c \in Coroutines, EventFailed(t, c)
  PROVE  StillWhole
<1>1. /\ jobs[t] > 0 /\ Fresh(c) /\ jobs' = [jobs EXCEPT ![t] = @ - 1]
      /\ created' = created /\ runs' = runs
      /\ tripped' = tripped /\ unhealthy' = unhealthy
  BY DEF EventFailed, SlotInv, Orderly
<1>2. /\ runs[t] + jobs[t] > 0 /\ runs[t] = 0 /\ runs'[t] = 0 /\ EventsOnAssign
      /\ jobs'[t] = 0 /\ \A u \in Tasks : u # t => jobs'[u] = jobs[u]
  BY <1>1, WorkerReports
<1>3. CASE /\ status[t] = "none" /\ status' = status
           /\ ProcessQueue(c, 0, counter, queues, status, assigned)
  BY <1>1, <1>2, <1>3, LateEventKeeps
<1>4. CASE /\ status[t] # "none" /\ status' = [status EXCEPT ![t] = "queued"]
           /\ ProcessQueue(c, 0, CounterAfterEvent(t), EnqueueTask(queues, t),
                           [status EXCEPT ![t] = "queued"], assigned)
  <2>1. status'[t] = "queued" /\ \A u \in Tasks : u # t => status'[u] = status[u]
    BY <1>4, InvFacts DEF TypeOK
  <2>2. ProcessQueue(c, 0, CounterAfterEvent(t), EnqueueTask(queues, t), status', assigned)
    BY <1>4
  <2> QED  BY <1>1, <1>2, <1>4, <2>1, <2>2, RetryKeeps
<1>5. CASE /\ status[t] # "none" /\ status' = [status EXCEPT ![t] = "failed"]
           /\ counter' = CounterAfterEvent(t) /\ ScanLater(c) /\ queues' = queues
  <2>1. status'[t] \in Finished /\ \A u \in Tasks : u # t => status'[u] = status[u]
    BY <1>5, InvFacts DEF TypeOK, Finished
  <2> QED  BY <1>1, <1>2, <1>5, <2>1, ReportKeeps
<1> QED  BY <1>3, <1>4, <1>5 DEF EventFailed

---------------------------------------------------------------------------
(* A cancelled task leaves the queue, and gives back the slot it held if it *)
(* ran.  A coroutine that carries it goes on: the slot it reserved is still *)
(* reserved.                                                                *)
LEMMA CancelKeeps ==
  ASSUME SlotInv, EventsOnAssign, NEW t \in Tasks, Cancel(t)
  PROVE  StillWhole
<1>1. /\ status[t] \in {"queued", "running", "cancelled"}
      /\ counter' = CounterAfterEvent(t)
      /\ status' = [status EXCEPT ![t] = "cancelled"]
      /\ queues' = RemoveFromQueues(queues, t)
      /\ created' = created /\ frame' = frame /\ runs' = runs /\ jobs' = jobs
      /\ tripped' = tripped /\ unhealthy' = unhealthy
  BY DEF Cancel, CounterAfterEvent, work, faults
<1>2. EventsOnAssign
  OBVIOUS
<1>3. status'[t] = "cancelled" /\ \A u \in Tasks : u # t => status'[u] = status[u]
  BY <1>1, InvFacts DEF TypeOK
<1>4. Removed(queues, queues', t)
  BY <1>1, RemoveRemoves, InvFacts
<1>5. /\ Tidy(queues')
      /\ \A u \in Tasks : Entries(queues', u) = IF u = t THEN 0 ELSE Entries(queues, u)
  BY <1>4, TidyRemoved, InvFacts
<1>6. ASSUME NEW u \in Tasks, u # t
      PROVE  Placed(u, created', status', queues', frame', runs', jobs')
  BY <1>1, <1>3, <1>5, <1>6, StaysPlaced
<1>7. Placed(t, created', status', queues', frame', runs', jobs')
  <2>1. Placed(t, created, status, queues, frame, runs, jobs)
    BY InvFacts
  <2>2. Entries(queues', t) # 1
    BY <1>5
  <2>3. \A e \in Coroutines : ~(frame[e].task = t /\ frame[e].stage = "governance")
    BY <1>1, <2>1 DEF Placed
  <2>4. t \in created
    BY <1>1, <2>1 DEF Placed
  <2> QED  BY <1>1, <1>2, <1>3, <2>1, <2>2, <2>3, <2>4 DEF Placed
<1>8. Slots(status', frame) = CounterAfterEvent(t)
  <2>1. /\ Slots(status, frame) \in Nat
        /\ status[t] = "running" => Slots(status, frame) > 0
        /\ Slots(status', frame) =
             Slots(status, frame) - (IF status[t] = "running" THEN 1 ELSE 0)
                                  + (IF status'[t] = "running" THEN 1 ELSE 0)
    BY <1>3, SlotsOfStatus
  <2>2. counter = Slots(status, frame)
    BY DEF SlotInv
  <2> QED  BY <1>3, <2>1, <2>2 DEF CounterAfterEvent, Released
<1> QED  BY <1>1, <1>5, <1>6, <1>7, <1>8, InvFacts DEF StillWhole, Whole, SlotInv

(* Only the records of tasks that no coroutine has in hand are dropped. *)
LEMMA CleanupKeeps ==
  ASSUME SlotInv, NEW t \in Tasks, CleanupTask(t)
  PROVE  StillWhole
<1>1. /\ status[t] \in Finished /\ \A e \in Coroutines : frame[e].task # t
      /\ status' = [status EXCEPT ![t] = "none"]
      /\ counter' = counter /\ queues' = queues
      /\ created' = created /\ frame' = frame /\ runs' = runs /\ jobs' = jobs
      /\ tripped' = tripped /\ unhealthy' = unhealthy
  BY DEF CleanupTask, work, faults
<1>2. status'[t] = "none" /\ \A u \in Tasks : u # t => status'[u] = status[u]
  BY <1>1, InvFacts DEF TypeOK
<1>3. ASSUME NEW u \in Tasks, u # t
      PROVE  Placed(u, created', status', queues', frame', runs', jobs')
  BY <1>1, <1>2, <1>3, StaysPlaced
<1>4. Placed(t, created', status', queues', frame', runs', jobs')
  <2>1. Placed(t, created, status, queues, frame, runs, jobs)
    BY InvFacts
  <2>2. status[t] \notin {"none", "queued", "running"}
    BY <1>1 DEF Finished
  <2>3. \A e \in Coroutines : ~Assigns(frame[e], t) /\ ~Carries(frame[e], t)
    BY <1>1 DEF Assigns, Carries
  <2> QED  BY <1>1, <1>2, <2>1, <2>2, <2>3 DEF Placed
<1>5. Slots(status', frame) = Slots(status, frame)
  <2>1. status[t] # "running"
    BY <1>1 DEF Finished
  <2>2. /\ Slots(status, frame) \in Nat
        /\ Slots(status', frame) =
             Slots(status, frame) - (IF status[t] = "running" THEN 1 ELSE 0)
                                  + (IF status'[t] = "running" THEN 1 ELSE 0)
    BY <1>2, SlotsOfStatus
  <2> QED  BY <1>2, <2>1, <2>2
<1> QED  BY <1>1, <1>3, <1>4, <1>5, InvFacts DEF StillWhole, Whole, SlotInv

---------------------------------------------------------------------------
(* The slots are right wherever nothing is: what the start and each restart *)
(* have in common.                                                          *)
LEMMA EmptyHasSlots ==
  ASSUME NEW cr, NEW st, NEW q, NEW fr, NEW rn, NEW jb,
         st = [t \in Tasks |-> "none"], q = EmptyQueues,
         fr = [c \in Coroutines |-> Idle],
         rn = [t \in Tasks |-> 0], jb = [t \in Tasks |-> 0]
  PROVE  Whole(cr, st, q, fr, rn, jb) /\ Slots(st, fr) = 0
<1>1. /\ \A p \in Priorities, t \in Tasks : Copies(q.prio[p], t) = 0
      /\ \A d \in Domains, t \in Tasks : Copies(q.domain[d], t) = 0
  <2>1. \A t : Copies(<<>>, t) = 0
    BY FS_EmptySet DEF Copies
  <2>2. /\ \A p \in Priorities : q.prio[p] = <<>>
        /\ \A d \in Domains : q.domain[d] = <<>>
    BY DEF EmptyQueues
  <2> QED  BY <2>1, <2>2
<1>2. Tidy(q) /\ \A t \in Tasks : Entries(q, t) = 0
  BY <1>1, PriorityAssumption DEF Tidy, Entries
<1>3. \A c \in Coroutines :
        /\ Shaped(fr[c]) /\ ~Reserves(fr[c]) /\ fr[c].stage = "none"
        /\ \A t : ~Assigns(fr[c], t) /\ ~Carries(fr[c], t)
  BY DEF Shaped, Idle, Frame, Reserves, Assigns, Carries
<1>4. ASSUME NEW t \in Tasks PROVE Placed(t, cr, st, q, fr, rn, jb)
  <2>1. Entries(q, t) # 1 /\ st[t] = "none" /\ rn[t] = 0 /\ jb[t] = 0
    BY <1>2
  <2> QED  BY <1>3, <2>1 DEF Placed
<1>5. RunningIn(st) = {} /\ ReservingIn(fr) = {}
  BY <1>3 DEF RunningIn, ReservingIn
<1> QED  BY <1>2, <1>3, <1>4, <1>5, FS_EmptySet DEF Whole, Slots

(* At the start nothing is anywhere. *)
LEMMA InitHasSlots ==
  ASSUME Orderly, Init
  PROVE  SlotInv
<1>1. IInv
  BY InitHasInv
<1>2. Whole(created, status, queues, frame, runs, jobs) /\ Slots(status, frame) = 0
  BY EmptyHasSlots DEF Init
<1> QED  BY <1>1, <1>2 DEF Init, SlotInv

(* Every step keeps the slots. *)
LEMMA NextKeepsSlots == SlotInv /\ [Next]_vars => SlotInv'
<1> SUFFICES ASSUME SlotInv, [Next]_vars
             PROVE  SlotInv'
  OBVIOUS
<1>1. IInv'
  BY NextKeepsInv DEF SlotInv
<1>2. StillWhole
  <2>1. ASSUME NEW c \in Coroutines, Continue(c)
        PROVE  StillWhole
    <3>1. CASE Governance(c)
      BY <3>1, RejectionKeeps, QueueTaskKeeps, AssignDirectlyKeeps DEF Governance
    <3>2. CASE Assignment(c)
      BY <3>2, AssignmentKeeps
    <3>3. CASE ScanResumes(c)
      BY <3>3, ScansKeep
    <3>4. CASE Stealing(c)
      BY <3>4, InvFacts DEF Stealing, StealingContinues, StealingEnds, Shaped
    <3> QED  BY <2>1, <3>1, <3>2, <3>3, <3>4 DEF Continue
  <2>2. ASSUME NEW c \in Coroutines, StealingStarts(c)
        PROVE  StillWhole
    BY <2>2 DEF StealingStarts, SlotInv, Orderly
  <2>3. ASSUME NEW c \in Coroutines, DomainEvent(c)
        PROVE  StillWhole
    BY <2>3, ScansKeep
  <2>4. ASSUME NEW t \in Tasks, NEW c \in Coroutines,
               SubmitTask(t, c) \/ PluginCompletes(t, c)
               \/ EventCompleted(t, c) \/ EventFailed(t, c)
        PROVE  StillWhole
    BY <2>4, SubmitKeeps, CompletionKeeps, SuccessKeeps, FailureKeeps
  <2>5. ASSUME NEW t \in Tasks, CancelTask(t) \/ CleanupTask(t)
        PROVE  StillWhole
    <3>1. CASE CancelTask(t)
      BY <3>1, CancelKeeps DEF CancelTask, SlotInv, Orderly
    <3> QED  BY <2>5, <3>1, CleanupKeeps
  <2>6. ASSUME NEW d \in Domains, BreakerTimeout(d) \/ PluginDisposed(d)
        PROVE  StillWhole
    BY <2>6 DEF BreakerTimeout, PluginDisposed, SlotInv, Orderly
  <2>7. CASE UNCHANGED vars
    <3>1. /\ created' = created /\ status' = status /\ queues' = queues /\ frame' = frame
          /\ runs' = runs /\ jobs' = jobs /\ counter' = counter
          /\ tripped' = tripped /\ unhealthy' = unhealthy
      BY <2>7 DEF vars, record, work, faults
    <3> QED  BY <3>1 DEF StillWhole, SlotInv
  <2>8. CASE Next
    BY <2>1, <2>2, <2>3, <2>4, <2>5, <2>6, <2>8 DEF Next
  <2> QED  BY <2>7, <2>8
<1>3. Orderly'
  BY DEF SlotInv, Orderly
<1> QED  BY <1>1, <1>2, <1>3 DEF StillWhole, SlotInv

(* The slots are in order in every reachable state. *)
LEMMA SlotsInvariant == Orderly /\ Spec => []SlotInv
<1>1. Orderly /\ Init => SlotInv
  BY InitHasSlots
<1> QED  BY <1>1, NextKeepsSlots, PTL DEF Spec

---------------------------------------------------------------------------
(* What the invariant tells of the slots, the queues and the workers. *)
LEMMA SlotsTell ==
  SlotInv => CounterExact /\ CapacityRespected /\ NoTaskLost /\ IndexesAgree /\ RunningHasWorker
<1>1. SlotInv => CounterExact
  BY DEF SlotInv, Slots, CounterExact, RunningIn, Running, ReservingIn, Reserving, Reserves
<1>2. SlotInv => CapacityRespected
  <2> SUFFICES ASSUME SlotInv PROVE CapacityRespected
    OBVIOUS
  <2>1. counter <= MaxConcurrent
    BY DEF SlotInv, IInv, CounterWithinLimit
  <2>2. IsFiniteSet(RunningIn(status)) /\ IsFiniteSet(ReservingIn(frame))
    BY TaskAssumption, IdAssumption, FS_Subset DEF RunningIn, ReservingIn
  <2>3. /\ Cardinality(RunningIn(status)) \in Nat
        /\ Cardinality(ReservingIn(frame)) \in Nat
    BY <2>2, FS_CardinalityType
  <2>4. counter = Cardinality(RunningIn(status)) + Cardinality(ReservingIn(frame))
    BY DEF SlotInv, Slots
  <2>5. Cardinality(RunningIn(status)) <= MaxConcurrent
    BY <2>1, <2>3, <2>4, CapacityAssumption
  <2> QED  BY <2>5 DEF CapacityRespected, RunningIn, Running
<1>3. SlotInv => NoTaskLost
  <2> SUFFICES ASSUME SlotInv, NEW t \in Tasks, status[t] = "queued"
               PROVE  Entries(queues, t) + Cardinality(Carrying(t)) = 1
    BY DEF NoTaskLost, Entries
  <2>1. /\ Placed(t, created, status, queues, frame, runs, jobs)
        /\ Entries(queues, t) \in 0 .. 1
    BY InvFacts
  <2>2. Carrying(t) = {c \in Coroutines : Carries(frame[c], t)}
    BY DEF Carrying, Carries
  <2>3. CASE Entries(queues, t) = 1
    <3>1. \A c \in Coroutines : ~Assigns(frame[c], t)
      BY <2>1, <2>3 DEF Placed
    <3>2. Carrying(t) = {}
      BY <2>2, <3>1 DEF Carries, Assigns
    <3> QED  BY <2>3, <3>2, FS_EmptySet
  <2>4. CASE Entries(queues, t) # 1
    <3>1. PICK c \in Coroutines : Carries(frame[c], t)
      BY <2>1, <2>4 DEF Placed
    <3>2. \A e \in Coroutines : Carries(frame[e], t) => e = c
      <4>1. \A e \in Coroutines : Carries(frame[e], t) => Assigns(frame[e], t)
        BY DEF Carries, Assigns
      <4> QED  BY <2>1, <3>1, <4>1 DEF Placed
    <3>3. Carrying(t) = {c}
      BY <2>2, <3>1, <3>2
    <3>4. Entries(queues, t) = 0
      BY <2>1, <2>4
    <3> QED  BY <3>3, <3>4, FS_Singleton
  <2> QED  BY <2>3, <2>4
<1>4. SlotInv => IndexesAgree
  BY InvFacts DEF IndexesAgree, Tidy, Entries
<1>5. SlotInv => RunningHasWorker
  <2> SUFFICES ASSUME SlotInv, NEW t \in Tasks, status[t] = "running",
                      ~ \E c \in Coroutines : frame[c].task = t /\ frame[c].stage = "announce"
               PROVE  runs[t] + jobs[t] > 0
    BY DEF RunningHasWorker, Running
  <2>1. /\ Placed(t, created, status, queues, frame, runs, jobs)
        /\ runs[t] \in Nat /\ jobs[t] \in Nat
    BY InvFacts
  <2>2. runs[t] = 1 \/ jobs[t] = 1
    BY <2>1 DEF Placed
  <2> QED  BY <2>1, <2>2
<1> QED  BY <1>1, <1>2, <1>3, <1>4, <1>5

(* runningTaskCounter counts the running tasks and the assignments in       *)
(* progress: no slot leaks and none is given back twice, for any number of  *)
(* calls in progress, whoever reports the tasks.                            *)
THEOREM Exact == Orderly /\ Spec => []CounterExact
<1> QED  BY SlotsTell, SlotsInvariant, PTL

(* So no more than maxConcurrentTasks tasks run (CC-002). *)
THEOREM Capacity == Orderly /\ Spec => []CapacityRespected
<1> QED  BY SlotsTell, SlotsInvariant, PTL

(* A task that waits is in the queue once or in the hands of one coroutine: *)
(* no interleaving of scans, reports and cancellations forgets or doubles   *)
(* it.                                                                      *)
THEOREM Lost == Orderly /\ Spec => []NoTaskLost
<1> QED  BY SlotsTell, SlotsInvariant, PTL

(* The priority queues and the domain queues hold the same entries. *)
THEOREM Agree == Orderly /\ Spec => []IndexesAgree
<1> QED  BY SlotsTell, SlotsInvariant, PTL

(* Each running task has somebody left to report it. *)
THEOREM Workers == Orderly /\ Spec => []RunningHasWorker
<1> QED  BY SlotsTell, SlotsInvariant, PTL

---------------------------------------------------------------------------
(* The steps there are when the plugins report. *)
LEMMA PluginSteps ==
  ASSUME SlotInv, ~EventsOnAssign, Next
  PROVE  \/ \E c \in Coroutines :
              \/ GovernanceRejects(c) \/ QueueTask(c) \/ AssignDirectly(c)
              \/ SpawnAgent(c) \/ StartTask(c) \/ PluginAccepts(c)
              \/ ExecuteReturns(c) \/ ScanResumes(c) \/ DomainEvent(c)
              \/ \E t \in Tasks : SubmitTask(t, c) \/ PluginCompletes(t, c)
         \/ \E t \in Tasks : CleanupTask(t)
<1>0. Orderly /\ tripped = {}
  BY DEF SlotInv
<1>1. ASSUME NEW c \in Coroutines
      PROVE  ~BreakerRejects(c) /\ ~PluginRefuses(c) /\ ~NoHandler(c)
  <2>1. ~BreakerRejects(c) /\ ~PluginRefuses(c)
    BY <1>0 DEF BreakerRejects, PluginRefuses, Orderly
  <2>2. ASSUME NoHandler(c) PROVE FALSE
    <3>1. /\ frame[c].stage = "announce"
          /\ frame[c].domain \notin Handlers[frame[c].task]
      BY <2>2 DEF NoHandler, At
    <3>2. frame[c].domain \in Domains /\ frame[c].task \in Tasks
      BY <3>1, HandsTask, InvFacts DEF Shaped
    <3> QED  BY <1>0, <3>1, <3>2 DEF Orderly
  <2> QED  BY <2>1, <2>2
<1>2. ASSUME NEW c \in Coroutines
      PROVE  ~Stealing(c) /\ ~StealingStarts(c)
  <2>1. frame[c].kind # "steal"
    BY InvFacts DEF Shaped
  <2> QED  BY <1>0, <2>1 DEF Stealing, StealingContinues, StealingEnds, StealingStarts, Orderly
<1>3. ASSUME NEW t \in Tasks, NEW c \in Coroutines
      PROVE  ~EventCompleted(t, c) /\ ~EventFailed(t, c)
  <2>1. Placed(t, created, status, queues, frame, runs, jobs)
    BY InvFacts
  <2>2. jobs[t] = 0
    BY <2>1 DEF Placed
  <2> QED  BY <2>2 DEF EventCompleted, EventFailed
<1>4. ASSUME NEW t \in Tasks
      PROVE  ~CancelTask(t)
  BY <1>0 DEF CancelTask, Orderly
<1>5. ASSUME NEW d \in Domains
      PROVE  ~BreakerTimeout(d) /\ ~PluginDisposed(d)
  BY <1>0 DEF BreakerTimeout, PluginDisposed, Orderly
<1> QED  BY <1>1, <1>2, <1>3, <1>4, <1>5 DEF Next, Continue, Governance, Assignment

(* The status of a task in hand, and of one that its plugin completes. *)
LEMMA StatusInHand ==
  ASSUME SlotInv, ~EventsOnAssign, NEW t \in Tasks
  PROVE  /\ \A c \in Coroutines : frame[c].task = t =>
              /\ frame[c].stage = "governance" => status[t] = "none"
              /\ frame[c].stage \in {"route", "spawn"} => status[t] \in {"none", "queued"}
              /\ frame[c].stage = "announce" => status[t] = "running"
         /\ runs[t] > 0 => status[t] = "running" /\ runs[t] = 1
<1>1. /\ Placed(t, created, status, queues, frame, runs, jobs)
      /\ runs[t] \in Nat /\ jobs[t] \in Nat
  BY InvFacts
<1>2. runs[t] > 0 => status[t] = "running" /\ runs[t] = 1
  BY <1>1, WithReporter
<1> QED  BY <1>1, <1>2 DEF Placed, Carries

(* When plugins report and records are kept, nothing that an assignment or a *)
(* callback captured before an await overwrites the end of a task.           *)
THEOREM Final == Orderly /\ ~EventsOnAssign /\ ~Retention /\ Spec => FinishedStaysFinished
<1>1. ASSUME SlotInv, ~EventsOnAssign, ~Retention, Next, NEW u \in Tasks, status[u] \in Finished
      PROVE  status'[u] = status[u]
  <2>0. status[u] \notin {"none", "queued", "running"} /\ status \in [Tasks -> Statuses]
    BY <1>1, InvFacts DEF Finished, TypeOK
  <2>1. ASSUME NEW c \in Coroutines, QueueTask(c) \/ StartTask(c)
        PROVE  status'[u] = status[u]
    <3>1. frame[c].task \in Tasks /\ frame[c].stage \in {"governance", "spawn"}
      BY <1>1, <2>1, HandsTask DEF QueueTask, StartTask, At
    <3>2. status[frame[c].task] \in {"none", "queued"}
      BY <1>1, <3>1, StatusInHand
    <3>3. frame[c].task # u
      BY <2>0, <3>2
    <3> QED  BY <2>0, <2>1, <3>3 DEF QueueTask, StartTask
  <2>2. ASSUME NEW c \in Coroutines,
               GovernanceRejects(c) \/ AssignDirectly(c) \/ SpawnAgent(c) \/ PluginAccepts(c)
        PROVE  status'[u] = status[u]
    BY <2>2 DEF GovernanceRejects, AssignDirectly, SpawnAgent, PluginAccepts, record
  <2>3. ASSUME NEW c \in Coroutines, ExecuteReturns(c) \/ ScanResumes(c) \/ DomainEvent(c)
        PROVE  status'[u] = status[u]
    BY <2>3 DEF ExecuteReturns, ScanResumes, DomainEvent, record
  <2>4. ASSUME NEW t \in Tasks, NEW c \in Coroutines, SubmitTask(t, c)
        PROVE  status'[u] = status[u]
    BY <2>4 DEF SubmitTask, record
  <2>5. ASSUME NEW t \in Tasks, NEW c \in Coroutines, PluginCompletes(t, c)
        PROVE  status'[u] = status[u]
    <3>1. status[t] = "running"
      BY <1>1, <2>5, StatusInHand DEF PluginCompletes
    <3>2. t # u
      BY <2>0, <3>1
    <3> QED  BY <2>0, <2>5, <3>1, <3>2 DEF PluginCompletes
  <2>6. ASSUME NEW t \in Tasks
        PROVE  ~CleanupTask(t)
    BY <1>1 DEF CleanupTask
  <2> QED  BY <1>1, <2>1, <2>2, <2>3, <2>4, <2>5, <2>6, PluginSteps
<1>2. SlotInv /\ ~EventsOnAssign /\ ~Retention /\ [Next]_vars =>
        [\A t \in Tasks : status[t] \in Finished => status'[t] = status[t]]_vars
  BY <1>1
<1>3. ASSUME ~EventsOnAssign, ~Retention
      PROVE  Orderly /\ Spec => FinishedStaysFinished
  <2>1. SlotInv /\ [Next]_vars =>
          [\A t \in Tasks : status[t] \in Finished => status'[t] = status[t]]_vars
    BY <1>2, <1>3
  <2> QED  BY <2>1, SlotsInvariant, PTL DEF Spec, FinishedStaysFinished
<1> QED  BY <1>3

---------------------------------------------------------------------------
(* A scan, and what follows an assignment, move one coroutine only. *)
LEMMA OneMoves ==
  ASSUME frame \in [Coroutines -> Framed], NEW c \in Coroutines, NEW n, NEW st, NEW dm,
         \/ \E from \in 0 .. 4 : \E q : ProcessQueue(c, from, n, q, st, dm)
         \/ \E ok \in BOOLEAN : Return(c, ok, n, st, dm)
  PROVE  \A e \in Coroutines : e # c => frame'[e] = frame[e]
<1>1. ASSUME NEW from, NEW q, ProcessQueue(c, from, n, q, st, dm)
      PROVE  \A e \in Coroutines : e # c => frame'[e] = frame[e]
  <2>1. CASE Full(n) \/ \A p \in Priorities : p >= from => q.prio[p] = <<>>
    BY <1>1, <2>1 DEF ProcessQueue
  <2>2. CASE ~(Full(n) \/ \A p \in Priorities : p >= from => q.prio[p] = <<>>)
    <3>1. PICK p \in Priorities : \E d \in Placement(Head(q.prio[p]), Shift(q, p), st, dm) :
            frame' = [frame EXCEPT ![c] =
              IF d = NoDomain THEN Scan(p + 1)
              ELSE Frame("scan", "route", Head(q.prio[p]), d, p + 1)]
      BY <1>1, <2>2 DEF ProcessQueue
    <3> QED  BY <3>1
  <2> QED  BY <2>1, <2>2
<1>2. ASSUME NEW ok, Return(c, ok, n, st, dm)
      PROVE  \A e \in Coroutines : e # c => frame'[e] = frame[e]
  <2>1. CASE frame[c].kind = "scan"
    BY <1>1, <1>2, <2>1 DEF Return
  <2>2. CASE frame[c].kind # "scan"
    BY <1>2, <2>2 DEF Return
  <2> QED  BY <2>1, <2>2
<1> QED  BY <1>1, <1>2

(* Agents are kept by a step that stops no task and starts none. *)
LEMMA AgentsStay ==
  ASSUME AgentsReleased, live' \subseteq live, NEW c \in Coroutines,
         \A t \in Tasks : status[t] = "running" => status'[t] = "running" /\ agents'[t] = agents[t],
         \A e \in Coroutines : e # c => frame'[e] = frame[e], frame[c].stage # "spawn"
  PROVE  AgentsReleased'
<1> SUFFICES ASSUME NEW a \in live
             PROVE  \/ \E t \in Tasks : status'[t] = "running" /\ agents'[t] = a
                    \/ \E e \in Coroutines : frame'[e].agent = a /\ frame'[e].stage = "spawn"
  BY DEF AgentsReleased, Running
<1>1. \/ \E t \in Tasks : status[t] = "running" /\ agents[t] = a
      \/ \E e \in Coroutines : frame[e].agent = a /\ frame[e].stage = "spawn"
  BY DEF AgentsReleased, Running
<1> QED  BY <1>1

(* No step of the Queen leaks an agent when the plugins report. *)
LEMMA NextKeepsAgents ==
  ASSUME SlotInv, ~EventsOnAssign, AgentsReleased, Next
  PROVE  AgentsReleased'
<1>0. frame \in [Coroutines -> Framed] /\ TypeOK
  BY InvFacts
<1>1. ASSUME NEW c \in Coroutines, GovernanceRejects(c) \/ AssignDirectly(c) \/ PluginAccepts(c)
      PROVE  AgentsReleased'
  <2>1. /\ live' = live /\ status' = status /\ agents' = agents
        /\ frame[c].stage # "spawn"
    BY <1>1 DEF GovernanceRejects, AssignDirectly, PluginAccepts, record, At
  <2>2. \A e \in Coroutines : e # c => frame'[e] = frame[e]
    BY <1>0, <1>1 DEF GovernanceRejects, AssignDirectly, PluginAccepts
  <2> QED  BY <2>1, <2>2, AgentsStay
<1>2. ASSUME NEW c \in Coroutines, QueueTask(c)
      PROVE  AgentsReleased'
  <2>1. /\ live' = live /\ agents' = agents /\ frame[c].stage = "governance"
        /\ status' = [status EXCEPT ![frame[c].task] = "queued"]
    BY <1>2 DEF QueueTask, At
  <2>2. frame[c].task \in Tasks /\ status[frame[c].task] = "none"
    BY <2>1, HandsTask, StatusInHand
  <2>3. \A t \in Tasks : status[t] = "running" => status'[t] = "running"
    BY <1>0, <2>1, <2>2 DEF TypeOK
  <2>4. \A e \in Coroutines : e # c => frame'[e] = frame[e]
    BY <1>0, <1>2 DEF QueueTask
  <2> QED  BY <2>1, <2>3, <2>4, AgentsStay
<1>3. ASSUME NEW c \in Coroutines, ExecuteReturns(c) \/ ScanResumes(c) \/ DomainEvent(c)
      PROVE  AgentsReleased'
  <2>1. /\ live' = live /\ status' = status /\ agents' = agents
    BY <1>3 DEF ExecuteReturns, ScanResumes, DomainEvent, record
  <2>2. frame[c].stage # "spawn"
    <3>1. ExecuteReturns(c) \/ ScanResumes(c) => frame[c].stage \in {"execute", "resume"}
      BY DEF ExecuteReturns, ScanResumes, At
    <3>2. DomainEvent(c) => frame[c].stage = "none"
      BY DEF DomainEvent, Fresh, Idle, Frame
    <3> QED  BY <1>3, <3>1, <3>2
  <2>3. frame[c].from \in 0 .. 4 /\ 0 \in 0 .. 4
    BY <1>0 DEF Framed, Frames
  <2>4. \A e \in Coroutines : e # c => frame'[e] = frame[e]
    BY <1>0, <1>3, <2>3, OneMoves DEF ExecuteReturns, ScanResumes, DomainEvent
  <2> QED  BY <2>1, <2>2, <2>4, AgentsStay
<1>4. ASSUME NEW t \in Tasks, NEW c \in Coroutines, SubmitTask(t, c)
      PROVE  AgentsReleased'
  <2>1. /\ live' = live /\ status' = status /\ agents' = agents
        /\ frame[c].stage # "spawn"
        /\ \A e \in Coroutines : e # c => frame'[e] = frame[e]
    BY <1>0, <1>4 DEF SubmitTask, record, Fresh, Idle, Frame
  <2> QED  BY <2>1, AgentsStay
<1>5. ASSUME NEW t \in Tasks, CleanupTask(t)
      PROVE  AgentsReleased'
  <2>1. /\ live' = live /\ frame' = frame
        /\ status[t] # "running"
        /\ \A u \in Tasks : u # t => status'[u] = status[u] /\ agents'[u] = agents[u]
    BY <1>0, <1>5 DEF CleanupTask, TypeOK, Finished
  <2> SUFFICES ASSUME NEW a \in live
               PROVE  \/ \E u \in Tasks : status'[u] = "running" /\ agents'[u] = a
                      \/ \E e \in Coroutines : frame'[e].agent = a /\ frame'[e].stage = "spawn"
    BY <2>1 DEF AgentsReleased, Running
  <2>2. \/ \E u \in Tasks : status[u] = "running" /\ agents[u] = a
        \/ \E e \in Coroutines : frame[e].agent = a /\ frame[e].stage = "spawn"
    BY DEF AgentsReleased, Running
  <2> QED  BY <2>1, <2>2
<1>6. ASSUME NEW c \in Coroutines, SpawnAgent(c)
      PROVE  AgentsReleased'
  <2>1. /\ frame[c].stage = "route" /\ status' = status /\ agents' = agents
    BY <1>6 DEF SpawnAgent, At, record
  <2>2. CASE ~CanSpawn
    <3>1. live' = live /\ \A e \in Coroutines : e # c => frame'[e] = frame[e]
      BY <1>0, <1>6, <2>2 DEF SpawnAgent
    <3> QED  BY <2>1, <3>1, AgentsStay
  <2>3. CASE CanSpawn
    <3>1. PICK b \in AgentIds :
            /\ live' = live \cup {b}
            /\ frame' = [frame EXCEPT ![c] = [frame[c] EXCEPT !.stage = "spawn", !.agent = b]]
      BY <1>6, <2>3 DEF SpawnAgent
    <3>2. /\ \A e \in Coroutines : e # c => frame'[e] = frame[e]
          /\ frame'[c].agent = b /\ frame'[c].stage = "spawn"
      BY <1>0, <3>1 DEF Framed, Frames
    <3> SUFFICES ASSUME NEW a \in live'
                 PROVE  \/ \E u \in Tasks : status'[u] = "running" /\ agents'[u] = a
                        \/ \E e \in Coroutines : frame'[e].agent = a /\ frame'[e].stage = "spawn"
      BY DEF AgentsReleased, Running
    <3>3. CASE a = b
      BY <3>2, <3>3
    <3>4. CASE a # b
      <4>1. a \in live
        BY <3>1, <3>4
      <4>2. \/ \E u \in Tasks : status[u] = "running" /\ agents[u] = a
            \/ \E e \in Coroutines : frame[e].agent = a /\ frame[e].stage = "spawn"
        BY <4>1 DEF AgentsReleased, Running
      <4> QED  BY <2>1, <3>2, <4>2
    <3> QED  BY <3>3, <3>4
  <2> QED  BY <2>2, <2>3
<1>7. ASSUME NEW c \in Coroutines, StartTask(c)
      PROVE  AgentsReleased'
  <2> DEFINE t == frame[c].task
  <2>1. /\ frame[c].stage = "spawn" /\ live' = live
        /\ status' = [status EXCEPT ![t] = "running"]
        /\ agents' = [agents EXCEPT ![t] = frame[c].agent]
    BY <1>7 DEF StartTask, At
  <2>2. t \in Tasks /\ status[t] # "running"
    BY <2>1, HandsTask, StatusInHand
  <2>3. \A e \in Coroutines : e # c => frame'[e] = frame[e]
    BY <1>0, <1>7 DEF StartTask
  <2>4. /\ status'[t] = "running" /\ agents'[t] = frame[c].agent
        /\ \A u \in Tasks : u # t => status'[u] = status[u] /\ agents'[u] = agents[u]
    BY <1>0, <2>1, <2>2 DEF TypeOK
  <2> HIDE DEF t
  <2> SUFFICES ASSUME NEW a \in live
               PROVE  \/ \E u \in Tasks : status'[u] = "running" /\ agents'[u] = a
                      \/ \E e \in Coroutines : frame'[e].agent = a /\ frame'[e].stage = "spawn"
    BY <2>1 DEF AgentsReleased, Running
  <2>5. \/ \E u \in Tasks : status[u] = "running" /\ agents[u] = a
        \/ \E e \in Coroutines : frame[e].agent = a /\ frame[e].stage = "spawn"
    BY DEF AgentsReleased, Running
  <2> QED  BY <2>2, <2>3, <2>4, <2>5
<1>8. ASSUME NEW t \in Tasks, NEW c \in Coroutines, PluginCompletes(t, c)
      PROVE  AgentsReleased'
  <2>1. status[t] = "running"
    BY <1>8, StatusInHand DEF PluginCompletes
  <2>2. PICK result \in {"completed", "failed"} :
          /\ status' = [status EXCEPT ![t] = result]
          /\ live' = live \ {agents[t]} /\ agents' = agents
          /\ frame' = [frame EXCEPT ![c] = Scan(0)] /\ frame[c] = Idle
    BY <1>8, <2>1 DEF PluginCompletes, StopAgent, ScanLater, Fresh
  <2>3. /\ \A e \in Coroutines : e # c => frame'[e] = frame[e]
        /\ frame[c].stage # "spawn"
    BY <1>0, <2>2 DEF Idle, Frame
  <2>4. \A u \in Tasks : u # t => status'[u] = status[u]
    BY <1>0, <2>2 DEF TypeOK
  <2> SUFFICES ASSUME NEW a \in live, a # agents[t]
               PROVE  \/ \E u \in Tasks : status'[u] = "running" /\ agents'[u] = a
                      \/ \E e \in Coroutines : frame'[e].agent = a /\ frame'[e].stage = "spawn"
    BY <2>2 DEF AgentsReleased, Running
  <2>5. \/ \E u \in Tasks : status[u] = "running" /\ agents[u] = a
        \/ \E e \in Coroutines : frame[e].agent = a /\ frame[e].stage = "spawn"
    BY DEF AgentsReleased, Running
  <2> QED  BY <2>2, <2>3, <2>4, <2>5
<1> QED  BY <1>1, <1>2, <1>3, <1>4, <1>5, <1>6, <1>7, <1>8, PluginSteps

(* Every agent spawned for a task is held by the assignment or by the       *)
(* running task, and stopped with it.                                       *)
THEOREM Agents == Orderly /\ ~EventsOnAssign /\ Spec => []AgentsReleased
<1>1. Init => AgentsReleased
  BY DEF Init, AgentsReleased
<1>2. SlotInv /\ ~EventsOnAssign /\ AgentsReleased /\ [Next]_vars => AgentsReleased'
  <2> SUFFICES ASSUME SlotInv, ~EventsOnAssign, AgentsReleased, [Next]_vars
               PROVE  AgentsReleased'
    OBVIOUS
  <2>1. CASE UNCHANGED vars
    BY <2>1 DEF vars, record, AgentsReleased, Running
  <2>2. CASE Next
    BY <2>2, NextKeepsAgents
  <2> QED  BY <2>1, <2>2
<1>3. ASSUME ~EventsOnAssign
      PROVE  Orderly /\ Spec => []AgentsReleased
  <2>1. SlotInv /\ AgentsReleased /\ [Next]_vars => AgentsReleased'
    BY <1>2, <1>3
  <2> QED  BY <1>1, <2>1, SlotsInvariant, PTL DEF Spec
<1> QED  BY <1>3
=============================================================================
