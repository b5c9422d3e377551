----------------------------- MODULE TaskQueues -----------------------------
(***************************************************************************)
(* The Queen's two queue structures (queen-task-management.ts): one FIFO   *)
(* per priority, ordered by creation time, and one unordered list per      *)
(* target domain that only serves load tracking and work stealing.  They   *)
(* are two indexes of the same tasks and every operation must update both. *)
(*                                                                         *)
(* A task is a positive number and createdAt is its numeric order: ids are *)
(* uuids, and two tasks created in the same millisecond are ordered by the *)
(* sequence of their submitTask calls.                                     *)
(***************************************************************************)
EXTENDS Integers, Sequences, FiniteSets

CONSTANTS
  Tasks,      \* tasks that may be submitted, in order of createdAt
  Domains,    \* domains, numbered in the order of ALL_DOMAINS
  PriorityOf, \* [Tasks -> Priorities]: task.priority
  Targets     \* [Tasks -> Seq(Domains)]: task.targetDomains

Priorities == 0 .. 3          \* p0 (most urgent) .. p3

ASSUME TaskAssumption == Tasks \subseteq Nat \ {0} /\ IsFiniteSet(Tasks)
ASSUME DomainAssumption == Domains \subseteq Nat \ {0} /\ IsFiniteSet(Domains)
ASSUME PriorityAssumption == PriorityOf \in [Tasks -> Priorities]
ASSUME TargetsAssumption == Targets \in [Tasks -> Seq(Domains)]

Queues == [prio: [Priorities -> Seq(Tasks)], domain: [Domains -> Seq(Tasks)]]

(* FAULT: the least urgent priority is given no queue. *)
ThreeQueues == [prio   |-> [p \in 0 .. 2 |-> <<>>],
                domain |-> [d \in Domains |-> <<>>]]

EmptyQueues == [prio   |-> [p \in Priorities |-> <<>>],
                domain |-> [d \in Domains |-> <<>>]]

IsTarget(t, d) == \E i \in DOMAIN Targets[t] : Targets[t][i] = d

(* FAULT: push, as before PERF-001, but without the sort after it. *)
InsertLast(q, t) == Append(q, t)

(* binaryInsert with taskComparator: after every task at least as old. *)
BinaryInsert(q, t) ==
  LET n == Cardinality({i \in DOMAIN q : q[i] <= t})
  IN  [i \in 1 .. Len(q) + 1 |->
         IF i <= n THEN q[i] ELSE IF i = n + 1 THEN t ELSE q[i - 1]]

(* FAULT: the test of findIndex is missing: splice(-1, 1) takes the last. *)
SpliceUnchecked(q, t) ==
  IF q = <<>> THEN q
  ELSE LET n == Len(q)
           k == IF \E i \in 1 .. n : q[i] = t
                THEN CHOOSE i \in 1 .. n : q[i] = t /\ \A j \in 1 .. i - 1 : q[j] # t
                ELSE n
       IN  SubSeq(q, 1, k - 1) \o SubSeq(q, k + 1, n)

(* FAULT: filter instead of findIndex + splice: every entry of t goes. *)
DropAll(q, t) == SelectSeq(q, LAMBDA u : u # t)

(* findIndex + splice: drop the first entry of t, if any. *)
Splice(q, t) ==
  IF \E i \in DOMAIN q : q[i] = t
  THEN [i \in 1 .. Len(q) - 1 |->
          IF \E j \in 1 .. i : q[j] = t THEN q[i + 1] ELSE q[i]]
  ELSE q

(* FAULT: only the first target domain gets an entry. *)
EnqueueFirstTarget(q, t) ==
  [prio   |-> [q.prio EXCEPT ![PriorityOf[t]] = BinaryInsert(@, t)],
   domain |-> [d \in Domains |-> IF IsTarget(t, d) /\ Targets[t][1] = d
                                 THEN Append(q.domain[d], t) ELSE q.domain[d]]]

EnqueueTask(q, t) ==
  [prio   |-> [p \in Priorities |->
                 IF p = PriorityOf[t] THEN BinaryInsert(q.prio[p], t)
                                      ELSE q.prio[p]],
   domain |-> [d \in Domains |->
                 IF IsTarget(t, d) THEN Append(q.domain[d], t)
                                   ELSE q.domain[d]]]

(* FAULT: only the priority queue is updated. *)
RemoveFromPriority(q, t) ==
  [q EXCEPT !.prio = [@ EXCEPT ![PriorityOf[t]] = Splice(@, t)]]

(* FAULT: every entry of the domain queues goes, one of the priority queue. *)
RemoveAllFromDomains(q, t) ==
  [prio   |-> [q.prio EXCEPT ![PriorityOf[t]] = Splice(@, t)],
   domain |-> [d \in Domains |-> IF IsTarget(t, d) THEN DropAll(q.domain[d], t)
                                 ELSE q.domain[d]]]

RemoveFromQueues(q, t) ==
  [prio   |-> [p \in Priorities |->
                 IF p = PriorityOf[t] THEN Splice(q.prio[p], t) ELSE q.prio[p]],
   domain |-> [d \in Domains |->
                 IF IsTarget(t, d) THEN Splice(q.domain[d], t) ELSE q.domain[d]]]

(* FAULT: the queue is read and not shifted. *)
Peek(q, p) == q

(* processQueue's queue.shift() followed by removeFromQueues: the shift has *)
(* already taken the entry, so removeFromQueues takes a second one from the *)
(* priority queue when the task is queued twice.                            *)
Shift(q, p) ==
  LET t == Head(q.prio[p])
  IN  RemoveFromQueues(
        [prio   |-> [r \in Priorities |->
                       IF r = p THEN Tail(q.prio[r]) ELSE q.prio[r]],
         domain |-> q.domain],
        t)

Copies(q, t) == Cardinality({i \in DOMAIN q : q[i] = t})
=============================================================================
