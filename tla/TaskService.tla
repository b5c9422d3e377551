----------------------------- MODULE TaskService -----------------------------
(***************************************************************************)
(* What the Queen promises its clients: at most MaxConcurrent tasks have a *)
(* slot at one time; a task that finds one free on submission gets it, any *)
(* other waits; of the waiting tasks of a priority the oldest is served    *)
(* first; a task that has a slot finishes, once; a waiting task gets one.  *)
(***************************************************************************)
EXTENDS Integers, FiniteSets

CONSTANTS
  Tasks,         \* numbered in the order of their creation
  PriorityOf,    \* the priority of each task
  MaxConcurrent  \* slots

VARIABLE stage   \* of each task: new, waiting, holding (a slot) or finished

Init == stage = [t \in Tasks |-> "new"]

SlotFree == Cardinality({t \in Tasks : stage[t] = "holding"}) < MaxConcurrent

Moves(t, a, b) == stage[t] = a /\ stage' = [stage EXCEPT ![t] = b]

Wait(t) == Moves(t, "new", "waiting")

Start(t) == SlotFree /\ Moves(t, "new", "holding")

Oldest(t) == \A u \in Tasks : stage[u] = "waiting" /\ PriorityOf[u] = PriorityOf[t] => t <= u

Serve(t) == SlotFree /\ Oldest(t) /\ Moves(t, "waiting", "holding")

Finish(t) == Moves(t, "holding", "finished")

Next == \E t \in Tasks : Wait(t) \/ Start(t) \/ Serve(t) \/ Finish(t)

(* What may happen, ... *)
Safety == Init /\ [][Next]_stage

(* ... and what must: a free slot is given to some waiting task, and every *)
(* task that has a slot finishes.                                          *)
Spec ==
  /\ Safety
  /\ WF_stage(\E t \in Tasks : Serve(t))
  /\ \A t \in Tasks : WF_stage(Finish(t))
=============================================================================
