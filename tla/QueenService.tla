----------------------------- MODULE QueenService -----------------------------
(***************************************************************************)
(* The Queen implements TaskService, when plugins do the tasks and nothing *)
(* is stolen, cancelled or refused.  A task has a slot from the step that  *)
(* reserves it, not only from its record becoming running: the reservation *)
(* across the awaits of an assignment is what keeps the limit (CC-002).    *)
(***************************************************************************)
EXTENDS QueenCoordinator

(* What a client sees of a task. *)
StageOf(t) ==
  IF status[t] \in Finished THEN "finished"
  ELSE IF t \in Running \cup {frame[c].task : c \in Reserving} THEN "holding"
  ELSE IF status[t] = "queued" THEN "waiting"
  ELSE "new"

Service == INSTANCE TaskService WITH stage <- [t \in Tasks |-> StageOf(t)]

(* Every step of the Queen is a step of the service or none, and under its *)
(* fairness the service's holds: what is promised above is what it does.   *)
ImplementsService == Service!Spec
=============================================================================
