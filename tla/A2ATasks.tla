------------------------------ MODULE A2ATasks ------------------------------
(***************************************************************************)
(* The A2A task manager and its task store (task-manager.ts,               *)
(* task-store.ts).  A task record keeps the status, the statuses it went   *)
(* through, how many artifacts it has, and whether its error field is set. *)
(* Every operation is synchronous and emits its events as it goes; the     *)
(* operators below give the record after an operation and the events.      *)
(***************************************************************************)
EXTENDS Integers, Sequences, FiniteSets, SequencesExt

CONSTANTS
  Ids,       \* task ids (fresh for every request)
  MaxTasks   \* config.maxTasks of the store

ASSUME StoreAssumption == MaxTasks \in Nat \ {0}

VARIABLES
  tasks,    \* the store: a record per id, NoTask when it has none
  touched   \* the ids in the store, least recently updated first

store == <<tasks, touched>>

Terminal == {"completed", "failed", "canceled", "rejected"}
Statuses == {"submitted", "working", "input_required", "auth_required"} \cup Terminal

(* FAULT: a task that waits for authentication cannot fail. *)
NarrowTransitions ==
  [submitted      |-> {"working", "rejected", "canceled"},
   working        |-> {"completed", "failed", "input_required", "auth_required", "canceled"},
   input_required |-> {"working", "canceled", "auth_required", "failed"},
   auth_required  |-> {"working", "canceled"},
   completed |-> {}, failed |-> {}, canceled |-> {}, rejected |-> {}]

VALID_TRANSITIONS ==
  [submitted      |-> {"working", "rejected", "canceled"},
   working        |-> {"completed", "failed", "input_required", "auth_required", "canceled"},
   input_required |-> {"working", "canceled", "auth_required", "failed"},
   auth_required  |-> {"working", "canceled", "failed"},
   completed |-> {}, failed |-> {}, canceled |-> {}, rejected |-> {}]

Tasks == [status: Statuses, history: Seq(Statuses), artifacts: Nat, error: BOOLEAN]

NoTask == [status |-> "none", history |-> <<>>, artifacts |-> 0, error |-> FALSE]
NewTask == [NoTask EXCEPT !.status = "submitted", !.history = <<"submitted">>]

Stored(t) == tasks[t] # NoTask
StoredIds == {t \in Ids : Stored(t)}

CanMove(r, st) == st \in VALID_TRANSITIONS[r.status]

Moved(r, st) == [r EXCEPT !.status = st, !.history = Append(@, st)]
WithArtifact(r) == [r EXCEPT !.artifacts = @ + 1]
WithError(r) == [r EXCEPT !.error = TRUE]

(* The events the server forwards as notifications, numbered per task: a   *)
(* record's n-th event left it with n - 1 transitions and artifacts.       *)
EventNo(r) == Len(r.history) + r.artifacts
MoveEvent(r) == [event |-> r.status, no |-> EventNo(r)]
ArtifactEvent(r) == [event |-> "artifact_created", no |-> EventNo(r)]

(* The order of updates without that of t, a task in the store. *)
Without(t) == RemoveAt(touched, CHOOSE i \in DOMAIN touched : touched[i] = t)

(* TaskStore.update: the record is replaced and becomes the latest. *)
Update(t, r) ==
  /\ tasks' = [tasks EXCEPT ![t] = r]
  /\ touched' = Append(Without(t), t)

(* TaskStore.delete. *)
Delete(t) ==
  /\ tasks' = [tasks EXCEPT ![t] = NoTask]
  /\ touched' = Without(t)

(* evictOldestTasks(1): the least recently updated task that completed,    *)
(* failed or was canceled, if there is one.                                *)
Evicted ==
  LET done == {i \in DOMAIN touched :
                 tasks[touched[i]].status \in {"completed", "failed", "canceled"}}
  IN  IF Cardinality(StoredIds) < MaxTasks THEN {}
      ELSE {touched[i] : i \in {k \in done : \A j \in done : k <= j}}

(* TaskStore.create, of a record that has already gone through r. *)
Create(t, r) ==
  /\ tasks' = [u \in Ids |-> IF u = t THEN r
                             ELSE IF u \in Evicted THEN NoTask ELSE tasks[u]]
  /\ touched' = Append(IF Evicted = {} THEN touched
                       ELSE Without(CHOOSE u \in Evicted : TRUE), t)
=============================================================================
