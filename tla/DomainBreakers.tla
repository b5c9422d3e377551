--------------------------- MODULE DomainBreakers ---------------------------
(***************************************************************************)
(* The circuit breakers of the domains and the registry that cascades them *)
(* (circuit-breaker/domain-circuit-breaker.ts, breaker-registry.ts).  The  *)
(* Queen asks canExecuteInDomain before it assigns a task and records the  *)
(* outcome when the task's event arrives, any number of state changes      *)
(* later.  Every method is synchronous, so one action is one call, with    *)
(* the cascade it triggers.  Time is read from the clock `now'.            *)
(***************************************************************************)
EXTENDS Integers, Sequences, FiniteSets

CONSTANTS
  Domains,           \* domains with a breaker
  FailureThreshold,  \* per domain: the criticality preset's thresholds ...
  SuccessThreshold,  \* (halfOpenSuccessThreshold)
  ResetTimeout,      \* ... and periods, in ticks of the clock
  FailureWindow,
  CascadeTargets,    \* per domain: cascadeTargets, {} unless cascadeEnabled
  MaxTime,           \* bound: last tick of the clock
  MaxPending         \* bound: operations of one domain in progress

ASSUME DomainsAssumption == IsFiniteSet(Domains)
ASSUME ConfigAssumption ==
  /\ FailureThreshold \in [Domains -> Nat \ {0}]
  /\ SuccessThreshold \in [Domains -> Nat \ {0}]
  /\ ResetTimeout \in [Domains -> Nat \ {0}]
  /\ FailureWindow \in [Domains -> Nat]
  /\ CascadeTargets \in [Domains -> SUBSET Domains]
  /\ MaxTime \in Nat /\ MaxPending \in Nat

VARIABLES
  now,      \* Date.now()
  breaker,  \* the breaker of each domain
  pending,  \* operations admitted whose outcome is not recorded yet
  tripTime, \* history: when the breaker last became open, or Never
  streak    \* history: successes since the last failure or opening, up to
            \* the success threshold

vars == <<now, breaker, pending, tripTime, streak>>

Never == -1      \* openedAt === undefined

States == {"closed", "open", "half-open"}

Breakers == [state: States, failures: Seq(Nat), openedAt: Nat \cup {Never},
             successes: Nat]

Fresh == [state |-> "closed", failures |-> <<>>, openedAt |-> Never,
          successes |-> 0]

(* The reset timeout of an open breaker has elapsed. *)
TimedOut(d, b) == /\ b.state = "open" /\ b.openedAt # Never
                  /\ now - b.openedAt >= ResetTimeout[d]

(* getState: the lazy transition from open to half-open. *)
Current(d, b) ==
  IF TimedOut(d, b) THEN [b EXCEPT !.state = "half-open", !.successes = 0] ELSE b

(* cleanOldFailures.  Failures are pushed in order of time, so those that  *)
(* have left the window are the first ones (FailuresInOrder).              *)
CleanOldFailures(d, fs) ==
  LET old == Cardinality({i \in DOMAIN fs : fs[i] <= now - FailureWindow[d]})
  IN  SubSeq(fs, old + 1, Len(fs))

(* The domains propagateCascade opens when d opens: d and, transitively,   *)
(* the cascade targets that are not open.  A target whose timeout elapsed  *)
(* is half-open to getState, and opens again.                              *)
NotOpen == {t \in Domains : Current(t, breaker[t]).state # "open"}
Closed(S, notOpen) == \A e \in S : CascadeTargets[e] \cap notOpen \subseteq S
(* FAULT: the direct targets only. *)
DirectTargets(d) == {d} \cup (CascadeTargets[d] \cap NotOpen)

Cascade(d) ==
  LET notOpen == NotOpen
      closed  == {S \in SUBSET Domains : d \in S /\ Closed(S, notOpen)}
  IN  {e \in Domains : \A S \in closed : e \in S}

(* FAULT: the time of opening is not recorded. *)
OpenUntimed(d, b) ==
  \E opened \in {Cascade(d)} :
    /\ breaker' = [e \in Domains |->
         IF e \in opened
         THEN [(IF e = d THEN b ELSE breaker[e]) EXCEPT !.state = "open", !.successes = 0]
         ELSE breaker[e]]
    /\ tripTime' = [e \in Domains |-> IF e \in opened THEN now ELSE tripTime[e]]
    /\ streak' = [e \in Domains |-> IF e \in opened THEN 0 ELSE streak[e]]

(* FAULT: the time of the first opening is kept when a probe fails. *)
OpenKeepingTime(d, b) ==
  \E opened \in {Cascade(d)} :
    /\ breaker' = [e \in Domains |->
         IF e \in opened
         THEN [(IF e = d THEN b ELSE breaker[e]) EXCEPT
                 !.state = "open", !.successes = 0,
                 !.openedAt = IF @ = Never THEN now ELSE @]
         ELSE breaker[e]]
    /\ tripTime' = [e \in Domains |-> IF e \in opened THEN now ELSE tripTime[e]]
    /\ streak' = [e \in Domains |-> IF e \in opened THEN 0 ELSE streak[e]]

(* transitionTo('open') and its cascade; d itself is left as b. *)
Open(d, b) ==
  \E opened \in {Cascade(d)} :
    /\ breaker' = [e \in Domains |->
         IF e \in opened
         THEN [(IF e = d THEN b ELSE breaker[e]) EXCEPT
                 !.state = "open", !.openedAt = now, !.successes = 0]
         ELSE breaker[e]]
    /\ tripTime' = [e \in Domains |-> IF e \in opened THEN now ELSE tripTime[e]]
    /\ streak' = [e \in Domains |-> IF e \in opened THEN 0 ELSE streak[e]]

---------------------------------------------------------------------------
Init ==
  /\ now = 0
  /\ breaker = [d \in Domains |-> Fresh]
  /\ pending = [d \in Domains |-> 0]
  /\ tripTime = [d \in Domains |-> Never]
  /\ streak = [d \in Domains |-> 0]

Tick == /\ now < MaxTime
        /\ now' = now + 1
        /\ UNCHANGED <<breaker, pending, tripTime, streak>>

(* canExecute, or the head of execute: a half-open breaker admits without  *)
(* limit.                                                                  *)
Admit(d) ==
  /\ pending[d] < MaxPending
  /\ Current(d, breaker[d]).state # "open"
  /\ breaker' = [breaker EXCEPT ![d] = Current(d, @)]
  /\ pending' = [pending EXCEPT ![d] = @ + 1]
  /\ UNCHANGED <<now, tripTime, streak>>

(* getStats, getHealthSummary, getOpenDomains: reading the state moves it. *)
Observe(d) ==
  /\ TimedOut(d, breaker[d])
  /\ breaker' = [breaker EXCEPT ![d] = Current(d, @)]
  /\ UNCHANGED <<now, pending, tripTime, streak>>

(* FAULT: closing keeps the failures on record. *)
KeepsFailures(d, b) ==
  IF b.state # "half-open" THEN b
  ELSE IF b.successes + 1 >= SuccessThreshold[d]
       THEN [Fresh EXCEPT !.failures = b.failures]
  ELSE [b EXCEPT !.successes = @ + 1]

(* FAULT: successes are counted in every state. *)
CountsAlways(d, b) ==
  IF b.state = "half-open" /\ b.successes + 1 >= SuccessThreshold[d] THEN Fresh
  ELSE [b EXCEPT !.successes = @ + 1]

(* How a success leaves breaker b: transitionTo('closed') forgets all. *)
AfterSuccess(d, b) ==
  IF b.state # "half-open" THEN b
  ELSE IF b.successes + 1 >= SuccessThreshold[d] THEN Fresh
  ELSE [b EXCEPT !.successes = @ + 1]

(* FAULT: an outcome is recorded for an operation that was rejected. *)
RecordUnadmitted(d) ==
  /\ pending' = [pending EXCEPT ![d] = @ - 1]
  /\ streak' = [streak EXCEPT ![d] = IF @ < SuccessThreshold[d] THEN @ + 1 ELSE @]
  /\ breaker' = [breaker EXCEPT ![d] = AfterSuccess(d, Current(d, @))]
  /\ UNCHANGED <<now, tripTime>>

RecordSuccess(d) ==
  /\ pending[d] > 0
  /\ pending' = [pending EXCEPT ![d] = @ - 1]
  /\ streak' = [streak EXCEPT ![d] = IF @ < SuccessThreshold[d] THEN @ + 1 ELSE @]
  /\ breaker' = [breaker EXCEPT ![d] = AfterSuccess(d, Current(d, @))]
  /\ UNCHANGED <<now, tripTime>>

(* FAULT: failures are pushed at the front. *)
LatestFirst(d) == <<now>> \o breaker[d].failures

(* recordFailure's push. *)
WithFailure(d) == Append(breaker[d].failures, now)

(* FAULT: a failed probe does not open the breaker again. *)
ProbeIgnored(d, b) == b.state = "closed" /\ Len(b.failures) >= FailureThreshold[d]

(* A failure opens a half-open breaker, and a closed one at its threshold. *)
Trips(d, b) ==
  \/ b.state = "half-open"
  \/ b.state = "closed" /\ Len(b.failures) >= FailureThreshold[d]

RecordFailure(d) ==
  LET b == [Current(d, breaker[d]) EXCEPT
              !.failures = CleanOldFailures(d, WithFailure(d))]
  IN
  /\ pending[d] > 0
  /\ pending' = [pending EXCEPT ![d] = @ - 1]
  /\ IF Trips(d, b)
     THEN Open(d, b)
     ELSE /\ breaker' = [breaker EXCEPT ![d] = b]
          /\ streak' = [streak EXCEPT ![d] = 0]
          /\ UNCHANGED tripTime
  /\ UNCHANGED now

(* forceOpen: nothing changes when the breaker is open already, even if    *)
(* its timeout has elapsed.                                                *)
ForceOpen(d) ==
  /\ breaker[d].state # "open"
  /\ Open(d, breaker[d])
  /\ UNCHANGED <<now, pending>>

Reset(d) ==
  /\ breaker' = [breaker EXCEPT ![d] = Fresh]
  /\ UNCHANGED <<now, pending, tripTime, streak>>

Next == Tick \/ \E d \in Domains : \/ Admit(d) \/ Observe(d)
                                   \/ RecordSuccess(d) \/ RecordFailure(d)
                                   \/ ForceOpen(d) \/ Reset(d)

Spec == Init /\ [][Next]_vars

---------------------------------------------------------------------------
(* Properties *)

TypeOK ==
  /\ now \in Nat
  /\ breaker \in [Domains -> Breakers]
  /\ pending \in [Domains -> Nat]
  /\ tripTime \in [Domains -> Nat \cup {Never}]
  /\ streak \in [Domains -> Nat]

(* A closed breaker has fewer failures on record than open it: no path to   *)
(* closed (recovery or reset) leaves it one old failure away from opening   *)
(* at the first new one.                                                    *)
ClosedBelowThreshold ==
  \A d \in Domains : breaker[d].state = "closed" =>
    Len(breaker[d].failures) < FailureThreshold[d]

(* A breaker that is not closed knows when it opened, so that getState can  *)
(* let it recover: none is stuck open.                                      *)
NeverStuckOpen ==
  \A d \in Domains : breaker[d].state # "closed" =>
    breaker[d].openedAt # Never /\ breaker[d].openedAt <= now

(* A breaker that opened rejects for its whole reset timeout, however it    *)
(* was opened (threshold, failed probe, force, cascade) and whatever late   *)
(* outcomes are recorded meanwhile.                                         *)
FullTimeout ==
  \A d \in Domains : breaker[d].state = "half-open" =>
    tripTime[d] # Never /\ now - tripTime[d] >= ResetTimeout[d]

(* halfOpenSuccesses counts the probes of this recovery only, and stays     *)
(* below the threshold that closes the breaker.                             *)
ProbesOfThisRecovery ==
  \A d \in Domains :
    /\ breaker[d].successes < SuccessThreshold[d]
    /\ breaker[d].successes <= streak[d]
    /\ breaker[d].state # "half-open" => breaker[d].successes = 0

(* "half-open -> closed: after halfOpenSuccessThreshold consecutive         *)
(* successes": unless it is reset, a breaker closes only after that many    *)
(* successes with no failure and no opening between them.                   *)
ClosesAfterStreak ==
  [][\A d \in Domains :
       breaker[d].state # "closed" /\ breaker'[d].state = "closed" =>
         Reset(d) \/ streak'[d] >= SuccessThreshold[d]]_vars

(* When a breaker opens, all its cascade targets are open at once, through  *)
(* chains and cycles of targets: no dependent domain is left admitting.     *)
CascadeComplete ==
  [][\A d \in Domains :
       breaker[d].state # "open" /\ breaker'[d].state = "open" =>
         \A t \in CascadeTargets[d] : breaker'[t].state = "open"]_vars

(* The failures on record are in order of time and not of the future, which *)
(* is what lets cleanOldFailures keep exactly those within the window.      *)
FailuresInOrder ==
  \A d \in Domains : LET fs == breaker[d].failures IN
    \A i \in DOMAIN fs : /\ fs[i] <= now
                         /\ \A j \in DOMAIN fs : i <= j => fs[i] <= fs[j]
=============================================================================
