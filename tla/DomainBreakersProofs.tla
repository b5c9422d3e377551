------------------------ MODULE DomainBreakersProofs ------------------------
(* Invariants and step properties of the domain breakers for every set of   *)
(* domains, thresholds, periods and cascade graph.                          *)
EXTENDS DomainBreakers, FiniteSetTheorems, SequenceTheorems, TLAPS

(* What holds of the breaker of domain d, recorded as b, when it last       *)
(* opened at `trip' and has had `good' successes in a row.                  *)
Sound(d, b, trip, good) ==
  /\ b.state = "closed" => Len(b.failures) < FailureThreshold[d]
  /\ b.state # "closed" => b.openedAt # Never /\ b.openedAt = trip /\ trip <= now
  /\ b.state = "half-open" => now - trip >= ResetTimeout[d]
  /\ b.state # "half-open" => b.successes = 0
  /\ b.successes < SuccessThreshold[d] /\ b.successes <= good

(* openedAt is the time of the last opening whenever the breaker is not     *)
(* closed: that is why its timeout can neither be cut short nor never end.  *)
IInv == TypeOK /\ \A d \in Domains : Sound(d, breaker[d], tripTime[d], streak[d])

---------------------------------------------------------------------------
(* A new or reset breaker is well formed. *)
LEMMA FreshType == Fresh \in Breakers
BY DEF Fresh, Breakers, States

(* What opening makes of a breaker. *)
LEMMA OpenedType ==
  ASSUME NEW b \in Breakers, NEW t \in Nat
  PROVE  LET o == [b EXCEPT !.state = "open", !.openedAt = t, !.successes = 0]
         IN  /\ o \in Breakers
             /\ o.state = "open" /\ o.openedAt = t /\ o.successes = 0
BY DEF Breakers, States

(* Counting a success keeps a breaker well formed. *)
LEMMA CountedType ==
  ASSUME NEW b \in Breakers
  PROVE  /\ b.successes + 1 \in Nat
         /\ [b EXCEPT !.successes = b.successes + 1] \in Breakers
BY DEF Breakers

(* The lazy transition keeps a sound breaker sound, and opens none. *)
LEMMA CurrentSound ==
  ASSUME IInv, NEW d \in Domains
  PROVE  LET b == Current(d, breaker[d]) IN
         /\ b \in Breakers
         /\ Sound(d, b, tripTime[d], streak[d])
         /\ b.failures = breaker[d].failures
         /\ b.state = "open" => breaker[d].state = "open"
         /\ b.state = "closed" <=> breaker[d].state = "closed"
<1>1. breaker[d] \in Breakers /\ Sound(d, breaker[d], tripTime[d], streak[d])
  BY DEF IInv, TypeOK
<1>2. CASE TimedOut(d, breaker[d])
  <2>1. Current(d, breaker[d]) = [breaker[d] EXCEPT !.state = "half-open", !.successes = 0]
    BY <1>2 DEF Current
  <2>2. /\ breaker[d].state = "open" /\ breaker[d].openedAt # Never
        /\ now - breaker[d].openedAt >= ResetTimeout[d]
    BY <1>2 DEF TimedOut
  <2>3. SuccessThreshold[d] \in Nat \ {0} /\ streak[d] \in Nat
    BY ConfigAssumption DEF IInv, TypeOK
  <2> QED  BY <1>1, <2>1, <2>2, <2>3 DEF Breakers, States, Sound
<1>3. CASE ~TimedOut(d, breaker[d])
  BY <1>1, <1>3 DEF Current
<1> QED  BY <1>2, <1>3

(* Cleaning leaves a list of failures, no longer than it was. *)
LEMMA CleanType ==
  ASSUME NEW d, NEW fs \in Seq(Nat)
  PROVE  CleanOldFailures(d, fs) \in Seq(Nat)
<1> DEFINE gone == {i \in DOMAIN fs : fs[i] <= now - FailureWindow[d]}
<1>1. Len(fs) \in Nat /\ gone \subseteq 1 .. Len(fs)
  OBVIOUS
<1> HIDE DEF gone
<1>2. IsFiniteSet(1 .. Len(fs))
  BY <1>1, FS_Interval
<1>3. Cardinality(gone) \in Nat
  BY <1>1, <1>2, FS_Subset, FS_CardinalityType
<1>4. SubSeq(fs, Cardinality(gone) + 1, Len(fs)) \in Seq(Nat)
  BY <1>1, <1>3, SubSeqProperties
<1> QED  BY <1>4 DEF CleanOldFailures, gone

(* The breaker recordFailure works on, before it decides to open. *)
LEMMA FailureType ==
  ASSUME IInv, NEW d \in Domains
  PROVE  LET b == [Current(d, breaker[d]) EXCEPT
                     !.failures = CleanOldFailures(d, WithFailure(d))]
         IN  /\ b \in Breakers
             /\ b.state = Current(d, breaker[d]).state
             /\ b.openedAt = Current(d, breaker[d]).openedAt
             /\ b.successes = Current(d, breaker[d]).successes
<1>1. Current(d, breaker[d]) \in Breakers
  BY CurrentSound
<1>2. breaker[d].failures \in Seq(Nat) /\ now \in Nat
  BY DEF IInv, TypeOK, Breakers
<1>3. WithFailure(d) \in Seq(Nat)
  BY <1>2, AppendProperties DEF WithFailure
<1>4. CleanOldFailures(d, WithFailure(d)) \in Seq(Nat)
  BY <1>3, CleanType
<1> QED  BY <1>1, <1>4 DEF Breakers

(* Opening a domain, with all it cascades to, leaves every breaker sound. *)
LEMMA OpenSound ==
  ASSUME IInv, NEW d \in Domains, NEW b \in Breakers, Open(d, b),
         UNCHANGED now, pending' \in [Domains -> Nat]
  PROVE  IInv'
<1>1. PICK opened :
        /\ breaker' = [e \in Domains |->
             IF e \in opened
             THEN [(IF e = d THEN b ELSE breaker[e]) EXCEPT
                     !.state = "open", !.openedAt = now, !.successes = 0]
             ELSE breaker[e]]
        /\ tripTime' = [e \in Domains |-> IF e \in opened THEN now ELSE tripTime[e]]
        /\ streak' = [e \in Domains |-> IF e \in opened THEN 0 ELSE streak[e]]
  BY DEF Open
<1>2. ASSUME NEW e \in Domains
      PROVE  /\ breaker'[e] \in Breakers
             /\ Sound(e, breaker'[e], tripTime'[e], streak'[e])
  <2>1. breaker[e] \in Breakers /\ now \in Nat
        /\ Sound(e, breaker[e], tripTime[e], streak[e])
        /\ SuccessThreshold[e] \in Nat \ {0}
    BY ConfigAssumption DEF IInv, TypeOK
  <2>2. CASE e \in opened
    <3>1. PICK x \in Breakers :
            breaker'[e] = [x EXCEPT !.state = "open", !.openedAt = now, !.successes = 0]
      BY <1>1, <2>1, <2>2
    <3>2. tripTime'[e] = now /\ streak'[e] = 0
      BY <1>1, <2>2
    <3>3. now # Never
      BY <2>1 DEF Never
    <3>4. /\ breaker'[e] \in Breakers
          /\ breaker'[e].state = "open"
          /\ breaker'[e].openedAt = now
          /\ breaker'[e].successes = 0
      <4> DEFINE o == [x EXCEPT !.state = "open", !.openedAt = now, !.successes = 0]
      <4>1. now \in Nat
        BY <2>1
      <4>2. /\ o \in Breakers
            /\ o.state = "open" /\ o.openedAt = now /\ o.successes = 0
        BY <4>1, OpenedType
      <4>3. breaker'[e] = o
        BY <3>1
      <4> HIDE DEF o
      <4> QED  BY <4>2, <4>3
    <3>5. now' = now
      OBVIOUS
    <3> QED  BY <2>1, <3>2, <3>3, <3>4, <3>5 DEF Sound
  <2>3. CASE e \notin opened
    BY <1>1, <2>1, <2>3
  <2> QED  BY <2>2, <2>3
<1>3. /\ tripTime' \in [Domains -> Nat \cup {Never}]
      /\ streak' \in [Domains -> Nat]
  BY <1>1 DEF IInv, TypeOK
<1>4. breaker' \in [Domains -> Breakers]
  BY <1>1, <1>2
<1> QED  BY <1>2, <1>3, <1>4 DEF IInv, TypeOK, Sound

---------------------------------------------------------------------------
(* The breakers are sound at first. *)
LEMMA InitSound == Init => IInv
<1> SUFFICES ASSUME Init PROVE IInv
  OBVIOUS
<1>1. TypeOK
  BY FreshType DEF Init, TypeOK
<1>2. ASSUME NEW d \in Domains
      PROVE  Sound(d, breaker[d], tripTime[d], streak[d])
  BY ConfigAssumption DEF Init, Sound, Fresh
<1> QED  BY <1>1, <1>2 DEF IInv

(* Every call, with its cascade, keeps them sound. *)
LEMMA NextSound == IInv /\ [Next]_vars => IInv'
<1> SUFFICES ASSUME IInv, [Next]_vars PROVE IInv'
  OBVIOUS
<1> USE DEF IInv, TypeOK
<1>1. CASE UNCHANGED vars
  BY <1>1 DEF vars, Sound
<1>2. CASE Tick
  <2>1. ResetTimeout \in [Domains -> Nat \ {0}]
    BY ConfigAssumption
  <2>2. ASSUME NEW d \in Domains
        PROVE  Sound(d, breaker[d], tripTime[d], streak[d])'
    <3>1. breaker[d] \in Breakers /\ Sound(d, breaker[d], tripTime[d], streak[d])
          /\ tripTime[d] \in Nat \cup {Never}
      OBVIOUS
    <3> QED  BY <1>2, <2>1, <3>1 DEF Tick, Sound, Never
  <2> QED  BY <1>2, <2>2 DEF Tick
<1>3. ASSUME NEW d \in Domains, Admit(d) \/ Observe(d) PROVE IInv'
  <2>1. /\ breaker' = [breaker EXCEPT ![d] = Current(d, breaker[d])]
        /\ UNCHANGED <<now, tripTime, streak>>
        /\ pending' \in [Domains -> Nat]
    BY <1>3 DEF Admit, Observe
  <2>2. /\ Current(d, breaker[d]) \in Breakers
        /\ Sound(d, Current(d, breaker[d]), tripTime[d], streak[d])
    BY CurrentSound
  <2> QED  BY <2>1, <2>2 DEF Sound
<1>4. ASSUME NEW d \in Domains, RecordSuccess(d) PROVE IInv'
  <2> DEFINE b == Current(d, breaker[d])
  <2>1. b \in Breakers /\ Sound(d, b, tripTime[d], streak[d])
    BY CurrentSound
  <2>2. /\ breaker' = [breaker EXCEPT ![d] = AfterSuccess(d, b)]
        /\ streak' = [streak EXCEPT ![d] =
                        IF @ < SuccessThreshold[d] THEN @ + 1 ELSE @]
        /\ pending' = [pending EXCEPT ![d] = @ - 1] /\ pending[d] > 0
        /\ UNCHANGED <<now, tripTime>>
    BY <1>4 DEF RecordSuccess
  <2> HIDE DEF b
  <2>3. SuccessThreshold[d] \in Nat \ {0} /\ FailureThreshold[d] \in Nat \ {0}
        /\ streak[d] \in Nat
    BY ConfigAssumption
  <2>4. streak'[d] = IF streak[d] < SuccessThreshold[d] THEN streak[d] + 1
                     ELSE streak[d]
    BY <2>2
  <2>5. AfterSuccess(d, b) \in Breakers
    <3>1. [b EXCEPT !.successes = b.successes + 1] \in Breakers
      BY <2>1, CountedType
    <3> QED  BY <2>1, <3>1, FreshType DEF AfterSuccess
  <2>6. Sound(d, AfterSuccess(d, b), tripTime[d], streak'[d])
    <3>1. CASE b.state # "half-open"
      BY <2>1, <2>3, <2>4, <3>1 DEF AfterSuccess, Sound, Breakers
    <3>2. CASE b.state = "half-open" /\ b.successes + 1 >= SuccessThreshold[d]
      BY <2>3, <2>4, <3>2 DEF AfterSuccess, Sound, Fresh
    <3>3. CASE b.state = "half-open" /\ ~(b.successes + 1 >= SuccessThreshold[d])
      <4>1. AfterSuccess(d, b) = [b EXCEPT !.successes = b.successes + 1]
        BY <3>3 DEF AfterSuccess
      <4> QED  BY <2>1, <2>3, <2>4, <3>3, <4>1 DEF Sound, Breakers
    <3> QED  BY <3>1, <3>2, <3>3
  <2> QED  BY <2>2, <2>3, <2>4, <2>5, <2>6 DEF Sound
<1>5. ASSUME NEW d \in Domains, RecordFailure(d) PROVE IInv'
  <2> DEFINE b == [Current(d, breaker[d]) EXCEPT
                     !.failures = CleanOldFailures(d, WithFailure(d))]
  <2>1. /\ b \in Breakers
        /\ b.state = Current(d, breaker[d]).state
        /\ b.openedAt = Current(d, breaker[d]).openedAt
        /\ b.successes = Current(d, breaker[d]).successes
    BY FailureType
  <2>2. Sound(d, Current(d, breaker[d]), tripTime[d], streak[d])
    BY CurrentSound
  <2>3. /\ pending' = [pending EXCEPT ![d] = @ - 1] /\ pending[d] > 0
        /\ UNCHANGED now
        /\ IF Trips(d, b) THEN Open(d, b)
           ELSE /\ breaker' = [breaker EXCEPT ![d] = b]
                /\ streak' = [streak EXCEPT ![d] = 0]
                /\ UNCHANGED tripTime
    BY <1>5 DEF RecordFailure
  <2> HIDE DEF b
  <2>4. pending' \in [Domains -> Nat]
    BY <2>3
  <2>5. CASE Trips(d, b)
    BY <2>1, <2>3, <2>4, <2>5, OpenSound
  <2>6. CASE ~Trips(d, b)
    <3>1. SuccessThreshold[d] \in Nat \ {0} /\ FailureThreshold[d] \in Nat \ {0}
      BY ConfigAssumption
    <3>2. Len(b.failures) \in Nat /\ b.state \in States
      BY <2>1 DEF Breakers
    <3>3. Sound(d, b, tripTime[d], 0)
      BY <2>1, <2>2, <2>6, <3>1, <3>2 DEF Sound, Trips, States
    <3>4. /\ breaker' = [breaker EXCEPT ![d] = b]
          /\ streak' = [streak EXCEPT ![d] = 0]
          /\ UNCHANGED <<now, tripTime>>
      BY <2>3, <2>6
    <3>5. ASSUME NEW e \in Domains
          PROVE  Sound(e, breaker[e], tripTime[e], streak[e])'
      <4>1. CASE e = d
        BY <3>3, <3>4, <4>1 DEF Sound
      <4>2. CASE e # d
        BY <3>4, <4>2 DEF Sound
      <4> QED  BY <4>1, <4>2
    <3> QED  BY <2>1, <2>4, <3>4, <3>5
  <2> QED  BY <2>5, <2>6
<1>6. ASSUME NEW d \in Domains, ForceOpen(d) PROVE IInv'
  BY <1>6, OpenSound DEF ForceOpen
<1>7. ASSUME NEW d \in Domains, Reset(d) PROVE IInv'
  <2>1. SuccessThreshold[d] \in Nat \ {0} /\ FailureThreshold[d] \in Nat \ {0}
        /\ streak[d] \in Nat
    BY ConfigAssumption
  <2>2. Sound(d, Fresh, tripTime[d], streak[d])
    BY <2>1 DEF Sound, Fresh
  <2> QED  BY <1>7, <2>2, FreshType DEF Reset, Sound
<1> QED  BY <1>1, <1>2, <1>3, <1>4, <1>5, <1>6, <1>7 DEF Next

(* So they always are. *)
LEMMA InvInvariant == Spec => []IInv
<1> QED  BY InitSound, NextSound, PTL DEF Spec

---------------------------------------------------------------------------
(* The breakers are well formed. *)
THEOREM Typing == Spec => []TypeOK
<1>1. IInv => TypeOK
  BY DEF IInv
<1> QED  BY <1>1, InvInvariant, PTL

(* No closed breaker is left with the failures that would have opened it.  *)
THEOREM BelowThreshold == Spec => []ClosedBelowThreshold
<1>1. IInv => ClosedBelowThreshold
  BY DEF IInv, Sound, ClosedBelowThreshold
<1> QED  BY <1>1, InvInvariant, PTL

(* Every breaker that is not closed knows when it opened, so it recovers.  *)
THEOREM Recovers == Spec => []NeverStuckOpen
<1>1. IInv => NeverStuckOpen
  BY DEF IInv, Sound, NeverStuckOpen
<1> QED  BY <1>1, InvInvariant, PTL

(* A breaker is half-open only when its whole reset timeout has passed     *)
(* since it last opened, by whichever of the four ways it opened.          *)
THEOREM Timeout == Spec => []FullTimeout
<1>1. IInv => FullTimeout
  BY DEF IInv, Sound, FullTimeout
<1> QED  BY <1>1, InvInvariant, PTL

(* The probes counted are those of the recovery in progress. *)
THEOREM Probes == Spec => []ProbesOfThisRecovery
<1>1. IInv => ProbesOfThisRecovery
  BY DEF IInv, Sound, ProbesOfThisRecovery
<1> QED  BY <1>1, InvInvariant, PTL

---------------------------------------------------------------------------
(* The cascade.  The least set closed under the targets that are not open   *)
(* is itself closed, so the targets of all that opens are open after it.    *)
LEMMA CascadeClosed ==
  ASSUME NEW d \in Domains, NEW e \in Cascade(d), NEW t \in CascadeTargets[e],
         t \in NotOpen
  PROVE  t \in Cascade(d)
<1>1. e \in Domains /\ t \in Domains
  BY DEF Cascade, NotOpen
<1>2. ASSUME NEW S \in SUBSET Domains, d \in S, Closed(S, NotOpen) PROVE t \in S
  <2>1. e \in S
    BY <1>2 DEF Cascade
  <2> QED  BY <1>2, <2>1 DEF Closed
<1> QED  BY <1>1, <1>2 DEF Cascade

(* A step that opens a breaker opened it by the cascade of some domain. *)
LEMMA OpeningSteps ==
  ASSUME IInv, [Next]_vars, NEW d \in Domains,
         breaker[d].state # "open", breaker'[d].state = "open"
  PROVE  \E x \in Domains, b \in Breakers : Open(x, b)
<1> USE DEF IInv, TypeOK
<1>1. CASE UNCHANGED vars \/ Tick
  BY <1>1 DEF vars, Tick
<1>2. ASSUME NEW x \in Domains, Admit(x) \/ Observe(x) PROVE FALSE
  <2>1. breaker' = [breaker EXCEPT ![x] = Current(x, breaker[x])]
    BY <1>2 DEF Admit, Observe
  <2>2. Current(x, breaker[x]).state = "open" => breaker[x].state = "open"
    BY CurrentSound
  <2> QED  BY <2>1, <2>2
<1>3. ASSUME NEW x \in Domains, RecordSuccess(x) PROVE FALSE
  <2> DEFINE b == Current(x, breaker[x])
  <2>1. breaker' = [breaker EXCEPT ![x] = AfterSuccess(x, b)]
    BY <1>3 DEF RecordSuccess
  <2>2. (b.state = "open" => breaker[x].state = "open") /\ b \in Breakers
    BY CurrentSound
  <2> HIDE DEF b
  <2>3. AfterSuccess(x, b).state = "open" => b.state = "open"
    BY <2>2 DEF AfterSuccess, Fresh, Breakers
  <2> QED  BY <2>1, <2>2, <2>3
<1>4. ASSUME NEW x \in Domains, RecordFailure(x)
      PROVE  \E b \in Breakers : Open(x, b)
  <2> DEFINE b == [Current(x, breaker[x]) EXCEPT
                     !.failures = CleanOldFailures(x, WithFailure(x))]
  <2>1. b \in Breakers /\ b.state = Current(x, breaker[x]).state
    BY FailureType
  <2>2. Current(x, breaker[x]).state = "open" => breaker[x].state = "open"
    BY CurrentSound
  <2>3. Open(x, b) \/ breaker' = [breaker EXCEPT ![x] = b]
    BY <1>4 DEF RecordFailure
  <2> HIDE DEF b
  <2> QED  BY <2>1, <2>2, <2>3
<1>5. ASSUME NEW x \in Domains, ForceOpen(x)
      PROVE  \E b \in Breakers : Open(x, b)
  BY <1>5 DEF ForceOpen
<1>6. ASSUME NEW x \in Domains, Reset(x) PROVE FALSE
  BY <1>6 DEF Reset, Fresh
<1> QED  BY <1>1, <1>2, <1>3, <1>4, <1>5, <1>6 DEF Next

(* All targets of an opening breaker open with it or were open. *)
LEMMA CascadeStep ==
  ASSUME IInv, [Next]_vars, NEW d \in Domains,
         breaker[d].state # "open", breaker'[d].state = "open",
         NEW t \in CascadeTargets[d]
  PROVE  breaker'[t].state = "open"
<1> USE DEF IInv, TypeOK
<1>1. PICK x \in Domains, b \in Breakers : Open(x, b)
  BY OpeningSteps
<1>2. breaker' = [e \in Domains |->
        IF e \in Cascade(x)
        THEN [(IF e = x THEN b ELSE breaker[e]) EXCEPT
                !.state = "open", !.openedAt = now, !.successes = 0]
        ELSE breaker[e]]
  BY <1>1 DEF Open
<1>3. t \in Domains
  BY ConfigAssumption
<1>4. \A e \in Domains : e \in Cascade(x) => breaker'[e].state = "open"
  BY <1>2 DEF Breakers
<1>5. d \in Cascade(x)
  BY <1>2
<1>6. CASE t \in NotOpen
  BY <1>3, <1>4, <1>5, <1>6, CascadeClosed
<1>7. CASE t \notin NotOpen
  <2>1. breaker[t].state = "open"
    BY <1>3, <1>7, CurrentSound DEF NotOpen
  <2> QED  BY <1>2, <1>3, <1>4, <2>1
<1> QED  BY <1>6, <1>7

(* When a breaker opens, its cascade targets are open in the same step,     *)
(* through any chains and cycles of targets.                                *)
THEOREM Cascades == Spec => CascadeComplete
<1>1. IInv /\ [Next]_vars =>
        [\A d \in Domains :
           breaker[d].state # "open" /\ breaker'[d].state = "open" =>
             \A t \in CascadeTargets[d] : breaker'[t].state = "open"]_vars
  BY CascadeStep
<1> QED  BY <1>1, InvInvariant, PTL DEF Spec, CascadeComplete

(* No opening closes a breaker. *)
LEMMA OpenClosesNone ==
  ASSUME IInv, NEW x \in Domains, NEW b \in Breakers, Open(x, b),
         NEW d \in Domains, breaker'[d].state = "closed"
  PROVE  breaker[d].state = "closed"
<1>1. PICK opened :
        breaker' = [e \in Domains |->
          IF e \in opened
          THEN [(IF e = x THEN b ELSE breaker[e]) EXCEPT
                  !.state = "open", !.openedAt = now, !.successes = 0]
          ELSE breaker[e]]
  BY DEF Open
<1>2. CASE d \in opened
  <2>1. breaker[d] \in Breakers /\ now \in Nat
    BY DEF IInv, TypeOK
  <2>2. PICK y \in Breakers :
          breaker'[d] = [y EXCEPT !.state = "open", !.openedAt = now, !.successes = 0]
    BY <1>1, <1>2, <2>1
  <2> QED  BY <2>1, <2>2, OpenedType
<1>3. CASE d \notin opened
  BY <1>1, <1>3
<1> QED  BY <1>2, <1>3

(* A breaker closes by a reset, or after as many successes in a row as its  *)
(* threshold asks for.                                                      *)
LEMMA ClosingStep ==
  ASSUME IInv, [Next]_vars, NEW d \in Domains,
         breaker[d].state # "closed", breaker'[d].state = "closed"
  PROVE  Reset(d) \/ streak'[d] >= SuccessThreshold[d]
<1> USE DEF IInv, TypeOK
<1>1. CASE UNCHANGED vars \/ Tick
  BY <1>1 DEF vars, Tick
<1>2. ASSUME NEW x \in Domains, Admit(x) \/ Observe(x) PROVE FALSE
  <2>1. breaker' = [breaker EXCEPT ![x] = Current(x, breaker[x])]
    BY <1>2 DEF Admit, Observe
  <2>2. Current(x, breaker[x]).state = "closed" <=> breaker[x].state = "closed"
    BY CurrentSound
  <2> QED  BY <2>1, <2>2
<1>3. ASSUME NEW x \in Domains, RecordSuccess(x)
      PROVE  streak'[d] >= SuccessThreshold[d]
  <2> DEFINE b == Current(x, breaker[x])
  <2>1. /\ breaker' = [breaker EXCEPT ![x] = AfterSuccess(x, b)]
        /\ streak' = [streak EXCEPT ![x] =
                        IF @ < SuccessThreshold[x] THEN @ + 1 ELSE @]
    BY <1>3 DEF RecordSuccess
  <2>2. /\ b \in Breakers
        /\ b.successes <= streak[x]
        /\ b.state = "closed" <=> breaker[x].state = "closed"
    BY CurrentSound DEF Sound
  <2> HIDE DEF b
  <2>3. x = d
    BY <2>1
  <2>4. b.state = "half-open" /\ b.successes + 1 >= SuccessThreshold[d]
    <3>1. AfterSuccess(d, b).state = "closed"
      BY <2>1, <2>3
    <3> QED  BY <2>2, <2>3, <3>1 DEF AfterSuccess, Breakers
  <2>5. streak[d] \in Nat /\ SuccessThreshold[d] \in Nat /\ b.successes \in Nat
    BY <2>2, ConfigAssumption DEF Breakers
  <2> QED  BY <2>1, <2>2, <2>3, <2>4, <2>5
<1>4. ASSUME NEW x \in Domains, RecordFailure(x) PROVE FALSE
  <2> DEFINE b == [Current(x, breaker[x]) EXCEPT
                     !.failures = CleanOldFailures(x, WithFailure(x))]
  <2>1. b \in Breakers /\ b.state = Current(x, breaker[x]).state
    BY FailureType
  <2>2. Current(x, breaker[x]).state = "closed" <=> breaker[x].state = "closed"
    BY CurrentSound
  <2>3. Open(x, b) \/ breaker' = [breaker EXCEPT ![x] = b]
    BY <1>4 DEF RecordFailure
  <2> HIDE DEF b
  <2>4. CASE breaker' = [breaker EXCEPT ![x] = b]
    BY <2>1, <2>2, <2>4
  <2>5. CASE Open(x, b)
    BY <2>1, <2>5, OpenClosesNone
  <2> QED  BY <2>3, <2>4, <2>5
<1>5. ASSUME NEW x \in Domains, ForceOpen(x) PROVE FALSE
  BY <1>5, OpenClosesNone DEF ForceOpen
<1>6. ASSUME NEW x \in Domains, Reset(x) PROVE Reset(d)
  BY <1>6 DEF Reset
<1> QED  BY <1>1, <1>2, <1>3, <1>4, <1>5, <1>6 DEF Next

(* A breaker closes only by a reset, or after the consecutive successes    *)
(* that its threshold asks for.                                            *)
THEOREM Closes == Spec => ClosesAfterStreak
<1>1. IInv /\ [Next]_vars =>
        [\A d \in Domains :
           breaker[d].state # "closed" /\ breaker'[d].state = "closed" =>
             Reset(d) \/ streak'[d] >= SuccessThreshold[d]]_vars
  BY ClosingStep
<1> QED  BY <1>1, InvInvariant, PTL DEF Spec, ClosesAfterStreak
---------------------------------------------------------------------------
(* The failures on record: in order of time, and none of the future.       *)
Ordered(fs, t) == \A i \in DOMAIN fs :
                     fs[i] <= t /\ \A j \in DOMAIN fs : i <= j => fs[i] <= fs[j]

(* No failures are in order. *)
LEMMA EmptyOrdered == \A t : Ordered(<<>>, t)
BY DEF Ordered

(* Pushing the current time keeps the order. *)
LEMMA PushOrdered ==
  ASSUME NEW t \in Nat, NEW fs \in Seq(Nat), Ordered(fs, t)
  PROVE  Append(fs, t) \in Seq(Nat) /\ Ordered(Append(fs, t), t)
<1> DEFINE gs == Append(fs, t)
<1>1. /\ gs \in Seq(Nat) /\ DOMAIN gs = 1 .. Len(fs) + 1
      /\ gs[Len(fs) + 1] = t /\ \A i \in 1 .. Len(fs) : gs[i] = fs[i]
  BY AppendProperties
<1>2. Len(fs) \in Nat /\ DOMAIN fs = 1 .. Len(fs) /\ \A i \in 1 .. Len(fs) : fs[i] \in Nat
  OBVIOUS
<1> HIDE DEF gs
<1>3. Ordered(gs, t)
  BY <1>1, <1>2 DEF Ordered
<1> QED  BY <1>1, <1>3 DEF gs

(* So does dropping the first failures. *)
LEMMA SuffixOrdered ==
  ASSUME NEW t \in Nat, NEW fs \in Seq(Nat), Ordered(fs, t), NEW k \in 0 .. Len(fs)
  PROVE  LET gs == SubSeq(fs, k + 1, Len(fs)) IN
         /\ gs \in Seq(Nat) /\ Len(gs) = Len(fs) - k
         /\ \A i \in 1 .. Len(gs) : gs[i] = fs[k + i]
         /\ Ordered(gs, t)
<1> DEFINE gs == SubSeq(fs, k + 1, Len(fs))
<1>1. Len(fs) \in Nat /\ DOMAIN fs = 1 .. Len(fs) /\ \A i \in 1 .. Len(fs) : fs[i] \in Nat
  OBVIOUS
<1>2. /\ gs \in Seq(Nat)
      /\ Len(gs) = IF k + 1 <= Len(fs) THEN Len(fs) - (k + 1) + 1 ELSE 0
      /\ \A i \in 1 .. Len(fs) - (k + 1) + 1 : gs[i] = fs[k + 1 + i - 1]
  BY <1>1, SubSeqProperties
<1> HIDE DEF gs
<1>3. Len(gs) = Len(fs) - k
  <2>1. k \in Nat /\ k <= Len(fs)
    BY <1>1
  <2>2. CASE k + 1 <= Len(fs)
    BY <1>1, <1>2, <2>1, <2>2
  <2>3. CASE ~(k + 1 <= Len(fs))
    <3>1. k = Len(fs)
      <4>1. Len(fs) \in Nat
        OBVIOUS
      <4> QED  BY <2>1, <2>3, <4>1
    <3>2. Len(gs) = 0
      BY <1>2, <2>3
    <3> QED  BY <1>1, <3>1, <3>2
  <2> QED  BY <2>2, <2>3
<1>4. \A i \in 1 .. Len(gs) : gs[i] = fs[k + i]
  <2> TAKE i \in 1 .. Len(gs)
  <2>1. k + 1 + i - 1 = k + i /\ i \in 1 .. Len(fs) - (k + 1) + 1
    BY <1>1, <1>3
  <2> QED  BY <1>2, <2>1
<1>5. ASSUME NEW i \in 1 .. Len(gs), NEW j \in 1 .. Len(gs), i <= j
      PROVE  gs[i] <= t /\ gs[i] <= gs[j]
  <2>1. /\ k + i \in 1 .. Len(fs) /\ k + j \in 1 .. Len(fs) /\ k + i <= k + j
    BY <1>1, <1>3, <1>5
  <2>2. fs[k + i] <= t /\ fs[k + i] <= fs[k + j]
    BY <1>1, <2>1 DEF Ordered
  <2> QED  BY <1>4, <2>2
<1>6. Ordered(gs, t)
  <2>1. DOMAIN gs = 1 .. Len(gs)
    BY <1>2
  <2>2. \A i \in 1 .. Len(gs) : i <= i
    BY <1>1, <1>3
  <2> QED  BY <1>5, <2>1, <2>2 DEF Ordered
<1> QED  BY <1>2, <1>3, <1>4, <1>6 DEF gs

(* In a list in order of time, cleanOldFailures drops the failures that     *)
(* have left the window and no other: they are the first ones.              *)
LEMMA CleanExact ==
  ASSUME NEW d, FailureWindow[d] \in Nat, now \in Nat,
         NEW fs \in Seq(Nat), Ordered(fs, now)
  PROVE  \E k \in 0 .. Len(fs) :
           /\ CleanOldFailures(d, fs) = SubSeq(fs, k + 1, Len(fs))
           /\ \A i \in 1 .. Len(fs) : i <= k <=> fs[i] <= now - FailureWindow[d]
<1> DEFINE old == {i \in DOMAIN fs : fs[i] <= now - FailureWindow[d]}
           k == Cardinality(old)
<1>1. Len(fs) \in Nat /\ DOMAIN fs = 1 .. Len(fs) /\ \A i \in 1 .. Len(fs) : fs[i] \in Nat
  OBVIOUS
<1>2. \A i \in old : \A j \in 1 .. Len(fs) : j <= i => j \in old
  BY <1>1 DEF Ordered
<1>3. old \subseteq 1 .. Len(fs)
  BY <1>1
<1>4. \A i \in 1 .. Len(fs) : i \in old <=> fs[i] <= now - FailureWindow[d]
  BY <1>1
<1>5. CleanOldFailures(d, fs) = SubSeq(fs, k + 1, Len(fs))
  BY DEF CleanOldFailures
<1> HIDE DEF old
<1>6. \A n \in Nat : IsFiniteSet(1 .. n) /\ Cardinality(1 .. n) = n
  <2> TAKE n \in Nat
  <2>1. /\ IsFiniteSet(1 .. n)
        /\ Cardinality(1 .. n) = IF 1 > n THEN 0 ELSE n - 1 + 1
    <3>1. 1 \in Int /\ n \in Int
      OBVIOUS
    <3> QED  BY <3>1, FS_Interval, Zenon
  <2>2. (IF 1 > n THEN 0 ELSE n - 1 + 1) = n
    OBVIOUS
  <2> QED  BY <2>1, <2>2
<1>7. IsFiniteSet(old) /\ k \in Nat /\ k <= Len(fs)
  <2>1. IsFiniteSet(1 .. Len(fs)) /\ Cardinality(1 .. Len(fs)) = Len(fs)
    BY <1>1, <1>6
  <2>2. IsFiniteSet(old) /\ k <= Cardinality(1 .. Len(fs))
    BY <1>3, <2>1, FS_Subset
  <2> QED  BY <2>1, <2>2, FS_CardinalityType
<1>8. ASSUME NEW i \in 1 .. Len(fs) PROVE i <= k <=> i \in old
  <2>1. CASE i \in old
    <3>1. 1 .. i \subseteq old
      BY <1>2, <2>1
    <3>2. Cardinality(1 .. i) <= k
      BY <1>7, <3>1, FS_Subset
    <3> QED  BY <1>6, <2>1, <3>2
  <2>2. CASE i \notin old
    <3>1. old \subseteq 1 .. (i - 1)
      BY <1>2, <1>3, <2>2
    <3>2. i - 1 \in Nat
      BY <1>1
    <3>3. IsFiniteSet(1 .. (i - 1)) /\ Cardinality(1 .. (i - 1)) = i - 1
      BY <1>6, <3>2
    <3>4. k <= Cardinality(1 .. (i - 1))
      BY <3>1, <3>3, FS_Subset
    <3> QED  BY <1>7, <2>2, <3>2, <3>3, <3>4
  <2> QED  BY <2>1, <2>2
<1> HIDE DEF k
<1>9. k \in 0 .. Len(fs)
  BY <1>1, <1>7
<1>10. \A i \in 1 .. Len(fs) : i <= k <=> fs[i] <= now - FailureWindow[d]
  BY <1>4, <1>8
<1> QED  BY <1>5, <1>9, <1>10

(* Cleaning keeps the order, and all it leaves is within the window. *)
LEMMA CleanOrdered ==
  ASSUME NEW d, FailureWindow[d] \in Nat, now \in Nat,
         NEW fs \in Seq(Nat), Ordered(fs, now)
  PROVE  /\ CleanOldFailures(d, fs) \in Seq(Nat)
         /\ Ordered(CleanOldFailures(d, fs), now)
         /\ \A i \in DOMAIN CleanOldFailures(d, fs) :
              CleanOldFailures(d, fs)[i] > now - FailureWindow[d]
<1>1. PICK k \in 0 .. Len(fs) :
        /\ CleanOldFailures(d, fs) = SubSeq(fs, k + 1, Len(fs))
        /\ \A i \in 1 .. Len(fs) : i <= k <=> fs[i] <= now - FailureWindow[d]
  BY CleanExact
<1> DEFINE gs == SubSeq(fs, k + 1, Len(fs))
<1>2. /\ gs \in Seq(Nat) /\ Len(gs) = Len(fs) - k
      /\ \A i \in 1 .. Len(gs) : gs[i] = fs[k + i]
      /\ Ordered(gs, now)
  BY SuffixOrdered
<1>3. CleanOldFailures(d, fs) = gs
  BY <1>1
<1> HIDE DEF gs
<1>4. \A i \in DOMAIN gs : gs[i] > now - FailureWindow[d]
  <2>1. Len(fs) \in Nat /\ \A i \in 1 .. Len(fs) : fs[i] \in Nat
    OBVIOUS
  <2>2. DOMAIN gs = 1 .. Len(gs)
    BY <1>2
  <2>3. ASSUME NEW i \in 1 .. Len(gs) PROVE gs[i] > now - FailureWindow[d]
    <3>1. k + i \in 1 .. Len(fs) /\ ~(k + i <= k) /\ gs[i] = fs[k + i]
      BY <1>2, <2>1
    <3>2. ~(fs[k + i] <= now - FailureWindow[d]) /\ fs[k + i] \in Nat
      BY <1>1, <2>1, <3>1
    <3> QED  BY <3>1, <3>2
  <2> QED  BY <2>2, <2>3
<1> QED  BY <1>2, <1>3, <1>4

(* The invariant with the order of the failures, which every call keeps. *)
FInv == IInv /\ \A d \in Domains : Ordered(breaker[d].failures, now)

(* What recordFailure leaves on record. *)
LEMMA FailureRecorded ==
  ASSUME FInv, NEW d \in Domains
  PROVE  LET fs == CleanOldFailures(d, WithFailure(d)) IN
         Ordered(fs, now) /\ \A i \in DOMAIN fs : fs[i] > now - FailureWindow[d]
<1>1. breaker[d].failures \in Seq(Nat) /\ now \in Nat /\ Ordered(breaker[d].failures, now)
  BY DEF FInv, IInv, TypeOK, Breakers
<1>2. WithFailure(d) \in Seq(Nat) /\ Ordered(WithFailure(d), now)
  BY <1>1, PushOrdered DEF WithFailure
<1>3. FailureWindow[d] \in Nat
  BY ConfigAssumption
<1> QED  BY <1>1, <1>2, <1>3, CleanOrdered

(* An opening keeps the failures of the domain it starts from as they are   *)
(* given, and those of all others.                                          *)
LEMMA OpenFailures ==
  ASSUME FInv, NEW x \in Domains, NEW b \in Breakers, Open(x, b), NEW e \in Domains
  PROVE  breaker'[e].failures = IF e = x THEN b.failures ELSE breaker[e].failures
<1>1. breaker \in [Domains -> Breakers]
  BY DEF FInv, IInv, TypeOK
<1>2. breaker' = [d \in Domains |->
        IF d \in Cascade(x)
        THEN [(IF d = x THEN b ELSE breaker[d]) EXCEPT
                !.state = "open", !.openedAt = now, !.successes = 0]
        ELSE breaker[d]]
  BY DEF Open
<1>3. x \in Cascade(x)
  BY DEF Cascade
<1>4. CASE e \in Cascade(x)
  <2>1. PICK y \in Breakers : y = IF e = x THEN b ELSE breaker[e]
    BY <1>1
  <2>2. breaker'[e] = [y EXCEPT !.state = "open", !.openedAt = now, !.successes = 0]
    BY <1>2, <1>4, <2>1
  <2>3. breaker'[e].failures = y.failures
    BY <2>2 DEF Breakers
  <2> QED  BY <2>1, <2>3
<1>5. CASE e \notin Cascade(x)
  BY <1>2, <1>3, <1>5
<1> QED  BY <1>4, <1>5

(* Every call leaves the failures of a breaker as they were, forgets them,  *)
(* or records one more and cleans them.                                     *)
LEMMA FailuresStep ==
  ASSUME FInv, Next, NEW e \in Domains
  PROVE  \/ breaker'[e].failures = breaker[e].failures
         \/ breaker'[e].failures = <<>>
         \/ UNCHANGED now /\ breaker'[e].failures = CleanOldFailures(e, WithFailure(e))
<1>1. IInv /\ breaker \in [Domains -> Breakers]
  BY DEF FInv, IInv, TypeOK
<1>2. CASE Tick
  BY <1>2 DEF Tick
<1>3. ASSUME NEW x \in Domains, Admit(x) \/ Observe(x)
      PROVE  breaker'[e].failures = breaker[e].failures
  <2>1. breaker' = [breaker EXCEPT ![x] = Current(x, breaker[x])]
    BY <1>3 DEF Admit, Observe
  <2>2. Current(x, breaker[x]).failures = breaker[x].failures
    BY <1>1, CurrentSound
  <2> QED  BY <1>1, <2>1, <2>2
<1>4. ASSUME NEW x \in Domains, RecordSuccess(x)
      PROVE  breaker'[e].failures \in {breaker[e].failures, <<>>}
  <2> DEFINE b == Current(x, breaker[x])
  <2>1. breaker' = [breaker EXCEPT ![x] = AfterSuccess(x, b)]
    BY <1>4 DEF RecordSuccess
  <2>2. b \in Breakers /\ b.failures = breaker[x].failures
    BY <1>1, CurrentSound
  <2> HIDE DEF b
  <2>3. AfterSuccess(x, b).failures \in {b.failures, <<>>}
    BY <2>2 DEF AfterSuccess, Fresh, Breakers
  <2> QED  BY <1>1, <2>1, <2>2, <2>3
<1>5. ASSUME NEW x \in Domains, RecordFailure(x)
      PROVE  /\ UNCHANGED now
             /\ breaker'[e].failures = IF e = x THEN CleanOldFailures(e, WithFailure(e))
                                       ELSE breaker[e].failures
  <2> DEFINE fs == CleanOldFailures(x, WithFailure(x))
             b == [Current(x, breaker[x]) EXCEPT !.failures = fs]
  <2>1. b \in Breakers
    BY <1>1, FailureType
  <2>2. b.failures = fs
    BY <1>1, CurrentSound DEF Breakers
  <2>3. /\ UNCHANGED now
        /\ Open(x, b) \/ breaker' = [breaker EXCEPT ![x] = b]
    BY <1>5 DEF RecordFailure
  <2> HIDE DEF b, fs
  <2>4. breaker'[e].failures = IF e = x THEN b.failures ELSE breaker[e].failures
    <3>1. CASE Open(x, b)
      BY <2>1, <3>1, OpenFailures
    <3>2. CASE breaker' = [breaker EXCEPT ![x] = b]
      BY <1>1, <3>2
    <3> QED  BY <2>3, <3>1, <3>2
  <2> QED  BY <2>2, <2>3, <2>4 DEF fs
<1>6. ASSUME NEW x \in Domains, ForceOpen(x)
      PROVE  breaker'[e].failures = breaker[e].failures
  BY <1>1, <1>6, OpenFailures DEF ForceOpen
<1>7. ASSUME NEW x \in Domains, Reset(x)
      PROVE  breaker'[e].failures \in {breaker[e].failures, <<>>}
  BY <1>1, <1>7 DEF Reset, Fresh
<1> QED  BY <1>2, <1>3, <1>4, <1>5, <1>6, <1>7 DEF Next

(* Every step keeps the failures on record in order. *)
LEMMA NextFailures == FInv /\ [Next]_vars => FInv'
<1> SUFFICES ASSUME FInv, [Next]_vars PROVE FInv'
  OBVIOUS
<1>1. IInv'
  BY NextSound DEF FInv
<1>2. now \in Nat /\ now' \in Nat /\ now' >= now
  <2>1. now \in Nat /\ now' \in Nat
    BY <1>1 DEF FInv, IInv, TypeOK
  <2>2. now' = now \/ now' = now + 1
    BY DEF Next, Tick, Admit, Observe, RecordSuccess, RecordFailure, ForceOpen, Reset, vars
  <2> QED  BY <2>1, <2>2
<1>3. ASSUME NEW e \in Domains PROVE Ordered(breaker'[e].failures, now')
  <2>1. Ordered(breaker[e].failures, now) /\ breaker[e].failures \in Seq(Nat)
    BY DEF FInv, IInv, TypeOK, Breakers
  <2>2. CASE breaker'[e].failures = breaker[e].failures
    <3>1. \A i \in DOMAIN breaker[e].failures : breaker[e].failures[i] \in Nat
      BY <2>1
    <3> QED  BY <1>2, <2>1, <2>2, <3>1 DEF Ordered
  <2>3. CASE breaker'[e].failures = <<>>
    BY <2>3, EmptyOrdered
  <2>4. CASE UNCHANGED now /\ breaker'[e].failures = CleanOldFailures(e, WithFailure(e))
    BY <2>4, FailureRecorded
  <2>5. CASE UNCHANGED vars
    BY <2>1, <2>5 DEF vars
  <2> QED  BY <2>2, <2>3, <2>4, <2>5, FailuresStep
<1> QED  BY <1>1, <1>3 DEF FInv

(* So they always are. *)
LEMMA FailuresInvariant == Spec => []FInv
<1>1. Init => FInv
  BY InitSound, EmptyOrdered DEF FInv, Init, Fresh
<1> QED  BY <1>1, NextFailures, PTL DEF Spec

(* The failures on record are in order of time, so that those that have     *)
(* left the window are the first ones.                                      *)
THEOREM InOrder == Spec => []FailuresInOrder
<1>1. FInv => FailuresInOrder
  BY DEF FInv, Ordered, FailuresInOrder
<1> QED  BY <1>1, FailuresInvariant, PTL

(* A closed breaker that a failure opens has as many failures as its        *)
(* threshold, all of them within the window that ends now: none that has    *)
(* left the window counts.                                                  *)
OpensOnRecentFailures ==
  [][\A d \in Domains :
       RecordFailure(d) /\ breaker[d].state = "closed" /\ breaker'[d].state = "open" =>
         LET fs == breaker'[d].failures IN
         /\ Len(fs) >= FailureThreshold[d]
         /\ \A i \in DOMAIN fs : now - FailureWindow[d] < fs[i] /\ fs[i] <= now]_vars

(* A failure that opens a breaker finds enough recent ones, as the old are *)
(* dropped before it counts.                                               *)
LEMMA OpeningFailure ==
  ASSUME FInv, NEW d \in Domains, RecordFailure(d),
         breaker[d].state = "closed", breaker'[d].state = "open"
  PROVE  LET fs == breaker'[d].failures IN
         /\ Len(fs) >= FailureThreshold[d]
         /\ \A i \in DOMAIN fs : now - FailureWindow[d] < fs[i] /\ fs[i] <= now
<1> DEFINE gs == CleanOldFailures(d, WithFailure(d))
           b == [Current(d, breaker[d]) EXCEPT !.failures = gs]
<1>1. IInv /\ breaker \in [Domains -> Breakers] /\ now \in Nat
  BY DEF FInv, IInv, TypeOK
<1>2. /\ b \in Breakers /\ b.failures = gs
      /\ b.state = Current(d, breaker[d]).state
  BY <1>1, FailureType, CurrentSound DEF Breakers
<1>3. b.state = "closed"
  BY <1>1, <1>2, CurrentSound
<1>4. IF Trips(d, b) THEN Open(d, b) ELSE breaker' = [breaker EXCEPT ![d] = b]
  BY DEF RecordFailure
<1>5. Ordered(gs, now) /\ \A i \in DOMAIN gs : gs[i] > now - FailureWindow[d]
  BY FailureRecorded
<1> HIDE DEF b, gs
<1>6. Trips(d, b)
  BY <1>1, <1>3, <1>4
<1>7. Len(gs) >= FailureThreshold[d]
  BY <1>2, <1>3, <1>6 DEF Trips
<1>8. breaker'[d].failures = gs
  BY <1>2, <1>4, <1>6, OpenFailures
<1>9. gs \in Seq(Nat) /\ FailureWindow[d] \in Nat
  BY <1>2, ConfigAssumption DEF Breakers
<1>10. \A i \in DOMAIN gs : gs[i] \in Nat
  BY <1>9
<1> QED  BY <1>1, <1>5, <1>7, <1>8, <1>9, <1>10 DEF Ordered

(* Only failures within the window open a closed breaker.                   *)
THEOREM RecentFailuresOpen == Spec => OpensOnRecentFailures
<1>1. FInv /\ [Next]_vars =>
        [\A d \in Domains :
           RecordFailure(d) /\ breaker[d].state = "closed" /\ breaker'[d].state = "open" =>
             LET fs == breaker'[d].failures IN
             /\ Len(fs) >= FailureThreshold[d]
             /\ \A i \in DOMAIN fs : now - FailureWindow[d] < fs[i] /\ fs[i] <= now]_vars
  BY OpeningFailure
<1> QED  BY <1>1, FailuresInvariant, PTL DEF Spec, OpensOnRecentFailures
=============================================================================
