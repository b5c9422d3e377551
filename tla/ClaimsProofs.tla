----------------------------- MODULE ClaimsProofs -----------------------------
(***************************************************************************)
(* Proofs about the claim service: whatever statuses callers set and       *)
(* whatever operations overwrite one another's records, time runs only for *)
(* a claim that somebody has; and pending handoffs keep to their limit.    *)
(***************************************************************************)
EXTENDS Claims, FiniteSetTheorems, TLAPS

GoodRecords ==
  {r \in Records : r.expiry # "none" => r.holder # None}

HeldRecords == {r \in GoodRecords : r.holder # None}
StolenRecords == {r \in GoodRecords : r.holder \in Agents}

GoodOps ==
  [op: {"claim", "change"}, claim: Ids, next: GoodRecords \cup {Fails}]
  \cup [op: {"steal"}, claim: Ids, next: StolenRecords \cup {Fails}]
  \cup {k \in [op: {"request"}, claim: Ids, next: Requests \cup {Fails}] :
          k.next # Fails => k.next.claim = k.claim}
  \cup [op: {"find"}, who: Agents, stale: SUBSET Ids]
  \cup [op: {"complete"}, handoff: Handoffs, to: Claimants, request: Requests]
  \cup [op: {"handoff"}, handoff: Handoffs, claim: Ids, next: GoodRecords \cup {Fails}]
  \cup [op: {"forget"}, handoff: Handoffs]

(* The inductive invariant: the copies that operations and the expiry pass *)
(* are going to write are as good as the records they replace.             *)
IInv ==
  /\ repo \in [Ids -> GoodRecords]
  /\ call \in [Promises -> GoodOps \cup {NoCall}]
  /\ sweep \subseteq Ids \X HeldRecords
  /\ busy \subseteq Agents
  /\ pending \in [Handoffs -> Requests \cup {NoHandoff}]

(* What each operation makes of a good record is good. *)
LEMMA ClaimedGood ==
  ASSUME NEW r \in GoodRecords, NEW a \in Claimants
  PROVE  Claimed(r, a) \in GoodRecords /\ Claimed(r, a).holder = a
BY ClaimantAssumption DEF Claimed, GoodRecords, Records, Statuses

(* A stolen claim is consistent. *)
LEMMA StolenGood ==
  ASSUME NEW r \in GoodRecords, NEW a \in Agents
  PROVE  Stolen(r, a) \in StolenRecords
<1> DEFINE q == Claimed(r, a)
<1>0. a \in Claimants BY DEF Claimants
<1>1. q \in GoodRecords /\ q.holder = a 
  BY <1>0, ClaimedGood
<1> HIDE DEF q
<1>2. [q EXCEPT !.steals = @ + 1] \in StolenRecords
  BY <1>1, ClaimLimitAssumption DEF StolenRecords, GoodRecords, Records
<1> QED BY <1>2 DEF Stolen, q

(* So is one that was handed off. *)
LEMMA HandedOffGood ==
  ASSUME NEW r \in GoodRecords, NEW a \in Claimants
  PROVE  HandedOff(r, a) \in GoodRecords
BY ClaimantAssumption DEF HandedOff, GoodRecords, Records, Statuses

(* So is one that expired: it has neither claimant nor expiry. *)
LEMMA ExpiredGood ==
  ASSUME NEW r \in GoodRecords
  PROVE  Expired(r) \in GoodRecords
BY DEF Expired, GoodRecords, Records, Statuses

(* So is one that was released. *)
LEMMA ReleasedGood ==
  ASSUME NEW r \in GoodRecords, NEW why \in AllReasons
  PROVE  Released(r, why) \in GoodRecords
<1> DEFINE st == CASE why \in {"completed", "abandoned"} -> why
                   [] why \in {"handoff", "stolen"} -> "claimed"
                   [] OTHER -> "available"
           hd == IF why \in {"handoff", "stolen"} THEN r.holder ELSE None
<1>1. \/ st \in {"completed", "abandoned", "available"} /\ hd = None
      \/ st = "claimed" /\ hd = r.holder
  <2>1. CASE why \in {"completed", "abandoned"} BY <2>1
  <2>2. CASE why \in {"handoff", "stolen"} BY <2>2
  <2>3. CASE why = "none" BY <2>3
  <2> QED BY <2>1, <2>2, <2>3 DEF AllReasons
<1>2. Released(r, why) = [r EXCEPT !.status = st, !.holder = hd, !.expiry = "none"]
  BY DEF Released
<1> HIDE DEF st, hd
<1> QED BY <1>1, <1>2, ClaimantAssumption DEF GoodRecords, Records, Statuses

(* So is one that was given another status, whichever. *)
LEMMA UpdatedGood ==
  ASSUME NEW r \in GoodRecords, NEW st \in Statuses
  PROVE  [r EXCEPT !.status = st] \in GoodRecords
BY DEF GoodRecords, Records

(* So is a new one. *)
LEMMA NewRecordGood == NewRecord \in GoodRecords
BY ClaimLimitAssumption DEF NewRecord, GoodRecords, Records, Statuses

(* What a promise may hold while its operation waits. *)
LEMMA OpParts ==
  ASSUME NEW k \in GoodOps \cup {NoCall}
  PROVE  /\ k.op \in {"claim", "change", "handoff"} =>
              k.claim \in Ids /\ (k.next # Fails => k.next \in GoodRecords)
         /\ k.op = "steal" =>
              k.claim \in Ids /\ (k.next # Fails => k.next \in StolenRecords)
         /\ k.op = "request" =>
              k.claim \in Ids /\ (k.next # Fails => k.next \in Requests /\ k.next.claim = k.claim)
         /\ k.op = "find" => k.who \in Agents /\ k.stale \subseteq Ids
         /\ k.op = "complete" =>
              k.handoff \in Handoffs /\ k.to \in Claimants /\ k.request \in Requests
         /\ k.op \in {"handoff", "forget"} => k.handoff \in Handoffs
BY DEF GoodOps, NoCall

(* The invariant holds at first. *)
LEMMA InitIInv == Init => IInv
BY NewRecordGood DEF Init, IInv

(* An operation that starts holds a good copy, and changes nothing else. *)
LEMMA StartsIInv ==
  ASSUME IInv, NEW p \in Promises, NEW k \in GoodOps, Starts(p, k)
  PROVE  IInv'
BY DEF IInv, Starts

(* A call that will write a consistent record keeps it. *)
LEMMA CallsIInv ==
  ASSUME IInv, NEW p \in Promises, NEW op \in {"claim", "change"}, NEW c \in Ids,
         NEW ok \in BOOLEAN, NEW new, ok => new \in GoodRecords, Calls(p, op, c, ok, new)
  PROVE  IInv'
<1> DEFINE next == IF ok THEN new ELSE Fails
           k == [op |-> op, claim |-> c, next |-> next]
<1>1. next \in GoodRecords \cup {Fails} OBVIOUS
<1>2. Starts(p, k) BY DEF Calls
<1> HIDE DEF next
<1>3. k \in GoodOps BY <1>1 DEF GoodOps
<1> HIDE DEF k
<1> QED BY <1>2, <1>3, StartsIInv

(* So does a request for a handoff. *)
LEMMA AsksIInv ==
  ASSUME IInv, NEW p \in Callers, NEW c \in Ids, Asks(p, c)
  PROVE  IInv'
<1>0. repo[c] \in GoodRecords /\ p \in Promises BY DEF IInv, Promises
<1>1. ASSUME NEW a \in Claimants, CallClaim(p, c, a) PROVE IInv'
  BY <1>0, <1>1, ClaimedGood, CallsIInv DEF CallClaim
<1>2. ASSUME NEW from \in {Agents, Humans}, CallRequest(p, c, from) PROVE IInv'
  <2> DEFINE next == IF repo[c].holder \in from
                     THEN [claim |-> c, by |-> repo[c].holder, target |-> Claimants \ from]
                     ELSE Fails
             k == [op |-> "request", claim |-> c, next |-> next]
  <2>1. Claimants \ from \in {Agents, Humans} /\ from \subseteq Claimants
    BY ClaimantAssumption DEF Claimants
  <2>2. next \in Requests \cup {Fails} /\ (next # Fails => next.claim = c)
    BY <2>1 DEF Requests
  <2>3. Starts(p, k) BY <1>2 DEF CallRequest
  <2> HIDE DEF next
  <2>4. k \in GoodOps BY <2>2 DEF GoodOps
  <2> HIDE DEF k
  <2> QED BY <1>0, <2>3, <2>4, StartsIInv
<1> QED BY <1>1, <1>2 DEF Asks

(* So does the read that precedes a change. *)
LEMMA ChangesIInv ==
  ASSUME IInv, NEW p \in Changers, NEW c \in Ids, Changes(p, c)
  PROVE  IInv'
<1>0. repo[c] \in GoodRecords /\ p \in Promises BY CallerAssumption DEF IInv, Promises
<1>1. CASE CallEscalate(p, c) BY <1>0, <1>1, CallsIInv DEF CallEscalate
<1>2. ASSUME NEW a \in Claimants, NEW why \in Reasons, CallRelease(p, c, a, why) PROVE IInv'
  BY <1>0, <1>2, BoundAssumption, ReleasedGood, CallsIInv DEF CallRelease
<1>3. ASSUME NEW a \in Claimants \cup {None}, NEW st \in Settable, CallUpdate(p, c, a, st)
      PROVE  IInv'
  BY <1>0, <1>3, BoundAssumption, UpdatedGood, CallsIInv DEF CallUpdate
<1> QED BY <1>1, <1>2, <1>3 DEF Changes

(* A write puts a good record in place of one. *)
LEMMA WriteGood ==
  ASSUME IInv, NEW c \in Ids, NEW r \in GoodRecords, Write(c, r)
  PROVE  repo' \in [Ids -> GoodRecords]
BY DEF IInv, Write

(* What the repository answers is a call to go on with, or none. *)
LEMMA ReturnsGood ==
  ASSUME IInv, NEW p \in Promises, Returns(p)
  PROVE  call' \in [Promises -> GoodOps \cup {NoCall}]
BY DEF IInv, Returns

(* A request that is added is a request. *)
LEMMA AddRequestTyped ==
  ASSUME IInv, NEW r \in Requests, AddRequest(r)
  PROVE  pending' \in [Handoffs -> Requests \cup {NoHandoff}]
<1> PICK h : pending' = [pending EXCEPT ![h] = r] BY DEF AddRequest
<1> QED BY DEF IInv

(* The write that follows a read keeps it, however old the read is. *)
LEMMA ResumeIInv ==
  ASSUME IInv, NEW p \in Promises, Resume(p)
  PROVE  IInv'
<1> DEFINE k == call[p]
<1>0. k \in GoodOps \cup {NoCall} BY DEF IInv
<1>1. CASE WriteReturns(p)
  <2>1. k.claim \in Ids /\ k.next \in GoodRecords BY <1>0, <1>1, OpParts DEF WriteReturns, Waits
  <2>2. repo' \in [Ids -> GoodRecords] BY <1>1, <2>1, WriteGood DEF WriteReturns
  <2> QED BY <1>1, <2>2, ReturnsGood DEF WriteReturns, IInv
<1>2. CASE Throws(p) BY <1>2, ReturnsGood DEF Throws, IInv
<1>3. CASE RequestReturns(p)
  <2>1. k.next \in Requests BY <1>0, <1>3, OpParts DEF RequestReturns, Waits
  <2>2. pending' \in [Handoffs -> Requests \cup {NoHandoff}]
    BY <1>3, <2>1, AddRequestTyped DEF RequestReturns
  <2> QED BY <1>3, <2>2, ReturnsGood DEF RequestReturns, IInv
<1>4. CASE RequestThrows(p) BY <1>4, ReturnsGood DEF RequestThrows, IInv
<1>5. CASE CallHandoff(p)
  <2> DEFINE r == repo[k.request.claim]
             next == IF r.holder = k.request.by THEN HandedOff(r, k.to) ELSE Fails
             new == [op |-> "handoff", handoff |-> k.handoff, claim |-> k.request.claim,
                     next |-> next]
  <2>1. k.handoff \in Handoffs /\ k.to \in Claimants /\ k.request \in Requests
    BY <1>0, <1>5, OpParts DEF CallHandoff, Waits
  <2>2. k.request.claim \in Ids /\ k.request.by \in Claimants BY <2>1 DEF Requests
  <2>3. r \in GoodRecords BY <2>2 DEF IInv
  <2>4. next \in GoodRecords \cup {Fails} BY <2>1, <2>2, <2>3, HandedOffGood
  <2>5. call' = [call EXCEPT ![p] = new] /\ UNCHANGED <<repo, sweep, busy, pending>>
    BY <1>5 DEF CallHandoff
  <2> HIDE DEF next
  <2>6. new \in GoodOps BY <2>1, <2>2, <2>4 DEF GoodOps
  <2> HIDE DEF new
  <2> QED BY <2>5, <2>6 DEF IInv
<1>6. CASE HandoffWrites(p)
  <2> DEFINE new == [op |-> "forget", handoff |-> k.handoff]
  <2>1. k.handoff \in Handoffs /\ k.claim \in Ids /\ k.next \in GoodRecords
    BY <1>0, <1>6, OpParts DEF HandoffWrites, Waits
  <2>2. repo' \in [Ids -> GoodRecords] BY <1>6, <2>1, WriteGood DEF HandoffWrites
  <2>3. call' = [call EXCEPT ![p] = new] /\ UNCHANGED <<sweep, busy, pending>>
    BY <1>6 DEF HandoffWrites
  <2>4. new \in GoodOps BY <2>1 DEF GoodOps
  <2> HIDE DEF new
  <2> QED BY <2>2, <2>3, <2>4 DEF IInv
<1>7. CASE ForgetHandoff(p)
  <2>1. pending' \in [Handoffs -> Requests \cup {NoHandoff}]
    BY <1>7 DEF ForgetHandoff, IInv
  <2> QED BY <1>7, <2>1, ReturnsGood DEF ForgetHandoff, IInv
<1> QED BY <1>1, <1>2, <1>3, <1>4, <1>5, <1>6, <1>7 DEF Resume

(* So do the steps of the thief. *)
LEMMA StealIInv ==
  ASSUME IInv, PickStale \/ StealReturns
  PROVE  IInv'
<1> DEFINE k == call[Thief]
<1>0. Thief \in Promises /\ k \in GoodOps \cup {NoCall} BY DEF IInv, Promises
<1>1. CASE PickStale
  <2>1. k.who \in Agents /\ k.stale \subseteq Ids BY <1>0, <1>1, OpParts DEF PickStale, Waits
  <2>2. PICK c \in k.stale :
          call' = [call EXCEPT ![Thief] =
                     [op |-> "steal", claim |-> c,
                      next |-> IF Stealable(repo[c]) THEN Stolen(repo[c], k.who) ELSE Fails]]
    BY <1>1 DEF PickStale
  <2> DEFINE next == IF Stealable(repo[c]) THEN Stolen(repo[c], k.who) ELSE Fails
             new == [op |-> "steal", claim |-> c, next |-> next]
  <2>3. c \in Ids /\ repo[c] \in GoodRecords BY <2>1 DEF IInv
  <2>4. next \in StolenRecords \cup {Fails} BY <2>1, <2>3, StolenGood
  <2>5. call' = [call EXCEPT ![Thief] = new] BY <2>2
  <2> HIDE DEF next
  <2>6. new \in GoodOps BY <2>3, <2>4 DEF GoodOps
  <2> HIDE DEF new
  <2> QED BY <1>1, <2>5, <2>6 DEF PickStale, IInv
<1>2. CASE StealReturns
  <2>1. k.claim \in Ids /\ k.next \in StolenRecords
    BY <1>0, <1>2, OpParts DEF StealReturns, Waits
  <2>2. k.next \in GoodRecords /\ k.next.holder \in Agents BY <2>1 DEF StolenRecords
  <2>3. repo' \in [Ids -> GoodRecords] BY <1>2, <2>1, <2>2, WriteGood DEF StealReturns
  <2>4. call' \in [Promises -> GoodOps \cup {NoCall}]
    BY <1>0, <1>2, ReturnsGood DEF StealReturns
  <2> QED BY <1>2, <2>2, <2>3, <2>4 DEF StealReturns, IInv
<1> QED BY <1>1, <1>2

(* So does the pass over expired claims, although it writes copies. *)
LEMMA SweepIInv ==
  ASSUME IInv, SweepStarts \/ \E c \in Ids : SweepWrites(c)
  PROVE  IInv'
<1>1. CASE SweepStarts
  <2>1. \A c \in FindExpired : c \in Ids /\ repo[c] \in HeldRecords
    BY DEF FindExpired, IInv, GoodRecords, HeldRecords
  <2>2. sweep' = {<<c, repo[c]>> : c \in FindExpired} BY <1>1 DEF SweepStarts
  <2>3. sweep' \subseteq Ids \X HeldRecords BY <2>1, <2>2
  <2> QED BY <1>1, <2>3 DEF SweepStarts, IInv
<1>2. ASSUME NEW c \in Ids, SweepWrites(c) PROVE IInv'
  <2>1. PICK s \in sweep : /\ s[1] = c /\ Write(c, Expired(s[2]))
                           /\ sweep' = sweep \ {s} /\ UNCHANGED <<call, busy, pending>>
    BY <1>2 DEF SweepWrites
  <2>2. s[2] \in GoodRecords BY DEF IInv, HeldRecords
  <2>3. repo' \in [Ids -> GoodRecords] BY <2>1, <2>2, ExpiredGood, WriteGood
  <2> QED BY <2>1, <2>3 DEF IInv
<1> QED BY <1>1, <1>2

(* Every step keeps the invariant. *)
LEMMA NextIInv == IInv /\ [Next]_vars => IInv'
<1> SUFFICES ASSUME IInv, [Next]_vars PROVE IInv' OBVIOUS
<1>1. ASSUME NEW p \in Callers, NEW h \in Handoffs, NEW a \in Claimants, CompleteHandoff(p, h, a)
      PROVE  IInv'
  <2> DEFINE k == [op |-> "complete", handoff |-> h, to |-> a, request |-> pending[h]]
  <2>1. pending[h] \in Requests BY <1>1 DEF CompleteHandoff, IInv
  <2>2. k \in GoodOps BY <2>1 DEF GoodOps
  <2>3. Starts(p, k) /\ p \in Promises BY <1>1 DEF CompleteHandoff, Promises
  <2> HIDE DEF k
  <2> QED BY <2>2, <2>3, StartsIInv
<1>2. ASSUME NEW a \in Agents, FindStale(a) PROVE IInv'
  <2> DEFINE stale == {c \in Ids : repo[c].status = "claimed" /\ repo[c].holder # a}
             k == [op |-> "find", who |-> a, stale |-> stale]
  <2>1. stale \subseteq Ids OBVIOUS
  <2>2. Starts(Thief, k) /\ Thief \in Promises BY <1>2 DEF FindStale, Promises
  <2> HIDE DEF stale
  <2>3. k \in GoodOps BY <2>1 DEF GoodOps
  <2> HIDE DEF k
  <2> QED BY <2>2, <2>3, StartsIInv
<1>3. ASSUME NEW a \in Agents, AgentDone(a) PROVE IInv' BY <1>3 DEF AgentDone, IInv
<1>4. ASSUME NEW h \in Handoffs, HandoffEnds(h) PROVE IInv' BY <1>4 DEF HandoffEnds, IInv
<1>5. ASSUME NEW c \in Ids, ExpiryPasses(c) PROVE IInv'
  <2>1. repo[c] \in GoodRecords /\ repo[c].expiry = "running" BY <1>5 DEF ExpiryPasses, IInv
  <2>2. [repo[c] EXCEPT !.expiry = "past"] \in GoodRecords
    BY <2>1 DEF GoodRecords, Records, Statuses
  <2>3. repo' = [repo EXCEPT ![c] = [repo[c] EXCEPT !.expiry = "past"]]
    BY <1>5 DEF ExpiryPasses
  <2> QED BY <1>5, <2>2, <2>3 DEF ExpiryPasses, IInv
<1>6. CASE UNCHANGED vars BY <1>6 DEF vars, IInv
<1> QED
  BY <1>1, <1>2, <1>3, <1>4, <1>5, <1>6, AsksIInv, ChangesIInv, ResumeIInv, StealIInv, SweepIInv
  DEF Next

(* The inductive invariant holds of the service. *)
THEOREM Invariance == Spec => []IInv
BY InitIInv, NextIInv, PTL DEF Spec

(* Records, the copies to be written, and handoffs stay in their types. *)
THEOREM Typing == Spec => []TypeOK
<1>1. /\ GoodRecords \subseteq Records
      /\ HeldRecords \subseteq Records /\ StolenRecords \subseteq Records
  BY DEF GoodRecords, HeldRecords, StolenRecords
<1>2. GoodOps \subseteq Operations
  BY <1>1 DEF GoodOps, Operations
<1>3. IInv => TypeOK BY <1>1, <1>2 DEF IInv, TypeOK
<1> QED BY <1>3, Invariance, PTL

(* Time runs only for claims that somebody has, and what an expiry pass    *)
(* takes away it takes from somebody, whatever writes are lost.            *)
THEOREM Holding == Spec => []ExpiryHasHolder
<1>1. IInv => ExpiryHasHolder
  <2> SUFFICES ASSUME IInv PROVE ExpiryHasHolder OBVIOUS
  <2>1. \A c \in Ids : repo[c] \in GoodRecords BY DEF IInv
  <2>2. \A s \in sweep : s[2] \in HeldRecords BY DEF IInv
  <2> QED BY <2>1, <2>2 DEF ExpiryHasHolder, GoodRecords, HeldRecords
<1> QED BY <1>1, Invariance, PTL

---------------------------------------------------------------------------
(* The limit of pending handoffs *)

PInv == \A c \in Ids : /\ IsFiniteSet(PendingFor(c))
                       /\ Cardinality(PendingFor(c)) <= MaxPending

(* Handoffs that end keep the rest within the limit. *)
LEMMA FewerPending ==
  ASSUME PInv, NEW c \in Ids, PendingFor(c)' \subseteq PendingFor(c)
  PROVE  IsFiniteSet(PendingFor(c)') /\ Cardinality(PendingFor(c)') <= MaxPending
<1> DEFINE S == PendingFor(c)
           T == PendingFor(c)'
<1>1. IsFiniteSet(S) /\ Cardinality(S) <= MaxPending BY DEF PInv
<1>2. T \subseteq S OBVIOUS
<1> HIDE DEF S, T
<1>3. IsFiniteSet(T) /\ Cardinality(T) <= Cardinality(S) /\ Cardinality(T) \in Nat
      /\ Cardinality(S) \in Nat
  BY <1>1, <1>2, FS_Subset, FS_CardinalityType
<1>4. Cardinality(T) <= MaxPending BY <1>1, <1>3, ClaimLimitAssumption
<1> QED BY <1>3, <1>4 DEF T

(* Every step keeps the pending handoffs within the limit. *)
LEMMA NextPInv == IInv /\ PInv /\ [Next]_vars => PInv'
<1> SUFFICES ASSUME IInv, PInv, [Next]_vars PROVE PInv' OBVIOUS
<1>1. CASE UNCHANGED pending
  <2>1. \A c \in Ids : PendingFor(c)' = PendingFor(c) BY <1>1 DEF PendingFor
  <2> QED BY <2>1 DEF PInv
<1>2. ASSUME NEW h \in Handoffs, pending' = [pending EXCEPT ![h] = NoHandoff] PROVE PInv'
  <2>1. \A c \in Ids : PendingFor(c)' \subseteq PendingFor(c)
    BY <1>2 DEF PendingFor, IInv
  <2> QED BY <2>1, FewerPending DEF PInv
<1>3. ASSUME NEW p \in Promises, RequestReturns(p) PROVE PInv'
  <2>0. /\ call[p].next \in Requests /\ call[p].claim \in Ids
        /\ call[p].next.claim = call[p].claim
    BY <1>3, OpParts DEF RequestReturns, Waits, IInv
  <2>1. PICK r \in Requests, d \in Ids : r = call[p].next /\ d = call[p].claim /\ r.claim = d
    BY <2>0
  <2>2. PICK h : pending' = [pending EXCEPT ![h] = r]
    BY <1>3, <2>1 DEF RequestReturns, AddRequest
  <2>3. Cardinality(PendingFor(d)) < MaxPending /\ IsFiniteSet(PendingFor(d))
    BY <1>3, <2>1 DEF RequestReturns, PInv
  <2>4. PendingFor(d)' \subseteq PendingFor(d) \cup {h} BY <2>1, <2>2 DEF PendingFor, IInv
  <2>5. \A c \in Ids : c # d => PendingFor(c)' \subseteq PendingFor(c)
    BY <2>1, <2>2 DEF PendingFor, IInv
  <2> DEFINE S == PendingFor(d)
             T == PendingFor(d)'
  <2>6. IsFiniteSet(T) /\ Cardinality(T) <= MaxPending
    <3>1. IsFiniteSet(S) /\ Cardinality(S) < MaxPending /\ T \subseteq S \cup {h}
      BY <2>3, <2>4
    <3> HIDE DEF S, T
    <3>2. IsFiniteSet(S \cup {h}) BY <3>1, FS_AddElement
    <3>3. Cardinality(S) \in Nat /\ Cardinality(S \cup {h}) \in Nat
      BY <3>2, <3>1, FS_CardinalityType
    <3>4. /\ IsFiniteSet(S \cup {h}) /\ Cardinality(S \cup {h}) <= Cardinality(S) + 1
          /\ Cardinality(S) \in Nat /\ Cardinality(S \cup {h}) \in Nat
      BY <3>2, <3>1, <3>3, FS_AddElement
    <3>5. IsFiniteSet(T) /\ Cardinality(T) <= Cardinality(S \cup {h}) /\ Cardinality(T) \in Nat
      BY <3>1, <3>4, FS_Subset, FS_CardinalityType
    <3> QED BY <3>1, <3>4, <3>5, ClaimLimitAssumption
  <2> QED BY <2>5, <2>6, FewerPending DEF PInv
<1>4. ASSUME NEW h \in Handoffs, HandoffEnds(h) PROVE PInv' BY <1>2, <1>4 DEF HandoffEnds
<1>5. ASSUME NEW p \in Promises, ForgetHandoff(p) PROVE PInv'
  <2>1. call[p].handoff \in Handoffs BY <1>5, OpParts DEF ForgetHandoff, Waits, IInv
  <2> QED BY <1>2, <1>5, <2>1 DEF ForgetHandoff
<1>6. CASE \A p \in Promises : ~RequestReturns(p) /\ ~ForgetHandoff(p)
  <2>1. CASE \E h \in Handoffs : HandoffEnds(h) BY <1>4, <2>1
  <2>2. CASE UNCHANGED vars BY <1>1, <2>2 DEF vars
  <2>3. CASE Next /\ ~\E h \in Handoffs : HandoffEnds(h)
    <3>1. UNCHANGED pending
      BY <1>6, <2>3 DEF Next, Asks, Changes, Resume, CallClaim, CallRequest, CallRelease,
         CallUpdate, CallEscalate, Calls, Starts, CompleteHandoff, WriteReturns, Throws,
         RequestThrows, CallHandoff, HandoffWrites, SweepStarts, SweepWrites, PickStale,
         StealReturns, FindStale, AgentDone, ExpiryPasses
    <3> QED BY <1>1, <3>1
  <2> QED BY <2>1, <2>2, <2>3
<1> QED BY <1>3, <1>5, <1>6

(* A claim never has more pending handoffs than allowed, although a request *)
(* is checked against the limit and added after a wait for the repository.  *)
THEOREM Bounded == Spec => []PendingBounded
<1>1. Init => PInv
  <2> SUFFICES ASSUME Init PROVE PInv OBVIOUS
  <2>1. \A c \in Ids : PendingFor(c) = {} BY DEF Init, PendingFor
  <2> QED BY <2>1, FS_EmptySet, ClaimLimitAssumption DEF PInv
<1>2. PInv => PendingBounded BY DEF PInv, PendingBounded
<1> QED BY <1>1, <1>2, NextPInv, Invariance, PTL DEF Spec
=============================================================================
