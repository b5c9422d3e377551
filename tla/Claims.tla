------------------------------- MODULE Claims -------------------------------
(***************************************************************************)
(* The claim service (coordination/claims/claim-service.ts), its           *)
(* repository (claim-repository.ts), work stealing (work-stealing.ts) and  *)
(* handoffs (handoff-manager.ts).  Every operation of the service calls    *)
(* repository.get, waits for it, and then checks and changes the copy it   *)
(* got and writes the whole record back: between the call and the write    *)
(* the other callers and the timers may do anything.  Its checks look at   *)
(* the copy alone, so what it will write, or that it throws, is settled    *)
(* when it is called.  The repository's update takes effect at once.       *)
(*                                                                         *)
(* Time is abstracted: `expiry' says whether expiresAt is set and whether  *)
(* it has passed; which records were updated long enough ago to be stolen, *)
(* and which agents have done nothing for long enough, is left open.       *)
(* Priorities are left out, so any of the claims that may be stolen may be *)
(* taken.  Events are published without delay.                             *)
(***************************************************************************)
EXTENDS Integers, FiniteSets

CONSTANTS
  Ids,         \* claims
  Agents,      \* claimants of type agent, all known to work stealing
  Humans,      \* claimants of type human
  None,        \* no claimant
  Callers,     \* promises: each runs one operation at a time
  Thief,       \* the promise of checkAndSteal
  Handoffs,    \* handoff ids
  MaxSteals,   \* config.expiry.maxStealCount
  MaxPending,  \* config.maxPendingPerClaim
  Changers,    \* bound: callers that release, update and escalate, too
  Settable,    \* bound: statuses that they set by updateStatus
  Reasons,     \* bound: why they release
  MaxWaiting   \* bound: operations under way at one time

Claimants == Agents \cup Humans

(* ClaimStatus, and the reasons of ReleaseClaimInput ("none": any other). *)
Statuses == {"available", "claimed", "in-progress", "blocked",
             "completed", "abandoned", "expired"}
AllReasons == {"completed", "abandoned", "handoff", "stolen", "none"}

ASSUME ClaimantAssumption == Agents \cap Humans = {} /\ None \notin Claimants
ASSUME BoundAssumption == Settable \subseteq Statuses /\ Reasons \subseteq AllReasons
ASSUME CallerAssumption == Thief \notin Callers /\ Changers \subseteq Callers
ASSUME ClaimLimitAssumption == MaxSteals \in Nat /\ MaxPending \in Nat /\ MaxWaiting \in Nat

VARIABLES
  repo,      \* the repository's record of each claim
  call,      \* the operation each promise runs, and what it will write
  sweep,     \* expireStale: the claims it found and has not written yet
  busy,      \* agents with a currentClaimId
  pending    \* pendingHandoffs

vars == <<repo, call, sweep, busy, pending>>

Promises == Callers \cup {Thief}
Records == [status: Statuses, holder: Claimants \cup {None},
            expiry: {"none", "running", "past"}, steals: Nat]

NoCall == [op |-> "none"]
NoHandoff == [claim |-> "none"]
Fails == [status |-> "none", holder |-> None, expiry |-> "none", steals |-> 0]

(* createClaim. *)
NewRecord == [status |-> "available", holder |-> None, expiry |-> "none", steals |-> 0]

Init ==
  /\ repo = [c \in Ids |-> NewRecord]
  /\ call = [p \in Promises |-> NoCall]
  /\ sweep = {}
  /\ busy = {}
  /\ pending = [h \in Handoffs |-> NoHandoff]

---------------------------------------------------------------------------
(* What each operation makes of the copy it got. *)

Claimed(r, a) == [r EXCEPT !.status = "claimed", !.holder = a, !.expiry = "running"]
Stolen(r, a) == [Claimed(r, a) EXCEPT !.steals = @ + 1]
HandedOff(r, a) == [r EXCEPT !.holder = a, !.expiry = "running"]
Expired(r) == [r EXCEPT !.status = "expired", !.holder = None, !.expiry = "none"]

(* FAULT: the time of expiry is not cleared. *)
ReleasedKeepingExpiry(r, why) ==
  [r EXCEPT !.status = CASE why \in {"completed", "abandoned"} -> why
                         [] why \in {"handoff", "stolen"} -> "claimed"
                         [] OTHER -> "available",
            !.holder = IF why \in {"handoff", "stolen"} THEN @ ELSE None]

Released(r, why) ==
  [r EXCEPT !.status = CASE why \in {"completed", "abandoned"} -> why
                         [] why \in {"handoff", "stolen"} -> "claimed"
                         [] OTHER -> "available",
            !.holder = IF why \in {"handoff", "stolen"} THEN @ ELSE None,
            !.expiry = "none"]

(* InMemoryClaimRepository.update: the record is replaced. *)
Write(c, r) == repo' = [repo EXCEPT ![c] = r]

---------------------------------------------------------------------------
(* Operations: the call, with its repository.get, ... *)

Starts(p, k) ==
  /\ call[p] = NoCall
  /\ Cardinality({q \in Promises : call[q] # NoCall}) < MaxWaiting
  /\ call' = [call EXCEPT ![p] = k]
  /\ UNCHANGED <<repo, sweep, busy, pending>>

Calls(p, op, c, ok, new) ==
  Starts(p, [op |-> op, claim |-> c, next |-> IF ok THEN new ELSE Fails])

CallClaim(p, c, a) ==
  Calls(p, "claim", c, repo[c].status = "available", Claimed(repo[c], a))

CallRelease(p, c, a, why) ==
  Calls(p, "change", c, repo[c].holder = a, Released(repo[c], why))

(* updateStatus: any status may be set, and who sets it is checked only if  *)
(* the caller says who it is.                                              *)
CallUpdate(p, c, who, st) ==
  Calls(p, "change", c, who = None \/ repo[c].holder = who,
        [repo[c] EXCEPT !.status = st])

CallEscalate(p, c) == Calls(p, "change", c, TRUE, repo[c])

(* ... and, when the record has come, the write or the error. *)
Waits(p, ops) == call[p].op \in ops

Returns(p) == call' = [call EXCEPT ![p] = NoCall]

WriteReturns(p) ==
  /\ Waits(p, {"claim", "change"}) /\ call[p].next # Fails
  /\ Write(call[p].claim, call[p].next)
  /\ Returns(p)
  /\ UNCHANGED <<sweep, busy, pending>>

(* steal, and the recordActivity of checkAndSteal. *)
StealReturns ==
  /\ Waits(Thief, {"steal"}) /\ call[Thief].next # Fails
  /\ Write(call[Thief].claim, call[Thief].next)
  /\ Returns(Thief)
  /\ busy' = busy \cup {call[Thief].next.holder}
  /\ UNCHANGED <<sweep, pending>>

Throws(p) ==
  /\ Waits(p, {"claim", "change", "steal", "handoff"}) /\ call[p].next = Fails
  /\ Returns(p)
  /\ UNCHANGED <<repo, sweep, busy, pending>>

---------------------------------------------------------------------------
(* Expiry and stealing, started by timers *)

(* FAULT: a claim with a pending handoff is not found. *)
FindUnlessPending ==
  {c \in Ids : /\ repo[c].status = "claimed" /\ repo[c].expiry = "past"
               /\ \A h \in Handoffs : pending[h].claim # c}

(* findExpired. *)
FindExpired == {c \in Ids : repo[c].status = "claimed" /\ repo[c].expiry = "past"}

(* expireStale, one pass at a time: findExpired, and then for each claim    *)
(* found the write of its copy.                                            *)
SweepStarts ==
  /\ sweep = {} /\ FindExpired # {}
  /\ sweep' = {<<c, repo[c]>> : c \in FindExpired}
  /\ UNCHANGED <<repo, call, busy, pending>>

SweepWrites(c) ==
  \E s \in sweep :
    /\ s[1] = c
    /\ Write(c, Expired(s[2]))
    /\ sweep' = sweep \ {s}
    /\ UNCHANGED <<call, busy, pending>>

(* checkAndSteal for an agent that has been idle: findStale, ... *)
FindStale(a) ==
  LET stale == {c \in Ids : repo[c].status = "claimed" /\ repo[c].holder # a}
  IN  /\ a \notin busy /\ stale # {}
      /\ Starts(Thief, [op |-> "find", who |-> a, stale |-> stale])

(* ... and, when the list has come, the call of steal. *)
Stealable(r) == r.status \in {"claimed", "in-progress"} /\ r.steals < MaxSteals

PickStale ==
  /\ Waits(Thief, {"find"})
  /\ \E c \in call[Thief].stale :
       call' = [call EXCEPT ![Thief] =
                  [op |-> "steal", claim |-> c,
                   next |-> IF Stealable(repo[c]) THEN Stolen(repo[c], call[Thief].who)
                            ELSE Fails]]
  /\ UNCHANGED <<repo, sweep, busy, pending>>

(* markClaimCompleted. *)
AgentDone(a) ==
  /\ a \in busy
  /\ busy' = busy \ {a}
  /\ UNCHANGED <<repo, call, sweep, pending>>

---------------------------------------------------------------------------
(* Handoffs *)

PendingFor(c) == {h \in Handoffs : pending[h] # NoHandoff /\ pending[h].claim = c}

(* FAULT: the claim needs no holder. *)
RequestByAnyone(p, c, from) ==
  Starts(p, [op |-> "request", claim |-> c,
             next |-> [claim |-> c, by |-> repo[c].holder, target |-> Claimants \ from]])

(* requestHumanReview of an agent's claim, requestAgentAssist of a human's:  *)
(* what is to be written is a request.                                      *)
CallRequest(p, c, from) ==
  Starts(p, [op |-> "request", claim |-> c,
             next |-> IF repo[c].holder \in from
                      THEN [claim |-> c, by |-> repo[c].holder, target |-> Claimants \ from]
                      ELSE Fails])

(* A request under an id that nobody has. *)
AddRequest(r) ==
  LET used(h) == \E q \in Callers : /\ Waits(q, {"complete", "handoff", "forget"})
                                    /\ call[q].handoff = h
      new == {h \in Handoffs : pending[h] = NoHandoff /\ ~used(h)}
      id == CHOOSE h \in new : TRUE
  IN  new # {} /\ pending' = [pending EXCEPT ![id] = r]

(* FAULT: how many requests are pending is not checked after the wait. *)
RequestUnchecked(p) ==
  /\ Waits(p, {"request"}) /\ call[p].next # Fails
  /\ AddRequest(call[p].next)
  /\ Returns(p)
  /\ UNCHANGED <<repo, sweep, busy>>

RequestReturns(p) ==
  /\ Waits(p, {"request"}) /\ call[p].next # Fails
  /\ Cardinality(PendingFor(call[p].claim)) < MaxPending
  /\ AddRequest(call[p].next)
  /\ Returns(p)
  /\ UNCHANGED <<repo, sweep, busy>>

RequestThrows(p) ==
  /\ Waits(p, {"request"})
  /\ call[p].next = Fails \/ Cardinality(PendingFor(call[p].claim)) >= MaxPending
  /\ Returns(p)
  /\ UNCHANGED <<repo, sweep, busy, pending>>

(* completeHandoff: the request is looked up, then waits for a get whose   *)
(* record it does not use, ...                                             *)
CompleteHandoff(p, h, a) ==
  /\ pending[h] # NoHandoff /\ a \in pending[h].target
  /\ Starts(p, [op |-> "complete", handoff |-> h, to |-> a, request |-> pending[h]])

(* ... calls ClaimService.handoff, ... *)
CallHandoff(p) ==
  LET r == repo[call[p].request.claim]
  IN  /\ Waits(p, {"complete"})
      /\ call' = [call EXCEPT ![p] =
           [op |-> "handoff", handoff |-> call[p].handoff, claim |-> call[p].request.claim,
            next |-> IF r.holder = call[p].request.by THEN HandedOff(r, call[p].to)
                     ELSE Fails]]
      /\ UNCHANGED <<repo, sweep, busy, pending>>

HandoffWrites(p) ==
  /\ Waits(p, {"handoff"}) /\ call[p].next # Fails
  /\ Write(call[p].claim, call[p].next)
  /\ call' = [call EXCEPT ![p] = [op |-> "forget", handoff |-> call[p].handoff]]
  /\ UNCHANGED <<sweep, busy, pending>>

(* ... and deletes the request. *)
ForgetHandoff(p) ==
  /\ Waits(p, {"forget"})
  /\ pending' = [pending EXCEPT ![call[p].handoff] = NoHandoff]
  /\ Returns(p)
  /\ UNCHANGED <<repo, sweep, busy>>

(* cancelHandoff, and cleanupExpiredHandoffs. *)
HandoffEnds(h) ==
  /\ pending[h] # NoHandoff
  /\ pending' = [pending EXCEPT ![h] = NoHandoff]
  /\ UNCHANGED <<repo, call, sweep, busy>>

---------------------------------------------------------------------------
(* expiresAt passes; it is looked at in claimed records only. *)
ExpiryPasses(c) ==
  /\ repo[c].expiry = "running" /\ repo[c].status = "claimed"
  /\ repo' = [repo EXCEPT ![c].expiry = "past"]
  /\ UNCHANGED <<call, sweep, busy, pending>>

Resume(p) ==
  \/ WriteReturns(p) \/ Throws(p) \/ RequestReturns(p) \/ RequestThrows(p)
  \/ CallHandoff(p) \/ HandoffWrites(p) \/ ForgetHandoff(p)

Asks(p, c) ==
  \/ CallRequest(p, c, Agents) \/ CallRequest(p, c, Humans)
  \/ \E a \in Claimants : CallClaim(p, c, a)

Changes(p, c) ==
  \/ CallEscalate(p, c)
  \/ \E a \in Claimants, why \in Reasons : CallRelease(p, c, a, why)
  \/ \E who \in Claimants \cup {None}, st \in Settable : CallUpdate(p, c, who, st)

Next ==
  \/ \E p \in Callers, c \in Ids : Asks(p, c)
  \/ \E p \in Changers, c \in Ids : Changes(p, c)
  \/ \E p \in Callers, h \in Handoffs, a \in Claimants : CompleteHandoff(p, h, a)
  \/ \E p \in Promises : Resume(p)
  \/ SweepStarts \/ \E c \in Ids : SweepWrites(c)
  \/ PickStale \/ StealReturns \/ \E a \in Agents : FindStale(a) \/ AgentDone(a)
  \/ \E h \in Handoffs : HandoffEnds(h)
  \/ \E c \in Ids : ExpiryPasses(c)

Spec == Init /\ [][Next]_vars

(* The expiry timer runs, and each pass gets on. *)
FairSpec ==
  Spec /\ WF_vars(SweepStarts) /\ \A c \in Ids : WF_vars(SweepWrites(c))

---------------------------------------------------------------------------
(* Properties *)

Requests == [claim: Ids, by: Claimants, target: {Agents, Humans}]
Operations ==
  [op: {"claim", "change", "steal"}, claim: Ids,
   next: Records \cup {Fails}]
  \cup [op: {"request"}, claim: Ids, next: Requests \cup {Fails}]
  \cup [op: {"find"}, who: Agents, stale: SUBSET Ids]
  \cup [op: {"complete"}, handoff: Handoffs, to: Claimants, request: Requests]
  \cup [op: {"handoff"}, handoff: Handoffs, claim: Ids, next: Records \cup {Fails}]
  \cup [op: {"forget"}, handoff: Handoffs]

(* Records, what callers will write, and handoffs are in their types. *)
TypeOK ==
  /\ repo \in [Ids -> Records]
  /\ call \in [Promises -> Operations \cup {NoCall}]
  /\ \A s \in sweep : s \in Ids \X Records
  /\ busy \subseteq Agents
  /\ pending \in [Handoffs -> Requests \cup {NoHandoff}]

(* Time runs only for a claim that somebody has, whatever statuses callers *)
(* set without looking at the claimant and whichever writes are lost: what *)
(* a pass of expireStale takes away, it takes from somebody.               *)
ExpiryHasHolder ==
  /\ \A c \in Ids : repo[c].expiry # "none" => repo[c].holder # None
  /\ \A s \in sweep : s[2].holder # None

(* Requests that wait for the repository at the same time do not exceed    *)
(* the limit of pending handoffs together.                                 *)
PendingBounded == \A c \in Ids : Cardinality(PendingFor(c)) <= MaxPending

(* A claim whose time is up is taken from its holder, given more time,     *)
(* or moved on by it: it does not stay overdue.                            *)
OverdueLeaves ==
  \A c \in Ids : repo[c].status = "claimed" /\ repo[c].expiry = "past"
                 ~> ~(repo[c].status = "claimed" /\ repo[c].expiry = "past")

(* Work is not duplicated: what a caller gets by claim is free until then. *)
ClaimTakesFree ==
  [][\A p \in Callers : Waits(p, {"claim"}) /\ WriteReturns(p)
                        => repo[call[p].claim].status = "available"]_vars
=============================================================================
