------------------------------ MODULE CRDTStore ------------------------------
(***************************************************************************)
(* The replicated store (memory/crdt/crdt-store.ts) with one key of each   *)
(* kind, and its replication by full states and by deltas.  The store only *)
(* makes and applies snapshots; who carries them is outside it, so they    *)
(* may be lost, delivered twice and in any order, and a replica asks       *)
(* another for the changes since the last version it got from it.          *)
(*                                                                         *)
(* Deletion of keys, and clear, which are not replicated, are left out.    *)
(***************************************************************************)
EXTENDS CRDTs, Sequences

CONSTANTS
  Times,       \* what Date.now() may return, clocks being unsynchronised
  MaxHistory,  \* config.maxDeltaHistory
  MaxOps,      \* bound: how many operations each node makes
  MaxVersion,  \* bound: a store of this version changes no more
  MaxNet       \* bound: snapshots under way at one time

ASSUME TimesAssumption == Times \subseteq Nat \ {0}
ASSUME HistoryAssumption ==
  MaxHistory \in Nat \ {0} /\ MaxOps \in [Nodes -> Nat] /\ MaxVersion \in Nat /\ MaxNet \in Nat

VARIABLES
  data,     \* each node's registers, counters and sets, and the keys it has
  version,  \* its version
  pending,  \* pendingChanges: keys changed since the last flush
  history,  \* deltaHistory
  net,      \* snapshots under way
  known,    \* [n][m]: the version of m that n last got
  had,      \* history: [n][m]: what m had seen in that version
  made      \* how many operations each node made, for the bound

vars == <<data, version, pending, history, net, known, had, made>>

Kinds == {"reg", "cnt", "set"}
Empty == [reg |-> EmptyReg, cnt |-> EmptyCnt, set |-> EmptySet, keys |-> {}]

Ops(d) == d.reg.seen \cup d.cnt.seen \cup d.set.seen

Init ==
  /\ data = [n \in Nodes |-> Empty]
  /\ version = [n \in Nodes |-> 0]
  /\ pending = [n \in Nodes |-> {}]
  /\ history = [n \in Nodes |-> <<>>]
  /\ net = {}
  /\ known = [n \in Nodes |-> [m \in Nodes |-> 0]]
  /\ had = [n \in Nodes |-> [m \in Nodes |-> {}]]
  /\ made = [n \in Nodes |-> 0]

(* d where it has the key, else b (Object.assign of b and d). *)
Over(b, d) ==
  [reg |-> IF "reg" \in d.keys THEN d.reg ELSE b.reg,
   cnt |-> IF "cnt" \in d.keys THEN d.cnt ELSE b.cnt,
   set |-> IF "set" \in d.keys THEN d.set ELSE b.set,
   keys |-> b.keys \cup d.keys]

Only(d, K) == Over(Empty, [d EXCEPT !.keys = K])

(* FAULT: a key that is not there is not made. *)
MergeInto(b, d) ==
  [reg |-> IF "reg" \in b.keys \cap d.keys THEN MergeReg(b.reg, d.reg) ELSE b.reg,
   cnt |-> IF "cnt" \in b.keys \cap d.keys THEN MergeCnt(b.cnt, d.cnt) ELSE b.cnt,
   set |-> IF "set" \in b.keys \cap d.keys THEN MergeSet(b.set, d.set) ELSE b.set,
   keys |-> b.keys]

(* FAULT: an incoming set replaces the one that is there. *)
TakeSet(b, d) ==
  [reg |-> IF "reg" \in d.keys THEN MergeReg(b.reg, d.reg) ELSE b.reg,
   cnt |-> IF "cnt" \in d.keys THEN MergeCnt(b.cnt, d.cnt) ELSE b.cnt,
   set |-> IF "set" \in d.keys THEN [d.set EXCEPT !.seen = @ \cup b.set.seen] ELSE b.set,
   keys |-> b.keys \cup d.keys]

(* The keys of applyState and applyDelta, each merged, or made of the       *)
(* incoming state, which is the same as merging it into an empty one.       *)
Merge(b, d) ==
  [reg |-> IF "reg" \in d.keys THEN MergeReg(b.reg, d.reg) ELSE b.reg,
   cnt |-> IF "cnt" \in d.keys THEN MergeCnt(b.cnt, d.cnt) ELSE b.cnt,
   set |-> IF "set" \in d.keys THEN MergeSet(b.set, d.set) ELSE b.set,
   keys |-> b.keys \cup d.keys]

---------------------------------------------------------------------------
(* Local operations, each followed by recordChange. *)

Change(n, k, d) ==
  /\ version[n] < MaxVersion /\ made[n] < MaxOps[n]
  /\ data' = [data EXCEPT ![n] = [d EXCEPT !.keys = @ \cup {k}]]
  /\ version' = [version EXCEPT ![n] = @ + 1]
  /\ pending' = [pending EXCEPT ![n] = @ \cup {k}]
  /\ made' = [made EXCEPT ![n] = @ + 1]
  /\ UNCHANGED <<history, net, known, had>>

SetRegister(n, time) ==
  Change(n, "reg", [data[n] EXCEPT !.reg = SetReg(@, [time |-> time, node |-> n])])

Count(n, sign) ==
  Change(n, "cnt", [data[n] EXCEPT !.cnt = CountCnt(@, n, sign)])

(* tagCounter is the number of tags the node has made. *)
OwnTags(n) == {t \in data[n].set.tags : t.node = n}

AddToSet(n, e) ==
  LET t == [node |-> n, no |-> Cardinality(OwnTags(n)), elem |-> e]
  IN  Change(n, "set", [data[n] EXCEPT !.set = AddElement(@, t)])

RemoveFromSet(n, e) ==
  Change(n, "set", [data[n] EXCEPT !.set = RemoveElement(@, e)])

---------------------------------------------------------------------------
(* Snapshots *)

LastVersion(h) == IF h = <<>> THEN 0 ELSE h[Len(h)].upTo

(* FAULT: an entry is numbered one version too low. *)
FlushLate(n) ==
  LET d == [since |-> LastVersion(history[n]), upTo |-> version[n] - 1,
            data |-> Only(data[n], pending[n])]
      h == Append(history[n], d)
  IN  IF pending[n] = {} THEN history[n]
      ELSE IF Len(h) > MaxHistory THEN Tail(h) ELSE h

(* flushDelta: one entry for all pending keys, the oldest dropped when the *)
(* history is full.                                                        *)
Flushed(n) ==
  LET d == [since |-> LastVersion(history[n]), upTo |-> version[n],
            data |-> Only(data[n], pending[n])]
      h == Append(history[n], d)
  IN  IF pending[n] = {} THEN history[n]
      ELSE IF Len(h) > MaxHistory THEN Tail(h) ELSE h

Flush(n) ==
  /\ history' = [history EXCEPT ![n] = Flushed(n)]
  /\ pending' = [pending EXCEPT ![n] = {}]

(* A snapshot made by n for m; `had' and `ops' are history: what m can     *)
(* have of n's since the version it asks from, and what n has now.         *)
Snapshot(n, m, since, whole, d) ==
  [from |-> n, to |-> m, since |-> since, upTo |-> version[n], whole |-> whole,
   data |-> d, had |-> had[m][n], ops |-> Ops(data[n])]

Put(s) == Cardinality(net) < MaxNet /\ net' = net \cup {s}

(* getState. *)
SendState(n, m) ==
  /\ Flush(n)
  /\ Put(Snapshot(n, m, 0, TRUE, data[n]))
  /\ UNCHANGED <<data, version, known, had, made>>

(* The entries of h made after version v, merged: for each key the latest. *)
Since(h, v) ==
  LET new(i, k) == h[i].upTo > v /\ k \in h[i].data.keys
      last(k) == {i \in DOMAIN h : /\ new(i, k)
                                   /\ \A j \in DOMAIN h : j > i => ~new(j, k)}
      from(k) == h[CHOOSE i \in last(k) : TRUE].data
  IN  [reg |-> IF last("reg") # {} THEN from("reg").reg ELSE EmptyReg,
       cnt |-> IF last("cnt") # {} THEN from("cnt").cnt ELSE EmptyCnt,
       set |-> IF last("set") # {} THEN from("set").set ELSE EmptySet,
       keys |-> {k \in Kinds : last(k) # {}}]

(* getDelta: none when there is nothing newer.  The delta is said to cover *)
(* everything since the version asked for; it is whole if the history goes *)
(* back that far.                                                          *)
SendDelta(n, m) ==
  LET h == Flushed(n)
      v == known[m][n]
  IN  /\ \E i \in DOMAIN h : h[i].upTo > v
      /\ Flush(n)
      /\ Put(Snapshot(n, m, v, h[1].since <= v, Since(h, v)))
      /\ UNCHANGED <<data, version, known, had, made>>

(* applyState and applyDelta: recordChange for each key, then the version. *)
Deliver(s) ==
  LET n == s.to
      mine == version[n] + Cardinality(s.data.keys)
  IN  /\ mine < MaxVersion
      /\ data' = [data EXCEPT ![n] = Merge(@, s.data)]
      /\ version' = [version EXCEPT ![n] = (IF mine > s.upTo THEN mine ELSE s.upTo) + 1]
      /\ pending' = [pending EXCEPT ![n] = @ \cup s.data.keys]
      /\ IF s.upTo > known[n][s.from]
         THEN /\ known' = [known EXCEPT ![n][s.from] = s.upTo]
              /\ had' = [had EXCEPT ![n][s.from] = s.ops]
         ELSE UNCHANGED <<known, had>>
      /\ UNCHANGED <<history, net, made>>

(* A snapshot is gone, lost or never delivered again. *)
Drop(s) ==
  /\ net' = net \ {s}
  /\ UNCHANGED <<data, version, pending, history, known, had, made>>

---------------------------------------------------------------------------
Local(n) ==
  \/ \E time \in Times : SetRegister(n, time)
  \/ \E sign \in Signs : Count(n, sign)
  \/ \E e \in Elements : AddToSet(n, e) \/ RemoveFromSet(n, e)

Next ==
  \/ \E n \in Nodes : Local(n)
  \/ \E n \in Nodes, m \in Nodes : n # m /\ (SendState(n, m) \/ SendDelta(n, m))
  \/ \E s \in net : Deliver(s) \/ Drop(s)

Spec == Init /\ [][Next]_vars

---------------------------------------------------------------------------
(* Properties *)

Stores == [reg: Registers, cnt: Counters, set: Sets, keys: SUBSET Kinds]
Entries == [since: Nat, upTo: Nat, data: Stores]

(* Stores, snapshots and history entries are in their types, and what is   *)
(* pending, and so enters the next entry, is a key that the store has.     *)
TypeOK ==
  /\ data \in [Nodes -> Stores] /\ version \in [Nodes -> Nat]
  /\ pending \in [Nodes -> SUBSET Kinds]
  /\ \A n \in Nodes : pending[n] \subseteq data[n].keys
  /\ history \in [Nodes -> Seq(Entries)]
  /\ \A s \in net : /\ s.from \in Nodes /\ s.to \in Nodes
                    /\ s.upTo \in Nat /\ s.data \in Stores
  /\ known \in [Nodes -> [Nodes -> Nat]]

(* Every replica is what its operations make it, whatever was lost,        *)
(* repeated or reordered: the register holds the greatest stamp.           *)
LatestWriteWins == \A n \in Nodes : RegHolds(data[n].reg)

(* The counts are exactly the increments and decrements seen: none lost by *)
(* a merge, none counted twice.                                            *)
NothingCountedTwice == \A n \in Nodes : CntHolds(data[n].cnt)

(* An addition that no removal observed keeps its element in the set. *)
AdditionsWin == \A n \in Nodes : SetHolds(data[n].set)

(* Replicas that have seen the same operations have the same value.        *)
SameOpsSameValue ==
  \A n \in Nodes, m \in Nodes :
     /\ data[n].reg.seen = data[m].reg.seen => data[n].reg.stamp = data[m].reg.stamp
     /\ data[n].cnt.seen = data[m].cnt.seen => data[n].cnt = data[m].cnt
     /\ data[n].set.seen = data[m].set.seen =>
          \A e \in Elements : HasElement(data[n].set, e) <=> HasElement(data[m].set, e)

(* A delta made from a history that reaches back to the version asked for  *)
(* has every operation its maker learnt since.                             *)
DeltaCovers == \A s \in net : s.whole => s.ops \subseteq s.had \cup Ops(s.data)
=============================================================================
