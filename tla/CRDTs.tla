-------------------------------- MODULE CRDTs --------------------------------
(***************************************************************************)
(* The replicated data types of memory/crdt: a last-writer-wins register   *)
(* (lww-register.ts), a counter made of two grow-only counters             *)
(* (g-counter.ts, pn-counter.ts) and an observed-remove set (or-set.ts).   *)
(* Each replica has, beside the state the code keeps, `seen': the          *)
(* operations whose effect has reached it, carried along by every merge.   *)
(* It is a history variable; nothing reads it but the properties.          *)
(*                                                                         *)
(* A node is a number, in the order of localeCompare on node ids.  A value *)
(* written to a register is known by its stamp.                            *)
(***************************************************************************)
EXTENDS Integers, FiniteSets

CONSTANTS
  Nodes,    \* nodes, in the order of their ids
  Elements  \* what may be added to a set

ASSUME NodeAssumption == Nodes \subseteq Nat \ {0}

---------------------------------------------------------------------------
(* Last-writer-wins register *)

Stamps == [time: Nat, node: Nodes \cup {0}]
Unset == [time |-> 0, node |-> 0]
Registers == [stamp: Stamps, seen: SUBSET Stamps]
EmptyReg == [stamp |-> Unset, seen |-> {}]

(* FAULT: the node id does not break ties. *)
LaterTime(a, b) == a.time > b.time

(* compareTimestamps(a, b) > 0. *)
Later(a, b) == a.time > b.time \/ (a.time = b.time /\ a.node > b.node)

(* set and applyState share this test. *)
Wins(a, b) == b.time = 0 \/ Later(a, b)

(* set: an older write, or a second one in the same millisecond, has no    *)
(* effect.                                                                 *)
SetReg(r, s) == IF Wins(s, r.stamp) THEN [stamp |-> s, seen |-> r.seen \cup {s}] ELSE r

MergeReg(r, in) ==
  [stamp |-> IF Wins(in.stamp, r.stamp) THEN in.stamp ELSE r.stamp,
   seen  |-> r.seen \cup in.seen]

---------------------------------------------------------------------------
(* Grow-only and positive-negative counters.  An operation is the no-th    *)
(* increment or decrement of its node.                                     *)

Signs == {"inc", "dec"}
Zero == [n \in Nodes |-> 0]
Counters == [inc: [Nodes -> Nat], dec: [Nodes -> Nat],
             seen: SUBSET [sign: Signs, node: Nodes, no: Nat]]
EmptyCnt == [inc |-> Zero, dec |-> Zero, seen |-> {}]

(* GCounter.increment by one and GCounter.applyState. *)
Bump(g, n) == [g EXCEPT ![n] = @ + 1]

(* FAULT: the counts are added. *)
AddCounts(g, h) == [n \in Nodes |-> IF h[n] > 0 THEN g[n] + h[n] ELSE g[n]]

MaxCounts(g, h) == [n \in Nodes |-> IF h[n] > g[n] THEN h[n] ELSE g[n]]

CountCnt(c, n, sign) ==
  [inc  |-> IF sign = "inc" THEN Bump(c.inc, n) ELSE c.inc,
   dec  |-> IF sign = "dec" THEN Bump(c.dec, n) ELSE c.dec,
   seen |-> c.seen \cup {[sign |-> sign, node |-> n,
                          no |-> (IF sign = "inc" THEN c.inc[n] ELSE c.dec[n]) + 1]}]

MergeCnt(c, in) ==
  [inc  |-> MaxCounts(c.inc, in.inc),
   dec  |-> MaxCounts(c.dec, in.dec),
   seen |-> c.seen \cup in.seen]

---------------------------------------------------------------------------
(* Observed-remove set.  A tag names its element; an operation is the      *)
(* addition of a tag or the removal of all tags of an element then there.  *)

Tags == [node: Nodes, no: Nat, elem: Elements]
Sets == [tags: SUBSET Tags, tombs: SUBSET Tags,
         seen: SUBSET [op: {"add", "remove"}, tags: SUBSET Tags]]
EmptySet == [tags |-> {}, tombs |-> {}, seen |-> {}]

TagsOf(s, e) == {t \in s.tags : t.elem = e}
HasElement(s, e) == TagsOf(s, e) \ s.tombs # {}

(* add: tagCounter makes the tag new. *)
AddElement(s, t) ==
  [s EXCEPT !.tags = @ \cup {t}, !.seen = @ \cup {[op |-> "add", tags |-> {t}]}]

RemoveElement(s, e) ==
  LET gone == TagsOf(s, e)
  IN  IF gone = {} THEN s
      ELSE [s EXCEPT !.tombs = @ \cup gone,
                     !.seen = @ \cup {[op |-> "remove", tags |-> gone]}]

MergeSet(s, in) ==
  [tags |-> s.tags \cup in.tags, tombs |-> s.tombs \cup in.tombs,
   seen |-> s.seen \cup in.seen]

---------------------------------------------------------------------------
(* What each replica must be, given the operations it has seen. *)

(* The register holds the greatest stamp seen. *)
RegHolds(r) ==
  IF r.seen = {} THEN r.stamp = Unset
  ELSE r.stamp \in r.seen /\ \A s \in r.seen : s = r.stamp \/ Later(r.stamp, s)

(* Each count is the number of the node's operations seen. *)
CntHolds(c) ==
  \A n \in Nodes, sign \in Signs :
     LET count == IF sign = "inc" THEN c.inc[n] ELSE c.dec[n]
     IN  {o \in c.seen : o.node = n /\ o.sign = sign}
         = [sign: {sign}, node: {n}, no: 1 .. count]

(* An element is present exactly when some addition of it that was seen is *)
(* not among what a seen removal observed: additions win.                  *)
SetHolds(s) ==
  \A e \in Elements :
     HasElement(s, e) <=>
       \E o \in s.seen : \E t \in o.tags :
          /\ o.op = "add" /\ t.elem = e
          /\ \A r \in s.seen : r.op = "remove" => t \notin r.tags
=============================================================================
