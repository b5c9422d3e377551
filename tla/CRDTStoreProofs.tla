--------------------------- MODULE CRDTStoreProofs ---------------------------
(***************************************************************************)
(* Proofs about the replicated store: whatever is lost, repeated or        *)
(* reordered, every replica, and every snapshot and history entry made of  *)
(* one, is what the operations it has seen make it; so replicas that have  *)
(* seen the same operations have the same value.  And a delta has what its *)
(* receiver has not, as far as the trimmed history reaches.                *)
(***************************************************************************)
EXTENDS CRDTStore, FiniteSetTheorems, NaturalsInduction, WellFoundedInduction, TLAPS

Writes == [time: Nat \ {0}, node: Nodes]

SoundRegs == {r \in Registers : r.seen \subseteq Writes /\ RegHolds(r)}

SoundCnts == {c \in Counters : CntHolds(c)}

Added(s) == UNION {o.tags : o \in {x \in s.seen : x.op = "add"}}
Removed(s) == UNION {o.tags : o \in {x \in s.seen : x.op = "remove"}}

SoundSets == {s \in Sets : /\ s.tags = Added(s) /\ s.tombs = Removed(s)
                           /\ IsFiniteSet(s.tags)}

SoundStores == [reg: SoundRegs, cnt: SoundCnts, set: SoundSets, keys: SUBSET Kinds]
SoundEntries == [since: Nat, upTo: Nat, data: SoundStores]

(* compareTimestamps is a total order on stamps. *)
LEMMA LaterTotal ==
  ASSUME NEW a \in Stamps, NEW b \in Stamps
  PROVE  a = b \/ Later(a, b) \/ Later(b, a)
<1> USE DEF Stamps, Later
<1>0. Nodes \cup {0} \subseteq Nat BY NodeAssumption
<1>1. a.time \in Nat /\ b.time \in Nat /\ a.node \in Nat /\ b.node \in Nat BY <1>0
<1>2. a = [time |-> a.time, node |-> a.node] /\ b = [time |-> b.time, node |-> b.node]
  OBVIOUS
<1>3. CASE a.time = b.time /\ a.node = b.node BY <1>2, <1>3
<1>4. CASE ~(a.time = b.time /\ a.node = b.node) BY <1>1, <1>4
<1> QED BY <1>3, <1>4

(* compareTimestamps is transitive. *)
LEMMA LaterTransitive ==
  ASSUME NEW a \in Stamps, NEW b \in Stamps, NEW c \in Stamps, Later(a, b), Later(b, c)
  PROVE  Later(a, c)
<1>0. Nodes \cup {0} \subseteq Nat BY NodeAssumption
<1>1. /\ a.time \in Nat /\ b.time \in Nat /\ c.time \in Nat
      /\ a.node \in Nat /\ b.node \in Nat /\ c.node \in Nat
  BY <1>0 DEF Stamps
<1> QED BY <1>1 DEF Later

(* The stamp of a write is a stamp, and later than none. *)
LEMMA WritesAreStamps == Writes \subseteq Stamps /\ \A s \in Writes : s.time # 0
BY DEF Writes, Stamps

(* The register: writes and merges keep the greatest stamp. *)
LEMMA EmptyRegSound == EmptyReg \in SoundRegs
BY DEF EmptyReg, Unset, SoundRegs, Registers, Stamps, RegHolds

(* A write leaves the greatest stamp it has seen. *)
LEMMA SetRegSound ==
  ASSUME NEW r \in SoundRegs, NEW s \in Writes
  PROVE  SetReg(r, s) \in SoundRegs
<1> USE DEF SoundRegs, Registers, Unset
<1>1. r.seen \cup {s} \subseteq Writes OBVIOUS
<1>2. CASE Wins(s, r.stamp)
  <2>1. SetReg(r, s) = [stamp |-> s, seen |-> r.seen \cup {s}]
    BY <1>2 DEF SetReg
  <2>2. \A q \in r.seen : q = s \/ Later(s, q)
    <3> TAKE q \in r.seen
    <3>1. r.stamp \in r.seen /\ (q = r.stamp \/ Later(r.stamp, q)) BY DEF RegHolds
    <3>2. r.stamp \in Stamps /\ r.stamp.time # 0 /\ q \in Stamps /\ s \in Stamps
      BY <3>1, WritesAreStamps, r.seen \subseteq Writes
    <3>3. Later(s, r.stamp) BY <1>2, <3>2 DEF Wins
    <3> QED BY <3>1, <3>2, <3>3, LaterTransitive
  <2>3. s \in Stamps /\ Writes \subseteq Stamps BY WritesAreStamps
  <2>4. SetReg(r, s) \in Registers BY <1>1, <2>1, <2>3
  <2>5. RegHolds(SetReg(r, s)) BY <2>1, <2>2 DEF RegHolds
  <2> QED BY <1>1, <2>1, <2>4, <2>5
<1>3. CASE ~Wins(s, r.stamp)
  BY <1>3 DEF SetReg
<1> QED BY <1>2, <1>3

(* So does a merge: the greater of two greatest stamps is the greatest of *)
(* all.                                                                   *)
LEMMA MergeRegSound ==
  ASSUME NEW r \in SoundRegs, NEW in \in SoundRegs
  PROVE  MergeReg(r, in) \in SoundRegs
<1> USE DEF SoundRegs, Registers, Unset
<1> DEFINE m == MergeReg(r, in)
<1>1. m \in Registers /\ m.seen = r.seen \cup in.seen /\ m.seen \subseteq Writes
  BY DEF MergeReg
<1>2. CASE in.seen = {}
  <2>1. in.stamp = Unset BY <1>2 DEF RegHolds
  <2>2. m.stamp = r.stamp
    <3>1. CASE r.seen = {} BY <2>1, <3>1 DEF MergeReg, RegHolds
    <3>2. CASE r.seen # {}
      <4>1. r.stamp \in Writes BY <3>2, r.seen \subseteq Writes DEF RegHolds
      <4>2. r.stamp.time \in Nat /\ r.stamp.time # 0 BY <4>1 DEF Writes
      <4>3. ~Wins(in.stamp, r.stamp) BY <2>1, <4>2 DEF Wins, Later
      <4> QED BY <4>3 DEF MergeReg
    <3> QED BY <3>1, <3>2
  <2> QED BY <1>1, <1>2, <2>2 DEF RegHolds
<1>3. CASE in.seen # {} /\ r.seen = {}
  <2>1. r.stamp = Unset BY <1>3 DEF RegHolds
  <2>2. m.stamp = in.stamp BY <2>1 DEF MergeReg, Wins
  <2> QED BY <1>1, <1>3, <2>2 DEF RegHolds
<1>4. CASE in.seen # {} /\ r.seen # {}
  <2>1. in.stamp \in in.seen /\ r.stamp \in r.seen BY <1>4 DEF RegHolds
  <2>2. m.stamp \in m.seen BY <1>1, <2>1 DEF MergeReg
  <2>5. /\ in.stamp \in Stamps /\ r.stamp \in Stamps /\ r.stamp.time # 0
        /\ in.seen \subseteq Stamps /\ r.seen \subseteq Stamps
    BY <2>1, WritesAreStamps, r.seen \subseteq Writes, in.seen \subseteq Writes
  <2>3. CASE Wins(in.stamp, r.stamp)
    <3>1. m.stamp = in.stamp BY <2>3 DEF MergeReg
    <3>2. Later(in.stamp, r.stamp) BY <2>3, <2>5 DEF Wins
    <3>3. \A q \in r.seen : q = in.stamp \/ Later(in.stamp, q)
      BY <1>4, <2>5, <3>2, LaterTransitive DEF RegHolds
    <3> QED BY <1>1, <1>4, <2>2, <3>1, <3>3 DEF RegHolds
  <2>4. CASE ~Wins(in.stamp, r.stamp)
    <3>1. m.stamp = r.stamp BY <2>4 DEF MergeReg
    <3>2. in.stamp = r.stamp \/ Later(r.stamp, in.stamp)
      BY <2>4, <2>5, LaterTotal DEF Wins
    <3>3. \A q \in in.seen : q = r.stamp \/ Later(r.stamp, q)
      BY <1>4, <2>5, <3>2, LaterTransitive DEF RegHolds
    <3> QED BY <1>1, <1>4, <2>2, <3>1, <3>3 DEF RegHolds
  <2> QED BY <2>3, <2>4
<1> QED BY <1>2, <1>3, <1>4

(* The counters: the operations of a node that were seen are its first.    *)
LEMMA EmptyCntSound == EmptyCnt \in SoundCnts
BY DEF EmptyCnt, Zero, SoundCnts, Counters, CntHolds, Signs

(* A count adds one to its node's entry, and to the operations seen. *)
LEMMA CountSound ==
  ASSUME NEW c \in SoundCnts, NEW n \in Nodes, NEW sign \in Signs
  PROVE  CountCnt(c, n, sign) \in SoundCnts
<1> USE DEF SoundCnts, Counters, Signs
<1> DEFINE d == CountCnt(c, n, sign)
           old == IF sign = "inc" THEN c.inc[n] ELSE c.dec[n]
           op == [sign |-> sign, node |-> n, no |-> old + 1]
<1>1. old \in Nat OBVIOUS
<1>2. d.seen = c.seen \cup {op} BY DEF CountCnt
<1>3. d \in Counters BY <1>1, <1>2 DEF CountCnt, Bump
<1>4. ASSUME NEW k \in Nodes, NEW s \in Signs
      PROVE  LET count == IF s = "inc" THEN d.inc[k] ELSE d.dec[k]
             IN  {o \in d.seen : o.node = k /\ o.sign = s}
                 = [sign: {s}, node: {k}, no: 1 .. count]
  <2> DEFINE was == IF s = "inc" THEN c.inc[k] ELSE c.dec[k]
             now == IF s = "inc" THEN d.inc[k] ELSE d.dec[k]
  <2>1. {o \in c.seen : o.node = k /\ o.sign = s} = [sign: {s}, node: {k}, no: 1 .. was]
    BY DEF CntHolds
  <2>2. CASE k = n /\ s = sign
    <3>1. now = was + 1 /\ was = old /\ was \in Nat BY <2>2 DEF CountCnt, Bump
    <3>2. 1 .. now = (1 .. was) \cup {was + 1} BY <3>1
    <3>3. {o \in d.seen : o.node = k /\ o.sign = s}
          = {o \in c.seen : o.node = k /\ o.sign = s} \cup {op}
      BY <1>2, <2>2
    <3> HIDE DEF now, was, old, d
    <3>4. [sign: {s}, node: {k}, no: 1 .. now]
          = [sign: {s}, node: {k}, no: 1 .. was] \cup {op}
      <4>1. op = [sign |-> s, node |-> k, no |-> was + 1] BY <2>2, <3>1
      <4>2. ASSUME NEW x \in [sign: {s}, node: {k}, no: 1 .. now]
            PROVE  x \in [sign: {s}, node: {k}, no: 1 .. was] \cup {op}
        <5>1. x = [sign |-> s, node |-> k, no |-> x.no] /\ x.no \in 1 .. now OBVIOUS
        <5>2. CASE x.no = was + 1 BY <4>1, <5>1, <5>2
        <5>3. CASE x.no \in 1 .. was BY <5>1, <5>3
        <5> QED BY <3>2, <5>1, <5>2, <5>3
      <4>3. op \in [sign: {s}, node: {k}, no: 1 .. now] BY <3>1, <3>2, <4>1
      <4>4. [sign: {s}, node: {k}, no: 1 .. was] \subseteq [sign: {s}, node: {k}, no: 1 .. now]
        BY <3>2
      <4> QED BY <4>2, <4>3, <4>4
    <3> QED BY <2>1, <3>3, <3>4 DEF now
  <2>3. CASE ~(k = n /\ s = sign)
    <3>1. now = was BY <2>3 DEF CountCnt, Bump
    <3>2. {o \in d.seen : o.node = k /\ o.sign = s}
          = {o \in c.seen : o.node = k /\ o.sign = s}
      BY <1>2, <2>3
    <3> QED BY <2>1, <3>1, <3>2
  <2> QED BY <2>2, <2>3
<1> QED BY <1>3, <1>4 DEF CntHolds

(* The greater of two counts of a node is the count of all its operations *)
(* seen by either.                                                        *)
LEMMA MergeCntSound ==
  ASSUME NEW c \in SoundCnts, NEW in \in SoundCnts
  PROVE  MergeCnt(c, in) \in SoundCnts
<1> USE DEF SoundCnts, Counters, Signs
<1> DEFINE d == MergeCnt(c, in)
<1>1. d \in Counters BY DEF MergeCnt, MaxCounts
<1>2. d.seen = c.seen \cup in.seen BY DEF MergeCnt
<1>3. ASSUME NEW k \in Nodes, NEW s \in Signs
      PROVE  LET count == IF s = "inc" THEN d.inc[k] ELSE d.dec[k]
             IN  {o \in d.seen : o.node = k /\ o.sign = s}
                 = [sign: {s}, node: {k}, no: 1 .. count]
  <2> DEFINE was == IF s = "inc" THEN c.inc[k] ELSE c.dec[k]
             came == IF s = "inc" THEN in.inc[k] ELSE in.dec[k]
             now == IF s = "inc" THEN d.inc[k] ELSE d.dec[k]
  <2>1. {o \in c.seen : o.node = k /\ o.sign = s} = [sign: {s}, node: {k}, no: 1 .. was]
    BY DEF CntHolds
  <2>2. {o \in in.seen : o.node = k /\ o.sign = s} = [sign: {s}, node: {k}, no: 1 .. came]
    BY DEF CntHolds
  <2>3. was \in Nat /\ came \in Nat /\ now = IF came > was THEN came ELSE was
    BY DEF MergeCnt, MaxCounts
  <2>4. {o \in d.seen : o.node = k /\ o.sign = s}
        = {o \in c.seen : o.node = k /\ o.sign = s}
          \cup {o \in in.seen : o.node = k /\ o.sign = s}
    BY <1>2
  <2> HIDE DEF was, came, now, d
  <2>5. 1 .. now = (1 .. was) \cup (1 .. came) BY <2>3
  <2>6. [sign: {s}, node: {k}, no: 1 .. now]
        = [sign: {s}, node: {k}, no: 1 .. was] \cup [sign: {s}, node: {k}, no: 1 .. came]
    BY <2>5
  <2> QED BY <2>1, <2>2, <2>4, <2>6 DEF now
<1> QED BY <1>1, <1>3 DEF CntHolds

(* The set: tags and tombstones are what the seen operations made them.    *)
LEMMA EmptySetSound == EmptySet \in SoundSets
BY FS_EmptySet DEF EmptySet, SoundSets, Sets, Added, Removed

(* What was added is the tags of the additions seen. *)
LEMMA InAdded == \A s, t : t \in Added(s) <=> \E o \in s.seen : o.op = "add" /\ t \in o.tags
BY DEF Added

(* What was removed is the tags that the removals seen had observed. *)
LEMMA InRemoved ==
  \A s, t : t \in Removed(s) <=> \E o \in s.seen : o.op = "remove" /\ t \in o.tags
BY DEF Removed

(* One more addition seen adds its tags. *)
LEMMA SeenAdd ==
  ASSUME NEW r, NEW s, NEW T, r.seen = s.seen \cup {[op |-> "add", tags |-> T]}
  PROVE  Added(r) = Added(s) \cup T /\ Removed(r) = Removed(s)
<1> DEFINE o == [op |-> "add", tags |-> T]
<1>0. o.op = "add" /\ o.tags = T /\ r.seen = s.seen \cup {o} OBVIOUS
<1> HIDE DEF o
<1>1. \A t : t \in Added(r) <=> t \in Added(s) \/ t \in T BY <1>0, InAdded
<1>2. \A t : t \in Removed(r) <=> t \in Removed(s) BY <1>0, InRemoved
<1> QED BY <1>1, <1>2

(* One more removal seen removes the tags it observed. *)
LEMMA SeenRemove ==
  ASSUME NEW r, NEW s, NEW T, r.seen = s.seen \cup {[op |-> "remove", tags |-> T]}
  PROVE  Removed(r) = Removed(s) \cup T /\ Added(r) = Added(s)
<1> DEFINE o == [op |-> "remove", tags |-> T]
<1>0. o.op = "remove" /\ o.tags = T /\ r.seen = s.seen \cup {o} OBVIOUS
<1> HIDE DEF o
<1>1. \A t : t \in Removed(r) <=> t \in Removed(s) \/ t \in T BY <1>0, InRemoved
<1>2. \A t : t \in Added(r) <=> t \in Added(s) BY <1>0, InAdded
<1> QED BY <1>1, <1>2

(* An addition leaves the set that its operations make. *)
LEMMA AddSound ==
  ASSUME NEW s \in SoundSets, NEW t \in Tags
  PROVE  AddElement(s, t) \in SoundSets
<1> DEFINE o == [op |-> "add", tags |-> {t}]
           r == AddElement(s, t)
<1>1. r = [tags |-> s.tags \cup {t}, tombs |-> s.tombs, seen |-> s.seen \cup {o}]
  <2>1. s \in Sets BY DEF SoundSets
  <2> HIDE DEF o
  <2>2. AddElement(s, t) = [s EXCEPT !.tags = @ \cup {t}, !.seen = @ \cup {o}]
    BY DEF AddElement, o
  <2> QED BY <2>1, <2>2 DEF Sets
<1>2. r \in Sets
  <2>1. o \in [op: {"add", "remove"}, tags: SUBSET Tags] OBVIOUS
  <2> HIDE DEF o
  <2> QED BY <1>1, <2>1 DEF SoundSets, Sets
<1>3. Added(r) = Added(s) \cup {t} /\ Removed(r) = Removed(s)
  <2>1. r.seen = s.seen \cup {o} BY <1>1
  <2> HIDE DEF r
  <2> QED BY <2>1, SeenAdd
<1>4. IsFiniteSet(r.tags) BY <1>1, FS_AddElement DEF SoundSets
<1>5. r.tags = Added(r) /\ r.tombs = Removed(r)
  <2>1. s.tags = Added(s) /\ s.tombs = Removed(s) BY DEF SoundSets
  <2>2. r.tags = s.tags \cup {t} /\ r.tombs = s.tombs BY <1>1
  <2> HIDE DEF r
  <2> QED BY <1>3, <2>1, <2>2
<1>6. r \in SoundSets
  <2> HIDE DEF r
  <2> QED BY <1>2, <1>4, <1>5 DEF SoundSets
<1> QED BY <1>6

(* So does a removal, which buries the tags it observes. *)
LEMMA RemoveSound ==
  ASSUME NEW s \in SoundSets, NEW e \in Elements
  PROVE  RemoveElement(s, e) \in SoundSets
<1> DEFINE gone == TagsOf(s, e)
           o == [op |-> "remove", tags |-> gone]
           r == RemoveElement(s, e)
<1>1. CASE gone = {} BY <1>1 DEF RemoveElement
<1>2. CASE gone # {}
  <2>1. r = [tags |-> s.tags, tombs |-> s.tombs \cup gone, seen |-> s.seen \cup {o}]
    BY <1>2 DEF RemoveElement, SoundSets, Sets
  <2>2. r \in Sets
    <3>1. gone \in SUBSET Tags BY DEF TagsOf, SoundSets, Sets
    <3>2. o \in [op: {"add", "remove"}, tags: SUBSET Tags] BY <3>1
    <3> HIDE DEF o, gone
    <3> QED BY <2>1, <3>1, <3>2 DEF SoundSets, Sets
  <2>3. Added(r) = Added(s) /\ Removed(r) = Removed(s) \cup gone
    <3>1. r.seen = s.seen \cup {o} BY <2>1
    <3> HIDE DEF r, gone
    <3> QED BY <3>1, SeenRemove
  <2> QED BY <2>1, <2>2, <2>3 DEF SoundSets
<1> QED BY <1>1, <1>2

(* So does a merge. *)
LEMMA MergeSetSound ==
  ASSUME NEW s \in SoundSets, NEW in \in SoundSets
  PROVE  MergeSet(s, in) \in SoundSets
<1> DEFINE r == MergeSet(s, in)
<1>1. /\ r.tags = s.tags \cup in.tags /\ r.tombs = s.tombs \cup in.tombs
      /\ r.seen = s.seen \cup in.seen
  BY DEF MergeSet
<1>2. r \in Sets BY <1>1 DEF MergeSet, SoundSets, Sets
<1>3. Added(r) = Added(s) \cup Added(in) /\ Removed(r) = Removed(s) \cup Removed(in)
  BY <1>1 DEF Added, Removed
<1>4. IsFiniteSet(r.tags)
  <2>1. IsFiniteSet(s.tags) /\ IsFiniteSet(in.tags) BY DEF SoundSets
  <2>2. IsFiniteSet(s.tags \cup in.tags) BY <2>1, FS_Union
  <2> QED BY <1>1, <2>2
<1>5. r.tags = Added(r) /\ r.tombs = Removed(r) BY <1>1, <1>3 DEF SoundSets
<1>6. r \in SoundSets
  <2> HIDE DEF r
  <2> QED BY <1>2, <1>4, <1>5 DEF SoundSets
<1> QED BY <1>6

(* In a set that its operations make, additions win. *)
LEMMA SoundSetHolds == \A s \in SoundSets : SetHolds(s)
<1> SUFFICES ASSUME NEW s \in SoundSets, NEW e \in Elements
             PROVE  HasElement(s, e) <=>
                      \E o \in s.seen : \E t \in o.tags :
                        /\ o.op = "add" /\ t.elem = e
                        /\ \A r \in s.seen : r.op = "remove" => t \notin r.tags
  BY DEF SetHolds
<1>1. HasElement(s, e) <=> \E t \in Added(s) : t.elem = e /\ t \notin Removed(s)
  BY DEF HasElement, TagsOf, SoundSets
<1>2. \A t : t \in Removed(s) <=> \E r \in s.seen : r.op = "remove" /\ t \in r.tags
  BY DEF Removed
<1>3. \A t : t \in Added(s) <=> \E o \in s.seen : o.op = "add" /\ t \in o.tags
  BY DEF Added
<1> QED BY <1>1, <1>2, <1>3

(* Stores: what is made of sound parts is sound. *)
LEMMA EmptyStoreSound == Empty \in SoundStores
BY EmptyRegSound, EmptyCntSound, EmptySetSound DEF Empty, SoundStores, Kinds

(* The parts of a sound store are sound. *)
LEMMA StoreParts ==
  ASSUME NEW d \in SoundStores
  PROVE  /\ d.reg \in SoundRegs /\ d.cnt \in SoundCnts
         /\ d.set \in SoundSets /\ d.keys \in SUBSET Kinds
         /\ d = [reg |-> d.reg, cnt |-> d.cnt, set |-> d.set, keys |-> d.keys]
BY DEF SoundStores

(* So is a store cut down to some keys. *)
LEMMA OnlySound ==
  ASSUME NEW d \in SoundStores, NEW K \in SUBSET Kinds
  PROVE  Only(d, K) \in SoundStores
<1> DEFINE e == [d EXCEPT !.keys = K]
<1>1. e \in SoundStores BY DEF SoundStores
<1> HIDE DEF e
<1>2. Over(Empty, e) \in SoundStores
  BY <1>1, EmptyStoreSound, StoreParts DEF Over, SoundStores
<1> QED BY <1>2 DEF Only, e

(* Merging sound stores gives a sound store with the keys of both. *)
LEMMA MergeSound ==
  ASSUME NEW b \in SoundStores, NEW d \in SoundStores
  PROVE  Merge(b, d) \in SoundStores /\ Merge(b, d).keys = b.keys \cup d.keys
BY StoreParts, MergeRegSound, MergeCntSound, MergeSetSound DEF Merge, SoundStores

(* A delta is made of entries of the history, so it is sound. *)
LEMMA SinceSound ==
  ASSUME NEW h \in Seq(SoundEntries), NEW v \in Nat
  PROVE  Since(h, v) \in SoundStores
<1> DEFINE new(i, k) == h[i].upTo > v /\ k \in h[i].data.keys
           last(k) == {i \in DOMAIN h : /\ new(i, k)
                                        /\ \A j \in DOMAIN h : j > i => ~new(j, k)}
           from(k) == h[CHOOSE i \in last(k) : TRUE].data
<1>1. \A k : last(k) # {} => from(k) \in SoundStores
  <2> SUFFICES ASSUME NEW k, last(k) # {} PROVE from(k) \in SoundStores OBVIOUS
  <2>1. (CHOOSE i \in last(k) : TRUE) \in last(k) OBVIOUS
  <2>2. last(k) \subseteq DOMAIN h OBVIOUS
  <2> HIDE DEF last
  <2>3. \A i \in DOMAIN h : h[i] \in SoundEntries OBVIOUS
  <2> QED BY <2>1, <2>2, <2>3 DEF SoundEntries
<1>2. Since(h, v) =
        [reg |-> IF last("reg") # {} THEN from("reg").reg ELSE EmptyReg,
         cnt |-> IF last("cnt") # {} THEN from("cnt").cnt ELSE EmptyCnt,
         set |-> IF last("set") # {} THEN from("set").set ELSE EmptySet,
         keys |-> {k \in Kinds : last(k) # {}}]
  BY DEF Since
<1> HIDE DEF last, from
<1> QED BY <1>1, <1>2, EmptyRegSound, EmptyCntSound, EmptySetSound DEF SoundStores

---------------------------------------------------------------------------
(* The inductive invariant.  What is under way and what is in the history  *)
(* must be sound too, since it is merged later.                            *)
IInv ==
  /\ data \in [Nodes -> SoundStores]
  /\ version \in [Nodes -> Nat]
  /\ pending \in [Nodes -> SUBSET Kinds]
  /\ \A n \in Nodes : pending[n] \subseteq data[n].keys
  /\ history \in [Nodes -> Seq(SoundEntries)]
  /\ \A s \in net : /\ s.from \in Nodes /\ s.to \in Nodes
                    /\ s.upTo \in Nat /\ s.data \in SoundStores
  /\ known \in [Nodes -> [Nodes -> Nat]]

(* Initially every store is empty. *)
LEMMA InitIInv == Init => IInv
<1> SUFFICES ASSUME Init PROVE IInv OBVIOUS
<1>1. Empty \in SoundStores /\ Empty.keys = {} BY EmptyStoreSound DEF Empty
<1> HIDE DEF Empty
<1>2. <<>> \in Seq(SoundEntries) OBVIOUS
<1> QED BY <1>1, <1>2 DEF Init, IInv

(* There are three kinds of keys. *)
LEMMA KindsFinite == IsFiniteSet(Kinds)
<1>1. IsFiniteSet({"reg"}) /\ IsFiniteSet({"cnt"}) /\ IsFiniteSet({"set"}) BY FS_Singleton
<1>2. Kinds = ({"reg"} \cup {"cnt"}) \cup {"set"} BY DEF Kinds
<1> QED BY <1>1, <1>2, FS_Union

(* The last version of a history is a number. *)
LEMMA LastVersionTyped ==
  ASSUME NEW h \in Seq(SoundEntries)
  PROVE  LastVersion(h) \in Nat
<1>1. CASE h = <<>> BY <1>1 DEF LastVersion
<1>2. CASE h # <<>>
  <2>1. Len(h) \in DOMAIN h BY <1>2
  <2>2. h[Len(h)] \in SoundEntries BY <2>1
  <2> QED BY <1>2, <2>2 DEF LastVersion, SoundEntries
<1> QED BY <1>1, <1>2

(* A flush appends a sound entry. *)
LEMMA FlushedSound ==
  ASSUME IInv, NEW n \in Nodes
  PROVE  Flushed(n) \in Seq(SoundEntries)
<1>1. history[n] \in Seq(SoundEntries) /\ version[n] \in Nat /\ data[n] \in SoundStores
      /\ pending[n] \in SUBSET Kinds
  BY DEF IInv
<1> DEFINE d == [since |-> LastVersion(history[n]), upTo |-> version[n],
                 data |-> Only(data[n], pending[n])]
           h == Append(history[n], d)
<1>2. LastVersion(history[n]) \in Nat BY <1>1, LastVersionTyped
<1>3. d \in SoundEntries BY <1>1, <1>2, OnlySound DEF SoundEntries
<1>4. Flushed(n) = IF pending[n] = {} THEN history[n]
                   ELSE IF Len(h) > MaxHistory THEN Tail(h) ELSE h
  BY DEF Flushed
<1> HIDE DEF d
<1>5. h \in Seq(SoundEntries) /\ h # <<>> BY <1>1, <1>3
<1>6. Tail(h) \in Seq(SoundEntries) BY <1>5
<1> QED BY <1>1, <1>4, <1>5, <1>6

(* A local operation leaves a sound store. *)
LEMMA ChangeIInv ==
  ASSUME IInv, NEW n \in Nodes, NEW k \in Kinds, NEW d \in SoundStores,
         d.keys = data[n].keys, Change(n, k, d)
  PROVE  IInv'
<1> DEFINE e == [d EXCEPT !.keys = @ \cup {k}]
<1>1. e \in SoundStores /\ e.keys = data[n].keys \cup {k} BY DEF SoundStores
<1>2. data' = [data EXCEPT ![n] = e] BY DEF Change
<1> HIDE DEF e
<1>3. /\ version' = [version EXCEPT ![n] = @ + 1]
      /\ pending' = [pending EXCEPT ![n] = @ \cup {k}]
      /\ history' = history /\ net' = net /\ known' = known
  BY DEF Change
<1>4. data' \in [Nodes -> SoundStores] BY <1>1, <1>2 DEF IInv
<1>5. version' \in [Nodes -> Nat] BY <1>3 DEF IInv
<1>6. pending' \in [Nodes -> SUBSET Kinds] BY <1>3 DEF IInv
<1>7. \A m \in Nodes : pending'[m] \subseteq data'[m].keys BY <1>1, <1>2, <1>3 DEF IInv
<1> QED BY <1>3, <1>4, <1>5, <1>6, <1>7 DEF IInv

(* A write keeps the invariant. *)
LEMMA SetRegisterIInv ==
  ASSUME IInv, NEW n \in Nodes, NEW time \in Times, SetRegister(n, time)
  PROVE  IInv'
<1> DEFINE s == [time |-> time, node |-> n]
           d == [data[n] EXCEPT !.reg = SetReg(@, s)]
<1>1. data[n] \in SoundStores BY DEF IInv
<1>2. s \in Writes BY TimesAssumption DEF Writes
<1> HIDE DEF s
<1>3. SetReg(data[n].reg, s) \in SoundRegs BY <1>1, <1>2, StoreParts, SetRegSound
<1>4. d \in SoundStores /\ d.keys = data[n].keys BY <1>1, <1>3 DEF SoundStores
<1>5. Change(n, "reg", d) BY DEF SetRegister, s
<1> HIDE DEF d
<1> QED BY <1>4, <1>5, ChangeIInv DEF Kinds

(* So does a count. *)
LEMMA CountIInv ==
  ASSUME IInv, NEW n \in Nodes, NEW sign \in Signs, Count(n, sign)
  PROVE  IInv'
<1> DEFINE d == [data[n] EXCEPT !.cnt = CountCnt(@, n, sign)]
<1>1. data[n] \in SoundStores BY DEF IInv
<1>2. CountCnt(data[n].cnt, n, sign) \in SoundCnts BY <1>1, StoreParts, CountSound
<1>3. d \in SoundStores /\ d.keys = data[n].keys BY <1>1, <1>2 DEF SoundStores
<1>4. Change(n, "cnt", d) BY DEF Count
<1> HIDE DEF d
<1> QED BY <1>3, <1>4, ChangeIInv DEF Kinds

(* So does an addition. *)
LEMMA AddToSetIInv ==
  ASSUME IInv, NEW n \in Nodes, NEW e \in Elements, AddToSet(n, e)
  PROVE  IInv'
<1> DEFINE t == [node |-> n, no |-> Cardinality(OwnTags(n)), elem |-> e]
           d == [data[n] EXCEPT !.set = AddElement(@, t)]
<1>1. data[n] \in SoundStores /\ data[n].set \in SoundSets BY StoreParts DEF IInv
<1>2. t \in Tags
  <2>1. IsFiniteSet(data[n].set.tags) BY <1>1 DEF SoundSets
  <2>2. OwnTags(n) \subseteq data[n].set.tags BY DEF OwnTags
  <2>3. IsFiniteSet(OwnTags(n)) BY <2>1, <2>2, FS_Subset
  <2> QED BY <2>3, FS_CardinalityType DEF Tags
<1>3. Change(n, "set", d) BY DEF AddToSet
<1> HIDE DEF t
<1>4. AddElement(data[n].set, t) \in SoundSets BY <1>1, <1>2, AddSound
<1>5. d \in SoundStores /\ d.keys = data[n].keys BY <1>1, <1>4 DEF SoundStores
<1> HIDE DEF d
<1> QED BY <1>3, <1>5, ChangeIInv DEF Kinds

(* So does a removal. *)
LEMMA RemoveFromSetIInv ==
  ASSUME IInv, NEW n \in Nodes, NEW e \in Elements, RemoveFromSet(n, e)
  PROVE  IInv'
<1> DEFINE d == [data[n] EXCEPT !.set = RemoveElement(@, e)]
<1>1. data[n] \in SoundStores /\ data[n].set \in SoundSets BY StoreParts DEF IInv
<1>2. RemoveElement(data[n].set, e) \in SoundSets BY <1>1, RemoveSound
<1>3. d \in SoundStores /\ d.keys = data[n].keys BY <1>1, <1>2 DEF SoundStores
<1>4. Change(n, "set", d) BY DEF RemoveFromSet
<1> HIDE DEF d
<1> QED BY <1>3, <1>4, ChangeIInv DEF Kinds

(* A snapshot flushes the sender and puts a sound store on its way. *)
LEMMA SentIInv ==
  ASSUME IInv, NEW n \in Nodes, NEW m \in Nodes, NEW since, NEW whole,
         NEW d \in SoundStores, Flush(n), Put(Snapshot(n, m, since, whole, d)),
         UNCHANGED <<data, version, known, had, made>>
  PROVE  IInv'
<1> DEFINE s == Snapshot(n, m, since, whole, d)
<1>1. s.from = n /\ s.to = m /\ s.upTo = version[n] /\ s.data = d BY DEF Snapshot
<1>2. net' = net \cup {s} BY DEF Put
<1> HIDE DEF s
<1>3. version[n] \in Nat BY DEF IInv
<1>4. \A q \in net' : /\ q.from \in Nodes /\ q.to \in Nodes
                      /\ q.upTo \in Nat /\ q.data \in SoundStores
  BY <1>1, <1>2, <1>3 DEF IInv
<1>5. history' \in [Nodes -> Seq(SoundEntries)] BY FlushedSound DEF IInv, Flush
<1>6. pending' \in [Nodes -> SUBSET Kinds] /\ \A k \in Nodes : pending'[k] \subseteq data[k].keys
  BY DEF IInv, Flush
<1> QED BY <1>4, <1>5, <1>6 DEF IInv

(* So does a snapshot or delta that arrives. *)
LEMMA DeliverIInv ==
  ASSUME IInv, NEW s \in net, Deliver(s)
  PROVE  IInv'
<1> DEFINE n == s.to
           mine == version[n] + Cardinality(s.data.keys)
<1>1. /\ n \in Nodes /\ s.from \in Nodes /\ s.upTo \in Nat /\ s.data \in SoundStores
      /\ data[n] \in SoundStores /\ version[n] \in Nat
  BY DEF IInv
<1>2. mine \in Nat
  <2>1. s.data.keys \in SUBSET Kinds BY <1>1, StoreParts
  <2>3. IsFiniteSet(s.data.keys) BY <2>1, KindsFinite, FS_Subset
  <2> QED BY <1>1, <2>3, FS_CardinalityType
<1>3. Merge(data[n], s.data) \in SoundStores
      /\ Merge(data[n], s.data).keys = data[n].keys \cup s.data.keys
  BY <1>1, MergeSound
<1>4. /\ data' = [data EXCEPT ![n] = Merge(@, s.data)]
      /\ version' = [version EXCEPT ![n] = (IF mine > s.upTo THEN mine ELSE s.upTo) + 1]
      /\ pending' = [pending EXCEPT ![n] = @ \cup s.data.keys]
      /\ history' = history /\ net' = net
      /\ \/ known' = [known EXCEPT ![n][s.from] = s.upTo]
         \/ known' = known
  BY DEF Deliver
<1> HIDE DEF mine
<1>5. data' \in [Nodes -> SoundStores] BY <1>1, <1>3, <1>4 DEF IInv
<1>6. version' \in [Nodes -> Nat]
  <2> DEFINE next == (IF mine > s.upTo THEN mine ELSE s.upTo) + 1
  <2>1. next \in Nat BY <1>1, <1>2
  <2>2. version' = [version EXCEPT ![n] = next] BY <1>4
  <2> HIDE DEF next, n
  <2> QED BY <2>1, <2>2 DEF IInv
<1>7. pending' \in [Nodes -> SUBSET Kinds]
  <2>1. s.data.keys \in SUBSET Kinds BY <1>1, StoreParts
  <2> QED BY <1>4, <2>1 DEF IInv
<1>8. \A m \in Nodes : pending'[m] \subseteq data'[m].keys
  BY <1>1, <1>3, <1>4 DEF IInv
<1>9. known' \in [Nodes -> [Nodes -> Nat]]
  <2>1. known \in [Nodes -> [Nodes -> Nat]] BY DEF IInv
  <2>2. CASE known' = known BY <2>1, <2>2
  <2>3. CASE known' = [known EXCEPT ![n][s.from] = s.upTo]
    <3> DEFINE row == [known[n] EXCEPT ![s.from] = s.upTo]
    <3>1. row \in [Nodes -> Nat] BY <1>1, <2>1
    <3>2. known' = [known EXCEPT ![n] = row] BY <2>3
    <3> HIDE DEF row
    <3> QED BY <1>1, <2>1, <3>1, <3>2
  <2> QED BY <1>4, <2>2, <2>3
<1> QED BY <1>4, <1>5, <1>6, <1>7, <1>8, <1>9 DEF IInv

(* Every step keeps the invariant. *)
LEMMA NextIInv == IInv /\ [Next]_vars => IInv'
<1> SUFFICES ASSUME IInv, [Next]_vars PROVE IInv' OBVIOUS
<1>1. ASSUME NEW n \in Nodes, Local(n) PROVE IInv'
  BY <1>1, SetRegisterIInv, CountIInv, AddToSetIInv, RemoveFromSetIInv DEF Local
<1>2. ASSUME NEW n \in Nodes, NEW m \in Nodes, SendState(n, m) PROVE IInv'
  <2>1. data[n] \in SoundStores BY DEF IInv
  <2> QED BY <1>2, <2>1, SentIInv DEF SendState
<1>3. ASSUME NEW n \in Nodes, NEW m \in Nodes, SendDelta(n, m) PROVE IInv'
  <2> DEFINE h == Flushed(n)
             v == known[m][n]
  <2>1. h \in Seq(SoundEntries) BY FlushedSound
  <2>2. v \in Nat BY DEF IInv
  <2>3. /\ Flush(n) /\ Put(Snapshot(n, m, v, h[1].since <= v, Since(h, v)))
        /\ UNCHANGED <<data, version, known, had, made>>
    BY <1>3 DEF SendDelta
  <2> HIDE DEF h, v
  <2>4. Since(h, v) \in SoundStores BY <2>1, <2>2, SinceSound
  <2> QED BY <2>3, <2>4, SentIInv
<1>4. ASSUME NEW s \in net, Deliver(s) PROVE IInv' BY <1>4, DeliverIInv
<1>5. ASSUME NEW s \in net, Drop(s) PROVE IInv' BY <1>5 DEF Drop, IInv
<1>6. CASE UNCHANGED vars BY <1>6 DEF vars, IInv
<1> QED BY <1>1, <1>2, <1>3, <1>4, <1>5, <1>6 DEF Next

(* The inductive invariant holds of the store. *)
THEOREM Invariance == Spec => []IInv
BY InitIInv, NextIInv, PTL DEF Spec

(* Stores, snapshots and history entries stay in their types, and pending  *)
(* keys are keys the store has.                                            *)
THEOREM Typing == Spec => []TypeOK
<1>1. SoundStores \subseteq Stores
  BY DEF SoundStores, Stores, SoundRegs, SoundCnts, SoundSets
<1>2. SoundEntries \subseteq Entries BY <1>1 DEF SoundEntries, Entries
<1>3. Seq(SoundEntries) \subseteq Seq(Entries) BY <1>2
<1>4. IInv => TypeOK BY <1>1, <1>3 DEF IInv, TypeOK
<1> QED BY <1>4, Invariance, PTL

(* On every replica the register holds the greatest stamp it has seen.     *)
THEOREM LatestWins == Spec => []LatestWriteWins
<1>1. IInv => LatestWriteWins
  BY StoreParts DEF IInv, LatestWriteWins, SoundRegs
<1> QED BY <1>1, Invariance, PTL

(* Every increment and decrement seen is counted exactly once.             *)
THEOREM CountedOnce == Spec => []NothingCountedTwice
<1>1. IInv => NothingCountedTwice
  BY StoreParts DEF IInv, NothingCountedTwice, SoundCnts
<1> QED BY <1>1, Invariance, PTL

(* An addition that no removal seen has observed keeps its element.        *)
THEOREM AddWins == Spec => []AdditionsWin
<1>1. IInv => AdditionsWin
  BY StoreParts, SoundSetHolds DEF IInv, AdditionsWin
<1> QED BY <1>1, Invariance, PTL

(* Two registers that have seen the same writes hold the same stamp. *)
LEMMA SameReg ==
  ASSUME NEW a \in SoundRegs, NEW b \in SoundRegs, a.seen = b.seen
  PROVE  a.stamp = b.stamp
<1>1. CASE a.seen = {}
  <2>1. RegHolds(a) /\ RegHolds(b) BY DEF SoundRegs
  <2>2. b.seen = {} BY <1>1
  <2>3. a.stamp = Unset BY <1>1, <2>1 DEF RegHolds
  <2>4. b.stamp = Unset BY <2>1, <2>2 DEF RegHolds
  <2> QED BY <2>3, <2>4
<1>2. CASE a.seen # {}
  <2> DEFINE s == a.stamp
             t == b.stamp
  <2>1. /\ s \in a.seen /\ t \in a.seen
        /\ s = t \/ (Later(s, t) /\ Later(t, s))
    BY <1>2 DEF SoundRegs, RegHolds
  <2>2. s \in Stamps /\ t \in Stamps BY DEF SoundRegs, Registers
  <2>3. Nodes \cup {0} \subseteq Nat BY NodeAssumption
  <2> HIDE DEF s, t
  <2>4. s.time \in Nat /\ t.time \in Nat /\ s.node \in Nat /\ t.node \in Nat
    BY <2>2, <2>3 DEF Stamps
  <2>5. s = t BY <2>1, <2>4 DEF Later
  <2> QED BY <2>5 DEF s, t
<1> QED BY <1>1, <1>2

(* Two counters that have seen the same operations have the same counts. *)
LEMMA SameCnt ==
  ASSUME NEW a \in SoundCnts, NEW b \in SoundCnts, a.seen = b.seen
  PROVE  a = b
<1>1. ASSUME NEW n \in Nodes, NEW s \in Signs, NEW i \in Nat, NEW j \in Nat,
             [sign: {s}, node: {n}, no: 1 .. i] = [sign: {s}, node: {n}, no: 1 .. j]
      PROVE  i = j
  <2>1. \A k \in Nat : k \in 1 .. i <=> k \in 1 .. j
    <3> TAKE k \in Nat
    <3>1. k \in 1 .. i <=> [sign |-> s, node |-> n, no |-> k] \in [sign: {s}, node: {n}, no: 1 .. i]
      OBVIOUS
    <3>2. k \in 1 .. j <=> [sign |-> s, node |-> n, no |-> k] \in [sign: {s}, node: {n}, no: 1 .. j]
      OBVIOUS
    <3> QED BY <1>1, <3>1, <3>2
  <2> QED BY <2>1
<1>2. a \in Counters /\ b \in Counters /\ CntHolds(a) /\ CntHolds(b) BY DEF SoundCnts
<1>3. ASSUME NEW n \in Nodes PROVE a.inc[n] = b.inc[n]
  <2>1. [sign: {"inc"}, node: {n}, no: 1 .. a.inc[n]] = [sign: {"inc"}, node: {n}, no: 1 .. b.inc[n]]
    BY <1>2 DEF CntHolds, Signs
  <2>2. a.inc[n] \in Nat /\ b.inc[n] \in Nat BY <1>2 DEF Counters
  <2> QED BY <1>1, <2>1, <2>2 DEF Signs
<1>4. ASSUME NEW n \in Nodes PROVE a.dec[n] = b.dec[n]
  <2>1. [sign: {"dec"}, node: {n}, no: 1 .. a.dec[n]] = [sign: {"dec"}, node: {n}, no: 1 .. b.dec[n]]
    BY <1>2 DEF CntHolds, Signs
  <2>2. a.dec[n] \in Nat /\ b.dec[n] \in Nat BY <1>2 DEF Counters
  <2> QED BY <1>1, <2>1, <2>2 DEF Signs
<1>5. a.inc = b.inc /\ a.dec = b.dec BY <1>2, <1>3, <1>4 DEF Counters
<1> QED BY <1>2, <1>5 DEF Counters

(* Strong convergence: whatever was lost, repeated or reordered, replicas  *)
(* that have seen the same operations have the same values.                *)
THEOREM Convergence == Spec => []SameOpsSameValue
<1>1. IInv => SameOpsSameValue
  <2> SUFFICES ASSUME IInv, NEW n \in Nodes, NEW m \in Nodes
               PROVE /\ data[n].reg.seen = data[m].reg.seen => data[n].reg.stamp = data[m].reg.stamp
                     /\ data[n].cnt.seen = data[m].cnt.seen => data[n].cnt = data[m].cnt
                     /\ data[n].set.seen = data[m].set.seen =>
                          \A e \in Elements : HasElement(data[n].set, e) <=> HasElement(data[m].set, e)
    BY DEF SameOpsSameValue
  <2>1. data[n] \in SoundStores /\ data[m] \in SoundStores BY DEF IInv
  <2>2. data[n].reg.seen = data[m].reg.seen => data[n].reg.stamp = data[m].reg.stamp
    BY <2>1, StoreParts, SameReg
  <2>3. data[n].cnt.seen = data[m].cnt.seen => data[n].cnt = data[m].cnt
    BY <2>1, StoreParts, SameCnt
  <2>4. data[n].set.seen = data[m].set.seen =>
          \A e \in Elements : HasElement(data[n].set, e) <=> HasElement(data[m].set, e)
    BY <2>1, StoreParts, SoundSetHolds DEF SetHolds
  <2> QED BY <2>2, <2>3, <2>4
<1> QED BY <1>1, Invariance, PTL

---------------------------------------------------------------------------
(* Deltas.  What a store has beyond a version given out is pending, or in   *)
(* an entry of its history, unless the history no longer goes back to it.   *)

OpsOf(d, k) == IF k = "reg" THEN d.reg.seen
               ELSE IF k = "cnt" THEN d.cnt.seen ELSE d.set.seen

(* The entries of h follow one another, up to version w. *)
Chained(h, w) ==
  /\ \A i \in DOMAIN h : h[i].since <= h[i].upTo /\ h[i].upTo <= w
  /\ \A i \in DOMAIN h, j \in DOMAIN h : i <= j => h[i].upTo <= h[j].upTo
  /\ \A i \in DOMAIN h, j \in DOMAIN h : j = i + 1 => h[j].since = h[i].upTo

(* The last entry with a key that is not in P has what d has under it. *)
Current(h, d, P) ==
  \A i \in DOMAIN h : \A k \in h[i].data.keys \ P :
     (\A j \in DOMAIN h : j > i => k \notin h[j].data.keys)
     => OpsOf(d, k) \subseteq OpsOf(h[i].data, k)

(* Since version v, h has an entry with the key, or forgot what it had. *)
Tells(h, v, k) ==
  \/ \E i \in DOMAIN h : h[i].upTo > v /\ k \in h[i].data.keys
  \/ h # <<>> /\ h[1].since > v

(* Whatever n has and O has not, n has learnt after version v, and knows. *)
Knows(n, v, O) ==
  /\ v <= version[n]
  /\ \A k \in Kinds : \/ OpsOf(data[n], k) \subseteq O
                      \/ k \in pending[n] /\ v < version[n]
                      \/ Tells(history[n], v, k)

NodeInv(n) == Chained(history[n], version[n]) /\ Current(history[n], data[n], pending[n])

DeltaInv ==
  /\ \A n \in Nodes : NodeInv(n)
  /\ had = [m \in Nodes |-> [n \in Nodes |-> had[m][n]]]
  /\ \A n \in Nodes, m \in Nodes : Knows(n, known[m][n], had[m][n])
  /\ \A s \in net : Knows(s.from, s.upTo, s.ops)
  /\ DeltaCovers

(* The operations of a store are those of its three keys. *)
LEMMA OpsParts ==
  \A d : Ops(d) = OpsOf(d, "reg") \cup OpsOf(d, "cnt") \cup OpsOf(d, "set")
BY DEF Ops, OpsOf

(* A store cut down to some keys has their operations, all of them. *)
LEMMA OnlyParts ==
  ASSUME NEW d \in SoundStores, NEW K \in SUBSET Kinds
  PROVE  Only(d, K).keys = K /\ \A k \in K : OpsOf(Only(d, K), k) = OpsOf(d, k)
<1> DEFINE e == [d EXCEPT !.keys = K]
<1>1. e.reg = d.reg /\ e.cnt = d.cnt /\ e.set = d.set /\ e.keys = K BY DEF SoundStores
<1>2. Only(d, K) = Over(Empty, e) BY DEF Only
<1>3. Empty.keys = {} BY DEF Empty
<1> HIDE DEF e
<1> QED BY <1>1, <1>2, <1>3 DEF Over, OpsOf, Kinds

(* A set of numbers that is not empty and has a bound has a greatest. *)
LEMMA GreatestElement ==
  ASSUME NEW m \in Nat, NEW S \in SUBSET (0 .. m), S # {}
  PROVE  \E j \in S : \A k \in S : k <= j
<1> DEFINE R == OpToRel(<, Nat)
           T == {m - j : j \in S}
<1>1. T \in SUBSET Nat /\ T # {}
  <2>1. \A j \in S : m - j \in Nat OBVIOUS
  <2>2. PICK j \in S : TRUE OBVIOUS
  <2>3. m - j \in T OBVIOUS
  <2> QED BY <2>1, <2>3
<1> HIDE DEF T
<1>2. PICK t \in T : \A u \in T : ~(<<u, t>> \in R)
  <2>1. IsWellFoundedOn(R, Nat) BY NatLessThanWellFounded
  <2> HIDE DEF R
  <2> QED BY <1>1, <2>1, WFMin
<1>3. PICK j \in S : t = m - j BY <1>2 DEF T
<1>4. ASSUME NEW k \in S PROVE k <= j
  <2>1. m - k \in T BY DEF T
  <2>2. t \in Nat /\ m - k \in Nat BY <1>1, <2>1
  <2>3. ~(m - k < t) BY <1>2, <2>1, <2>2 DEF OpToRel
  <2>4. k \in 0 .. m /\ j \in 0 .. m OBVIOUS
  <2> QED BY <1>3, <2>3, <2>4
<1> QED BY <1>4

(* An entry of all that is pending continues the history. *)
LEMMA PushEntry ==
  ASSUME NEW h \in Seq(SoundEntries), NEW w \in Nat, NEW d \in SoundStores,
         NEW P \in SUBSET Kinds, NEW e \in SoundEntries,
         e.since = LastVersion(h), e.upTo = w, e.data = Only(d, P),
         Chained(h, w), Current(h, d, P)
  PROVE  /\ Chained(Append(h, e), w) /\ Current(Append(h, e), d, {})
         /\ \A v \in Nat : \A k \in Kinds :
              (k \in P /\ v < w) \/ Tells(h, v, k) => Tells(Append(h, e), v, k)
<1> DEFINE g == Append(h, e)
           l == Len(h)
<1>1. l \in Nat /\ DOMAIN h = 1 .. l OBVIOUS
<1>2. /\ DOMAIN g = 1 .. l + 1 /\ g[l + 1] = e /\ g # <<>>
      /\ \A i \in DOMAIN h : g[i] = h[i]
  OBVIOUS
<1>3. \A i \in DOMAIN h : h[i].since \in Nat /\ h[i].upTo \in Nat
  <2>1. \A i \in DOMAIN h : h[i] \in SoundEntries OBVIOUS
  <2> QED BY <2>1 DEF SoundEntries
<1>4. e.since \in Nat /\ e.upTo \in Nat BY DEF SoundEntries
<1>5. h # <<>> => l \in DOMAIN h /\ e.since = h[l].upTo BY <1>1 DEF LastVersion
<1>6. h = <<>> => e.since = 0 /\ l = 0 BY DEF LastVersion
<1> HIDE DEF g, l
<1>7. e.since <= e.upTo BY <1>4, <1>5, <1>6 DEF Chained
<1>8. Chained(g, w)
  <2>1. ASSUME NEW i \in DOMAIN g PROVE g[i].since <= g[i].upTo /\ g[i].upTo <= w
    BY <1>1, <1>2, <1>4, <1>7 DEF Chained
  <2>2. ASSUME NEW i \in DOMAIN g, NEW j \in DOMAIN g, i <= j PROVE g[i].upTo <= g[j].upTo
    <3>1. CASE j \in DOMAIN h
      <4>1. i \in DOMAIN h BY <1>1, <1>2, <2>2, <3>1
      <4> QED BY <1>2, <2>2, <3>1, <4>1 DEF Chained
    <3>2. CASE j = l + 1
      <4>1. g[j].upTo = w BY <1>2, <3>2
      <4> QED BY <2>1, <4>1
    <3> QED BY <1>1, <1>2, <3>1, <3>2
  <2>3. ASSUME NEW i \in DOMAIN g, NEW j \in DOMAIN g, j = i + 1 PROVE g[j].since = g[i].upTo
    <3>1. i \in DOMAIN h BY <1>1, <1>2, <2>3
    <3>2. CASE j \in DOMAIN h BY <1>2, <2>3, <3>1, <3>2 DEF Chained
    <3>3. CASE j = l + 1
      <4>1. i = l /\ h # <<>> BY <1>1, <2>3, <3>1, <3>3
      <4> QED BY <1>2, <1>5, <3>1, <3>3, <4>1
    <3> QED BY <1>1, <1>2, <3>2, <3>3
  <2> QED BY <2>1, <2>2, <2>3 DEF Chained
<1>9. e.data.keys = P /\ \A k \in P : OpsOf(e.data, k) = OpsOf(d, k) BY OnlyParts
<1>10. Current(g, d, {})
  <2> SUFFICES ASSUME NEW i \in DOMAIN g, NEW k \in g[i].data.keys,
                      \A j \in DOMAIN g : j > i => k \notin g[j].data.keys
               PROVE  OpsOf(d, k) \subseteq OpsOf(g[i].data, k)
    BY DEF Current
  <2>1. CASE i = l + 1 BY <1>2, <1>9, <2>1
  <2>2. CASE i \in DOMAIN h
    <3>1. l + 1 > i /\ l + 1 \in DOMAIN g BY <1>1, <1>2, <2>2
    <3>2. k \notin P BY <1>2, <1>9, <3>1
    <3>3. \A j \in DOMAIN h : j > i => k \notin h[j].data.keys BY <1>1, <1>2
    <3> QED BY <1>2, <2>2, <3>2, <3>3 DEF Current
  <2> QED BY <1>1, <1>2, <2>1, <2>2
<1>11. ASSUME NEW v \in Nat, NEW k \in Kinds, (k \in P /\ v < w) \/ Tells(h, v, k)
       PROVE  Tells(g, v, k)
  <2>1. CASE k \in P /\ v < w
    <3>1. l + 1 \in DOMAIN g BY <1>1, <1>2
    <3> QED BY <1>2, <1>9, <2>1, <3>1 DEF Tells
  <2>2. CASE \E i \in DOMAIN h : h[i].upTo > v /\ k \in h[i].data.keys
    BY <1>1, <1>2, <2>2 DEF Tells
  <2>3. CASE h # <<>> /\ h[1].since > v
    <3>1. 1 \in DOMAIN h BY <1>1, <1>5, <2>3
    <3> QED BY <1>2, <2>3, <3>1 DEF Tells
  <2> QED BY <1>11, <2>1, <2>2, <2>3 DEF Tells
<1> QED BY <1>8, <1>10, <1>11 DEF g

(* A history that drops its oldest entry is known not to go back to it. *)
LEMMA DropOldest ==
  ASSUME NEW h \in Seq(SoundEntries), NEW w \in Nat, NEW d \in SoundStores, Len(h) > 1,
         Chained(h, w), Current(h, d, {})
  PROVE  /\ Chained(Tail(h), w) /\ Current(Tail(h), d, {})
         /\ \A v \in Nat : \A k \in Kinds : Tells(h, v, k) => Tells(Tail(h), v, k)
<1> DEFINE g == Tail(h)
           l == Len(h)
<1>1. l \in Nat /\ l > 1 /\ DOMAIN h = 1 .. l OBVIOUS
<1>2. DOMAIN g = 1 .. l - 1 /\ g # <<>> /\ \A i \in DOMAIN g : g[i] = h[i + 1] /\ i + 1 \in DOMAIN h
  <2>1. h # <<>> OBVIOUS
  <2>2. g \in Seq(SoundEntries) /\ Len(g) = l - 1 BY <2>1
  <2>3. \A i \in 1 .. l - 1 : g[i] = h[i + 1] BY <2>1
  <2>4. DOMAIN g = 1 .. l - 1 BY <2>2
  <2> HIDE DEF g, l
  <2>5. g # <<>> BY <1>1, <2>2
  <2> QED BY <1>1, <2>3, <2>4, <2>5
<1>3. \A i \in DOMAIN h : h[i].since \in Nat /\ h[i].upTo \in Nat
  <2>1. \A i \in DOMAIN h : h[i] \in SoundEntries OBVIOUS
  <2> QED BY <2>1 DEF SoundEntries
<1> HIDE DEF g, l
<1>4. Chained(g, w) BY <1>1, <1>2, <1>3 DEF Chained
<1>5. Current(g, d, {})
  <2> SUFFICES ASSUME NEW i \in DOMAIN g, NEW k \in g[i].data.keys,
                      \A j \in DOMAIN g : j > i => k \notin g[j].data.keys
               PROVE  OpsOf(d, k) \subseteq OpsOf(g[i].data, k)
    BY DEF Current
  <2>1. ASSUME NEW j \in DOMAIN h, j > i + 1 PROVE k \notin h[j].data.keys
    <3>1. j - 1 \in DOMAIN g /\ j - 1 > i /\ (j - 1) + 1 = j BY <1>1, <1>2, <2>1
    <3> QED BY <1>2, <3>1
  <2> QED BY <1>2, <2>1 DEF Current
<1>6. ASSUME NEW v \in Nat, NEW k \in Kinds, Tells(h, v, k) PROVE Tells(g, v, k)
  <2>1. 1 \in DOMAIN g /\ 1 \in DOMAIN h /\ 2 \in DOMAIN h /\ g[1] = h[2] BY <1>1, <1>2
  <2>2. g[1].since = h[1].upTo /\ h[1].since <= h[1].upTo BY <2>1 DEF Chained
  <2>3. CASE h[1].upTo > v BY <1>2, <2>2, <2>3 DEF Tells
  <2>4. CASE ~(h[1].upTo > v)
    <3>1. ~(h[1].since > v) BY <1>3, <2>1, <2>2, <2>4
    <3>2. PICK i \in DOMAIN h : h[i].upTo > v /\ k \in h[i].data.keys BY <1>6, <3>1 DEF Tells
    <3>3. i # 1 BY <2>4, <3>2
    <3>4. i - 1 \in DOMAIN g /\ (i - 1) + 1 = i BY <1>1, <1>2, <3>3
    <3> QED BY <1>2, <3>2, <3>4 DEF Tells
  <2> QED BY <2>3, <2>4
<1> QED BY <1>4, <1>5, <1>6 DEF g

(* A flush loses nothing that the history had to tell. *)
LEMMA FlushNode ==
  ASSUME IInv, NEW n \in Nodes, NodeInv(n), NEW h, h = Flushed(n)
  PROVE  /\ Chained(h, version[n]) /\ Current(h, data[n], {})
         /\ \A v \in Nat : \A k \in Kinds :
              (k \in pending[n] /\ v < version[n]) \/ Tells(history[n], v, k) => Tells(h, v, k)
<1>1. /\ history[n] \in Seq(SoundEntries) /\ version[n] \in Nat /\ data[n] \in SoundStores
      /\ pending[n] \in SUBSET Kinds
  BY DEF IInv
<1>2. Chained(history[n], version[n]) /\ Current(history[n], data[n], pending[n]) BY DEF NodeInv
<1>3. CASE pending[n] = {} BY <1>2, <1>3 DEF Flushed
<1>4. CASE pending[n] # {}
  <2> DEFINE e == [since |-> LastVersion(history[n]), upTo |-> version[n],
                   data |-> Only(data[n], pending[n])]
             g == Append(history[n], e)
  <2>1. e.since = LastVersion(history[n]) /\ e.upTo = version[n]
        /\ e.data = Only(data[n], pending[n])
    OBVIOUS
  <2>2. e \in SoundEntries BY <1>1, OnlySound, LastVersionTyped DEF SoundEntries
  <2>3. h = IF Len(g) > MaxHistory THEN Tail(g) ELSE g BY <1>4 DEF Flushed
  <2> HIDE DEF e
  <2>4. /\ Chained(g, version[n]) /\ Current(g, data[n], {})
        /\ \A v \in Nat : \A k \in Kinds :
             (k \in pending[n] /\ v < version[n]) \/ Tells(history[n], v, k) => Tells(g, v, k)
    BY <1>1, <1>2, <2>1, <2>2, PushEntry
  <2>5. g \in Seq(SoundEntries) BY <1>1, <2>2
  <2> HIDE DEF g
  <2>6. CASE Len(g) > MaxHistory
    <3>1. Len(g) > 1 BY <2>5, <2>6, HistoryAssumption
    <3> QED BY <1>1, <2>3, <2>4, <2>5, <2>6, <3>1, DropOldest
  <2>7. CASE ~(Len(g) > MaxHistory) BY <2>3, <2>4, <2>7
  <2> QED BY <2>6, <2>7
<1> QED BY <1>3, <1>4

(* A delta from a history that goes back to the version has all that is new. *)
LEMMA DeltaTells ==
  ASSUME NEW h \in Seq(SoundEntries), NEW w \in Nat, NEW d \in SoundStores, NEW v \in Nat,
         NEW O, Chained(h, w), Current(h, d, {}), h[1].since <= v,
         \A k \in Kinds : OpsOf(d, k) \subseteq O \/ Tells(h, v, k)
  PROVE  Ops(d) \subseteq O \cup Ops(Since(h, v))
<1> DEFINE new(i, k) == h[i].upTo > v /\ k \in h[i].data.keys
           last(k) == {i \in DOMAIN h : /\ new(i, k)
                                        /\ \A j \in DOMAIN h : j > i => ~new(j, k)}
           from(k) == h[CHOOSE i \in last(k) : TRUE].data
<1>1. \A i \in DOMAIN h : h[i].since \in Nat /\ h[i].upTo \in Nat
  <2>1. \A i \in DOMAIN h : h[i] \in SoundEntries OBVIOUS
  <2> QED BY <2>1 DEF SoundEntries
<1>2. Len(h) \in Nat /\ DOMAIN h = 1 .. Len(h) OBVIOUS
<1>3. ASSUME NEW k \in Kinds, ~(OpsOf(d, k) \subseteq O)
      PROVE  last(k) # {} /\ OpsOf(d, k) \subseteq OpsOf(from(k), k)
  <2> DEFINE N == {i \in DOMAIN h : new(i, k)}
  <2>1. N # {}
    <3>1. Tells(h, v, k) BY <1>3
    <3>2. ~(h # <<>> /\ h[1].since > v)
      <4>1. CASE h = <<>> BY <4>1
      <4>2. CASE h # <<>>
        <5>1. 1 \in DOMAIN h BY <4>2
        <5> QED BY <1>1, <5>1
      <4> QED BY <4>1, <4>2
    <3> QED BY <3>1, <3>2 DEF Tells
  <2>2. PICK i \in N : \A j \in N : j <= i
    <3>1. N \in SUBSET (0 .. Len(h)) BY <1>2
    <3> HIDE DEF N
    <3> QED BY <1>2, <2>1, <3>1, GreatestElement
  <2>3. i \in last(k) BY <1>2, <2>2
  <2>4. (CHOOSE j \in last(k) : TRUE) \in last(k) BY <2>3
  <2>5. PICK j \in DOMAIN h : /\ from(k) = h[j].data /\ new(j, k)
                              /\ \A q \in DOMAIN h : q > j => ~new(q, k)
    BY <2>4
  <2> HIDE DEF last, from
  <2>6. \A q \in DOMAIN h : q > j => k \notin h[q].data.keys
    <3> SUFFICES ASSUME NEW q \in DOMAIN h, q > j, k \in h[q].data.keys PROVE FALSE OBVIOUS
    <3>1. h[j].upTo <= h[q].upTo BY <1>2 DEF Chained
    <3>2. h[q].upTo > v BY <1>1, <2>5, <3>1
    <3> QED BY <2>5, <3>2
  <2>7. OpsOf(d, k) \subseteq OpsOf(h[j].data, k) BY <2>5, <2>6 DEF Current
  <2> QED BY <2>3, <2>5, <2>7
<1>4. Since(h, v) =
        [reg |-> IF last("reg") # {} THEN from("reg").reg ELSE EmptyReg,
         cnt |-> IF last("cnt") # {} THEN from("cnt").cnt ELSE EmptyCnt,
         set |-> IF last("set") # {} THEN from("set").set ELSE EmptySet,
         keys |-> {k \in Kinds : last(k) # {}}]
  BY DEF Since
<1> HIDE DEF last, from
<1>5. \A k \in Kinds : last(k) # {} => OpsOf(Since(h, v), k) = OpsOf(from(k), k)
  BY <1>4 DEF Kinds, OpsOf
<1>6. \A k \in Kinds : OpsOf(d, k) \subseteq O \cup OpsOf(Since(h, v), k)
  BY <1>3, <1>5
<1>7. \A k \in Kinds : OpsOf(d, k) \subseteq O \cup Ops(Since(h, v))
  BY <1>6, OpsParts DEF Kinds
<1> QED BY <1>7, OpsParts DEF Kinds

(* A change to the keys of K, each recorded, makes the version a new one. *)
LEMMA GrowNode ==
  ASSUME IInv, NEW n \in Nodes, NEW K \in SUBSET Kinds, NodeInv(n),
         version'[n] \in Nat, version'[n] > version[n],
         pending'[n] = pending[n] \cup K, history'[n] = history[n],
         \A k \in Kinds \ K : OpsOf(data'[n], k) = OpsOf(data[n], k)
  PROVE  /\ NodeInv(n)'
         /\ \A v \in Nat : \A O : Knows(n, v, O) => Knows(n, v, O)'
<1>1. history[n] \in Seq(SoundEntries) /\ version[n] \in Nat BY DEF IInv
<1>2. \A i \in DOMAIN history[n] : history[n][i] \in SoundEntries BY <1>1
<1>3. \A i \in DOMAIN history[n] : /\ history[n][i].upTo \in Nat
                                   /\ history[n][i].data.keys \subseteq Kinds
  BY <1>2, StoreParts DEF SoundEntries
<1>4. Chained(history[n], version'[n]) BY <1>1, <1>3 DEF NodeInv, Chained
<1>5. Current(history[n], data'[n], pending'[n])
  <2> SUFFICES ASSUME NEW i \in DOMAIN history[n],
                      NEW k \in history[n][i].data.keys \ pending'[n],
                      \A j \in DOMAIN history[n] : j > i => k \notin history[n][j].data.keys
               PROVE  OpsOf(data'[n], k) \subseteq OpsOf(history[n][i].data, k)
    BY DEF Current
  <2>1. k \in Kinds \ K /\ k \notin pending[n] BY <1>3
  <2> QED BY <2>1 DEF NodeInv, Current
<1>6. ASSUME NEW v \in Nat, NEW O, Knows(n, v, O) PROVE Knows(n, v, O)'
  <2>1. v <= version[n] BY <1>6 DEF Knows
  <2>2. v < version'[n] BY <1>1, <2>1
  <2>3. ASSUME NEW k \in Kinds
        PROVE  \/ OpsOf(data'[n], k) \subseteq O
               \/ k \in pending'[n] /\ v < version'[n]
               \/ Tells(history'[n], v, k)
    <3>1. CASE k \in K BY <2>2, <3>1
    <3>2. CASE k \notin K BY <1>6, <2>2, <3>2 DEF Knows
    <3> QED BY <3>1, <3>2
  <2> QED BY <2>2, <2>3 DEF Knows
<1> QED BY <1>4, <1>5, <1>6 DEF NodeInv

(* A step elsewhere changes nothing of what a node's history reaches. *)
LEMMA SameNode ==
  ASSUME NEW n \in Nodes, NodeInv(n), data'[n] = data[n], version'[n] = version[n],
         pending'[n] = pending[n], history'[n] = history[n]
  PROVE  /\ NodeInv(n)'
         /\ \A v \in Nat : \A O : Knows(n, v, O) => Knows(n, v, O)'
BY DEF NodeInv, Knows


(* A step leaves the histories good for every version that was given out. *)
NodesKeep ==
  /\ \A n \in Nodes : NodeInv(n)'
  /\ \A n \in Nodes, v \in Nat : \A O : Knows(n, v, O) => Knows(n, v, O)'

(* A change of the pending keys keeps every history whole: what the last *)
(* entry does not have is pending.                                       *)
LEMMA GrowKeeps ==
  ASSUME IInv, DeltaInv, NEW n \in Nodes, NEW K \in SUBSET Kinds, NEW d, NEW w \in Nat,
         w > version[n], \A k \in Kinds \ K : OpsOf(d, k) = OpsOf(data[n], k),
         data' = [data EXCEPT ![n] = d], version' = [version EXCEPT ![n] = w],
         pending' = [pending EXCEPT ![n] = @ \cup K], history' = history
  PROVE  NodesKeep
<1>1. /\ DOMAIN data = Nodes /\ DOMAIN version = Nodes /\ DOMAIN pending = Nodes BY DEF IInv
<1>2. data'[n] = d /\ version'[n] = w /\ pending'[n] = pending[n] \cup K BY <1>1
<1>3. \A q \in Nodes \ {n} : data'[q] = data[q] /\ version'[q] = version[q] /\ pending'[q] = pending[q]
  BY <1>1
<1>4. \A q \in Nodes : NodeInv(q) BY DEF DeltaInv
<1>5. NodeInv(n)' /\ \A v \in Nat : \A O : Knows(n, v, O) => Knows(n, v, O)'
  BY <1>2, <1>4, GrowNode
<1>6. ASSUME NEW q \in Nodes \ {n}
      PROVE  NodeInv(q)' /\ \A v \in Nat : \A O : Knows(q, v, O) => Knows(q, v, O)'
  BY <1>3, <1>4, SameNode
<1> QED BY <1>5, <1>6 DEF NodesKeep

(* So does a flush, which writes all pending keys, and may trim the oldest *)
(* entry.                                                                  *)
LEMMA FlushKeeps ==
  ASSUME IInv, DeltaInv, NEW n \in Nodes, Flush(n), UNCHANGED <<data, version>>
  PROVE  NodesKeep
<1>1. /\ DOMAIN history = Nodes /\ DOMAIN pending = Nodes BY DEF IInv
<1>2. history'[n] = Flushed(n) /\ pending'[n] = {} BY <1>1 DEF Flush
<1>3. \A q \in Nodes \ {n} : history'[q] = history[q] /\ pending'[q] = pending[q]
  BY <1>1 DEF Flush
<1>4. \A q \in Nodes : NodeInv(q) BY DEF DeltaInv
<1>5. /\ Chained(history'[n], version[n]) /\ Current(history'[n], data[n], {})
      /\ \A v \in Nat : \A k \in Kinds :
           (k \in pending[n] /\ v < version[n]) \/ Tells(history[n], v, k)
           => Tells(history'[n], v, k)
  BY <1>2, <1>4, FlushNode
<1>6. NodeInv(n)' BY <1>2, <1>5 DEF NodeInv
<1>7. ASSUME NEW v \in Nat, NEW O, Knows(n, v, O) PROVE Knows(n, v, O)'
  BY <1>2, <1>5, <1>7 DEF Knows
<1>8. ASSUME NEW q \in Nodes \ {n}
      PROVE  NodeInv(q)' /\ \A v \in Nat : \A O : Knows(q, v, O) => Knows(q, v, O)'
  BY <1>3, <1>4, SameNode
<1> QED BY <1>6, <1>7, <1>8 DEF NodesKeep

(* A local operation changes one key. *)
LEMMA ChangeDelta ==
  ASSUME IInv, DeltaInv, NEW n \in Nodes, NEW k \in Kinds, NEW d, Change(n, k, d),
         \A j \in Kinds \ {k} : OpsOf([d EXCEPT !.keys = @ \cup {k}], j) = OpsOf(data[n], j)
  PROVE  DeltaInv'
<1> DEFINE e == [d EXCEPT !.keys = @ \cup {k}]
           w == version[n] + 1
<1>1. w \in Nat /\ w > version[n] BY DEF IInv
<1>2. /\ data' = [data EXCEPT ![n] = e] /\ version' = [version EXCEPT ![n] = w]
      /\ pending' = [pending EXCEPT ![n] = @ \cup {k}] /\ history' = history
      /\ net' = net /\ known' = known /\ had' = had
  BY DEF Change
<1>3. \A j \in Kinds \ {k} : OpsOf(e, j) = OpsOf(data[n], j) OBVIOUS
<1> HIDE DEF e, w
<1>4. NodesKeep BY <1>1, <1>2, <1>3, GrowKeeps
<1>5. \A m \in Nodes, q \in Nodes : known[m][q] \in Nat BY DEF IInv
<1>6. \A s \in net : s.from \in Nodes /\ s.upTo \in Nat BY DEF IInv
<1> QED BY <1>2, <1>4, <1>5, <1>6 DEF DeltaInv, NodesKeep, DeltaCovers

(* A local operation keeps every delta on its way covered. *)
LEMMA LocalDelta ==
  ASSUME IInv, DeltaInv, NEW n \in Nodes, Local(n)
  PROVE  DeltaInv'
<1>1. data[n] = [reg |-> data[n].reg, cnt |-> data[n].cnt, set |-> data[n].set,
                 keys |-> data[n].keys]
  BY StoreParts DEF IInv
<1>2. ASSUME NEW time \in Times, SetRegister(n, time) PROVE DeltaInv'
  <2>1. PICK r : Change(n, "reg", [data[n] EXCEPT !.reg = r]) BY <1>2 DEF SetRegister
  <2> QED BY <1>1, <2>1, ChangeDelta DEF Kinds, OpsOf
<1>3. ASSUME NEW sign \in Signs, Count(n, sign) PROVE DeltaInv'
  <2>1. PICK r : Change(n, "cnt", [data[n] EXCEPT !.cnt = r]) BY <1>3 DEF Count
  <2> QED BY <1>1, <2>1, ChangeDelta DEF Kinds, OpsOf
<1>4. ASSUME NEW e \in Elements, AddToSet(n, e) \/ RemoveFromSet(n, e) PROVE DeltaInv'
  <2>1. PICK r : Change(n, "set", [data[n] EXCEPT !.set = r])
    BY <1>4 DEF AddToSet, RemoveFromSet
  <2> QED BY <1>1, <2>1, ChangeDelta DEF Kinds, OpsOf
<1> QED BY <1>2, <1>3, <1>4 DEF Local

(* A snapshot that has all that its maker learnt since the version.        *)
LEMMA SentDelta ==
  ASSUME IInv, DeltaInv, NEW n \in Nodes, NEW m \in Nodes, NEW since, NEW whole, NEW d,
         Flush(n), Put(Snapshot(n, m, since, whole, d)),
         UNCHANGED <<data, version, known, had, made>>,
         whole => Ops(data[n]) \subseteq had[m][n] \cup Ops(d)
  PROVE  DeltaInv'
<1> DEFINE s == Snapshot(n, m, since, whole, d)
<1>1. /\ s.from = n /\ s.upTo = version[n] /\ s.ops = Ops(data[n]) /\ s.had = had[m][n]
      /\ s.whole = whole /\ s.data = d
  BY DEF Snapshot
<1>2. net' = net \cup {s} BY DEF Put
<1> HIDE DEF s
<1>3. version[n] \in Nat BY DEF IInv
<1>4. NodesKeep BY FlushKeeps
<1>5. Knows(n, version[n], Ops(data[n]))
  <2>1. \A k \in Kinds : OpsOf(data[n], k) \subseteq Ops(data[n]) BY OpsParts DEF Kinds
  <2> QED BY <1>3, <2>1 DEF Knows
<1>6. \A a \in Nodes, b \in Nodes : known[a][b] \in Nat BY DEF IInv
<1>7. \A q \in net : q.from \in Nodes /\ q.upTo \in Nat BY DEF IInv
<1>8. ASSUME NEW q \in net' PROVE Knows(q.from, q.upTo, q.ops)'
  <2>1. CASE q \in net BY <1>4, <1>7, <2>1 DEF DeltaInv, NodesKeep
  <2>2. CASE q = s BY <1>1, <1>3, <1>4, <1>5, <2>2 DEF NodesKeep
  <2> QED BY <1>2, <2>1, <2>2
<1>9. DeltaCovers' BY <1>1, <1>2 DEF DeltaInv, DeltaCovers
<1>10. \A a \in Nodes, b \in Nodes : Knows(a, known[b][a], had[b][a])'
  BY <1>4, <1>6 DEF DeltaInv, NodesKeep
<1> QED BY <1>4, <1>8, <1>9, <1>10 DEF DeltaInv, NodesKeep

(* A delta sent has what its maker learnt since the version asked for, if *)
(* the history reaches back.                                              *)
LEMMA SendDeltaInv ==
  ASSUME IInv, DeltaInv, NEW n \in Nodes, NEW m \in Nodes, SendDelta(n, m)
  PROVE  DeltaInv'
<1> DEFINE h == Flushed(n)
           v == known[m][n]
<1>1. h \in Seq(SoundEntries) BY FlushedSound
<1>2. v \in Nat /\ version[n] \in Nat /\ data[n] \in SoundStores BY DEF IInv
<1>3. /\ Flush(n) /\ Put(Snapshot(n, m, v, h[1].since <= v, Since(h, v)))
      /\ UNCHANGED <<data, version, known, had, made>>
  BY DEF SendDelta
<1>4. NodeInv(n) /\ Knows(n, v, had[m][n]) BY DEF DeltaInv
<1> HIDE DEF h, v
<1>5. /\ Chained(h, version[n]) /\ Current(h, data[n], {})
      /\ \A k \in Kinds : (k \in pending[n] /\ v < version[n]) \/ Tells(history[n], v, k)
                          => Tells(h, v, k)
  BY <1>2, <1>4, FlushNode DEF h
<1>6. \A k \in Kinds : OpsOf(data[n], k) \subseteq had[m][n] \/ Tells(h, v, k)
  BY <1>4, <1>5 DEF Knows
<1>7. h[1].since <= v => Ops(data[n]) \subseteq had[m][n] \cup Ops(Since(h, v))
  BY <1>1, <1>2, <1>5, <1>6, DeltaTells
<1> QED BY <1>3, <1>7, SentDelta

(* A delivery keeps the deltas of the others, and of its receiver, covered. *)
LEMMA DeliverDelta ==
  ASSUME IInv, DeltaInv, NEW s \in net, Deliver(s)
  PROVE  DeltaInv'
<1> DEFINE n == s.to
           mine == version[n] + Cardinality(s.data.keys)
           w == (IF mine > s.upTo THEN mine ELSE s.upTo) + 1
           d == Merge(data[n], s.data)
<1>1. /\ n \in Nodes /\ s.from \in Nodes /\ s.upTo \in Nat /\ s.data \in SoundStores
      /\ data[n] \in SoundStores /\ version[n] \in Nat
  BY DEF IInv
<1>2. s.data.keys \in SUBSET Kinds BY <1>1, StoreParts
<1>3. w \in Nat /\ w > version[n]
  <2>1. Cardinality(s.data.keys) \in Nat BY <1>2, KindsFinite, FS_Subset, FS_CardinalityType
  <2>2. mine \in Nat /\ mine >= version[n] BY <1>1, <2>1
  <2> HIDE DEF mine
  <2> QED BY <1>1, <2>2
<1>4. \A k \in Kinds \ s.data.keys : OpsOf(d, k) = OpsOf(data[n], k) BY DEF Merge, OpsOf, Kinds
<1>5. /\ data' = [data EXCEPT ![n] = d] /\ version' = [version EXCEPT ![n] = w]
      /\ pending' = [pending EXCEPT ![n] = @ \cup s.data.keys]
      /\ history' = history /\ net' = net
      /\ \/ /\ known' = [known EXCEPT ![n][s.from] = s.upTo]
            /\ had' = [had EXCEPT ![n][s.from] = s.ops]
         \/ known' = known /\ had' = had
  <2>1. data' = [data EXCEPT ![n] = d] BY <1>1 DEF Deliver, IInv
  <2> QED BY <2>1 DEF Deliver
<1> HIDE DEF d, w
<1>6. NodesKeep BY <1>1, <1>2, <1>3, <1>4, <1>5, GrowKeeps
<1>7. \A a \in Nodes, b \in Nodes : known[a][b] \in Nat BY DEF IInv
<1>8. \A q \in net : q.from \in Nodes /\ q.upTo \in Nat BY DEF IInv
<1>9. /\ \A a \in Nodes, b \in Nodes : Knows(a, known[b][a], had[b][a])'
      /\ had' = [p \in Nodes |-> [q \in Nodes |-> had'[p][q]]]
  <2>1. known \in [Nodes -> [Nodes -> Nat]] BY DEF IInv
  <2>2. had = [p \in Nodes |-> [q \in Nodes |-> had[p][q]]] BY DEF DeltaInv
  <2>3. \A a \in Nodes, b \in Nodes : Knows(a, known[b][a], had[b][a]) BY DEF DeltaInv
  <2>4. \A a \in Nodes, v \in Nat : \A O : Knows(a, v, O) => Knows(a, v, O)'
    BY <1>6 DEF NodesKeep
  <2>5. CASE known' = known /\ had' = had BY <1>7, <2>2, <2>3, <2>4, <2>5
  <2>6. CASE /\ known' = [known EXCEPT ![n][s.from] = s.upTo]
             /\ had' = [had EXCEPT ![n][s.from] = s.ops]
    <3>1. \A a \in Nodes, b \in Nodes :
            /\ known'[b][a] = IF b = n /\ a = s.from THEN s.upTo ELSE known[b][a]
            /\ had'[b][a] = IF b = n /\ a = s.from THEN s.ops ELSE had[b][a]
      BY <1>1, <2>1, <2>2, <2>6
    <3>2. had' = [p \in Nodes |-> [q \in Nodes |-> had'[p][q]]] BY <1>1, <2>2, <2>6
    <3>3. Knows(s.from, s.upTo, s.ops)' BY <1>1, <1>6 DEF DeltaInv, NodesKeep
    <3>4. ASSUME NEW a \in Nodes, NEW b \in Nodes PROVE Knows(a, known[b][a], had[b][a])'
      <4>1. CASE b = n /\ a = s.from BY <3>1, <3>3, <4>1
      <4>2. CASE ~(b = n /\ a = s.from) BY <1>7, <2>3, <2>4, <3>1, <4>2
      <4> QED BY <4>1, <4>2
    <3> QED BY <3>2, <3>4
  <2> QED BY <1>5, <2>5, <2>6
<1>10. \A q \in net' : Knows(q.from, q.upTo, q.ops)' BY <1>5, <1>6, <1>8 DEF DeltaInv, NodesKeep
<1>11. DeltaCovers' BY <1>5 DEF DeltaInv, DeltaCovers
<1> QED BY <1>6, <1>9, <1>10, <1>11 DEF DeltaInv, NodesKeep

(* So does every step. *)
LEMMA NextDelta == IInv /\ DeltaInv /\ [Next]_vars => DeltaInv'
<1> SUFFICES ASSUME IInv, DeltaInv, [Next]_vars PROVE DeltaInv' OBVIOUS
<1>1. ASSUME NEW n \in Nodes, Local(n) PROVE DeltaInv' BY <1>1, LocalDelta
<1>2. ASSUME NEW n \in Nodes, NEW m \in Nodes, SendState(n, m) PROVE DeltaInv'
  BY <1>2, SentDelta DEF SendState
<1>3. ASSUME NEW n \in Nodes, NEW m \in Nodes, SendDelta(n, m) PROVE DeltaInv'
  BY <1>3, SendDeltaInv
<1>4. ASSUME NEW s \in net, Deliver(s) PROVE DeltaInv' BY <1>4, DeliverDelta
<1>5. ASSUME NEW s \in net, Drop(s) PROVE DeltaInv'
  BY <1>5 DEF Drop, DeltaInv, NodeInv, Knows, DeltaCovers
<1>6. CASE UNCHANGED vars BY <1>6 DEF vars, DeltaInv, NodeInv, Knows, DeltaCovers
<1> QED BY <1>1, <1>2, <1>3, <1>4, <1>5, <1>6 DEF Next

(* At first nothing was learnt and nothing sent. *)
LEMMA InitDelta == Init => DeltaInv
<1> SUFFICES ASSUME Init PROVE DeltaInv OBVIOUS
<1>1. \A k \in Kinds : OpsOf(Empty, k) = {}
  BY DEF Empty, EmptyReg, EmptyCnt, EmptySet, OpsOf
<1>2. \A n \in Nodes : NodeInv(n) BY DEF Init, NodeInv, Chained, Current
<1>3. \A n \in Nodes, m \in Nodes : Knows(n, known[m][n], had[m][n])
  BY <1>1 DEF Init, Knows
<1> QED BY <1>2, <1>3 DEF Init, DeltaInv, DeltaCovers

(* A delta said to be whole has every operation that its maker learnt since *)
(* the version asked for, however often versions were flushed, dropped from *)
(* the history, lost or delivered twice.                                    *)
THEOREM WholeDeltas == Spec => []DeltaCovers
<1>1. DeltaInv => DeltaCovers BY DEF DeltaInv
<1> QED BY <1>1, InitDelta, NextDelta, Invariance, PTL DEF Spec

---------------------------------------------------------------------------
(* What a replica has. *)

Learns(d, e) == \A k \in Kinds : OpsOf(d, k) \subseteq OpsOf(e, k)

(* No replica ever loses an operation that reached it. *)
NothingUnlearnt == [][\A n \in Nodes : Learns(data[n], data'[n])]_vars

(* A merge keeps the operations of both sides. *)
LEMMA MergeLearns ==
  ASSUME NEW b, NEW d
  PROVE  /\ Learns(b, Merge(b, d))
         /\ \A k \in d.keys \cap Kinds : OpsOf(d, k) \subseteq OpsOf(Merge(b, d), k)
<1>1. \A r, in : MergeReg(r, in).seen = r.seen \cup in.seen BY DEF MergeReg
<1>2. \A r, in : MergeCnt(r, in).seen = r.seen \cup in.seen BY DEF MergeCnt
<1>3. \A r, in : MergeSet(r, in).seen = r.seen \cup in.seen BY DEF MergeSet
<1>4. /\ Merge(b, d).reg = IF "reg" \in d.keys THEN MergeReg(b.reg, d.reg) ELSE b.reg
      /\ Merge(b, d).cnt = IF "cnt" \in d.keys THEN MergeCnt(b.cnt, d.cnt) ELSE b.cnt
      /\ Merge(b, d).set = IF "set" \in d.keys THEN MergeSet(b.set, d.set) ELSE b.set
  BY DEF Merge
<1> QED BY <1>1, <1>2, <1>3, <1>4 DEF Learns, OpsOf, Kinds

(* What a local operation leaves under its key. *)
LEMMA OperationsLearn ==
  ASSUME NEW d \in SoundStores
  PROVE  /\ \A s : d.reg.seen \subseteq SetReg(d.reg, s).seen
         /\ \A n, sign : d.cnt.seen \subseteq CountCnt(d.cnt, n, sign).seen
         /\ \A t : d.set.seen \subseteq AddElement(d.set, t).seen
         /\ \A e : d.set.seen \subseteq RemoveElement(d.set, e).seen
<1>1. d.set \in SoundSets BY StoreParts
<1>2. d.set = [tags |-> d.set.tags, tombs |-> d.set.tombs, seen |-> d.set.seen]
  BY <1>1 DEF SoundSets, Sets
<1>3. \A T, U, S : [[d.set EXCEPT !.tags = T] EXCEPT !.seen = S].seen = S
                   /\ [[d.set EXCEPT !.tombs = U] EXCEPT !.seen = S].seen = S
  BY <1>2
<1>4. \A t : AddElement(d.set, t)
            = [[d.set EXCEPT !.tags = @ \cup {t}] EXCEPT !.seen = @ \cup {[op |-> "add", tags |-> {t}]}]
  BY <1>2 DEF AddElement
<1>5. ASSUME NEW t PROVE d.set.seen \subseteq AddElement(d.set, t).seen
  <2> DEFINE T == d.set.tags \cup {t}
             S == d.set.seen \cup {[op |-> "add", tags |-> {t}]}
  <2>1. AddElement(d.set, t) = [[d.set EXCEPT !.tags = T] EXCEPT !.seen = S] BY <1>4
  <2>2. d.set.seen \subseteq S OBVIOUS
  <2> HIDE DEF T, S
  <2> QED BY <1>3, <2>1, <2>2
<1>6. \A e : d.set.seen \subseteq RemoveElement(d.set, e).seen BY <1>2 DEF RemoveElement
<1> QED BY <1>5, <1>6 DEF SetReg, CountCnt

(* A local operation adds to what its node has. *)
LEMMA LocalLearns ==
  ASSUME IInv, NEW n \in Nodes, Local(n)
  PROVE  /\ Learns(data[n], data'[n])
         /\ \A q \in Nodes \ {n} : data'[q] = data[q]
<1>1. data[n] \in SoundStores /\ DOMAIN data = Nodes BY DEF IInv
<1>2. data[n] = [reg |-> data[n].reg, cnt |-> data[n].cnt, set |-> data[n].set,
                 keys |-> data[n].keys]
  BY <1>1, StoreParts
<1>3. CASE \E r : Change(n, "reg", [data[n] EXCEPT !.reg = r]) /\ data[n].reg.seen \subseteq r.seen
  BY <1>1, <1>2, <1>3 DEF Change, Learns, OpsOf, Kinds
<1>4. CASE \E r : Change(n, "cnt", [data[n] EXCEPT !.cnt = r]) /\ data[n].cnt.seen \subseteq r.seen
  BY <1>1, <1>2, <1>4 DEF Change, Learns, OpsOf, Kinds
<1>5. CASE \E r : Change(n, "set", [data[n] EXCEPT !.set = r]) /\ data[n].set.seen \subseteq r.seen
  BY <1>1, <1>2, <1>5 DEF Change, Learns, OpsOf, Kinds
<1>6. CASE \E time \in Times : SetRegister(n, time)
  BY <1>1, <1>3, <1>6, OperationsLearn DEF SetRegister
<1>7. CASE \E sign \in Signs : Count(n, sign)
  BY <1>1, <1>4, <1>7, OperationsLearn DEF Count
<1>8. CASE \E e \in Elements : AddToSet(n, e) \/ RemoveFromSet(n, e)
  BY <1>1, <1>5, <1>8, OperationsLearn DEF AddToSet, RemoveFromSet
<1> QED BY <1>6, <1>7, <1>8 DEF Local

(* No step takes anything from a replica. *)
LEMMA StepLearns ==
  ASSUME IInv, [Next]_vars, NEW n \in Nodes
  PROVE  Learns(data[n], data'[n])
<1>1. CASE data' = data BY <1>1 DEF Learns
<1>2. ASSUME NEW q \in Nodes, Local(q) PROVE Learns(data[n], data'[n])
  BY <1>2, LocalLearns DEF Learns
<1>3. ASSUME NEW s \in net, Deliver(s) PROVE Learns(data[n], data'[n])
  <2>1. s.to \in Nodes /\ DOMAIN data = Nodes BY DEF IInv
  <2>2. data' = [data EXCEPT ![s.to] = Merge(@, s.data)] BY <1>3 DEF Deliver
  <2>3. CASE n = s.to BY <2>1, <2>2, <2>3, MergeLearns
  <2>4. CASE n # s.to BY <2>1, <2>2, <2>4 DEF Learns
  <2> QED BY <2>3, <2>4
<1> QED BY <1>1, <1>2, <1>3 DEF Next, SendState, SendDelta, Drop, vars

(* No replica ever loses an operation that reached it, whatever it is sent. *)
THEOREM Monotone == Spec => NothingUnlearnt
<1>1. IInv /\ [Next]_vars => [\A n \in Nodes : Learns(data[n], data'[n])]_vars BY StepLearns
<1> QED BY <1>1, Invariance, PTL DEF Spec, NothingUnlearnt

(* The laws that make the order and the number of merges irrelevant. *)
THEOREM MergeLaws ==
  /\ \A a \in SoundRegs, b \in SoundRegs, c \in SoundRegs :
       /\ MergeReg(a, b) = MergeReg(b, a)
       /\ MergeReg(MergeReg(a, b), c) = MergeReg(a, MergeReg(b, c))
       /\ MergeReg(a, a) = a
  /\ \A a \in SoundCnts, b \in SoundCnts, c \in SoundCnts :
       /\ MergeCnt(a, b) = MergeCnt(b, a)
       /\ MergeCnt(MergeCnt(a, b), c) = MergeCnt(a, MergeCnt(b, c))
       /\ MergeCnt(a, a) = a
  /\ \A a \in SoundSets, b \in SoundSets, c \in SoundSets :
       /\ MergeSet(a, b) = MergeSet(b, a)
       /\ MergeSet(MergeSet(a, b), c) = MergeSet(a, MergeSet(b, c))
       /\ MergeSet(a, a) = a
<1>1. ASSUME NEW a \in SoundRegs, NEW b \in SoundRegs, a.seen = b.seen PROVE a = b
  <2>1. a = [stamp |-> a.stamp, seen |-> a.seen] /\ b = [stamp |-> b.stamp, seen |-> b.seen]
    BY DEF SoundRegs, Registers
  <2> QED BY <1>1, <2>1, SameReg
<1>2. \A a, b : MergeReg(a, b).seen = a.seen \cup b.seen BY DEF MergeReg
<1>3. \A a, b : MergeCnt(a, b).seen = a.seen \cup b.seen BY DEF MergeCnt
<1>4. ASSUME NEW a \in SoundRegs, NEW b \in SoundRegs, NEW c \in SoundRegs
      PROVE  /\ MergeReg(a, b) = MergeReg(b, a)
             /\ MergeReg(MergeReg(a, b), c) = MergeReg(a, MergeReg(b, c))
             /\ MergeReg(a, a) = a
  <2>1. /\ MergeReg(a, b) \in SoundRegs /\ MergeReg(b, a) \in SoundRegs
        /\ MergeReg(b, c) \in SoundRegs /\ MergeReg(a, a) \in SoundRegs
    BY MergeRegSound
  <2>2. MergeReg(MergeReg(a, b), c) \in SoundRegs /\ MergeReg(a, MergeReg(b, c)) \in SoundRegs
    BY <2>1, MergeRegSound
  <2>3. MergeReg(a, b) = MergeReg(b, a)
    <3>1. MergeReg(a, b).seen = MergeReg(b, a).seen BY DEF MergeReg
    <3> QED BY <1>1, <2>1, <3>1
  <2>4. MergeReg(MergeReg(a, b), c).seen = MergeReg(a, MergeReg(b, c)).seen
    <3>1. MergeReg(MergeReg(a, b), c).seen = (a.seen \cup b.seen) \cup c.seen BY DEF MergeReg
    <3>2. MergeReg(a, MergeReg(b, c)).seen = a.seen \cup (b.seen \cup c.seen) BY DEF MergeReg
    <3> QED BY <3>1, <3>2
  <2>5. MergeReg(MergeReg(a, b), c) = MergeReg(a, MergeReg(b, c)) BY <1>1, <2>2, <2>4
  <2>6. MergeReg(a, a).seen = a.seen BY <1>2
  <2> QED BY <1>1, <2>1, <2>3, <2>5, <2>6
<1>5. ASSUME NEW a \in SoundCnts, NEW b \in SoundCnts, NEW c \in SoundCnts
      PROVE  /\ MergeCnt(a, b) = MergeCnt(b, a)
             /\ MergeCnt(MergeCnt(a, b), c) = MergeCnt(a, MergeCnt(b, c))
             /\ MergeCnt(a, a) = a
  <2>1. /\ MergeCnt(a, b) \in SoundCnts /\ MergeCnt(b, a) \in SoundCnts
        /\ MergeCnt(b, c) \in SoundCnts /\ MergeCnt(a, a) \in SoundCnts
    BY MergeCntSound
  <2>2. MergeCnt(MergeCnt(a, b), c) \in SoundCnts /\ MergeCnt(a, MergeCnt(b, c)) \in SoundCnts
    BY <2>1, MergeCntSound
  <2>3. MergeCnt(a, b) = MergeCnt(b, a)
    <3>1. MergeCnt(a, b).seen = MergeCnt(b, a).seen BY DEF MergeCnt
    <3> QED BY <2>1, SameCnt, <3>1
  <2>4. MergeCnt(MergeCnt(a, b), c).seen = MergeCnt(a, MergeCnt(b, c)).seen
    <3>1. MergeCnt(MergeCnt(a, b), c).seen = (a.seen \cup b.seen) \cup c.seen BY DEF MergeCnt
    <3>2. MergeCnt(a, MergeCnt(b, c)).seen = a.seen \cup (b.seen \cup c.seen) BY DEF MergeCnt
    <3> QED BY <3>1, <3>2
  <2>5. MergeCnt(MergeCnt(a, b), c) = MergeCnt(a, MergeCnt(b, c)) BY <2>2, <2>4, SameCnt
  <2>6. MergeCnt(a, a).seen = a.seen BY <1>3
  <2> QED BY <2>1, <2>3, <2>5, <2>6, SameCnt
<1>6. ASSUME NEW a \in SoundSets, NEW b \in SoundSets, NEW c \in SoundSets
      PROVE  /\ MergeSet(a, b) = MergeSet(b, a)
             /\ MergeSet(MergeSet(a, b), c) = MergeSet(a, MergeSet(b, c))
             /\ MergeSet(a, a) = a
  <2>1. a = [tags |-> a.tags, tombs |-> a.tombs, seen |-> a.seen] BY DEF SoundSets, Sets
  <2>2. \A x, y : MergeSet(x, y) = [tags |-> x.tags \cup y.tags, tombs |-> x.tombs \cup y.tombs,
                                   seen |-> x.seen \cup y.seen]
    BY DEF MergeSet
  <2>3. MergeSet(a, b) = MergeSet(b, a) BY <2>2
  <2>4. MergeSet(MergeSet(a, b), c) = MergeSet(a, MergeSet(b, c)) BY <2>2
  <2>5. MergeSet(a, a) = a BY <2>1, <2>2
  <2> QED BY <2>3, <2>4, <2>5
<1> QED BY <1>4, <1>5, <1>6

---------------------------------------------------------------------------
(* What a replica has of another, as long as no history was too short for a *)
(* delta.                                                                   *)
AllWhole == \A s \in net : s.whole

(* A replica that got another's present version has all its operations.    *)
UpToDate ==
  \A n \in Nodes, m \in Nodes : known[n][m] = version[m] => Ops(data[m]) \subseteq Ops(data[n])

(* A store has no operations under a key that it has not. *)
Keyed(d) == \A k \in Kinds \ d.keys : OpsOf(d, k) = {}

KeyInv ==
  /\ \A n \in Nodes : Keyed(data[n])
  /\ \A s \in net : Keyed(s.data)

HasInv ==
  /\ \A n \in Nodes, m \in Nodes : had[m][n] \subseteq Ops(data[m])
  /\ \A s \in net : s.had \subseteq Ops(data[s.to])

(* A delta has operations only under its keys. *)
LEMMA SinceKeyed == \A h, v : Keyed(Since(h, v))
<1> SUFFICES ASSUME NEW h, NEW v PROVE Keyed(Since(h, v)) OBVIOUS
<1> DEFINE new(i, k) == h[i].upTo > v /\ k \in h[i].data.keys
           last(k) == {i \in DOMAIN h : /\ new(i, k)
                                        /\ \A j \in DOMAIN h : j > i => ~new(j, k)}
           from(k) == h[CHOOSE i \in last(k) : TRUE].data
<1>1. Since(h, v) =
        [reg |-> IF last("reg") # {} THEN from("reg").reg ELSE EmptyReg,
         cnt |-> IF last("cnt") # {} THEN from("cnt").cnt ELSE EmptyCnt,
         set |-> IF last("set") # {} THEN from("set").set ELSE EmptySet,
         keys |-> {k \in Kinds : last(k) # {}}]
  BY DEF Since
<1> HIDE DEF last, from
<1>2. EmptyReg.seen = {} /\ EmptyCnt.seen = {} /\ EmptySet.seen = {}
  BY DEF EmptyReg, EmptyCnt, EmptySet
<1> QED BY <1>1, <1>2 DEF Keyed, OpsOf, Kinds

(* So has a merge of stores that do. *)
LEMMA MergeKeyed ==
  ASSUME NEW b \in SoundStores, NEW d \in SoundStores, Keyed(b)
  PROVE  Keyed(Merge(b, d))
<1>1. Merge(b, d).keys = b.keys \cup d.keys BY MergeSound
<1>2. \A k \in Kinds \ d.keys : OpsOf(Merge(b, d), k) = OpsOf(b, k)
  BY DEF Merge, OpsOf, Kinds
<1> QED BY <1>1, <1>2 DEF Keyed

(* So has a store after a local operation. *)
LEMMA LocalKeyed ==
  ASSUME IInv, NEW n \in Nodes, Local(n), Keyed(data[n])
  PROVE  Keyed(data'[n])
<1>1. data[n] = [reg |-> data[n].reg, cnt |-> data[n].cnt, set |-> data[n].set,
                 keys |-> data[n].keys] /\ DOMAIN data = Nodes
  BY StoreParts DEF IInv
<1>2. CASE \E r : Change(n, "reg", [data[n] EXCEPT !.reg = r])
  BY <1>1, <1>2 DEF Change, Keyed, OpsOf, Kinds
<1>3. CASE \E r : Change(n, "cnt", [data[n] EXCEPT !.cnt = r])
  BY <1>1, <1>3 DEF Change, Keyed, OpsOf, Kinds
<1>4. CASE \E r : Change(n, "set", [data[n] EXCEPT !.set = r])
  BY <1>1, <1>4 DEF Change, Keyed, OpsOf, Kinds
<1> QED BY <1>2, <1>3, <1>4 DEF Local, SetRegister, Count, AddToSet, RemoveFromSet

(* Every step keeps it so for all stores. *)
LEMMA NextKeyed == IInv /\ KeyInv /\ [Next]_vars => KeyInv'
<1> SUFFICES ASSUME IInv, KeyInv, [Next]_vars PROVE KeyInv' OBVIOUS
<1>1. ASSUME NEW n \in Nodes, Local(n) PROVE KeyInv'
  <2>1. net' = net
    BY <1>1 DEF Local, SetRegister, Count, AddToSet, RemoveFromSet, Change
  <2> QED BY <1>1, <2>1, LocalKeyed, LocalLearns DEF KeyInv
<1>2. ASSUME NEW n \in Nodes, NEW m \in Nodes, NEW since, NEW whole, NEW d, Keyed(d),
             Put(Snapshot(n, m, since, whole, d)), UNCHANGED data
      PROVE  KeyInv'
  <2>1. Snapshot(n, m, since, whole, d).data = d BY DEF Snapshot
  <2> QED BY <1>2, <2>1 DEF Put, KeyInv
<1>3. ASSUME NEW n \in Nodes, NEW m \in Nodes, SendState(n, m) PROVE KeyInv'
  BY <1>2, <1>3 DEF SendState, KeyInv
<1>4. ASSUME NEW n \in Nodes, NEW m \in Nodes, SendDelta(n, m) PROVE KeyInv'
  BY <1>2, <1>4, SinceKeyed DEF SendDelta
<1>5. ASSUME NEW s \in net, Deliver(s) PROVE KeyInv'
  <2>1. /\ s.to \in Nodes /\ s.data \in SoundStores /\ data[s.to] \in SoundStores
        /\ DOMAIN data = Nodes
    BY DEF IInv
  <2>2. data' = [data EXCEPT ![s.to] = Merge(@, s.data)] /\ net' = net BY <1>5 DEF Deliver
  <2> QED BY <2>1, <2>2, MergeKeyed DEF KeyInv
<1>6. ASSUME NEW s \in net, Drop(s) PROVE KeyInv' BY <1>6 DEF Drop, KeyInv
<1>7. CASE UNCHANGED vars BY <1>7 DEF vars, KeyInv
<1> QED BY <1>1, <1>3, <1>4, <1>5, <1>6, <1>7 DEF Next

(* While deltas are whole, a replica has whatever its known versions, and  *)
(* the deltas on their way to it, take for granted.                        *)
LEMMA NextHas ==
  ASSUME IInv, DeltaInv, KeyInv, AllWhole, HasInv, [Next]_vars
  PROVE  HasInv'
<1>1. \A n \in Nodes : Ops(data[n]) \subseteq Ops(data'[n])
  BY StepLearns, OpsParts DEF Learns, Kinds
<1>2. \A s \in net : s.to \in Nodes /\ s.from \in Nodes BY DEF IInv
<1>3. CASE net' \subseteq net /\ had' = had BY <1>1, <1>2, <1>3 DEF HasInv
<1>4. ASSUME NEW n \in Nodes, NEW m \in Nodes, NEW since, NEW whole, NEW d,
             Put(Snapshot(n, m, since, whole, d)), UNCHANGED <<data, had>>
      PROVE  HasInv'
  <2> DEFINE s == Snapshot(n, m, since, whole, d)
  <2>1. s.to = m /\ s.had = had[m][n] BY DEF Snapshot
  <2>2. net' = net \cup {s} BY <1>4 DEF Put
  <2> HIDE DEF s
  <2> QED BY <1>4, <2>1, <2>2 DEF HasInv
<1>5. ASSUME NEW s \in net, Deliver(s) PROVE HasInv'
  <2>1. data' = [data EXCEPT ![s.to] = Merge(@, s.data)] /\ net' = net
        /\ (had' = had \/ had' = [had EXCEPT ![s.to][s.from] = s.ops])
    BY <1>5 DEF Deliver
  <2>2. data'[s.to] = Merge(data[s.to], s.data) BY <1>2, <2>1 DEF IInv
  <2>3. Ops(s.data) \subseteq Ops(data'[s.to])
    <3>1. Keyed(s.data) BY DEF KeyInv
    <3>2. \A k \in Kinds : OpsOf(s.data, k) \subseteq OpsOf(data'[s.to], k)
      BY <2>2, <3>1, MergeLearns DEF Keyed
    <3> QED BY <3>2, OpsParts DEF Kinds
  <2>4. s.ops \subseteq s.had \cup Ops(s.data) BY DEF AllWhole, DeltaInv, DeltaCovers
  <2>5. s.ops \subseteq Ops(data'[s.to]) BY <1>1, <1>2, <2>3, <2>4 DEF HasInv
  <2>6. had = [m \in Nodes |-> [n \in Nodes |-> had[m][n]]] BY DEF DeltaInv
  <2>7. \A n \in Nodes, m \in Nodes :
          had'[m][n] = had[m][n] \/ (m = s.to /\ had'[m][n] = s.ops)
    <3>1. CASE had' = had BY <3>1
    <3>2. CASE had' = [had EXCEPT ![s.to][s.from] = s.ops]
      <4> DEFINE row == [had[s.to] EXCEPT ![s.from] = s.ops]
      <4>1. had' = [had EXCEPT ![s.to] = row] BY <3>2
      <4>2. \A n \in Nodes : row[n] = had[s.to][n] \/ row[n] = s.ops BY <1>2, <2>6
      <4> HIDE DEF row
      <4> QED BY <1>2, <2>6, <4>1, <4>2
    <3> QED BY <2>1, <3>1, <3>2
  <2>8. \A n \in Nodes, m \in Nodes : had'[m][n] \subseteq Ops(data'[m])
    BY <1>1, <2>5, <2>7 DEF HasInv
  <2> QED BY <1>1, <1>2, <2>1, <2>8 DEF HasInv
<1> QED BY <1>3, <1>4, <1>5 DEF Next, Local, SetRegister, Count, AddToSet, RemoveFromSet, Change,
           SendState, SendDelta, Drop, vars

(* Versions can be trusted: as long as every snapshot is whole, a replica   *)
(* whose known version of another is that one's present version has every   *)
(* operation the other has, whatever was lost, repeated or reordered.       *)
THEOREM Trusted == Spec /\ []AllWhole => []UpToDate
<1>1. ASSUME Init PROVE DeltaInv /\ KeyInv /\ HasInv
  <2>1. \A k \in Kinds : OpsOf(Empty, k) = {}
    BY DEF Empty, EmptyReg, EmptyCnt, EmptySet, OpsOf
  <2> QED BY <1>1, <2>1, InitDelta DEF Init, KeyInv, Keyed, HasInv
<1>2. ASSUME IInv, DeltaInv, HasInv PROVE UpToDate
  <2> SUFFICES ASSUME NEW n \in Nodes, NEW m \in Nodes, known[n][m] = version[m]
               PROVE  Ops(data[m]) \subseteq Ops(data[n])
    BY DEF UpToDate
  <2>1. version[m] \in Nat /\ history[m] \in Seq(SoundEntries) BY <1>2 DEF IInv
  <2>2. \A i \in DOMAIN history[m] : /\ history[m][i].upTo \in Nat
                                     /\ history[m][i].since \in Nat
    <3>1. \A i \in DOMAIN history[m] : history[m][i] \in SoundEntries BY <2>1
    <3> QED BY <3>1 DEF SoundEntries
  <2>3. Knows(m, version[m], had[n][m]) /\ Chained(history[m], version[m])
    BY <1>2 DEF DeltaInv, NodeInv
  <2>4. ASSUME NEW k \in Kinds PROVE ~Tells(history[m], version[m], k)
    <3>1. history[m] # <<>> => 1 \in DOMAIN history[m] BY <2>1
    <3> QED BY <2>1, <2>2, <2>3, <3>1 DEF Tells, Chained
  <2>5. \A k \in Kinds : OpsOf(data[m], k) \subseteq had[n][m]
    BY <2>1, <2>3, <2>4 DEF Knows
  <2>6. Ops(data[m]) \subseteq had[n][m] BY <2>5, OpsParts DEF Kinds
  <2> QED BY <1>2, <2>6 DEF HasInv
<1> QED BY <1>1, <1>2, NextDelta, NextKeyed, NextHas, Invariance, PTL DEF Spec
=============================================================================
