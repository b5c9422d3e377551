-------------------------- MODULE TaskQueuesProofs --------------------------
(* What the queue operations return: they keep the queues well formed, and *)
(* each adds or takes the entries it should.                               *)
EXTENDS TaskQueues, FiniteSetTheorems, FunctionTheorems, SequenceTheorems,
        WellFoundedInduction, TLAPS

InOrder(s) == \A i, j \in DOMAIN s : i < j => s[i] <= s[j]

OrderedQueues == {q \in Queues : \A p \in Priorities : InOrder(q.prio[p])}

(* The size of an initial interval. *)
LEMMA IntervalCardinality ==
  ASSUME NEW l \in Nat
  PROVE  IsFiniteSet(1 .. l) /\ Cardinality(1 .. l) = l
<1>1. /\ IsFiniteSet(1 .. l)
      /\ Cardinality(1 .. l) = IF 1 > l THEN 0 ELSE l - 1 + 1
  BY FS_Interval
<1> QED  BY <1>1

(* Insertion puts a task into a queue of tasks.  The number of older tasks *)
(* is at most the length, so the new one has a place; in an ordered queue  *)
(* the older tasks are the first ones, so it is the right place.           *)
LEMMA BinaryInsertType ==
  ASSUME NEW q \in Seq(Tasks), NEW t \in Tasks
  PROVE  /\ BinaryInsert(q, t) \in Seq(Tasks)
         /\ InOrder(q) => InOrder(BinaryInsert(q, t))
<1> DEFINE older == {i \in DOMAIN q : q[i] <= t}
           n == Cardinality(older)
<1>1. /\ Len(q) \in Nat
      /\ \A i \in 1 .. Len(q) : q[i] \in Tasks /\ q[i] \in Nat
      /\ t \in Nat
      /\ older \subseteq 1 .. Len(q)
      /\ \A i \in 1 .. Len(q) : i \in older <=> q[i] <= t
  <2>1. Tasks \subseteq Nat
    BY TaskAssumption
  <2>2. Len(q) \in Nat /\ DOMAIN q = 1 .. Len(q)
    OBVIOUS
  <2>3. \A i \in 1 .. Len(q) : q[i] \in Tasks
    OBVIOUS
  <2> QED  BY <2>1, <2>2, <2>3
<1>2. InOrder(q) => \A i, j \in 1 .. Len(q) : i < j => q[i] <= q[j]
  BY DEF InOrder
<1> HIDE DEF older
<1>3. IsFiniteSet(older) /\ n \in Nat /\ n <= Len(q)
  <2>1. IsFiniteSet(1 .. Len(q)) /\ Cardinality(1 .. Len(q)) = Len(q)
    BY <1>1, IntervalCardinality
  <2> QED  BY <1>1, <2>1, FS_Subset, FS_CardinalityType
<1>4. ASSUME InOrder(q), NEW i \in 1 .. Len(q)
      PROVE  q[i] <= t <=> i <= n
  <2>1. CASE q[i] <= t
    <3>1. 1 .. i \subseteq older
      BY <1>1, <1>2, <1>4, <2>1
    <3>2. Cardinality(1 .. i) = i
      BY IntervalCardinality
    <3>3. Cardinality(1 .. i) <= n
      BY <1>3, <3>1, FS_Subset
    <3> QED  BY <2>1, <3>2, <3>3
  <2>2. CASE ~(q[i] <= t)
    <3>1. older \subseteq 1 .. i - 1
      BY <1>1, <1>2, <1>4, <2>2
    <3>2. i - 1 \in Nat
      OBVIOUS
    <3>3. IsFiniteSet(1 .. i - 1) /\ Cardinality(1 .. i - 1) = i - 1
      BY <3>2, IntervalCardinality
    <3>4. n <= i - 1
      BY <3>1, <3>3, FS_Subset
    <3> QED  BY <1>3, <2>2, <3>4
  <2> QED  BY <2>1, <2>2
<1> HIDE DEF n
<1> DEFINE at(i) == IF i <= n THEN q[i] ELSE IF i = n + 1 THEN t ELSE q[i - 1]
<1>5. BinaryInsert(q, t) = [i \in 1 .. Len(q) + 1 |-> at(i)]
  BY DEF BinaryInsert, older, n
<1>6. \A i \in 1 .. Len(q) + 1 : at(i) \in Tasks
  BY <1>1, <1>3
<1>7. ASSUME InOrder(q), NEW i \in 1 .. Len(q) + 1, NEW j \in 1 .. Len(q) + 1,
             i < j
      PROVE  at(i) <= at(j)
  BY <1>1, <1>2, <1>3, <1>4, <1>7
<1>8. DOMAIN BinaryInsert(q, t) = 1 .. Len(q) + 1
  BY <1>5
<1>9. InOrder(q) => InOrder(BinaryInsert(q, t))
  BY <1>5, <1>7, <1>8 DEF InOrder
<1> QED  BY <1>1, <1>5, <1>6, <1>9

(* splice leaves a queue of tasks, in the order it had. *)
LEMMA SpliceType ==
  ASSUME NEW q \in Seq(Tasks), NEW t
  PROVE  /\ Splice(q, t) \in Seq(Tasks)
         /\ InOrder(q) => InOrder(Splice(q, t))
<1>1. CASE \E i \in DOMAIN q : q[i] = t
  <2> DEFINE at(i) == IF \E j \in 1 .. i : q[j] = t THEN q[i + 1] ELSE q[i]
  <2>1. Len(q) - 1 \in Nat
    BY <1>1
  <2>2. Splice(q, t) = [i \in 1 .. Len(q) - 1 |-> at(i)]
    BY <1>1 DEF Splice
  <2>3. \A i \in 1 .. Len(q) - 1 : at(i) \in Tasks
    OBVIOUS
  <2>4. ASSUME InOrder(q), NEW i \in 1 .. Len(q) - 1, NEW j \in 1 .. Len(q) - 1,
               i < j
        PROVE  at(i) <= at(j)
    <3>1. \A k, l \in 1 .. Len(q) : k < l => q[k] <= q[l]
      BY <2>4 DEF InOrder
    <3>2. /\ i \in 1 .. Len(q) /\ i + 1 \in 1 .. Len(q)
          /\ j \in 1 .. Len(q) /\ j + 1 \in 1 .. Len(q)
      OBVIOUS
    <3>3. (\E k \in 1 .. i : q[k] = t) => \E k \in 1 .. j : q[k] = t
      BY <2>4
    <3>4. q[i] <= q[j] /\ q[i] <= q[j + 1] /\ q[i + 1] <= q[j + 1]
      BY <2>4, <3>1, <3>2
    <3> QED  BY <3>3, <3>4
  <2>5. InOrder(q) => InOrder(Splice(q, t))
    BY <2>2, <2>4 DEF InOrder
  <2> QED  BY <2>1, <2>2, <2>3, <2>5
<1>2. CASE ~ \E i \in DOMAIN q : q[i] = t
  BY <1>2 DEF Splice
<1> QED  BY <1>1, <1>2

(* The initial queues, and the three operations on them. *)
LEMMA EmptyType == EmptyQueues \in OrderedQueues
<1>1. <<>> \in Seq(Tasks) /\ InOrder(<<>>)
  BY DEF InOrder
<1> QED  BY <1>1 DEF EmptyQueues, OrderedQueues, Queues

(* An enqueued task keeps every queue typed and in order. *)
LEMMA EnqueueType ==
  ASSUME NEW q \in OrderedQueues, NEW t \in Tasks
  PROVE  EnqueueTask(q, t) \in OrderedQueues
<1>1. \A p \in Priorities : /\ BinaryInsert(q.prio[p], t) \in Seq(Tasks)
                            /\ InOrder(BinaryInsert(q.prio[p], t))
  BY BinaryInsertType DEF Queues, OrderedQueues
<1>2. \A d \in Domains : Append(q.domain[d], t) \in Seq(Tasks)
  BY AppendProperties DEF Queues, OrderedQueues
<1>3. \A d \in Domains : q.domain[d] \in Seq(Tasks)
  BY DEF Queues, OrderedQueues
<1>4. \A p \in Priorities : q.prio[p] \in Seq(Tasks) /\ InOrder(q.prio[p])
  BY DEF Queues, OrderedQueues
<1> QED  BY <1>1, <1>2, <1>3, <1>4 DEF EnqueueTask, Queues, OrderedQueues

(* So does the removal of a task. *)
LEMMA RemoveType ==
  ASSUME NEW q \in OrderedQueues, NEW t
  PROVE  RemoveFromQueues(q, t) \in OrderedQueues
<1>1. \A p \in Priorities : /\ Splice(q.prio[p], t) \in Seq(Tasks)
                            /\ InOrder(Splice(q.prio[p], t))
                            /\ q.prio[p] \in Seq(Tasks)
                            /\ InOrder(q.prio[p])
  BY SpliceType DEF Queues, OrderedQueues
<1>2. \A d \in Domains : /\ Splice(q.domain[d], t) \in Seq(Tasks)
                         /\ q.domain[d] \in Seq(Tasks)
  BY SpliceType DEF Queues, OrderedQueues
<1> QED  BY <1>1, <1>2 DEF RemoveFromQueues, Queues, OrderedQueues

(* The shift of a nonempty queue takes a task. *)
LEMMA ShiftType ==
  ASSUME NEW q \in OrderedQueues, NEW p \in Priorities, q.prio[p] # <<>>
  PROVE  Head(q.prio[p]) \in Tasks /\ Shift(q, p) \in OrderedQueues
<1> DEFINE s == q.prio[p]
<1>1. s \in Seq(Tasks) /\ s # <<>> /\ InOrder(s)
  BY DEF Queues, OrderedQueues
<1> HIDE DEF s
<1>2. Head(s) \in Tasks /\ Tail(s) \in Seq(Tasks) /\ Len(Tail(s)) = Len(s) - 1
  BY <1>1, HeadTailProperties
<1>3. \A i \in 1 .. Len(s) - 1 : Tail(s)[i] = s[i + 1]
  BY <1>1
<1>4. InOrder(Tail(s))
  BY <1>1, <1>2, <1>3 DEF InOrder
<1> DEFINE r == [prio   |-> [k \in Priorities |->
                               IF k = p THEN Tail(q.prio[k]) ELSE q.prio[k]],
                 domain |-> q.domain]
<1>5. r \in OrderedQueues
  BY <1>2, <1>4 DEF Queues, OrderedQueues, s
<1>6. RemoveFromQueues(r, Head(q.prio[p])) \in OrderedQueues
  BY <1>5, RemoveType
<1> QED  BY <1>2, <1>6 DEF Shift, s

---------------------------------------------------------------------------
(* Where t is queued. *)
Places(q, t) == {i \in DOMAIN q : q[i] = t}

(* Copies is the size of that set, a number. *)
LEMMA PlacesFinite ==
  ASSUME NEW q \in Seq(Tasks), NEW t
  PROVE  /\ IsFiniteSet(Places(q, t)) /\ Copies(q, t) = Cardinality(Places(q, t))
         /\ Copies(q, t) \in Nat
         /\ Copies(q, t) = 0 <=> \A i \in DOMAIN q : q[i] # t
<1>1. Len(q) \in Nat /\ DOMAIN q = 1 .. Len(q)
  OBVIOUS
<1>2. IsFiniteSet(1 .. Len(q)) /\ Places(q, t) \subseteq 1 .. Len(q)
  BY <1>1, IntervalCardinality DEF Places
<1>3. IsFiniteSet(Places(q, t)) /\ Cardinality(Places(q, t)) \in Nat
  BY <1>2, FS_Subset, FS_CardinalityType
<1>4. Cardinality(Places(q, t)) = 0 <=> Places(q, t) = {}
  BY <1>3, FS_EmptySet
<1>5. Copies(q, t) = Cardinality(Places(q, t))
  BY DEF Copies, Places
<1> QED  BY <1>3, <1>4, <1>5 DEF Places

(* Sets that a map which is one to one and onto relates have one size. *)
LEMMA SameSize ==
  ASSUME NEW S, IsFiniteSet(S), NEW T, NEW f \in [S -> T],
         \A a, b \in S : f[a] = f[b] => a = b, \A y \in T : \E x \in S : f[x] = y
  PROVE  Cardinality(T) = Cardinality(S)
<1>1. f \in Bijection(S, T)
  BY DEF Bijection, Injection, Surjection, IsInjective
<1>2. ExistsBijection(S, T)
  BY <1>1 DEF ExistsBijection
<1> QED  BY <1>2, FS_Bijection

(* r is q with one more entry, at k: those from there on have moved by one. *)
Widens(q, r, k) ==
  /\ Len(r) = Len(q) + 1 /\ k \in 1 .. Len(q) + 1
  /\ \A i \in 1 .. Len(q) : r[IF i < k THEN i ELSE i + 1] = q[i]

(* Then r has one copy more of its new entry, and as many of all else. *)
LEMMA Widened ==
  ASSUME NEW q \in Seq(Tasks), NEW r \in Seq(Tasks), NEW k, Widens(q, r, k), NEW t
  PROVE  Copies(r, t) = Copies(q, t) + IF r[k] = t THEN 1 ELSE 0
<1> DEFINE S == Places(q, t)
           T == Places(r, t) \ {k}
           f == [i \in S |-> IF i < k THEN i ELSE i + 1]
<1>1. /\ Len(q) \in Nat /\ DOMAIN q = 1 .. Len(q) /\ DOMAIN r = 1 .. Len(q) + 1
      /\ k \in 1 .. Len(q) + 1
  BY DEF Widens
<1>2. \A i \in S : i \in 1 .. Len(q) /\ q[i] = t
  BY <1>1 DEF Places
<1>3. \A i : i \in T <=> i \in 1 .. Len(q) + 1 /\ r[i] = t /\ i # k
  BY <1>1 DEF Places
<1>4. f \in [S -> T]
  BY <1>1, <1>2, <1>3 DEF Widens
<1>5. \A a, b \in S : f[a] = f[b] => a = b
  BY <1>1, <1>2
<1>6. ASSUME NEW y \in T PROVE \E x \in S : f[x] = y
  <2> DEFINE x == IF y < k THEN y ELSE y - 1
  <2>1. x \in 1 .. Len(q) /\ (IF x < k THEN x ELSE x + 1) = y
    BY <1>1, <1>3
  <2>2. q[x] = t
    BY <1>3, <2>1 DEF Widens
  <2>3. x \in S
    BY <1>1, <2>1, <2>2 DEF Places
  <2> QED  BY <2>1, <2>3
<1>7. IsFiniteSet(S) /\ IsFiniteSet(Places(r, t)) /\ Cardinality(S) \in Nat
      /\ Cardinality(S) = Copies(q, t) /\ Cardinality(Places(r, t)) = Copies(r, t)
      /\ Copies(r, t) \in Nat
  BY PlacesFinite
<1> HIDE DEF f, S, T
<1>8. Cardinality(T) = Cardinality(S)
  BY <1>4, <1>5, <1>6, <1>7, SameSize
<1>9. Cardinality(T) = IF k \in Places(r, t) THEN Copies(r, t) - 1 ELSE Copies(r, t)
  BY <1>7, FS_RemoveElement DEF T
<1>10. k \in Places(r, t) <=> r[k] = t
  BY <1>1 DEF Places
<1> QED  BY <1>7, <1>8, <1>9, <1>10

(* An insertion adds one copy of its task. *)
LEMMA CopiesInserted ==
  ASSUME NEW q \in Seq(Tasks), NEW t \in Tasks, NEW u
  PROVE  Copies(BinaryInsert(q, t), u) = Copies(q, u) + IF u = t THEN 1 ELSE 0
<1> DEFINE older == {i \in DOMAIN q : q[i] <= t}
           n == Cardinality(older)
           r == BinaryInsert(q, t)
<1>1. Len(q) \in Nat /\ DOMAIN q = 1 .. Len(q)
  OBVIOUS
<1>2. /\ IsFiniteSet(1 .. Len(q)) /\ Cardinality(1 .. Len(q)) = Len(q)
      /\ Len(q) \in Nat /\ older \subseteq 1 .. Len(q)
  BY <1>1, IntervalCardinality
<1> HIDE DEF older
<1>3. IsFiniteSet(older) /\ n \in Nat /\ n <= Len(q)
  BY <1>2, FS_Subset, FS_CardinalityType
<1>4. r = [i \in 1 .. Len(q) + 1 |->
             IF i <= n THEN q[i] ELSE IF i = n + 1 THEN t ELSE q[i - 1]]
  BY DEF BinaryInsert, older
<1>5. r \in Seq(Tasks)
  BY BinaryInsertType
<1> HIDE DEF n, r
<1>6. Len(r) = Len(q) + 1 /\ n + 1 \in 1 .. Len(q) + 1
  BY <1>1, <1>3, <1>4, <1>5
<1>7. r[n + 1] = t
  BY <1>1, <1>3, <1>4, <1>6
<1>8. \A i \in 1 .. Len(q) : r[IF i < n + 1 THEN i ELSE i + 1] = q[i]
  BY <1>1, <1>3, <1>4
<1>9. Copies(r, u) = Copies(q, u) + IF r[n + 1] = u THEN 1 ELSE 0
  <2>1. Widens(q, r, n + 1)
    BY <1>6, <1>8 DEF Widens
  <2> QED  BY <1>5, <2>1, Widened
<1> QED  BY <1>7, <1>9 DEF r

(* So does an entry at the end. *)
LEMMA CopiesAppended ==
  ASSUME NEW q \in Seq(Tasks), NEW t \in Tasks, NEW u
  PROVE  Copies(Append(q, t), u) = Copies(q, u) + IF u = t THEN 1 ELSE 0
<1> DEFINE k == Len(q) + 1
           r == Append(q, t)
<1>1. /\ Len(q) \in Nat /\ k \in 1 .. Len(q) + 1
      /\ r \in Seq(Tasks) /\ Len(r) = Len(q) + 1 /\ r[k] = t
      /\ \A i \in 1 .. Len(q) : i < k /\ r[i] = q[i]
  BY AppendProperties
<1> HIDE DEF k, r
<1>2. Widens(q, r, k)
  BY <1>1 DEF Widens
<1>3. Copies(r, u) = Copies(q, u) + IF r[k] = u THEN 1 ELSE 0
  BY <1>1, <1>2, Widened
<1> QED  BY <1>1, <1>3 DEF r

(* The tail has lost the head. *)
LEMMA CopiesTail ==
  ASSUME NEW q \in Seq(Tasks), q # <<>>, NEW u
  PROVE  Copies(q, u) = Copies(Tail(q), u) + IF Head(q) = u THEN 1 ELSE 0
<1> DEFINE s == Tail(q)
<1>1. /\ s \in Seq(Tasks) /\ Len(q) = Len(s) + 1
      /\ Len(s) \in Nat /\ 1 \in 1 .. Len(s) + 1
  BY HeadTailProperties
<1>2. \A i \in 1 .. Len(s) : q[i + 1] = s[i] /\ ~(i < 1)
  BY <1>1
<1> HIDE DEF s
<1>3. Widens(s, q, 1)
  BY <1>1, <1>2 DEF Widens
<1>4. Copies(q, u) = Copies(s, u) + IF q[1] = u THEN 1 ELSE 0
  BY <1>1, <1>3, Widened
<1> QED  BY <1>4 DEF s

(* A set of numbers has a least one. *)
LEMMA LeastNumber ==
  ASSUME NEW S, S \subseteq Nat, S # {}
  PROVE  \E k \in S : \A j \in S : k <= j
<1> DEFINE R == OpToRel(<, Nat)
<1>1. PICK k \in S : \A j \in S : ~(<<j, k>> \in R)
  <2>1. IsWellFoundedOn(R, Nat)
    BY NatLessThanWellFounded
  <2> HIDE DEF R
  <2> QED  BY <2>1, WFMin
<1>2. \A j \in S : ~(j < k)
  BY <1>1 DEF OpToRel
<1> QED  BY <1>2

(* splice takes one copy of its task, if there is one. *)
LEMMA CopiesSpliced ==
  ASSUME NEW q \in Seq(Tasks), NEW t, NEW u
  PROVE  Copies(Splice(q, t), u) =
           IF u = t /\ Copies(q, t) > 0 THEN Copies(q, u) - 1 ELSE Copies(q, u)
<1>0. Len(q) \in Nat /\ DOMAIN q = 1 .. Len(q)
  OBVIOUS
<1>1. CASE \E i \in DOMAIN q : q[i] = t
  <2>1. PICK k \in Places(q, t) : \A j \in Places(q, t) : k <= j
    <3>1. Places(q, t) \subseteq Nat /\ Places(q, t) # {}
      BY <1>0, <1>1 DEF Places
    <3> QED  BY <3>1, LeastNumber
  <2>2. k \in 1 .. Len(q) /\ q[k] = t /\ \A j \in 1 .. Len(q) : q[j] = t => k <= j
    BY <1>0, <2>1 DEF Places
  <2>3. \A i \in 1 .. Len(q) - 1 : (\E j \in 1 .. i : q[j] = t) <=> k <= i
    BY <1>0, <2>2
  <2> DEFINE s == Splice(q, t)
  <2>4. s = [i \in 1 .. Len(q) - 1 |->
               IF \E j \in 1 .. i : q[j] = t THEN q[i + 1] ELSE q[i]]
    BY <1>1 DEF Splice
  <2>5. s \in Seq(Tasks)
    BY SpliceType
  <2> HIDE DEF s
  <2>6. Len(q) = Len(s) + 1 /\ Len(s) \in Nat /\ Len(s) = Len(q) - 1
    BY <1>0, <2>2, <2>4, <2>5
  <2>7. Widens(s, q, k)
    <3>1. \A i \in 1 .. Len(s) : s[i] = IF k <= i THEN q[i + 1] ELSE q[i]
      BY <2>3, <2>4, <2>6
    <3>2. \A i \in 1 .. Len(s) : i < k <=> ~(k <= i)
      BY <1>0, <2>2
    <3>3. \A i \in 1 .. Len(s) : q[IF i < k THEN i ELSE i + 1] = s[i]
      BY <3>1, <3>2
    <3> QED  BY <2>2, <2>6, <3>3 DEF Widens
  <2>8. Copies(q, u) = Copies(s, u) + IF q[k] = u THEN 1 ELSE 0
    BY <2>5, <2>7, Widened
  <2>9. Copies(q, t) # 0 /\ Copies(q, t) \in Nat /\ Copies(s, u) \in Nat
    BY <1>1, <2>5, PlacesFinite
  <2> QED  BY <2>2, <2>8, <2>9 DEF s
<1>2. CASE ~ \E i \in DOMAIN q : q[i] = t
  <2>1. Copies(q, t) = 0
    BY <1>2, PlacesFinite
  <2> QED  BY <1>2, <2>1 DEF Splice
<1> QED  BY <1>1, <1>2

(* What each operation does to the number of entries of a task: r is q after *)
(* t was enqueued, removed, or shifted out of priority p.                    *)
Less(n) == IF n > 0 THEN n - 1 ELSE n

Added(q, r, t) == \A u \in Tasks :
  /\ \A p \in Priorities : Copies(r.prio[p], u) =
       Copies(q.prio[p], u) + IF p = PriorityOf[t] /\ u = t THEN 1 ELSE 0
  /\ \A d \in Domains : Copies(r.domain[d], u) =
       Copies(q.domain[d], u) + IF IsTarget(t, d) /\ u = t THEN 1 ELSE 0

Removed(q, r, t) == \A u \in Tasks :
  /\ \A p \in Priorities : Copies(r.prio[p], u) =
       IF p = PriorityOf[t] /\ u = t THEN Less(Copies(q.prio[p], u))
       ELSE Copies(q.prio[p], u)
  /\ \A d \in Domains : Copies(r.domain[d], u) =
       IF IsTarget(t, d) /\ u = t THEN Less(Copies(q.domain[d], u))
       ELSE Copies(q.domain[d], u)

(* The shift takes one entry of the head, and then one more if there is one. *)
Shifted(q, r, p, t) ==
  /\ Copies(q.prio[p], t) > 0
  /\ \A u \in Tasks :
       /\ \A k \in Priorities : Copies(r.prio[k], u) =
            LET n == IF k = p /\ u = t THEN Copies(q.prio[k], u) - 1
                     ELSE Copies(q.prio[k], u)
            IN  IF k = PriorityOf[t] /\ u = t THEN Less(n) ELSE n
       /\ \A d \in Domains : Copies(r.domain[d], u) =
            IF IsTarget(t, d) /\ u = t THEN Less(Copies(q.domain[d], u))
            ELSE Copies(q.domain[d], u)

(* enqueueTask. *)
LEMMA EnqueueAdds ==
  ASSUME NEW q \in Queues, NEW t \in Tasks
  PROVE  Added(q, EnqueueTask(q, t), t)
<1> DEFINE r == EnqueueTask(q, t)
<1>1. ASSUME NEW u \in Tasks, NEW p \in Priorities
      PROVE  Copies(r.prio[p], u) =
               Copies(q.prio[p], u) + IF p = PriorityOf[t] /\ u = t THEN 1 ELSE 0
  <2>1. q.prio[p] \in Seq(Tasks)
    BY DEF Queues
  <2>2. r.prio[p] =
          IF p = PriorityOf[t] THEN BinaryInsert(q.prio[p], t) ELSE q.prio[p]
    BY DEF EnqueueTask
  <2>3. Copies(q.prio[p], u) \in Nat
    BY <2>1, PlacesFinite
  <2>4. Copies(BinaryInsert(q.prio[p], t), u) = Copies(q.prio[p], u) + IF u = t THEN 1 ELSE 0
    BY <2>1, CopiesInserted
  <2> QED  BY <2>2, <2>3, <2>4
<1>2. ASSUME NEW u \in Tasks, NEW d \in Domains
      PROVE  Copies(r.domain[d], u) =
               Copies(q.domain[d], u) + IF IsTarget(t, d) /\ u = t THEN 1 ELSE 0
  <2>1. q.domain[d] \in Seq(Tasks)
    BY DEF Queues
  <2>2. r.domain[d] = IF IsTarget(t, d) THEN Append(q.domain[d], t) ELSE q.domain[d]
    BY DEF EnqueueTask
  <2>3. Copies(q.domain[d], u) \in Nat
    BY <2>1, PlacesFinite
  <2>4. Copies(Append(q.domain[d], t), u) = Copies(q.domain[d], u) + IF u = t THEN 1 ELSE 0
    BY <2>1, CopiesAppended
  <2> QED  BY <2>2, <2>3, <2>4
<1> HIDE DEF r
<1> QED  BY <1>1, <1>2 DEF Added, r

(* removeFromQueues. *)
LEMMA RemoveRemoves ==
  ASSUME NEW q \in Queues, NEW t
  PROVE  Removed(q, RemoveFromQueues(q, t), t)
<1> DEFINE r == RemoveFromQueues(q, t)
<1>1. ASSUME NEW u \in Tasks, NEW p \in Priorities
      PROVE  Copies(r.prio[p], u) =
               IF p = PriorityOf[t] /\ u = t THEN Less(Copies(q.prio[p], u))
               ELSE Copies(q.prio[p], u)
  <2>1. q.prio[p] \in Seq(Tasks)
    BY DEF Queues
  <2>2. r.prio[p] =
          IF p = PriorityOf[t] THEN Splice(q.prio[p], t) ELSE q.prio[p]
    BY DEF RemoveFromQueues
  <2>3. Copies(Splice(q.prio[p], t), u) =
          IF u = t /\ Copies(q.prio[p], t) > 0 THEN Copies(q.prio[p], u) - 1
          ELSE Copies(q.prio[p], u)
    BY <2>1, CopiesSpliced
  <2> QED  BY <2>2, <2>3 DEF Less
<1>2. ASSUME NEW u \in Tasks, NEW d \in Domains
      PROVE  Copies(r.domain[d], u) =
               IF IsTarget(t, d) /\ u = t THEN Less(Copies(q.domain[d], u))
               ELSE Copies(q.domain[d], u)
  <2>1. q.domain[d] \in Seq(Tasks)
    BY DEF Queues
  <2>2. r.domain[d] =
          IF IsTarget(t, d) THEN Splice(q.domain[d], t) ELSE q.domain[d]
    BY DEF RemoveFromQueues
  <2>3. Copies(Splice(q.domain[d], t), u) =
          IF u = t /\ Copies(q.domain[d], t) > 0 THEN Copies(q.domain[d], u) - 1
          ELSE Copies(q.domain[d], u)
    BY <2>1, CopiesSpliced
  <2> QED  BY <2>2, <2>3 DEF Less
<1> HIDE DEF r
<1> QED  BY <1>1, <1>2 DEF Removed, r

(* queue.shift() and the removeFromQueues after it. *)
LEMMA ShiftShifts ==
  ASSUME NEW q \in Queues, NEW p \in Priorities, q.prio[p] # <<>>
  PROVE  Shifted(q, Shift(q, p), p, Head(q.prio[p]))
<1> DEFINE t == Head(q.prio[p])
           s == [prio   |-> [k \in Priorities |->
                               IF k = p THEN Tail(q.prio[k]) ELSE q.prio[k]],
                 domain |-> q.domain]
           r == Shift(q, p)
<1>1. \A k \in Priorities : q.prio[k] \in Seq(Tasks)
  BY DEF Queues
<1>2. Tail(q.prio[p]) \in Seq(Tasks)
  BY <1>1, HeadTailProperties
<1>3. s \in Queues
  BY <1>1, <1>2 DEF Queues
<1>4. \A v : /\ Copies(q.prio[p], v) = Copies(Tail(q.prio[p]), v) + IF t = v THEN 1 ELSE 0
             /\ Copies(Tail(q.prio[p]), v) \in Nat
  BY <1>1, <1>2, CopiesTail, PlacesFinite
<1>5. r = RemoveFromQueues(s, t)
  BY DEF Shift
<1>6. /\ \A k \in Priorities : s.prio[k] = IF k = p THEN Tail(q.prio[k]) ELSE q.prio[k]
      /\ s.domain = q.domain
  OBVIOUS
<1> HIDE DEF s, t, r
<1>7. Removed(s, r, t)
  BY <1>3, <1>5, RemoveRemoves
<1>8. \A u \in Tasks, k \in Priorities : Copies(s.prio[k], u) =
        IF k = p /\ u = t THEN Copies(q.prio[k], u) - 1 ELSE Copies(q.prio[k], u)
  BY <1>4, <1>6
<1>9. Copies(q.prio[p], t) > 0
  BY <1>4
<1>10. Shifted(q, r, p, t)
  BY <1>6, <1>7, <1>8, <1>9 DEF Removed, Shifted
<1> QED  BY <1>10 DEF r, t
=============================================================================
