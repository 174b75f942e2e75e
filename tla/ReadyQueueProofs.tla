--------------------------- MODULE ReadyQueueProofs ---------------------------
(***************************************************************************)
(* Proofs about the ready queue, for all tasks, priorities, processes and  *)
(* limits, with one queue in Redis or one in the memory of each process.   *)
(*                                                                         *)
(* The argument: a ready task is in one place (OnePlace), so nobody        *)
(* enqueues it again behind the back of a queue, and its score there is    *)
(* the one of its last Enqueue (ScoresOK).  PopTopN takes no task while    *)
(* one of a lower score stays (NothingBefore).  All waiting tasks age at   *)
(* one rate, so what a stale score can hide is the time since it was       *)
(* computed, and the boost it had (ScoresCompare).                         *)
(* The number of tasks before a task grows along the order (AheadGrows),   *)
(* so those with fewer than PopLimit before them are PopLimit tasks, or    *)
(* all there are (FirstAtMost, FirstAtLeast).                              *)
(***************************************************************************)
EXTENDS ReadyQueue, TLAPS, FiniteSetTheorems, WellFoundedInduction

\* agingFactor is not negative.
LEMMA AgingMonotone ==
  ASSUME NEW k \in Nat, NEW x \in Int, NEW y \in Int, x <= y
  PROVE  k * x <= k * y
<1>1. PICK d \in Nat : y = x + d
  BY y - x \in Nat
<1>2. k * y = k * x + k * d /\ k * d \in Nat
  BY <1>1
<1> QED BY <1>2

\* The waiting time is the time before a stamp and the time since.
LEMMA AgingAdds ==
  ASSUME NEW k \in Nat, NEW a \in Int, NEW b \in Int, NEW c \in Int
  PROVE  /\ k * (c - a) = k * (c - b) + k * (b - a)
         /\ k * (c - a) \in Int
BY (c - a) = (c - b) + (b - a)

LEMMA PriorityType ==
  ASSUME TypeOK, NEW t \in Task, NEW at \in Int
  PROVE  Priority(t, at) \in Int
<1>1. created[t] \in Int /\ Base[t] \in Int /\ Aging \in Nat
  BY QueueConstants DEF TypeOK
<1>2. Aging * (at - created[t]) \in Int
  BY <1>1, AgingAdds
<1> QED BY <1>1, <1>2 DEF Priority

\* A non-empty set of numbers has a least one.
LEMMA LeastNumber ==
  ASSUME NEW S \in SUBSET Nat, S # {}
  PROVE  \E x \in S : \A y \in S : x <= y
<1> DEFINE Less == {ss \in Nat \X Nat : ss[1] < ss[2]}
<1>1. IsWellFoundedOn(Less, Nat)
  BY NatLessThanWellFounded DEF OpToRel
<1>2. PICK x \in S : \A y \in S : <<y, x>> \notin Less
  <2> HIDE DEF Less
  <2> QED BY <1>1, WFMin
<1>3. \A y \in S : ~ (y < x)
  BY <1>2
<1> QED BY <1>2, <1>3

-----------------------------------------------------------------------------
(* What PopTopN takes                                                       *)

\* What a queue holds: finitely many ids, with a score each.
IsQueue(q) ==
    IsFiniteSet(DOMAIN q) /\ DOMAIN q \subseteq Nat /\ \A t \in DOMAIN q : q[t] \in Int

\* The members before t.
Ahead(q, t) == {u \in DOMAIN q : Before(q, u, t)}

LEMMA AheadType ==
  ASSUME NEW q, IsQueue(q), NEW t
  PROVE  IsFiniteSet(Ahead(q, t)) /\ Cardinality(Ahead(q, t)) \in Nat
<1>1. Ahead(q, t) \subseteq DOMAIN q /\ IsFiniteSet(DOMAIN q)
  BY DEF Ahead, IsQueue
<1> QED BY <1>1, FS_Subset, FS_CardinalityType

LEMMA FirstAhead ==
  ASSUME NEW q, NEW n, NEW t
  PROVE  t \in First(q, n) <=> t \in DOMAIN q /\ Cardinality(Ahead(q, t)) < n
BY DEF First, Ahead

\* Before is a total order.
LEMMA BeforeTotal ==
  ASSUME NEW q, IsQueue(q), NEW t \in DOMAIN q, NEW u \in DOMAIN q
  PROVE  /\ ~ Before(q, t, t)
         /\ t = u \/ Before(q, t, u) \/ Before(q, u, t)
         /\ \A v \in DOMAIN q : Before(q, v, t) /\ Before(q, t, u) => Before(q, v, u)
BY DEF IsQueue, Before

\* So more members are before a later one.
LEMMA AheadGrows ==
  ASSUME NEW q, IsQueue(q), NEW t \in DOMAIN q, NEW u \in DOMAIN q, Before(q, t, u)
  PROVE  Cardinality(Ahead(q, t)) < Cardinality(Ahead(q, u))
<1>1. Ahead(q, t) \cup {t} \subseteq Ahead(q, u) /\ t \notin Ahead(q, t)
  BY BeforeTotal DEF Ahead
<1>2. /\ IsFiniteSet(Ahead(q, t)) /\ Cardinality(Ahead(q, t)) \in Nat
      /\ IsFiniteSet(Ahead(q, u)) /\ Cardinality(Ahead(q, u)) \in Nat
  BY AheadType
<1>3. /\ IsFiniteSet(Ahead(q, t) \cup {t})
      /\ Cardinality(Ahead(q, t) \cup {t}) = Cardinality(Ahead(q, t)) + 1
  BY <1>1, <1>2, FS_AddElement
<1>4. Cardinality(Ahead(q, t) \cup {t}) <= Cardinality(Ahead(q, u))
  BY <1>1, <1>2, FS_Subset
<1> QED BY <1>2, <1>3, <1>4

\* A task that is passed over has no lower score than one that is popped.
LEMMA NothingBefore ==
  ASSUME NEW q, IsQueue(q), NEW n \in Int,
         NEW a \in First(q, n), NEW b \in DOMAIN q, b \notin First(q, n)
  PROVE  ~ Before(q, b, a)
<1>1. a \in DOMAIN q /\ Cardinality(Ahead(q, a)) < n /\ ~ Cardinality(Ahead(q, b)) < n
  BY FirstAhead
<1>2. Before(q, b, a) => Cardinality(Ahead(q, b)) < Cardinality(Ahead(q, a))
  BY <1>1, AheadGrows
<1>3. Cardinality(Ahead(q, a)) \in Nat /\ Cardinality(Ahead(q, b)) \in Nat
  BY AheadType
<1> QED BY <1>1, <1>2, <1>3

\* PopTopN takes at most n: all it takes is the last of them and what is
\* before it.
LEMMA FirstAtMost ==
  ASSUME NEW q, IsQueue(q), NEW n \in Int, First(q, n) # {}
  PROVE  IsFiniteSet(First(q, n)) /\ Cardinality(First(q, n)) <= n
<1> DEFINE After(t) == n - Cardinality(Ahead(q, t))
           S == {After(t) : t \in First(q, n)}
<1>1. \A t \in First(q, n) : t \in DOMAIN q /\ After(t) \in Nat
  BY FirstAhead, AheadType
<1>2. PICK a \in First(q, n) : \A t \in First(q, n) : After(a) <= After(t)
  <2>1. S \in SUBSET Nat /\ S # {}
    BY <1>1
  <2>2. PICK x \in S : \A y \in S : x <= y
    <3> HIDE DEF S
    <3> QED BY <2>1, LeastNumber
  <2> QED BY <2>2
<1>3. First(q, n) \subseteq Ahead(q, a) \cup {a}
  <2> SUFFICES ASSUME NEW t \in First(q, n), t # a PROVE Before(q, t, a)
    BY <1>1 DEF Ahead
  <2>1. Cardinality(Ahead(q, t)) \in Nat /\ Cardinality(Ahead(q, a)) \in Nat
    BY AheadType
  <2>2. ~ Cardinality(Ahead(q, a)) < Cardinality(Ahead(q, t))
    BY <1>2, <2>1
  <2> QED BY <1>1, <2>2, AheadGrows, BeforeTotal
<1>4. /\ IsFiniteSet(Ahead(q, a)) /\ Cardinality(Ahead(q, a)) \in Nat
      /\ a \notin Ahead(q, a) /\ Cardinality(Ahead(q, a)) < n
  BY <1>1, AheadType, BeforeTotal, FirstAhead DEF Ahead
<1>5. /\ IsFiniteSet(Ahead(q, a) \cup {a})
      /\ Cardinality(Ahead(q, a) \cup {a}) = Cardinality(Ahead(q, a)) + 1
  BY <1>4, FS_AddElement
<1>6. /\ IsFiniteSet(First(q, n)) /\ Cardinality(First(q, n)) \in Nat
      /\ Cardinality(First(q, n)) <= Cardinality(Ahead(q, a)) + 1
  BY <1>3, <1>5, FS_Subset, FS_CardinalityType
<1> QED BY <1>4, <1>6

\* And no less when it leaves anything: all before the first of those left.
LEMMA FirstAtLeast ==
  ASSUME NEW q, IsQueue(q), NEW n \in Int, NEW b \in DOMAIN q, b \notin First(q, n)
  PROVE  n <= Cardinality(First(q, n))
<1> DEFINE Rest == DOMAIN q \ First(q, n)
           S == {Cardinality(Ahead(q, t)) : t \in Rest}
<1>1. PICK a \in Rest : \A t \in Rest : Cardinality(Ahead(q, a)) <= Cardinality(Ahead(q, t))
  <2>1. S \in SUBSET Nat /\ S # {}
    BY AheadType
  <2>2. PICK x \in S : \A y \in S : x <= y
    <3> HIDE DEF S
    <3> QED BY <2>1, LeastNumber
  <2> QED BY <2>2
<1>2. Ahead(q, a) \subseteq First(q, n)
  <2> SUFFICES ASSUME NEW t \in Ahead(q, a), t \in Rest PROVE FALSE
    BY DEF Ahead
  <2>1. Cardinality(Ahead(q, t)) < Cardinality(Ahead(q, a))
    BY AheadGrows DEF Ahead
  <2>2. Cardinality(Ahead(q, t)) \in Nat /\ Cardinality(Ahead(q, a)) \in Nat
    BY AheadType
  <2> QED BY <1>1, <2>1, <2>2
<1>3. IsFiniteSet(First(q, n))
  BY FS_Subset DEF First, IsQueue
<1>4. /\ Cardinality(Ahead(q, a)) <= Cardinality(First(q, n))
      /\ Cardinality(First(q, n)) \in Nat /\ Cardinality(Ahead(q, a)) \in Nat
  BY <1>2, <1>3, FS_Subset, FS_CardinalityType, AheadType
<1>5. ~ Cardinality(Ahead(q, a)) < n
  BY <1>1, FirstAhead
<1> QED BY <1>4, <1>5

-----------------------------------------------------------------------------

\* Two scores of any age.
LEMMA ScoresCompare ==
  ASSUME TypeOK, StampsOK, NEW a \in Task, NEW b \in Task,
         LastScore(a) <= LastScore(b),
         Priority(a, now) < Priority(b, now)
  PROVE  stamped[a].at > stamped[b].at \/ stamped[a].boost > stamped[b].boost
<1> SUFFICES ASSUME stamped[a].at <= stamped[b].at, stamped[a].boost <= stamped[b].boost
             PROVE  FALSE
  BY DEF StampsOK
<1> DEFINE Since(t) == Aging * (now - stamped[t].at)
<1>1. now \in Int /\ Aging \in Nat
  BY QueueConstants DEF TypeOK
<1>2. ASSUME NEW t \in Task
      PROVE  /\ Priority(t, now) = Priority(t, stamped[t].at) + Since(t)
             /\ Since(t) \in Int /\ Priority(t, stamped[t].at) \in Int
             /\ stamped[t].at \in Int /\ stamped[t].boost \in Int
  <2>1. stamped[t].at \in Int /\ stamped[t].boost \in Int
    BY DEF StampsOK
  <2>2. created[t] \in Int /\ Base[t] \in Int
    BY QueueConstants DEF TypeOK
  <2>3. /\ Aging * (now - created[t]) = Since(t) + Aging * (stamped[t].at - created[t])
        /\ Since(t) \in Int /\ Aging * (stamped[t].at - created[t]) \in Int
    BY <1>1, <2>1, <2>2, AgingAdds
  <2> QED BY <2>1, <2>2, <2>3 DEF Priority
<1>3. Since(b) <= Since(a)
  <2>1. now - stamped[b].at <= now - stamped[a].at
    BY <1>1, <1>2
  <2> QED BY <1>1, <1>2, <2>1, AgingMonotone
<1> HIDE DEF Since
<1> QED BY <1>2, <1>3 DEF LastScore
-----------------------------------------------------------------------------

\* Enqueue leaves the other tasks in the queues as they are.
LEMMA EnqueueMembers ==
  ASSUME NEW p \in Proc, NEW t \in Task, NEW boost, Enqueue(p, t, boost), NEW q \in Proc
  PROVE  IF q \in Sharing(p)
         THEN /\ DOMAIN items'[q] = Queued(q) \cup {t}
              /\ items'[q][t] = QueueScore(t, boost)
              /\ \A u \in Queued(q) \ {t} : items'[q][u] = items[q][u]
              /\ items'[q] = [u \in Queued(q) \cup {t} |-> items'[q][u]]
         ELSE items'[q] = items[q]
BY DEF Enqueue, Queued

\* A task that is in no queue, and in no other hand, is put into one.
LEMMA EnqueueStep ==
  ASSUME ReadyInv, NEW p \in Proc, NEW t \in Task, NEW boost \in {0, Boost},
         Enqueue(p, t, boost), UNCHANGED <<now, created>>,
         \A q \in Proc : t \notin Queued(q),
         hand' \in [Proc -> SUBSET Task], \A q \in Proc : hand'[q] = hand[q] \ {t},
         status' = [status EXCEPT ![t] = "UNASSIGNED"],
         requeues' \in 0..MaxRequeues
  PROVE  ReadyInv'
<1> USE DEF ReadyInv
<1>1. /\ stamped' \in [Task -> [at : Int, boost : Int]]
      /\ stamped'[t].at = now /\ stamped'[t].boost = boost
      /\ \A u \in Task \ {t} : stamped'[u] = stamped[u]
  <2>1. now \in Int /\ boost \in Int
    BY QueueConstants DEF TypeOK
  <2> QED BY <2>1 DEF StampsOK, Enqueue
<1>2. status' \in [Task -> {"NONE", "UNASSIGNED", "ASSIGNED", "DONE"}]
      /\ status'[t] = "UNASSIGNED" /\ \A u \in Task \ {t} : status'[u] = status[u]
  BY DEF TypeOK
<1>3. \A q \in Proc : /\ Queued(q)' \subseteq Queued(q) \cup {t}
                      /\ q \notin Sharing(p) => Queued(q)' = Queued(q)
  BY EnqueueMembers DEF Queued
<1>4. ASSUME NEW u \in Task, NEW at \in Int PROVE Priority(u, at)' = Priority(u, at)
  BY DEF Priority
<1>5. \A q \in Proc : Queued(q)' \subseteq Task /\ items'[q] \in [Queued(q)' -> Int]
  <2> TAKE q \in Proc
  <2>1. Priority(t, now) \in Int /\ boost \in Int
    BY PriorityType, QueueConstants DEF TypeOK
  <2>2. QueueScore(t, boost) \in Int
    BY <2>1 DEF QueueScore
  <2>3. Queued(q) \subseteq Task /\ items[q] \in [Queued(q) -> Int]
    BY DEF TypeOK
  <2>4. CASE q \in Sharing(p)
    <3>1. /\ DOMAIN items'[q] = Queued(q) \cup {t}
          /\ items'[q] = [u \in Queued(q) \cup {t} |-> items'[q][u]]
          /\ items'[q][t] = QueueScore(t, boost)
          /\ \A u \in Queued(q) \ {t} : items'[q][u] = items[q][u]
      BY <2>4, EnqueueMembers
    <3>2. \A u \in Queued(q) \cup {t} : items'[q][u] \in Int
      BY <2>2, <2>3, <3>1
    <3>3. items'[q] \in [Queued(q) \cup {t} -> Int]
      BY <3>1, <3>2
    <3> QED BY <2>3, <3>1, <3>3 DEF Queued
  <2>5. CASE q \notin Sharing(p)
    BY <2>3, <2>5, EnqueueMembers DEF Queued
  <2> QED BY <2>4, <2>5
<1>6. TypeOK'
  <2>1. now' \in 0..MaxTime /\ created' \in [Task -> 0..MaxTime]
    BY DEF TypeOK
  <2>2. \A u \in Task : stamped'[u].at \in -1..now' /\ stamped'[u].boost \in {0, Boost}
    BY <1>1 DEF TypeOK
  <2>3. \A q \in Proc : \A u \in Queued(q)' \cup hand'[q] : stamped'[u].at >= created'[u]
    <3> TAKE q \in Proc
    <3> TAKE u \in Queued(q)' \cup hand'[q]
    <3>1. CASE u = t
      BY <1>1, <3>1 DEF StampsOK
    <3>2. CASE u # t
      BY <1>1, <1>3, <1>5, <3>2 DEF TypeOK
    <3> QED BY <3>1, <3>2
  <2> QED BY <1>2, <1>5, <2>1, <2>2, <2>3 DEF TypeOK
<1>7. StampsOK'
  BY <1>1, <1>2 DEF StampsOK
<1>8. OnePlace'
  <2> SUFFICES ASSUME NEW q \in Proc, NEW r \in Proc, NEW u \in Task
               PROVE  /\ u \in Queued(q)' \cup hand'[q] => status'[u] = "UNASSIGNED"
                      /\ u \in Queued(q)' => u \notin hand'[r]
                      /\ u \in Queued(q)' /\ u \in Queued(r)' => q = r \/ Redis
                      /\ u \in hand'[q] /\ u \in hand'[r] => q = r
    BY DEF OnePlace
  <2>1. CASE u = t
    BY <1>2, <1>3, <2>1 DEF Sharing
  <2>2. CASE u # t
    BY <1>2, <1>3, <2>2 DEF OnePlace
  <2> QED BY <2>1, <2>2
<1>9. ScoresOK'
  <2>1. LastScore(t)' = QueueScore(t, boost)
    BY <1>1 DEF LastScore, QueueScore, Priority
  <2>2. ASSUME NEW u \in Task, u # t PROVE LastScore(u)' = LastScore(u)
    BY <1>1, <2>2 DEF LastScore, Priority
  <2>3. ASSUME NEW q \in Proc, NEW u \in Queued(q)' PROVE items'[q][u] = LastScore(u)'
    <3>1. u \in Task
      BY <1>5
    <3>2. CASE u = t
      <4>1. q \in Sharing(p)
        BY <1>3, <3>2
      <4> QED BY <2>1, <3>2, <4>1, EnqueueMembers
    <3>3. CASE u # t
      <4>1. u \in Queued(q) /\ items'[q][u] = items[q][u]
        BY <1>3, <3>3, EnqueueMembers
      <4>2. items[q][u] = LastScore(u)
        BY <4>1 DEF ScoresOK
      <4> QED BY <2>2, <3>1, <3>3, <4>1, <4>2
    <3> QED BY <3>2, <3>3
  <2> QED BY <2>3 DEF ScoresOK
<1>10. FiniteQueues'
  <2> SUFFICES ASSUME NEW q \in Proc PROVE IsFiniteSet(Queued(q)')
    BY DEF FiniteQueues
  <2>1. IsFiniteSet(Queued(q)) /\ IsFiniteSet(Queued(q) \cup {t})
    BY FS_AddElement DEF FiniteQueues
  <2> QED BY <1>3, <2>1, FS_Subset
<1> QED BY <1>6, <1>7, <1>8, <1>9, <1>10

\* PopTopN moves tasks from the queue to the hand.
LEMMA PopMembers ==
  ASSUME TypeOK, NEW p \in Proc, PopTopN(p)
  PROVE  /\ hand[p] = {} /\ hand'[p] = First(items[p], PopLimit)
         /\ hand'[p] \subseteq Queued(p)
         /\ \A q \in Proc \ {p} : hand'[q] = hand[q]
         /\ \A q \in Proc : /\ Queued(q)' = IF q \in Sharing(p) THEN Queued(q) \ hand'[p]
                                            ELSE Queued(q)
                            /\ \A t \in Queued(q)' : items'[q][t] = items[q][t]
                            /\ items'[q] \in [Queued(q)' -> Int]
<1>1. hand[p] = {} /\ hand' = [hand EXCEPT ![p] = First(items[p], PopLimit)]
  BY DEF PopTopN
<1>2. /\ hand'[p] = First(items[p], PopLimit)
      /\ \A q \in Proc \ {p} : hand'[q] = hand[q]
  BY <1>1 DEF TypeOK
<1>3. hand'[p] \subseteq Queued(p)
  BY <1>2 DEF First, Queued
<1>4. ASSUME NEW q \in Proc
      PROVE  /\ Queued(q)' = IF q \in Sharing(p) THEN Queued(q) \ hand'[p] ELSE Queued(q)
             /\ \A t \in Queued(q)' : items'[q][t] = items[q][t]
             /\ items'[q] \in [Queued(q)' -> Int]
  <2>1. items'[q] = IF q \in Sharing(p)
                    THEN [t \in Queued(q) \ hand'[p] |-> items[q][t]] ELSE items[q]
    BY <1>2 DEF PopTopN
  <2>2. items[q] \in [Queued(q) -> Int]
    BY DEF TypeOK
  <2>3. CASE q \in Sharing(p)
    BY <2>1, <2>2, <2>3 DEF Queued
  <2>4. CASE q \notin Sharing(p)
    BY <2>1, <2>2, <2>4 DEF Queued
  <2> QED BY <2>3, <2>4
<1> QED BY <1>1, <1>2, <1>3, <1>4

LEMMA PopStep ==
  ASSUME ReadyInv, NEW p \in Proc, PopTopN(p)
  PROVE  ReadyInv'
<1> USE DEF ReadyInv
<1>0. UNCHANGED <<now, status, created, stamped, requeues>>
  BY DEF PopTopN
<1>1. /\ hand[p] = {} /\ hand'[p] \subseteq Queued(p)
      /\ \A q \in Proc \ {p} : hand'[q] = hand[q]
      /\ \A q \in Proc : /\ Queued(q)' = IF q \in Sharing(p) THEN Queued(q) \ hand'[p]
                                         ELSE Queued(q)
                         /\ \A t \in Queued(q)' : items'[q][t] = items[q][t]
                         /\ items'[q] \in [Queued(q)' -> Int]
  BY PopMembers
<1>2. \A q \in Proc : Queued(q)' \subseteq Queued(q) /\ Queued(q) \subseteq Task
  BY <1>1 DEF TypeOK
<1>3. TypeOK'
  <2>1. hand' \in [Proc -> SUBSET Task]
    <3>1. First(items[p], PopLimit) \subseteq Task
      BY <1>2 DEF First, Queued
    <3> QED BY <3>1 DEF TypeOK, PopTopN
  <2>2. \A q \in Proc : \A t \in Queued(q)' \cup hand'[q] : stamped'[t].at >= created'[t]
    BY <1>0, <1>1, <1>2 DEF TypeOK
  <2> QED BY <1>0, <1>1, <1>2, <2>1, <2>2 DEF TypeOK
<1>4. StampsOK'
  BY <1>0 DEF StampsOK
<1>5. OnePlace'
  <2> SUFFICES ASSUME NEW q \in Proc, NEW r \in Proc, NEW u \in Task
               PROVE  /\ u \in Queued(q)' \cup hand'[q] => status'[u] = "UNASSIGNED"
                      /\ u \in Queued(q)' => u \notin hand'[r]
                      /\ u \in Queued(q)' /\ u \in Queued(r)' => q = r \/ Redis
                      /\ u \in hand'[q] /\ u \in hand'[r] => q = r
    BY DEF OnePlace
  <2>1. u \in hand'[p] => u \in Queued(p)
    BY <1>1
  <2>2. u \in Queued(q)' => u \in Queued(q) /\ u \notin hand'[p]
    <3>1. CASE q \in Sharing(p)
      BY <1>1, <3>1
    <3>2. CASE q \notin Sharing(p)
      BY <1>1, <1>2, <3>2 DEF Sharing, OnePlace
    <3> QED BY <3>1, <3>2
  <2>3. u \in Queued(r)' => u \in Queued(r)
    BY <1>2
  <2>4. /\ u \in Queued(q) \cup hand[q] => status[u] = "UNASSIGNED"
        /\ u \in Queued(q) => u \notin hand[r]
        /\ u \in Queued(p) => u \notin hand[r] /\ u \notin hand[q] /\ status[u] = "UNASSIGNED"
        /\ u \in Queued(q) /\ u \in Queued(r) => q = r \/ Redis
        /\ u \in hand[q] /\ u \in hand[r] => q = r
    BY DEF OnePlace
  <2> QED BY <1>0, <1>1, <2>1, <2>2, <2>3, <2>4
<1>6. ScoresOK'
  <2>1. \A t \in Task : LastScore(t)' = LastScore(t)
    BY <1>0 DEF LastScore, Priority
  <2> QED BY <1>1, <1>2, <2>1 DEF ScoresOK
<1>7. FiniteQueues'
  BY <1>2, FS_Subset DEF FiniteQueues
<1> QED BY <1>3, <1>4, <1>5, <1>6, <1>7

\* What happens to tasks outside the queues.
LEMMA QuietStep ==
  ASSUME ReadyInv, UNCHANGED <<items, stamped, requeues>>,
         now' \in 0..MaxTime, now <= now',
         created' \in [Task -> 0..MaxTime], \A t \in Task : created'[t] <= now',
         status' \in [Task -> {"NONE", "UNASSIGNED", "ASSIGNED", "DONE"}],
         \A t \in Task : status'[t] = "NONE" => status[t] = "NONE",
         \A t \in Task : created'[t] # created[t] => status[t] = "NONE",
         hand' \in [Proc -> SUBSET Task], \A p \in Proc : hand'[p] \subseteq hand[p],
         \A p \in Proc : \A t \in Queued(p) \cup hand'[p] : status'[t] = status[t]
  PROVE  ReadyInv'
<1> USE DEF ReadyInv
<1>1. \A p \in Proc : Queued(p)' = Queued(p) /\ Queued(p) \subseteq Task /\ hand[p] \subseteq Task
  BY DEF Queued, TypeOK
<1>2. ASSUME NEW p \in Proc, NEW t \in Queued(p) \cup hand[p]
      PROVE  created'[t] = created[t]
  BY <1>1, <1>2 DEF OnePlace
<1>3. TypeOK'
  <2>1. \A t \in Task : stamped'[t].at \in -1..now' /\ stamped'[t].boost \in {0, Boost}
    BY DEF TypeOK
  <2>2. \A p \in Proc : \A t \in Queued(p)' \cup hand'[p] : stamped'[t].at >= created'[t]
    BY <1>1, <1>2 DEF TypeOK
  <2>3. \A p \in Proc : Queued(p)' \subseteq Task /\ items'[p] \in [Queued(p)' -> Int]
    BY <1>1 DEF TypeOK
  <2> QED BY <2>1, <2>2, <2>3 DEF TypeOK
<1>4. StampsOK'
  BY DEF StampsOK
<1>5. OnePlace'
  BY <1>1 DEF OnePlace
<1>6. ScoresOK'
  <2>1. ASSUME NEW p \in Proc, NEW t \in Queued(p) PROVE LastScore(t)' = LastScore(t)
    BY <1>2, <2>1 DEF LastScore, Priority
  <2> QED BY <1>1, <2>1 DEF ScoresOK
<1>7. FiniteQueues'
  BY <1>1 DEF FiniteQueues
<1> QED BY <1>3, <1>4, <1>5, <1>6, <1>7

\* Who calls Enqueue, and why the task is nowhere else.
LEMMA EnqueuesReady ==
  ASSUME ReadyInv, NEW p \in Proc, NEW t \in Task,
         EnqueueReady(p, t) \/ (Settle(p, t) /\ t \in Blocked) \/ Requeue(p, t)
  PROVE  ReadyInv'
<1> USE DEF ReadyInv
<1>1. CASE EnqueueReady(p, t)
  <2>1. \A q \in Proc : t \notin Queued(q) \cup hand[q]
    <3>1. stamped[t].at = -1 /\ created[t] >= 0
      BY <1>1 DEF EnqueueReady, TypeOK
    <3> QED BY <3>1 DEF TypeOK
  <2>2. /\ Enqueue(p, t, 0)
        /\ UNCHANGED <<now, status, created, hand, requeues>> /\ status[t] = "UNASSIGNED"
    BY <1>1 DEF EnqueueReady
  <2>3. /\ hand' \in [Proc -> SUBSET Task] /\ \A q \in Proc : hand'[q] = hand[q] \ {t}
        /\ status' = [status EXCEPT ![t] = "UNASSIGNED"] /\ requeues' \in 0..MaxRequeues
    BY <2>1, <2>2 DEF TypeOK
  <2> QED BY <2>1, <2>2, <2>3, EnqueueStep
<1>2. CASE Settle(p, t) /\ t \in Blocked
  <2>1. /\ Enqueue(p, t, 0) /\ UNCHANGED <<now, status, created, requeues>> /\ t \in hand[p]
        /\ hand' = [hand EXCEPT ![p] = @ \ {t}]
    BY <1>2 DEF Settle
  <2>2. \A q \in Proc : t \notin Queued(q) /\ (q # p => t \notin hand[q])
    BY <2>1 DEF OnePlace
  <2>3. /\ hand' \in [Proc -> SUBSET Task] /\ \A q \in Proc : hand'[q] = hand[q] \ {t}
    BY <2>1, <2>2 DEF TypeOK
  <2>4. status' = [status EXCEPT ![t] = "UNASSIGNED"] /\ requeues' \in 0..MaxRequeues
    BY <2>1 DEF TypeOK, OnePlace
  <2> QED BY <2>1, <2>2, <2>3, <2>4, EnqueueStep
<1>3. CASE Requeue(p, t)
  <2>1. /\ Enqueue(p, t, Boost) /\ UNCHANGED <<now, created, hand>> /\ status[t] = "ASSIGNED"
        /\ status' = [status EXCEPT ![t] = "UNASSIGNED"]
    BY <1>3 DEF Requeue
  <2>2. \A q \in Proc : t \notin Queued(q) \cup hand[q]
    BY <2>1 DEF OnePlace
  <2>3. hand' \in [Proc -> SUBSET Task] /\ \A q \in Proc : hand'[q] = hand[q] \ {t}
    BY <2>1, <2>2 DEF TypeOK
  <2>4. requeues' \in 0..MaxRequeues
    BY <1>3, QueueConstants DEF Requeue, TypeOK
  <2> QED BY <2>1, <2>2, <2>3, <2>4, EnqueueStep
<1> QED BY <1>1, <1>2, <1>3

LEMMA InitReady == Init => ReadyInv
<1> SUFFICES ASSUME Init PROVE ReadyInv
  OBVIOUS
<1>1. \A p \in Proc : Queued(p) = {} /\ hand[p] = {}
  BY DEF Init, Queued
<1>2. TypeOK
  <2>1. \A p \in Proc : items[p] \in [Queued(p) -> Int]
    BY DEF Init, Queued
  <2>2. \A t \in Task : stamped[t].at \in -1..now /\ stamped[t].boost \in {0, Boost}
    BY DEF Init
  <2>3. 0 \in 0..MaxTime /\ 0 \in 0..MaxRequeues
    BY QueueConstants
  <2> QED BY <1>1, <2>1, <2>2, <2>3 DEF Init, TypeOK
<1>3. StampsOK /\ OnePlace /\ ScoresOK
  BY <1>1 DEF Init, StampsOK, OnePlace, ScoresOK
<1>4. FiniteQueues
  BY <1>1, FS_EmptySet DEF FiniteQueues
<1> QED BY <1>2, <1>3, <1>4 DEF ReadyInv

LEMMA NextReady == ReadyInv /\ [Next]_vars => ReadyInv'
<1> SUFFICES ASSUME ReadyInv, [Next]_vars PROVE ReadyInv'
  OBVIOUS
<1>0. /\ now \in 0..MaxTime /\ created \in [Task -> 0..MaxTime]
      /\ \A t \in Task : created[t] <= now
      /\ status \in [Task -> {"NONE", "UNASSIGNED", "ASSIGNED", "DONE"}]
      /\ hand \in [Proc -> SUBSET Task] /\ MaxTime \in Nat
      /\ \A p \in Proc : Queued(p) \subseteq Task
      /\ \A p \in Proc : \A t \in Queued(p) \cup hand[p] : status[t] = "UNASSIGNED"
  BY QueueConstants DEF ReadyInv, TypeOK, StampsOK, OnePlace
<1>1. CASE Tick
  <2>1. /\ UNCHANGED <<items, stamped, requeues, created, status, hand>>
        /\ now' \in 0..MaxTime /\ now <= now' /\ \A t \in Task : created'[t] <= now'
    BY <1>0, <1>1 DEF Tick
  <2> QED BY <1>0, <2>1, QuietStep
<1>2. ASSUME NEW t \in Task, CreateTask(t) PROVE ReadyInv'
  <2>1. /\ UNCHANGED <<now, items, stamped, hand, requeues>>
        /\ status[t] = "NONE" /\ status' = [status EXCEPT ![t] = "UNASSIGNED"]
        /\ created' = [created EXCEPT ![t] = now]
    BY <1>2 DEF CreateTask
  <2>2. \A u \in Task : created'[u] <= now' /\ (created'[u] # created[u] => status[u] = "NONE")
    BY <1>0, <2>1
  <2>3. created' \in [Task -> 0..MaxTime]
    BY <1>0, <2>1
  <2>4. /\ status' \in [Task -> {"NONE", "UNASSIGNED", "ASSIGNED", "DONE"}]
        /\ \A u \in Task : status'[u] = "NONE" => status[u] = "NONE"
    BY <1>0, <2>1
  <2>5. \A p \in Proc : \A u \in Queued(p) \cup hand'[p] : status'[u] = status[u]
    BY <1>0, <2>1
  <2> QED BY <1>0, <2>1, <2>2, <2>3, <2>4, <2>5, QuietStep
<1>3. ASSUME NEW t \in Task, StartTask(t) PROVE ReadyInv'
  <2>1. /\ UNCHANGED <<now, created, items, stamped, hand, requeues>>
        /\ status[t] = "ASSIGNED" /\ status' = [status EXCEPT ![t] = "DONE"]
    BY <1>3 DEF StartTask
  <2>2. /\ status' \in [Task -> {"NONE", "UNASSIGNED", "ASSIGNED", "DONE"}]
        /\ \A u \in Task : status'[u] = "NONE" => status[u] = "NONE"
    BY <1>0, <2>1
  <2>3. \A p \in Proc : \A u \in Queued(p) \cup hand'[p] : status'[u] = status[u]
    BY <1>0, <2>1
  <2> QED BY <1>0, <2>1, <2>2, <2>3, QuietStep
<1>4. ASSUME NEW p \in Proc, NEW t \in Task, Settle(p, t), t \notin Blocked PROVE ReadyInv'
  <2>1. /\ UNCHANGED <<now, created, items, stamped, requeues>> /\ t \in hand[p]
        /\ status' = [status EXCEPT ![t] = "ASSIGNED"]
        /\ hand' = [hand EXCEPT ![p] = @ \ {t}]
    BY <1>4 DEF Settle
  <2>2. /\ hand' \in [Proc -> SUBSET Task]
        /\ \A q \in Proc : hand'[q] \subseteq hand[q] /\ t \notin hand'[q] /\ t \notin Queued(q)
    BY <1>0, <2>1 DEF ReadyInv, OnePlace
  <2>3. /\ status' \in [Task -> {"NONE", "UNASSIGNED", "ASSIGNED", "DONE"}]
        /\ \A u \in Task : status'[u] = "NONE" => status[u] = "NONE"
    BY <1>0, <2>1
  <2>4. \A q \in Proc : \A u \in Queued(q) \cup hand'[q] : status'[u] = status[u]
    BY <1>0, <2>1, <2>2
  <2> QED BY <1>0, <2>1, <2>2, <2>3, <2>4, QuietStep
<1>5. CASE UNCHANGED vars
  BY <1>0, <1>5, QuietStep DEF vars
<1> QED BY <1>1, <1>2, <1>3, <1>4, <1>5, PopStep, EnqueuesReady DEF Next, AllocateOnce

\* The strengthening that makes the properties below inductive.
THEOREM ReadyInvariance == Spec => []ReadyInv
BY InitReady, NextReady, PTL DEF Spec

\* Queue, hands, scores and stamps stay well typed for any number of tasks and
\* processes, and no task is enqueued before ConfirmOrder has inserted it.
THEOREM ReadyTypeCorrect == Spec => []TypeOK
<1>1. ReadyInv => TypeOK
  BY DEF ReadyInv
<1> QED BY <1>1, ReadyInvariance, PTL

LEMMA QueueIsQueue ==
  ASSUME ReadyInv, NEW p \in Proc
  PROVE  IsQueue(items[p])
BY QueueConstants DEF ReadyInv, TypeOK, FiniteQueues, IsQueue, Queued

\* Nothing but PopTopN puts ids into a hand.
LEMMA OnlyPops ==
  ASSUME ReadyInv, [Next]_vars, NEW p \in Proc, Popped(p) # {}
  PROVE  PopTopN(p)
<1> SUFFICES ASSUME ~ PopTopN(p) PROVE hand'[p] \subseteq hand[p]
  BY DEF Popped
<1>1. ASSUME NEW q \in Proc, NEW t \in Task, Settle(q, t) PROVE hand'[p] \subseteq hand[p]
  BY <1>1 DEF Settle, ReadyInv, TypeOK
<1>2. ASSUME NEW q \in Proc, PopTopN(q) PROVE hand'[p] \subseteq hand[p]
  BY <1>2, PopMembers DEF ReadyInv
<1> QED BY <1>1, <1>2 DEF Next, AllocateOnce, Tick, CreateTask, StartTask,
           EnqueueReady, Requeue, vars

LEMMA PopMoves ==
  ASSUME ReadyInv, NEW p \in Proc, PopTopN(p)
  PROVE  /\ Popped(p) = First(items[p], PopLimit)
         /\ Left(p) = Queued(p) \ First(items[p], PopLimit)
<1>1. /\ hand[p] = {} /\ hand'[p] = First(items[p], PopLimit)
      /\ p \in Sharing(p) /\ Queued(p)' = Queued(p) \ hand'[p]
  BY PopMembers DEF ReadyInv, Sharing
<1> QED BY <1>1 DEF Popped, Left, Queued

\* Although scores are never refreshed, PopTopN passes over a task of higher
\* priority only for one that was enqueued later or had a boost.
THEOREM OvertakingCorrect == Spec => OvertakingHasCause
<1> DEFINE Overtaking(p, a, b) ==
       Priority(a, now) < Priority(b, now) =>
           stamped[a].at > stamped[b].at \/ stamped[a].boost > stamped[b].boost
<1>1. ASSUME ReadyInv, [Next]_vars, NEW p \in Proc, NEW a \in Popped(p), NEW b \in Left(p)
      PROVE  Overtaking(p, a, b)
  <2>2. PopTopN(p)
    BY <1>1, OnlyPops
  <2>3. IsQueue(items[p])
    BY <1>1, QueueIsQueue
  <2>4. /\ a \in First(items[p], PopLimit) /\ b \in Queued(p) \ First(items[p], PopLimit)
        /\ a \in Queued(p)
    BY <1>1, <2>2, PopMoves DEF Popped, Left, First, Queued
  <2>5. ~ Before(items[p], b, a)
    BY <2>3, <2>4, QueueConstants, NothingBefore DEF Queued
  <2>6. items[p][a] <= items[p][b]
    BY <2>3, <2>4, <2>5 DEF Before, IsQueue, Queued
  <2>7. LastScore(a) <= LastScore(b) /\ a \in Task /\ b \in Task
    BY <1>1, <2>4, <2>6 DEF ReadyInv, ScoresOK, TypeOK
  <2> QED BY <1>1, <2>7, ScoresCompare DEF ReadyInv
<1>2. ReadyInv /\ [Next]_vars =>
        \A p \in Proc : \A a \in Popped(p), b \in Left(p) : Overtaking(p, a, b)
  BY <1>1
<1> QED BY <1>2, ReadyInvariance, PTL DEF Spec, OvertakingHasCause

\* PopTopN neither takes more than it may nor stops short while ids are left.
THEOREM PopFillCorrect == Spec => PopTakesItsFill
<1> DEFINE Fills(p) ==
       Cardinality(Popped(p)) <= PopLimit
           /\ (Left(p) # {} => Cardinality(Popped(p)) = PopLimit)
<1>1. ASSUME ReadyInv, [Next]_vars, NEW p \in Proc, Popped(p) # {} PROVE Fills(p)
  <2> DEFINE F == First(items[p], PopLimit)
  <2>1. Popped(p) = F /\ Left(p) = Queued(p) \ F
    BY <1>1, OnlyPops, PopMoves
  <2>2. IsFiniteSet(F) /\ Cardinality(F) <= PopLimit
    BY <1>1, <2>1, QueueIsQueue, QueueConstants, FirstAtMost
  <2>3. Queued(p) \ F # {} => PopLimit <= Cardinality(F)
    BY <1>1, QueueIsQueue, QueueConstants, FirstAtLeast DEF Queued
  <2>4. Cardinality(F) \in Int /\ PopLimit \in Int
    BY <2>2, QueueConstants, FS_CardinalityType
  <2> HIDE DEF F
  <2> QED BY <2>1, <2>2, <2>3, <2>4
<1>2. ReadyInv /\ [Next]_vars =>
        \A p \in Proc : Popped(p) # {} =>
           /\ Cardinality(Popped(p)) <= PopLimit
           /\ Left(p) # {} => Cardinality(Popped(p)) = PopLimit
  BY <1>1
<1> QED BY <1>2, ReadyInvariance, PTL DEF Spec, PopTakesItsFill

=============================================================================
