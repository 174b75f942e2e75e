------------------------------ MODULE ReadyQueue ------------------------------
(***************************************************************************)
(* The order in which AllocateOnce sees ready tasks: queueScore, and the   *)
(* ready queue of internal/queue, in Redis or in the memory of a process.  *)
(* Kitchen leaves the scores out; here the transactions are left out, and  *)
(* what they leave of a popped task is whether it can be assigned.         *)
(***************************************************************************)
EXTENDS Integers, FiniteSets

CONSTANTS
    Task,           \* task ids, in the order in which their strings compare
    Proc, Api,      \* the Go processes; the API server is one of them
    Redis,          \* whether REDIS_ADDR is set
    Base,           \* tasks.base_priority
    Aging,          \* agingFactor, per tick
    Boost,          \* 10 in the code
    Gated,          \* tasks with dependencies: CompleteTask enqueues them
    Blocked,        \* tasks whose counter, machine or staff is never free
    PopLimit,       \* 20 in the code
    MaxTime, MaxRequeues    \* bounds of the model

ASSUME QueueConstants ==
    /\ Task \subseteq Nat /\ Api \in Proc /\ Redis \in BOOLEAN
    /\ Base \in [Task -> Int]
    /\ Aging \in Nat /\ Boost \in Nat /\ PopLimit \in Int
    /\ Gated \subseteq Task /\ Blocked \subseteq Task
    /\ MaxTime \in Nat /\ MaxRequeues \in Nat

VARIABLES
    now,
    status,         \* tasks.status; "DONE" from the start on
    created,        \* tasks.created_at
    items,          \* per process, the queue it uses: a score per member
    stamped,        \* when the score of a task was computed, and with which boost
    hand,           \* ids a call of AllocateOnce has popped and not reached
    requeues        \* requeues so far

vars == <<now, status, created, items, stamped, hand, requeues>>

Queued(p) == DOMAIN items[p]

TypeOK ==
    /\ now \in 0..MaxTime
    /\ status \in [Task -> {"NONE", "UNASSIGNED", "ASSIGNED", "DONE"}]
    /\ created \in [Task -> 0..MaxTime]
    /\ \A p \in Proc : Queued(p) \subseteq Task /\ items[p] \in [Queued(p) -> Int]
    /\ \A t \in Task : stamped[t].at \in -1..now /\ stamped[t].boost \in {0, Boost}
    /\ hand \in [Proc -> SUBSET Task]
    /\ requeues \in 0..MaxRequeues
    /\ \A p \in Proc : \A t \in Queued(p) \cup hand[p] : stamped[t].at >= created[t]

Init ==
    /\ now = 0
    /\ status = [t \in Task |-> "NONE"]
    /\ created = [t \in Task |-> 0]
    /\ items = [p \in Proc |-> [t \in {} |-> 0]]
    /\ stamped = [t \in Task |-> [at |-> -1, boost |-> 0]]
    /\ hand = [p \in Proc |-> {}]
    /\ requeues = 0

-----------------------------------------------------------------------------
\* The effective priority of a task at a time.
Priority(t, at) == Base[t] + Aging * (at - created[t])

\* Mutant of QueueScore: the sign is forgotten.
QueueScorePositive(t, boost) == Priority(t, now) + boost

\* Negative, so that the lowest score is the highest priority.
QueueScore(t, boost) == -(Priority(t, now) + boost)

\* Processes with the queue of p: all of them, or p alone.
Sharing(p) == IF Redis THEN Proc ELSE {p}

\* Enqueue: ZADD, or an assignment to the map, on whatever was there.
Enqueue(p, t, boost) ==
    /\ items' = [q \in Proc |-> IF q \in Sharing(p)
                     THEN [u \in Queued(q) \cup {t} |->
                               IF u = t THEN QueueScore(t, boost) ELSE items[q][u]]
                     ELSE items[q]]
    /\ stamped' = [stamped EXCEPT ![t] = [at |-> now, boost |-> boost]]

\* By score, then by id: sort.Slice and the order of a sorted set.
Before(q, a, b) == q[a] < q[b] \/ (q[a] = q[b] /\ a < b)

\* Mutant of First: off by one.
FirstButOne(q, n) == {t \in DOMAIN q : Cardinality({u \in DOMAIN q : Before(q, u, t)}) < n - 1}

\* The members PopTopN returns and deletes; none for n <= 0.
First(q, n) == {t \in DOMAIN q : Cardinality({u \in DOMAIN q : Before(q, u, t)}) < n}

-----------------------------------------------------------------------------
Tick ==
    /\ now < MaxTime /\ now' = now + 1
    /\ UNCHANGED <<status, created, items, stamped, hand, requeues>>

\* ConfirmOrder inserts the task.
CreateTask(t) ==
    /\ status[t] = "NONE"
    /\ status' = [status EXCEPT ![t] = "UNASSIGNED"]
    /\ created' = [created EXCEPT ![t] = now]
    /\ UNCHANGED <<now, items, stamped, hand, requeues>>

\* Mutant of EnqueueReady: before the row is there.
EnqueueReadyEarly(p, t) ==
    /\ stamped[t].at = -1
    /\ t \in Gated \/ p = Api
    /\ Enqueue(p, t, 0)
    /\ UNCHANGED <<now, status, created, hand, requeues>>

\* The first Enqueue: by ConfirmOrder in the API server, or by CompleteTask
\* wherever the last dependency is completed.
EnqueueReady(p, t) ==
    /\ status[t] = "UNASSIGNED" /\ stamped[t].at = -1
    /\ t \in Gated \/ p = Api
    /\ Enqueue(p, t, 0)
    /\ UNCHANGED <<now, status, created, hand, requeues>>

PopTopN(p) ==
    LET popped == First(items[p], PopLimit) IN
    /\ hand[p] = {} /\ popped # {}
    /\ hand' = [hand EXCEPT ![p] = popped]
    /\ items' = [q \in Proc |-> IF q \in Sharing(p)
                     THEN [t \in Queued(q) \ popped |-> items[q][t]] ELSE items[q]]
    /\ UNCHANGED <<now, status, created, stamped, requeues>>

\* The transaction on a popped id commits, or fails and the id goes back,
\* with a score of its own and without a boost.
Settle(p, t) ==
    /\ t \in hand[p]
    /\ hand' = [hand EXCEPT ![p] = @ \ {t}]
    /\ IF t \in Blocked
       THEN Enqueue(p, t, 0) /\ UNCHANGED status
       ELSE /\ status' = [status EXCEPT ![t] = "ASSIGNED"]
            /\ UNCHANGED <<items, stamped>>
    /\ UNCHANGED <<now, created, requeues>>

StartTask(t) ==
    /\ status[t] = "ASSIGNED"
    /\ status' = [status EXCEPT ![t] = "DONE"]
    /\ UNCHANGED <<now, created, items, stamped, hand, requeues>>

\* requeueExpiredAssignedTasks
Requeue(p, t) ==
    /\ status[t] = "ASSIGNED" /\ requeues < MaxRequeues
    /\ status' = [status EXCEPT ![t] = "UNASSIGNED"]
    /\ Enqueue(p, t, Boost)
    /\ requeues' = requeues + 1
    /\ UNCHANGED <<now, created, hand>>

-----------------------------------------------------------------------------
AllocateOnce(p) == PopTopN(p) \/ \E t \in Task : Settle(p, t) \/ Requeue(p, t)

Next ==
    \/ Tick
    \/ \E t \in Task : CreateTask(t) \/ StartTask(t)
    \/ \E p \in Proc, t \in Task : EnqueueReady(p, t)
    \/ \E p \in Proc : AllocateOnce(p)

Spec == Init /\ [][Next]_vars

\* Events keep coming, so that the Temporal worker calls AllocateOnce again
\* and again, and a call reaches every id it has popped.  Nobody is bound to
\* call it in the API server.
Fairness ==
    /\ \A p \in Proc \ {Api} : WF_vars(PopTopN(p))
    /\ \A p \in Proc, t \in Task : WF_vars(Settle(p, t))

FairSpec == Spec /\ Fairness

-----------------------------------------------------------------------------
(* Properties                                                               *)

\* What a pop of p takes, and what it leaves.
Popped(p) == hand'[p] \ hand[p]
Left(p) == DOMAIN items'[p]

\* Scores are computed at the Enqueue and never refreshed.  All the same
\* PopTopN passes a task over for one of lower priority only if that one was
\* enqueued later, or had the boost of a requeue.
OvertakingHasCause ==
    [][\A p \in Proc : \A a \in Popped(p), b \in Left(p) :
           Priority(a, now) < Priority(b, now) =>
               stamped[a].at > stamped[b].at \/ stamped[a].boost > stamped[b].boost]_vars

\* PopTopN takes no more than PopLimit tasks, and fewer only if it leaves none,
\* whatever the order of ids with equal scores: a task that cannot be assigned
\* takes one place in a pop and wastes no other.
PopTakesItsFill ==
    [][\A p \in Proc : Popped(p) # {} =>
           /\ Cardinality(Popped(p)) <= PopLimit
           /\ Left(p) # {} => Cardinality(Popped(p)) = PopLimit]_vars

\* As long as fewer than PopLimit queued tasks cannot be assigned, AllocateOnce
\* gets to every other one, although it puts those back each time with a score
\* that has grown meanwhile; with PopLimit of them it never might.
NoStarvation ==
    Cardinality(Blocked) < PopLimit =>
        \A t \in Task \ Blocked :
            status[t] = "UNASSIGNED" /\ stamped[t].at # -1 ~> status[t] # "UNASSIGNED"
-----------------------------------------------------------------------------
(* The inductive invariant behind TypeOK and OvertakingHasCause             *)

\* Only a task that exists has ever been enqueued.
StampsOK ==
    /\ stamped \in [Task -> [at : Int, boost : Int]]
    /\ \A t \in Task : created[t] <= now /\ (status[t] = "NONE" => stamped[t].at = -1)

\* A ready task is in one place: in a queue, or in the hand of one call.
OnePlace ==
    \A p, q \in Proc : \A t \in Task :
        /\ t \in Queued(p) \cup hand[p] => status[t] = "UNASSIGNED"
        /\ t \in Queued(p) => t \notin hand[q]
        /\ t \in Queued(p) /\ t \in Queued(q) => p = q \/ Redis
        /\ t \in hand[p] /\ t \in hand[q] => p = q

\* The score of a queued task is the one it was last enqueued with.
LastScore(t) == -(Priority(t, stamped[t].at) + stamped[t].boost)

ScoresOK == \A p \in Proc : \A t \in Queued(p) : items[p][t] = LastScore(t)

FiniteQueues == \A p \in Proc : IsFiniteSet(Queued(p))

ReadyInv == TypeOK /\ StampsOK /\ OnePlace /\ ScoresOK /\ FiniteQueues

=============================================================================
