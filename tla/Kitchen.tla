------------------------------- MODULE Kitchen -------------------------------
(***************************************************************************)
(* The task scheduler: the handlers of internal/application and the SQL    *)
(* statements of internal/repository they run, over one Postgres database  *)
(* and one Redis ready queue.                                              *)
(*                                                                         *)
(* A process is one call in progress of ConfirmOrder, AllocateOnce or      *)
(* CompleteTask, in any of the Go processes that share the database (API   *)
(* server, topic consumer, Temporal worker).  A step is one SQL statement  *)
(* or one Redis command; pc names the statement a call runs next.          *)
(*                                                                         *)
(* Transactions are READ COMMITTED, Postgres's default.  A row lock is     *)
(* kept until commit or rollback, so the writes of a transaction are       *)
(* applied to the tables at its commit: no one else can read or write the  *)
(* rows in between, and what a transaction reads of its own writes is      *)
(* spelled out where it does so (ReadyChildren, OtherTasksDone).           *)
(***************************************************************************)
EXTENDS Integers, FiniteSets

CONSTANTS
    Order, Task, Counter, Machine, Staff,   \* primary keys of the tables
    Proc,                                   \* calls that can be in progress at once
    None,                                   \* SQL NULL, and "no lock holder"
    OrderOf, CounterOf, MachineOf,          \* tasks.order_id, .counter_id, .machine_id
    DependsOn,                              \* the dependencies the recipe yields
    HomeCounter,                            \* machines.counter_id
    CounterCap, MachineCap, MaxParallel,    \* counters.capacity, machines.capacity, staff.max_parallel
    Skills,                                 \* staff_skills
    PopLimit, RequeueLimit,                 \* 20 and 50 in the code
    MaxRequeues, MaxFaults                  \* bounds of the model

ASSUME FiniteTables ==
    /\ IsFiniteSet(Task)
    /\ PopLimit \in Nat /\ RequeueLimit \in Nat
    /\ MaxRequeues \in Nat /\ MaxFaults \in Nat

ASSUME ForeignKeys ==
    /\ OrderOf \in [Task -> Order]
    /\ CounterOf \in [Task -> Counter]
    /\ MachineOf \in [Task -> Machine]
    /\ HomeCounter \in [Machine -> Counter]
    /\ CounterCap \in [Counter -> Nat]
    /\ MachineCap \in [Machine -> Nat]
    /\ MaxParallel \in [Staff -> Nat]
    /\ Skills \subseteq Staff \X Counter

\* ConfirmOrder rejects an order without tasks and a task that depends on
\* itself, and links tasks of the order it creates only.
ASSUME Recipes ==
    /\ \A o \in Order : \E t \in Task : OrderOf[t] = o
    /\ DependsOn \in [Task -> SUBSET Task]
    /\ \A t \in Task : \A d \in DependsOn[t] : d # t /\ OrderOf[d] = OrderOf[t]

ASSUME DistinctKeys ==
    /\ Task \cap Counter = {} /\ Task \cap Machine = {} /\ Task \cap Staff = {}
    /\ Task \cap Order = {} /\ Counter \cap Machine = {} /\ Counter \cap Staff = {}
    /\ Counter \cap Order = {} /\ Machine \cap Staff = {} /\ Machine \cap Order = {}
    /\ Staff \cap Order = {}
    /\ None \notin Task \cup Counter \cup Machine \cup Staff \cup Order \cup Proc

Row == Task \cup Counter \cup Machine \cup Staff \cup Order

\* "NONE": the row does not exist yet.
OrderStatus == {"NONE", "CONFIRMED", "IN_PROGRESS", "PART_COMPLETED", "COMPLETED"}
TaskStatus == {"NONE", "UNASSIGNED", "ASSIGNED", "STARTED", "COMPLETED"}
EventType == {"TASK_READY", "TASK_ASSIGNED", "TASK_STARTED", "TASK_COMPLETED", "TASK_REQUEUED"}

VARIABLES
    orderStatus,    \* orders.status
    status,         \* tasks.status
    pendingDeps,    \* tasks.pending_deps
    deps,           \* task_dependencies: the inserted rows, per task
    assignedTo,     \* tasks.assigned_staff_id
    counterUse,     \* counters.in_use
    machineUse,     \* machines.in_use
    activeTasks,    \* staff.active_tasks
    events,         \* domain_events: number of rows per type and task
    readyQueue,     \* members of the sorted set tasks:pending
    lock,           \* row locks: the transaction that holds the row
    pc,             \* the statement each call runs next
    cur,            \* the task or order a call works on
    batch,          \* the tasks a call still has to work on
    pick,           \* staff chosen by pickStaff
    orderTo,        \* order status written by the open transaction ("NONE": none)
    faults          \* infrastructure faults so far

usage == <<counterUse, machineUse, activeTasks>>
tables == <<orderStatus, status, pendingDeps, deps, assignedTo, usage, events>>
locals == <<cur, batch, pick, orderTo>>
vars == <<tables, readyQueue, lock, pc, locals, faults>>

AllocTx == {"A_LockCounter", "A_FindStaff", "A_LockMachine", "A_LockStaff",
            "A_MarkOrder", "A_Commit"}
RequeueTx == {"R_Staff", "R_Counter", "R_Machine", "R_Commit"}
CompleteTx == {"C_Counter", "C_Machine", "C_Staff", "C_Children", "C_Enqueue",
               "C_MarkOrder", "C_Count", "C_Finish", "C_Commit"}
OpenTx == AllocTx \cup RequeueTx \cup CompleteTx
Confirming == {"O_Deps", "O_Recalc", "O_List", "O_Enqueue", "O_Event"}
Label == {"idle", "R_Enqueue", "A_Pop", "A_Loop", "A_Recheck", "A_Reenqueue"}
         \cup OpenTx \cup Confirming

TypeOK ==
    /\ orderStatus \in [Order -> OrderStatus]
    /\ status \in [Task -> TaskStatus]
    /\ pendingDeps \in [Task -> Nat]
    /\ deps \in [Task -> SUBSET Task]
    /\ assignedTo \in [Task -> Staff \cup {None}]
    /\ counterUse \in [Counter -> Nat]
    /\ machineUse \in [Machine -> Nat]
    /\ activeTasks \in [Staff -> Nat]
    /\ events \in [EventType -> [Task -> Nat]]
    /\ readyQueue \subseteq Task
    /\ lock \in [Row -> Proc \cup {None}]
    /\ pc \in [Proc -> Label]
    /\ cur \in [Proc -> Task \cup Order \cup {None}]
    /\ batch \in [Proc -> SUBSET Task]
    /\ pick \in [Proc -> Staff \cup {None}]
    /\ orderTo \in [Proc -> OrderStatus]
    /\ faults \in 0..MaxFaults

Init ==
    /\ orderStatus = [o \in Order |-> "NONE"]
    /\ status = [t \in Task |-> "NONE"]
    /\ pendingDeps = [t \in Task |-> 0]
    /\ deps = [t \in Task |-> {}]
    /\ assignedTo = [t \in Task |-> None]
    /\ counterUse = [c \in Counter |-> 0]
    /\ machineUse = [m \in Machine |-> 0]
    /\ activeTasks = [s \in Staff |-> 0]
    /\ events = [e \in EventType |-> [t \in Task |-> 0]]
    /\ readyQueue = {}
    /\ lock = [r \in Row |-> None]
    /\ pc = [p \in Proc |-> "idle"]
    /\ cur = [p \in Proc |-> None]
    /\ batch = [p \in Proc |-> {}]
    /\ pick = [p \in Proc |-> None]
    /\ orderTo = [p \in Proc |-> "NONE"]
    /\ faults = 0

-----------------------------------------------------------------------------
(* Statements and transactions                                              *)

Goto(p, l) == pc' = [pc EXCEPT ![p] = l]

\* A statement that locks row r for p's transaction and waits while another
\* transaction holds it.
Acquire(p, r, l) ==
    /\ lock[r] \in {None, p}
    /\ lock' = [lock EXCEPT ![r] = p]
    /\ Goto(p, l)

\* A statement l that does nothing but lock row r until the commit applies it.
LockStep(p, l, r, next) ==
    /\ pc[p] = l
    /\ Acquire(p, r, next)
    /\ UNCHANGED <<tables, readyQueue, locals, faults>>

\* Commit and rollback drop every lock of the transaction.
ReleaseLocks(p) == lock' = [r \in Row |-> IF lock[r] = p THEN None ELSE lock[r]]

\* The call returns: its local variables are gone.
Return(p) ==
    /\ Goto(p, "idle")
    /\ cur' = [cur EXCEPT ![p] = None]
    /\ batch' = [batch EXCEPT ![p] = {}]
    /\ pick' = [pick EXCEPT ![p] = None]
    /\ orderTo' = [orderTo EXCEPT ![p] = "NONE"]

\* GREATEST(n, 0) in the UPDATEs of the counters.
AtLeastZero(n) == IF n < 0 THEN 0 ELSE n

\* The table log after one more row of type e for each task of T.
Emit(log, e, T) == [log EXCEPT ![e] = [t \in Task |-> IF t \in T THEN @[t] + 1 ELSE @[t]]]

\* orders after the commit of p's transaction on task cur[p].
OrdersAfter(p) ==
    IF orderTo[p] = "NONE" THEN orderStatus
    ELSE [orderStatus EXCEPT ![OrderOf[cur[p]]] = orderTo[p]]

\* Tasks locked by p's transaction.
LockedTasks(p) == {t \in Task : lock[t] = p}

-----------------------------------------------------------------------------
(* ConfirmOrder: four separate transactions and a loop, none of them undone *)
(* when a later one fails.                                                  *)

TasksOf(o) == {t \in Task : OrderOf[t] = o}

CreateOrderWithTasks(p, o) ==
    /\ pc[p] = "idle" /\ orderStatus[o] = "NONE"
    /\ orderStatus' = [orderStatus EXCEPT ![o] = "CONFIRMED"]
    /\ status' = [t \in Task |-> IF t \in TasksOf(o) THEN "UNASSIGNED" ELSE status[t]]
    /\ cur' = [cur EXCEPT ![p] = o]
    /\ Goto(p, IF \A t \in TasksOf(o) : DependsOn[t] = {} THEN "O_List" ELSE "O_Deps")
    /\ UNCHANGED <<pendingDeps, deps, assignedTo, usage, events, readyQueue, lock,
                   batch, pick, orderTo, faults>>

InsertTaskDependencies(p) ==
    /\ pc[p] = "O_Deps"
    /\ deps' = [t \in Task |-> IF t \in TasksOf(cur[p]) THEN DependsOn[t] ELSE deps[t]]
    /\ Goto(p, "O_Recalc")
    /\ UNCHANGED <<orderStatus, status, pendingDeps, assignedTo, usage, events,
                   readyQueue, lock, locals, faults>>

\* The subquery yields no group for a task without dependencies.
RecalculatePendingDepsForOrder(p) ==
    /\ pc[p] = "O_Recalc"
    /\ pendingDeps' = [t \in Task |-> IF t \in TasksOf(cur[p]) /\ deps[t] # {}
                                      THEN Cardinality(deps[t]) ELSE pendingDeps[t]]
    /\ Goto(p, "O_List")
    /\ UNCHANGED <<orderStatus, status, deps, assignedTo, usage, events,
                   readyQueue, lock, locals, faults>>

\* Mutant of ListOrderReadyTasks: the condition on the order is missing.
ListAllReadyTasks(p) ==
    /\ pc[p] = "O_List"
    /\ batch' = [batch EXCEPT ![p] = {t \in Task : status[t] = "UNASSIGNED" /\ pendingDeps[t] = 0}]
    /\ Goto(p, "O_Enqueue")
    /\ UNCHANGED <<tables, readyQueue, lock, cur, pick, orderTo, faults>>

ListOrderReadyTasks(p) ==
    /\ pc[p] = "O_List"
    /\ batch' = [batch EXCEPT ![p] =
           {t \in TasksOf(cur[p]) : status[t] = "UNASSIGNED" /\ pendingDeps[t] = 0}]
    /\ Goto(p, "O_Enqueue")
    /\ UNCHANGED <<tables, readyQueue, lock, cur, pick, orderTo, faults>>

\* The loop over readyTasks: Redis first, then the TASK_READY row.
EnqueueReady(p, t) ==
    /\ pc[p] = "O_Enqueue" /\ t \in batch[p]
    /\ readyQueue' = readyQueue \cup {t}
    /\ cur' = [cur EXCEPT ![p] = t]
    /\ batch' = [batch EXCEPT ![p] = @ \ {t}]
    /\ Goto(p, "O_Event")
    /\ UNCHANGED <<tables, lock, pick, orderTo, faults>>

InsertDomainEventNoTx(p) ==
    /\ pc[p] = "O_Event"
    /\ events' = Emit(events, "TASK_READY", {cur[p]})
    /\ Goto(p, "O_Enqueue")
    /\ UNCHANGED <<orderStatus, status, pendingDeps, deps, assignedTo, usage,
                   readyQueue, lock, locals, faults>>

ConfirmDone(p) ==
    /\ pc[p] = "O_Enqueue" /\ batch[p] = {}
    /\ Return(p)
    /\ UNCHANGED <<tables, readyQueue, lock, faults>>

-----------------------------------------------------------------------------
(* AllocateOnce, first part: requeueExpiredAssignedTasks                    *)

\* Mutant of Expirable: the requeue does not look at started_at.
ExpirableEvenStarted ==
    {t \in Task : /\ status[t] \in {"ASSIGNED", "STARTED"} /\ lock[t] = None
                  /\ events["TASK_REQUEUED"][t] < MaxRequeues}

\* ASSIGNED rows no transaction holds (SKIP LOCKED).  Which of them are older
\* than the cutoff depends on the clock: any may be.  MaxRequeues bounds it.
Expirable == {t \in Task : /\ status[t] = "ASSIGNED" /\ lock[t] = None
                           /\ events["TASK_REQUEUED"][t] < MaxRequeues}

SelectExpired(p) ==
    /\ pc[p] = "idle"
    /\ \/ /\ Goto(p, "A_Pop")
          /\ UNCHANGED <<lock, cur, batch>>
       \/ \E S \in SUBSET Expirable : \E t \in S :
             /\ Cardinality(S) <= RequeueLimit
             /\ lock' = [r \in Row |-> IF r \in S THEN p ELSE lock[r]]
             /\ cur' = [cur EXCEPT ![p] = t]
             /\ batch' = [batch EXCEPT ![p] = S \ {t}]
             /\ Goto(p, "R_Staff")
    /\ UNCHANGED <<tables, readyQueue, pick, orderTo, faults>>

\* Per task, in this order: staff, counter, machine.
RequeueStaff(p) == LockStep(p, "R_Staff", assignedTo[cur[p]], "R_Counter")

RequeueCounter(p) == LockStep(p, "R_Counter", CounterOf[cur[p]], "R_Machine")

RequeueMachine(p) ==
    /\ pc[p] = "R_Machine"
    /\ \/ /\ batch[p] = {}
          /\ Acquire(p, MachineOf[cur[p]], "R_Commit")
          /\ UNCHANGED <<cur, batch>>
       \/ \E t \in batch[p] :
             /\ Acquire(p, MachineOf[cur[p]], "R_Staff")
             /\ cur' = [cur EXCEPT ![p] = t]
             /\ batch' = [batch EXCEPT ![p] = @ \ {t}]
    /\ UNCHANGED <<tables, readyQueue, pick, orderTo, faults>>

\* Mutant of FreedMachines: the requeue forgets the machine.
KeptMachines(S) == machineUse

\* What the requeue of the tasks of S leaves of the counters.
FreedCounters(S) == [c \in Counter |->
    AtLeastZero(counterUse[c] - Cardinality({t \in S : CounterOf[t] = c}))]
FreedMachines(S) == [m \in Machine |->
    AtLeastZero(machineUse[m] - Cardinality({t \in S : MachineOf[t] = m}))]
FreedStaff(S) == [s \in Staff |->
    AtLeastZero(activeTasks[s] - Cardinality({t \in S : assignedTo[t] = s}))]

RequeueCommit(p) ==
    LET S == LockedTasks(p) IN
    /\ pc[p] = "R_Commit"
    /\ status' = [t \in Task |-> IF t \in S THEN "UNASSIGNED" ELSE status[t]]
    /\ assignedTo' = [t \in Task |-> IF t \in S THEN None ELSE assignedTo[t]]
    /\ counterUse' = FreedCounters(S)
    /\ machineUse' = FreedMachines(S)
    /\ activeTasks' = FreedStaff(S)
    /\ events' = Emit(events, "TASK_REQUEUED", S)
    /\ ReleaseLocks(p)
    /\ cur' = [cur EXCEPT ![p] = None]
    /\ batch' = [batch EXCEPT ![p] = S]
    /\ Goto(p, "R_Enqueue")
    /\ UNCHANGED <<orderStatus, pendingDeps, deps, readyQueue, pick, orderTo, faults>>

\* The Redis half of the requeue, after the commit.
RequeueEnqueue(p, t) ==
    /\ pc[p] = "R_Enqueue" /\ t \in batch[p]
    /\ readyQueue' = readyQueue \cup {t}
    /\ batch' = [batch EXCEPT ![p] = @ \ {t}]
    /\ Goto(p, IF batch[p] = {t} THEN "A_Pop" ELSE "R_Enqueue")
    /\ UNCHANGED <<tables, lock, cur, pick, orderTo, faults>>

-----------------------------------------------------------------------------
(* AllocateOnce, second part: one transaction per popped task               *)

\* ZPOPMIN.  Scores are left out: any PopLimit members may be the lowest.
PopTopN(p) ==
    /\ pc[p] = "A_Pop"
    /\ \/ /\ readyQueue = {}
          /\ Return(p)
          /\ UNCHANGED readyQueue
       \/ \E B \in SUBSET readyQueue :
             /\ B # {}
             /\ IF Cardinality(readyQueue) <= PopLimit
                THEN B = readyQueue ELSE Cardinality(B) = PopLimit
             /\ batch' = [batch EXCEPT ![p] = B]
             /\ readyQueue' = readyQueue \ B
             /\ Goto(p, "A_Loop")
             /\ UNCHANGED <<cur, pick, orderTo>>
    /\ UNCHANGED <<tables, lock, faults>>

\* End of one iteration: the next id, or the end of the loop.
NextIteration(p) ==
    IF batch[p] = {} THEN Return(p)
    ELSE /\ Goto(p, "A_Loop")
         /\ cur' = [cur EXCEPT ![p] = None]
         /\ pick' = [pick EXCEPT ![p] = None]
         /\ orderTo' = [orderTo EXCEPT ![p] = "NONE"]
         /\ UNCHANGED batch

\* The transaction returns an error and is rolled back.
AllocRollback(p) ==
    /\ ReleaseLocks(p)
    /\ Goto(p, "A_Recheck")
    /\ pick' = [pick EXCEPT ![p] = None]
    /\ orderTo' = [orderTo EXCEPT ![p] = "NONE"]

Assignable(t) == status[t] = "UNASSIGNED" /\ pendingDeps[t] = 0

LockTaskForAssignment(p, t) ==
    /\ pc[p] = "A_Loop" /\ t \in batch[p]
    /\ cur' = [cur EXCEPT ![p] = t]
    /\ batch' = [batch EXCEPT ![p] = @ \ {t}]
    /\ IF Assignable(t) /\ lock[t] = None
       THEN Acquire(p, t, "A_LockCounter")
       ELSE Goto(p, "A_Recheck") /\ UNCHANGED lock
    /\ UNCHANGED <<tables, readyQueue, pick, orderTo, faults>>

\* Mutant of CounterHasRoom: off by one in the counter busy check.
CounterHasRoomOffByOne(c) == counterUse[c] <= CounterCap[c]

CounterHasRoom(c) == counterUse[c] < CounterCap[c]

LockCounter(p) ==
    LET c == CounterOf[cur[p]] IN
    /\ pc[p] = "A_LockCounter" /\ lock[c] = None
    /\ IF CounterHasRoom(c)
       THEN Acquire(p, c, "A_FindStaff") /\ UNCHANGED <<pick, orderTo>>
       ELSE AllocRollback(p)
    /\ UNCHANGED <<tables, readyQueue, cur, batch, faults>>

\* An unlocked read of staff.  Shifts and breaks are columns no handler
\* writes: whoever has the skill and room may or may not be on duty.
Eligible(c) == {s \in Staff : <<s, c>> \in Skills /\ activeTasks[s] < MaxParallel[s]}

FindEligibleStaff(p) ==
    /\ pc[p] = "A_FindStaff"
    /\ \/ \E s \in Eligible(CounterOf[cur[p]]) :
             /\ pick' = [pick EXCEPT ![p] = s]
             /\ Goto(p, "A_LockMachine")
             /\ UNCHANGED <<lock, orderTo>>
       \/ AllocRollback(p)
    /\ UNCHANGED <<tables, readyQueue, cur, batch, faults>>

MachineHasRoom(m) == machineUse[m] < MachineCap[m]

\* SKIP LOCKED: a machine another transaction holds counts as absent, and so
\* does one that is down (is_up, which no handler writes).
LockMachineForTask(p) ==
    LET m == MachineOf[cur[p]] IN
    /\ pc[p] = "A_LockMachine"
    /\ \/ /\ lock[m] = None /\ HomeCounter[m] = CounterOf[cur[p]] /\ MachineHasRoom(m)
          /\ Acquire(p, m, "A_LockStaff")
          /\ UNCHANGED <<pick, orderTo>>
       \/ AllocRollback(p)
    /\ UNCHANGED <<tables, readyQueue, cur, batch, faults>>

\* The row LockStaff returns is discarded: active_tasks is not read again.
LockStaff(p) == LockStep(p, "A_LockStaff", pick[p], "A_MarkOrder")

\* Mutant of MarkOrderInProgressIfConfirmed: the UPDATE has no status condition.
MarkOrderInProgress(p) ==
    /\ pc[p] = "A_MarkOrder"
    /\ Acquire(p, OrderOf[cur[p]], "A_Commit")
    /\ orderTo' = [orderTo EXCEPT ![p] = "IN_PROGRESS"]
    /\ UNCHANGED <<tables, readyQueue, cur, batch, pick, faults>>

\* An UPDATE whose WHERE clause does not match locks nothing.
MarkOrderInProgressIfConfirmed(p) ==
    LET o == OrderOf[cur[p]] IN
    /\ pc[p] = "A_MarkOrder"
    /\ IF orderStatus[o] = "CONFIRMED"
       THEN /\ Acquire(p, o, "A_Commit")
            /\ orderTo' = [orderTo EXCEPT ![p] = "IN_PROGRESS"]
       ELSE Goto(p, "A_Commit") /\ UNCHANGED <<lock, orderTo>>
    /\ UNCHANGED <<tables, readyQueue, cur, batch, pick, faults>>

\* UpdateTaskAssignment, the three increments and TASK_ASSIGNED take effect.
AllocCommit(p) ==
    LET t == cur[p] IN
    /\ pc[p] = "A_Commit"
    /\ status' = [status EXCEPT ![t] = "ASSIGNED"]
    /\ assignedTo' = [assignedTo EXCEPT ![t] = pick[p]]
    /\ counterUse' = [counterUse EXCEPT ![CounterOf[t]] = @ + 1]
    /\ machineUse' = [machineUse EXCEPT ![MachineOf[t]] = @ + 1]
    /\ activeTasks' = [activeTasks EXCEPT ![pick[p]] = @ + 1]
    /\ orderStatus' = OrdersAfter(p)
    /\ events' = Emit(events, "TASK_ASSIGNED", {t})
    /\ ReleaseLocks(p)
    /\ NextIteration(p)
    /\ UNCHANGED <<pendingDeps, deps, readyQueue, faults>>

\* Mutant of StillUnassigned: only tasks that look ready go back to the queue.
StillReady(t) == status[t] = "UNASSIGNED" /\ pendingDeps[t] = 0

StillUnassigned(t) == status[t] = "UNASSIGNED"

\* After an error: GetTaskByID outside the transaction, then Enqueue.
RecheckTask(p) ==
    /\ pc[p] = "A_Recheck"
    /\ IF StillUnassigned(cur[p])
       THEN Goto(p, "A_Reenqueue") /\ UNCHANGED locals
       ELSE NextIteration(p)
    /\ UNCHANGED <<tables, readyQueue, lock, faults>>

Reenqueue(p) ==
    /\ pc[p] = "A_Reenqueue"
    /\ readyQueue' = readyQueue \cup {cur[p]}
    /\ NextIteration(p)
    /\ UNCHANGED <<tables, lock, faults>>

-----------------------------------------------------------------------------
(* StartTask: one row, one transaction                                      *)

StartTask(t) ==
    /\ lock[t] = None /\ status[t] = "ASSIGNED"
    /\ status' = [status EXCEPT ![t] = "STARTED"]
    /\ events' = Emit(events, "TASK_STARTED", {t})
    /\ UNCHANGED <<orderStatus, pendingDeps, deps, assignedTo, usage, readyQueue,
                   lock, pc, locals, faults>>

-----------------------------------------------------------------------------
(* CompleteTask: one transaction, with Redis commands inside it             *)

UpdateTaskStatusCompleted(p, t) ==
    /\ pc[p] = "idle" /\ lock[t] = None /\ status[t] = "STARTED"
    /\ Acquire(p, t, "C_Counter")
    /\ cur' = [cur EXCEPT ![p] = t]
    /\ UNCHANGED <<tables, readyQueue, batch, pick, orderTo, faults>>

\* Mutant of ReleaseCounter: the staff row is updated before the machine.
ReleaseStaffFirst(p) == LockStep(p, "C_Counter", assignedTo[cur[p]], "C_Machine")

ReleaseCounter(p) == LockStep(p, "C_Counter", CounterOf[cur[p]], "C_Machine")

ReleaseMachine(p) == LockStep(p, "C_Machine", MachineOf[cur[p]], "C_Staff")

UpdateStaffEfficiencyAndActive(p) == LockStep(p, "C_Staff", assignedTo[cur[p]], "C_Children")

\* Rows the UPDATE of DecrementDependentPendingDeps matches.
Children(t) == {k \in Task : t \in deps[k] /\ status[k] = "UNASSIGNED"}

\* Mutants of Decremented: every open task of the order is decremented, without
\* GREATEST; the first completed dependency releases the child.
DecrementedOrderWide(t, k) ==
    IF OrderOf[k] = OrderOf[t] /\ status[k] = "UNASSIGNED" THEN pendingDeps[k] - 1
    ELSE pendingDeps[k]
DecrementedToZero(t, k) == IF k \in Children(t) THEN 0 ELSE pendingDeps[k]

\* pending_deps of task k once t is completed.
Decremented(t, k) == IF k \in Children(t) THEN AtLeastZero(pendingDeps[k] - 1)
                     ELSE pendingDeps[k]

\* The SELECT that follows sees the transaction's own UPDATE.
ReadyChildren(t) == {k \in Children(t) : Decremented(t, k) = 0}

\* The UPDATE locks the matching rows one after the other.
LockChild(p, k) ==
    /\ k \in Children(cur[p]) /\ lock[k] # p
    /\ LockStep(p, "C_Children", k, "C_Children")

DecrementDependentPendingDeps(p) ==
    /\ pc[p] = "C_Children"
    /\ \A k \in Children(cur[p]) : lock[k] = p
    /\ batch' = [batch EXCEPT ![p] = ReadyChildren(cur[p])]
    /\ Goto(p, IF ReadyChildren(cur[p]) = {} THEN "C_MarkOrder" ELSE "C_Enqueue")
    /\ UNCHANGED <<tables, readyQueue, lock, cur, pick, orderTo, faults>>

\* Redis does not wait for the commit of the transaction.
EnqueueChild(p, k) ==
    /\ pc[p] = "C_Enqueue" /\ k \in batch[p]
    /\ readyQueue' = readyQueue \cup {k}
    /\ batch' = [batch EXCEPT ![p] = @ \ {k}]
    /\ Goto(p, IF batch[p] = {k} THEN "C_MarkOrder" ELSE "C_Enqueue")
    /\ UNCHANGED <<tables, lock, cur, pick, orderTo, faults>>

NotDone == {"CONFIRMED", "IN_PROGRESS"}

MarkOrderPartCompletedIfNotDone(p) ==
    LET o == OrderOf[cur[p]] IN
    /\ pc[p] = "C_MarkOrder"
    /\ IF orderStatus[o] \in NotDone
       THEN /\ Acquire(p, o, "C_Count")
            /\ orderTo' = [orderTo EXCEPT ![p] = "PART_COMPLETED"]
       ELSE Goto(p, "C_Count") /\ UNCHANGED <<lock, orderTo>>
    /\ UNCHANGED <<tables, readyQueue, cur, batch, pick, faults>>

\* Mutant of OtherTasksDone: tasks nobody works on do not count as open.
NoneInProgress(t) ==
    \A u \in TasksOf(OrderOf[t]) \ {t} : status[u] \notin {"ASSIGNED", "STARTED"}

\* COUNT of the order's open tasks is 0: the transaction sees its own update
\* of t and the committed rows of the others.
OtherTasksDone(t) == \A u \in TasksOf(OrderOf[t]) \ {t} : status[u] = "COMPLETED"

CountRemaining(p) ==
    /\ pc[p] = "C_Count"
    /\ Goto(p, IF OtherTasksDone(cur[p]) THEN "C_Finish" ELSE "C_Commit")
    /\ UNCHANGED <<tables, readyQueue, lock, locals, faults>>

CompleteOrder(p) ==
    LET o == OrderOf[cur[p]] IN
    /\ pc[p] = "C_Finish"
    /\ IF orderStatus[o] # "COMPLETED"
       THEN /\ Acquire(p, o, "C_Commit")
            /\ orderTo' = [orderTo EXCEPT ![p] = "COMPLETED"]
       ELSE Goto(p, "C_Commit") /\ UNCHANGED <<lock, orderTo>>
    /\ UNCHANGED <<tables, readyQueue, cur, batch, pick, faults>>

CompleteCommit(p) ==
    LET t == cur[p] IN
    /\ pc[p] = "C_Commit"
    /\ status' = [status EXCEPT ![t] = "COMPLETED"]
    /\ pendingDeps' = [k \in Task |-> Decremented(t, k)]
    /\ counterUse' = [counterUse EXCEPT ![CounterOf[t]] = AtLeastZero(@ - 1)]
    /\ machineUse' = [machineUse EXCEPT ![MachineOf[t]] = AtLeastZero(@ - 1)]
    /\ activeTasks' = [activeTasks EXCEPT ![assignedTo[t]] = AtLeastZero(@ - 1)]
    /\ orderStatus' = OrdersAfter(p)
    /\ events' = Emit(Emit(events, "TASK_READY", ReadyChildren(t)), "TASK_COMPLETED", {t})
    /\ ReleaseLocks(p)
    /\ Return(p)
    /\ UNCHANGED <<deps, assignedTo, readyQueue, faults>>

-----------------------------------------------------------------------------
(* Failures                                                                 *)

\* The database ends an open transaction with an error: deadlock victim,
\* a lock timeout, a failed statement, a failed Redis
\* command inside CompleteTask.  The rows go back; Redis does not.
Abort(p) ==
    \/ /\ pc[p] \in AllocTx
       /\ AllocRollback(p)
       /\ UNCHANGED <<tables, readyQueue, cur, batch, faults>>
    \/ /\ pc[p] \in RequeueTx \cup CompleteTx
       /\ ReleaseLocks(p)
       /\ Return(p)
       /\ UNCHANGED <<tables, readyQueue, faults>>

\* The call ends where it is and does nothing more: its process dies, its
\* context is cancelled, or a call outside a transaction fails and the
\* handler returns the error.
Crash(p) ==
    /\ pc[p] # "idle" /\ faults < MaxFaults
    /\ ReleaseLocks(p)
    /\ Return(p)
    /\ faults' = faults + 1
    /\ UNCHANGED <<tables, readyQueue>>

\* GetTaskByID or the second Enqueue fails: AllocateOnce ignores both errors
\* and goes on with the next id.
RecheckFails(p) ==
    /\ pc[p] \in {"A_Recheck", "A_Reenqueue"} /\ faults < MaxFaults
    /\ NextIteration(p)
    /\ faults' = faults + 1
    /\ UNCHANGED <<tables, readyQueue, lock>>

-----------------------------------------------------------------------------
ConfirmStep(p) ==
    \/ \E o \in Order : CreateOrderWithTasks(p, o)
    \/ InsertTaskDependencies(p)
    \/ RecalculatePendingDepsForOrder(p)
    \/ ListOrderReadyTasks(p)
    \/ \E t \in Task : EnqueueReady(p, t)
    \/ InsertDomainEventNoTx(p)
    \/ ConfirmDone(p)

RequeueStep(p) ==
    \/ SelectExpired(p)
    \/ RequeueStaff(p)
    \/ RequeueCounter(p)
    \/ RequeueMachine(p)
    \/ RequeueCommit(p)
    \/ \E t \in Task : RequeueEnqueue(p, t)

AllocStep(p) ==
    \/ PopTopN(p)
    \/ \E t \in Task : LockTaskForAssignment(p, t)
    \/ LockCounter(p)
    \/ FindEligibleStaff(p)
    \/ LockMachineForTask(p)
    \/ LockStaff(p)
    \/ MarkOrderInProgressIfConfirmed(p)
    \/ AllocCommit(p)
    \/ RecheckTask(p)
    \/ Reenqueue(p)

CompleteStep(p) ==
    \/ \E t \in Task : UpdateTaskStatusCompleted(p, t)
    \/ ReleaseCounter(p)
    \/ ReleaseMachine(p)
    \/ UpdateStaffEfficiencyAndActive(p)
    \/ \E k \in Task : LockChild(p, k)
    \/ DecrementDependentPendingDeps(p)
    \/ \E k \in Task : EnqueueChild(p, k)
    \/ MarkOrderPartCompletedIfNotDone(p)
    \/ CountRemaining(p)
    \/ CompleteOrder(p)
    \/ CompleteCommit(p)

Fault(p) == Abort(p) \/ Crash(p) \/ RecheckFails(p)

Step(p) == ConfirmStep(p) \/ RequeueStep(p) \/ AllocStep(p) \/ CompleteStep(p) \/ Fault(p)

Next == (\E p \in Proc : Step(p)) \/ (\E t \in Task : StartTask(t))

Spec == Init /\ [][Next]_vars

-----------------------------------------------------------------------------
(* Properties                                                               *)

Occupying == {"ASSIGNED", "STARTED"}
AtCounter(c) == {t \in Task : CounterOf[t] = c /\ status[t] \in Occupying}
AtMachine(m) == {t \in Task : MachineOf[t] = m /\ status[t] \in Occupying}
WithStaff(s) == {t \in Task : assignedTo[t] = s /\ status[t] \in Occupying}

\* The in_use and active_tasks columns, kept by increments and decrements in
\* AllocateOnce, CompleteTask and RequeueExpiredAssignedTasks, always equal
\* the number of tasks that are ASSIGNED or STARTED there: no interleaving,
\* rollback or crash leaks a slot or frees one twice.
ResourceAccounting ==
    /\ \A c \in Counter : counterUse[c] = Cardinality(AtCounter(c))
    /\ \A m \in Machine : machineUse[m] = Cardinality(AtMachine(m))
    /\ \A s \in Staff : activeTasks[s] = Cardinality(WithStaff(s))

\* Concurrent calls of AllocateOnce never put more tasks on a counter or a
\* machine than its capacity: the check and the increment are made under the
\* row locks of LockCounter and LockMachineForTask.
CapacityRespected ==
    /\ \A c \in Counter : Cardinality(AtCounter(c)) <= CounterCap[c]
    /\ \A m \in Machine : Cardinality(AtMachine(m)) <= MachineCap[m]

\* AllocateOnce assigns a task only when every task it depends on is
\* COMPLETED, although ConfirmOrder creates the tasks with pending_deps = 0,
\* CompleteTask enqueues children before it commits, and a rolled back
\* CompleteTask leaves them in the queue.
DependencyGating ==
    \A t \in Task : status[t] \in Occupying \cup {"COMPLETED"}
        => \A d \in DependsOn[t] : status[d] = "COMPLETED"

\* The rows of domain_events, written in the transactions of AllocateOnce,
\* StartTask, CompleteTask and the requeue, tell the state of the task: one
\* assignment more than requeues iff it is held, one start and one completion
\* at most, TASK_READY never twice.
OutboxMatchesState ==
    \A t \in Task :
        /\ events["TASK_ASSIGNED"][t] =
              events["TASK_REQUEUED"][t]
              + (IF status[t] \in Occupying \cup {"COMPLETED"} THEN 1 ELSE 0)
        /\ events["TASK_STARTED"][t] =
              (IF status[t] \in {"STARTED", "COMPLETED"} THEN 1 ELSE 0)
        /\ events["TASK_COMPLETED"][t] = (IF status[t] = "COMPLETED" THEN 1 ELSE 0)
        /\ events["TASK_READY"][t] <= 1

\* orders.status, written by conditional UPDATEs of AllocateOnce and
\* CompleteTask, never claims more than the tasks show, and shows the first
\* assignment and the first completion as soon as they are committed.
OrderStatusSound ==
    \A o \in Order :
        LET done == {t \in TasksOf(o) : status[t] = "COMPLETED"} IN
        /\ orderStatus[o] = "COMPLETED" => done = TasksOf(o)
        /\ orderStatus[o] = "CONFIRMED" => \A t \in TasksOf(o) : status[t] = "UNASSIGNED"
        /\ orderStatus[o] \in {"PART_COMPLETED", "COMPLETED"} <=> done # {}

Stage == [s \in OrderStatus |->
    CASE s = "NONE" -> 0 [] s = "CONFIRMED" -> 1 [] s = "IN_PROGRESS" -> 2
      [] s = "PART_COMPLETED" -> 3 [] s = "COMPLETED" -> 4]

\* No commit of AllocateOnce or CompleteTask takes an order back to an
\* earlier status, whatever it had read before it waited for the order row.
OrderNeverRegresses ==
    [][\A o \in Order : Stage[orderStatus'[o]] >= Stage[orderStatus[o]]]_vars

\* The task is in the hands of a call that will enqueue it or try to assign
\* it: ConfirmOrder before its loop reaches it, the requeue after its commit,
\* AllocateOnce after the pop.
InHand(t) ==
    \E p \in Proc :
        \/ pc[p] \in {"O_Deps", "O_Recalc", "O_List"} /\ cur[p] = OrderOf[t]
        \/ pc[p] \in {"O_Enqueue", "O_Event", "R_Enqueue"} /\ t \in batch[p]
        \/ /\ pc[p] \in AllocTx \cup {"A_Loop", "A_Recheck", "A_Reenqueue"}
           /\ t = cur[p] \/ t \in batch[p]

\* Unless a call has been cut short by an infrastructure fault, a task that is
\* UNASSIGNED with pending_deps = 0 is in the ready queue or in the hands of
\* a call: nothing scans the tasks table, so AllocateOnce would never find it
\* otherwise.
NoReadyTaskStranded ==
    faults = 0 => \A t \in Task : Assignable(t) => t \in readyQueue \/ InHand(t)

\* Rows p's next statement may have to wait for.
WantedRows(p) ==
    CASE pc[p] \in {"A_LockCounter", "R_Counter", "C_Counter"} -> {CounterOf[cur[p]]}
      [] pc[p] \in {"R_Machine", "C_Machine"} -> {MachineOf[cur[p]]}
      [] pc[p] = "A_LockStaff" -> {pick[p]}
      [] pc[p] \in {"R_Staff", "C_Staff"} -> {assignedTo[cur[p]]}
      [] pc[p] = "C_Children" -> Children(cur[p])
      [] pc[p] \in {"A_MarkOrder", "C_MarkOrder", "C_Finish"} -> {OrderOf[cur[p]]}
      [] OTHER -> {}

\* A group of calls each of which waits for a row another of them holds.
Stuck(D) == D # {} /\ \A p \in D : \E r \in WantedRows(p) : lock[r] \in D \ {p}

\* Allocations and completions take their row locks in one order (task,
\* counter, machine, staff, children, order).  Only the UPDATE of
\* DecrementDependentPendingDeps, which has no ORDER BY, can meet another one
\* on two common children in the opposite order: whenever such calls wait for
\* each other, there is a circle of completions at that statement, and nowhere
\* else.  A requeue, which begins with the staff, may be part of any circle.
NoLockCycle ==
    \A D \in SUBSET {p \in Proc : pc[p] \notin RequeueTx} :
        Stuck(D) => \E E \in SUBSET D : Stuck(E) /\ \A p \in E : pc[p] = "C_Children"

\* README: a task is assignable only to staff below max parallel.
StaffBelowMaxParallel == \A s \in Staff : activeTasks[s] <= MaxParallel[s]

\* README: an order is COMPLETED when all its tasks are completed.
OrderCompletedWhenAllDone ==
    \A o \in Order :
        orderStatus[o] # "NONE" /\ (\A t \in TasksOf(o) : status[t] = "COMPLETED")
            => orderStatus[o] = "COMPLETED"

\* README: stale assigned tasks are requeued atomically, with their event.
RequeueReachesQueue ==
    \A t \in Task : events["TASK_REQUEUED"][t] > 0 /\ status[t] = "UNASSIGNED"
        => t \in readyQueue \/ InHand(t)

-----------------------------------------------------------------------------
(* The inductive invariants: IInv behind ResourceAccounting and               *)
(* CapacityRespected, DepsInv behind DependencyGating, OrderInv behind        *)
(* OrderStatusSound and OrderNeverRegresses, EventsInv behind                 *)
(* OutboxMatchesState, QueueInv behind NoReadyTaskStranded, LocksInv behind   *)
(* NoLockCycle                                                                *)

\* The local variables hold what the next statement of p needs.
LocalsOK(p) ==
    /\ pc[p] \in {"O_Deps", "O_Recalc", "O_List"} => cur[p] \in Order
    /\ pc[p] \in OpenTx \cup {"A_Recheck", "A_Reenqueue"} => cur[p] \in Task
    /\ pc[p] \in {"A_LockMachine", "A_LockStaff", "A_MarkOrder", "A_Commit"}
          => pick[p] \in Staff /\ <<pick[p], CounterOf[cur[p]]>> \in Skills
    /\ pc[p] \in {"A_LockStaff", "A_MarkOrder", "A_Commit"}
          => HomeCounter[MachineOf[cur[p]]] = CounterOf[cur[p]]

\* Only an open transaction holds locks.
LocksOK(p) == \A r \in Row : lock[r] = p => pc[p] \in OpenTx

\* The task a transaction works on is locked, and stays in the status in
\* which the transaction found it.
HeldTasks(p) ==
    /\ pc[p] \in AllocTx => lock[cur[p]] = p /\ status[cur[p]] = "UNASSIGNED"
    /\ pc[p] \in CompleteTx => lock[cur[p]] = p /\ status[cur[p]] = "STARTED"
    /\ pc[p] \in RequeueTx => \A t \in LockedTasks(p) : status[t] = "ASSIGNED"

\* The room AllocateOnce saw under a row lock is still there at its commit.
RoomKept(p) ==
    /\ pc[p] \in AllocTx \ {"A_LockCounter"} =>
          /\ lock[CounterOf[cur[p]]] = p
          /\ counterUse[CounterOf[cur[p]]] < CounterCap[CounterOf[cur[p]]]
    /\ pc[p] \in {"A_LockStaff", "A_MarkOrder", "A_Commit"} =>
          /\ lock[MachineOf[cur[p]]] = p
          /\ machineUse[MachineOf[cur[p]]] < MachineCap[MachineOf[cur[p]]]

CallOK(p) == LocalsOK(p) /\ LocksOK(p) /\ HeldTasks(p) /\ RoomKept(p)

\* Tasks exist with their order, and have a staff id from the assignment on.
RowsOK ==
    \A t \in Task :
        /\ orderStatus[OrderOf[t]] = "NONE" <=> status[t] = "NONE"
        /\ assignedTo[t] \in Staff <=> status[t] \in Occupying \cup {"COMPLETED"}

UseBounded ==
    /\ \A c \in Counter : counterUse[c] <= CounterCap[c]
    /\ \A m \in Machine : machineUse[m] <= MachineCap[m]

IInv == /\ TypeOK /\ RowsOK /\ UseBounded /\ ResourceAccounting
        /\ \A p \in Proc : CallOK(p)

\* The dependencies of t are in the tables, and pending_deps counts the open ones.
Linked(t) ==
    /\ deps[t] = DependsOn[t]
    /\ pendingDeps[t] = Cardinality({d \in DependsOn[t] : status[d] # "COMPLETED"})

\* AllocateOnce may come across the task, or already has.
Touched(t) ==
    \/ t \in readyQueue
    \/ status[t] \in Occupying \cup {"COMPLETED"}
    \/ \E p \in Proc : t \in batch[p] \/ t = cur[p]

\* As created: no pending_deps, and unknown to the queue and to other calls.
Fresh(t) == pendingDeps[t] = 0 /\ ~ Touched(t)

\* The order p is still setting up, before any of its tasks is enqueued.
SettingUp(p, o) == pc[p] \in {"O_Deps", "O_Recalc", "O_List"} /\ cur[p] = o

\* A task is enqueued only after all dependencies of its order are linked;
\* until then ConfirmOrder alone works on the order.
DepsInv ==
    /\ DependencyGating
    /\ \A t \in Task : /\ deps[t] \subseteq DependsOn[t]
                       /\ status[t] = "NONE" => Fresh(t) /\ deps[t] = {}
                       /\ Touched(t) => \A u \in TasksOf(OrderOf[t]) : Linked(u)
    /\ \A p \in Proc :
          /\ \A t \in Task : SettingUp(p, OrderOf[t]) =>
                /\ Fresh(t) \/ pc[p] = "O_List"
                /\ pc[p] = "O_Recalc" => deps[t] = DependsOn[t]
                /\ pc[p] = "O_List" => Linked(t)
                /\ status[t] # "NONE"
                /\ \A q \in Proc \ {p} : ~ SettingUp(q, OrderOf[t])
          /\ pc[p] \in AllocTx => pendingDeps[cur[p]] = 0

\* What the open transaction of p makes of the order of its task is a step
\* forward from the status the order has now; a conditional UPDATE that did
\* not match has nothing to do.
OrderWrite(p) ==
    LET o == OrderOf[cur[p]] IN
    /\ orderTo[p] # "NONE" =>
          /\ lock[o] = p
          /\ \/ /\ orderTo[p] = "IN_PROGRESS" /\ pc[p] = "A_Commit"
                /\ orderStatus[o] = "CONFIRMED"
             \/ /\ orderTo[p] = "PART_COMPLETED" /\ pc[p] \in {"C_Count", "C_Finish", "C_Commit"}
                /\ orderStatus[o] \in NotDone
             \/ /\ orderTo[p] = "COMPLETED" /\ pc[p] = "C_Commit"
                /\ OtherTasksDone(cur[p])
    /\ pc[p] = "A_Commit" /\ orderTo[p] = "NONE" => orderStatus[o] # "CONFIRMED"
    /\ pc[p] \in {"C_Count", "C_Finish", "C_Commit"} /\ orderTo[p] = "NONE"
          => orderStatus[o] \in {"PART_COMPLETED", "COMPLETED"}
    /\ pc[p] = "C_Finish" => OtherTasksDone(cur[p])

OrderInv == OrderStatusSound /\ \A p \in Proc : OrderWrite(p)

\* Tasks for which ConfirmOrder has still to write the TASK_READY row.
Owed(p) == {t \in Task : \/ pc[p] \in {"O_Enqueue", "O_Event"} /\ t \in batch[p]
                         \/ pc[p] = "O_Event" /\ t = cur[p]}

\* TASK_READY is written by ConfirmOrder for tasks without dependencies, each
\* in the hands of one call, and by CompleteTask for the others, at the commit
\* of their last dependency.
EventsInv ==
    /\ OutboxMatchesState
    /\ \A t \in Task :
          /\ status[t] = "NONE" => events["TASK_READY"][t] = 0
          /\ events["TASK_READY"][t] = 1 => \A d \in DependsOn[t] : status[d] = "COMPLETED"
    /\ \A p \in Proc :
          /\ \A t \in Task : SettingUp(p, OrderOf[t]) =>
                ~ Touched(t) /\ events["TASK_READY"][t] = 0
          /\ \A t \in Owed(p) : DependsOn[t] = {} /\ events["TASK_READY"][t] = 0
          /\ pc[p] = "O_Event" => cur[p] \notin batch[p]
          /\ \A q \in Proc \ {p} : Owed(p) \cap Owed(q) = {}

\* CompleteTask after DecrementDependentPendingDeps.
Releasing(p) == pc[p] \in {"C_Enqueue", "C_MarkOrder", "C_Count", "C_Finish", "C_Commit"}

\* A task will be found again: it is in the queue or in the hands of a call.
Findable(t) == t \in readyQueue \/ InHand(t)

\* The children a completion makes ready are enqueued before its commit, and
\* who pops them earlier puts them back: their rows are locked and UNASSIGNED.
QueueInv ==
    /\ NoReadyTaskStranded
    /\ \A p \in Proc : pc[p] \in {"idle", "R_Enqueue", "A_Pop", "A_Loop"} => cur[p] = None
    /\ \A p \in Proc : Releasing(p) =>
          /\ \A k \in Children(cur[p]) : lock[k] = p
          /\ faults = 0 => \A k \in ReadyChildren(cur[p]) :
                              Findable(k) \/ (pc[p] = "C_Enqueue" /\ k \in batch[p])

\* Row r comes before the one the next statement of p locks.
MayHold(p, r) ==
    /\ r \in Counter => pc[p] \notin {"A_LockCounter", "C_Counter"}
    /\ r \in Machine => pc[p] \notin {"A_LockCounter", "A_FindStaff", "A_LockMachine",
                                     "C_Counter", "C_Machine"}
    /\ r \in Staff => pc[p] \in {"A_MarkOrder", "A_Commit", "C_Children"} \/ Releasing(p)
    /\ r \in Order => /\ pc[p] \in {"A_Commit", "C_Count", "C_Finish", "C_Commit"}
                      /\ r = OrderOf[cur[p]]
    /\ r \in Task => \/ r = cur[p]
                     \/ cur[p] \in deps[r] /\ (pc[p] = "C_Children" \/ Releasing(p))

\* Allocations and completions hold their rows in the order of the statements.
LocksInv ==
    \A p \in Proc : \A r \in Row :
        lock[r] = p /\ pc[p] \notin RequeueTx => MayHold(p, r)

=============================================================================
