---------------------------- MODULE KitchenProofs ----------------------------
(***************************************************************************)
(* Proofs about the scheduler, for every kitchen, every recipe and any     *)
(* number of concurrent calls: its resources (IInv), and the dependencies  *)
(* of its tasks (DepsInv), by which it implements the task board.          *)
(*                                                                         *)
(* The argument: a transaction holds the row of the task it works on and   *)
(* the rows of the counter and machine it has checked, no one else writes  *)
(* a row that is held (HeldStable, UseGrowsUnderLock), so at its commit    *)
(* the status and the room it has read are still there (OwnCall,           *)
(* OtherCall), and the commit changes counters and tasks together          *)
(* (AccountingStep).                                                       *)
(*                                                                         *)
(* DepsInv says that a task the queue or any call knows of belongs to an   *)
(* order whose dependencies are all linked, with pending_deps counting the *)
(* open ones.  So pending_deps = 0, which AllocateOnce reads under the     *)
(* lock of the task, means that the dependencies are completed             *)
(* (GatingStep), and with the accounting its commit is an assignment of    *)
(* the board (AllocIsAssign).                                              *)
(***************************************************************************)
EXTENDS KitchenBoard, TLAPS, FiniteSetTheorems

-----------------------------------------------------------------------------
(* Counters, machines and staff                                             *)

\* Sets of tasks are finite: the counters that count them are numbers.
LEMMA FinitePart ==
  ASSUME NEW S \in SUBSET Task
  PROVE  IsFiniteSet(S) /\ Cardinality(S) \in Nat
BY FiniteTables, FS_Subset, FS_CardinalityType

\* What RequeueExpiredAssignedTasks leaves in in_use and active_tasks are
\* numbers again.
LEMMA FreedType ==
  ASSUME TypeOK, NEW S \in SUBSET Task
  PROVE  /\ FreedCounters(S) \in [Counter -> Nat]
         /\ FreedMachines(S) \in [Machine -> Nat]
         /\ FreedStaff(S) \in [Staff -> Nat]
<1>1. ASSUME NEW c \in Counter
      PROVE  AtLeastZero(counterUse[c] - Cardinality({t \in S : CounterOf[t] = c})) \in Nat
  <2>1. Cardinality({t \in S : CounterOf[t] = c}) \in Nat
    BY FinitePart
  <2> QED BY <2>1 DEF TypeOK, AtLeastZero
<1>2. ASSUME NEW m \in Machine
      PROVE  AtLeastZero(machineUse[m] - Cardinality({t \in S : MachineOf[t] = m})) \in Nat
  <2>1. Cardinality({t \in S : MachineOf[t] = m}) \in Nat
    BY FinitePart
  <2> QED BY <2>1 DEF TypeOK, AtLeastZero
<1>3. ASSUME NEW s \in Staff
      PROVE  AtLeastZero(activeTasks[s] - Cardinality({t \in S : assignedTo[t] = s})) \in Nat
  <2>1. Cardinality({t \in S : assignedTo[t] = s}) \in Nat
    BY FinitePart
  <2> QED BY <2>1 DEF TypeOK, AtLeastZero
<1> QED BY <1>1, <1>2, <1>3 DEF FreedCounters, FreedMachines, FreedStaff

\* Inserting rows into domain_events keeps its type.
LEMMA EmitType ==
  ASSUME NEW log \in [EventType -> [Task -> Nat]], NEW e \in EventType, NEW S
  PROVE  Emit(log, e, S) \in [EventType -> [Task -> Nat]]
BY DEF Emit

\* What the steps' building blocks do to the types of the variables they set.
\* Going to the next statement.
LEMMA GotoType ==
  ASSUME TypeOK, NEW p \in Proc, NEW l \in Label, Goto(p, l)
  PROVE  pc' \in [Proc -> Label]
BY DEF TypeOK, Goto

\* Locking a row.
LEMMA AcquireType ==
  ASSUME TypeOK, NEW p \in Proc, NEW r, NEW l \in Label, Acquire(p, r, l)
  PROVE  lock' \in [Row -> Proc \cup {None}] /\ pc' \in [Proc -> Label]
BY GotoType DEF TypeOK, Acquire

\* Dropping the locks of a transaction.
LEMMA ReleaseType ==
  ASSUME TypeOK, NEW p \in Proc, ReleaseLocks(p)
  PROVE  lock' \in [Row -> Proc \cup {None}]
BY DEF TypeOK, ReleaseLocks

\* Returning from a handler.
LEMMA ReturnType ==
  ASSUME TypeOK, NEW p \in Proc, Return(p)
  PROVE  /\ pc' \in [Proc -> Label]
         /\ cur' \in [Proc -> Task \cup Order \cup {None}]
         /\ batch' \in [Proc -> SUBSET Task]
         /\ pick' \in [Proc -> Staff \cup {None}]
         /\ orderTo' \in [Proc -> OrderStatus]
BY DEF TypeOK, Return, Goto, Label, OrderStatus

\* The end of one iteration of the loop of AllocateOnce.
LEMMA NextIterationType ==
  ASSUME TypeOK, NEW p \in Proc, NextIteration(p)
  PROVE  /\ pc' \in [Proc -> Label]
         /\ cur' \in [Proc -> Task \cup Order \cup {None}]
         /\ batch' \in [Proc -> SUBSET Task]
         /\ pick' \in [Proc -> Staff \cup {None}]
         /\ orderTo' \in [Proc -> OrderStatus]
<1>1. CASE batch[p] = {}
  BY <1>1, ReturnType DEF NextIteration
<1>2. CASE batch[p] # {}
  BY <1>2 DEF TypeOK, NextIteration, Goto, Label, OrderStatus
<1> QED BY <1>1, <1>2

\* The rollback of one iteration of AllocateOnce.
LEMMA RollbackType ==
  ASSUME TypeOK, NEW p \in Proc, AllocRollback(p)
  PROVE  /\ lock' \in [Row -> Proc \cup {None}]
         /\ pc' \in [Proc -> Label]
         /\ pick' \in [Proc -> Staff \cup {None}]
         /\ orderTo' \in [Proc -> OrderStatus]
BY ReleaseType DEF TypeOK, AllocRollback, Goto, Label, OrderStatus

\* Every statement of every handler preserves TypeOK, given that the local
\* variables of the calls hold what their next statement needs.
LEMMA TypeOKStep ==
  ASSUME TypeOK, \A q \in Proc : LocalsOK(q), [Next]_vars
  PROVE  TypeOK'
<1> USE DEF TypeOK, usage, tables, locals
<1>0. {"idle", "R_Enqueue", "A_Pop", "A_Loop", "A_Recheck", "A_Reenqueue",
       "A_LockCounter", "A_FindStaff", "A_LockMachine", "A_LockStaff", "A_MarkOrder", "A_Commit",
       "R_Staff", "R_Counter", "R_Machine", "R_Commit",
       "C_Counter", "C_Machine", "C_Staff", "C_Children", "C_Enqueue", "C_MarkOrder",
       "C_Count", "C_Finish", "C_Commit",
       "O_Deps", "O_Recalc", "O_List", "O_Enqueue", "O_Event"} \subseteq Label
  BY DEF Label, OpenTx, AllocTx, RequeueTx, CompleteTx, Confirming
<1>1. ASSUME NEW p \in Proc, ConfirmStep(p) PROVE TypeOK'
  <2>1. ASSUME NEW o \in Order, CreateOrderWithTasks(p, o) PROVE TypeOK'
    BY <2>1, <1>0, GotoType DEF CreateOrderWithTasks, OrderStatus, TaskStatus
  <2>2. CASE InsertTaskDependencies(p)
    BY <2>2, <1>0, GotoType, Recipes DEF InsertTaskDependencies
  <2>3. CASE RecalculatePendingDepsForOrder(p)
    BY <2>3, <1>0, GotoType, FinitePart DEF RecalculatePendingDepsForOrder
  <2>4. CASE ListOrderReadyTasks(p)
    BY <2>4, <1>0, GotoType DEF ListOrderReadyTasks, TasksOf
  <2>5. ASSUME NEW t \in Task, EnqueueReady(p, t) PROVE TypeOK'
    BY <2>5, <1>0, GotoType DEF EnqueueReady
  <2>6. CASE InsertDomainEventNoTx(p)
    BY <2>6, <1>0, GotoType, EmitType DEF InsertDomainEventNoTx, Emit, EventType
  <2>7. CASE ConfirmDone(p)
    BY <2>7, ReturnType DEF ConfirmDone, OrderStatus
  <2> QED BY <1>1, <2>1, <2>2, <2>3, <2>4, <2>5, <2>6, <2>7 DEF ConfirmStep
<1>2. ASSUME NEW p \in Proc, RequeueStep(p) PROVE TypeOK'
  <2>1. CASE SelectExpired(p)
    <3>1. CASE Goto(p, "A_Pop") /\ UNCHANGED <<lock, cur, batch>>
      BY <1>0, <2>1, <3>1, GotoType DEF SelectExpired
    <3>2. ASSUME NEW S \in SUBSET Expirable, NEW t \in S,
                 lock' = [r \in Row |-> IF r \in S THEN p ELSE lock[r]],
                 cur' = [cur EXCEPT ![p] = t],
                 batch' = [batch EXCEPT ![p] = S \ {t}],
                 Goto(p, "R_Staff")
          PROVE  TypeOK'
      BY <1>0, <2>1, <3>2, GotoType DEF SelectExpired, Expirable
    <3> QED BY <2>1, <3>1, <3>2 DEF SelectExpired
  <2>2. CASE RequeueStaff(p)
    BY <2>2, <1>0, AcquireType DEF RequeueStaff, LockStep
  <2>3. CASE RequeueCounter(p)
    BY <2>3, <1>0, AcquireType DEF RequeueCounter, LockStep
  <2>4. CASE RequeueMachine(p)
    <3>1. CASE /\ Acquire(p, MachineOf[cur[p]], "R_Commit")
               /\ UNCHANGED <<cur, batch>>
      BY <1>0, <2>4, <3>1, AcquireType DEF RequeueMachine
    <3>2. ASSUME NEW t \in batch[p],
                 Acquire(p, MachineOf[cur[p]], "R_Staff"),
                 cur' = [cur EXCEPT ![p] = t],
                 batch' = [batch EXCEPT ![p] = @ \ {t}]
          PROVE  TypeOK'
      BY <1>0, <2>4, <3>2, AcquireType DEF RequeueMachine
    <3> QED BY <2>4, <3>1, <3>2 DEF RequeueMachine
  <2>5. CASE RequeueCommit(p)
    <3>1. LockedTasks(p) \in SUBSET Task
      BY DEF LockedTasks
    <3>2. events' \in [EventType -> [Task -> Nat]]
      BY <2>5, EmitType DEF RequeueCommit, EventType
    <3>3. /\ counterUse' \in [Counter -> Nat]
          /\ machineUse' \in [Machine -> Nat]
          /\ activeTasks' \in [Staff -> Nat]
      BY <2>5, <3>1, FreedType DEF RequeueCommit
    <3> QED BY <1>0, <2>5, <3>1, <3>2, <3>3, GotoType, ReleaseType DEF RequeueCommit, TaskStatus
  <2>6. ASSUME NEW t \in Task, RequeueEnqueue(p, t) PROVE TypeOK'
    BY <2>6, <1>0, GotoType DEF RequeueEnqueue
  <2> QED BY <1>2, <2>1, <2>2, <2>3, <2>4, <2>5, <2>6 DEF RequeueStep
<1>3. ASSUME NEW p \in Proc, AllocStep(p) PROVE TypeOK'
  <2>1. CASE PopTopN(p)
    <3>1. CASE Return(p) /\ UNCHANGED readyQueue
      BY <2>1, <3>1, ReturnType DEF PopTopN
    <3>2. ASSUME NEW B \in SUBSET readyQueue,
                 batch' = [batch EXCEPT ![p] = B],
                 readyQueue' = readyQueue \ B,
                 Goto(p, "A_Loop"),
                 UNCHANGED <<cur, pick, orderTo>>
          PROVE  TypeOK'
      BY <1>0, <2>1, <3>2, GotoType DEF PopTopN
    <3> QED BY <2>1, <3>1, <3>2 DEF PopTopN
  <2>2. ASSUME NEW t \in Task, LockTaskForAssignment(p, t) PROVE TypeOK'
    BY <2>2, <1>0, GotoType, AcquireType DEF LockTaskForAssignment
  <2>3. CASE LockCounter(p)
    BY <2>3, <1>0, AcquireType, RollbackType DEF LockCounter
  <2>4. CASE FindEligibleStaff(p)
    BY <2>4, <1>0, GotoType, RollbackType DEF FindEligibleStaff, Eligible
  <2>5. CASE LockMachineForTask(p)
    BY <2>5, <1>0, AcquireType, RollbackType DEF LockMachineForTask
  <2>6. CASE LockStaff(p)
    BY <2>6, <1>0, AcquireType DEF LockStaff, LockStep
  <2>7. CASE MarkOrderInProgressIfConfirmed(p)
    BY <2>7, <1>0, AcquireType, GotoType DEF MarkOrderInProgressIfConfirmed, OrderStatus
  <2>8. CASE AllocCommit(p)
    <3>1. events' \in [EventType -> [Task -> Nat]]
      BY <2>8, EmitType DEF AllocCommit, EventType
    <3>2. /\ counterUse' \in [Counter -> Nat]
          /\ machineUse' \in [Machine -> Nat]
          /\ activeTasks' \in [Staff -> Nat]
      <4>1. cur[p] \in Task /\ pick[p] \in Staff
        BY <2>8 DEF AllocCommit, LocalsOK, OpenTx, AllocTx
      <4>2. counterUse[CounterOf[cur[p]]] + 1 \in Nat
        BY <4>1, ForeignKeys
      <4>3. machineUse[MachineOf[cur[p]]] + 1 \in Nat
        BY <4>1, ForeignKeys
      <4>4. activeTasks[pick[p]] + 1 \in Nat
        BY <4>1
      <4> QED BY <2>8, <4>2, <4>3, <4>4 DEF AllocCommit
    <3>3. orderStatus' \in [Order -> OrderStatus]
      BY <2>8 DEF AllocCommit, OrdersAfter
    <3>4. /\ status' \in [Task -> TaskStatus]
          /\ assignedTo' \in [Task -> Staff \cup {None}]
      BY <2>8 DEF AllocCommit, TaskStatus
    <3>5. /\ lock' \in [Row -> Proc \cup {None}]
          /\ pc' \in [Proc -> Label]
          /\ cur' \in [Proc -> Task \cup Order \cup {None}]
          /\ batch' \in [Proc -> SUBSET Task]
          /\ pick' \in [Proc -> Staff \cup {None}]
          /\ orderTo' \in [Proc -> OrderStatus]
      BY <2>8, ReleaseType, NextIterationType DEF AllocCommit
    <3> QED BY <2>8, <3>1, <3>2, <3>3, <3>4, <3>5 DEF AllocCommit
  <2>9. CASE RecheckTask(p)
    BY <2>9, <1>0, GotoType, NextIterationType DEF RecheckTask
  <2>10. CASE Reenqueue(p)
    BY <2>10, NextIterationType DEF Reenqueue, LocalsOK
  <2> QED BY <1>3, <2>1, <2>2, <2>3, <2>4, <2>5, <2>6, <2>7, <2>8, <2>9, <2>10 DEF AllocStep
<1>4. ASSUME NEW p \in Proc, CompleteStep(p) PROVE TypeOK'
  <2>1. ASSUME NEW t \in Task, UpdateTaskStatusCompleted(p, t) PROVE TypeOK'
    BY <2>1, <1>0, AcquireType DEF UpdateTaskStatusCompleted
  <2>2. CASE ReleaseCounter(p)
    BY <2>2, <1>0, AcquireType DEF ReleaseCounter, LockStep
  <2>3. CASE ReleaseMachine(p)
    BY <2>3, <1>0, AcquireType DEF ReleaseMachine, LockStep
  <2>4. CASE UpdateStaffEfficiencyAndActive(p)
    BY <2>4, <1>0, AcquireType DEF UpdateStaffEfficiencyAndActive, LockStep
  <2>5. ASSUME NEW k \in Task, LockChild(p, k) PROVE TypeOK'
    BY <2>5, <1>0, AcquireType DEF LockChild, LockStep
  <2>6. CASE DecrementDependentPendingDeps(p)
    BY <2>6, <1>0, GotoType DEF DecrementDependentPendingDeps, ReadyChildren, Children
  <2>7. ASSUME NEW k \in Task, EnqueueChild(p, k) PROVE TypeOK'
    BY <2>7, <1>0, GotoType DEF EnqueueChild
  <2>8. CASE MarkOrderPartCompletedIfNotDone(p)
    BY <2>8, <1>0, AcquireType, GotoType DEF MarkOrderPartCompletedIfNotDone, OrderStatus
  <2>9. CASE CountRemaining(p)
    BY <2>9, <1>0, GotoType DEF CountRemaining
  <2>10. CASE CompleteOrder(p)
    BY <2>10, <1>0, AcquireType, GotoType DEF CompleteOrder, OrderStatus
  <2>11. CASE CompleteCommit(p)
    <3>1. events' \in [EventType -> [Task -> Nat]]
      <4>1. Emit(events, "TASK_READY", ReadyChildren(cur[p])) \in [EventType -> [Task -> Nat]]
        BY EmitType DEF EventType
      <4> QED BY <2>11, <4>1, EmitType DEF CompleteCommit, EventType
    <3>2. /\ counterUse' \in [Counter -> Nat]
          /\ machineUse' \in [Machine -> Nat]
          /\ activeTasks' \in [Staff -> Nat]
      <4>1. \A n \in Nat : AtLeastZero(n - 1) \in Nat
        BY DEF AtLeastZero
      <4>3. counterUse' \in [Counter -> Nat]
        BY <2>11, <4>1 DEF CompleteCommit
      <4>4. machineUse' \in [Machine -> Nat]
        BY <2>11, <4>1 DEF CompleteCommit
      <4>5. activeTasks' \in [Staff -> Nat]
        BY <2>11, <4>1 DEF CompleteCommit
      <4> QED BY <4>3, <4>4, <4>5
    <3>3. orderStatus' \in [Order -> OrderStatus]
      BY <2>11 DEF CompleteCommit, OrdersAfter
    <3>4. status' \in [Task -> TaskStatus]
      BY <2>11 DEF CompleteCommit, TaskStatus
    <3>5. pendingDeps' \in [Task -> Nat]
      BY <2>11 DEF CompleteCommit, Decremented, AtLeastZero
    <3> QED BY <2>11, <3>1, <3>2, <3>3, <3>4, <3>5, ReleaseType, ReturnType DEF CompleteCommit
  <2> QED BY <1>4, <2>1, <2>2, <2>3, <2>4, <2>5, <2>6, <2>7, <2>8, <2>9, <2>10, <2>11
          DEF CompleteStep
<1>5. ASSUME NEW p \in Proc, Fault(p) PROVE TypeOK'
  <2>1. CASE Abort(p)
    BY <2>1, ReleaseType, ReturnType, RollbackType DEF Abort
  <2>2. CASE Crash(p)
    BY <2>2, ReleaseType, ReturnType, FiniteTables DEF Crash
  <2>3. CASE RecheckFails(p)
    BY <2>3, NextIterationType, FiniteTables DEF RecheckFails
  <2> QED BY <1>5, <2>1, <2>2, <2>3 DEF Fault
<1>6. ASSUME NEW t \in Task, StartTask(t) PROVE TypeOK'
  <2>1. events' \in [EventType -> [Task -> Nat]]
    BY <1>6, EmitType DEF StartTask, EventType
  <2> QED BY <1>6, <2>1 DEF StartTask, TaskStatus
<1>7. CASE UNCHANGED vars
  BY <1>7 DEF vars
<1> QED BY <1>1, <1>2, <1>3, <1>4, <1>5, <1>6, <1>7 DEF Next, Step

-----------------------------------------------------------------------------
\* Nothing of the orders, the assignments and the use counters changes.
Quiet == UNCHANGED <<orderStatus, status, assignedTo, counterUse, machineUse, activeTasks>>

\* Orders, task assignments and the use counters change at four places only:
\* the creation of an order and the three kinds of commit.
LEMMA StepKinds ==
  ASSUME NEW p \in Proc, Step(p)
  PROVE  \/ Quiet
         \/ \E o \in Order : CreateOrderWithTasks(p, o)
         \/ RequeueCommit(p) \/ AllocCommit(p) \/ CompleteCommit(p)
<1> USE DEF Quiet, tables, usage
<1>1. CASE ConfirmStep(p)
  BY <1>1 DEF ConfirmStep, InsertTaskDependencies, RecalculatePendingDepsForOrder,
     ListOrderReadyTasks, EnqueueReady, InsertDomainEventNoTx, ConfirmDone
<1>2. CASE RequeueStep(p)
  BY <1>2 DEF RequeueStep, SelectExpired, RequeueStaff, RequeueCounter, RequeueMachine,
     RequeueEnqueue, LockStep
<1>3. CASE AllocStep(p)
  BY <1>3 DEF AllocStep, PopTopN, LockTaskForAssignment, LockCounter, FindEligibleStaff,
     LockMachineForTask, LockStaff, MarkOrderInProgressIfConfirmed, RecheckTask, Reenqueue, LockStep
<1>4. CASE CompleteStep(p)
  BY <1>4 DEF CompleteStep, UpdateTaskStatusCompleted, ReleaseCounter, ReleaseMachine,
     UpdateStaffEfficiencyAndActive, LockChild, DecrementDependentPendingDeps, EnqueueChild,
     MarkOrderPartCompletedIfNotDone, CountRemaining, CompleteOrder, LockStep
<1>5. CASE Fault(p)
  BY <1>5 DEF Fault, Abort, Crash, RecheckFails
<1> QED BY <1>1, <1>2, <1>3, <1>4, <1>5 DEF Step

\* A step of one call leaves the program counter, the local variables and the
\* locks of every other call alone.
LEMMA Isolation ==
  ASSUME TypeOK, NEW p \in Proc, NEW q \in Proc, q # p, Step(p)
  PROVE  /\ pc'[q] = pc[q] /\ cur'[q] = cur[q] /\ pick'[q] = pick[q]
         /\ \A r \in Row : lock'[r] = q <=> lock[r] = q
<1> USE DistinctKeys DEF TypeOK, locals
<1>1. \A l : Goto(p, l) => pc'[q] = pc[q]
  BY DEF Goto
<1>2. \A r, l : Acquire(p, r, l) => pc'[q] = pc[q] /\ \A x \in Row : lock'[x] = q <=> lock[x] = q
  BY <1>1 DEF Acquire
<1>3. ReleaseLocks(p) => \A x \in Row : lock'[x] = q <=> lock[x] = q
  BY DEF ReleaseLocks
<1>4. Return(p) => pc'[q] = pc[q] /\ cur'[q] = cur[q] /\ pick'[q] = pick[q]
  BY <1>1 DEF Return
<1>5. NextIteration(p) => pc'[q] = pc[q] /\ cur'[q] = cur[q] /\ pick'[q] = pick[q]
  BY <1>1, <1>4 DEF NextIteration
<1>6. AllocRollback(p) => /\ pc'[q] = pc[q] /\ pick'[q] = pick[q]
                          /\ \A x \in Row : lock'[x] = q <=> lock[x] = q
  BY <1>1, <1>3 DEF AllocRollback
<1>7. CASE ConfirmStep(p)
  BY <1>1, <1>4, <1>7 DEF ConfirmStep, CreateOrderWithTasks, InsertTaskDependencies,
     RecalculatePendingDepsForOrder, ListOrderReadyTasks, EnqueueReady, InsertDomainEventNoTx,
     ConfirmDone
<1>8. CASE RequeueStep(p)
  <2>1. CASE SelectExpired(p)
    BY <1>1, <2>1 DEF SelectExpired, Expirable
  <2> QED
    BY <1>1, <1>2, <1>3, <1>8, <2>1 DEF RequeueStep, RequeueStaff, RequeueCounter,
       RequeueMachine, RequeueCommit, RequeueEnqueue, LockStep
<1>9. CASE AllocStep(p)
  BY <1>1, <1>2, <1>3, <1>4, <1>5, <1>6, <1>9 DEF AllocStep, PopTopN, LockTaskForAssignment,
     LockCounter, FindEligibleStaff, LockMachineForTask, LockStaff,
     MarkOrderInProgressIfConfirmed, AllocCommit, RecheckTask, Reenqueue, LockStep
<1>10. CASE CompleteStep(p)
  BY <1>1, <1>2, <1>3, <1>4, <1>10 DEF CompleteStep, UpdateTaskStatusCompleted, ReleaseCounter,
     ReleaseMachine, UpdateStaffEfficiencyAndActive, LockChild, DecrementDependentPendingDeps,
     EnqueueChild, MarkOrderPartCompletedIfNotDone, CountRemaining, CompleteOrder,
     CompleteCommit, LockStep
<1>11. CASE Fault(p)
  BY <1>3, <1>4, <1>5, <1>6, <1>11 DEF Fault, Abort, Crash, RecheckFails
<1> QED BY <1>7, <1>8, <1>9, <1>10, <1>11 DEF Step

-----------------------------------------------------------------------------
\* A call that has dropped its locks and is outside a transaction owes nothing.
LEMMA ReleasedCall ==
  ASSUME TypeOK, NEW p \in Proc, ReleaseLocks(p),
         \/ pc'[p] \in {"idle", "A_Loop", "R_Enqueue"}
         \/ pc'[p] = "A_Recheck" /\ cur'[p] \in Task
  PROVE  CallOK(p)'
<1>1. LocksOK(p)'
  BY DistinctKeys DEF LocksOK, ReleaseLocks, TypeOK
<1>2. LocalsOK(p)' /\ HeldTasks(p)' /\ RoomKept(p)'
  BY DEF LocalsOK, HeldTasks, RoomKept, OpenTx, AllocTx, RequeueTx, CompleteTx
<1> QED BY <1>1, <1>2 DEF CallOK

\* A call's own step takes it from a state in which CallOK holds to another.
LEMMA OwnCall ==
  ASSUME TypeOK, RowsOK, NEW p \in Proc, CallOK(p), Step(p)
  PROVE  CallOK(p)'
<1> USE DEF CallOK, LocalsOK, LocksOK, HeldTasks, RoomKept, LockedTasks,
            OpenTx, AllocTx, RequeueTx, CompleteTx, tables, usage, locals, Row
<1>0. /\ \A l : Goto(p, l) => pc'[p] = l
      /\ \A r, l : Acquire(p, r, l) =>
            pc'[p] = l /\ \A x \in Row : lock'[x] = IF x = r THEN p ELSE lock[x]
      /\ Return(p) => pc'[p] = "idle"
      /\ NextIteration(p) => pc'[p] \in {"idle", "A_Loop"}
      /\ AllocRollback(p) => pc'[p] = "A_Recheck" /\ ReleaseLocks(p)
  BY DEF TypeOK, Goto, Acquire, Return, NextIteration, AllocRollback
<1>1. CASE ConfirmStep(p)
  <2>1. ASSUME NEW o \in Order, CreateOrderWithTasks(p, o) PROVE CallOK(p)'
    BY <1>0, <2>1 DEF CreateOrderWithTasks, TypeOK
  <2>2. CASE InsertTaskDependencies(p)
    BY <1>0, <2>2 DEF InsertTaskDependencies
  <2>3. CASE RecalculatePendingDepsForOrder(p)
    BY <1>0, <2>3 DEF RecalculatePendingDepsForOrder
  <2>4. CASE ListOrderReadyTasks(p)
    BY <1>0, <2>4 DEF ListOrderReadyTasks
  <2>5. ASSUME NEW t \in Task, EnqueueReady(p, t) PROVE CallOK(p)'
    BY <1>0, <2>5 DEF EnqueueReady
  <2>6. CASE InsertDomainEventNoTx(p)
    BY <1>0, <2>6 DEF InsertDomainEventNoTx
  <2>7. CASE ConfirmDone(p)
    BY <1>0, <2>7 DEF ConfirmDone
  <2> QED BY <1>1, <2>1, <2>2, <2>3, <2>4, <2>5, <2>6, <2>7 DEF ConfirmStep
<1>2. CASE RequeueStep(p)
  <2>1. CASE SelectExpired(p)
    <3>1. CASE Goto(p, "A_Pop") /\ UNCHANGED <<lock, cur, batch>>
      BY <1>0, <2>1, <3>1 DEF SelectExpired
    <3>2. ASSUME NEW S \in SUBSET Expirable, NEW t \in S,
                 lock' = [r \in Row |-> IF r \in S THEN p ELSE lock[r]],
                 cur' = [cur EXCEPT ![p] = t],
                 Goto(p, "R_Staff")
          PROVE  CallOK(p)'
      BY <1>0, <2>1, <3>2 DEF SelectExpired, Expirable, TypeOK
    <3> QED BY <2>1, <3>1, <3>2 DEF SelectExpired
  <2>2. CASE RequeueStaff(p)
    <3>1. assignedTo[cur[p]] \notin Task
      BY <2>2, DistinctKeys DEF RequeueStaff, LockStep, TypeOK
    <3> QED BY <1>0, <2>2, <3>1 DEF RequeueStaff, LockStep
  <2>3. CASE RequeueCounter(p)
    <3>1. CounterOf[cur[p]] \notin Task
      BY <2>3, DistinctKeys, ForeignKeys DEF RequeueCounter, LockStep
    <3> QED BY <1>0, <2>3, <3>1 DEF RequeueCounter, LockStep
  <2>4. CASE RequeueMachine(p)
    <3>1. MachineOf[cur[p]] \notin Task
      BY <2>4, DistinctKeys, ForeignKeys DEF RequeueMachine
    <3>2. CASE Acquire(p, MachineOf[cur[p]], "R_Commit") /\ UNCHANGED <<cur, batch>>
      BY <1>0, <2>4, <3>1, <3>2 DEF RequeueMachine
    <3>3. ASSUME NEW t \in batch[p],
                 Acquire(p, MachineOf[cur[p]], "R_Staff"),
                 cur' = [cur EXCEPT ![p] = t]
          PROVE  CallOK(p)'
      <4>1. cur'[p] \in Task
        BY <3>3 DEF TypeOK
      <4> QED BY <1>0, <2>4, <3>1, <3>3, <4>1 DEF RequeueMachine
    <3> QED BY <2>4, <3>2, <3>3 DEF RequeueMachine
  <2>5. CASE RequeueCommit(p)
    BY <1>0, <2>5, ReleasedCall DEF RequeueCommit
  <2>6. ASSUME NEW t \in Task, RequeueEnqueue(p, t) PROVE CallOK(p)'
    BY <1>0, <2>6 DEF RequeueEnqueue
  <2> QED BY <1>2, <2>1, <2>2, <2>3, <2>4, <2>5, <2>6 DEF RequeueStep
<1>3. CASE AllocStep(p)
  <2>1. CASE PopTopN(p)
    BY <1>0, <2>1 DEF PopTopN
  <2>2. ASSUME NEW t \in Task, LockTaskForAssignment(p, t) PROVE CallOK(p)'
    <3>1. cur'[p] = t
      BY <2>2 DEF LockTaskForAssignment, TypeOK
    <3> QED BY <1>0, <2>2, <3>1 DEF LockTaskForAssignment, Assignable
  <2>3. CASE LockCounter(p)
    <3>1. CASE CounterHasRoom(CounterOf[cur[p]])
      BY <1>0, <2>3, <3>1, ForeignKeys DEF LockCounter, CounterHasRoom
    <3>2. CASE ~ CounterHasRoom(CounterOf[cur[p]])
      BY <1>0, <2>3, <3>2, ReleasedCall DEF LockCounter
    <3> QED BY <3>1, <3>2
  <2>4. CASE FindEligibleStaff(p)
    <3>1. CASE AllocRollback(p)
      BY <1>0, <2>4, <3>1, ReleasedCall DEF FindEligibleStaff
    <3>2. ASSUME NEW s \in Eligible(CounterOf[cur[p]]),
                 pick' = [pick EXCEPT ![p] = s], Goto(p, "A_LockMachine"), UNCHANGED lock
          PROVE  CallOK(p)'
      BY <1>0, <2>4, <3>2 DEF FindEligibleStaff, Eligible, TypeOK
    <3> QED BY <2>4, <3>1, <3>2 DEF FindEligibleStaff
  <2>5. CASE LockMachineForTask(p)
    <3>1. CASE AllocRollback(p)
      BY <1>0, <2>5, <3>1, ReleasedCall DEF LockMachineForTask
    <3>2. CASE /\ MachineHasRoom(MachineOf[cur[p]])
               /\ Acquire(p, MachineOf[cur[p]], "A_LockStaff")
               /\ UNCHANGED pick
      BY <1>0, <2>5, <3>2, ForeignKeys DEF LockMachineForTask, MachineHasRoom
    <3> QED BY <2>5, <3>1, <3>2 DEF LockMachineForTask
  <2>6. CASE LockStaff(p)
    BY <1>0, <2>6, ForeignKeys DEF LockStaff, LockStep
  <2>7. CASE MarkOrderInProgressIfConfirmed(p)
    BY <1>0, <2>7, ForeignKeys DEF MarkOrderInProgressIfConfirmed
  <2>8. CASE AllocCommit(p)
    BY <1>0, <2>8, ReleasedCall DEF AllocCommit
  <2>9. CASE RecheckTask(p)
    BY <1>0, <2>9 DEF RecheckTask
  <2>10. CASE Reenqueue(p)
    BY <1>0, <2>10 DEF Reenqueue
  <2> QED BY <1>3, <2>1, <2>2, <2>3, <2>4, <2>5, <2>6, <2>7, <2>8, <2>9, <2>10 DEF AllocStep
<1>4. CASE CompleteStep(p)
  <2>1. ASSUME NEW t \in Task, UpdateTaskStatusCompleted(p, t) PROVE CallOK(p)'
    <3>1. cur'[p] = t
      BY <2>1 DEF UpdateTaskStatusCompleted, TypeOK
    <3> QED BY <1>0, <2>1, <3>1 DEF UpdateTaskStatusCompleted
  <2>2. CASE ReleaseCounter(p)
    BY <1>0, <2>2 DEF ReleaseCounter, LockStep
  <2>3. CASE ReleaseMachine(p)
    BY <1>0, <2>3 DEF ReleaseMachine, LockStep
  <2>4. CASE UpdateStaffEfficiencyAndActive(p)
    BY <1>0, <2>4 DEF UpdateStaffEfficiencyAndActive, LockStep
  <2>5. ASSUME NEW k \in Task, LockChild(p, k) PROVE CallOK(p)'
    BY <1>0, <2>5 DEF LockChild, LockStep
  <2>6. CASE DecrementDependentPendingDeps(p)
    BY <1>0, <2>6 DEF DecrementDependentPendingDeps
  <2>7. ASSUME NEW k \in Task, EnqueueChild(p, k) PROVE CallOK(p)'
    BY <1>0, <2>7 DEF EnqueueChild
  <2>8. CASE MarkOrderPartCompletedIfNotDone(p)
    BY <1>0, <2>8 DEF MarkOrderPartCompletedIfNotDone
  <2>9. CASE CountRemaining(p)
    BY <1>0, <2>9 DEF CountRemaining
  <2>10. CASE CompleteOrder(p)
    BY <1>0, <2>10 DEF CompleteOrder
  <2>11. CASE CompleteCommit(p)
    BY <1>0, <2>11, ReleasedCall DEF CompleteCommit
  <2> QED BY <1>4, <2>1, <2>2, <2>3, <2>4, <2>5, <2>6, <2>7, <2>8, <2>9, <2>10, <2>11
          DEF CompleteStep
<1>5. CASE Fault(p)
  <2>1. CASE Abort(p)
    BY <1>0, <2>1, ReleasedCall DEF Abort
  <2>2. CASE Crash(p)
    BY <1>0, <2>2, ReleasedCall DEF Crash
  <2>3. CASE RecheckFails(p)
    BY <1>0, <2>3 DEF RecheckFails
  <2> QED BY <1>5, <2>1, <2>2, <2>3 DEF Fault
<1> QED BY <1>1, <1>2, <1>3, <1>4, <1>5 DEF Step

-----------------------------------------------------------------------------
\* Counting: one more task.
LEMMA AddOne ==
  ASSUME NEW A \in SUBSET Task, NEW t \in Task, t \notin A
  PROVE  Cardinality(A \cup {t}) = Cardinality(A) + 1
BY FinitePart, FS_AddElement

\* Counting: one task less, with the GREATEST(.., 0) of CompleteTask, which
\* never cuts anything off.
LEMMA RemoveOne ==
  ASSUME NEW A \in SUBSET Task, NEW t \in A
  PROVE  AtLeastZero(Cardinality(A) - 1) = Cardinality(A \ {t})
<1>1. Cardinality(A \ {t}) = Cardinality(A) - 1
  BY FinitePart, FS_RemoveElement
<1>2. Cardinality(A \ {t}) \in Nat /\ Cardinality(A) \in Nat
  BY FinitePart
<1> QED BY <1>1, <1>2 DEF AtLeastZero

\* Counting: several tasks less, as the requeue does it.
LEMMA RemoveMany ==
  ASSUME NEW A \in SUBSET Task, NEW B \in SUBSET A
  PROVE  AtLeastZero(Cardinality(A) - Cardinality(B)) = Cardinality(A \ B)
<1>1. Cardinality(A \ B) = Cardinality(A) - Cardinality(A \cap B)
  BY FinitePart, FS_Difference
<1>2. A \cap B = B
  OBVIOUS
<1>3. Cardinality(A \ B) \in Nat /\ Cardinality(A) \in Nat /\ Cardinality(B) \in Nat
  BY FinitePart
<1>4. Cardinality(A \ B) = Cardinality(A) - Cardinality(B)
  BY <1>1, <1>2, Zenon
<1> QED BY <1>3, <1>4 DEF AtLeastZero

\* The row lock works: while a transaction holds a task, no step of another
\* call changes its status.
LEMMA HeldStable ==
  ASSUME TypeOK, RowsOK, NEW p \in Proc, CallOK(p), Step(p),
         NEW q \in Proc, q # p, NEW t \in Task, lock[t] = q, status[t] # "NONE"
  PROVE  status'[t] = status[t]
<1> USE DEF TypeOK
<1>1. CASE Quiet
  BY <1>1 DEF Quiet
<1>2. ASSUME NEW o \in Order, CreateOrderWithTasks(p, o) PROVE status'[t] = status[t]
  BY <1>2 DEF CreateOrderWithTasks, RowsOK, TasksOf
<1>3. CASE RequeueCommit(p)
  <2>1. t \notin LockedTasks(p)
    BY DEF LockedTasks
  <2> QED BY <1>3, <2>1 DEF RequeueCommit
<1>4. CASE AllocCommit(p)
  BY <1>4 DEF AllocCommit, CallOK, HeldTasks, AllocTx
<1>5. CASE CompleteCommit(p)
  BY <1>5 DEF CompleteCommit, CallOK, HeldTasks, CompleteTx
<1> QED BY <1>1, <1>2, <1>3, <1>4, <1>5, StepKinds

\* A requeue never increases in_use.
LEMMA FreedLess ==
  ASSUME TypeOK, NEW S \in SUBSET Task
  PROVE  /\ \A c \in Counter : FreedCounters(S)[c] <= counterUse[c]
         /\ \A m \in Machine : FreedMachines(S)[m] <= machineUse[m]
<1>1. \A n, k \in Nat : AtLeastZero(n - k) <= n
  BY DEF AtLeastZero
<1>2. ASSUME NEW c \in Counter PROVE FreedCounters(S)[c] <= counterUse[c]
  <2>1. Cardinality({t \in S : CounterOf[t] = c}) \in Nat
    BY FinitePart
  <2> QED BY <1>1, <2>1 DEF FreedCounters, TypeOK
<1>3. ASSUME NEW m \in Machine PROVE FreedMachines(S)[m] <= machineUse[m]
  <2>1. Cardinality({t \in S : MachineOf[t] = m}) \in Nat
    BY FinitePart
  <2> QED BY <1>1, <2>1 DEF FreedMachines, TypeOK
<1> QED BY <1>2, <1>3

\* in_use of a counter or machine grows only by a transaction that holds its
\* row and has found room there.
LEMMA UseGrowsUnderLock ==
  ASSUME TypeOK, NEW p \in Proc, CallOK(p), Step(p)
  PROVE  /\ \A c \in Counter : \/ counterUse'[c] <= counterUse[c]
                               \/ /\ lock[c] = p
                                  /\ counterUse'[c] = counterUse[c] + 1
                                  /\ counterUse[c] < CounterCap[c]
         /\ \A m \in Machine : \/ machineUse'[m] <= machineUse[m]
                               \/ /\ lock[m] = p
                                  /\ machineUse'[m] = machineUse[m] + 1
                                  /\ machineUse[m] < MachineCap[m]
<1>1. CASE UNCHANGED <<counterUse, machineUse>>
  BY <1>1 DEF TypeOK
<1>2. CASE RequeueCommit(p)
  <2>1. LockedTasks(p) \in SUBSET Task
    BY DEF LockedTasks
  <2> QED BY <1>2, <2>1, FreedLess DEF RequeueCommit
<1>3. CASE AllocCommit(p)
  <2>1. cur[p] \in Task
    BY <1>3 DEF AllocCommit, CallOK, LocalsOK, OpenTx, AllocTx
  <2>2. /\ lock[CounterOf[cur[p]]] = p
        /\ counterUse[CounterOf[cur[p]]] < CounterCap[CounterOf[cur[p]]]
        /\ lock[MachineOf[cur[p]]] = p
        /\ machineUse[MachineOf[cur[p]]] < MachineCap[MachineOf[cur[p]]]
    BY <1>3 DEF AllocCommit, CallOK, RoomKept, AllocTx
  <2> QED BY <1>3, <2>1, <2>2, ForeignKeys DEF AllocCommit, TypeOK
<1>4. CASE CompleteCommit(p)
  <2>1. \A n \in Nat : AtLeastZero(n - 1) <= n
    BY DEF AtLeastZero
  <2> QED BY <1>4, <2>1 DEF CompleteCommit, TypeOK
<1> QED BY <1>1, <1>2, <1>3, <1>4, StepKinds DEF Quiet, CreateOrderWithTasks, usage

\* A step of another call preserves CallOK: what a transaction has found
\* under its row locks stays so.
LEMMA OtherCall ==
  ASSUME TypeOK, TypeOK', RowsOK, NEW p \in Proc, CallOK(p), Step(p),
         NEW q \in Proc, CallOK(q), q # p
  PROVE  CallOK(q)'
<1>1. /\ pc'[q] = pc[q] /\ cur'[q] = cur[q] /\ pick'[q] = pick[q]
      /\ \A r \in Row : lock'[r] = q <=> lock[r] = q
  BY Isolation
<1>2. LocalsOK(q)' /\ LocksOK(q)'
  BY <1>1 DEF CallOK, LocalsOK, LocksOK
<1>3. HeldTasks(q)'
  BY <1>1, HeldStable DEF CallOK, LocalsOK, HeldTasks, LockedTasks, OpenTx, Row
<1>4. RoomKept(q)'
  <2>1. ASSUME NEW c \in Counter, lock[c] = q, counterUse[c] < CounterCap[c]
        PROVE  counterUse'[c] < CounterCap[c] /\ lock'[c] = q
    <3>1. counterUse'[c] <= counterUse[c]
      BY <2>1, UseGrowsUnderLock
    <3>2. counterUse'[c] \in Nat /\ counterUse[c] \in Nat /\ CounterCap[c] \in Nat
      BY ForeignKeys DEF TypeOK
    <3> QED BY <1>1, <2>1, <3>1, <3>2 DEF Row
  <2>2. ASSUME NEW m \in Machine, lock[m] = q, machineUse[m] < MachineCap[m]
        PROVE  machineUse'[m] < MachineCap[m] /\ lock'[m] = q
    <3>1. machineUse'[m] <= machineUse[m]
      BY <2>2, UseGrowsUnderLock
    <3>2. machineUse'[m] \in Nat /\ machineUse[m] \in Nat /\ MachineCap[m] \in Nat
      BY ForeignKeys DEF TypeOK
    <3> QED BY <1>1, <2>2, <3>1, <3>2 DEF Row
  <2>3. pc[q] \in AllocTx => cur[q] \in Task
    BY DEF CallOK, LocalsOK, OpenTx
  <2> QED BY <1>1, <2>1, <2>2, <2>3, ForeignKeys DEF CallOK, RoomKept, AllocTx
<1> QED BY <1>2, <1>3, <1>4 DEF CallOK

\* Tasks exist with their order and have a staff id from assignment on.
LEMMA RowsStep ==
  ASSUME TypeOK, RowsOK, NEW p \in Proc, CallOK(p), Step(p)
  PROVE  RowsOK'
<1> USE DEF TypeOK, RowsOK, Occupying
<1>1. CASE Quiet
  BY <1>1 DEF Quiet
<1>2. ASSUME NEW o \in Order, CreateOrderWithTasks(p, o) PROVE RowsOK'
  BY <1>2, ForeignKeys DEF CreateOrderWithTasks, TasksOf, OrderStatus
<1>3. CASE RequeueCommit(p)
  <2>1. \A t \in LockedTasks(p) : status[t] = "ASSIGNED"
    BY <1>3 DEF RequeueCommit, CallOK, HeldTasks, RequeueTx
  <2>2. None \notin Staff
    BY DistinctKeys
  <2> QED BY <1>3, <2>1, <2>2 DEF RequeueCommit
<1>4. CASE AllocCommit(p)
  <2>1. cur[p] \in Task /\ pick[p] \in Staff /\ status[cur[p]] = "UNASSIGNED"
    BY <1>4 DEF AllocCommit, CallOK, LocalsOK, HeldTasks, OpenTx, AllocTx
  <2>2. \A o \in Order : orderStatus'[o] = "NONE" <=> orderStatus[o] = "NONE"
    BY <1>4, <2>1, ForeignKeys DEF AllocCommit, OrdersAfter
  <2> QED BY <1>4, <2>1, <2>2, ForeignKeys DEF AllocCommit
<1>5. CASE CompleteCommit(p)
  <2>1. cur[p] \in Task /\ status[cur[p]] = "STARTED"
    BY <1>5 DEF CompleteCommit, CallOK, LocalsOK, HeldTasks, OpenTx, CompleteTx
  <2>2. \A o \in Order : orderStatus'[o] = "NONE" <=> orderStatus[o] = "NONE"
    BY <1>5, <2>1, ForeignKeys DEF CompleteCommit, OrdersAfter
  <2> QED BY <1>5, <2>1, <2>2, ForeignKeys DEF CompleteCommit
<1> QED BY <1>1, <1>2, <1>3, <1>4, <1>5, StepKinds

\* in_use never exceeds the capacity.
LEMMA BoundStep ==
  ASSUME TypeOK, TypeOK', UseBounded, NEW p \in Proc, CallOK(p), Step(p)
  PROVE  UseBounded'
<1>1. ASSUME NEW c \in Counter PROVE counterUse'[c] <= CounterCap[c]
  <2>1. counterUse'[c] \in Nat /\ counterUse[c] \in Nat /\ CounterCap[c] \in Nat
    BY ForeignKeys DEF TypeOK
  <2> QED BY <2>1, UseGrowsUnderLock DEF UseBounded
<1>2. ASSUME NEW m \in Machine PROVE machineUse'[m] <= MachineCap[m]
  <2>1. machineUse'[m] \in Nat /\ machineUse[m] \in Nat /\ MachineCap[m] \in Nat
    BY ForeignKeys DEF TypeOK
  <2> QED BY <2>1, UseGrowsUnderLock DEF UseBounded
<1> QED BY <1>1, <1>2 DEF UseBounded

\* Every commit changes in_use and active_tasks by exactly the tasks it
\* assigns, completes or requeues.
LEMMA AccountingStep ==
  ASSUME TypeOK, RowsOK, ResourceAccounting, NEW p \in Proc, CallOK(p), Step(p)
  PROVE  ResourceAccounting'
<1>1. CASE Quiet
  BY <1>1 DEF Quiet, ResourceAccounting, AtCounter, AtMachine, WithStaff
<1>2. ASSUME NEW o \in Order, CreateOrderWithTasks(p, o) PROVE ResourceAccounting'
  <2>1. \A t \in Task : status'[t] \in Occupying <=> status[t] \in Occupying
    BY <1>2 DEF CreateOrderWithTasks, TasksOf, RowsOK, Occupying, TypeOK
  <2>2. /\ \A c \in Counter : AtCounter(c)' = AtCounter(c)
        /\ \A m \in Machine : AtMachine(m)' = AtMachine(m)
        /\ \A s \in Staff : WithStaff(s)' = WithStaff(s)
    BY <1>2, <2>1 DEF CreateOrderWithTasks, AtCounter, AtMachine, WithStaff
  <2> QED BY <1>2, <2>2 DEF CreateOrderWithTasks, usage, ResourceAccounting
<1>3. CASE RequeueCommit(p)
  <2> DEFINE S == LockedTasks(p)
  <2>1. S \in SUBSET Task /\ \A t \in S : status[t] = "ASSIGNED"
    BY <1>3 DEF RequeueCommit, CallOK, HeldTasks, RequeueTx, LockedTasks
  <2>2. \A t \in Task : status'[t] \in Occupying <=> status[t] \in Occupying /\ t \notin S
    BY <1>3, <2>1 DEF RequeueCommit, Occupying
  <2>3. \A t \in Task \ S : assignedTo'[t] = assignedTo[t]
    BY <1>3 DEF RequeueCommit
  <2>4. counterUse' = FreedCounters(S) /\ machineUse' = FreedMachines(S) /\ activeTasks' = FreedStaff(S)
    BY <1>3 DEF RequeueCommit
  <2> HIDE DEF S
  <2>5. ASSUME NEW c \in Counter PROVE counterUse'[c] = Cardinality(AtCounter(c)')
    <3>1. AtCounter(c)' = AtCounter(c) \ {t \in S : CounterOf[t] = c}
      BY <2>1, <2>2 DEF AtCounter
    <3>2. {t \in S : CounterOf[t] = c} \in SUBSET AtCounter(c) /\ AtCounter(c) \in SUBSET Task
      BY <2>1 DEF AtCounter, Occupying
    <3> QED BY <2>4, <3>1, <3>2, RemoveMany DEF ResourceAccounting, FreedCounters
  <2>6. ASSUME NEW m \in Machine PROVE machineUse'[m] = Cardinality(AtMachine(m)')
    <3>1. AtMachine(m)' = AtMachine(m) \ {t \in S : MachineOf[t] = m}
      BY <2>1, <2>2 DEF AtMachine
    <3>2. {t \in S : MachineOf[t] = m} \in SUBSET AtMachine(m) /\ AtMachine(m) \in SUBSET Task
      BY <2>1 DEF AtMachine, Occupying
    <3> QED BY <2>4, <3>1, <3>2, RemoveMany DEF ResourceAccounting, FreedMachines
  <2>7. ASSUME NEW s \in Staff PROVE activeTasks'[s] = Cardinality(WithStaff(s)')
    <3>1. WithStaff(s)' = WithStaff(s) \ {t \in S : assignedTo[t] = s}
      BY <2>1, <2>2, <2>3 DEF WithStaff
    <3>2. {t \in S : assignedTo[t] = s} \in SUBSET WithStaff(s) /\ WithStaff(s) \in SUBSET Task
      BY <2>1 DEF WithStaff, Occupying
    <3> QED BY <2>4, <3>1, <3>2, RemoveMany DEF ResourceAccounting, FreedStaff
  <2> QED BY <2>5, <2>6, <2>7 DEF ResourceAccounting
<1>4. CASE AllocCommit(p)
  <2> DEFINE t == cur[p]
  <2>1. t \in Task /\ pick[p] \in Staff /\ status[t] = "UNASSIGNED"
    BY <1>4 DEF AllocCommit, CallOK, LocalsOK, HeldTasks, OpenTx, AllocTx
  <2>2. \A u \in Task : status'[u] \in Occupying <=> u = t \/ status[u] \in Occupying
    BY <1>4, <2>1 DEF AllocCommit, Occupying, TypeOK
  <2>3. \A u \in Task : assignedTo'[u] = IF u = t THEN pick[p] ELSE assignedTo[u]
    BY <1>4 DEF AllocCommit, TypeOK
  <2>4. /\ counterUse' = [counterUse EXCEPT ![CounterOf[t]] = @ + 1]
        /\ machineUse' = [machineUse EXCEPT ![MachineOf[t]] = @ + 1]
        /\ activeTasks' = [activeTasks EXCEPT ![pick[p]] = @ + 1]
    BY <1>4 DEF AllocCommit
  <2>5. status[t] \notin Occupying
    BY <2>1 DEF Occupying
  <2> HIDE DEF t
  <2>6. ASSUME NEW c \in Counter PROVE counterUse'[c] = Cardinality(AtCounter(c)')
    <3>1. AtCounter(c)' = IF c = CounterOf[t] THEN AtCounter(c) \cup {t} ELSE AtCounter(c)
      BY <2>1, <2>2 DEF AtCounter
    <3>2. t \notin AtCounter(c) /\ AtCounter(c) \in SUBSET Task
      BY <2>5 DEF AtCounter
    <3>3. Cardinality(AtCounter(c) \cup {t}) = Cardinality(AtCounter(c)) + 1
      BY <2>1, <3>2, AddOne
    <3> QED BY <2>4, <3>1, <3>3 DEF ResourceAccounting, TypeOK
  <2>7. ASSUME NEW m \in Machine PROVE machineUse'[m] = Cardinality(AtMachine(m)')
    <3>1. AtMachine(m)' = IF m = MachineOf[t] THEN AtMachine(m) \cup {t} ELSE AtMachine(m)
      BY <2>1, <2>2 DEF AtMachine
    <3>2. t \notin AtMachine(m) /\ AtMachine(m) \in SUBSET Task
      BY <2>5 DEF AtMachine
    <3>3. Cardinality(AtMachine(m) \cup {t}) = Cardinality(AtMachine(m)) + 1
      BY <2>1, <3>2, AddOne
    <3> QED BY <2>4, <3>1, <3>3 DEF ResourceAccounting, TypeOK
  <2>8. ASSUME NEW s \in Staff PROVE activeTasks'[s] = Cardinality(WithStaff(s)')
    <3>1. WithStaff(s)' = IF s = pick[p] THEN WithStaff(s) \cup {t} ELSE WithStaff(s)
      <4>1. assignedTo[t] # s
        BY <2>1 DEF RowsOK, Occupying
      <4> QED BY <2>1, <2>2, <2>3, <4>1 DEF WithStaff
    <3>2. t \notin WithStaff(s) /\ WithStaff(s) \in SUBSET Task
      BY <2>5 DEF WithStaff
    <3>3. Cardinality(WithStaff(s) \cup {t}) = Cardinality(WithStaff(s)) + 1
      BY <2>1, <3>2, AddOne
    <3> QED BY <2>4, <3>1, <3>3 DEF ResourceAccounting, TypeOK
  <2> QED BY <2>6, <2>7, <2>8 DEF ResourceAccounting
<1>5. CASE CompleteCommit(p)
  <2> DEFINE t == cur[p]
  <2>1. t \in Task /\ status[t] = "STARTED" /\ assignedTo[t] \in Staff
    BY <1>5 DEF CompleteCommit, CallOK, LocalsOK, HeldTasks, OpenTx, CompleteTx, RowsOK, Occupying
  <2>2. \A u \in Task : status'[u] \in Occupying <=> u # t /\ status[u] \in Occupying
    BY <1>5, <2>1 DEF CompleteCommit, Occupying, TypeOK
  <2>3. UNCHANGED assignedTo
    BY <1>5 DEF CompleteCommit
  <2>4. /\ counterUse' = [counterUse EXCEPT ![CounterOf[t]] = AtLeastZero(@ - 1)]
        /\ machineUse' = [machineUse EXCEPT ![MachineOf[t]] = AtLeastZero(@ - 1)]
        /\ activeTasks' = [activeTasks EXCEPT ![assignedTo[t]] = AtLeastZero(@ - 1)]
    BY <1>5 DEF CompleteCommit
  <2>5. status[t] \in Occupying
    BY <2>1 DEF Occupying
  <2> HIDE DEF t
  <2>6. ASSUME NEW c \in Counter PROVE counterUse'[c] = Cardinality(AtCounter(c)')
    <3>1. CASE c = CounterOf[t]
      <4>1. AtCounter(c)' = AtCounter(c) \ {t} /\ t \in AtCounter(c) /\ AtCounter(c) \in SUBSET Task
        BY <2>1, <2>2, <2>5, <3>1 DEF AtCounter
      <4> QED BY <2>4, <3>1, <4>1, RemoveOne DEF ResourceAccounting, TypeOK
    <3>2. CASE c # CounterOf[t]
      <4>1. AtCounter(c)' = AtCounter(c)
        BY <2>1, <2>2, <3>2 DEF AtCounter
      <4> QED BY <2>4, <3>2, <4>1 DEF ResourceAccounting, TypeOK
    <3> QED BY <3>1, <3>2
  <2>7. ASSUME NEW m \in Machine PROVE machineUse'[m] = Cardinality(AtMachine(m)')
    <3>1. CASE m = MachineOf[t]
      <4>1. AtMachine(m)' = AtMachine(m) \ {t} /\ t \in AtMachine(m) /\ AtMachine(m) \in SUBSET Task
        BY <2>1, <2>2, <2>5, <3>1 DEF AtMachine
      <4> QED BY <2>4, <3>1, <4>1, RemoveOne DEF ResourceAccounting, TypeOK
    <3>2. CASE m # MachineOf[t]
      <4>1. AtMachine(m)' = AtMachine(m)
        BY <2>1, <2>2, <3>2 DEF AtMachine
      <4> QED BY <2>4, <3>2, <4>1 DEF ResourceAccounting, TypeOK
    <3> QED BY <3>1, <3>2
  <2>8. ASSUME NEW s \in Staff PROVE activeTasks'[s] = Cardinality(WithStaff(s)')
    <3>1. CASE s = assignedTo[t]
      <4>1. WithStaff(s)' = WithStaff(s) \ {t} /\ t \in WithStaff(s) /\ WithStaff(s) \in SUBSET Task
        BY <2>1, <2>2, <2>3, <2>5, <3>1 DEF WithStaff
      <4> QED BY <2>4, <3>1, <4>1, RemoveOne DEF ResourceAccounting, TypeOK
    <3>2. CASE s # assignedTo[t]
      <4>1. WithStaff(s)' = WithStaff(s)
        BY <2>1, <2>2, <2>3, <3>2 DEF WithStaff
      <4> QED BY <2>4, <3>2, <4>1 DEF ResourceAccounting, TypeOK
    <3> QED BY <3>1, <3>2
  <2> QED BY <2>6, <2>7, <2>8 DEF ResourceAccounting
<1> QED BY <1>1, <1>2, <1>3, <1>4, <1>5, StepKinds

\* StartTask moves a task that no transaction holds between two statuses that
\* both occupy the counter, the machine and the staff.
LEMMA StartStep ==
  ASSUME IInv, NEW t \in Task, StartTask(t)
  PROVE  /\ RowsOK' /\ UseBounded' /\ ResourceAccounting'
         /\ \A p \in Proc : CallOK(p)'
<1> USE DEF IInv, usage, locals
<1>1. /\ \A u \in Task : status'[u] \in Occupying <=> status[u] \in Occupying
      /\ \A u \in Task \ {t} : status'[u] = status[u]
      /\ status[t] = "ASSIGNED" /\ status'[t] = "STARTED" /\ lock[t] = None
  BY DEF StartTask, Occupying, TypeOK
<1>2. RowsOK'
  BY <1>1 DEF StartTask, RowsOK, Occupying
<1>3. UseBounded'
  BY DEF StartTask, UseBounded
<1>4. ResourceAccounting'
  <2>1. /\ \A c \in Counter : AtCounter(c)' = AtCounter(c)
        /\ \A m \in Machine : AtMachine(m)' = AtMachine(m)
        /\ \A s \in Staff : WithStaff(s)' = WithStaff(s)
    BY <1>1 DEF StartTask, AtCounter, AtMachine, WithStaff
  <2> QED BY <2>1 DEF StartTask, ResourceAccounting
<1>5. ASSUME NEW p \in Proc PROVE CallOK(p)'
  <2>1. /\ pc[p] \in AllocTx \cup CompleteTx => cur[p] \in Task
        /\ HeldTasks(p) /\ None # p
    BY DistinctKeys DEF CallOK, LocalsOK, OpenTx
  <2>2. HeldTasks(p)'
    BY <1>1, <2>1 DEF StartTask, HeldTasks, LockedTasks
  <2> QED BY <2>2 DEF StartTask, CallOK, LocalsOK, LocksOK, RoomKept
<1> QED BY <1>2, <1>3, <1>4, <1>5

\* The empty database satisfies the invariant.
LEMMA InitIInv == Init => IInv
<1> SUFFICES ASSUME Init PROVE IInv
  OBVIOUS
<1>1. TypeOK
  BY FiniteTables DEF Init, TypeOK, OrderStatus, TaskStatus, Label
<1>2. RowsOK
  BY DistinctKeys, ForeignKeys DEF Init, RowsOK, Occupying
<1>3. UseBounded
  BY ForeignKeys DEF Init, UseBounded
<1>4. ResourceAccounting
  <2>1. /\ \A c \in Counter : AtCounter(c) = {}
        /\ \A m \in Machine : AtMachine(m) = {}
        /\ \A s \in Staff : WithStaff(s) = {}
    BY DEF Init, AtCounter, AtMachine, WithStaff, Occupying
  <2> QED BY <2>1, FS_EmptySet DEF Init, ResourceAccounting
<1>5. \A p \in Proc : CallOK(p)
  BY DistinctKeys DEF Init, CallOK, LocalsOK, LocksOK, HeldTasks, RoomKept,
     OpenTx, AllocTx, RequeueTx, CompleteTx
<1> QED BY <1>1, <1>2, <1>3, <1>4, <1>5 DEF IInv

\* IInv is inductive.
LEMMA NextIInv == IInv /\ [Next]_vars => IInv'
<1> SUFFICES ASSUME IInv, [Next]_vars PROVE IInv'
  OBVIOUS
<1>1. TypeOK'
  BY TypeOKStep DEF IInv, CallOK
<1>2. ASSUME NEW p \in Proc, Step(p) PROVE IInv'
  <2>1. RowsOK' /\ UseBounded' /\ ResourceAccounting'
    BY <1>1, <1>2, RowsStep, BoundStep, AccountingStep DEF IInv
  <2>2. ASSUME NEW q \in Proc PROVE CallOK(q)'
    BY <1>1, <1>2, OwnCall, OtherCall DEF IInv
  <2> QED BY <1>1, <2>1, <2>2 DEF IInv
<1>3. ASSUME NEW t \in Task, StartTask(t) PROVE IInv'
  BY <1>1, <1>3, StartStep DEF IInv
<1>4. CASE UNCHANGED vars
  <2>1. RowsOK' /\ UseBounded' /\ ResourceAccounting'
    BY <1>4 DEF IInv, vars, tables, usage, RowsOK, UseBounded, ResourceAccounting,
       AtCounter, AtMachine, WithStaff
  <2>2. \A p \in Proc : CallOK(p)'
    BY <1>4 DEF IInv, vars, tables, usage, locals, CallOK, LocalsOK, LocksOK, HeldTasks,
       RoomKept, LockedTasks
  <2> QED BY <1>1, <2>1, <2>2 DEF IInv
<1> QED BY <1>2, <1>3, <1>4 DEF Next

\* The inductive invariant holds in every state of the scheduler.
THEOREM Invariance == Spec => []IInv
BY InitIInv, NextIInv, PTL DEF Spec

\* TypeOK holds for every kitchen: in particular no counter column goes
\* below zero and no call works on a row that does not exist.
THEOREM TypeCorrect == Spec => []TypeOK
<1>1. IInv => TypeOK
  BY DEF IInv
<1> QED BY <1>1, Invariance, PTL

\* ResourceAccounting for every kitchen: in_use and active_tasks always equal
\* the number of tasks that are ASSIGNED or STARTED there.
THEOREM AccountingCorrect == Spec => []ResourceAccounting
<1>1. IInv => ResourceAccounting
  BY DEF IInv
<1> QED BY <1>1, Invariance, PTL

\* CapacityRespected for every kitchen and any number of concurrent calls of
\* AllocateOnce: no counter or machine has more tasks than its capacity.
THEOREM CapacityCorrect == Spec => []CapacityRespected
<1>1. IInv => CapacityRespected
  BY DEF IInv, UseBounded, ResourceAccounting, CapacityRespected
<1> QED BY <1>1, Invariance, PTL

-----------------------------------------------------------------------------
(* Dependencies and the task board                                          *)

\* Handed out at some time, and not taken back.
Done == Occupying \cup {"COMPLETED"}

\* A step of one call leaves the task and the batch of every other call alone.
LEMMA OthersHands ==
  ASSUME TypeOK, NEW p \in Proc, NEW q \in Proc, q # p, Step(p)
  PROVE  pc'[q] = pc[q] /\ cur'[q] = cur[q] /\ batch'[q] = batch[q]
<1> USE DEF TypeOK, locals
<1>1. pc'[q] = pc[q] /\ cur'[q] = cur[q]
  BY Isolation
<1>4. Return(p) => batch'[q] = batch[q]
  BY DEF Return
<1>5. NextIteration(p) => batch'[q] = batch[q]
  BY <1>4 DEF NextIteration
<1>7. CASE ConfirmStep(p)
  BY <1>1, <1>4, <1>7 DEF ConfirmStep, CreateOrderWithTasks, InsertTaskDependencies,
     RecalculatePendingDepsForOrder, ListOrderReadyTasks, EnqueueReady, InsertDomainEventNoTx,
     ConfirmDone
<1>8. CASE RequeueStep(p)
    BY <1>1, <1>8 DEF RequeueStep, SelectExpired, RequeueStaff, RequeueCounter,
       RequeueMachine, RequeueCommit, RequeueEnqueue, LockStep
<1>9. CASE AllocStep(p)
  BY <1>1, <1>4, <1>5, <1>9 DEF AllocStep, PopTopN, LockTaskForAssignment,
     LockCounter, FindEligibleStaff, LockMachineForTask, LockStaff,
     MarkOrderInProgressIfConfirmed, AllocCommit, RecheckTask, Reenqueue, LockStep
<1>10. CASE CompleteStep(p)
  BY <1>1, <1>4, <1>10 DEF CompleteStep, UpdateTaskStatusCompleted, ReleaseCounter,
     ReleaseMachine, UpdateStaffEfficiencyAndActive, LockChild, DecrementDependentPendingDeps,
     EnqueueChild, MarkOrderPartCompletedIfNotDone, CountRemaining, CompleteOrder,
     CompleteCommit, LockStep
<1>11. CASE Fault(p)
  BY <1>1, <1>4, <1>5, <1>11 DEF Fault, Abort, Crash, RecheckFails
<1> QED BY <1>7, <1>8, <1>9, <1>10, <1>11 DEF Step

\* Ids p can come across: in the queue, in its hands, or by the status.
Known(p) == readyQueue \cup batch[p] \cup {cur[p]} \cup {t \in Task : status[t] \in Done}

\* Ids p reads from the tables: ListOrderReadyTasks and ReadyChildren.
Discovered(p) ==
    {t \in Task : \/ pc[p] = "O_List" /\ OrderOf[t] = cur[p]
                  \/ pc[p] = "C_Children" /\ cur[p] \in deps[t]}

\* Where the ids in a call's hands and in the ready queue come from: the queue,
\* the call itself, a task that was already handed out, or what ConfirmOrder
\* lists and CompleteTask finds ready.
LEMMA OwnHands ==
  ASSUME TypeOK, NEW p \in Proc, CallOK(p), Step(p)
  PROVE  /\ readyQueue' \subseteq Known(p)
         /\ batch'[p] \subseteq Known(p) \cup Discovered(p)
         /\ cur'[p] \in Known(p) \cup Order \cup {None}
<1> USE DEF TypeOK, tables, usage, locals, Known
<1>0. /\ Return(p) => batch'[p] = {} /\ cur'[p] = None
      /\ NextIteration(p) => batch'[p] = batch[p] /\ cur'[p] = None
  BY DEF Return, NextIteration
<1>1. CASE ConfirmStep(p)
  BY <1>0, <1>1 DEF ConfirmStep, CreateOrderWithTasks, InsertTaskDependencies,
     RecalculatePendingDepsForOrder, ListOrderReadyTasks, EnqueueReady, InsertDomainEventNoTx,
     ConfirmDone, Discovered, TasksOf
<1>2. CASE RequeueStep(p)
  <2>1. CASE SelectExpired(p)
    BY <2>1 DEF SelectExpired, Expirable, Done, Occupying
  <2>2. CASE RequeueMachine(p)
    BY <2>2 DEF RequeueMachine
  <2>3. CASE RequeueCommit(p)
    BY <2>3 DEF RequeueCommit, CallOK, HeldTasks, RequeueTx, LockedTasks, Done, Occupying
  <2> QED
    BY <1>2, <2>1, <2>2, <2>3 DEF RequeueStep, RequeueStaff, RequeueCounter, RequeueEnqueue, LockStep
<1>3. CASE AllocStep(p)
  <2>1. CASE PopTopN(p)
    BY <1>0, <2>1 DEF PopTopN
  <2>2. ASSUME NEW t \in Task, LockTaskForAssignment(p, t)
        PROVE  readyQueue' = readyQueue /\ batch'[p] \subseteq batch[p] /\ cur'[p] \in batch[p]
    BY <2>2 DEF LockTaskForAssignment
  <2> QED
    BY <1>0, <1>3, <2>1, <2>2 DEF AllocStep, AllocRollback,
       LockCounter, FindEligibleStaff, LockMachineForTask, LockStaff,
       MarkOrderInProgressIfConfirmed, AllocCommit, RecheckTask, Reenqueue, LockStep
<1>4. CASE CompleteStep(p)
  <2>1. CASE DecrementDependentPendingDeps(p)
    BY <2>1 DEF DecrementDependentPendingDeps, ReadyChildren, Children, Discovered
  <2>2. ASSUME NEW t \in Task, UpdateTaskStatusCompleted(p, t)
        PROVE  readyQueue' = readyQueue /\ batch'[p] = batch[p] /\ cur'[p] \in Known(p)
    BY <2>2 DEF UpdateTaskStatusCompleted, Done, Occupying
  <2> QED
    BY <1>0, <1>4, <2>1, <2>2 DEF CompleteStep, ReleaseCounter,
       ReleaseMachine, UpdateStaffEfficiencyAndActive, LockChild,
       EnqueueChild, MarkOrderPartCompletedIfNotDone, CountRemaining, CompleteOrder,
       CompleteCommit, LockStep
<1>5. CASE Fault(p)
  BY <1>0, <1>5 DEF Fault, Abort, Crash, RecheckFails
<1> QED BY <1>1, <1>2, <1>3, <1>4, <1>5 DEF Step

\* task_dependencies and pending_deps change in ConfirmOrder and at the commit
\* of CompleteTask only.
LEMMA TablesMoved ==
  ASSUME NEW p \in Proc, Step(p)
  PROVE  /\ UNCHANGED deps \/ InsertTaskDependencies(p)
         /\ UNCHANGED pendingDeps \/ RecalculatePendingDepsForOrder(p) \/ CompleteCommit(p)
<1> USE DEF tables
<1>1. CASE ConfirmStep(p)
  BY <1>1 DEF ConfirmStep, CreateOrderWithTasks, InsertTaskDependencies,
     RecalculatePendingDepsForOrder, ListOrderReadyTasks, EnqueueReady, InsertDomainEventNoTx,
     ConfirmDone
<1>2. CASE RequeueStep(p)
  BY <1>2 DEF RequeueStep, SelectExpired, RequeueStaff, RequeueCounter, RequeueMachine,
     RequeueCommit, RequeueEnqueue, LockStep
<1>3. CASE AllocStep(p)
  BY <1>3 DEF AllocStep, PopTopN, LockTaskForAssignment, LockCounter, FindEligibleStaff,
     LockMachineForTask, LockStaff, MarkOrderInProgressIfConfirmed, AllocCommit, RecheckTask,
     Reenqueue, LockStep
<1>4. CASE CompleteStep(p)
  BY <1>4 DEF CompleteStep, UpdateTaskStatusCompleted, ReleaseCounter, ReleaseMachine,
     UpdateStaffEfficiencyAndActive, LockChild, DecrementDependentPendingDeps, EnqueueChild,
     MarkOrderPartCompletedIfNotDone, CountRemaining, CompleteOrder, CompleteCommit, LockStep
<1>5. CASE Fault(p)
  BY <1>5 DEF Fault, Abort, Crash, RecheckFails
<1> QED BY <1>1, <1>2, <1>3, <1>4, <1>5 DEF Step

\* A call enters the set-up of an order through the statements of ConfirmOrder
\* only, and a transaction of AllocateOnce with pending_deps = 0 only.
LEMMA LabelMoves ==
  ASSUME TypeOK, NEW p \in Proc, Step(p)
  PROVE  /\ pc'[p] \in {"O_Deps", "O_Recalc", "O_List"} =>
               \/ \E o \in Order : CreateOrderWithTasks(p, o)
               \/ InsertTaskDependencies(p) \/ RecalculatePendingDepsForOrder(p)
         /\ pc'[p] \in AllocTx =>
               /\ UNCHANGED pendingDeps
               /\ (pc[p] \in AllocTx /\ cur'[p] = cur[p]) \/ pendingDeps[cur'[p]] = 0
<1> USE DEF AllocTx, tables, locals
<1>0. /\ \A l : Goto(p, l) => pc'[p] = l
      /\ \A r, l : Acquire(p, r, l) => pc'[p] = l
      /\ Return(p) => pc'[p] = "idle"
      /\ NextIteration(p) => pc'[p] \in {"idle", "A_Loop"}
      /\ AllocRollback(p) => pc'[p] = "A_Recheck"
  BY DEF TypeOK, Goto, Acquire, Return, NextIteration, AllocRollback
<1>1. CASE ConfirmStep(p)
  BY <1>0, <1>1 DEF ConfirmStep, CreateOrderWithTasks, InsertTaskDependencies,
     RecalculatePendingDepsForOrder, ListOrderReadyTasks, EnqueueReady, InsertDomainEventNoTx,
     ConfirmDone
<1>2. CASE RequeueStep(p)
  BY <1>0, <1>2 DEF RequeueStep, SelectExpired, RequeueStaff, RequeueCounter, RequeueMachine,
     RequeueCommit, RequeueEnqueue, LockStep
<1>3. CASE AllocStep(p)
  <2>1. ASSUME NEW t \in Task, LockTaskForAssignment(p, t)
        PROVE  /\ pc'[p] \in {"A_LockCounter", "A_Recheck"} /\ UNCHANGED pendingDeps
               /\ pc'[p] = "A_LockCounter" => pendingDeps[cur'[p]] = 0
    BY <1>0, <2>1 DEF LockTaskForAssignment, Assignable, TypeOK
  <2>2. CASE LockCounter(p) \/ FindEligibleStaff(p) \/ LockMachineForTask(p)
    BY <1>0, <2>2 DEF LockCounter, FindEligibleStaff, LockMachineForTask
  <2>3. CASE LockStaff(p) \/ MarkOrderInProgressIfConfirmed(p) \/ AllocCommit(p)
    BY <1>0, <2>3 DEF LockStaff, MarkOrderInProgressIfConfirmed, AllocCommit, LockStep
  <2>4. CASE PopTopN(p) \/ RecheckTask(p) \/ Reenqueue(p)
    BY <1>0, <2>4 DEF PopTopN, RecheckTask, Reenqueue
  <2> QED
    BY <1>3, <2>1, <2>2, <2>3, <2>4 DEF AllocStep
<1>4. CASE CompleteStep(p)
  BY <1>0, <1>4 DEF CompleteStep, UpdateTaskStatusCompleted, ReleaseCounter, ReleaseMachine,
     UpdateStaffEfficiencyAndActive, LockChild, DecrementDependentPendingDeps, EnqueueChild,
     MarkOrderPartCompletedIfNotDone, CountRemaining, CompleteOrder, CompleteCommit, LockStep
<1>5. CASE Fault(p)
  BY <1>0, <1>5 DEF Fault, Abort, Crash, RecheckFails
<1> QED BY <1>1, <1>2, <1>3, <1>4, <1>5 DEF Step

\* How a step of p may change the status of a task: only the task p works on
\* is newly handed out, and only CompleteTask completes, and that task only.
LEMMA StatusMoves ==
  ASSUME TypeOK, RowsOK, NEW p \in Proc, CallOK(p), Step(p), NEW t \in Task
  PROVE  /\ status'[t] \in Done => status[t] \in Done \/ t = cur[p]
         /\ status'[t] = "COMPLETED" <=>
               status[t] = "COMPLETED" \/ (CompleteCommit(p) /\ t = cur[p])
         /\ status'[t] = "NONE" => status[t] = "NONE"
<1> USE DEF TypeOK, Done, Occupying
<1>1. CASE Quiet /\ ~ CompleteCommit(p)
  BY <1>1 DEF Quiet
<1>2. ASSUME NEW o \in Order, CreateOrderWithTasks(p, o), ~ CompleteCommit(p)
      PROVE  /\ status'[t] \in Done => status[t] \in Done
             /\ status'[t] = "COMPLETED" <=> status[t] = "COMPLETED"
             /\ status'[t] = "NONE" => status[t] = "NONE"
  BY <1>2 DEF CreateOrderWithTasks, RowsOK, TasksOf
<1>3. CASE RequeueCommit(p) /\ ~ CompleteCommit(p)
  BY <1>3 DEF RequeueCommit, LockedTasks, CallOK, HeldTasks, RequeueTx
<1>4. CASE AllocCommit(p) /\ ~ CompleteCommit(p)
  BY <1>4 DEF AllocCommit, CallOK, HeldTasks, AllocTx
<1>5. CASE CompleteCommit(p)
  BY <1>5 DEF CompleteCommit, CallOK, HeldTasks, CompleteTx
<1> QED BY <1>1, <1>2, <1>3, <1>4, <1>5, StepKinds

\* A task becomes known to the queue or to a call only by what ConfirmOrder
\* lists or CompleteTask finds.
LEMMA TouchedGrows ==
  ASSUME TypeOK, RowsOK, NEW p \in Proc, CallOK(p), Step(p), NEW t \in Task, Touched(t)'
  PROVE  Touched(t) \/ t \in Discovered(p)
<1>1. t \notin Order \cup {None}
  BY DistinctKeys
<1>2. t \in Known(p) => Touched(t)
  BY DEF Known, Touched, Done
<1>3. CASE t \in readyQueue'
  BY <1>2, <1>3, OwnHands
<1>4. CASE status'[t] \in Done
  BY <1>2, <1>4, StatusMoves DEF Known, Done
<1>5. ASSUME NEW q \in Proc, t \in batch'[q] \/ t = cur'[q]
      PROVE  Touched(t) \/ t \in Discovered(p)
  <2>1. CASE q = p
    BY <1>1, <1>2, <1>5, <2>1, OwnHands
  <2>2. CASE q # p
    BY <1>5, <2>2, OthersHands DEF Touched
  <2> QED BY <2>1, <2>2
<1> QED BY <1>3, <1>4, <1>5 DEF Touched, Done

\* Inserted dependencies are dependencies of the recipe, within one order.
LEMMA SameOrder ==
  ASSUME DepsInv, NEW k \in Task, NEW t \in deps[k]
  PROVE  t \in DependsOn[k] /\ t \in Task /\ OrderOf[t] = OrderOf[k] /\ t # k
BY Recipes DEF DepsInv

\* pending_deps keeps counting the open dependencies: CompleteTask decrements
\* exactly the tasks that wait for the one it completes, and by one.
LEMMA LinkedStep ==
  ASSUME TypeOK, RowsOK, DepsInv, NEW p \in Proc, CallOK(p), Step(p),
         NEW u \in Task, Linked(u), status[u] # "NONE",
         ~ (pc[p] \in {"O_Deps", "O_Recalc"} /\ cur[p] = OrderOf[u])
  PROVE  Linked(u)'
<1> DEFINE Open == {d \in DependsOn[u] : status[d] # "COMPLETED"}
<1>1. DependsOn[u] \in SUBSET Task /\ Open \in SUBSET Task
  BY Recipes
<1>2. deps'[u] = deps[u]
  <2>1. CASE InsertTaskDependencies(p)
    BY <2>1 DEF InsertTaskDependencies, TasksOf, TypeOK
  <2> QED BY <2>1, TablesMoved
<1>3. CASE CompleteCommit(p) /\ cur[p] \in DependsOn[u]
  <2>1. cur[p] \in Task /\ status[cur[p]] = "STARTED"
    BY <1>3 DEF CompleteCommit, CallOK, LocalsOK, HeldTasks, OpenTx, CompleteTx
  <2>2. status[u] = "UNASSIGNED"
    BY <1>3, <2>1 DEF DepsInv, DependencyGating, Occupying, TypeOK, TaskStatus
  <2>3. u \in Children(cur[p]) /\ cur[p] \in Open
    BY <1>3, <2>1, <2>2 DEF Linked, Children
  <2>4. pendingDeps'[u] = AtLeastZero(Cardinality(Open) - 1)
    BY <1>3, <2>3 DEF CompleteCommit, Decremented, Linked
  <2>5. Open' = Open \ {cur[p]}
    BY <1>1, <1>3, <2>1 DEF CompleteCommit, TypeOK
  <2> QED BY <1>1, <1>2, <2>3, <2>4, <2>5, RemoveOne DEF Linked
<1>4. CASE ~ (CompleteCommit(p) /\ cur[p] \in DependsOn[u])
  <2>1. Open' = Open
    BY <1>1, <1>4, StatusMoves
  <2>2. pendingDeps'[u] = pendingDeps[u]
    <3>1. CASE RecalculatePendingDepsForOrder(p)
      BY <3>1 DEF RecalculatePendingDepsForOrder, TasksOf, TypeOK
    <3>2. CASE CompleteCommit(p)
      <4>1. u \notin Children(cur[p])
        BY <1>4, <3>2 DEF Children, Linked
      <4> QED BY <3>2, <4>1 DEF CompleteCommit, Decremented
    <3> QED BY <3>1, <3>2, TablesMoved
  <2> QED BY <1>2, <2>1, <2>2 DEF Linked
<1> QED BY <1>3, <1>4

\* The tasks of an order that p releases to the queue, or that are already
\* there, stay linked.
LEMMA OrderStaysLinked ==
  ASSUME TypeOK, RowsOK, DepsInv, NEW p \in Proc, CallOK(p), Step(p),
         NEW t \in Task, Touched(t), NEW u \in TasksOf(OrderOf[t])
  PROVE  Linked(u)'
<1>1. status[t] # "NONE" /\ Linked(u) /\ ~ Fresh(t)
  BY DEF DepsInv, Fresh
<1>2. u \in Task /\ OrderOf[u] = OrderOf[t] /\ status[u] # "NONE"
  BY <1>1 DEF RowsOK, TasksOf
<1>3. ~ (pc[p] \in {"O_Deps", "O_Recalc"} /\ cur[p] = OrderOf[t])
  BY <1>1 DEF DepsInv, SettingUp
<1> QED BY <1>1, <1>2, <1>3, LinkedStep

\* A task gets known to the queue or a call only after its whole order is
\* linked.
LEMMA TouchedStep ==
  ASSUME TypeOK, RowsOK, DepsInv, NEW p \in Proc, CallOK(p), Step(p),
         NEW t \in Task, Touched(t)', NEW u \in TasksOf(OrderOf[t])
  PROVE  Linked(u)'
<1>1. CASE Touched(t)
  BY <1>1, OrderStaysLinked
<1>2. CASE pc[p] = "O_List" /\ OrderOf[t] = cur[p]
  <2>1. u \in Task /\ SettingUp(p, OrderOf[u])
    BY <1>2 DEF SettingUp, TasksOf
  <2>2. Linked(u) /\ status[u] # "NONE"
    BY <1>2, <2>1 DEF DepsInv
  <2> QED BY <1>2, <2>1, <2>2, LinkedStep
<1>3. CASE pc[p] = "C_Children" /\ cur[p] \in deps[t]
  <2>1. cur[p] \in Task /\ OrderOf[cur[p]] = OrderOf[t]
    BY <1>3, SameOrder
  <2>2. Touched(cur[p])
    BY DEF Touched
  <2> QED BY <2>1, <2>2, OrderStaysLinked
<1> QED BY <1>1, <1>2, <1>3, TouchedGrows DEF Discovered

\* The tasks of an order that ConfirmOrder has created but not recalculated
\* stay untouched by everyone else.
LEMMA FreshStep ==
  ASSUME TypeOK, RowsOK, DepsInv, NEW p \in Proc, CallOK(p), Step(p), NEW t \in Task,
         \A u \in TasksOf(OrderOf[t]) : Fresh(u),
         ~ (pc[p] \in {"O_Recalc", "O_List"} /\ cur[p] = OrderOf[t])
  PROVE  Fresh(t)'
<1>1. Fresh(t) /\ t \in TasksOf(OrderOf[t])
  BY DEF TasksOf
<1>2. cur[p] \notin deps[t]
  <2> SUFFICES ASSUME cur[p] \in deps[t] PROVE FALSE
    OBVIOUS
  <2>1. cur[p] \in TasksOf(OrderOf[t])
    BY SameOrder DEF TasksOf
  <2> QED BY <2>1 DEF Fresh, Touched
<1>3. ~ Touched(t)'
  BY <1>1, <1>2, TouchedGrows DEF Fresh, Discovered
<1>4. pendingDeps'[t] = 0
  <2>1. CASE UNCHANGED pendingDeps
    BY <1>1, <2>1 DEF Fresh
  <2>2. CASE RecalculatePendingDepsForOrder(p)
    BY <1>1, <2>2 DEF RecalculatePendingDepsForOrder, TasksOf, Fresh
  <2>3. CASE CompleteCommit(p)
    BY <1>1, <1>2, <2>3 DEF CompleteCommit, Decremented, Children, Fresh
  <2> QED BY <2>1, <2>2, <2>3, TablesMoved
<1> QED BY <1>3, <1>4 DEF Fresh

\* AllocateOnce hands out a task only when its dependencies are completed, and
\* a completed task stays so.
LEMMA GatingStep ==
  ASSUME TypeOK, RowsOK, DepsInv, NEW p \in Proc, CallOK(p), Step(p)
  PROVE  DependencyGating'
<1> SUFFICES ASSUME NEW t \in Task, status'[t] \in Done, NEW d \in DependsOn[t]
             PROVE  status'[d] = "COMPLETED"
  BY DEF DependencyGating, Done
<1>1. d \in Task
  BY Recipes
<1>2. status[d] = "COMPLETED"
  <2>1. CASE status[t] \in Done
    BY <2>1 DEF DepsInv, DependencyGating, Done
  <2>2. CASE status[t] \notin Done /\ AllocCommit(p)
    <3>1. t = cur[p] /\ pc[p] \in AllocTx
      BY <2>2, StatusMoves DEF AllocCommit, AllocTx
    <3>2. Linked(t) /\ pendingDeps[t] = 0
      BY <3>1 DEF DepsInv, Touched, TasksOf
    <3>3. {x \in DependsOn[t] : status[x] # "COMPLETED"} \in SUBSET Task
      BY Recipes
    <3>4. {x \in DependsOn[t] : status[x] # "COMPLETED"} = {}
      BY <3>2, <3>3, FinitePart, FS_EmptySet DEF Linked
    <3> QED BY <3>4
  <2>3. CASE status[t] \notin Done /\ ~ AllocCommit(p)
    <3>1. t = cur[p]
      BY <2>3, StatusMoves
    <3>2. CompleteCommit(p) => status[t] \in Done
      BY <3>1 DEF CompleteCommit, CallOK, HeldTasks, CompleteTx, Done, Occupying
    <3>3. Quiet => status'[t] \notin Done
      BY <2>3 DEF Quiet
    <3>4. ASSUME NEW o \in Order, CreateOrderWithTasks(p, o) PROVE status'[t] \notin Done
      BY <2>3, <3>4 DEF CreateOrderWithTasks, Done, Occupying
    <3>5. RequeueCommit(p) => status'[t] \notin Done
      BY <2>3 DEF RequeueCommit, Done, Occupying
    <3> QED BY <2>3, <3>2, <3>3, <3>4, <3>5, StepKinds
  <2> QED BY <2>1, <2>2, <2>3
<1> QED BY <1>1, <1>2, StatusMoves

\* ConfirmOrder takes an order through creation, links and recalculation with
\* no one else at work on it.
LEMMA SettingUpStep ==
  ASSUME TypeOK, RowsOK, DepsInv, NEW p \in Proc, CallOK(p), Step(p),
         NEW q \in Proc, NEW t \in Task, SettingUp(q, OrderOf[t])'
  PROVE  /\ Fresh(t)' \/ pc'[q] = "O_List"
         /\ pc'[q] = "O_Recalc" => deps'[t] = DependsOn[t]
         /\ pc'[q] = "O_List" => Linked(t)'
         /\ status'[t] # "NONE"
         /\ \A r \in Proc \ {q} : ~ SettingUp(r, OrderOf[t])'
<1>1. CASE q # p
  <2>1. pc'[q] = pc[q] /\ cur'[q] = cur[q] /\ SettingUp(q, OrderOf[t])
    BY <1>1, OthersHands DEF SettingUp
  <2>2. /\ status[t] # "NONE" /\ ~ SettingUp(p, OrderOf[t])
        /\ pc[q] = "O_List" => Linked(t)
        /\ pc[q] = "O_Recalc" => deps[t] = DependsOn[t]
    BY <1>1, <2>1 DEF DepsInv
  <2>3. Fresh(t)' \/ pc'[q] = "O_List"
    <3> SUFFICES ASSUME pc[q] # "O_List" PROVE Fresh(t)'
      BY <2>1
    <3>1. \A u \in TasksOf(OrderOf[t]) : Fresh(u)
      BY <2>1 DEF DepsInv, TasksOf, SettingUp
    <3> QED BY <2>2, <3>1, FreshStep DEF SettingUp
  <2>4. pc'[q] = "O_List" => Linked(t)'
    BY <2>1, <2>2, LinkedStep DEF SettingUp
  <2>5. pc'[q] = "O_Recalc" => deps'[t] = DependsOn[t]
    BY <2>1, <2>2, TablesMoved DEF InsertTaskDependencies
  <2>6. status'[t] # "NONE"
    BY <2>2, StatusMoves
  <2>7. ASSUME NEW r \in Proc \ {q}, SettingUp(r, OrderOf[t])' PROVE FALSE
    <3>1. CASE r # p
      <4>1. SettingUp(r, OrderOf[t])
        BY <2>7, <3>1, OthersHands DEF SettingUp
      <4> QED BY <2>1, <4>1 DEF DepsInv
    <3>2. CASE r = p
      <4>1. ASSUME NEW o \in Order, CreateOrderWithTasks(p, o) PROVE FALSE
        <5>1. o = OrderOf[t]
          BY <2>7, <3>2, <4>1 DEF SettingUp, CreateOrderWithTasks, TypeOK
        <5> QED BY <2>2, <4>1, <5>1 DEF CreateOrderWithTasks, RowsOK
      <4>2. InsertTaskDependencies(p) \/ RecalculatePendingDepsForOrder(p) => FALSE
        BY <2>2, <2>7, <3>2 DEF InsertTaskDependencies, RecalculatePendingDepsForOrder,
           SettingUp, locals
      <4> QED BY <2>7, <3>2, <4>1, <4>2, LabelMoves DEF SettingUp
    <3> QED BY <3>1, <3>2
  <2> QED BY <2>3, <2>4, <2>5, <2>6, <2>7
<1>2. CASE q = p
  <2>0. /\ t \in TasksOf(OrderOf[t])
        /\ \A l : Goto(p, l) => pc'[p] = l
    BY DEF TasksOf, Goto, TypeOK
  <2>1. ASSUME NEW r \in Proc \ {q}, SettingUp(r, OrderOf[t])'
        PROVE  SettingUp(r, OrderOf[t])
    BY <1>2, <2>1, OthersHands DEF SettingUp
  <2>2. ASSUME NEW o \in Order, CreateOrderWithTasks(p, o)
        PROVE  /\ Fresh(t)' \/ pc'[q] = "O_List"
               /\ pc'[q] = "O_Recalc" => deps'[t] = DependsOn[t]
               /\ pc'[q] = "O_List" => Linked(t)'
               /\ status'[t] # "NONE"
               /\ \A r \in Proc \ {q} : ~ SettingUp(r, OrderOf[t])
    <3>1. o = OrderOf[t]
      BY <1>2, <2>2 DEF SettingUp, CreateOrderWithTasks, TypeOK
    <3>2. \A u \in TasksOf(OrderOf[t]) : status[u] = "NONE"
      BY <2>2, <3>1 DEF CreateOrderWithTasks, RowsOK, TasksOf
    <3>3. Fresh(t)'
      <4>1. \A u \in TasksOf(OrderOf[t]) : Fresh(u)
        BY <3>2 DEF DepsInv, TasksOf
      <4> QED BY <2>2, <4>1, FreshStep DEF CreateOrderWithTasks
    <3>4. pc'[q] \in {"O_Deps", "O_List"}
      BY <1>2, <2>0, <2>2 DEF CreateOrderWithTasks
    <3>5. pc'[q] = "O_List" => DependsOn[t] = {}
      BY <1>2, <2>0, <2>2, <3>1 DEF CreateOrderWithTasks
    <3>6. deps'[t] = {} /\ pendingDeps'[t] = 0
      BY <2>0, <2>2, <3>2, <3>3 DEF CreateOrderWithTasks, DepsInv, Fresh
    <3>7. DependsOn[t] = {} => Linked(t)'
      <4> SUFFICES ASSUME DependsOn[t] = {} PROVE Linked(t)'
        OBVIOUS
      <4>1. {d \in DependsOn[t] : status'[d] # "COMPLETED"} = {}
        OBVIOUS
      <4> QED BY <3>6, <4>1, FS_EmptySet DEF Linked
    <3>8. status'[t] = "UNASSIGNED"
      BY <2>0, <2>2, <3>1 DEF CreateOrderWithTasks
    <3>9. \A r \in Proc : ~ SettingUp(r, OrderOf[t])
      BY <2>0, <3>2 DEF DepsInv
    <3> QED BY <3>3, <3>4, <3>5, <3>7, <3>8, <3>9
  <2>3. ASSUME pc[p] \in {"O_Deps", "O_Recalc"}, UNCHANGED cur
        PROVE  /\ SettingUp(p, OrderOf[t]) /\ status'[t] # "NONE"
               /\ \A u \in TasksOf(OrderOf[t]) : Fresh(u)
               /\ \A r \in Proc \ {q} : ~ SettingUp(r, OrderOf[t])
    <3>1. SettingUp(p, OrderOf[t])
      BY <1>2, <2>3 DEF SettingUp
    <3> QED BY <1>2, <2>3, <3>1, StatusMoves DEF DepsInv, TasksOf
  <2>4. CASE InsertTaskDependencies(p)
    <3>1. /\ pc[p] = "O_Deps" /\ pc'[p] = "O_Recalc" /\ UNCHANGED <<cur, pendingDeps>>
          /\ cur[p] = OrderOf[t]
      BY <1>2, <2>0, <2>4 DEF InsertTaskDependencies, locals, SettingUp
    <3>2. deps'[t] = DependsOn[t]
      BY <2>0, <2>4, <3>1 DEF InsertTaskDependencies
    <3>3. Fresh(t)'
      BY <2>3, <3>1, FreshStep
    <3> QED BY <1>2, <2>1, <2>3, <3>1, <3>2, <3>3
  <2>5. CASE RecalculatePendingDepsForOrder(p)
    <3>1. /\ pc[p] = "O_Recalc" /\ pc'[p] = "O_List" /\ UNCHANGED <<cur, deps, status>>
          /\ cur[p] = OrderOf[t]
      BY <1>2, <2>0, <2>5 DEF RecalculatePendingDepsForOrder, locals, SettingUp
    <3>2. SettingUp(p, OrderOf[t]) /\ deps[t] = DependsOn[t] /\ Fresh(t)
      BY <2>0, <2>3, <3>1 DEF DepsInv
    <3>3. DependsOn[t] = {d \in DependsOn[t] : status[d] # "COMPLETED"}
      <4>1. ASSUME NEW d \in DependsOn[t] PROVE status[d] # "COMPLETED"
        <5>1. d \in TasksOf(OrderOf[t])
          BY Recipes DEF TasksOf
        <5> QED BY <2>3, <3>1, <5>1 DEF Fresh, Touched
      <4> QED BY <4>1
    <3>4. pendingDeps'[t] = Cardinality(DependsOn[t])
      <4>1. CASE DependsOn[t] # {}
        BY <2>0, <2>5, <3>1, <3>2, <4>1 DEF RecalculatePendingDepsForOrder
      <4>2. CASE DependsOn[t] = {}
        BY <2>0, <2>5, <3>1, <3>2, <4>2, FS_EmptySet DEF RecalculatePendingDepsForOrder, Fresh
      <4> QED BY <4>1, <4>2
    <3>5. Linked(t)'
      BY <3>1, <3>2, <3>3, <3>4 DEF Linked
    <3> QED BY <1>2, <2>1, <2>3, <3>1, <3>5
  <2> QED BY <1>2, <2>1, <2>2, <2>4, <2>5, LabelMoves DEF SettingUp
<1> QED BY <1>1, <1>2

\* pending_deps of the task AllocateOnce holds stays 0 until its commit.
LEMMA AllocReadyStep ==
  ASSUME TypeOK, RowsOK, DepsInv, NEW p \in Proc, CallOK(p), Step(p),
         NEW q \in Proc, CallOK(q), pc'[q] \in AllocTx
  PROVE  pendingDeps'[cur'[q]] = 0
<1>1. CASE q = p
  BY <1>1, LabelMoves DEF DepsInv
<1>2. CASE q # p
  <2>1. /\ pc[q] \in AllocTx /\ cur'[q] = cur[q]
        /\ cur[q] \in Task /\ Touched(cur[q]) /\ pendingDeps[cur[q]] = 0
    BY <1>2, OthersHands DEF CallOK, LocalsOK, OpenTx, Touched, DepsInv
  <2>2. CASE RecalculatePendingDepsForOrder(p)
    <3>1. ~ SettingUp(p, OrderOf[cur[q]])
      BY <2>1, <2>2 DEF DepsInv, Fresh, RecalculatePendingDepsForOrder
    <3> QED BY <2>1, <2>2, <3>1 DEF RecalculatePendingDepsForOrder, SettingUp, TasksOf
  <2>3. CASE CompleteCommit(p)
    BY <2>1, <2>3 DEF CompleteCommit, Decremented, AtLeastZero
  <2> QED BY <2>1, <2>2, <2>3, TablesMoved
<1> QED BY <1>1, <1>2

\* DepsInv is preserved by every step of a call.
LEMMA DepsStep ==
  ASSUME TypeOK, RowsOK, DepsInv, \A q \in Proc : CallOK(q), NEW p \in Proc, Step(p)
  PROVE  DepsInv'
<1>1. DependencyGating'
  BY GatingStep
<1>2. ASSUME NEW t \in Task PROVE deps'[t] \subseteq DependsOn[t]
  BY TablesMoved DEF DepsInv, InsertTaskDependencies
<1>3. ASSUME NEW t \in Task, status'[t] = "NONE" PROVE Fresh(t)' /\ deps'[t] = {}
  <2>1. \A u \in TasksOf(OrderOf[t]) : status[u] = "NONE" /\ Fresh(u)
    BY <1>3, StatusMoves DEF RowsOK, TasksOf, DepsInv
  <2>2. t \in TasksOf(OrderOf[t]) /\ ~ SettingUp(p, OrderOf[t]) /\ deps[t] = {}
    BY <2>1 DEF DepsInv, TasksOf
  <2>3. Fresh(t)'
    BY <2>1, <2>2, FreshStep DEF SettingUp
  <2>4. deps'[t] = {}
    BY <2>2, TablesMoved DEF InsertTaskDependencies, SettingUp, TasksOf
  <2> QED BY <2>3, <2>4
<1>4. ASSUME NEW t \in Task, Touched(t)' PROVE \A u \in TasksOf(OrderOf[t]) : Linked(u)'
  BY <1>4, TouchedStep
<1>5. ASSUME NEW q \in Proc, NEW t \in Task, SettingUp(q, OrderOf[t])'
      PROVE  /\ Fresh(t)' \/ pc'[q] = "O_List"
             /\ pc'[q] = "O_Recalc" => deps'[t] = DependsOn[t]
             /\ pc'[q] = "O_List" => Linked(t)'
             /\ status'[t] # "NONE"
             /\ \A r \in Proc \ {q} : ~ SettingUp(r, OrderOf[t])'
  BY <1>5, SettingUpStep
<1>6. ASSUME NEW q \in Proc, pc'[q] \in AllocTx PROVE pendingDeps'[cur'[q]] = 0
  BY <1>6, AllocReadyStep
<1>7. \A t \in Task : TasksOf(OrderOf[t])' = TasksOf(OrderOf[t])
  BY DEF TasksOf
<1> QED BY <1>1, <1>2, <1>3, <1>4, <1>5, <1>6, <1>7 DEF DepsInv

\* A step that leaves the tables of dependencies, the queue and the calls
\* alone, and no task COMPLETED, UNASSIGNED or NONE that was not so before:
\* StartTask, and a step of something else.
LEMMA DepsKept ==
  ASSUME TypeOK, DepsInv, UNCHANGED <<deps, pendingDeps, readyQueue, pc, cur, batch>>,
         \A t \in Task : /\ status'[t] \in Done <=> status[t] \in Done
                         /\ status'[t] = "COMPLETED" <=> status[t] = "COMPLETED"
                         /\ status'[t] = "NONE" <=> status[t] = "NONE"
  PROVE  DepsInv'
<1>1. \A t \in Task : Touched(t)' <=> Touched(t)
  BY DEF Touched, Done
<1>2. ASSUME NEW t \in Task PROVE Linked(t)' <=> Linked(t)
  <2>1. {d \in DependsOn[t] : status'[d] # "COMPLETED"}
           = {d \in DependsOn[t] : status[d] # "COMPLETED"}
    BY Recipes
  <2> QED BY <2>1 DEF Linked
<1>3. DependencyGating'
  BY Recipes DEF DepsInv, DependencyGating, Done
<1>4. \A t \in Task : Fresh(t)' <=> Fresh(t)
  BY <1>1 DEF Fresh
<1>5. \A p \in Proc, o \in Order : SettingUp(p, o)' <=> SettingUp(p, o)
  BY DEF SettingUp
<1>6. \A t \in Task : TasksOf(OrderOf[t])' = TasksOf(OrderOf[t]) /\ OrderOf[t] \in Order
  BY ForeignKeys DEF TasksOf
<1>7. \A t \in Task : TasksOf(OrderOf[t]) \subseteq Task
  BY DEF TasksOf
<1> QED BY <1>1, <1>2, <1>3, <1>4, <1>5, <1>6, <1>7 DEF DepsInv

\* DepsInv holds in the empty database.
LEMMA InitDeps == Init => DepsInv
<1> SUFFICES ASSUME Init PROVE DepsInv
  OBVIOUS
<1>1. \A t \in Task : ~ Touched(t) /\ Fresh(t)
  BY DistinctKeys DEF Init, Touched, Fresh, Occupying
<1>2. DependencyGating
  BY DEF Init, DependencyGating, Occupying
<1>3. \A p \in Proc, o \in Order : ~ SettingUp(p, o)
  BY DEF Init, SettingUp
<1> QED BY <1>1, <1>2, <1>3, ForeignKeys DEF Init, DepsInv, AllocTx

\* DepsInv is inductive relative to IInv.
LEMMA NextDeps == IInv /\ DepsInv /\ [Next]_vars => DepsInv'
<1> SUFFICES ASSUME IInv, DepsInv, [Next]_vars PROVE DepsInv'
  OBVIOUS
<1>1. ASSUME NEW p \in Proc, Step(p) PROVE DepsInv'
  BY <1>1, DepsStep DEF IInv
<1>2. ASSUME NEW t \in Task, StartTask(t) PROVE DepsInv'
  BY <1>2, DepsKept DEF IInv, TypeOK, StartTask, locals, Done, Occupying
<1>3. CASE UNCHANGED vars
  BY <1>3, DepsKept DEF IInv, vars, tables, locals
<1> QED BY <1>1, <1>2, <1>3 DEF Next

\* DepsInv is an invariant of the scheduler.
THEOREM DepsInvariance == Spec => []DepsInv
BY InitDeps, NextDeps, Invariance, PTL DEF Spec

\* AllocateOnce never hands out a task before its dependencies are COMPLETED,
\* for every recipe and any interleaving with ConfirmOrder and CompleteTask.
THEOREM GatingCorrect == Spec => []DependencyGating
<1>1. DepsInv => DependencyGating
  BY DEF DepsInv
<1> QED BY <1>1, DepsInvariance, PTL

\* The commit of AllocateOnce is a legal assignment of the board: pending_deps
\* and in_use, which it checked, say what the board asks of the tasks.
LEMMA AllocIsAssign ==
  ASSUME IInv, DepsInv, NEW p \in Proc, AllocCommit(p)
  PROVE  Board!Assign(cur[p], pick[p]) /\ cur[p] \in Task /\ pick[p] \in Staff
<1> DEFINE t == cur[p]
<1>1. pc[p] = "A_Commit" /\ CallOK(p)
  BY DEF AllocCommit, IInv
<1>2. /\ t \in Task /\ pick[p] \in Staff /\ <<pick[p], CounterOf[t]>> \in Skills
      /\ HomeCounter[MachineOf[t]] = CounterOf[t] /\ status[t] = "UNASSIGNED"
  BY <1>1 DEF CallOK, LocalsOK, HeldTasks, OpenTx, AllocTx
<1>3. \A d \in DependsOn[t] : status[d] = "COMPLETED"
  <2>1. Linked(t) /\ pendingDeps[t] = 0
    BY <1>1, <1>2 DEF DepsInv, Touched, TasksOf, AllocTx
  <2>2. {d \in DependsOn[t] : status[d] # "COMPLETED"} \in SUBSET Task
    BY <1>2, Recipes
  <2>3. {d \in DependsOn[t] : status[d] # "COMPLETED"} = {}
    BY <2>1, <2>2, FinitePart, FS_EmptySet DEF Linked
  <2> QED BY <2>3
<1>4. /\ counterUse[CounterOf[t]] < CounterCap[CounterOf[t]]
      /\ machineUse[MachineOf[t]] < MachineCap[MachineOf[t]]
  BY <1>1 DEF CallOK, RoomKept, AllocTx
<1>5. CounterOf[t] \in Counter /\ MachineOf[t] \in Machine
  BY <1>2, ForeignKeys
<1>6. /\ {u \in Board!Busy : CounterOf[u] = CounterOf[t]} = AtCounter(CounterOf[t])
      /\ {u \in Board!Busy : MachineOf[u] = MachineOf[t]} = AtMachine(MachineOf[t])
  BY DEF Board!Busy, AtCounter, AtMachine, Occupying
<1>7. /\ Cardinality({u \in Board!Busy : CounterOf[u] = CounterOf[t]}) < CounterCap[CounterOf[t]]
      /\ Cardinality({u \in Board!Busy : MachineOf[u] = MachineOf[t]}) < MachineCap[MachineOf[t]]
  BY <1>4, <1>5, <1>6 DEF IInv, ResourceAccounting
<1>8. \A S : Board!Cardinality(S) = Cardinality(S)
  BY DEF Board!Cardinality, Cardinality
<1> QED BY <1>2, <1>3, <1>7, <1>8 DEF Board!Assign, AllocCommit

\* Every step of a call is a step of the board or leaves the tasks as they are.
LEMMA CallOnBoard ==
  ASSUME IInv, DepsInv, NEW p \in Proc, Step(p)
  PROVE  Board!Next \/ UNCHANGED <<status, assignedTo>>
<1>1. CASE Quiet
  BY <1>1 DEF Quiet
<1>2. ASSUME NEW o \in Order, CreateOrderWithTasks(p, o) PROVE Board!Next
  <2>1. Board!Confirm(o)
    BY <1>2 DEF Board!Confirm, CreateOrderWithTasks, IInv, RowsOK, TasksOf
  <2> QED BY <2>1 DEF Board!Next
<1>3. CASE RequeueCommit(p)
  <2>1. Board!Withdraw(LockedTasks(p)) /\ LockedTasks(p) \in SUBSET Task
    BY <1>3 DEF Board!Withdraw, RequeueCommit, IInv, CallOK, HeldTasks, RequeueTx, LockedTasks
  <2> QED BY <2>1 DEF Board!Next
<1>4. CASE AllocCommit(p)
  BY <1>4, AllocIsAssign DEF Board!Next
<1>5. CASE CompleteCommit(p)
  <2>1. cur[p] \in Task /\ Board!Complete(cur[p])
    BY <1>5 DEF Board!Complete, CompleteCommit, IInv, CallOK, LocalsOK, HeldTasks, OpenTx, CompleteTx
  <2> QED BY <2>1 DEF Board!Next
<1> QED BY <1>1, <1>2, <1>3, <1>4, <1>5, StepKinds DEF IInv

\* The scheduler implements the task board, for every kitchen and any number
\* of concurrent calls.
THEOREM ImplementsTaskBoard == Spec => RefinesTaskBoard
<1>1. Init => Board!Init
  BY DEF Init, Board!Init
<1>2. IInv /\ DepsInv /\ [Next]_vars => [Board!Next]_<<status, assignedTo>>
  <2> SUFFICES ASSUME IInv, DepsInv, [Next]_vars
               PROVE  Board!Next \/ UNCHANGED <<status, assignedTo>>
    OBVIOUS
  <2>1. ASSUME NEW p \in Proc, Step(p) PROVE Board!Next \/ UNCHANGED <<status, assignedTo>>
    BY <2>1, CallOnBoard
  <2>2. ASSUME NEW t \in Task, StartTask(t) PROVE Board!Next
    <3>1. Board!Start(t)
      BY <2>2 DEF StartTask, Board!Start
    <3> QED BY <3>1 DEF Board!Next
  <2>3. CASE UNCHANGED vars
    BY <2>3 DEF vars, tables
  <2> QED BY <2>1, <2>2, <2>3 DEF Next
<1> QED BY <1>1, <1>2, Invariance, DepsInvariance, PTL DEF Spec, RefinesTaskBoard, Board!Spec

==============================================================================
