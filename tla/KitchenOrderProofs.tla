-------------------------- MODULE KitchenOrderProofs --------------------------
(***************************************************************************)
(* The life of an order, for every kitchen and any number of concurrent    *)
(* calls.  Its status never goes back, and never claims more or less than  *)
(* its tasks show.  Only completions that have children in common can wait *)
(* for each other.  Its rows in domain_events tell the state of each task, *)
(* TASK_READY is never written twice, and unless a call was cut short no   *)
(* ready task is lost.                                                     *)
(*                                                                         *)
(* The argument: a transaction that has found the order in the status its  *)
(* conditional UPDATE asks for holds the row of the order (OrderWrite), so *)
(* no other commit moves that order in between (OrderMoves), and an UPDATE *)
(* that did not match will not be needed later: the order only advances.   *)
(* A call that waits for a row holds earlier rows only (LocksInOrder), so  *)
(* whoever it waits for is further on, up to the children (WaitsUp).       *)
(*                                                                         *)
(* TASK_READY is written by ConfirmOrder for tasks without dependencies,   *)
(* which it alone has in its hands (Owed), and by the commit that          *)
(* completes the last dependency of the others (ReadyOnce).  A ready task  *)
(* goes from hand to hand: from a batch to the queue, by ZPOPMIN to        *)
(* another batch (HandKept); a child that was enqueued before the commit   *)
(* of CompleteTask is put back by whoever pops it, because its row is      *)
(* locked and UNASSIGNED (ChildrenStay).                                   *)
(***************************************************************************)
EXTENDS KitchenProofs

-----------------------------------------------------------------------------
(* The status of an order, and the order of the row locks                   *)

\* Where a transaction may have an order status to write.
Late == {"A_Commit", "C_Count", "C_Finish", "C_Commit"}

\* The order status a call will write is set by three statements only, and is
\* gone when its transaction is.
LEMMA PlanMoves ==
  ASSUME TypeOK, NEW p \in Proc, Step(p)
  PROVE  \/ /\ pc'[p] \notin Late
            /\ orderTo'[p] = "NONE" \/ (orderTo'[p] = orderTo[p] /\ pc[p] \notin Late)
         \/ /\ Quiet
            /\ \/ MarkOrderInProgressIfConfirmed(p) \/ MarkOrderPartCompletedIfNotDone(p)
               \/ CountRemaining(p) \/ CompleteOrder(p)
<1> USE DEF Late, tables, usage, locals
<1>0. /\ \A l : Goto(p, l) => pc'[p] = l
      /\ \A r, l : Acquire(p, r, l) => pc'[p] = l
      /\ Return(p) => pc'[p] = "idle" /\ orderTo'[p] = "NONE"
      /\ NextIteration(p) => pc'[p] \in {"idle", "A_Loop"} /\ orderTo'[p] = "NONE"
      /\ AllocRollback(p) => pc'[p] = "A_Recheck" /\ orderTo'[p] = "NONE"
  BY DEF TypeOK, Goto, Acquire, Return, NextIteration, AllocRollback
<1>1. CASE ConfirmStep(p)
  BY <1>0, <1>1 DEF ConfirmStep, CreateOrderWithTasks, InsertTaskDependencies,
     RecalculatePendingDepsForOrder, ListOrderReadyTasks, EnqueueReady, InsertDomainEventNoTx,
     ConfirmDone
<1>2. CASE RequeueStep(p)
  BY <1>0, <1>2 DEF RequeueStep, SelectExpired, RequeueStaff, RequeueCounter, RequeueMachine,
     RequeueCommit, RequeueEnqueue, LockStep
<1>3. CASE AllocStep(p)
  BY <1>0, <1>3 DEF AllocStep, PopTopN, LockTaskForAssignment, LockCounter, FindEligibleStaff,
     LockMachineForTask, LockStaff, AllocCommit, RecheckTask, Reenqueue, LockStep, Quiet,
     MarkOrderInProgressIfConfirmed
<1>4. CASE CompleteStep(p)
  BY <1>0, <1>4 DEF CompleteStep, UpdateTaskStatusCompleted, ReleaseCounter, ReleaseMachine,
     UpdateStaffEfficiencyAndActive, LockChild, DecrementDependentPendingDeps, EnqueueChild,
     CompleteCommit, LockStep, Quiet, MarkOrderPartCompletedIfNotDone, CountRemaining, CompleteOrder
<1>5. CASE Fault(p)
  BY <1>0, <1>5 DEF Fault, Abort, Crash, RecheckFails, AllocTx, RequeueTx, CompleteTx
<1> QED BY <1>1, <1>2, <1>3, <1>4, <1>5 DEF Step

\* A step of one call leaves what another will write alone.
LEMMA OthersPlan ==
  ASSUME TypeOK, NEW p \in Proc, NEW q \in Proc, q # p, Step(p)
  PROVE  orderTo'[q] = orderTo[q]
<1> USE DEF TypeOK, locals
<1>1. Return(p) => orderTo'[q] = orderTo[q]
  BY DEF Return
<1>2. NextIteration(p) => orderTo'[q] = orderTo[q]
  BY <1>1 DEF NextIteration
<1>3. AllocRollback(p) => orderTo'[q] = orderTo[q]
  BY DEF AllocRollback
<1>4. CASE ConfirmStep(p)
  BY <1>1, <1>4 DEF ConfirmStep, CreateOrderWithTasks, InsertTaskDependencies,
     RecalculatePendingDepsForOrder, ListOrderReadyTasks, EnqueueReady, InsertDomainEventNoTx,
     ConfirmDone
<1>5. CASE RequeueStep(p)
  BY <1>5 DEF RequeueStep, SelectExpired, RequeueStaff, RequeueCounter, RequeueMachine,
     RequeueCommit, RequeueEnqueue, LockStep
<1>6. CASE AllocStep(p)
  BY <1>1, <1>2, <1>3, <1>6 DEF AllocStep, PopTopN, LockTaskForAssignment, LockCounter,
     FindEligibleStaff, LockMachineForTask, LockStaff, MarkOrderInProgressIfConfirmed,
     AllocCommit, RecheckTask, Reenqueue, LockStep
<1>7. CASE CompleteStep(p)
  BY <1>1, <1>7 DEF CompleteStep, UpdateTaskStatusCompleted, ReleaseCounter,
     ReleaseMachine, UpdateStaffEfficiencyAndActive, LockChild, DecrementDependentPendingDeps,
     EnqueueChild, MarkOrderPartCompletedIfNotDone, CountRemaining, CompleteOrder,
     CompleteCommit, LockStep
<1>8. CASE Fault(p)
  BY <1>1, <1>2, <1>3, <1>8 DEF Fault, Abort, Crash, RecheckFails
<1> QED BY <1>4, <1>5, <1>6, <1>7, <1>8 DEF Step

\* p starts the order, or moves it on because it has completed a task of it.
Creates(p, o) == /\ CreateOrderWithTasks(p, o)
                 /\ orderStatus[o] = "NONE" /\ orderStatus'[o] = "CONFIRMED"
Begins(p, o) == /\ AllocCommit(p) /\ o = OrderOf[cur[p]]
                /\ orderStatus[o] = "CONFIRMED" /\ orderStatus'[o] = "IN_PROGRESS"
Advances(p, o) == /\ CompleteCommit(p) /\ o = OrderOf[cur[p]]
                  /\ \/ orderStatus[o] \in NotDone /\ orderStatus'[o] = "PART_COMPLETED"
                     \/ OtherTasksDone(cur[p]) /\ orderStatus'[o] = "COMPLETED"

\* How the status of an order may move: forwards only, and after the creation
\* only by the transaction that holds the row of the order.
LEMMA OrderMoves ==
  ASSUME TypeOK, NEW p \in Proc, CallOK(p), OrderWrite(p), Step(p), NEW o \in Order
  PROVE  \/ orderStatus'[o] = orderStatus[o]
         \/ Creates(p, o)
         \/ lock[o] = p /\ (Begins(p, o) \/ Advances(p, o))
<1> USE DEF TypeOK
<1>1. CASE Quiet
  BY <1>1 DEF Quiet
<1>2. ASSUME NEW n \in Order, CreateOrderWithTasks(p, n)
      PROVE  orderStatus'[o] = orderStatus[o] \/ Creates(p, o)
  <2>1. CASE n = o
    BY <1>2, <2>1 DEF CreateOrderWithTasks, Creates
  <2> QED BY <1>2, <2>1 DEF CreateOrderWithTasks
<1>3. CASE RequeueCommit(p)
  BY <1>3 DEF RequeueCommit
<1>4. CASE AllocCommit(p)
  <2>1. cur[p] \in Task /\ pc[p] = "A_Commit"
    BY <1>4 DEF AllocCommit, CallOK, LocalsOK, OpenTx, AllocTx
  <2>2. orderTo[p] # "NONE" =>
           /\ lock[OrderOf[cur[p]]] = p
           /\ orderTo[p] = "IN_PROGRESS" /\ orderStatus[OrderOf[cur[p]]] = "CONFIRMED"
    BY <2>1 DEF OrderWrite
  <2>3. orderStatus' = OrdersAfter(p)
    BY <1>4 DEF AllocCommit
  <2> QED BY <1>4, <2>1, <2>2, <2>3, ForeignKeys DEF OrdersAfter, Begins
<1>5. CASE CompleteCommit(p)
  <2>1. cur[p] \in Task /\ pc[p] = "C_Commit"
    BY <1>5 DEF CompleteCommit, CallOK, LocalsOK, OpenTx, CompleteTx
  <2>2. orderTo[p] # "NONE" =>
           /\ lock[OrderOf[cur[p]]] = p
           /\ \/ orderTo[p] = "PART_COMPLETED" /\ orderStatus[OrderOf[cur[p]]] \in NotDone
              \/ orderTo[p] = "COMPLETED" /\ OtherTasksDone(cur[p])
    BY <2>1 DEF OrderWrite
  <2>3. orderStatus' = OrdersAfter(p)
    BY <1>5 DEF CompleteCommit
  <2> QED BY <1>5, <2>1, <2>2, <2>3, ForeignKeys DEF OrdersAfter, Advances
<1> QED BY <1>1, <1>2, <1>3, <1>4, <1>5, StepKinds

\* COMPLETED is final.
LEMMA OthersStayDone ==
  ASSUME TypeOK, RowsOK, NEW p \in Proc, CallOK(p), Step(p), NEW t \in Task, OtherTasksDone(t)
  PROVE  OtherTasksDone(t)'
BY StatusMoves DEF OtherTasksDone, TasksOf

\* The step of a call that decides what to write about the order.
LEMMA OwnOrderWrite ==
  ASSUME TypeOK, RowsOK, NEW p \in Proc, CallOK(p), OrderWrite(p), Step(p)
  PROVE  OrderWrite(p)'
<1> USE DEF TypeOK
<1>0. /\ \A l : Goto(p, l) => pc'[p] = l
      /\ \A l : \A r \in Row : Acquire(p, r, l) => pc'[p] = l /\ lock'[r] = p
  BY DEF Goto, Acquire
<1>1. CASE /\ pc'[p] \notin Late
           /\ orderTo'[p] = "NONE" \/ (orderTo'[p] = orderTo[p] /\ pc[p] \notin Late)
  BY <1>1 DEF OrderWrite, Late
<1>2. CASE Quiet /\ MarkOrderInProgressIfConfirmed(p)
  <2> DEFINE o == OrderOf[cur[p]]
  <2>1. o \in Row /\ cur'[p] = cur[p] /\ orderTo[p] = "NONE" /\ orderStatus'[o] = orderStatus[o]
    BY <1>2, ForeignKeys DEF MarkOrderInProgressIfConfirmed, CallOK, LocalsOK, OpenTx, AllocTx,
       OrderWrite, Row, Quiet
  <2>2. pc'[p] = "A_Commit"
    BY <1>0, <1>2 DEF MarkOrderInProgressIfConfirmed, Acquire
  <2>3. IF orderStatus[o] = "CONFIRMED" THEN lock'[o] = p /\ orderTo'[p] = "IN_PROGRESS"
        ELSE orderTo'[p] = "NONE"
    BY <1>0, <1>2, <2>1 DEF MarkOrderInProgressIfConfirmed
  <2> QED BY <2>1, <2>2, <2>3 DEF OrderWrite
<1>3. CASE Quiet /\ MarkOrderPartCompletedIfNotDone(p)
  <2> DEFINE o == OrderOf[cur[p]]
  <2>1. o \in Row /\ cur'[p] = cur[p] /\ orderTo[p] = "NONE" /\ orderStatus'[o] = orderStatus[o]
    BY <1>3, ForeignKeys DEF MarkOrderPartCompletedIfNotDone, CallOK, LocalsOK, OpenTx, CompleteTx,
       OrderWrite, Row, Quiet
  <2>2. pc'[p] = "C_Count"
    BY <1>0, <1>3 DEF MarkOrderPartCompletedIfNotDone, Acquire
  <2>3. IF orderStatus[o] \in NotDone THEN lock'[o] = p /\ orderTo'[p] = "PART_COMPLETED"
        ELSE orderTo'[p] = "NONE"
    BY <1>0, <1>3, <2>1 DEF MarkOrderPartCompletedIfNotDone
  <2>4. orderStatus[o] \in NotDone \cup {"PART_COMPLETED", "COMPLETED"}
    <3>1. cur[p] \in Task /\ status[cur[p]] = "STARTED"
      BY <1>3 DEF MarkOrderPartCompletedIfNotDone, CallOK, LocalsOK, HeldTasks, OpenTx, CompleteTx
    <3> QED BY <3>1, ForeignKeys DEF RowsOK, OrderStatus, NotDone
  <2> QED BY <2>1, <2>2, <2>3, <2>4 DEF OrderWrite
<1>4. CASE Quiet /\ CountRemaining(p)
  <2>1. cur' = cur /\ orderTo' = orderTo /\ lock' = lock /\ orderStatus' = orderStatus
        /\ OtherTasksDone(cur[p])' = OtherTasksDone(cur[p])
    BY <1>4 DEF CountRemaining, locals, Quiet, OtherTasksDone
  <2> QED BY <1>0, <1>4, <2>1 DEF CountRemaining, OrderWrite
<1>5. CASE Quiet /\ CompleteOrder(p)
  <2> DEFINE o == OrderOf[cur[p]]
  <2>1. o \in Row /\ cur'[p] = cur[p] /\ orderStatus'[o] = orderStatus[o]
    BY <1>5, ForeignKeys DEF CompleteOrder, CallOK, LocalsOK, OpenTx, CompleteTx, Row, Quiet
  <2>2. pc'[p] = "C_Commit"
    BY <1>0, <1>5 DEF CompleteOrder, Acquire
  <2>3. IF orderStatus[o] # "COMPLETED" THEN lock'[o] = p /\ orderTo'[p] = "COMPLETED"
        ELSE orderTo'[p] = orderTo[p]
    BY <1>0, <1>5, <2>1 DEF CompleteOrder
  <2>4. pc[p] = "C_Finish" /\ OtherTasksDone(cur[p]) /\ OtherTasksDone(cur[p])'
    BY <1>5, <2>1 DEF CompleteOrder, OrderWrite, Quiet, OtherTasksDone
  <2> QED BY <2>1, <2>2, <2>3, <2>4 DEF OrderWrite, NotDone
<1> QED BY <1>1, <1>2, <1>3, <1>4, <1>5, PlanMoves

\* What another transaction has found out about an order stays true: it holds
\* the row of the order, or what it found is that the order is further.
LEMMA OtherOrderWrite ==
  ASSUME TypeOK, RowsOK, NEW p \in Proc, CallOK(p), OrderWrite(p), Step(p),
         NEW q \in Proc, CallOK(q), OrderWrite(q), q # p
  PROVE  OrderWrite(q)'
<1> USE DEF TypeOK
<1>1. pc'[q] = pc[q] /\ cur'[q] = cur[q] /\ orderTo'[q] = orderTo[q]
  BY Isolation, OthersPlan
<1>2. CASE pc[q] \notin Late
  BY <1>1, <1>2 DEF OrderWrite, Late
<1>3. CASE pc[q] \in Late
  <2> DEFINE o == OrderOf[cur[q]]
  <2>1. cur[q] \in Task /\ o \in Order /\ o \in Row
    BY <1>3, ForeignKeys DEF CallOK, LocalsOK, Late, OpenTx, AllocTx, CompleteTx, Row
  <2>2. orderStatus[o] # "NONE"
    BY <1>3, <2>1 DEF CallOK, HeldTasks, RowsOK, Late, AllocTx, CompleteTx
  <2>3. lock'[o] = q <=> lock[o] = q
    BY <2>1, Isolation
  <2>4. OtherTasksDone(cur[q]) => OtherTasksDone(cur[q])'
    BY <1>1, <2>1, OthersStayDone DEF OtherTasksDone
  <2>5. \/ orderStatus'[o] = orderStatus[o]
        \/ lock[o] = p /\ (Begins(p, o) \/ Advances(p, o))
    BY <2>1, <2>2, OrderMoves DEF Creates
  <2>6. \/ orderStatus'[o] = orderStatus[o]
        \/ /\ lock[o] # q /\ orderStatus'[o] # "CONFIRMED"
           /\ orderStatus[o] \in {"PART_COMPLETED", "COMPLETED"}
                => orderStatus'[o] \in {"PART_COMPLETED", "COMPLETED"}
    BY <2>5 DEF Begins, Advances
  <2> QED BY <1>1, <2>3, <2>4, <2>6 DEF OrderWrite
<1> QED BY <1>2, <1>3

-----------------------------------------------------------------------------
\* OrderStatusSound for one order.
Sound(o) ==
    LET done == {t \in TasksOf(o) : status[t] = "COMPLETED"} IN
    /\ orderStatus[o] = "COMPLETED" => done = TasksOf(o)
    /\ orderStatus[o] = "CONFIRMED" => \A t \in TasksOf(o) : status[t] = "UNASSIGNED"
    /\ orderStatus[o] \in {"PART_COMPLETED", "COMPLETED"} <=> done # {}

\* The creation of an order and the commits that leave it alone.
LEMMA SoundQuiet ==
  ASSUME TypeOK, RowsOK, NEW p \in Proc, CallOK(p), NEW o \in Order, Sound(o),
         \/ Quiet
         \/ \E n \in Order : CreateOrderWithTasks(p, n)
         \/ RequeueCommit(p)
  PROVE  Sound(o)'
<1> USE DEF TypeOK
<1>1. CASE Quiet
  BY <1>1 DEF Quiet, Sound
<1>2. ASSUME NEW n \in Order, CreateOrderWithTasks(p, n) PROVE Sound(o)'
  <2>1. CASE n = o
    <3>1. orderStatus'[o] = "CONFIRMED" /\ \A t \in TasksOf(o) : status'[t] = "UNASSIGNED"
      BY <1>2, <2>1 DEF CreateOrderWithTasks, TasksOf
    <3> QED BY <3>1 DEF Sound, TasksOf
  <2>2. CASE n # o
    <3>1. orderStatus'[o] = orderStatus[o] /\ \A t \in TasksOf(o) : status'[t] = status[t]
      BY <1>2, <2>2 DEF CreateOrderWithTasks, TasksOf
    <3> QED BY <3>1 DEF Sound, TasksOf
  <2> QED BY <2>1, <2>2
<1>3. CASE RequeueCommit(p)
  <2>1. /\ orderStatus' = orderStatus
        /\ \A t \in Task :
              status'[t] = status[t] \/ (status[t] = "ASSIGNED" /\ status'[t] = "UNASSIGNED")
    BY <1>3 DEF RequeueCommit, CallOK, HeldTasks, RequeueTx, LockedTasks
  <2> QED BY <2>1 DEF Sound, TasksOf
<1> QED BY <1>1, <1>2, <1>3

\* The first assignment of an order is committed with the order IN_PROGRESS.
LEMMA SoundAlloc ==
  ASSUME TypeOK, NEW p \in Proc, CallOK(p), OrderWrite(p), AllocCommit(p), Step(p),
         NEW o \in Order, Sound(o)
  PROVE  Sound(o)'
<1> USE DEF TypeOK
<1>1. cur[p] \in Task /\ status[cur[p]] = "UNASSIGNED" /\ pc[p] = "A_Commit"
  BY DEF AllocCommit, CallOK, LocalsOK, HeldTasks, OpenTx, AllocTx
<1>2. \A t \in Task : status'[t] = IF t = cur[p] THEN "ASSIGNED" ELSE status[t]
  BY DEF AllocCommit
<1>3. orderStatus'[o] # orderStatus[o] =>
         orderStatus[o] = "CONFIRMED" /\ orderStatus'[o] = "IN_PROGRESS"
  <2>1. ~ CreateOrderWithTasks(p, o) /\ ~ CompleteCommit(p)
    BY <1>1 DEF CreateOrderWithTasks, CompleteCommit
  <2> QED BY <2>1, OrderMoves DEF Creates, Begins, Advances
<1>4. OrderOf[cur[p]] = o => orderStatus'[o] # "CONFIRMED"
  BY <1>1, <1>3, ForeignKeys DEF AllocCommit, OrdersAfter, OrderWrite
<1> QED BY <1>1, <1>2, <1>3, <1>4 DEF Sound, TasksOf

\* Every completion is committed with the order at least PART_COMPLETED, and
\* COMPLETED only if no other task of it is open.
LEMMA SoundComplete ==
  ASSUME TypeOK, NEW p \in Proc, CallOK(p), OrderWrite(p), CompleteCommit(p), Step(p),
         NEW o \in Order, Sound(o)
  PROVE  Sound(o)'
<1> USE DEF TypeOK
<1>1. cur[p] \in Task /\ status[cur[p]] = "STARTED" /\ pc[p] = "C_Commit"
  BY DEF CompleteCommit, CallOK, LocalsOK, HeldTasks, OpenTx, CompleteTx
<1>2. \A t \in Task : status'[t] = IF t = cur[p] THEN "COMPLETED" ELSE status[t]
  BY DEF CompleteCommit
<1>3. CASE OrderOf[cur[p]] # o
  <2>1. orderStatus'[o] = orderStatus[o]
    BY <1>1, <1>3, ForeignKeys DEF CompleteCommit, OrdersAfter
  <2> QED BY <1>1, <1>2, <1>3, <2>1 DEF Sound, TasksOf
<1>4. CASE OrderOf[cur[p]] = o
  <2>1. orderStatus[o] # "COMPLETED"
    BY <1>1, <1>4 DEF Sound, TasksOf
  <2>2. /\ orderStatus'[o] \in {"PART_COMPLETED", "COMPLETED"}
        /\ orderStatus'[o] = "COMPLETED" => OtherTasksDone(cur[p])
    BY <1>1, <1>4, <2>1, ForeignKeys DEF CompleteCommit, OrdersAfter, OrderWrite
  <2>3. orderStatus'[o] = "COMPLETED" => \A t \in TasksOf(o) : status'[t] = "COMPLETED"
    BY <1>2, <1>4, <2>2 DEF OtherTasksDone, TasksOf
  <2>4. cur[p] \in TasksOf(o) /\ status'[cur[p]] = "COMPLETED"
    BY <1>1, <1>2, <1>4 DEF TasksOf
  <2> QED BY <2>2, <2>3, <2>4 DEF Sound, TasksOf
<1> QED BY <1>3, <1>4

\* Every step of a call keeps the status of the orders sound.
LEMMA SoundStep ==
  ASSUME TypeOK, RowsOK, OrderStatusSound, NEW p \in Proc, CallOK(p), OrderWrite(p), Step(p)
  PROVE  OrderStatusSound'
<1>1. ASSUME NEW o \in Order PROVE Sound(o)'
  <2>1. Sound(o)
    BY DEF OrderStatusSound, Sound
  <2> QED BY <2>1, SoundQuiet, SoundAlloc, SoundComplete, StepKinds
<1> QED BY <1>1 DEF OrderStatusSound, Sound

\* StartTask: the order of an ASSIGNED task is past CONFIRMED already.
LEMMA StartOrderInv ==
  ASSUME TypeOK, OrderInv, NEW t \in Task, StartTask(t)
  PROVE  OrderInv'
<1> USE DEF TypeOK
<1>1. /\ orderStatus' = orderStatus /\ lock' = lock /\ pc' = pc /\ cur' = cur /\ orderTo' = orderTo
      /\ status[t] = "ASSIGNED"
      /\ \A u \in Task : status'[u] = IF u = t THEN "STARTED" ELSE status[u]
  BY DEF StartTask, locals
<1>2. OrderStatusSound'
  <2>1. ASSUME NEW o \in Order PROVE Sound(o)'
    <3>1. Sound(o)
      BY DEF OrderInv, OrderStatusSound, Sound
    <3> QED BY <1>1, <3>1 DEF Sound, TasksOf
  <2> QED BY <2>1 DEF OrderStatusSound, Sound
<1>3. ASSUME NEW p \in Proc PROVE OrderWrite(p)'
  <2>1. OtherTasksDone(cur[p]) => OtherTasksDone(cur[p])'
    BY <1>1 DEF OtherTasksDone, TasksOf
  <2> QED BY <1>1, <2>1 DEF OrderInv, OrderWrite
<1> QED BY <1>2, <1>3 DEF OrderInv

\* In the empty database no order exists.
LEMMA InitOrderInv == Init => OrderInv
<1> SUFFICES ASSUME Init PROVE OrderInv
  OBVIOUS
<1>1. OrderStatusSound
  BY DEF Init, OrderStatusSound, TasksOf
<1>2. \A p \in Proc : OrderWrite(p)
  BY DEF Init, OrderWrite
<1> QED BY <1>1, <1>2 DEF OrderInv

\* OrderInv is inductive, given IInv.
LEMMA NextOrderInv == IInv /\ OrderInv /\ [Next]_vars => OrderInv'
<1> SUFFICES ASSUME IInv, OrderInv, [Next]_vars PROVE OrderInv'
  OBVIOUS
<1>1. ASSUME NEW p \in Proc, Step(p) PROVE OrderInv'
  BY <1>1, SoundStep, OwnOrderWrite, OtherOrderWrite DEF IInv, OrderInv
<1>2. ASSUME NEW t \in Task, StartTask(t) PROVE OrderInv'
  BY <1>2, StartOrderInv DEF IInv
<1>3. CASE UNCHANGED vars
  BY <1>3 DEF vars, tables, locals, OrderInv, OrderStatusSound, OrderWrite, OtherTasksDone
<1> QED BY <1>1, <1>2, <1>3 DEF Next

\* The invariant of the orders holds in every state.
THEOREM OrderInvariance == Spec => []OrderInv
BY InitOrderInv, NextOrderInv, Invariance, PTL DEF Spec

\* OrderStatusSound for every kitchen: an order is COMPLETED only when all its
\* tasks are, CONFIRMED only while all wait, and PART_COMPLETED or COMPLETED
\* exactly from its first completion on, under any interleaving of the
\* conditional UPDATEs of AllocateOnce and CompleteTask.
THEOREM OrderStatusCorrect == Spec => []OrderStatusSound
<1>1. OrderInv => OrderStatusSound
  BY DEF OrderInv
<1> QED BY <1>1, OrderInvariance, PTL

\* OrderNeverRegresses for every kitchen: no commit of AllocateOnce or
\* CompleteTask takes an order back, whatever it read before it waited.
THEOREM OrdersOnlyAdvance == Spec => OrderNeverRegresses
<1>1. ASSUME IInv, OrderInv, [Next]_vars, NEW o \in Order
      PROVE  Stage[orderStatus'[o]] >= Stage[orderStatus[o]]
  <2>1. orderStatus[o] \in OrderStatus
    BY <1>1 DEF IInv, TypeOK
  <2>2. \A s \in OrderStatus : Stage[s] \in 0..4
    BY DEF Stage, OrderStatus
  <2>3. /\ Stage["NONE"] = 0 /\ Stage["CONFIRMED"] = 1 /\ Stage["IN_PROGRESS"] = 2
        /\ Stage["PART_COMPLETED"] = 3 /\ Stage["COMPLETED"] = 4
    BY DEF Stage, OrderStatus
  <2>4. CASE orderStatus'[o] = orderStatus[o]
    BY <2>1, <2>2, <2>4
  <2>5. ASSUME NEW p \in Proc, Step(p)
        PROVE  Stage[orderStatus'[o]] >= Stage[orderStatus[o]]
    <3>1. \/ orderStatus'[o] = orderStatus[o]
          \/ Creates(p, o) \/ Begins(p, o) \/ Advances(p, o)
      BY <1>1, <2>5, OrderMoves DEF IInv, OrderInv
    <3> QED BY <2>1, <2>2, <2>3, <2>4, <3>1 DEF Creates, Begins, Advances, NotDone
  <2>6. ASSUME NEW t \in Task, StartTask(t) PROVE orderStatus'[o] = orderStatus[o]
    BY <2>6 DEF StartTask
  <2>7. CASE UNCHANGED vars
    BY <2>4, <2>7 DEF vars, tables
  <2> QED BY <1>1, <2>4, <2>5, <2>6, <2>7 DEF Next
<1>2. IInv /\ OrderInv /\ [Next]_vars
        => [\A o \in Order : Stage[orderStatus'[o]] >= Stage[orderStatus[o]]]_vars
  BY <1>1
<1> QED BY <1>2, Invariance, OrderInvariance, PTL DEF Spec, OrderNeverRegresses

-----------------------------------------------------------------------------
\* A call's own step locks the next row in the order.
LEMMA OwnLocks ==
  ASSUME TypeOK, RowsOK, NEW p \in Proc, CallOK(p), Step(p),
         \A r \in Row : lock[r] = p /\ pc[p] \notin RequeueTx => MayHold(p, r),
         NEW x \in Row, lock'[x] = p, pc'[p] \notin RequeueTx
  PROVE  MayHold(p, x)'
<1> USE DEF locals
<1>0. /\ \A l : Goto(p, l) => pc'[p] = l
      /\ \A r, l : Acquire(p, r, l) => pc'[p] = l /\ (x = r \/ lock[x] = p)
      /\ ~ ReleaseLocks(p)
      /\ lock[x] = p => pc[p] \in OpenTx /\ (pc[p] \notin RequeueTx => MayHold(p, x))
  BY DistinctKeys DEF TypeOK, Goto, Acquire, ReleaseLocks, CallOK, LocksOK
<1>1. ~ ConfirmStep(p)
  BY <1>0 DEF ConfirmStep, CreateOrderWithTasks, InsertTaskDependencies,
     RecalculatePendingDepsForOrder, ListOrderReadyTasks, EnqueueReady, InsertDomainEventNoTx,
     ConfirmDone, OpenTx, AllocTx, RequeueTx, CompleteTx
<1>2. ~ RequeueStep(p)
  BY <1>0 DEF RequeueStep, SelectExpired, RequeueStaff, RequeueCounter, RequeueMachine,
     RequeueCommit, RequeueEnqueue, LockStep, OpenTx, AllocTx, RequeueTx, CompleteTx
<1>3. ~ Fault(p)
  BY <1>0 DEF Fault, Abort, Crash, RecheckFails, AllocRollback, OpenTx, AllocTx, RequeueTx, CompleteTx
<1>4. pc[p] \in AllocTx \cup CompleteTx => cur[p] \in Task
  BY DEF CallOK, LocalsOK, OpenTx
<1>5. CASE AllocStep(p)
  <2>1. ~ (PopTopN(p) \/ RecheckTask(p) \/ Reenqueue(p) \/ AllocCommit(p))
    BY <1>0 DEF PopTopN, RecheckTask, Reenqueue, AllocCommit, OpenTx, AllocTx, RequeueTx, CompleteTx
  <2>2. ASSUME NEW t \in Task, LockTaskForAssignment(p, t) PROVE MayHold(p, x)'
    <3>1. lock[x] # p /\ cur'[p] = t
      BY <1>0, <2>2 DEF LockTaskForAssignment, OpenTx, AllocTx, RequeueTx, CompleteTx, TypeOK
    <3>2. x = t
      BY <1>0, <2>2, <3>1 DEF LockTaskForAssignment
    <3> QED BY <3>1, <3>2, DistinctKeys DEF MayHold
  <2>3. CASE LockCounter(p)
    <3>1. /\ pc[p] = "A_LockCounter" /\ pc'[p] = "A_FindStaff" /\ UNCHANGED <<cur, deps>>
          /\ x = CounterOf[cur[p]] \/ lock[x] = p
      BY <1>0, <2>3 DEF LockCounter, AllocRollback, tables
    <3>2. x \in Counter \/ MayHold(p, x)
      BY <1>0, <1>4, <3>1, ForeignKeys DEF AllocTx, RequeueTx
    <3> QED BY <3>1, <3>2, DistinctKeys DEF MayHold, Releasing
  <2>4. CASE FindEligibleStaff(p)
    <3>1. /\ pc[p] = "A_FindStaff" /\ pc'[p] = "A_LockMachine" /\ UNCHANGED <<cur, deps>>
          /\ MayHold(p, x)
      BY <1>0, <2>4 DEF FindEligibleStaff, AllocRollback, tables, RequeueTx
    <3> QED BY <3>1 DEF MayHold, Releasing
  <2>5. CASE LockMachineForTask(p)
    <3>1. /\ pc[p] = "A_LockMachine" /\ pc'[p] = "A_LockStaff" /\ UNCHANGED <<cur, deps>>
          /\ x = MachineOf[cur[p]] \/ lock[x] = p
      BY <1>0, <2>5 DEF LockMachineForTask, AllocRollback, tables
    <3>2. x \in Machine \/ MayHold(p, x)
      BY <1>0, <1>4, <3>1, ForeignKeys DEF AllocTx, RequeueTx
    <3> QED BY <3>1, <3>2, DistinctKeys DEF MayHold, Releasing
  <2>6. CASE LockStaff(p)
    <3>1. /\ pc[p] = "A_LockStaff" /\ pc'[p] = "A_MarkOrder" /\ UNCHANGED <<cur, deps>>
          /\ x = pick[p] \/ lock[x] = p
      BY <1>0, <2>6 DEF LockStaff, LockStep, tables
    <3>2. x \in Staff \/ MayHold(p, x)
      BY <1>0, <3>1 DEF RequeueTx, CallOK, LocalsOK
    <3> QED BY <3>1, <3>2, DistinctKeys DEF MayHold, Releasing
  <2>7. CASE MarkOrderInProgressIfConfirmed(p)
    <3>1. /\ pc[p] = "A_MarkOrder" /\ pc'[p] = "A_Commit" /\ UNCHANGED <<cur, deps>>
          /\ x = OrderOf[cur[p]] \/ lock[x] = p
      BY <1>0, <2>7 DEF MarkOrderInProgressIfConfirmed, tables
    <3>2. (x \in Order /\ x = OrderOf[cur[p]]) \/ MayHold(p, x)
      BY <1>0, <1>4, <3>1, ForeignKeys DEF AllocTx, RequeueTx
    <3> QED BY <3>1, <3>2, DistinctKeys DEF MayHold, Releasing
  <2> QED BY <1>5, <2>1, <2>2, <2>3, <2>4, <2>5, <2>6, <2>7 DEF AllocStep
<1>6. CASE CompleteStep(p)
  <2>1. ASSUME NEW t \in Task, UpdateTaskStatusCompleted(p, t) PROVE MayHold(p, x)'
    <3>1. lock[x] # p /\ cur'[p] = t
      BY <1>0, <2>1 DEF UpdateTaskStatusCompleted, OpenTx, AllocTx, RequeueTx, CompleteTx, TypeOK
    <3>2. x = t
      BY <1>0, <2>1, <3>1 DEF UpdateTaskStatusCompleted
    <3> QED BY <3>1, <3>2, DistinctKeys DEF MayHold
  <2>2. CASE ReleaseCounter(p)
    <3>1. /\ pc[p] = "C_Counter" /\ pc'[p] = "C_Machine" /\ UNCHANGED <<cur, deps>>
          /\ x = CounterOf[cur[p]] \/ lock[x] = p
      BY <1>0, <2>2 DEF ReleaseCounter, LockStep, tables
    <3>2. x \in Counter \/ MayHold(p, x)
      BY <1>0, <1>4, <3>1, ForeignKeys DEF CompleteTx, RequeueTx
    <3> QED BY <3>1, <3>2, DistinctKeys DEF MayHold, Releasing
  <2>3. CASE ReleaseMachine(p)
    <3>1. /\ pc[p] = "C_Machine" /\ pc'[p] = "C_Staff" /\ UNCHANGED <<cur, deps>>
          /\ x = MachineOf[cur[p]] \/ lock[x] = p
      BY <1>0, <2>3 DEF ReleaseMachine, LockStep, tables
    <3>2. x \in Machine \/ MayHold(p, x)
      BY <1>0, <1>4, <3>1, ForeignKeys DEF CompleteTx, RequeueTx
    <3> QED BY <3>1, <3>2, DistinctKeys DEF MayHold, Releasing
  <2>4. CASE UpdateStaffEfficiencyAndActive(p)
    <3>1. /\ pc[p] = "C_Staff" /\ pc'[p] = "C_Children" /\ UNCHANGED <<cur, deps>>
          /\ x = assignedTo[cur[p]] \/ lock[x] = p
      BY <1>0, <2>4 DEF UpdateStaffEfficiencyAndActive, LockStep, tables
    <3>2. assignedTo[cur[p]] \in Staff
      BY <1>4, <3>1 DEF CompleteTx, CallOK, HeldTasks, RowsOK, Occupying
    <3>3. x \in Staff \/ MayHold(p, x)
      BY <1>0, <3>1, <3>2 DEF RequeueTx
    <3> QED BY <3>1, <3>3, DistinctKeys DEF MayHold, Releasing
  <2>5. ASSUME NEW k \in Task, LockChild(p, k) PROVE MayHold(p, x)'
    <3>1. /\ pc[p] = "C_Children" /\ pc'[p] = "C_Children" /\ UNCHANGED <<cur, deps>>
          /\ x = k \/ lock[x] = p
          /\ cur[p] \in deps[k]
      BY <1>0, <2>5 DEF LockChild, LockStep, tables, Children
    <3>2. x = k \/ MayHold(p, x)
      BY <1>0, <3>1 DEF RequeueTx
    <3> QED BY <3>1, <3>2, DistinctKeys DEF MayHold, Releasing
  <2>6. CASE \/ DecrementDependentPendingDeps(p) \/ CountRemaining(p)
             \/ \E k \in Task : EnqueueChild(p, k)
    <3>1. /\ \/ /\ pc[p] \in {"C_Children", "C_Enqueue"}
                /\ pc'[p] \in {"C_Enqueue", "C_MarkOrder"}
             \/ pc[p] = "C_Count" /\ pc'[p] \in {"C_Finish", "C_Commit"}
          /\ UNCHANGED <<cur, deps>> /\ lock[x] = p
      BY <1>0, <2>6 DEF DecrementDependentPendingDeps, CountRemaining, EnqueueChild, tables
    <3>2. MayHold(p, x)
      BY <1>0, <3>1 DEF RequeueTx
    <3> QED BY <3>1, <3>2 DEF MayHold, Releasing
  <2>7. CASE MarkOrderPartCompletedIfNotDone(p) \/ CompleteOrder(p)
    <3>1. /\ pc[p] \in {"C_MarkOrder", "C_Finish"} /\ pc'[p] \in {"C_Count", "C_Commit"}
          /\ UNCHANGED <<cur, deps>>
          /\ x = OrderOf[cur[p]] \/ lock[x] = p
      BY <1>0, <2>7 DEF MarkOrderPartCompletedIfNotDone, CompleteOrder, tables
    <3>2. (x \in Order /\ x = OrderOf[cur[p]]) \/ MayHold(p, x)
      BY <1>0, <1>4, <3>1, ForeignKeys DEF CompleteTx, RequeueTx
    <3> QED BY <3>1, <3>2, DistinctKeys DEF MayHold, Releasing
  <2>8. ~ CompleteCommit(p)
    BY <1>0 DEF CompleteCommit
  <2> QED BY <1>6, <2>1, <2>2, <2>3, <2>4, <2>5, <2>6, <2>7, <2>8 DEF CompleteStep
<1> QED BY <1>1, <1>2, <1>3, <1>5, <1>6 DEF Step

\* The steps of other calls leave them alone; linked dependencies stay.
LEMMA OtherLocks ==
  ASSUME TypeOK, DepsInv, NEW p \in Proc, Step(p), NEW q \in Proc, q # p,
         NEW r \in Row, MayHold(q, r)
  PROVE  MayHold(q, r)'
<1>1. pc'[q] = pc[q] /\ cur'[q] = cur[q]
  BY Isolation
<1>2. ASSUME NEW t \in Task PROVE deps[t] \subseteq deps'[t]
  <2>1. CASE InsertTaskDependencies(p)
    BY <2>1 DEF InsertTaskDependencies, DepsInv
  <2> QED BY <2>1, TablesMoved
<1> QED BY <1>1, <1>2 DEF MayHold, Releasing

\* LocksInv is inductive, given IInv and DepsInv.
LEMMA NextLocksInv == IInv /\ DepsInv /\ LocksInv /\ [Next]_vars => LocksInv'
<1> SUFFICES ASSUME IInv, DepsInv, LocksInv, [Next]_vars,
                    NEW q \in Proc, NEW r \in Row, lock'[r] = q, pc'[q] \notin RequeueTx
             PROVE  MayHold(q, r)'
  BY DEF LocksInv
<1>1. ASSUME NEW p \in Proc, Step(p) PROVE MayHold(q, r)'
  <2>1. CASE q = p
    BY <1>1, <2>1, OwnLocks DEF IInv, LocksInv
  <2>2. CASE q # p
    <3>1. pc[q] = pc'[q] /\ lock[r] = q
      BY <1>1, <2>2, Isolation DEF IInv
    <3>2. MayHold(q, r)
      BY <3>1 DEF LocksInv
    <3> QED BY <1>1, <2>2, <3>2, OtherLocks DEF IInv
  <2> QED BY <2>1, <2>2
<1>2. ASSUME NEW t \in Task, StartTask(t) PROVE MayHold(q, r)'
  BY <1>2 DEF StartTask, LocksInv, MayHold, Releasing, locals
<1>3. CASE UNCHANGED vars
  BY <1>3 DEF vars, tables, locals, LocksInv, MayHold, Releasing
<1> QED BY <1>1, <1>2, <1>3 DEF Next

\* The invariant of the locks holds in every state.
THEOREM LocksInvariance == Spec => []LocksInv
<1>1. Init => LocksInv
  BY DistinctKeys DEF Init, LocksInv
<1> QED BY <1>1, NextLocksInv, Invariance, DepsInvariance, PTL DEF Spec

\* Stations of a waiting call, in the order in which it passes them.
Waiting == <<{"A_LockCounter", "C_Counter"}, {"C_Machine"}, {"A_LockStaff", "C_Staff"},
             {"C_Children"}, {"A_MarkOrder", "C_MarkOrder", "C_Finish"}>>

\* q is further on than p, or both are at the children of their tasks.
Behind(p, q) ==
    \/ pc[p] \in Waiting[1] /\ pc[q] \in Waiting[2] \cup Waiting[3] \cup Waiting[4] \cup Waiting[5]
    \/ pc[p] \in Waiting[2] /\ pc[q] \in Waiting[3] \cup Waiting[4] \cup Waiting[5]
    \/ pc[p] \in Waiting[3] /\ pc[q] \in Waiting[4] \cup Waiting[5]
    \/ pc[p] \in Waiting[4] /\ pc[q] \in Waiting[4] \cup Waiting[5]

\* Whoever a call waits for, if it waits as well, is at a later station, or
\* both are at the children of their tasks.  Nobody who holds the row of an
\* order waits.
LEMMA WaitsUp ==
  ASSUME IInv, DepsInv, LocksInv, NEW p \in Proc, NEW q \in Proc, q # p,
         pc[p] \notin RequeueTx, pc[q] \notin RequeueTx,
         NEW r \in WantedRows(p), lock[r] = q,
         NEW x \in WantedRows(q), lock[x] # q
  PROVE  Behind(p, q)
<1> USE DEF Waiting, Behind
<1>1. /\ pc[p] \in Waiting[1] \cup Waiting[2] \cup Waiting[3] \cup Waiting[4] \cup Waiting[5]
      /\ pc[q] \in Waiting[1] \cup Waiting[2] \cup Waiting[3] \cup Waiting[4] \cup Waiting[5]
  BY DEF WantedRows, RequeueTx
<1>2. /\ cur[p] \in Task /\ cur[q] \in Task
      /\ pc[p] \in CompleteTx => assignedTo[cur[p]] \in Staff
      /\ CallOK(p) /\ CallOK(q)
  BY <1>1 DEF IInv, CallOK, LocalsOK, HeldTasks, OpenTx, AllocTx, CompleteTx, RowsOK, Occupying
<1>3. CASE pc[p] \in Waiting[1]
  <2>1. r = CounterOf[cur[p]] /\ r \in Counter
    BY <1>2, <1>3, ForeignKeys DEF WantedRows
  <2>2. MayHold(q, r)
    BY <2>1 DEF LocksInv, Row
  <2> QED BY <1>1, <1>3, <2>1, <2>2 DEF MayHold
<1>4. CASE pc[p] \in Waiting[2]
  <2>1. r = MachineOf[cur[p]] /\ r \in Machine
    BY <1>2, <1>4, ForeignKeys DEF WantedRows
  <2>2. MayHold(q, r)
    BY <2>1 DEF LocksInv, Row
  <2> QED BY <1>1, <1>4, <2>1, <2>2 DEF MayHold
<1>5. CASE pc[p] \in Waiting[3]
  <2>1. r \in Staff
    BY <1>2, <1>5 DEF WantedRows, CallOK, LocalsOK, CompleteTx
  <2>2. MayHold(q, r)
    BY <2>1 DEF LocksInv, Row
  <2> QED BY <1>1, <1>5, <2>1, <2>2 DEF MayHold, Releasing
<1>6. CASE pc[p] \in Waiting[4]
  <2>1. r \in Task /\ cur[p] \in deps[r] /\ status[r] = "UNASSIGNED"
    BY <1>6 DEF WantedRows, Children
  <2>2. MayHold(q, r)
    BY <2>1 DEF LocksInv, Row
  <2>3. r # cur[q]
    <3>1. CASE pc[q] \in CompleteTx
      BY <1>2, <2>1, <3>1 DEF CallOK, HeldTasks
    <3>2. CASE pc[q] \in AllocTx
      <4>1. SUFFICES ASSUME r = cur[q] PROVE FALSE
        OBVIOUS
      <4>2. pendingDeps[r] = 0 /\ Touched(r)
        BY <3>2, <4>1 DEF DepsInv, Touched
      <4>3. deps[r] = DependsOn[r] /\ pendingDeps[r] = Cardinality({d \in DependsOn[r] : status[d] # "COMPLETED"})
        BY <2>1, <4>2 DEF DepsInv, Linked, TasksOf
      <4>4. {d \in DependsOn[r] : status[d] # "COMPLETED"} = {}
        <5>1. {d \in DependsOn[r] : status[d] # "COMPLETED"} \in SUBSET Task
          BY <2>1, Recipes
        <5> QED BY <4>2, <4>3, <5>1, FinitePart, FS_EmptySet
      <4>5. status[cur[p]] = "STARTED"
        BY <1>2, <1>6 DEF CallOK, HeldTasks, CompleteTx
      <4> QED BY <2>1, <4>3, <4>4, <4>5
    <3> QED BY <1>1, <3>1, <3>2 DEF AllocTx, CompleteTx
  <2> QED BY <1>1, <1>6, <2>1, <2>2, <2>3 DEF MayHold, Releasing
<1>7. CASE pc[p] \in Waiting[5]
  <2>1. r = OrderOf[cur[p]] /\ r \in Order
    BY <1>2, <1>7, ForeignKeys DEF WantedRows
  <2>2. MayHold(q, r)
    BY <2>1 DEF LocksInv, Row
  <2>3. pc[q] = "C_Finish" /\ r = OrderOf[cur[q]]
    BY <1>1, <2>1, <2>2 DEF MayHold
  <2> QED BY <2>3 DEF WantedRows
<1> QED BY <1>1, <1>3, <1>4, <1>5, <1>6, <1>7

\* NoLockCycle for every kitchen, recipe and number of calls: if allocations
\* and completions wait for each other in a circle, completions of tasks with
\* common children do so at DecrementDependentPendingDeps.
THEOREM LockOrderCorrect == Spec => []NoLockCycle
<1>1. ASSUME IInv, DepsInv, LocksInv PROVE NoLockCycle
  <2> SUFFICES ASSUME NEW D \in SUBSET {p \in Proc : pc[p] \notin RequeueTx}, Stuck(D)
               PROVE  \E E \in SUBSET D : Stuck(E) /\ \A p \in E : pc[p] = "C_Children"
    BY DEF NoLockCycle
  <2> USE <1>1
  <2>1. ASSUME NEW p \in D
        PROVE  /\ p \in Proc /\ pc[p] \notin RequeueTx
               /\ \E r \in WantedRows(p) : lock[r] \in D \ {p}
    BY DEF Stuck
  <2>2. ASSUME NEW p \in D, NEW r \in WantedRows(p), lock[r] \in D \ {p}
        PROVE  Behind(p, lock[r])
    <3>1. PICK x \in WantedRows(lock[r]) : lock[x] \in D \ {lock[r]}
      BY <2>1, <2>2
    <3> QED BY <2>1, <2>2, <3>1, WaitsUp
  <2>3. \A p \in D : pc[p] \notin Waiting[5]
    BY <2>1, <2>2 DEF Waiting, Behind
  <2> DEFINE E == {p \in D : pc[p] \in Waiting[4]}
  <2>4. E # {}
    <3>1. \A p \in D : pc[p] \in Waiting[3] => E # {}
      BY <2>1, <2>2, <2>3 DEF Waiting, Behind
    <3>2. \A p \in D : pc[p] \in Waiting[2] => E # {}
      BY <2>1, <2>2, <2>3, <3>1 DEF Waiting, Behind
    <3>3. \A p \in D : pc[p] \in Waiting[1] => E # {}
      BY <2>1, <2>2, <2>3, <3>1, <3>2 DEF Waiting, Behind
    <3>4. \A p \in D : pc[p] \in Waiting[1] \cup Waiting[2] \cup Waiting[3] \cup Waiting[4]
      BY <2>1, <2>2 DEF Behind
    <3> QED BY <3>1, <3>2, <3>3, <3>4 DEF Stuck
  <2>5. ASSUME NEW p \in E PROVE \E r \in WantedRows(p) : lock[r] \in E \ {p}
    <3>1. PICK r \in WantedRows(p) : lock[r] \in D \ {p}
      BY <2>1
    <3>2. pc[lock[r]] \in Waiting[4]
      BY <2>2, <2>3, <3>1 DEF Waiting, Behind
    <3> QED BY <3>1, <3>2
  <2>6. Stuck(E) /\ E \in SUBSET D /\ \A p \in E : pc[p] = "C_Children"
    BY <2>4, <2>5 DEF Stuck, Waiting
  <2> QED BY <2>6
<1> QED BY <1>1, Invariance, DepsInvariance, LocksInvariance, PTL

-----------------------------------------------------------------------------
(* Events and the ready queue                                               *)

\* One row more of one type for the tasks of S.
LEMMA EmitRows ==
  ASSUME NEW log \in [EventType -> [Task -> Nat]], NEW e \in EventType, NEW S,
         NEW f \in EventType, NEW t \in Task
  PROVE  Emit(log, e, S)[f][t] = IF f = e /\ t \in S THEN log[f][t] + 1 ELSE log[f][t]
BY DEF Emit

\* Rows are inserted by ConfirmOrder's loop and by the commits only.
LEMMA EventsMoved ==
  ASSUME NEW p \in Proc, Step(p)
  PROVE  \/ UNCHANGED events
         \/ InsertDomainEventNoTx(p) \/ RequeueCommit(p) \/ AllocCommit(p) \/ CompleteCommit(p)
<1> USE DEF tables
<1>1. CASE ConfirmStep(p)
  BY <1>1 DEF ConfirmStep, CreateOrderWithTasks, InsertTaskDependencies,
     RecalculatePendingDepsForOrder, ListOrderReadyTasks, EnqueueReady, ConfirmDone
<1>2. CASE RequeueStep(p)
  BY <1>2 DEF RequeueStep, SelectExpired, RequeueStaff, RequeueCounter, RequeueMachine,
     RequeueEnqueue, LockStep
<1>3. CASE AllocStep(p)
  BY <1>3 DEF AllocStep, PopTopN, LockTaskForAssignment, LockCounter, FindEligibleStaff,
     LockMachineForTask, LockStaff, MarkOrderInProgressIfConfirmed, RecheckTask, Reenqueue, LockStep
<1>4. CASE CompleteStep(p)
  BY <1>4 DEF CompleteStep, UpdateTaskStatusCompleted, ReleaseCounter, ReleaseMachine,
     UpdateStaffEfficiencyAndActive, LockChild, DecrementDependentPendingDeps, EnqueueChild,
     MarkOrderPartCompletedIfNotDone, CountRemaining, CompleteOrder, LockStep
<1>5. CASE Fault(p)
  BY <1>5 DEF Fault, Abort, Crash, RecheckFails
<1> QED BY <1>1, <1>2, <1>3, <1>4, <1>5 DEF Step

\* The rows of task t, as the status of t says.
Tallies(t) ==
    /\ events["TASK_ASSIGNED"][t] =
          events["TASK_REQUEUED"][t] + (IF status[t] \in Done THEN 1 ELSE 0)
    /\ events["TASK_STARTED"][t] = (IF status[t] \in {"STARTED", "COMPLETED"} THEN 1 ELSE 0)
    /\ events["TASK_COMPLETED"][t] = (IF status[t] = "COMPLETED" THEN 1 ELSE 0)

\* Each commit inserts the row of the status change it makes.
LEMMA TalliesStep ==
  ASSUME TypeOK, RowsOK, NEW p \in Proc, CallOK(p), Step(p), NEW t \in Task, Tallies(t)
  PROVE  Tallies(t)'
<1> USE DEF Tallies, Done, Occupying
<1>0. events \in [EventType -> [Task -> Nat]]
  BY DEF TypeOK
<1>00. EventType = {"TASK_READY", "TASK_ASSIGNED", "TASK_STARTED", "TASK_COMPLETED", "TASK_REQUEUED"}
  BY DEF EventType
<1>1. CASE InsertDomainEventNoTx(p)
  <2>1. \A e \in EventType : e # "TASK_READY" => events'[e][t] = events[e][t]
    BY <1>0, <1>00, <1>1, EmitRows DEF InsertDomainEventNoTx
  <2>2. status' = status
    BY <1>1 DEF InsertDomainEventNoTx
  <2> QED BY <1>00, <2>1, <2>2
<1>2. CASE RequeueCommit(p)
  <2>1. \A e \in EventType : events'[e][t] = IF e = "TASK_REQUEUED" /\ t \in LockedTasks(p)
                                             THEN events[e][t] + 1 ELSE events[e][t]
    BY <1>0, <1>00, <1>2, EmitRows DEF RequeueCommit
  <2>2. status'[t] = IF t \in LockedTasks(p) THEN "UNASSIGNED" ELSE status[t]
    BY <1>2 DEF RequeueCommit
  <2>3. t \in LockedTasks(p) => status[t] = "ASSIGNED"
    BY <1>2 DEF RequeueCommit, CallOK, HeldTasks, RequeueTx
  <2> QED BY <1>0, <1>00, <2>1, <2>2, <2>3
<1>3. CASE AllocCommit(p)
  <2>1. \A e \in EventType : events'[e][t] = IF e = "TASK_ASSIGNED" /\ t = cur[p]
                                             THEN events[e][t] + 1 ELSE events[e][t]
    BY <1>0, <1>00, <1>3, EmitRows DEF AllocCommit
  <2>2. status'[t] = IF t = cur[p] THEN "ASSIGNED" ELSE status[t]
    BY <1>3 DEF AllocCommit, TypeOK
  <2>3. status[cur[p]] = "UNASSIGNED"
    BY <1>3 DEF AllocCommit, CallOK, HeldTasks, AllocTx
  <2> QED BY <1>0, <1>00, <2>1, <2>2, <2>3
<1>4. CASE CompleteCommit(p)
  <2>1. \A e \in EventType : e # "TASK_READY" =>
           events'[e][t] = IF e = "TASK_COMPLETED" /\ t = cur[p]
                           THEN events[e][t] + 1 ELSE events[e][t]
    <3> DEFINE log == Emit(events, "TASK_READY", ReadyChildren(cur[p]))
    <3>1. log \in [EventType -> [Task -> Nat]]
      BY <1>0, <1>00, EmitType
    <3>2. \A e \in EventType : e # "TASK_READY" => log[e][t] = events[e][t]
      BY <1>0, <1>00, EmitRows
    <3>3. events' = Emit(log, "TASK_COMPLETED", {cur[p]})
      BY <1>4 DEF CompleteCommit
    <3> HIDE DEF log
    <3> QED BY <1>00, <3>1, <3>2, <3>3, EmitRows
  <2>2. status'[t] = IF t = cur[p] THEN "COMPLETED" ELSE status[t]
    BY <1>4 DEF CompleteCommit, TypeOK
  <2>3. status[cur[p]] = "STARTED"
    BY <1>4 DEF CompleteCommit, CallOK, HeldTasks, CompleteTx
  <2> QED BY <1>0, <1>00, <2>1, <2>2, <2>3
<1>5. CASE UNCHANGED events
  <2>2. CASE Quiet
    BY <1>5, <2>2 DEF Quiet
  <2>3. ASSUME NEW o \in Order, CreateOrderWithTasks(p, o) PROVE Tallies(t)'
    <3>1. status'[t] = status[t] \/ (status[t] = "NONE" /\ status'[t] = "UNASSIGNED")
      BY <2>3 DEF CreateOrderWithTasks, RowsOK, TasksOf
    <3> QED BY <1>5, <3>1
  <2> QED BY <1>2, <1>3, <1>4, <2>2, <2>3, StepKinds
<1> QED BY <1>1, <1>2, <1>3, <1>4, <1>5, EventsMoved

-----------------------------------------------------------------------------
\* TASK_READY is inserted by ConfirmOrder for the task it has just enqueued,
\* and by the commit of CompleteTask for the children it makes ready.
LEMMA ReadyMoves ==
  ASSUME TypeOK, NEW p \in Proc, Step(p), NEW t \in Task
  PROVE  \/ events'["TASK_READY"][t] = events["TASK_READY"][t]
         \/ /\ events'["TASK_READY"][t] = events["TASK_READY"][t] + 1
            /\ \/ InsertDomainEventNoTx(p) /\ t = cur[p]
               \/ CompleteCommit(p) /\ t \in ReadyChildren(cur[p])
<1>0. /\ events \in [EventType -> [Task -> Nat]]
      /\ EventType = {"TASK_READY", "TASK_ASSIGNED", "TASK_STARTED", "TASK_COMPLETED", "TASK_REQUEUED"}
  BY DEF TypeOK, EventType
<1>1. CASE InsertDomainEventNoTx(p)
  BY <1>0, <1>1, EmitRows DEF InsertDomainEventNoTx
<1>2. CASE RequeueCommit(p)
  BY <1>0, <1>2, EmitRows DEF RequeueCommit
<1>3. CASE AllocCommit(p)
  BY <1>0, <1>3, EmitRows DEF AllocCommit
<1>4. CASE CompleteCommit(p)
  <2> DEFINE log == Emit(events, "TASK_READY", ReadyChildren(cur[p]))
  <2>1. log \in [EventType -> [Task -> Nat]]
    BY <1>0, EmitType
  <2>2. log["TASK_READY"][t] = IF t \in ReadyChildren(cur[p]) THEN events["TASK_READY"][t] + 1
                               ELSE events["TASK_READY"][t]
    BY <1>0, EmitRows
  <2>3. events' = Emit(log, "TASK_COMPLETED", {cur[p]})
    BY <1>4 DEF CompleteCommit
  <2> HIDE DEF log
  <2>4. events'["TASK_READY"][t] = log["TASK_READY"][t]
    BY <1>0, <2>1, <2>3, EmitRows
  <2> QED BY <1>4, <2>2, <2>4
<1> QED BY <1>1, <1>2, <1>3, <1>4, EventsMoved

\* What CompleteTask knows of a child: the task it completes is one of its
\* dependencies, of the same order, and not completed yet.
LEMMA ChildOf ==
  ASSUME DepsInv, NEW p \in Proc, CallOK(p), CompleteCommit(p), NEW t \in Task,
         t \in ReadyChildren(cur[p])
  PROVE  /\ cur[p] \in Task /\ status[cur[p]] = "STARTED" /\ cur[p] \in DependsOn[t]
         /\ OrderOf[cur[p]] = OrderOf[t] /\ Touched(cur[p])
         /\ status[t] = "UNASSIGNED" /\ pendingDeps'[t] = 0
<1>1. cur[p] \in Task /\ status[cur[p]] = "STARTED"
  BY DEF CompleteCommit, CallOK, LocalsOK, HeldTasks, OpenTx, CompleteTx
<1>2. cur[p] \in deps[t] /\ status[t] = "UNASSIGNED" /\ pendingDeps'[t] = 0
  BY DEF ReadyChildren, Children, CompleteCommit
<1> QED BY <1>1, <1>2, SameOrder DEF Touched

\* No dependency is open when a linked task has pending_deps = 0.
LEMMA NothingOpen ==
  ASSUME NEW t \in Task, Linked(t), pendingDeps[t] = 0, NEW d \in DependsOn[t]
  PROVE  status[d] = "COMPLETED"
<1>1. {x \in DependsOn[t] : status[x] # "COMPLETED"} \in SUBSET Task
  BY Recipes
<1>2. {x \in DependsOn[t] : status[x] # "COMPLETED"} = {}
  BY <1>1, FinitePart, FS_EmptySet DEF Linked
<1> QED BY <1>2

\* TASK_READY is not written twice, and only for a task that exists and waits
\* for nothing.
LEMMA ReadyOnce ==
  ASSUME TypeOK, RowsOK, DepsInv, EventsInv, NEW p \in Proc, CallOK(p), Step(p), NEW t \in Task
  PROVE  /\ events'["TASK_READY"][t] <= 1
         /\ status'[t] = "NONE" => events'["TASK_READY"][t] = 0
         /\ events'["TASK_READY"][t] = 1 => \A d \in DependsOn[t] : status'[d] = "COMPLETED"
<1>0. /\ events["TASK_READY"][t] \in Nat /\ events["TASK_READY"][t] <= 1
      /\ status[t] = "NONE" => events["TASK_READY"][t] = 0
      /\ events["TASK_READY"][t] = 1 => \A d \in DependsOn[t] : status[d] = "COMPLETED"
      /\ \A d \in DependsOn[t] : d \in Task
  BY Recipes DEF TypeOK, EventType, EventsInv, OutboxMatchesState
<1>1. CASE events'["TASK_READY"][t] = events["TASK_READY"][t]
  BY <1>0, <1>1, StatusMoves
<1>2. CASE /\ events'["TASK_READY"][t] = events["TASK_READY"][t] + 1
           /\ InsertDomainEventNoTx(p) /\ t = cur[p]
  <2>1. events["TASK_READY"][t] = 0 /\ DependsOn[t] = {}
    BY <1>2 DEF EventsInv, Owed, InsertDomainEventNoTx
  <2>2. status'[t] # "NONE"
    BY <1>2, StatusMoves DEF DepsInv, Fresh, Touched
  <2> QED BY <1>2, <2>1, <2>2
<1>3. CASE /\ events'["TASK_READY"][t] = events["TASK_READY"][t] + 1
           /\ CompleteCommit(p) /\ t \in ReadyChildren(cur[p])
  <2>1. /\ cur[p] \in Task /\ status[cur[p]] = "STARTED" /\ cur[p] \in DependsOn[t]
        /\ OrderOf[cur[p]] = OrderOf[t] /\ Touched(cur[p])
        /\ status[t] = "UNASSIGNED" /\ pendingDeps'[t] = 0
    BY <1>3, ChildOf
  <2>2. events["TASK_READY"][t] = 0
    BY <1>0, <2>1
  <2>3. status'[t] # "NONE"
    BY <2>1, StatusMoves
  <2>4. Linked(t)'
    BY <2>1, OrderStaysLinked DEF TasksOf
  <2>5. {d \in DependsOn[t] : status'[d] # "COMPLETED"} = {}
    <3>1. {d \in DependsOn[t] : status'[d] # "COMPLETED"} \in SUBSET Task
      BY <1>0
    <3> QED BY <2>1, <2>4, <3>1, FinitePart, FS_EmptySet DEF Linked
  <2> QED BY <1>3, <2>2, <2>3, <2>5
<1> QED BY <1>1, <1>2, <1>3, ReadyMoves

\* Nobody but the call that lists an order reaches the first of its tasks.
LEMMA Unreached ==
  ASSUME TypeOK, RowsOK, DepsInv, NEW p \in Proc, CallOK(p), Step(p), NEW t \in Task,
         \A u \in TasksOf(OrderOf[t]) : ~ Touched(u),
         events["TASK_READY"][t] = 0,
         ~ (pc[p] = "O_List" /\ cur[p] = OrderOf[t])
  PROVE  ~ Touched(t)' /\ events'["TASK_READY"][t] = 0
<1>1. ~ Touched(t)
  BY DEF TasksOf
<1>2. cur[p] \notin deps[t]
  <2> SUFFICES ASSUME cur[p] \in deps[t] PROVE FALSE
    OBVIOUS
  <2>1. cur[p] \in TasksOf(OrderOf[t])
    BY SameOrder DEF TasksOf
  <2> QED BY <2>1 DEF Touched
<1>3. ~ Touched(t)'
  BY <1>1, <1>2, TouchedGrows DEF Discovered
<1>4. t # cur[p] /\ t \notin ReadyChildren(cur[p])
  BY <1>1, <1>2 DEF Touched, ReadyChildren, Children
<1> QED BY <1>3, <1>4, ReadyMoves

\* While ConfirmOrder sets an order up, no event tells of its tasks and no
\* one knows them.
LEMMA SetUpUnreached ==
  ASSUME TypeOK, RowsOK, DepsInv, EventsInv, NEW p \in Proc, CallOK(p), Step(p),
         NEW q \in Proc, NEW t \in Task, SettingUp(q, OrderOf[t])'
  PROVE  ~ Touched(t)' /\ events'["TASK_READY"][t] = 0
<1>0. t \in TasksOf(OrderOf[t]) /\ \A u \in TasksOf(OrderOf[t]) : u \in Task /\ OrderOf[u] = OrderOf[t]
  BY DEF TasksOf
<1>1. ASSUME SettingUp(q, OrderOf[t]), ~ (pc[p] = "O_List" /\ cur[p] = OrderOf[t])
      PROVE  ~ Touched(t)' /\ events'["TASK_READY"][t] = 0
  <2>1. events["TASK_READY"][t] = 0 /\ \A u \in TasksOf(OrderOf[t]) : ~ Touched(u)
    BY <1>0, <1>1 DEF EventsInv
  <2> QED BY <1>1, <2>1, Unreached
<1>2. CASE q # p
  <2>1. SettingUp(q, OrderOf[t])
    BY <1>2, OthersHands DEF SettingUp
  <2>2. ~ SettingUp(p, OrderOf[t])
    BY <1>2, <2>1 DEF DepsInv
  <2> QED BY <1>1, <2>1, <2>2 DEF SettingUp
<1>3. ASSUME q = p, NEW o \in Order, CreateOrderWithTasks(p, o)
      PROVE  ~ Touched(t)' /\ events'["TASK_READY"][t] = 0
  <2>1. o = OrderOf[t] /\ pc[p] = "idle"
    BY <1>3 DEF SettingUp, CreateOrderWithTasks, TypeOK
  <2>2. \A u \in TasksOf(OrderOf[t]) : status[u] = "NONE"
    BY <1>0, <1>3, <2>1 DEF CreateOrderWithTasks, RowsOK
  <2>3. events["TASK_READY"][t] = 0 /\ \A u \in TasksOf(OrderOf[t]) : ~ Touched(u)
    BY <1>0, <2>2 DEF DepsInv, EventsInv, Fresh
  <2> QED BY <2>1, <2>3, Unreached
<1>4. ASSUME q = p, InsertTaskDependencies(p) \/ RecalculatePendingDepsForOrder(p)
      PROVE  ~ Touched(t)' /\ events'["TASK_READY"][t] = 0
  <2>1. SettingUp(q, OrderOf[t]) /\ pc[p] # "O_List"
    BY <1>4 DEF SettingUp, InsertTaskDependencies, RecalculatePendingDepsForOrder, locals
  <2> QED BY <1>1, <2>1
<1> QED BY <1>2, <1>3, <1>4, LabelMoves DEF SettingUp

\* The loop of ConfirmOrder is entered through ListOrderReadyTasks only, and
\* its batch only shrinks.
LEMMA OwedMoves ==
  ASSUME TypeOK, NEW p \in Proc, Step(p)
  PROVE  \/ ListOrderReadyTasks(p)
         \/ /\ Owed(p)' \subseteq Owed(p)
            /\ pc'[p] = "O_Event" => cur'[p] \notin batch'[p]
<1> USE DEF TypeOK, tables, locals
<1>0. /\ \A l : Goto(p, l) => pc'[p] = l
      /\ \A r, l : Acquire(p, r, l) => pc'[p] = l
      /\ Return(p) => pc'[p] = "idle"
      /\ NextIteration(p) => pc'[p] \in {"idle", "A_Loop"}
      /\ AllocRollback(p) => pc'[p] = "A_Recheck"
  BY DEF Goto, Acquire, Return, NextIteration, AllocRollback
<1>1. pc'[p] \notin {"O_Enqueue", "O_Event"} => Owed(p)' \subseteq Owed(p)
  BY DEF Owed
<1>2. \/ pc'[p] \notin {"O_Enqueue", "O_Event"}
      \/ ListOrderReadyTasks(p) \/ InsertDomainEventNoTx(p) \/ \E t \in Task : EnqueueReady(p, t)
  <2>1. CASE ConfirmStep(p)
    BY <1>0, <2>1 DEF ConfirmStep, CreateOrderWithTasks, InsertTaskDependencies,
       RecalculatePendingDepsForOrder, ConfirmDone
  <2>2. CASE RequeueStep(p)
    BY <1>0, <2>2 DEF RequeueStep, SelectExpired, RequeueStaff, RequeueCounter, RequeueMachine,
       RequeueCommit, RequeueEnqueue, LockStep
  <2>3. CASE AllocStep(p)
    BY <1>0, <2>3 DEF AllocStep, PopTopN, LockTaskForAssignment, LockCounter, FindEligibleStaff,
       LockMachineForTask, LockStaff, MarkOrderInProgressIfConfirmed, AllocCommit, RecheckTask,
       Reenqueue, LockStep
  <2>4. CASE CompleteStep(p)
    BY <1>0, <2>4 DEF CompleteStep, UpdateTaskStatusCompleted, ReleaseCounter, ReleaseMachine,
       UpdateStaffEfficiencyAndActive, LockChild, DecrementDependentPendingDeps, EnqueueChild,
       MarkOrderPartCompletedIfNotDone, CountRemaining, CompleteOrder, CompleteCommit, LockStep
  <2>5. CASE Fault(p)
    BY <1>0, <2>5 DEF Fault, Abort, Crash, RecheckFails
  <2> QED BY <2>1, <2>2, <2>3, <2>4, <2>5 DEF Step
<1>3. CASE InsertDomainEventNoTx(p)
  BY <1>0, <1>3 DEF InsertDomainEventNoTx, Owed
<1>4. ASSUME NEW t \in Task, EnqueueReady(p, t)
      PROVE  Owed(p)' \subseteq Owed(p) /\ cur'[p] \notin batch'[p]
  BY <1>0, <1>4 DEF EnqueueReady, Owed
<1> QED BY <1>1, <1>2, <1>3, <1>4

\* What ListOrderReadyTasks finds: tasks without dependencies that no one else
\* knows, and no event tells of.
LEMMA Listed ==
  ASSUME TypeOK, RowsOK, DepsInv, EventsInv, NEW p \in Proc, ListOrderReadyTasks(p), Step(p),
         NEW t \in Task, t \in Owed(p)'
  PROVE  /\ DependsOn[t] = {} /\ ~ Touched(t)
         /\ events'["TASK_READY"][t] = 0
<1>1. t \in TasksOf(cur[p]) /\ pendingDeps[t] = 0
  BY DEF ListOrderReadyTasks, Owed, Goto, TypeOK
<1>2. SettingUp(p, OrderOf[t]) /\ pc[p] = "O_List"
  BY <1>1 DEF ListOrderReadyTasks, SettingUp, TasksOf
<1>3. Linked(t) /\ ~ Touched(t) /\ events["TASK_READY"][t] = 0
  BY <1>2 DEF DepsInv, EventsInv
<1>4. ASSUME NEW d \in DependsOn[t] PROVE FALSE
  <2>1. d \in Task /\ OrderOf[d] = OrderOf[t]
    BY Recipes
  <2>2. ~ Touched(d)
    BY <1>2, <2>1 DEF EventsInv
  <2> QED BY <1>1, <1>3, <2>2, NothingOpen DEF Touched
<1>5. events' = events
  BY DEF ListOrderReadyTasks, tables
<1> QED BY <1>3, <1>4, <1>5

\* No one has ids in common with the loop of a call of ConfirmOrder.
LEMMA OwedStep ==
  ASSUME TypeOK, RowsOK, DepsInv, EventsInv, NEW p \in Proc, CallOK(p), Step(p), NEW q \in Proc
  PROVE  /\ \A t \in Owed(q)' : DependsOn[t] = {} /\ events'["TASK_READY"][t] = 0
         /\ pc'[q] = "O_Event" => cur'[q] \notin batch'[q]
         /\ \A r \in Proc \ {q} : Owed(q)' \cap Owed(r)' = {}
<1>0. /\ \A r \in Proc : \A t \in Owed(r) : t \in Task /\ Touched(t)
      /\ \A r \in Proc \ {p} : Owed(r)' = Owed(r)
      /\ \A r \in Proc : Owed(r)' \subseteq Task
  BY OthersHands DEF Owed, Touched
<1>1. ASSUME NEW r \in Proc, NEW t \in Owed(r)', Owed(r)' \subseteq Owed(r)
      PROVE  DependsOn[t] = {} /\ events'["TASK_READY"][t] = 0
  <2>1. t \in Task /\ t \in Owed(r) /\ DependsOn[t] = {} /\ events["TASK_READY"][t] = 0
    BY <1>0, <1>1 DEF EventsInv
  <2>2. ~ (InsertDomainEventNoTx(p) /\ t = cur[p])
    <3> SUFFICES ASSUME InsertDomainEventNoTx(p), t = cur[p] PROVE FALSE
      OBVIOUS
    <3>1. t \in Owed(p) /\ t \notin batch[p] /\ pc'[p] = "O_Enqueue" /\ batch' = batch
      BY <2>1 DEF Owed, EventsInv, InsertDomainEventNoTx, locals, Goto, TypeOK
    <3>2. r = p
      BY <2>1, <3>1 DEF EventsInv
    <3> QED BY <1>1, <3>1, <3>2 DEF Owed
  <2>3. ~ (CompleteCommit(p) /\ t \in ReadyChildren(cur[p]))
    BY <2>1, ChildOf
  <2> QED BY <2>1, <2>2, <2>3, ReadyMoves
<1>2. CASE ListOrderReadyTasks(p)
  <2>1. \A t \in Owed(p)' : DependsOn[t] = {} /\ ~ Touched(t) /\ events'["TASK_READY"][t] = 0
    BY <1>0, <1>2, Listed
  <2>2. pc'[p] = "O_Enqueue"
    BY <1>2 DEF ListOrderReadyTasks, Goto, TypeOK
  <2>3. \A r \in Proc \ {p} : Owed(p)' \cap Owed(r) = {}
    BY <1>0, <2>1
  <2>4. \A r, x \in Proc \ {p} : r # x => Owed(r) \cap Owed(x) = {}
    BY DEF EventsInv
  <2>5. \A r \in Proc \ {q} : Owed(q)' \cap Owed(r)' = {}
    BY <1>0, <2>3, <2>4
  <2>6. \A t \in Owed(q)' : DependsOn[t] = {} /\ events'["TASK_READY"][t] = 0
    BY <1>0, <1>1, <2>1
  <2>7. pc'[q] = "O_Event" => cur'[q] \notin batch'[q]
    BY <2>2, OthersHands DEF EventsInv
  <2> QED BY <2>5, <2>6, <2>7
<1>3. CASE /\ Owed(p)' \subseteq Owed(p)
           /\ pc'[p] = "O_Event" => cur'[p] \notin batch'[p]
  <2>1. \A r \in Proc : Owed(r)' \subseteq Owed(r)
    BY <1>0, <1>3
  <2>2. \A r \in Proc \ {q} : Owed(q) \cap Owed(r) = {}
    BY DEF EventsInv
  <2>3. \A r \in Proc \ {q} : Owed(q)' \cap Owed(r)' = {}
    BY <2>1, <2>2
  <2>4. pc'[q] = "O_Event" => cur'[q] \notin batch'[q]
    BY <1>3, OthersHands DEF EventsInv
  <2> QED BY <1>1, <2>1, <2>3, <2>4
<1> QED BY <1>2, <1>3, OwedMoves

\* StartTask inserts its TASK_STARTED row with the status.
LEMMA StartEvents ==
  ASSUME TypeOK, DepsInv, EventsInv, NEW t \in Task, StartTask(t)
  PROVE  EventsInv'
<1>0. /\ events \in [EventType -> [Task -> Nat]]
      /\ EventType = {"TASK_READY", "TASK_ASSIGNED", "TASK_STARTED", "TASK_COMPLETED", "TASK_REQUEUED"}
  BY DEF TypeOK, EventType
<1>1. /\ \A e \in EventType, u \in Task :
            events'[e][u] = IF e = "TASK_STARTED" /\ u = t THEN events[e][u] + 1 ELSE events[e][u]
      /\ status[t] = "ASSIGNED" /\ status' = [status EXCEPT ![t] = "STARTED"]
      /\ UNCHANGED <<pc, cur, batch, readyQueue>>
  BY <1>0, EmitRows DEF StartTask, locals
<1>2. OutboxMatchesState'
  <2> SUFFICES ASSUME NEW u \in Task
               PROVE  /\ events'["TASK_ASSIGNED"][u] =
                           events'["TASK_REQUEUED"][u]
                           + (IF status'[u] \in Occupying \cup {"COMPLETED"} THEN 1 ELSE 0)
                      /\ events'["TASK_STARTED"][u] =
                           (IF status'[u] \in {"STARTED", "COMPLETED"} THEN 1 ELSE 0)
                      /\ events'["TASK_COMPLETED"][u] = (IF status'[u] = "COMPLETED" THEN 1 ELSE 0)
                      /\ events'["TASK_READY"][u] <= 1
    BY DEF OutboxMatchesState
  <2>1. status'[u] = IF u = t THEN "STARTED" ELSE status[u]
    BY <1>1 DEF TypeOK
  <2>2. /\ events["TASK_ASSIGNED"][u] =
             events["TASK_REQUEUED"][u]
             + (IF status[u] \in Occupying \cup {"COMPLETED"} THEN 1 ELSE 0)
        /\ events["TASK_STARTED"][u] = (IF status[u] \in {"STARTED", "COMPLETED"} THEN 1 ELSE 0)
        /\ events["TASK_COMPLETED"][u] = (IF status[u] = "COMPLETED" THEN 1 ELSE 0)
        /\ events["TASK_READY"][u] <= 1
    BY DEF EventsInv, OutboxMatchesState
  <2> QED BY <1>0, <1>1, <2>1, <2>2 DEF Occupying
<1>3. /\ \A u \in Task : events'["TASK_READY"][u] = events["TASK_READY"][u]
      /\ \A u \in Task : status'[u] = "NONE" <=> status[u] = "NONE"
      /\ \A u \in Task : status'[u] = "COMPLETED" <=> status[u] = "COMPLETED"
      /\ \A u \in Task : Touched(u)' <=> Touched(u)
      /\ \A p \in Proc : Owed(p)' = Owed(p)
      /\ \A p \in Proc, o \in Order : SettingUp(p, o)' <=> SettingUp(p, o)
  BY <1>0, <1>1 DEF Touched, Owed, SettingUp, Occupying, TypeOK
<1>4. /\ \A u \in Task : OrderOf[u] \in Order
      /\ \A u \in Task : \A d \in DependsOn[u] : d \in Task
      /\ \A p \in Proc : Owed(p) \subseteq Task
  BY ForeignKeys, Recipes DEF Owed
<1> QED BY <1>1, <1>2, <1>3, <1>4 DEF EventsInv

\* No events, no tasks.
LEMMA InitEvents == Init => EventsInv
<1> SUFFICES ASSUME Init PROVE EventsInv
  OBVIOUS
<1>1. OutboxMatchesState
  BY DEF Init, OutboxMatchesState, EventType, Occupying
<1>2. \A p \in Proc : Owed(p) = {} /\ \A o \in Order : ~ SettingUp(p, o)
  BY DEF Init, Owed, SettingUp
<1> QED BY <1>1, <1>2, ForeignKeys DEF Init, EventsInv, EventType

\* EventsInv is inductive relative to IInv and DepsInv.
LEMMA NextEvents == IInv /\ DepsInv /\ EventsInv /\ [Next]_vars => EventsInv'
<1> SUFFICES ASSUME IInv, DepsInv, EventsInv, [Next]_vars PROVE EventsInv'
  OBVIOUS
<1>1. ASSUME NEW p \in Proc, Step(p) PROVE EventsInv'
  <2>1. TypeOK /\ RowsOK /\ CallOK(p)
    BY DEF IInv
  <2>2. ASSUME NEW t \in Task
        PROVE  Tallies(t)' /\ events'["TASK_READY"][t] <= 1
    <3>1. Tallies(t)
      BY DEF EventsInv, OutboxMatchesState, Tallies, Done
    <3> QED BY <1>1, <2>1, <3>1, TalliesStep, ReadyOnce
  <2>3. OutboxMatchesState'
    BY <2>2 DEF OutboxMatchesState, Tallies, Done
  <2> QED BY <1>1, <2>1, <2>3, ReadyOnce, SetUpUnreached, OwedStep DEF EventsInv
<1>2. ASSUME NEW t \in Task, StartTask(t) PROVE EventsInv'
  BY <1>2, StartEvents DEF IInv
<1>3. CASE UNCHANGED vars
  <2>1. UNCHANGED <<events, status, readyQueue, pc, cur, batch>>
    BY <1>3 DEF vars, tables, locals
  <2> QED BY <2>1 DEF EventsInv, OutboxMatchesState, Touched, Owed, SettingUp
<1> QED BY <1>1, <1>2, <1>3 DEF Next

\* EventsInv is an invariant of the scheduler.
THEOREM EventsInvariance == Spec => []EventsInv
BY InitEvents, NextEvents, Invariance, DepsInvariance, PTL DEF Spec

\* The rows of domain_events tell the state of every task, whatever the
\* handlers' interleavings, faults and requeues: one assignment more than
\* requeues while the task is held, one start, one completion, and never a
\* second TASK_READY.
THEOREM OutboxRowsCorrect == Spec => []OutboxMatchesState
<1>1. EventsInv => OutboxMatchesState
  BY DEF EventsInv
<1> QED BY <1>1, EventsInvariance, PTL


-----------------------------------------------------------------------------
\* Task t is in the hands of p.
HandOf(p, t) ==
    \/ pc[p] \in {"O_Deps", "O_Recalc", "O_List"} /\ cur[p] = OrderOf[t]
    \/ pc[p] \in {"O_Enqueue", "O_Event", "R_Enqueue"} /\ t \in batch[p]
    \/ /\ pc[p] \in AllocTx \cup {"A_Loop", "A_Recheck", "A_Reenqueue"}
       /\ t = cur[p] \/ t \in batch[p]

\* Between two tasks a call works on none.
NoTask(p) == pc[p] \in {"idle", "R_Enqueue", "A_Pop", "A_Loop"} => cur[p] = None

\* A call clears its current task whenever it goes on to the next.
LEMMA NoTaskStep ==
  ASSUME TypeOK, NEW p \in Proc, NoTask(p), Step(p)
  PROVE  NoTask(p)'
<1> USE DEF TypeOK, tables, locals, NoTask
<1>0. /\ \A l : Goto(p, l) => pc'[p] = l
      /\ \A r, l : Acquire(p, r, l) => pc'[p] = l
      /\ Return(p) => cur'[p] = None
      /\ NextIteration(p) => cur'[p] = None
      /\ AllocRollback(p) => pc'[p] = "A_Recheck"
  BY DEF Goto, Acquire, Return, NextIteration, AllocRollback
<1>1. CASE ConfirmStep(p)
  BY <1>0, <1>1 DEF ConfirmStep, CreateOrderWithTasks, InsertTaskDependencies,
     RecalculatePendingDepsForOrder, ListOrderReadyTasks, EnqueueReady, InsertDomainEventNoTx,
     ConfirmDone
<1>2. CASE RequeueStep(p)
  BY <1>0, <1>2 DEF RequeueStep, SelectExpired, RequeueStaff, RequeueCounter, RequeueMachine,
     RequeueCommit, RequeueEnqueue, LockStep
<1>3. CASE AllocStep(p)
  BY <1>0, <1>3 DEF AllocStep, PopTopN, LockTaskForAssignment, LockCounter, FindEligibleStaff,
     LockMachineForTask, LockStaff, MarkOrderInProgressIfConfirmed, AllocCommit, RecheckTask,
     Reenqueue, LockStep
<1>4. CASE CompleteStep(p)
  BY <1>0, <1>4 DEF CompleteStep, UpdateTaskStatusCompleted, ReleaseCounter, ReleaseMachine,
     UpdateStaffEfficiencyAndActive, LockChild, DecrementDependentPendingDeps, EnqueueChild,
     MarkOrderPartCompletedIfNotDone, CountRemaining, CompleteOrder, CompleteCommit, LockStep
<1>5. CASE Fault(p)
  BY <1>0, <1>5 DEF Fault, Abort, Crash, RecheckFails
<1> QED BY <1>1, <1>2, <1>3, <1>4, <1>5 DEF Step

\* Only ZPOPMIN takes ids out of the ready queue, into the batch of AllocateOnce.
LEMMA QueueKept ==
  ASSUME TypeOK, NEW p \in Proc, Step(p), NEW t \in readyQueue
  PROVE  t \in readyQueue' \/ (t \in batch'[p] /\ pc'[p] = "A_Loop")
<1> USE DEF tables, locals
<1>1. CASE ConfirmStep(p)
  BY <1>1 DEF ConfirmStep, CreateOrderWithTasks, InsertTaskDependencies,
     RecalculatePendingDepsForOrder, ListOrderReadyTasks, EnqueueReady, InsertDomainEventNoTx,
     ConfirmDone
<1>2. CASE RequeueStep(p)
  BY <1>2 DEF RequeueStep, SelectExpired, RequeueStaff, RequeueCounter, RequeueMachine,
     RequeueCommit, RequeueEnqueue, LockStep
<1>3. CASE AllocStep(p)
  <2>1. CASE PopTopN(p)
    BY <2>1 DEF PopTopN, Goto, TypeOK
  <2> QED
    BY <1>3, <2>1 DEF AllocStep, LockTaskForAssignment, LockCounter, FindEligibleStaff,
       LockMachineForTask, LockStaff, MarkOrderInProgressIfConfirmed, AllocCommit, RecheckTask,
       Reenqueue, LockStep
<1>4. CASE CompleteStep(p)
  BY <1>4 DEF CompleteStep, UpdateTaskStatusCompleted, ReleaseCounter, ReleaseMachine,
     UpdateStaffEfficiencyAndActive, LockChild, DecrementDependentPendingDeps, EnqueueChild,
     MarkOrderPartCompletedIfNotDone, CountRemaining, CompleteOrder, CompleteCommit, LockStep
<1>5. CASE Fault(p)
  BY <1>5 DEF Fault, Abort, Crash, RecheckFails
<1> QED BY <1>1, <1>2, <1>3, <1>4, <1>5 DEF Step

\* A call that has an UNASSIGNED task in its hands keeps it there or puts it
\* into the queue, unless it is cut short by a fault.
LEMMA OwnHandKept ==
  ASSUME TypeOK, NEW p \in Proc, NoTask(p), Step(p), faults' = 0,
         NEW t \in Task, HandOf(p, t), status[t] = "UNASSIGNED", status'[t] = "UNASSIGNED",
         pc[p] = "O_List" => pendingDeps[t] = 0
  PROVE  t \in readyQueue' \/ HandOf(p, t)'
<1> USE DEF TypeOK, tables, locals, HandOf, AllocTx
<1>0. /\ \A l : Goto(p, l) => pc'[p] = l
      /\ \A r, l : Acquire(p, r, l) => pc'[p] = l
      /\ NextIteration(p) /\ batch[p] # {} => pc'[p] = "A_Loop" /\ batch'[p] = batch[p]
      /\ AllocRollback(p) => pc'[p] = "A_Recheck"
      /\ t # None
  BY DistinctKeys DEF Goto, Acquire, NextIteration, AllocRollback
<1>1. CASE ConfirmStep(p)
  <2>1. ASSUME NEW o \in Order, CreateOrderWithTasks(p, o) PROVE FALSE
    BY <2>1 DEF CreateOrderWithTasks
  <2>2. CASE InsertTaskDependencies(p) \/ RecalculatePendingDepsForOrder(p)
    BY <1>0, <2>2 DEF InsertTaskDependencies, RecalculatePendingDepsForOrder
  <2>3. CASE ListOrderReadyTasks(p)
    <3>1. cur[p] = OrderOf[t] /\ pendingDeps[t] = 0 /\ pc'[p] = "O_Enqueue"
      BY <1>0, <2>3 DEF ListOrderReadyTasks
    <3>2. t \in batch'[p]
      BY <2>3, <3>1 DEF ListOrderReadyTasks, TasksOf
    <3> QED BY <3>1, <3>2
  <2>4. ASSUME NEW u \in Task, EnqueueReady(p, u) PROVE t \in readyQueue' \/ HandOf(p, t)'
    BY <1>0, <2>4 DEF EnqueueReady
  <2>5. CASE InsertDomainEventNoTx(p) \/ ConfirmDone(p)
    BY <1>0, <2>5 DEF InsertDomainEventNoTx, ConfirmDone
  <2> QED BY <1>1, <2>1, <2>2, <2>3, <2>4, <2>5 DEF ConfirmStep
<1>2. CASE RequeueStep(p)
  <2>1. ASSUME NEW u \in Task, RequeueEnqueue(p, u) PROVE t \in readyQueue' \/ HandOf(p, t)'
    <3>1. pc[p] = "R_Enqueue" /\ t \in batch[p] /\ readyQueue' = readyQueue \cup {u}
      BY <2>1 DEF RequeueEnqueue
    <3>2. t # u => t \in batch'[p] /\ pc'[p] = "R_Enqueue"
      BY <1>0, <2>1, <3>1 DEF RequeueEnqueue
    <3> QED BY <3>1, <3>2
  <2>2. ~ (SelectExpired(p) \/ RequeueStaff(p) \/ RequeueCounter(p) \/ RequeueMachine(p)
           \/ RequeueCommit(p))
    BY DEF SelectExpired, RequeueStaff, RequeueCounter, RequeueMachine, RequeueCommit, LockStep
  <2> QED BY <1>2, <2>1, <2>2 DEF RequeueStep
<1>3. CASE AllocStep(p)
  <2>0. t = cur[p] \/ t \in batch[p]
    BY <1>3 DEF AllocStep, PopTopN, LockTaskForAssignment, LockCounter, FindEligibleStaff,
       LockMachineForTask, LockStaff, MarkOrderInProgressIfConfirmed, AllocCommit, RecheckTask,
       Reenqueue, LockStep
  <2>1. CASE PopTopN(p)
    BY <2>1 DEF PopTopN
  <2>2. ASSUME NEW u \in Task, LockTaskForAssignment(p, u) PROVE t \in readyQueue' \/ HandOf(p, t)'
    <3>1. t \in batch[p] /\ pc'[p] \in {"A_LockCounter", "A_Recheck"}
      BY <1>0, <2>0, <2>2 DEF LockTaskForAssignment, NoTask
    <3>2. cur'[p] = u /\ batch'[p] = batch[p] \ {u}
      BY <2>2 DEF LockTaskForAssignment
    <3> QED BY <3>1, <3>2
  <2>3. CASE LockCounter(p) \/ FindEligibleStaff(p) \/ LockMachineForTask(p)
    <3>1. /\ cur' = cur /\ batch' = batch
          /\ pc'[p] \in {"A_FindStaff", "A_LockMachine", "A_LockStaff", "A_Recheck"}
      BY <1>0, <2>3 DEF LockCounter, FindEligibleStaff, LockMachineForTask
    <3> QED BY <2>0, <3>1
  <2>4. CASE LockStaff(p) \/ MarkOrderInProgressIfConfirmed(p)
    <3>1. /\ cur' = cur /\ batch' = batch
          /\ pc'[p] \in {"A_MarkOrder", "A_Commit"}
      BY <1>0, <2>4 DEF LockStaff, MarkOrderInProgressIfConfirmed, LockStep
    <3> QED BY <2>0, <3>1
  <2>5. CASE AllocCommit(p)
    <3>1. t # cur[p]
      BY <2>5 DEF AllocCommit
    <3> QED BY <1>0, <2>0, <2>5, <3>1 DEF AllocCommit
  <2>6. CASE RecheckTask(p)
    <3>1. CASE StillUnassigned(cur[p])
      <4>1. pc'[p] = "A_Reenqueue" /\ cur' = cur /\ batch' = batch
        BY <1>0, <2>6, <3>1 DEF RecheckTask
      <4> QED BY <2>0, <4>1
    <3>2. CASE ~ StillUnassigned(cur[p])
      <4>1. t \in batch[p] /\ NextIteration(p)
        BY <2>0, <2>6, <3>2 DEF RecheckTask, StillUnassigned
      <4> QED BY <1>0, <4>1
    <3> QED BY <3>1, <3>2
  <2>7. CASE Reenqueue(p)
    BY <1>0, <2>0, <2>7 DEF Reenqueue
  <2> QED BY <1>3, <2>1, <2>2, <2>3, <2>4, <2>5, <2>6, <2>7 DEF AllocStep
<1>4. ~ CompleteStep(p)
  BY DEF CompleteStep, UpdateTaskStatusCompleted, ReleaseCounter, ReleaseMachine,
     UpdateStaffEfficiencyAndActive, LockChild, DecrementDependentPendingDeps, EnqueueChild,
     MarkOrderPartCompletedIfNotDone, CountRemaining, CompleteOrder, CompleteCommit, LockStep
<1>5. CASE Fault(p)
  <2>1. faults \in Nat /\ faults' # faults + 1
    BY FiniteTables
  <2>2. /\ Abort(p) /\ pc[p] \in AllocTx /\ AllocRollback(p) /\ UNCHANGED <<cur, batch>>
    BY <1>5, <2>1 DEF Fault, Abort, Crash, RecheckFails, RequeueTx, CompleteTx
  <2> QED BY <1>0, <2>2
<1> QED BY <1>1, <1>2, <1>3, <1>4, <1>5 DEF Step

\* An UNASSIGNED task that will be found stays so.
LEMMA HandKept ==
  ASSUME TypeOK, NEW p \in Proc, NoTask(p), Step(p), faults' = 0,
         NEW t \in Task, Findable(t), status[t] = "UNASSIGNED", status'[t] = "UNASSIGNED",
         SettingUp(p, OrderOf[t]) => pendingDeps[t] = 0
  PROVE  Findable(t)'
<1>1. CASE t \in readyQueue
  <2>1. CASE t \in readyQueue'
    BY <2>1 DEF Findable
  <2>2. CASE t \in batch'[p] /\ pc'[p] = "A_Loop"
    BY <2>2 DEF Findable, InHand
  <2> QED BY <1>1, <2>1, <2>2, QueueKept
<1>2. ASSUME NEW q \in Proc, HandOf(q, t) PROVE Findable(t)'
  <2>1. CASE q = p
    <3>1. pc[p] = "O_List" => pendingDeps[t] = 0
      BY <1>2, <2>1 DEF HandOf, SettingUp, AllocTx
    <3>2. t \in readyQueue' \/ HandOf(p, t)'
      BY <1>2, <2>1, <3>1, OwnHandKept
    <3> QED BY <3>2 DEF Findable, InHand, HandOf
  <2>2. CASE q # p
    <3>1. pc'[q] = pc[q] /\ cur'[q] = cur[q] /\ batch'[q] = batch[q]
      BY <2>2, OthersHands
    <3> QED BY <1>2, <3>1 DEF Findable, InHand, HandOf
  <2> QED BY <2>1, <2>2
<1> QED BY <1>1, <1>2 DEF Findable, InHand, HandOf


\* A completion in progress has not completed its task: what depends on it
\* still waits, so its children are the tasks linked to it.
LEMMA ChildWaits ==
  ASSUME TypeOK, RowsOK, DepsInv, NEW p \in Proc, CallOK(p), Releasing(p),
         NEW k \in Task, cur[p] \in deps[k]
  PROVE  /\ cur[p] \in Task /\ status[cur[p]] = "STARTED" /\ status[k] = "UNASSIGNED"
         /\ OrderOf[cur[p]] = OrderOf[k] /\ cur[p] \in DependsOn[k]
<1>1. cur[p] \in Task /\ status[cur[p]] = "STARTED"
  BY DEF Releasing, CallOK, LocalsOK, HeldTasks, OpenTx, CompleteTx
<1>2. OrderOf[cur[p]] = OrderOf[k] /\ cur[p] \in DependsOn[k]
  BY SameOrder
<1>3. status[k] # "NONE" /\ status[k] \notin Occupying \cup {"COMPLETED"}
  BY <1>1, <1>2 DEF DepsInv, DependencyGating
<1> QED BY <1>1, <1>2, <1>3 DEF Occupying, TypeOK, TaskStatus

\* No order with a task at work is being set up.
LEMMA NotSettingUp ==
  ASSUME EventsInv, NEW p \in Proc, NEW q \in Proc, cur[q] \in Task
  PROVE  ~ SettingUp(p, OrderOf[cur[q]])
BY DEF EventsInv, Touched

\* The children of a completion, once found, are not changed by other calls:
\* their rows are locked, and no one links or recalculates their order.
LEMMA ChildrenStay ==
  ASSUME TypeOK, RowsOK, DepsInv, EventsInv, NEW p \in Proc, CallOK(p), Step(p),
         Releasing(p) => \A k \in Children(cur[p]) : lock[k] = p,
         NEW q \in Proc, CallOK(q), q # p, Releasing(q),
         \A k \in Children(cur[q]) : lock[k] = q,
         NEW k \in Task, cur[q] \in deps'[k]
  PROVE  /\ k \in Children(cur[q]) /\ lock'[k] = q
         /\ pendingDeps'[k] = pendingDeps[k]
<1>1. cur[q] \in Task
  BY DEF Releasing, CallOK, LocalsOK, OpenTx, CompleteTx
<1>2. ~ SettingUp(p, OrderOf[cur[q]])
  BY <1>1, NotSettingUp
<1>3. cur[q] \in deps[k]
  <2>1. CASE InsertTaskDependencies(p)
    <3>1. k \notin TasksOf(cur[p])
      <4> SUFFICES ASSUME k \in TasksOf(cur[p]) PROVE FALSE
        OBVIOUS
      <4>1. cur[q] \in DependsOn[k]
        BY <2>1 DEF InsertTaskDependencies
      <4>2. OrderOf[cur[q]] = cur[p]
        BY <4>1, Recipes DEF TasksOf
      <4> QED BY <1>2, <2>1, <4>2 DEF InsertTaskDependencies, SettingUp
    <3> QED BY <2>1, <3>1 DEF InsertTaskDependencies
  <2> QED BY <2>1, TablesMoved
<1>4. k \in Children(cur[q]) /\ lock[k] = q /\ OrderOf[cur[q]] = OrderOf[k]
  BY <1>3, ChildWaits DEF Children
<1>5. lock'[k] = q
  BY <1>4, Isolation DEF Row
<1>6. pendingDeps'[k] = pendingDeps[k]
  <2>1. CASE RecalculatePendingDepsForOrder(p)
    <3>1. k \notin TasksOf(cur[p])
      BY <1>2, <1>4, <2>1 DEF RecalculatePendingDepsForOrder, SettingUp, TasksOf
    <3> QED BY <2>1, <3>1 DEF RecalculatePendingDepsForOrder
  <2>2. CASE CompleteCommit(p)
    <3>1. k \notin Children(cur[p])
      BY <1>4, <2>2 DEF CompleteCommit, Releasing
    <3> QED BY <2>2, <3>1 DEF CompleteCommit, Decremented
  <2> QED BY <2>1, <2>2, TablesMoved
<1> QED BY <1>4, <1>5, <1>6

\* What a completion has still to do for its children.
Kept(p) ==
    Releasing(p) =>
        /\ \A k \in Children(cur[p]) : lock[k] = p
        /\ faults = 0 => \A k \in ReadyChildren(cur[p]) :
                            Findable(k) \/ (pc[p] = "C_Enqueue" /\ k \in batch[p])

\* Another call's step leaves it so.
LEMMA OtherKept ==
  ASSUME TypeOK, RowsOK, DepsInv, EventsInv, NEW p \in Proc, CallOK(p), NoTask(p), Kept(p), Step(p),
         faults \in Nat, faults' \in Nat, faults' = 0 => faults = 0,
         NEW q \in Proc, CallOK(q), q # p, Kept(q)
  PROVE  Kept(q)'
<1> SUFFICES ASSUME Releasing(q)' PROVE Kept(q)'
  BY DEF Kept
<1>1. pc'[q] = pc[q] /\ cur'[q] = cur[q] /\ batch'[q] = batch[q] /\ Releasing(q)
  BY OthersHands DEF Releasing
<1>2. ASSUME NEW k \in Task, cur[q] \in deps'[k]
      PROVE  /\ k \in Children(cur[q]) /\ lock'[k] = q /\ status[k] = "UNASSIGNED"
             /\ pendingDeps'[k] = pendingDeps[k] /\ ~ SettingUp(p, OrderOf[k])
  <2>1. k \in Children(cur[q]) /\ lock'[k] = q /\ pendingDeps'[k] = pendingDeps[k]
    BY <1>1, <1>2, ChildrenStay DEF Kept
  <2>2. cur[q] \in Task /\ OrderOf[cur[q]] = OrderOf[k]
    BY <1>1, <2>1, ChildWaits DEF Children
  <2>3. ~ SettingUp(p, OrderOf[k])
    BY <2>2, NotSettingUp
  <2> QED BY <2>1, <2>3 DEF Children
<1>3. \A k \in Children(cur[q])' : lock'[k] = q
  BY <1>1, <1>2 DEF Children
<1>4. ASSUME faults' = 0, NEW k \in ReadyChildren(cur[q])'
      PROVE  Findable(k)' \/ (pc'[q] = "C_Enqueue" /\ k \in batch'[q])
  <2>1. k \in Task /\ cur[q] \in deps'[k] /\ status'[k] = "UNASSIGNED" /\ Decremented(cur[q], k)' = 0
    BY <1>1, <1>4 DEF ReadyChildren, Children
  <2>2. k \in Children(cur[q]) /\ status[k] = "UNASSIGNED" /\ pendingDeps'[k] = pendingDeps[k]
        /\ ~ SettingUp(p, OrderOf[k])
    BY <1>2, <2>1
  <2>3. k \in Children(cur[q])'
    BY <1>1, <2>1 DEF Children
  <2>4. Decremented(cur[q], k) = 0
    BY <1>1, <2>1, <2>2, <2>3 DEF Decremented
  <2>5. Findable(k) \/ (pc[q] = "C_Enqueue" /\ k \in batch[q])
    BY <1>1, <1>4, <2>2, <2>4 DEF Kept, ReadyChildren
  <2>6. Findable(k) => Findable(k)'
    BY <1>4, <2>1, <2>2, HandKept
  <2> QED BY <1>1, <2>5, <2>6
<1> QED BY <1>1, <1>3, <1>4 DEF Kept


\* From DecrementDependentPendingDeps to the commit a completion keeps its
\* task and its locks, and enqueues the children one by one.
LEMMA ReleasingMoves ==
  ASSUME TypeOK, NEW p \in Proc, Step(p), Releasing(p)'
  PROVE  /\ UNCHANGED <<status, deps, pendingDeps>> /\ cur'[p] = cur[p]
         /\ \A k \in Task : lock[k] = p => lock'[k] = p
         /\ \/ DecrementDependentPendingDeps(p)
            \/ Releasing(p) /\ pc[p] # "C_Enqueue"
            \/ \E k \in Task : EnqueueChild(p, k)
<1> USE DEF TypeOK, tables, locals, Releasing, Row
<1>0. /\ \A l : Goto(p, l) => pc'[p] = l
      /\ \A r, l : Acquire(p, r, l) => pc'[p] = l /\ \A x \in Row : lock[x] = p => lock'[x] = p
      /\ Return(p) => pc'[p] = "idle"
      /\ NextIteration(p) => pc'[p] \in {"idle", "A_Loop"}
      /\ AllocRollback(p) => pc'[p] = "A_Recheck"
  BY DEF Goto, Acquire, Return, NextIteration, AllocRollback
<1>1. ~ ConfirmStep(p)
  BY <1>0 DEF ConfirmStep, CreateOrderWithTasks, InsertTaskDependencies,
     RecalculatePendingDepsForOrder, ListOrderReadyTasks, EnqueueReady, InsertDomainEventNoTx,
     ConfirmDone
<1>2. ~ RequeueStep(p)
  BY <1>0 DEF RequeueStep, SelectExpired, RequeueStaff, RequeueCounter, RequeueMachine,
     RequeueCommit, RequeueEnqueue, LockStep
<1>3. ~ AllocStep(p)
  BY <1>0 DEF AllocStep, PopTopN, LockTaskForAssignment, LockCounter, FindEligibleStaff,
     LockMachineForTask, LockStaff, MarkOrderInProgressIfConfirmed, AllocCommit, RecheckTask,
     Reenqueue, LockStep
<1>4. CASE CompleteStep(p)
  <2>1. ~ (ReleaseCounter(p) \/ ReleaseMachine(p) \/ UpdateStaffEfficiencyAndActive(p)
           \/ CompleteCommit(p)
           \/ \E t \in Task : UpdateTaskStatusCompleted(p, t) \/ LockChild(p, t))
    BY <1>0 DEF UpdateTaskStatusCompleted, ReleaseCounter, ReleaseMachine,
       UpdateStaffEfficiencyAndActive, LockChild, CompleteCommit, LockStep
  <2>2. CASE DecrementDependentPendingDeps(p)
    BY <2>2 DEF DecrementDependentPendingDeps
  <2>3. ASSUME NEW k \in Task, EnqueueChild(p, k)
        PROVE  UNCHANGED <<status, deps, pendingDeps, cur, lock>>
    BY <2>3 DEF EnqueueChild
  <2>4. CASE MarkOrderPartCompletedIfNotDone(p)
    BY <1>0, <2>4 DEF MarkOrderPartCompletedIfNotDone
  <2>5. CASE CountRemaining(p)
    BY <1>0, <2>5 DEF CountRemaining
  <2>6. CASE CompleteOrder(p)
    BY <1>0, <2>6 DEF CompleteOrder
  <2> QED BY <1>4, <2>1, <2>2, <2>3, <2>4, <2>5, <2>6 DEF CompleteStep
<1>5. ~ Fault(p)
  BY <1>0 DEF Fault, Abort, Crash, RecheckFails
<1> QED BY <1>1, <1>2, <1>3, <1>4, <1>5 DEF Step

\* A completion's own step does what it owes its children.
LEMMA OwnKept ==
  ASSUME TypeOK, RowsOK, DepsInv, EventsInv, NEW p \in Proc, CallOK(p), NoTask(p), Kept(p), Step(p),
         faults \in Nat, faults' \in Nat, faults' = 0 => faults = 0
  PROVE  Kept(p)'
<1> SUFFICES ASSUME Releasing(p)' PROVE Kept(p)'
  BY DEF Kept
<1>1. /\ UNCHANGED <<status, deps, pendingDeps>> /\ cur'[p] = cur[p]
      /\ \A k \in Task : lock[k] = p => lock'[k] = p
  BY ReleasingMoves
<1>2. /\ Children(cur[p])' = Children(cur[p])
      /\ ReadyChildren(cur[p])' = ReadyChildren(cur[p])
      /\ ReadyChildren(cur[p]) \subseteq Children(cur[p])
      /\ \A k \in Children(cur[p]) : k \in Task /\ status[k] = "UNASSIGNED"
  BY <1>1 DEF Children, ReadyChildren, Decremented
<1>3. CASE DecrementDependentPendingDeps(p)
  <2>1. \A k \in Children(cur[p]) : lock[k] = p
    BY <1>3 DEF DecrementDependentPendingDeps
  <2>2. /\ batch'[p] = ReadyChildren(cur[p])
        /\ ReadyChildren(cur[p]) # {} => pc'[p] = "C_Enqueue"
    BY <1>3 DEF DecrementDependentPendingDeps, Goto, TypeOK
  <2> QED BY <1>1, <1>2, <2>1, <2>2 DEF Kept
<1>4. ASSUME Releasing(p), NEW k \in Children(cur[p]), Findable(k), faults' = 0
      PROVE  Findable(k)'
  <2>1. status[k] = "UNASSIGNED" /\ status'[k] = "UNASSIGNED" /\ k \in Task
    BY <1>1, <1>2, <1>4
  <2>2. ~ SettingUp(p, OrderOf[k])
    BY <1>4 DEF Releasing, SettingUp
  <2> QED BY <1>4, <2>1, <2>2, HandKept
<1>5. CASE Releasing(p) /\ pc[p] # "C_Enqueue"
  BY <1>1, <1>2, <1>4, <1>5 DEF Kept
<1>6. ASSUME NEW k \in Task, EnqueueChild(p, k) PROVE Kept(p)'
  <2>1. /\ pc[p] = "C_Enqueue" /\ Releasing(p) /\ k \in readyQueue'
        /\ batch'[p] = batch[p] \ {k}
        /\ batch[p] # {k} => pc'[p] = "C_Enqueue"
    BY <1>6 DEF EnqueueChild, Goto, TypeOK, Releasing
  <2>2. \A j \in batch[p] : j = k \/ (pc'[p] = "C_Enqueue" /\ j \in batch'[p])
    BY <2>1
  <2>3. Findable(k)'
    BY <2>1 DEF Findable
  <2> QED BY <1>1, <1>2, <1>4, <2>1, <2>2, <2>3 DEF Kept
<1> QED BY <1>3, <1>5, <1>6, ReleasingMoves

\* faults counts up, and only at a fault.
LEMMA FaultsGrow ==
  ASSUME TypeOK, NEW p \in Proc, Step(p)
  PROVE  faults \in Nat /\ faults' \in Nat /\ (faults' = 0 => faults = 0)
<1> USE DEF tables, locals
<1>0. faults \in Nat
  BY FiniteTables DEF TypeOK
<1>1. CASE ConfirmStep(p)
  BY <1>0, <1>1 DEF ConfirmStep, CreateOrderWithTasks, InsertTaskDependencies,
     RecalculatePendingDepsForOrder, ListOrderReadyTasks, EnqueueReady, InsertDomainEventNoTx,
     ConfirmDone
<1>2. CASE RequeueStep(p)
  BY <1>0, <1>2 DEF RequeueStep, SelectExpired, RequeueStaff, RequeueCounter, RequeueMachine,
     RequeueCommit, RequeueEnqueue, LockStep
<1>3. CASE AllocStep(p)
  BY <1>0, <1>3 DEF AllocStep, PopTopN, LockTaskForAssignment, LockCounter, FindEligibleStaff,
     LockMachineForTask, LockStaff, MarkOrderInProgressIfConfirmed, AllocCommit, RecheckTask,
     Reenqueue, LockStep
<1>4. CASE CompleteStep(p)
  BY <1>0, <1>4 DEF CompleteStep, UpdateTaskStatusCompleted, ReleaseCounter, ReleaseMachine,
     UpdateStaffEfficiencyAndActive, LockChild, DecrementDependentPendingDeps, EnqueueChild,
     MarkOrderPartCompletedIfNotDone, CountRemaining, CompleteOrder, CompleteCommit, LockStep
<1>5. CASE Fault(p)
  BY <1>0, <1>5 DEF Fault, Abort, Crash, RecheckFails
<1> QED BY <1>1, <1>2, <1>3, <1>4, <1>5 DEF Step

\* A task that becomes ready does so in the hands of a call: ConfirmOrder that
\* creates or recalculates it, the requeue that takes it back, or a completion
\* that has put it into the queue before.
LEMMA StrandedStep ==
  ASSUME TypeOK, RowsOK, NEW p \in Proc, CallOK(p), NoTask(p), Kept(p), NoReadyTaskStranded, Step(p)
  PROVE  NoReadyTaskStranded'
<1> SUFFICES ASSUME faults' = 0, NEW t \in Task, Assignable(t)'
             PROVE  Findable(t)'
  BY DEF NoReadyTaskStranded, Findable
<1>0. faults = 0 /\ status'[t] = "UNASSIGNED" /\ pendingDeps'[t] = 0
  BY FaultsGrow DEF Assignable
<1>1. CASE Assignable(t)
  <2>1. Findable(t) /\ status[t] = "UNASSIGNED" /\ pendingDeps[t] = 0
    BY <1>0, <1>1 DEF NoReadyTaskStranded, Findable, Assignable
  <2> QED BY <1>0, <2>1, HandKept
<1>2. ASSUME NEW o \in Order, CreateOrderWithTasks(p, o), status[t] # "UNASSIGNED"
      PROVE  Findable(t)'
  <2>1. t \in TasksOf(o)
    BY <1>0, <1>2 DEF CreateOrderWithTasks
  <2>2. cur'[p] = OrderOf[t] /\ pc'[p] \in {"O_Deps", "O_List"}
    BY <1>2, <2>1 DEF CreateOrderWithTasks, Goto, TypeOK, TasksOf
  <2> QED BY <2>2 DEF Findable, InHand
<1>3. CASE RequeueCommit(p) /\ status[t] # "UNASSIGNED"
  <2>1. t \in LockedTasks(p)
    BY <1>0, <1>3 DEF RequeueCommit
  <2>2. t \in batch'[p] /\ pc'[p] = "R_Enqueue"
    BY <1>3, <2>1 DEF RequeueCommit, Goto, TypeOK
  <2> QED BY <2>2 DEF Findable, InHand
<1>4. AllocCommit(p) \/ CompleteCommit(p) \/ Quiet => status[t] = "UNASSIGNED"
  BY <1>0 DEF AllocCommit, CompleteCommit, Quiet, TypeOK
<1>5. CASE status[t] = "UNASSIGNED" /\ pendingDeps[t] # 0
  <2>1. CASE RecalculatePendingDepsForOrder(p)
    <3>1. t \in TasksOf(cur[p])
      BY <1>0, <1>5, <2>1 DEF RecalculatePendingDepsForOrder
    <3>2. pc'[p] = "O_List" /\ cur'[p] = OrderOf[t]
      BY <2>1, <3>1 DEF RecalculatePendingDepsForOrder, Goto, TypeOK, locals, TasksOf
    <3> QED BY <3>2 DEF Findable, InHand
  <2>2. CASE CompleteCommit(p)
    <3>1. t \in ReadyChildren(cur[p])
      BY <1>0, <1>5, <2>2 DEF CompleteCommit, Decremented, ReadyChildren
    <3>2. pc[p] = "C_Commit" /\ Releasing(p) /\ ~ SettingUp(p, OrderOf[t])
      BY <2>2 DEF CompleteCommit, Releasing, SettingUp
    <3>3. Findable(t)
      BY <1>0, <3>1, <3>2 DEF Kept
    <3> QED BY <1>0, <1>5, <3>2, <3>3, HandKept
  <2> QED BY <1>0, <1>5, <2>1, <2>2, TablesMoved
<1> QED BY <1>1, <1>2, <1>3, <1>4, <1>5, StepKinds DEF Assignable

\* StartTask works on a task no one holds, and on nothing that is waited for.
LEMMA StartQueue ==
  ASSUME TypeOK, QueueInv, NEW t \in Task, StartTask(t)
  PROVE  QueueInv'
<1>1. /\ UNCHANGED <<deps, pendingDeps, readyQueue, lock, pc, cur, batch, faults>>
      /\ \A u \in Task : status'[u] = "UNASSIGNED" <=> status[u] = "UNASSIGNED"
  BY DEF StartTask, locals, TypeOK
<1>2. /\ \A u \in Task : Findable(u)' <=> Findable(u)
      /\ \A u \in Task : Assignable(u)' <=> Assignable(u)
      /\ \A p \in Proc : Releasing(p)' <=> Releasing(p)
  BY <1>1 DEF Findable, InHand, Assignable, Releasing
<1>3. ASSUME NEW p \in Proc
      PROVE  /\ Children(cur[p])' = Children(cur[p])
             /\ ReadyChildren(cur[p])' = ReadyChildren(cur[p])
  <2>1. Children(cur[p])' = Children(cur[p])
    BY <1>1 DEF Children
  <2>2. \A k \in Task : Decremented(cur[p], k)' = Decremented(cur[p], k)
    BY <1>1, <2>1 DEF Decremented
  <2> QED BY <1>1, <2>1, <2>2 DEF ReadyChildren, Children
<1>4. NoReadyTaskStranded'
  BY <1>1, <1>2 DEF QueueInv, NoReadyTaskStranded, Findable
<1>5. /\ \A p \in Proc : Children(cur[p]) \subseteq Task
      /\ \A p \in Proc : ReadyChildren(cur[p]) \subseteq Task
  BY DEF Children, ReadyChildren
<1> QED BY <1>1, <1>2, <1>3, <1>4, <1>5 DEF QueueInv

\* No task, no call.
LEMMA InitQueue == Init => QueueInv
BY DEF Init, QueueInv, NoReadyTaskStranded, Assignable, Releasing

\* QueueInv is inductive relative to the other invariants.
LEMMA NextQueue == IInv /\ DepsInv /\ EventsInv /\ QueueInv /\ [Next]_vars => QueueInv'
<1> SUFFICES ASSUME IInv, DepsInv, EventsInv, QueueInv, [Next]_vars PROVE QueueInv'
  OBVIOUS
<1>0. QueueInv <=> NoReadyTaskStranded /\ \A p \in Proc : NoTask(p) /\ Kept(p)
  BY DEF QueueInv, NoTask, Kept
<1>1. ASSUME NEW p \in Proc, Step(p) PROVE QueueInv'
  <2>1. TypeOK /\ RowsOK /\ \A q \in Proc : CallOK(q) /\ NoTask(q) /\ Kept(q)
    BY <1>0 DEF IInv
  <2>2. NoReadyTaskStranded'
    BY <1>0, <1>1, <2>1, StrandedStep
  <2>3. ASSUME NEW q \in Proc PROVE NoTask(q)'
    <3>1. CASE q = p
      BY <1>1, <2>1, <3>1, NoTaskStep
    <3>2. CASE q # p
      BY <1>1, <2>1, <3>2, OthersHands DEF NoTask
    <3> QED BY <3>1, <3>2
  <2>4. ASSUME NEW q \in Proc PROVE Kept(q)'
    <3>1. faults \in Nat /\ faults' \in Nat /\ (faults' = 0 => faults = 0)
      BY <1>1, <2>1, FaultsGrow
    <3>2. CASE q = p
      BY <1>1, <2>1, <3>1, <3>2, OwnKept
    <3>3. CASE q # p
      BY <1>1, <2>1, <3>1, <3>3, OtherKept
    <3> QED BY <3>2, <3>3
  <2> QED BY <2>2, <2>3, <2>4 DEF QueueInv, NoTask, Kept
<1>2. ASSUME NEW t \in Task, StartTask(t) PROVE QueueInv'
  BY <1>2, StartQueue DEF IInv
<1>3. CASE UNCHANGED vars
  <2>1. UNCHANGED <<status, deps, pendingDeps, readyQueue, lock, pc, cur, batch, faults>>
    BY <1>3 DEF vars, tables, locals
  <2> QED BY <2>1 DEF QueueInv, NoReadyTaskStranded, Assignable, InHand, Findable, Releasing,
             Children, ReadyChildren, Decremented
<1> QED BY <1>1, <1>2, <1>3 DEF Next

\* QueueInv is an invariant of the scheduler.
THEOREM QueueInvariance == Spec => []QueueInv
BY InitQueue, NextQueue, Invariance, DepsInvariance, EventsInvariance, PTL DEF Spec

\* As long as no call is cut short, AllocateOnce finds every task that is
\* ready: it is in the queue, or a call has it in hand and will enqueue it or
\* try to assign it.
THEOREM NoReadyTaskLost == Spec => []NoReadyTaskStranded
<1>1. QueueInv => NoReadyTaskStranded
  BY DEF QueueInv
<1> QED BY <1>1, QueueInvariance, PTL

==============================================================================
