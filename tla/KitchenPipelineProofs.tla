------------------------- MODULE KitchenPipelineProofs -------------------------
(***************************************************************************)
(* The scheduler and the workflows together, for every kitchen: the        *)
(* workflows only call what the scheduler offers (PipeIsKitchen), so all   *)
(* that is proved of the scheduler holds with Temporal, HTTP, lost and     *)
(* repeated events too; a workflow never ends before its task is           *)
(* completed, and no start is forgotten as long as no event is lost.       *)
(*                                                                         *)
(* The argument: domain_events has a TASK_STARTED row for a task only when *)
(* the task is STARTED or COMPLETED (EventsInv of the scheduler), and such *)
(* a task never goes back (StaysStarted); the wait for a start goes from   *)
(* the row to the timer, to the activity, to the call and, if that fails,  *)
(* to the activity again.                                                  *)
(***************************************************************************)
EXTENDS KitchenPipeline, KitchenOrderProofs

\* What a step of the pipeline does to the scheduler.
LEMMA PipeSteps ==
  ASSUME PipeNext
  PROVE  \/ UNCHANGED vars
         \/ \E p \in Proc : Step(p)
         \/ \E t \in Task : StartTask(t)
<1>1. CASE Machinery
  <2>1. ASSUME NEW p \in Worker, RunAllocationActivity(p) PROVE \E q \in Proc : Step(q)
    BY <2>1, PipelineConstants DEF RunAllocationActivity, Step, RequeueStep
  <2>2. ASSUME NEW p \in Worker, NEW t \in Task, CompleteTaskByIDActivity(p, t)
        PROVE  \E q \in Proc : Step(q)
    BY <2>2, PipelineConstants DEF CompleteTaskByIDActivity, Step, CompleteStep
  <2>3. ASSUME NEW p \in Proc, CallGoesOn(p) PROVE \E q \in Proc : Step(q)
    BY <2>3 DEF CallGoesOn, Step
  <2> QED BY <1>1, <2>1, <2>2, <2>3 DEF Machinery, Deliver, SleepOver, CompleteNotStarted
<1>2. CASE Mishap
  <2>1. ASSUME NEW p \in Proc, CallFails(p) \/ AllocationFails(p) PROVE Step(p)
    BY <2>1 DEF CallFails, AllocationFails, Step, Fault
  <2> QED BY <1>2, <2>1 DEF Mishap, Lose, Repeat, ActivityTimesOut
<1>3. ASSUME NEW p \in Proc \ Worker, NEW o \in Order, ConfirmOrder(p, o) PROVE Step(p)
  BY <1>3 DEF ConfirmOrder, Step, ConfirmStep
<1>4. ASSUME NEW p \in Proc \ Worker, ManualAllocate(p) PROVE Step(p)
  BY <1>4 DEF ManualAllocate, Step, RequeueStep
<1>5. ASSUME NEW p \in Proc \ Worker, NEW t \in Task, ManualComplete(p, t) PROVE Step(p)
  BY <1>5 DEF ManualComplete, Step, CompleteStep
<1>6. ASSUME NEW t \in Task, ManualStart(t) PROVE StartTask(t)
  BY <1>6 DEF ManualStart
<1> QED BY <1>1, <1>2, <1>3, <1>4, <1>5, <1>6 DEF PipeNext

\* The scheduler in the pipeline is the scheduler: the workflows, the channel
\* and the failures of activities add no behaviour to it.
THEOREM PipeIsKitchen == PipeSpec => Spec
<1>1. PipeInit => Init
  BY DEF PipeInit
<1>2. [PipeNext]_pipeVars => [Next]_vars
  BY PipeSteps DEF Next, pipeVars
<1> QED BY <1>1, <1>2, PTL DEF PipeSpec, Spec

-----------------------------------------------------------------------------
\* A started task is never taken back: the requeue looks for ASSIGNED rows.
LEMMA StaysStarted ==
  ASSUME IInv, [Next]_vars, NEW t \in Task, status[t] \in {"STARTED", "COMPLETED"}
  PROVE  status'[t] \in {"STARTED", "COMPLETED"}
<1> USE DEF IInv, TypeOK
<1>1. ASSUME NEW p \in Proc, Step(p) PROVE status'[t] \in {"STARTED", "COMPLETED"}
  <2>1. CASE Quiet
    BY <2>1 DEF Quiet
  <2>2. ASSUME NEW o \in Order, CreateOrderWithTasks(p, o) PROVE status'[t] = status[t]
    BY <2>2 DEF CreateOrderWithTasks, RowsOK, TasksOf
  <2>3. CASE RequeueCommit(p)
    BY <2>3 DEF RequeueCommit, LockedTasks, CallOK, HeldTasks, RequeueTx
  <2>4. CASE AllocCommit(p)
    BY <2>4 DEF AllocCommit, CallOK, HeldTasks, AllocTx
  <2>5. CASE CompleteCommit(p)
    BY <2>5 DEF CompleteCommit
  <2> QED BY <1>1, <2>1, <2>2, <2>3, <2>4, <2>5, StepKinds
<1>2. ASSUME NEW u \in Task, StartTask(u) PROVE status'[t] \in {"STARTED", "COMPLETED"}
  BY <1>2 DEF StartTask
<1>3. CASE UNCHANGED vars
  BY <1>3 DEF vars, tables
<1> QED BY <1>1, <1>2, <1>3 DEF Next

\* Only StartTask makes a task STARTED.
LEMMA OnlyStarts ==
  ASSUME IInv, NEW p \in Proc, Step(p), NEW t \in Task, status'[t] = "STARTED"
  PROVE  status[t] = "STARTED"
<1> USE DEF IInv, TypeOK
<1>1. CASE Quiet
  BY <1>1 DEF Quiet
<1>2. ASSUME NEW o \in Order, CreateOrderWithTasks(p, o) PROVE status[t] = "STARTED"
  BY <1>2 DEF CreateOrderWithTasks
<1>3. CASE RequeueCommit(p)
  BY <1>3 DEF RequeueCommit
<1>4. CASE AllocCommit(p)
  BY <1>4 DEF AllocCommit
<1>5. CASE CompleteCommit(p)
  BY <1>5 DEF CompleteCommit
<1> QED BY <1>1, <1>2, <1>3, <1>4, <1>5, StepKinds

\* Rows of domain_events are not deleted.
LEMMA RowsGrow ==
  ASSUME TypeOK, [Next]_vars
  PROVE  Rows \subseteq Rows'
<1> SUFFICES ASSUME NEW e \in EventType, NEW t \in Task
             PROVE  events[e][t] \in Nat /\ events'[e][t] \in Nat /\ events[e][t] <= events'[e][t]
  BY DEF Rows, Event
<1>1. events \in [EventType -> [Task -> Nat]]
  BY DEF TypeOK
<1>2. /\ "TASK_READY" \in EventType /\ "TASK_ASSIGNED" \in EventType /\ "TASK_STARTED" \in EventType
      /\ "TASK_COMPLETED" \in EventType /\ "TASK_REQUEUED" \in EventType
  BY DEF EventType
<1>3. ASSUME NEW log \in [EventType -> [Task -> Nat]], NEW f \in EventType, NEW S
      PROVE  /\ Emit(log, f, S) \in [EventType -> [Task -> Nat]]
             /\ log[e][t] <= Emit(log, f, S)[e][t]
  BY EmitType, EmitRows
<1>4. ASSUME NEW p \in Proc, Step(p) PROVE events'[e][t] \in Nat /\ events[e][t] <= events'[e][t]
  <2>1. CASE UNCHANGED events
    BY <1>1, <2>1
  <2>2. CASE InsertDomainEventNoTx(p)
    BY <1>1, <1>2, <1>3, <2>2 DEF InsertDomainEventNoTx
  <2>3. CASE RequeueCommit(p)
    BY <1>1, <1>2, <1>3, <2>3 DEF RequeueCommit
  <2>4. CASE AllocCommit(p)
    BY <1>1, <1>2, <1>3, <2>4 DEF AllocCommit
  <2>5. CASE CompleteCommit(p)
    <3> DEFINE rdy == Emit(events, "TASK_READY", ReadyChildren(cur[p]))
    <3>1. rdy \in [EventType -> [Task -> Nat]] /\ events[e][t] <= rdy[e][t]
      BY <1>1, <1>2, <1>3
    <3>2. events' = Emit(rdy, "TASK_COMPLETED", {cur[p]})
      BY <2>5 DEF CompleteCommit
    <3> HIDE DEF rdy
    <3>3. events' \in [EventType -> [Task -> Nat]] /\ rdy[e][t] <= events'[e][t]
      BY <1>2, <1>3, <3>1, <3>2
    <3> QED BY <1>1, <3>1, <3>3
  <2> QED BY <1>4, <2>1, <2>2, <2>3, <2>4, <2>5, EventsMoved
<1>5. ASSUME NEW u \in Task, StartTask(u) PROVE events'[e][t] \in Nat /\ events[e][t] <= events'[e][t]
  BY <1>1, <1>2, <1>3, <1>5 DEF StartTask
<1>6. CASE UNCHANGED vars
  BY <1>1, <1>6 DEF vars, tables
<1> QED BY <1>1, <1>4, <1>5, <1>6 DEF Next

\* Someone will see to the completion of t.
Awaited(t) ==
    \/ <<"TASK_STARTED", t, 1>> \notin handled
    \/ asleep[t] + due[t] > 0
    \/ \E p \in Worker : job[p] = "complete" /\ cur[p] = t

\* The events that have been handled about a task that has started.
LEMMA StartRows ==
  ASSUME IInv, EventsInv, NEW t \in Task, NEW n, <<"TASK_STARTED", t, n>> \in Rows
  PROVE  status[t] \in {"STARTED", "COMPLETED"}
<1>1. n \in 1..(MaxRequeues + 1) /\ n <= events["TASK_STARTED"][t]
  BY DEF Rows, Event
<1>2. events["TASK_STARTED"][t] = (IF status[t] \in {"STARTED", "COMPLETED"} THEN 1 ELSE 0)
  BY DEF EventsInv, OutboxMatchesState
<1> QED BY <1>1, <1>2, FiniteTables

\* A workflow for an event starts a timer for its task, and leaves those of
\* the other tasks alone; an event of any other type asks for AllocateOnce.
LEMMA WorkflowStep ==
  ASSUME PipeTypeOK, NEW e \in EventType, NEW t \in Task, StartWorkflow(e, t)
  PROVE  /\ wakeups' \in Nat /\ asleep' \in [Task -> Nat] /\ UNCHANGED <<due, finished>>
         /\ \A u \in Task : asleep'[u] = IF e = "TASK_STARTED" /\ u = t THEN asleep[u] + 1 ELSE asleep[u]
BY DEF PipeTypeOK, StartWorkflow

\* What waits stays as it was unless the step is about it.
LEMMA AwaitedKept ==
  ASSUME PipeInv, UNCHANGED <<status, losses>>, NEW t \in Task,
         Awaited(t) => Awaited(t)'
  PROVE  losses' = 0 /\ status'[t] = "STARTED" => Awaited(t)'
BY DEF PipeInv, StartedTaskHasTimer, Awaited

\* StartedTaskHasTimer in the next state, task by task.
LEMMA AwaitedAll ==
  ASSUME \A t \in Task : losses' = 0 /\ status'[t] = "STARTED" => Awaited(t)'
  PROVE  StartedTaskHasTimer'
BY DEF StartedTaskHasTimer, Awaited

\* Steps of the channel and of the workflows, with no call involved.
LEMMA WorkflowInv ==
  ASSUME IInv, EventsInv, PipeInv, UNCHANGED vars,
         \/ \E e \in EventType, t \in Task, n \in 1..MaxRequeues + 1 :
               Deliver(e, t, n) \/ Lose(e, t, n) \/ Repeat(e, t, n)
         \/ \E t \in Task : SleepOver(t) \/ CompleteNotStarted(t)
         \/ \E p \in Proc : ActivityTimesOut(p)
  PROVE  PipeInv'
<1> USE DEF PipeInv, PipeTypeOK, workflows, counts
<1>0. /\ UNCHANGED <<status, events, lock, pc, cur>> /\ Rows' = Rows
      /\ losses \in Nat /\ repeats \in Nat /\ manual \in Nat
  BY PipelineConstants DEF vars, tables, locals, Rows
<1>1. ASSUME NEW e \in EventType, NEW t \in Task, NEW n \in 1..MaxRequeues + 1, Deliver(e, t, n)
      PROVE  PipeInv'
  <2>1. /\ <<e, t, n>> \in Rows /\ handled' = handled \cup {<<e, t, n>>}
        /\ StartWorkflow(e, t) /\ UNCHANGED <<job, losses, repeats, manual>>
    BY <1>1 DEF Deliver, Path!Deliver
  <2>2. /\ wakeups' \in Nat /\ asleep' \in [Task -> Nat] /\ UNCHANGED <<due, finished>>
        /\ \A u \in Task : asleep'[u] = IF e = "TASK_STARTED" /\ u = t THEN asleep[u] + 1 ELSE asleep[u]
    BY <2>1, WorkflowStep
  <2>3. PipeTypeOK' /\ AutoCompleteSound'
    BY <1>0, <2>1, <2>2 DEF AutoCompleteSound
  <2>4. ASSUME NEW u \in Task, asleep'[u] + due'[u] > 0 PROVE status'[u] \in {"STARTED", "COMPLETED"}
    BY <1>0, <2>1, <2>2, <2>4, StartRows
  <2>5. ASSUME NEW u \in Task, Awaited(u) PROVE Awaited(u)'
    BY <1>0, <2>1, <2>2, <2>5 DEF Awaited
  <2> QED BY <1>0, <2>1, <2>3, <2>4, <2>5, AwaitedKept, AwaitedAll
<1>2. ASSUME NEW e \in EventType, NEW t \in Task, NEW n \in 1..MaxRequeues + 1, Lose(e, t, n)
      PROVE  PipeInv'
  <2>1. /\ <<e, t, n>> \in Rows /\ handled' = handled \cup {<<e, t, n>>}
        /\ losses < MaxLosses /\ losses' = losses + 1
        /\ UNCHANGED <<wakeups, asleep, due, finished, job, repeats, manual>>
    BY <1>2 DEF Lose, Path!Deliver
  <2>2. PipeTypeOK' /\ AutoCompleteSound'
    BY <1>0, <2>1, PipelineConstants DEF AutoCompleteSound
  <2>3. StartedTaskHasTimer'
    BY <1>0, <2>1 DEF StartedTaskHasTimer
  <2> QED BY <1>0, <2>1, <2>2, <2>3
<1>3. ASSUME NEW e \in EventType, NEW t \in Task, NEW n \in 1..MaxRequeues + 1, Repeat(e, t, n)
      PROVE  PipeInv'
  <2>1. /\ <<e, t, n>> \in Rows /\ handled' = handled
        /\ StartWorkflow(e, t) /\ UNCHANGED <<job, losses, manual>>
        /\ repeats < MaxRepeats /\ repeats' = repeats + 1
    BY <1>3 DEF Repeat
  <2>2. /\ wakeups' \in Nat /\ asleep' \in [Task -> Nat] /\ UNCHANGED <<due, finished>>
        /\ \A u \in Task : asleep'[u] = IF e = "TASK_STARTED" /\ u = t THEN asleep[u] + 1 ELSE asleep[u]
    BY <2>1, WorkflowStep
  <2>3. PipeTypeOK' /\ AutoCompleteSound'
    BY <1>0, <2>1, <2>2, PipelineConstants DEF AutoCompleteSound
  <2>4. ASSUME NEW u \in Task, asleep'[u] + due'[u] > 0 PROVE status'[u] \in {"STARTED", "COMPLETED"}
    BY <1>0, <2>1, <2>2, <2>4, StartRows
  <2>5. ASSUME NEW u \in Task, Awaited(u) PROVE Awaited(u)'
    BY <1>0, <2>1, <2>2, <2>5 DEF Awaited
  <2> QED BY <1>0, <2>1, <2>3, <2>4, <2>5, AwaitedKept, AwaitedAll
<1>4. ASSUME NEW t \in Task, SleepOver(t) PROVE PipeInv'
  <2>1. /\ asleep[t] > 0
        /\ asleep' = [asleep EXCEPT ![t] = @ - 1] /\ due' = [due EXCEPT ![t] = @ + 1]
        /\ UNCHANGED <<handled, wakeups, finished, job, losses, repeats, manual>>
    BY <1>4 DEF SleepOver
  <2>2. \A u \in Task : asleep'[u] + due'[u] = asleep[u] + due[u]
    BY <2>1
  <2>3. PipeTypeOK' /\ AutoCompleteSound'
    BY <1>0, <2>1 DEF AutoCompleteSound
  <2>5. ASSUME NEW u \in Task, Awaited(u) PROVE Awaited(u)'
    BY <1>0, <2>1, <2>2, <2>5 DEF Awaited
  <2> QED BY <1>0, <2>1, <2>2, <2>3, <2>5, AwaitedKept, AwaitedAll
<1>5. ASSUME NEW t \in Task, CompleteNotStarted(t) PROVE PipeInv'
  <2>1. /\ due[t] > 0 /\ status[t] # "STARTED"
        /\ due' = [due EXCEPT ![t] = @ - 1] /\ finished' = finished \cup {t}
        /\ UNCHANGED <<handled, wakeups, asleep, job, losses, repeats, manual>>
    BY <1>5 DEF CompleteNotStarted
  <2>2. status[t] = "COMPLETED"
    BY <2>1
  <2>3. PipeTypeOK' /\ AutoCompleteSound'
    BY <1>0, <2>1, <2>2 DEF AutoCompleteSound
  <2>4. \A u \in Task : due'[u] <= due[u] /\ (u # t => due'[u] = due[u])
    BY <2>1
  <2>5. ASSUME NEW u \in Task, Awaited(u), u # t PROVE Awaited(u)'
    BY <1>0, <2>1, <2>4, <2>5 DEF Awaited
  <2> QED BY <1>0, <2>1, <2>2, <2>3, <2>4, <2>5, AwaitedKept, AwaitedAll
<1>6. ASSUME NEW p \in Proc, ActivityTimesOut(p) PROVE PipeInv'
  <2>1. /\ job[p] # "none" /\ Reschedule(p)
        /\ job' = [job EXCEPT ![p] = "none"] /\ repeats < MaxRepeats /\ repeats' = repeats + 1
        /\ UNCHANGED <<handled, asleep, losses, manual>>
    BY <1>6 DEF ActivityTimesOut
  <2>4. job[p] = "complete" => cur[p] \in Task /\ status[cur[p]] = "STARTED"
    BY DEF IInv, CallOK, LocalsOK, HeldTasks, OpenTx
  <2>2. /\ wakeups' \in Nat /\ due' \in [Task -> Nat] /\ UNCHANGED finished
        /\ \A u \in Task : due'[u] = IF job[p] = "complete" /\ u = cur[p] THEN due[u] + 1 ELSE due[u]
    BY <2>1, <2>4 DEF Reschedule
  <2>3. PipeTypeOK' /\ AutoCompleteSound'
    BY <1>0, <2>1, <2>2, PipelineConstants DEF AutoCompleteSound, Jobs
  <2>5. ASSUME NEW u \in Task, Awaited(u) PROVE Awaited(u)'
    BY <1>0, <2>1, <2>2, <2>5 DEF Awaited
  <2>6. \A q \in Proc : job'[q] = "complete" => job[q] = "complete"
    BY <2>1
  <2> QED BY <1>0, <2>1, <2>2, <2>3, <2>4, <2>5, <2>6, AwaitedKept, AwaitedAll
<1> QED BY <1>1, <1>2, <1>3, <1>4, <1>5, <1>6

\* A completion stays in its transaction on its task until it commits, if no
\* fault ends it.
LEMMA CompletionMoves ==
  ASSUME TypeOK, NEW p \in Proc, pc[p] \in CompleteTx,
         ConfirmStep(p) \/ RequeueStep(p) \/ AllocStep(p) \/ CompleteStep(p)
  PROVE  \/ pc'[p] \in CompleteTx /\ cur'[p] = cur[p]
         \/ CompleteCommit(p) /\ pc'[p] = "idle"
<1> USE DEF CompleteTx
<1>1. /\ \A l \in Label : Goto(p, l) => pc'[p] = l
      /\ \A r, l : Acquire(p, r, l) => pc'[p] = l
      /\ Return(p) => pc'[p] = "idle"
  BY DEF TypeOK, Goto, Acquire, Return
<1>3. ASSUME CompleteStep(p)
      PROVE  \/ pc'[p] \in CompleteTx /\ cur'[p] = cur[p]
             \/ CompleteCommit(p) /\ pc'[p] = "idle"
  BY <1>1, <1>3 DEF CompleteStep, UpdateTaskStatusCompleted, ReleaseCounter, ReleaseMachine,
     UpdateStaffEfficiencyAndActive, LockChild, DecrementDependentPendingDeps, EnqueueChild,
     MarkOrderPartCompletedIfNotDone, CountRemaining, CompleteOrder, CompleteCommit, LockStep,
     locals, Label, OpenTx
<1>4. ~ ConfirmStep(p)
  BY DEF ConfirmStep, CreateOrderWithTasks, InsertTaskDependencies, RecalculatePendingDepsForOrder,
     ListOrderReadyTasks, EnqueueReady, InsertDomainEventNoTx, ConfirmDone
<1>5. ~ RequeueStep(p)
  BY DEF RequeueStep, SelectExpired, RequeueStaff, RequeueCounter, RequeueMachine,
     RequeueCommit, RequeueEnqueue, LockStep
<1>6. ~ AllocStep(p)
  BY DEF AllocStep, PopTopN, LockTaskForAssignment, LockCounter, FindEligibleStaff,
     LockMachineForTask, LockStaff, MarkOrderInProgressIfConfirmed, AllocCommit, RecheckTask,
     Reenqueue, LockStep
<1> QED BY <1>3, <1>4, <1>5, <1>6

\* A step of call p, with what the workflows make of it.  PipeInv is kept if
\* nothing that waits for the completion of a STARTED task is dropped, and no
\* workflow ends or waits for a task that is not STARTED or COMPLETED.
LEMMA CallKeeps ==
  ASSUME IInv, PipeInv, NEW p \in Proc, Step(p),
         UNCHANGED <<handled, asleep, losses>>,
         wakeups' \in Nat, due' \in [Task -> Nat], finished' \subseteq Task,
         repeats' \in 0..MaxRepeats, manual' \in 0..MaxManual,
         job' \in [Proc -> Jobs], \A q \in Proc : q # p => job'[q] = job[q],
         job'[p] # "none" => p \in Worker /\ pc'[p] # "idle",
         job'[p] = "complete" => pc'[p] \in CompleteTx,
         \A t \in finished' : t \in finished \/ status'[t] = "COMPLETED",
         \A t \in Task : due'[t] > due[t] => status[t] \in {"STARTED", "COMPLETED"},
         \A t \in Task : due'[t] < due[t] => job'[p] = "complete" /\ cur'[p] = t,
         \A t \in Task : job[p] = "complete" /\ cur[p] = t /\ status'[t] = "STARTED" =>
            due'[t] > 0 \/ (job'[p] = "complete" /\ cur'[p] = t)
  PROVE  PipeInv'
<1>1. [Next]_vars
  BY DEF Next
<1>2. ASSUME NEW q \in Proc, q # p PROVE pc'[q] = pc[q] /\ cur'[q] = cur[q] /\ job'[q] = job[q]
  BY <1>2, OthersHands DEF IInv
<1>4. PipeTypeOK'
  <2>1. handled' \subseteq Rows'
    BY <1>1, RowsGrow DEF IInv, PipeInv, PipeTypeOK
  <2>2. asleep' \in [Task -> Nat] /\ job' \in [Proc -> Jobs] /\ losses' \in 0..MaxLosses
    BY DEF PipeInv, PipeTypeOK
  <2>3. ASSUME NEW q \in Proc, job'[q] # "none" PROVE q \in Worker /\ pc'[q] # "idle"
    BY <1>2, <2>3 DEF PipeInv, PipeTypeOK
  <2> QED BY <2>1, <2>2, <2>3 DEF PipeTypeOK
<1>5. AutoCompleteSound'
  <2>1. ASSUME NEW t \in finished PROVE status'[t] = "COMPLETED"
    <3>1. t \in Task /\ status[t] = "COMPLETED"
      BY DEF PipeInv, PipeTypeOK, AutoCompleteSound
    <3> QED BY <3>1, StatusMoves DEF IInv
  <2> QED BY <2>1 DEF AutoCompleteSound
<1>6. ASSUME NEW t \in Task, asleep'[t] + due'[t] > 0 PROVE status'[t] \in {"STARTED", "COMPLETED"}
  <2>1. asleep'[t] = asleep[t] /\ asleep[t] \in Nat /\ due[t] \in Nat /\ due'[t] \in Nat
    BY DEF PipeInv, PipeTypeOK
  <2>2. asleep[t] + due[t] > 0 \/ due'[t] > due[t]
    BY <1>6, <2>1
  <2>3. status[t] \in {"STARTED", "COMPLETED"}
    BY <2>2 DEF PipeInv
  <2> QED BY <1>1, <2>3, StaysStarted
<1>7. ASSUME NEW t \in Task, losses' = 0, status'[t] = "STARTED" PROVE Awaited(t)'
  <2>1. status[t] = "STARTED" /\ losses = 0
    BY <1>7, OnlyStarts
  <2>2. Awaited(t)
    BY <2>1 DEF PipeInv, StartedTaskHasTimer, Awaited
  <2>3. asleep'[t] = asleep[t] /\ asleep[t] \in Nat /\ due[t] \in Nat /\ due'[t] \in Nat
    BY DEF PipeInv, PipeTypeOK
  <2>4. job'[p] = "complete" /\ cur'[p] = t => Awaited(t)'
    <3>1. job'[p] = "complete" => p \in Worker
      OBVIOUS
    <3> QED BY <3>1 DEF Awaited
  <2>5. CASE <<"TASK_STARTED", t, 1>> \notin handled
    BY <2>5 DEF Awaited
  <2>6. CASE asleep[t] + due[t] > 0
    <3>1. asleep'[t] + due'[t] > 0 \/ due'[t] < due[t]
      BY <2>3, <2>6
    <3> QED BY <2>4, <3>1 DEF Awaited
  <2>7. ASSUME NEW q \in Worker, job[q] = "complete", cur[q] = t PROVE Awaited(t)'
    <3>1. CASE q = p
      <4>1. due'[t] > 0 => asleep'[t] + due'[t] > 0
        BY <2>3
      <4> QED BY <1>7, <2>4, <2>7, <3>1, <4>1 DEF Awaited
    <3>2. CASE q # p
      BY <1>2, <2>7, <3>2, PipelineConstants DEF Awaited
    <3> QED BY <3>1, <3>2
  <2> QED BY <2>2, <2>5, <2>6, <2>7 DEF Awaited
<1>8. ASSUME NEW q \in Proc, job'[q] = "complete" PROVE pc'[q] \in CompleteTx
  BY <1>2, <1>8 DEF PipeInv
<1> QED BY <1>4, <1>5, <1>6, <1>7, <1>8, AwaitedAll DEF PipeInv

\* Calls: those the workflows make, those over HTTP, and their failures.
LEMMA CallInv ==
  ASSUME IInv, PipeInv, NEW p \in Proc,
         \/ p \in Worker /\ RunAllocationActivity(p)
         \/ p \in Worker /\ \E t \in Task : CompleteTaskByIDActivity(p, t)
         \/ CallGoesOn(p) \/ CallFails(p) \/ AllocationFails(p)
         \/ \E o \in Order : ConfirmOrder(p, o)
         \/ ManualAllocate(p)
         \/ \E t \in Task : ManualComplete(p, t)
  PROVE  PipeInv'
<1> USE DEF workflows, counts
<1>1. /\ wakeups \in Nat /\ due \in [Task -> Nat] /\ finished \subseteq Task
      /\ job \in [Proc -> Jobs] /\ losses \in Nat
      /\ repeats \in 0..MaxRepeats /\ manual \in 0..MaxManual
      /\ job[p] # "none" => p \in Worker
      /\ pc \in [Proc -> Label] /\ cur \in [Proc -> Task \cup Order \cup {None}]
  BY PipelineConstants DEF PipeInv, PipeTypeOK, IInv, TypeOK
<1>2. /\ pc[p] = "idle" => job[p] = "none"
      /\ job[p] = "complete" =>
            pc[p] \in CompleteTx /\ cur[p] \in Task /\ status[cur[p]] = "STARTED"
  BY DEF PipeInv, PipeTypeOK, IInv, CallOK, LocalsOK, HeldTasks, OpenTx
<1>3. {"none", "allocate", "complete"} = Jobs
  BY DEF Jobs
<1>4. CASE RunAllocationActivity(p) /\ p \in Worker
  <2>1. /\ Step(p) /\ pc[p] = "idle" /\ pc'[p] # "idle"
        /\ wakeups > 0 /\ wakeups' = wakeups - 1 /\ job' = [job EXCEPT ![p] = "allocate"]
        /\ UNCHANGED <<handled, asleep, due, finished, losses, repeats, manual>>
    BY <1>1, <1>4 DEF RunAllocationActivity, Step, RequeueStep, SelectExpired, Goto
  <2>2. wakeups' \in Nat /\ \A u \in Task : ~ (due'[u] > due[u]) /\ ~ (due'[u] < due[u])
    BY <1>1, <2>1
  <2>3. job[p] = "none" /\ "allocate" \in Jobs /\ "allocate" # "complete" /\ "none" # "complete"
    BY <1>2, <1>3, <2>1
  <2> QED BY <1>1, <1>4, <2>1, <2>2, <2>3, CallKeeps
<1>5. ASSUME NEW t \in Task, CompleteTaskByIDActivity(p, t), p \in Worker PROVE PipeInv'
  <2>1. /\ Step(p) /\ pc[p] = "idle" /\ pc'[p] = "C_Counter" /\ cur'[p] = t
        /\ due[t] > 0 /\ due' = [due EXCEPT ![t] = @ - 1] /\ job' = [job EXCEPT ![p] = "complete"]
        /\ UNCHANGED <<handled, wakeups, asleep, finished, losses, repeats, manual>>
    BY <1>1, <1>5 DEF CompleteTaskByIDActivity, Step, CompleteStep, UpdateTaskStatusCompleted,
       Acquire, Goto
  <2>2. /\ due' \in [Task -> Nat]
        /\ \A u \in Task : due'[u] <= due[u] /\ (u # t => due'[u] = due[u])
    BY <1>1, <2>1
  <2>3. \A u \in Task : due[u] \in Nat /\ due'[u] \in Nat
    BY <1>1, <2>2
  <2>4. \A u \in Task : ~ (due'[u] > due[u]) /\ (due'[u] < due[u] => u = t)
    BY <2>2, <2>3
  <2> QED BY <1>1, <1>2, <1>3, <1>5, <2>1, <2>2, <2>4, CallKeeps DEF CompleteTx
<1>6. CASE CallGoesOn(p)
  <2>1. /\ ConfirmStep(p) \/ RequeueStep(p) \/ AllocStep(p) \/ CompleteStep(p)
        /\ job' \in [Proc -> Jobs] /\ \A q \in Proc : q # p => job'[q] = job[q]
        /\ job'[p] = IF pc'[p] = "idle" THEN "none" ELSE job[p]
        /\ finished' = IF pc'[p] = "idle" /\ job[p] = "complete" THEN finished \cup {cur[p]}
                       ELSE finished
        /\ UNCHANGED <<handled, wakeups, asleep, due, losses, repeats, manual>>
    BY <1>1, <1>3, <1>6 DEF CallGoesOn, Returns
  <2>2. Step(p)
    BY <2>1 DEF Step
  <2>3. job[p] = "complete" =>
           \/ pc'[p] \in CompleteTx /\ cur'[p] = cur[p] /\ pc'[p] # "idle"
           \/ pc'[p] = "idle" /\ status'[cur[p]] = "COMPLETED"
    <3>1. ASSUME job[p] = "complete", CompleteCommit(p) PROVE status'[cur[p]] = "COMPLETED"
      BY <1>2, <2>2, <3>1, StatusMoves DEF IInv
    <3> QED BY <1>2, <2>1, <3>1, CompletionMoves DEF IInv, CompleteTx
  <2>4. /\ \A t \in Task : due'[t] > due[t] => status[t] \in {"STARTED", "COMPLETED"}
        /\ \A t \in Task : due'[t] < due[t] => job'[p] = "complete" /\ cur'[p] = t
    BY <1>1, <2>1
  <2>5. finished' \subseteq Task /\ \A t \in finished' : t \in finished \/ status'[t] = "COMPLETED"
    BY <1>1, <1>2, <2>1, <2>3
  <2>6. \A t \in Task : job[p] = "complete" /\ cur[p] = t /\ status'[t] = "STARTED" =>
           due'[t] > 0 \/ (job'[p] = "complete" /\ cur'[p] = t)
    BY <2>1, <2>3
  <2>7. /\ job'[p] # "none" => p \in Worker /\ pc'[p] # "idle"
        /\ job'[p] = "complete" => pc'[p] \in CompleteTx
    BY <1>1, <2>1, <2>3
  <2> QED BY <1>1, <2>1, <2>2, <2>4, <2>5, <2>6, <2>7, CallKeeps
<1>7. CASE CallFails(p)
  <2>1. /\ Step(p) /\ Reschedule(p) /\ job' = [job EXCEPT ![p] = "none"]
        /\ repeats' \in 0..MaxRepeats
        /\ UNCHANGED <<handled, asleep, losses, manual>>
    BY <1>1, <1>7, PipelineConstants DEF CallFails, Step, Fault
  <2>2. /\ wakeups' \in Nat /\ due' \in [Task -> Nat] /\ UNCHANGED finished
        /\ \A u \in Task : due'[u] = IF job[p] = "complete" /\ u = cur[p] THEN due[u] + 1 ELSE due[u]
    BY <1>1, <1>2, <2>1 DEF Reschedule
  <2>3. \A u \in Task : due[u] \in Nat /\ due'[u] \in Nat
    BY <1>1, <2>2
  <2>4. /\ job' \in [Proc -> Jobs] /\ \A q \in Proc : q # p => job'[q] = job[q]
        /\ job'[p] = "none"
    BY <1>1, <1>3, <2>1
  <2>5. manual' \in 0..MaxManual /\ finished' \subseteq Task
    BY <1>1, <2>1, <2>2
  <2>6. ASSUME NEW t \in Task, due'[t] > due[t] PROVE status[t] \in {"STARTED", "COMPLETED"}
    BY <1>2, <2>2, <2>3, <2>6
  <2>7. ASSUME NEW t \in Task PROVE ~ (due'[t] < due[t])
    BY <2>2, <2>3
  <2>8. ASSUME NEW t \in Task, job[p] = "complete", cur[p] = t PROVE due'[t] > 0
    BY <2>2, <2>3, <2>8
  <2> QED BY <2>1, <2>2, <2>4, <2>5, <2>6, <2>7, <2>8, CallKeeps
<1>8. CASE AllocationFails(p)
  <2>1. /\ Step(p) /\ pc[p] \in AllocTx /\ pc'[p] = "A_Recheck"
        /\ repeats' \in 0..MaxRepeats
        /\ UNCHANGED <<handled, wakeups, asleep, due, finished, job, losses, manual>>
    BY <1>1, <1>8, PipelineConstants DEF AllocationFails, Step, Fault, Abort, AllocRollback, Goto,
       AllocTx, RequeueTx, CompleteTx
  <2>2. job[p] # "complete"
    BY <1>2, <2>1 DEF AllocTx, CompleteTx
  <2>3. \A u \in Task : ~ (due'[u] > due[u]) /\ ~ (due'[u] < due[u])
    BY <1>1, <2>1
  <2> QED BY <1>1, <1>3, <2>1, <2>2, <2>3, CallKeeps
<1>9. CASE \/ \E o \in Order : ConfirmOrder(p, o)
           \/ ManualAllocate(p)
           \/ \E t \in Task : ManualComplete(p, t)
  <2>1. /\ Step(p) /\ pc[p] = "idle" /\ manual' \in 0..MaxManual
        /\ UNCHANGED <<handled, wakeups, asleep, due, finished, job, losses, repeats>>
    BY <1>1, <1>9, PipelineConstants DEF ConfirmOrder, ManualAllocate, ManualComplete, Step,
       ConfirmStep, RequeueStep, CompleteStep, CreateOrderWithTasks, SelectExpired,
       UpdateTaskStatusCompleted
  <2>2. \A u \in Task : ~ (due'[u] > due[u]) /\ ~ (due'[u] < due[u])
    BY <1>1, <2>1
  <2>3. job[p] = "none" /\ job'[p] = "none" /\ job' \in [Proc -> Jobs]
    BY <1>1, <1>2, <2>1
  <2>4. /\ wakeups' \in Nat /\ due' \in [Task -> Nat] /\ finished' \subseteq Task
        /\ repeats' \in 0..MaxRepeats /\ \A t \in finished' : t \in finished
    BY <1>1, <2>1
  <2> QED BY <2>1, <2>2, <2>3, <2>4, CallKeeps
<1> QED BY <1>4, <1>5, <1>6, <1>7, <1>8, <1>9

\* StartTask over HTTP: the row it writes is one no one has handled yet.
LEMMA StartInv ==
  ASSUME IInv, EventsInv, PipeInv, NEW t \in Task, ManualStart(t)
  PROVE  PipeInv'
<1>1. /\ StartTask(t) /\ status[t] = "ASSIGNED"
      /\ UNCHANGED <<pc, cur, handled, wakeups, asleep, due, finished, job, losses, repeats, manual>>
  BY DEF ManualStart, StartTask, workflows, counts, locals
<1>2. /\ \A u \in Task \ {t} : status'[u] = status[u]
      /\ status'[t] = "STARTED"
  BY <1>1 DEF StartTask, IInv, TypeOK
<1>3. Rows \subseteq Rows'
  BY <1>1, RowsGrow DEF IInv, Next
<1>4. <<"TASK_STARTED", t, 1>> \notin handled
  BY <1>1, StartRows DEF PipeInv, PipeTypeOK
<1>5. PipeTypeOK'
  BY <1>1, <1>3 DEF PipeInv, PipeTypeOK
<1>6. AutoCompleteSound'
  BY <1>1, <1>2 DEF PipeInv, PipeTypeOK, AutoCompleteSound
<1>7. ASSUME NEW u \in Task, asleep'[u] + due'[u] > 0 PROVE status'[u] \in {"STARTED", "COMPLETED"}
  BY <1>1, <1>2, <1>7 DEF PipeInv
<1>8. ASSUME NEW u \in Task, losses' = 0, status'[u] = "STARTED" PROVE Awaited(u)'
  <2>1. CASE u = t
    BY <1>1, <1>4, <2>1 DEF Awaited
  <2>2. CASE u # t
    <3>1. Awaited(u)
      BY <1>1, <1>2, <1>8, <2>2 DEF PipeInv, StartedTaskHasTimer, Awaited
    <3> QED BY <1>1, <3>1 DEF Awaited
  <2> QED BY <2>1, <2>2
<1>9. \A p \in Proc : job'[p] = "complete" => pc'[p] \in CompleteTx
  BY <1>1 DEF PipeInv
<1> QED BY <1>5, <1>6, <1>7, <1>8, <1>9, AwaitedAll DEF PipeInv

\* PipeInv holds before the first order, and each step of the calls, the
\* workflows and the channel keeps it.
LEMMA NextPipeInv ==
  ASSUME IInv, EventsInv, PipeInv, [PipeNext]_pipeVars
  PROVE  PipeInv'
<1>1. ASSUME Machinery \/ Mishap PROVE PipeInv'
  <2>1. ASSUME \/ \E e \in EventType, t \in Task, n \in 1..MaxRequeues + 1 :
                     Deliver(e, t, n) \/ Lose(e, t, n) \/ Repeat(e, t, n)
               \/ \E t \in Task : SleepOver(t) \/ CompleteNotStarted(t)
               \/ \E p \in Proc : ActivityTimesOut(p)
        PROVE  PipeInv'
    <3>1. UNCHANGED vars
      BY <2>1 DEF Deliver, Lose, Repeat, SleepOver, CompleteNotStarted, ActivityTimesOut
    <3> QED BY <2>1, <3>1, WorkflowInv
  <2>2. ASSUME NEW p \in Worker, RunAllocationActivity(p) PROVE PipeInv'
    BY <2>2, CallInv, PipelineConstants
  <2>3. ASSUME NEW p \in Worker, \E t \in Task : CompleteTaskByIDActivity(p, t) PROVE PipeInv'
    BY <2>3, CallInv, PipelineConstants
  <2>4. ASSUME NEW p \in Proc, CallGoesOn(p) \/ CallFails(p) \/ AllocationFails(p) PROVE PipeInv'
    BY <2>4, CallInv
  <2> QED BY <1>1, <2>1, <2>2, <2>3, <2>4 DEF Machinery, Mishap
<1>2. ASSUME NEW p \in Proc \ Worker,
             \/ \E o \in Order : ConfirmOrder(p, o)
             \/ ManualAllocate(p)
             \/ \E t \in Task : ManualComplete(p, t)
      PROVE  PipeInv'
  BY <1>2, CallInv
<1>3. CASE UNCHANGED pipeVars
  <2>1. /\ UNCHANGED <<status, events, pc, cur>>
        /\ UNCHANGED <<handled, wakeups, asleep, due, finished, job, losses, repeats, manual>>
    BY <1>3 DEF pipeVars, vars, tables, locals, workflows, counts
  <2> QED BY <2>1 DEF PipeInv, PipeTypeOK, Rows, AutoCompleteSound, StartedTaskHasTimer
<1> QED BY <1>1, <1>2, <1>3, StartInv DEF PipeNext

\* The workflows' invariant, given the scheduler's.
THEOREM PipeInvariance == PipeSpec => []PipeInv
<1>1. PipeInit => PipeInv
  BY FiniteTables, PipelineConstants
     DEF PipeInit, Init, PipeInv, PipeTypeOK, AutoCompleteSound, StartedTaskHasTimer, Rows, Jobs
<1>2. IInv /\ EventsInv /\ PipeInv /\ [PipeNext]_pipeVars => PipeInv'
  BY NextPipeInv
<1> QED BY <1>1, <1>2, PipeIsKitchen, Invariance, EventsInvariance, PTL DEF PipeSpec

\* Every event the bridge has handled is a row of domain_events, and a
\* workflow waits only for a call that is under way, for any number of
\* processes, workflows and failures.
THEOREM PipeTypeCorrect == PipeSpec => []PipeTypeOK
<1>1. PipeInv => PipeTypeOK
  BY DEF PipeInv
<1> QED BY <1>1, PipeInvariance, PTL

\* No AutoCompleteTaskWorkflow ends before its task is COMPLETED.
THEOREM AutoCompleteCorrect == PipeSpec => []AutoCompleteSound
<1>1. PipeInv => AutoCompleteSound
  BY DEF PipeInv
<1> QED BY <1>1, PipeInvariance, PTL

\* As long as no event is lost, a STARTED task has its event, its timer, its
\* activity or a call of CompleteTask ahead of it, whatever fails or is retried.
THEOREM StartNotForgotten == PipeSpec => []StartedTaskHasTimer
<1>1. PipeInv => StartedTaskHasTimer
  BY DEF PipeInv
<1> QED BY <1>1, PipeInvariance, PTL

\* The scheduler's promises with the workflows as its callers: no counter or
\* machine beyond its capacity, no task before its dependencies, whichever
\* activities are retried, time out or run twice.
THEOREM PipelineSafe == PipeSpec => [](CapacityRespected /\ DependencyGating)
BY PipeIsKitchen, CapacityCorrect, GatingCorrect, PTL
=============================================================================
