---------------------------- MODULE KitchenPipeline ----------------------------
(***************************************************************************)
(* The scheduler driven by its own events: every row of domain_events      *)
(* reaches the Temporal bridge over the channel that the outbox and the    *)
(* topic consumer implement, the bridge starts a workflow for it, and the  *)
(* activities of the workflows call AllocateOnce and CompleteTask again.   *)
(*                                                                         *)
(* Workflows and their timers survive any crash; an activity that fails or *)
(* times out is scheduled again, without a limit on attempts (Temporal's   *)
(* default retry policy).                                                  *)
(***************************************************************************)
EXTENDS Kitchen

CONSTANTS
    Worker,         \* the calls made by activities; the others come from HTTP
    Staffed,        \* everyone is on duty and all machines are up
    MaxLosses,      \* bounds of the model: events lost by the topic consumer,
    MaxRepeats,     \* events handled once more, failed or timed out activities,
    MaxManual       \* calls of AllocateOnce and CompleteTask over HTTP

ASSUME PipelineConstants ==
    /\ Worker \subseteq Proc
    /\ Staffed \in BOOLEAN
    /\ MaxLosses \in Nat /\ MaxRepeats \in Nat /\ MaxManual \in Nat

VARIABLES
    handled,        \* events the bridge has been called with, or has lost
    wakeups,        \* AllocationWorkflows whose activity is to run
    asleep,         \* AutoCompleteTaskWorkflows before the end of their Sleep, per task
    due,            \* and those whose CompleteTaskByIDActivity is to run
    finished,       \* tasks for which an AutoCompleteTaskWorkflow has ended
    job,            \* what waits for the result of a call
    losses, repeats, manual

workflows == <<wakeups, asleep, due, finished>>
counts == <<losses, repeats, manual>>
pipeVars == <<vars, handled, workflows, job, counts>>

\* The n-th event of a type about a task.
Event == EventType \X Task \X (1..MaxRequeues + 1)
Rows == {r \in Event : r[3] <= events[r[1]][r[2]]}

Jobs == {"none", "allocate", "complete"}

PipeTypeOK ==
    /\ handled \subseteq Rows
    /\ wakeups \in Nat
    /\ asleep \in [Task -> Nat] /\ due \in [Task -> Nat]
    /\ finished \subseteq Task
    /\ job \in [Proc -> Jobs]
    /\ losses \in 0..MaxLosses /\ repeats \in 0..MaxRepeats /\ manual \in 0..MaxManual
    /\ \A p \in Proc : job[p] # "none" => p \in Worker /\ pc[p] # "idle"

PipeInit ==
    /\ Init
    /\ handled = {} /\ wakeups = 0 /\ finished = {}
    /\ asleep = [t \in Task |-> 0] /\ due = [t \in Task |-> 0]
    /\ job = [p \in Proc |-> "none"]
    /\ losses = 0 /\ repeats = 0 /\ manual = 0

-----------------------------------------------------------------------------
(* The bridge and the workflows                                             *)

\* Mutant of StartWorkflow: TASK_STARTED is treated like the other types.
StartAllocationOnly(e, t) ==
    wakeups' = wakeups + 1 /\ UNCHANGED <<asleep, due, finished>>

\* HandleEvent of the bridge.
StartWorkflow(e, t) ==
    IF e = "TASK_STARTED"
    THEN asleep' = [asleep EXCEPT ![t] = @ + 1] /\ UNCHANGED <<wakeups, due, finished>>
    ELSE wakeups' = wakeups + 1 /\ UNCHANGED <<asleep, due, finished>>

Path == INSTANCE Channel WITH Message <- Event, accepted <- Rows, delivered <- handled

Deliver(e, t, n) ==
    /\ UNCHANGED <<vars, job, counts>>
    /\ Path!Deliver(<<e, t, n>>)
    /\ StartWorkflow(e, t)

\* The topic consumer exits between the commit of the offset and the start of
\* the workflow, or gives up after three attempts.
Lose(e, t, n) ==
    /\ losses < MaxLosses
    /\ UNCHANGED <<vars, workflows, job, repeats, manual>>
    /\ Path!Deliver(<<e, t, n>>)
    /\ losses' = losses + 1

\* The outbox publishes a row twice, or a failed attempt has started a workflow.
Repeat(e, t, n) ==
    /\ <<e, t, n>> \in handled /\ repeats < MaxRepeats
    /\ StartWorkflow(e, t)
    /\ repeats' = repeats + 1
    /\ UNCHANGED <<vars, handled, job, losses, manual>>

\* PrepareAutoCompleteTaskActivity only reads; then Sleep for the estimate.
SleepOver(t) ==
    /\ asleep[t] > 0
    /\ asleep' = [asleep EXCEPT ![t] = @ - 1]
    /\ due' = [due EXCEPT ![t] = @ + 1]
    /\ UNCHANGED <<vars, handled, wakeups, finished, job, counts>>

\* RunAllocationActivity: the orchestrator calls AllocateOnce for every type.
RunAllocationActivity(p) ==
    /\ wakeups > 0
    /\ SelectExpired(p)
    /\ wakeups' = wakeups - 1
    /\ job' = [job EXCEPT ![p] = "allocate"]
    /\ UNCHANGED <<handled, asleep, due, finished, counts>>

CompleteTaskByIDActivity(p, t) ==
    /\ due[t] > 0
    /\ UpdateTaskStatusCompleted(p, t)
    /\ due' = [due EXCEPT ![t] = @ - 1]
    /\ job' = [job EXCEPT ![p] = "complete"]
    /\ UNCHANGED <<handled, wakeups, asleep, finished, counts>>

\* "is not STARTED" is taken for success: the workflow ends.
CompleteNotStarted(t) ==
    /\ due[t] > 0 /\ lock[t] = None /\ status[t] # "STARTED"
    /\ due' = [due EXCEPT ![t] = @ - 1]
    /\ finished' = finished \cup {t}
    /\ UNCHANGED <<vars, handled, wakeups, asleep, job, counts>>

-----------------------------------------------------------------------------
(* Calls in progress                                                        *)

\* With Staffed, a transaction of AllocateOnce fails only for a reason the
\* tables show.
GoesOn(p) ==
    Staffed =>
    /\ pc[p] = "A_FindStaff" /\ Eligible(CounterOf[cur[p]]) # {} => pc'[p] = "A_LockMachine"
    /\ LET m == MachineOf[cur[p]] IN
       pc[p] = "A_LockMachine" /\ lock[m] = None /\ MachineHasRoom(m)
          /\ HomeCounter[m] = CounterOf[cur[p]] => pc'[p] = "A_LockStaff"

\* Mutant of Returns: Temporal goes on waiting.
ReturnsUnheard(p) == UNCHANGED <<job, finished>>

\* The call has returned without an error: the workflow that waits for it ends.
Returns(p) ==
    /\ job' = [job EXCEPT ![p] = "none"]
    /\ finished' = IF job[p] = "complete" THEN finished \cup {cur[p]} ELSE finished

CallGoesOn(p) ==
    /\ pc[p] # "idle"
    /\ ConfirmStep(p) \/ RequeueStep(p) \/ AllocStep(p) \/ CompleteStep(p)
    /\ GoesOn(p)
    /\ IF pc'[p] = "idle" THEN Returns(p) ELSE UNCHANGED <<job, finished>>
    /\ UNCHANGED <<handled, wakeups, asleep, due, counts>>

\* Mutant of Reschedule: CompleteTaskByIDActivity swallows every error.
RescheduleAllocationOnly(p) ==
    /\ wakeups' = IF job[p] = "allocate" THEN wakeups + 1 ELSE wakeups
    /\ finished' = IF job[p] = "complete" THEN finished \cup {cur[p]} ELSE finished
    /\ UNCHANGED due

\* Temporal schedules the activity once more.
Reschedule(p) ==
    /\ wakeups' = IF job[p] = "allocate" THEN wakeups + 1 ELSE wakeups
    /\ due' = IF job[p] = "complete" THEN [due EXCEPT ![cur[p]] = @ + 1] ELSE due
    /\ UNCHANGED finished

\* Transactions that wait for each other; Postgres aborts one of them.
Deadlocked(p) ==
    \E D \in SUBSET Proc :
        p \in D /\ \A q \in D : \E r \in WantedRows(q) : lock[r] \in D \ {q}

\* The call returns an error, or its process dies.
CallFails(p) ==
    /\ \/ Deadlocked(p) /\ pc[p] \notin AllocTx /\ Abort(p) /\ UNCHANGED repeats
       \/ /\ repeats < MaxRepeats /\ repeats' = repeats + 1
          /\ Crash(p) \/ (pc[p] \notin AllocTx /\ Abort(p))
    /\ Reschedule(p)
    /\ job' = [job EXCEPT ![p] = "none"]
    /\ UNCHANGED <<handled, asleep, losses, manual>>

\* An allocation is rolled back as a deadlock victim or for another error of
\* the database: AllocateOnce ignores it, and so do Temporal and HTTP.
AllocationFails(p) ==
    /\ pc[p] \in AllocTx
    /\ \/ Deadlocked(p) /\ UNCHANGED repeats
       \/ repeats < MaxRepeats /\ repeats' = repeats + 1
    /\ Abort(p)
    /\ UNCHANGED <<handled, workflows, job, losses, manual>>

\* StartToCloseTimeout: the activity is scheduled again while the first
\* attempt goes on, its result unheard.
ActivityTimesOut(p) ==
    /\ job[p] # "none" /\ repeats < MaxRepeats
    /\ Reschedule(p)
    /\ job' = [job EXCEPT ![p] = "none"]
    /\ repeats' = repeats + 1
    /\ UNCHANGED <<vars, handled, asleep, losses, manual>>

-----------------------------------------------------------------------------
(* Calls over HTTP                                                          *)

ConfirmOrder(p, o) ==
    /\ CreateOrderWithTasks(p, o)
    /\ UNCHANGED <<handled, workflows, job, counts>>

ManualAllocate(p) ==
    /\ manual < MaxManual /\ manual' = manual + 1
    /\ SelectExpired(p)
    /\ UNCHANGED <<handled, workflows, job, losses, repeats>>

ManualComplete(p, t) ==
    /\ manual < MaxManual /\ manual' = manual + 1
    /\ UpdateTaskStatusCompleted(p, t)
    /\ UNCHANGED <<handled, workflows, job, losses, repeats>>

ManualStart(t) ==
    /\ StartTask(t)
    /\ UNCHANGED <<handled, workflows, job, counts>>

-----------------------------------------------------------------------------
\* What happens without anyone's doing once an event is committed.
Machinery ==
    \/ \E e \in EventType, t \in Task, n \in 1..MaxRequeues + 1 : Deliver(e, t, n)
    \/ \E t \in Task : SleepOver(t) \/ CompleteNotStarted(t)
    \/ \E p \in Worker : RunAllocationActivity(p)
    \/ \E p \in Worker, t \in Task : CompleteTaskByIDActivity(p, t)
    \/ \E p \in Proc : CallGoesOn(p)

Mishap ==
    \/ \E e \in EventType, t \in Task, n \in 1..MaxRequeues + 1 :
          Lose(e, t, n) \/ Repeat(e, t, n)
    \/ \E p \in Proc : CallFails(p) \/ AllocationFails(p) \/ ActivityTimesOut(p)

PipeNext ==
    \/ Machinery \/ Mishap
    \/ \E p \in Proc \ Worker :
          \/ \E o \in Order : ConfirmOrder(p, o)
          \/ ManualAllocate(p)
          \/ \E t \in Task : ManualComplete(p, t)
    \/ \E t \in Task : ManualStart(t)

PipeSpec == PipeInit /\ [][PipeNext]_pipeVars

Victim(p) == Deadlocked(p) /\ (CallFails(p) \/ AllocationFails(p))

\* Temporal, the outbox and the processes keep working, and Postgres resolves
\* a deadlock.  Each action runs only a bounded number of times, so weak
\* fairness of the whole leaves none of them enabled for ever.
MachineryFair == WF_pipeVars(Machinery \/ \E p \in Proc : Victim(p))

\* The kitchen staff start every task they are assigned.
KitchenSpec ==
    PipeSpec /\ MachineryFair /\ \A t \in Task : WF_pipeVars(ManualStart(t))

-----------------------------------------------------------------------------
(* Properties                                                               *)

\* A workflow that has ended has seen its task completed: neither the error
\* CompleteTaskByIDActivity swallows, nor a retry after an attempt whose
\* result was lost, nor a second workflow for the same event ends too early.
AutoCompleteSound == \A t \in finished : status[t] = "COMPLETED"

\* As long as the topic consumer loses no event, someone will complete a
\* STARTED task: its event is on its way, or a workflow has it in its timer,
\* its activity to run, or the call under way.
StartedTaskHasTimer ==
    losses = 0 => \A t \in Task : status[t] = "STARTED" =>
        \/ <<"TASK_STARTED", t, 1>> \notin handled
        \/ asleep[t] + due[t] > 0
        \/ \E p \in Worker : job[p] = "complete" /\ cur[p] = t

\* README: completion is automated by the Temporal timer.  A started task is
\* completed, whatever activities fail, time out and are tried again, and
\* whoever completes it by hand meanwhile, unless the topic consumer loses
\* an event.
StartedCompletes ==
    \A t \in Task :
        status[t] = "STARTED" ~> status[t] = "COMPLETED" \/ losses > 0

\* What the integration test of bulk orders waits for: once an order is
\* confirmed each of its tasks is assigned and completed, because the events
\* of the tasks before it make AllocateOnce come back for it.
EveryTaskCompletes ==
    \A t \in Task : status[t] = "UNASSIGNED" ~> status[t] = "COMPLETED"

-----------------------------------------------------------------------------
(* The inductive invariant behind AutoCompleteSound and StartedTaskHasTimer *)

\* An AutoCompleteTaskWorkflow knows of a start only from the TASK_STARTED row,
\* and waits for a call of CompleteTask only while that call is in its
\* transaction.
PipeInv ==
    /\ PipeTypeOK /\ AutoCompleteSound /\ StartedTaskHasTimer
    /\ \A t \in Task : asleep[t] + due[t] > 0 => status[t] \in {"STARTED", "COMPLETED"}
    /\ \A p \in Proc : job[p] = "complete" => pc[p] \in CompleteTx
=============================================================================
