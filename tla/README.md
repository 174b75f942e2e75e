# Kangaroo Paw: a verification project

TLA+ models of the kitchen scheduling engine in `src/`: orders are exploded
into tasks, tasks wait for their dependencies, and concurrent processes hand
them out to staff at counters and machines. The modules are checked with TLC
on small kitchens, and most of the safety properties are proved with TLAPS for
every kitchen, topic and menu.

## The system

| Component | State | Operations | Talks to |
|---|---|---|---|
| Scheduler: `internal/application/{order,allocation,task}_service.go` over `internal/repository` | tables `orders`, `tasks`, `task_dependencies`, `counters`, `machines`, `staff`, `domain_events` | `ConfirmOrder`, `AllocateOnce` (with the requeue of stale assignments), `StartTask`, `CompleteTask` | Postgres transactions and row locks, ready queue |
| Recipe analyzer: `order_dependency_analyzer.go`, `recipe_repo.go` | none (reads `recipe_steps`, `recipe_step_dependencies`, `machines`) | `inferRecipeTaskDeps` | called by `ConfirmOrder` |
| Ready queue: `internal/queue` | sorted set `tasks:pending` | `Enqueue`, `PopTopN` | called by the scheduler, outside Postgres transactions |
| Outbox dispatcher: `internal/outbox`, `event_repo.go` | columns `published_at`, `next_retry_at`, `attempts` of `domain_events` | `DispatchOnce` every 300 ms | Kafka |
| Kafka topic: `internal/messaging` | topic, consumer offset | `Publish`, `Consume` | topic consumer |
| Consumer and workflows: `internal/temporalx`, `internal/orchestrator` | running workflows | start a workflow per event; allocate; complete after `estimate_secs` | scheduler |
| Staff selection: `staff_service.go` | none | `pickStaff` | called by `AllocateOnce` |
| API, configuration, `kafka-tail` | none | decoding, wiring | scheduler |

What makes it hard:

- several API servers and workers run the handlers concurrently on one
  database under READ COMMITTED, and rely on row locks, `SKIP LOCKED` and
  conditional updates;
- Redis and Postgres are written one after the other, inside and outside
  transactions, and nothing undoes the Redis half;
- `ConfirmOrder` is four transactions and a loop;
- assignments expire while staff start them;
- events are delivered at least once by the outbox and may be dropped by the
  consumer.

What makes it correct, part by part: no slot of a counter or machine is leaked
or handed out twice; no task is handed out before its dependencies; a ready
task is always findable; events tell the state of the tasks; an order's status
says what its tasks show; no event is lost in the outbox; the inferred
dependencies can be worked off. `PROJECT.json` lists the hazards line by line
with the properties that cover them.

## Modules

| Module | Content |
|---|---|
| `Kitchen` | the scheduler, statement by statement; its properties and inductive invariants |
| `TaskBoard` | the abstract specification: what happens to tasks, in single steps |
| `KitchenBoard` | `Kitchen` implements `TaskBoard` (`RefinesTaskBoard`) |
| `KitchenPipeline` | `Kitchen` driven by its own events: bridge, workflows, activities, HTTP calls |
| `Outbox` | the dispatcher and `Publish` |
| `TopicConsumer` | `Consume`, the reader's offsets, the bridge's handler |
| `Channel` | the abstract specification of one leg of the event path |
| `ReadyQueue` | scores, aging, boost, `PopTopN` |
| `StaffSelection` | `pickStaff`, `staffScore`, the statistics of staff |
| `DependencyAnalyzer` | the first half of `ConfirmOrder` |
| `KitchenProofs` | proofs about the scheduler: resources, dependencies, the task board |
| `KitchenOrderProofs` | proofs about the scheduler: orders and row locks, events and ready queue |
| `KitchenPipelineProofs`, `OutboxProofs`, `TopicConsumerProofs`, `DependencyAnalyzerProofs`, `ReadyQueueProofs`, `StaffSelectionProofs` | proofs about the module of that name |
| `MC...` | instances for TLC (that of `TopicConsumer` needs only its cfg) |

How they fit together:

```
DependencyAnalyzer --tasks, links--> Kitchen <--implements-- KitchenBoard --> TaskBoard
StaffSelection, ReadyQueue: choices that Kitchen leaves open
Kitchen --domain_events--> Outbox --topic--> TopicConsumer --workflows--> KitchenPipeline --> Kitchen
                           implements Channel  implements Channel   uses Channel
```

`KitchenPipeline` EXTENDS `Kitchen`: it calls its actions and adds what happens
between a committed row of `domain_events` and the next call. It does not
contain the batches of `Outbox` and the offsets of `TopicConsumer` but the
`Channel` both are shown to implement (`ImplementsChannel` in either module),
plus the faults their own properties bound: an event may be lost (`Lose`, with
`LossNeedsFault`) or handled again (`Repeat`, with `DuplicatesNeedFaults` and
`RepeatsNeedFailure`).

### Kitchen

A process (`Proc`) is one call in progress; `pc` is the SQL statement or Redis
command it runs next, `cur`, `batch`, `pick` are its Go variables, `orderTo` is
the order status its open transaction has written. `lock` maps every row to the
transaction that holds it. The tables are functions from primary keys to
columns; `readyQueue` is the set of members of the sorted set.

| Handler | Actions |
|---|---|
| `ConfirmOrder` (from the first write) | `CreateOrderWithTasks`, `InsertTaskDependencies`, `RecalculatePendingDepsForOrder`, `ListOrderReadyTasks`, `EnqueueReady`, `InsertDomainEventNoTx`, `ConfirmDone` |
| `requeueExpiredAssignedTasks` | `SelectExpired`, `RequeueStaff`, `RequeueCounter`, `RequeueMachine` (per task), `RequeueCommit`, `RequeueEnqueue` |
| `AllocateOnce` | `PopTopN`, `LockTaskForAssignment`, `LockCounter`, `FindEligibleStaff`, `LockMachineForTask`, `LockStaff`, `MarkOrderInProgressIfConfirmed`, `AllocCommit`, `RecheckTask`, `Reenqueue` |
| `StartTask` | `StartTask` (one row, one transaction) |
| `CompleteTask` | `UpdateTaskStatusCompleted`, `ReleaseCounter`, `ReleaseMachine`, `UpdateStaffEfficiencyAndActive`, `LockChild`, `DecrementDependentPendingDeps`, `EnqueueChild`, `MarkOrderPartCompletedIfNotDone`, `CountRemaining`, `CompleteOrder`, `CompleteCommit` |
| failures | `Abort` (the database ends a transaction with an error), `Crash` (the call ends where it is), `RecheckFails` (errors `AllocateOnce` ignores) |

Abstractions:

- The writes of a transaction are applied at its commit. Every row it writes is
  locked until then, so no other transaction can read an uncommitted value or
  write the row; where a transaction reads its own writes (`ReadyChildren`,
  `OtherTasksDone`) the model says so.
- An `UPDATE` whose condition does not match takes no lock. The condition is
  evaluated when the row is free, as Postgres re-evaluates it after a wait.
- The share locks of foreign-key checks are left out: they conflict with no
  lock the handlers take for the rows concerned.
- Scores in the queue are left out: any `PopLimit` members may be the lowest.
  `pickStaff` may choose any eligible staff. Shifts, breaks and `is_up` are
  columns no handler writes: `FindEligibleStaff` and `LockMachineForTask` may
  fail to find what the model's tables hold.
- Time is left out: any unstarted assignment may be older than the TTL.
- `StartTask`, and a task's completion, may be called at any time; the
  Temporal workflows that call them only restrict this.
- A process is reused for the next call, so `Proc` bounds concurrency, not the
  number of calls.

### TaskBoard

Tasks are confirmed, assigned (dependencies completed, a free slot at counter
and machine counted from the tasks themselves, skilled staff), withdrawn,
started and completed. There are no counters in columns, locks, queues or
calls: the implementation must get from those exactly these steps. The
refinement mapping is the identity on `status` and `assignedTo`.

### Outbox

One transaction per `DispatchOnce`: lock the lowest `BatchSize` due rows that
no one holds, write them to Kafka in order, mark each published (`PublishAcked`)
or, after `MaxTries` failed writes (`PublishFails`), for retry; `Commit` makes
the marks visible, `Rollback` undoes them but not the messages. A failed write
may have stored the message. `RetryDue` stands for the passing of
`next_retry_at`; `attempts` and the length of the backoff are abstract.
`ImplementsChannel` maps the rows inserted to `accepted` and the messages in the
topic to `delivered`.

### TopicConsumer

`pc` is where the only process of the consumer group is: `down`, in
`FetchMessage`, committing (the second half of `ReadMessage`, which commits the
offset before it returns) or in `HandleEvent`. `log`, `committed` and `position`
are the partitions, the group's offsets and the reader's.

| Code | Actions |
|---|---|
| `main` | `Start`; `Crash` and `ReadFails` end the process |
| `KafkaTopic.Consume` | `FetchMessage`, `ReadMessage` (commit, `json.Unmarshal`), `Handled`, `HandlerFails` (three attempts, then the event is dropped) |
| `HandleEvent` | one more workflow in `started`; a failed call may have started one all the same |

The back-off between attempts is left out. A rebalance of the group is not
modelled: docker-compose runs one consumer. In `ImplementsChannel` a message is
delivered when a workflow has been started for it or it is `Lost`;
`LossNeedsFault` says how few those are. Its properties about loss are for
`KAFKA_FROM_BEGINNING` true (see below for the other value).

### KitchenPipeline

| Code | Actions |
|---|---|
| outbox, topic and consumer | `Deliver`, `Lose`, `Repeat` |
| `HandleEvent` of the bridge | `StartWorkflow`: `asleep` or `wakeups` |
| `AllocationWorkflow`, `RunAllocationActivity`, orchestrator | `RunAllocationActivity`, then the steps of `AllocateOnce` (`CallGoesOn`) |
| `AutoCompleteTaskWorkflow` | `SleepOver`, `CompleteTaskByIDActivity`, `CompleteNotStarted`, then the steps of `CompleteTask` |
| Temporal | `Reschedule` after `CallFails` and `ActivityTimesOut`: the default retry policy has no limit |
| HTTP handlers | `ConfirmOrder`, `ManualAllocate`, `ManualComplete`, `ManualStart` |

`Worker` are the calls activities make; the other members of `Proc` are calls
over HTTP. `job[p]` is what waits for the result of a call: after a timeout the
call goes on and nobody hears its result. A call of `CompleteTask` that returns
an error is rescheduled; `AllocateOnce` ignores the error of a transaction
(`AllocationFails`), so nothing is. `Deadlocked` is Postgres' cycle of waiting
transactions. With `Staffed` everyone is on duty and all machines are up, so
that an allocation fails only for reasons the tables show.

### ReadyQueue

Scores are integers, time is ticks, `stamped` records when a score was computed
and with which boost. With `Redis` all processes share one queue, without it
each has its own (`InMemoryReadyQueue`). A transaction of `AllocateOnce` is one
step (`Settle`) whose outcome is fixed by `Blocked`: the tasks whose counter,
machine or staff are never free.

### StaffSelection

The scores of `staffScore` are compared as exact fractions; efficiency is in
thousandths, the scale of its column. `view` are the rows a transaction has read
and may use after others have changed them. A task is a slot that is used
again. A value the column does not hold makes `CompleteTask` fail.

### DependencyAnalyzer

The loops over items, units and steps, `addEdge`, explicit rows, assembly
fan-in and serialization by `previousByMachine`. Descriptions are abstracted to
the set of assembly-like steps; tasks are named by item, unit and step instead
of slice indices. Errors end the computation before anything is written.
`KitchenCanTakeIt` is what `Kitchen` assumes of its constants `Task` and
`DependsOn` (assumption `Recipes`).

## Runs

| Run | Instance | Shows |
|---|---|---|
| `fanin` | 1 order of 4 tasks, t3 and t4 both after t1 and t2, 2 stations with room for two, 2 staff, 3 calls, 1 fault | `TypeOK`, `NoLockCycle`, `OrderNeverRegresses` |
| `kitchen` | 2 orders, 4 tasks, t3 after t1 and t2 (the second order competes with it for a counter with one seat), 2 calls, 1 requeue per task, 1 fault | `ResourceAccounting`, `CapacityRespected`, `DependencyGating`, `OrderStatusSound`, `OutboxMatchesState`, `NoReadyTaskStranded`, `RefinesTaskBoard` |
| `outbox` | 3 events, 2 dispatchers, batches of 2, 3 attempts, 4 faults | `TypeOK`, `PublishedWasSent`, `DuplicatesNeedFaults`, `PublishedIsFinal`, `EventuallyPublished`, `ImplementsChannel` |
| `consumer` | 2 messages and a malformed one, 2 partitions, 4 failed calls, 2 exits | `TypeOK`, `LossNeedsFault`, `RepeatsNeedFailure`, `ImplementsChannel` |
| `pipeline` | 1 task, 2 workers and a client, 1 lost event, 2 repeats, failures or timeouts, 1 manual call, 1 requeue, 1 crash | `PipeTypeOK`, `AutoCompleteSound`, `StartedTaskHasTimer`, `StartedCompletes` |
| `ready_queue` | 3 tasks of 2 priorities, one blocked, pops of 2, 3 ticks, 1 requeue | `TypeOK`, `OvertakingHasCause`, `PopTakesItsFill`, `NoStarvation` |
| `staff_selection` | 2 staff, 2 tasks, estimates of 1 and 999, 3 completions | `TypeOK`, `EfficiencyFits`, `NeverPicksTheWorse`, `OnTimeEarnsNothing` |
| `recipes` | every recipe of up to 4 steps, machines with 1 and 2 slots, explicit rows of all kinds, up to 2 units | `TypeOK`, `LinksWithinUnit`, `FallbackDrains`, `SharedMachineSerialized`, `KitchenCanTakeIt` |
| `staff_limit` | 2 calls at different counters | `StaffBelowMaxParallel` is violated |
| `order_done` | 3 independent tasks, 2 calls | `OrderCompletedWhenAllDone` is violated |
| `requeue_crash` | 1 requeue, 1 crash | `RequeueReachesQueue` is violated |
| `bulk_orders` | 2 tasks at one station, 2 workers, no fault of any kind | `EveryTaskCompletes` is violated |

Bounds. Races of the scheduler are between two transactions on the rows they
share, and a third call that undoes or repeats: `fanin` has three calls on
one order, two of whose tasks have their children in common, `kitchen` two calls
and two orders, of which one may be worked on while the other is still being
linked, with the requeue of stale assignments. One requeue per task is enough for a task to
be assigned, withdrawn, assigned again and completed. One fault per run is
enough because a crash removes a call and leaves only the tables and the queue.
`PopLimit` is below the number of tasks, so that calls share the queue. Four
faults in `outbox` exhaust the attempts of one event and still roll a batch
back; four failed calls in `consumer` drop one event and fail once more for
another. The `pipeline` has one task because its properties are about the
events, workflows and calls of one task; two repeats allow a timeout after a
lost result. Processes are interchangeable in `MCKitchen`, hence its symmetry
set; runs with liveness properties use none. `ready_queue`, `staff_selection`
and `recipes` end or run out of bounds, and `consumer` and the pipeline come to
rest when every event is handled, so deadlock is not checked there; in the
others it is.

Conditions in the properties, each because the code does not give more:

- `NoReadyTaskStranded` needs `faults = 0`: popped and requeued ids are held in
  memory only (finding `requeue_crash`). Rollbacks do not count as faults.
- `NoLockCycle` leaves out calls in the requeue, which locks staff, counter and
  machine in another order than `AllocateOnce` and `CompleteTask`, and allows
  for one statement: the `UPDATE` of `DecrementDependentPendingDeps` names no
  order, so two completions with two children in common may each lock one and
  wait for the other (task_lifecycle_repo.go:72; the run `fanin`
  reaches this). Postgres then aborts one transaction (`Abort`), and the other
  properties are checked with it.
- `StartedTaskHasTimer` and `StartedCompletes` allow for a lost event: only the
  event `TASK_STARTED` leads to a completion.
- `LossNeedsFault` needs `FromBeginning`.
- `NoStarvation` needs fewer blocked tasks than `PopLimit`, and one queue.
- `EfficiencyFits` needs estimates below 1000 seconds.

### Fairness

- `Outbox`: the ticker of `Run` calls `DispatchOnce` for ever and its statements
  return (weak fairness of `Dispatch` per dispatcher); time passes (weak fairness
  of `RetryDue`). Failures are finitely many: an outage ends.
- `TopicConsumer`: `Consume` is a loop (weak fairness); the reader has a
  goroutine per partition and passes none over for ever (strong fairness of
  `FetchMessage`). That an ended process is started again (`Start`) is assumed
  of the operator: docker-compose sets no restart policy.
- `KitchenPipeline`: Temporal, the outbox and the processes keep working and
  Postgres resolves a deadlock (weak fairness of `Machinery` and `Victim`
  together: every action of it runs a bounded number of times, so none of them
  stays enabled for ever). The staff start what they are assigned (weak fairness
  of `ManualStart`). Nobody is bound to call the API, and no timer calls
  `AllocateOnce`.
- `ReadyQueue`: events keep coming, so the worker calls `AllocateOnce` again and
  again, and a call reaches every id it has popped.

## What differs from the documents

- `staff_limit`: README.md:54, "below max parallel". `FindEligibleStaff` reads
  without a lock, and the row `LockStaff` returns is not looked at.
- `order_done`: README.md:39, "`COMPLETED` (when all tasks are completed)".
  Two transactions that complete the last two tasks of an order that is
  already `PART_COMPLETED` do not meet at any lock, and each counts the other's
  task as open.
- `requeue_crash`: README.md:60, "atomically requeued". The database half is
  atomic, the queue half follows after the commit.
- `bulk_orders`: `internal/integration/bulk_orders_test.go:57` expects every
  order to complete while it starts assigned tasks only. A popped id is
  invisible while its transaction runs: the `AllocateOnce` woken by the event
  that freed the counter finds the queue empty, and the one that puts the id
  back writes no event. Another event or a call of the API would wake it.

Gaps the models show in their guards, which no run states as a property:

- `ConfirmOrder` returns an error after its first commit although the order
  exists; a second request with the same external order id violates the unique
  constraint, and nothing enqueues the tasks (order_service.go:89; README.md:23).
- With `KAFKA_FROM_BEGINNING=false`, as docker-compose.yml:136 sets it, events
  published before the first start of the consumer are skipped
  (kafka_topic.go:43; `StartOffset`).
- A lost `TASK_STARTED` event leaves its task `STARTED`: nothing else starts its
  timer (kafka_topic.go:127; README.md:30).
- The requeue of stale assignments is the first step of `AllocateOnce`, which
  runs only for an event or an API call: after the last event an unstarted
  assignment stays (allocation_service.go:13; README.md:60).
- A score is computed at the `Enqueue` and not refreshed while the task waits:
  one enqueued later carries the waiting time it has by then, and is popped
  before one whose `basePriority + agingFactor * waitTime` is higher by now
  (priority_service.go:5; README.md:57). `OvertakingHasCause` says what holds.
- Without `REDIS_ADDR` each process has a queue of its own, so the worker never
  sees what the API server enqueues (cmd/api/main.go:29,
  cmd/temporal-worker/main.go:31).
- The boost of a requeued task is gone once it was popped and put back
  (allocation_service.go:99).

## Proofs

The proofs about the scheduler hold for every set of orders, tasks, counters,
machines, staff and calls, any capacities, skills and recipes that satisfy the
named assumptions of `Kitchen` (`FiniteTables`: the set of tasks is finite and
the limits are numbers; `ForeignKeys`; `Recipes`: an order has a task,
dependencies stay within the order and are not reflexive; `DistinctKeys`);
those about the other modules under `OutboxConstants`, `ConsumerConstants`,
`RecipeRows`, `QueueConstants` and `StaffConstants`, which give the constants
their types and little else: the efficiency of a newcomer, 1, fits its column,
and the table of staff is finite. TLC checks every inductive invariant below on the instances of
the runs, as an `INVARIANT` in place of the properties it strengthens (`ReadyInv`
with `Redis` true and false).

Scheduler:

- `IInv` (`KitchenProofs`) strengthens `ResourceAccounting` and
  `CapacityRespected` by what each call knows: the task of an open transaction
  is locked and in the status the transaction found (`HeldTasks`), the counter
  and machine it has checked are locked and still have room (`RoomKept`), only
  open transactions hold locks, local variables fit the next statement.
  `ResourceAccounting` alone is not inductive: a commit increments `in_use` for
  a task it assumes to be `UNASSIGNED`. Theorems `TypeCorrect`,
  `AccountingCorrect`, `CapacityCorrect`.
- `DepsInv` (`KitchenProofs`) strengthens `DependencyGating`: a task the
  queue or any call knows of belongs to an order all of whose dependencies are
  linked, with `pending_deps` counting the open ones; until then `ConfirmOrder`
  alone works on the order. Theorem `GatingCorrect`.
- `ImplementsTaskBoard`: every commit is a step of the board and every other
  statement a stutter, from `IInv` and `DepsInv`.
- `OrderInv` (`KitchenOrderProofs`) adds to `OrderStatusSound` what an open
  transaction has written to its order but not committed (`OrderWrite`): the row
  is locked, and the status it is to get fits the tasks as they will be.
  Theorems `OrderStatusCorrect`, `OrdersOnlyAdvance`.
- `LocksInv` says which rows a call may hold at each statement (`MayHold`):
  those of the statements before it. A call in a group that wait for each other
  therefore waits for one further down the order counter, machine, staff,
  children, order or, at the children only, for one as far (`WaitsUp`). Whoever
  holds the order row waits for nothing, so no call of the group waits for it;
  following the waits from any call leads to the children, where those that
  remain wait for each other. Theorem `LockOrderCorrect`.
- `EventsInv` (`KitchenOrderProofs`) adds to `OutboxMatchesState` who has still
  to write a `TASK_READY` row: one `ConfirmOrder` for each task without
  dependencies (`Owed`), and for the others the completion of their last
  dependency; a row written says that no dependency is open, so there is no
  second. Theorem `OutboxRowsCorrect`.
- `QueueInv` adds to `NoReadyTaskStranded` the completions that have lowered the
  `pending_deps` of a child and not committed (`Releasing`): the child's row is
  theirs, and it is in the queue, in the hands of a call (`Findable`) or still
  on their list. Who pops it before the commit finds the row locked and puts it
  back. Theorem `NoReadyTaskLost`.

Event path:

- `PipeIsKitchen`: a step of the pipeline is a step of the scheduler or changes
  only events, workflows and timers. Whatever is proved of `Spec` thus holds of
  `PipeSpec`; `PipelineSafe` draws the conclusion for two invariants.
- `PipeInv` (`KitchenPipelineProofs`): a timer or an activity that is due belongs
  to a task that was started, and a workflow waits for a call only while the
  call is in its transaction. Theorems `PipeTypeCorrect`, `AutoCompleteCorrect`,
  `StartNotForgotten`.
- `OutboxInv` (`OutboxProofs`): a row is in one batch at most, and the copies of
  an event that no fault accounts for are the one recorded by its row or its
  batch. Theorems `OutboxTypeCorrect`, `NothingLost`, `DuplicatesBounded`,
  `PublishedStays`.
- `ConsumerInv` (`TopicConsumerProofs`): a message has one place in the topic
  (`OnePlace`); the reader is never behind the group's offset, and ahead of it
  only by the message of a commit under way or by what it skipped at its first
  start (`ReaderOK`); workflows are started only for messages the offset has
  passed (`StartsOK`); each lost message has an exit or three failed calls of
  its own, and those of the message in hand are not spent yet (`LossOK`).
  Cardinalities come from `FiniteSetTheorems`. Theorems `ConsumerTypeCorrect`,
  `RepeatsBounded`, `LossBounded`.
- `OutboxIsChannel`, `ConsumerIsChannel`: the safety half of `ImplementsChannel`
  in either module, step by step; for the consumer with `FromBeginning`.

Dependency analyzer:

- `AnalyzerInv` (`DependencyAnalyzerProofs`): links stay within a unit and lead
  to earlier steps (`LinksDescend`), `previousByMachine` holds the latest step
  the loop has passed (`PreviousIsLatest`), and of two steps on one slot the
  later is linked to the earlier or to one between (`Chained`). Theorems
  `AnalyzerTypeCorrect`, `LinksCorrect`.
- `RecipesCorrect` joins the analysis to the proofs about the scheduler: every
  accepted order satisfies their assumption `Recipes`. An `INSTANCE` of `Kitchen`
  cannot state this, because its constants would have to be variables of the
  analysis; `KitchenCanTakeIt` repeats the assumption in these variables.
- `FallbackCorrect` and `SerializationCorrect` speak of chains of links of any
  length. They argue by the least step of a set (`LeastStep`, from the
  well-foundedness of < on the naturals) and need no induction over the links.

Ready queue:

- `ReadyInv` (`ReadyQueueProofs`): a ready task is in one place, a queue or a
  hand, and UNASSIGNED while it is there (`OnePlace`). So whoever enqueues it
  finds it in no other queue, and the score a queue holds is the one of its last
  `Enqueue` (`ScoresOK`), with Redis and without. Theorem `ReadyTypeCorrect`.
- `OvertakingCorrect`: a pop takes nothing while a task of a lower score stays
  (`NothingBefore`), and of two scores of different age the lower belongs to the
  higher priority, but for the time since they were computed and a boost
  (`ScoresCompare`).
- `PopFillCorrect`: `PopTopN` takes the tasks with fewer than `PopLimit` before
  them. That these are neither more than `PopLimit` (`FirstAtMost`) nor, when
  some are left, fewer (`FirstAtLeast`) follows from the number of tasks before a
  task growing along the order (`AheadGrows`), without induction over the queue.

Staff selection:

- `StaffInv` (`StaffSelectionProofs`): `active_tasks` is the number of tasks a
  person holds (`ActiveCounts`), without which the last conjunct of `TypeOK` is
  not inductive: the completion of one task must leave the other's share. What a
  transaction has read are numbers, however old. Theorem `StaffTypeCorrect`.
- `EfficiencyCorrect` and `OnTimeCorrect`: the new efficiency is the rounded mean
  of the old one and the performance, 0.85 to 0.15, so it is below any bound that
  this mean keeps (`RoundedMean`). The hypothesis of `EfficiencyCorrect` is that
  the performance of an estimate done in one second fits the column: estimates
  below 1000 seconds for NUMERIC(6,3).
- `PickCorrect`: over the product of the two lengths of shifts every term of the
  score is better (`BetterSum`).
- `SomeonePickedCorrect`: fractions are compared transitively, so of finitely
  many eligible staff one is best. It is what lets `Kitchen` choose any of them.

Only model-checked:

- liveness (`EventuallyPublished`, `StartedCompletes`, `NoStarvation`, the
  fairness half of `ImplementsChannel`), which is out of the prover's reach.

Every invariant and every action property of the passing runs is a theorem. The
four violated properties are false, so a counterexample is all there is to them.

No module uses recursive operators.

## Not modelled

- Decoding and status codes of the HTTP API, `GetTask`, `Health`; configuration,
  connections and migrations: they read, format or open things.
- `kafka-tail`, a debugging tool that prints the topic, and `InMemoryTopic`,
  which no program of the repository uses.
- Rebalances of the consumer group, the lengths of back-offs and timeouts, and
  the overflow of the outbox's back-off after some 96,000 attempts.
- Keyword matching of step descriptions, beyond its result.
- Floating point: scores are exact integers and fractions here, `float64` in the
  code. Scores that differ by less than its precision may compare otherwise.
