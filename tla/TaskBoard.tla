------------------------------ MODULE TaskBoard ------------------------------
(***************************************************************************)
(* What the scheduler promises about tasks, without tables, locks, queue   *)
(* or handlers: a board of tasks that change hands in single steps.  A     *)
(* task is handed out only when its dependencies are completed and its     *)
(* counter and machine have a free slot, and only to skilled staff.        *)
(***************************************************************************)
EXTENDS Integers, FiniteSets

CONSTANTS Order, Task, Staff, None, OrderOf, CounterOf, MachineOf, DependsOn,
          HomeCounter, CounterCap, MachineCap, Skills

VARIABLES status, assignedTo

Init ==
    /\ status = [t \in Task |-> "NONE"]
    /\ assignedTo = [t \in Task |-> None]

Busy == {t \in Task : status[t] \in {"ASSIGNED", "STARTED"}}

Confirm(o) ==
    /\ \A t \in Task : OrderOf[t] = o => status[t] = "NONE"
    /\ status' = [t \in Task |-> IF OrderOf[t] = o THEN "UNASSIGNED" ELSE status[t]]
    /\ UNCHANGED assignedTo

Assign(t, s) ==
    /\ status[t] = "UNASSIGNED"
    /\ \A d \in DependsOn[t] : status[d] = "COMPLETED"
    /\ Cardinality({u \in Busy : CounterOf[u] = CounterOf[t]}) < CounterCap[CounterOf[t]]
    /\ Cardinality({u \in Busy : MachineOf[u] = MachineOf[t]}) < MachineCap[MachineOf[t]]
    /\ HomeCounter[MachineOf[t]] = CounterOf[t]
    /\ <<s, CounterOf[t]>> \in Skills
    /\ status' = [status EXCEPT ![t] = "ASSIGNED"]
    /\ assignedTo' = [assignedTo EXCEPT ![t] = s]

\* Assignments that were not started in time are taken back, several at once.
Withdraw(S) ==
    /\ \A t \in S : status[t] = "ASSIGNED"
    /\ status' = [t \in Task |-> IF t \in S THEN "UNASSIGNED" ELSE status[t]]
    /\ assignedTo' = [t \in Task |-> IF t \in S THEN None ELSE assignedTo[t]]

Start(t) ==
    /\ status[t] = "ASSIGNED"
    /\ status' = [status EXCEPT ![t] = "STARTED"]
    /\ UNCHANGED assignedTo

Complete(t) ==
    /\ status[t] = "STARTED"
    /\ status' = [status EXCEPT ![t] = "COMPLETED"]
    /\ UNCHANGED assignedTo

Next ==
    \/ \E o \in Order : Confirm(o)
    \/ \E t \in Task, s \in Staff : Assign(t, s)
    \/ \E S \in SUBSET Task : Withdraw(S)
    \/ \E t \in Task : Start(t) \/ Complete(t)

Spec == Init /\ [][Next]_<<status, assignedTo>>

=============================================================================
