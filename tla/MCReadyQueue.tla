----------------------------- MODULE MCReadyQueue -----------------------------
(***************************************************************************)
(* An instance of the ready queue for TLC: three tasks, 2 above 1 and 3.     *)
(***************************************************************************)
EXTENDS ReadyQueue, TLC

CONSTANTS api, worker

ThreeTasks == 1..3
Priorities == [t \in Task |-> IF t = 2 THEN 3 ELSE 1]
=============================================================================
