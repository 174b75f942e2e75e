----------------------------- MODULE KitchenBoard -----------------------------
(***************************************************************************)
(* The scheduler implements the task board: the tasks table is the board,  *)
(* and the commit of a transaction is the step at which it changes.        *)
(***************************************************************************)
EXTENDS Kitchen

Board == INSTANCE TaskBoard WITH status <- status, assignedTo <- assignedTo

\* Every commit of ConfirmOrder, AllocateOnce, the requeue, StartTask and
\* CompleteTask is one step of the board, and every other statement none:
\* the counters in_use and pending_deps and the locks on them do what the
\* board says with the tasks themselves.
RefinesTaskBoard == Board!Spec

=============================================================================
