------------------------------ MODULE MCKitchen ------------------------------
(***************************************************************************)
(* Instances of the scheduler for TLC: one or two orders, three or four    *)
(* tasks, two stations with a counter and a machine each.                  *)
(***************************************************************************)
EXTENDS KitchenBoard, TLC

CONSTANTS o1, o2, t1, t2, t3, t4, c1, c2, m1, m2, s1, s2

OneOrder == [t \in Task |-> o1]

\* Fan-in: two counters work in parallel on t1 and t2, which t3 waits for.
FanInCounter == (t1 :> c1) @@ (t2 :> c2) @@ (t3 :> c1)
FanInMachine == (t1 :> m1) @@ (t2 :> m2) @@ (t3 :> m1)
FanInDeps == (t1 :> {}) @@ (t2 :> {}) @@ (t3 :> {t1, t2})
TwoStations == (m1 :> c1) @@ (m2 :> c2)
OneEach == [c \in Counter |-> 1]
OneSlot == [m \in Machine |-> 1]
Single == [s \in Staff |-> 1]
\* s1 can work at both counters, s2 at the second only.
Shared == {<<s1, c1>>, <<s1, c2>>, <<s2, c2>>}

\* Calls at different stations complete t1 and t2, which t3 and t4 both wait
\* for.
SharedCounter == [t \in Task |-> IF t = t2 THEN c2 ELSE c1]
SharedMachine == [t \in Task |-> IF t = t2 THEN m2 ELSE m1]
SharedDeps == [t \in Task |-> IF t \in {t3, t4} THEN {t1, t2} ELSE {}]

\* Room for two at every counter, on every machine, for every member of staff.
TwoSeats == [c \in Counter |-> 2]
TwoSlots == [m \in Machine |-> 2]
Double == [s \in Staff |-> 2]
Everyone == Staff \X Counter

\* Two orders: t3 waits for t1 and t2, and competes with t4 for a counter.
KitchenOrders == [t \in Task |-> IF t = t4 THEN o2 ELSE o1]
KitchenCounter == [t \in Task |-> IF t \in {t1, t2} THEN c1 ELSE c2]
KitchenMachine == [t \in Task |-> IF t \in {t1, t2} THEN m1 ELSE m2]
KitchenDeps == [t \in Task |-> IF t = t3 THEN {t1, t2} ELSE {}]
KitchenCap == (c1 :> 2) @@ (c2 :> 1)

\* Independent tasks: nothing orders the completions of t1, t2 and t3.
NoDeps == [t \in Task |-> {}]

Symmetry == Permutations(Proc)
=============================================================================
