--------------------------- MODULE MCKitchenPipeline ---------------------------
(***************************************************************************)
(* Instances of the pipeline for TLC: one order of one or two tasks at     *)
(* one station, whose counter and machine take one task at a time.         *)
(***************************************************************************)
EXTENDS KitchenPipeline, TLC

CONSTANTS o1, t1, t2, c1, m1, s1

OneOrder == [t \in Task |-> o1]
AtStation == [t \in Task |-> c1]
OnMachine == [t \in Task |-> m1]
StationHome == [m \in Machine |-> c1]
OneSeat == [c \in Counter |-> 1]
OneSlot == [m \in Machine |-> 1]
TwoAtOnce == [s \in Staff |-> 2]
Everyone == Staff \X Counter

NoDeps == [t \in Task |-> {}]
=============================================================================
