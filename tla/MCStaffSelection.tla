--------------------------- MODULE MCStaffSelection ---------------------------
(***************************************************************************)
(* An instance of the staff selection for TLC: a newcomer and someone whose *)
(* shift began two seconds before.                                         *)
(***************************************************************************)
EXTENDS StaffSelection, TLC

CONSTANTS s1, s2

Shifts == (s1 :> -2) @@ (s2 :> 0)
Two == [s \in Staff |-> 2]
=============================================================================
