------------------------------- MODULE Channel -------------------------------
(***************************************************************************)
(* What each leg of the event path promises: a message that was accepted   *)
(* is settled, in any order, and never taken back.  The outbox dispatcher  *)
(* (rows to topic) implements it with delivery, the topic consumer (topic  *)
(* to workflows) with delivery or, after the faults LossNeedsFault counts, *)
(* a message it has dropped.                                               *)
(***************************************************************************)
CONSTANT Message

VARIABLES accepted, delivered

vars == <<accepted, delivered>>

Init == accepted = {} /\ delivered = {}

Accept(m) ==
    /\ m \notin accepted
    /\ accepted' = accepted \cup {m}
    /\ UNCHANGED delivered

Deliver(m) ==
    /\ m \in accepted \ delivered
    /\ delivered' = delivered \cup {m}
    /\ UNCHANGED accepted

Next == \E m \in Message : Accept(m) \/ Deliver(m)

Spec == Init /\ [][Next]_vars

FairSpec == Spec /\ \A m \in Message : WF_vars(Deliver(m))
=============================================================================
