------------------------------- MODULE MCOutbox -------------------------------
(***************************************************************************)
(* An instance of the outbox for TLC: three events, two dispatchers.       *)
(***************************************************************************)
EXTENDS Outbox

ThreeEvents == 1..3
=============================================================================
