---------------------------- MODULE MCSIPGateway ----------------------------
(* Specs for SIPGateway: behind a load balancer, or local to the cluster. *)
EXTENDS SIPGateway

Balanced == [address |-> None, internal |-> None, lb |-> TRUE]
Local == [address |-> None, internal |-> CHOOSE a \in Address : TRUE, lb |-> FALSE]
Specs == {Balanced, Local}
\* One gateway whose spec stays: only addresses change.
Unedited == {Balanced}
=============================================================================
