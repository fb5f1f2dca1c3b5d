------------------------------ MODULE RelayBoard ------------------------------
(***************************************************************************)
(* What a MediaRelay promises to the SIPGateways that refer to it: the     *)
(* relays its status lists have been provisioned, that is, their Service   *)
(* and Deployment are applied, and once relays are listed some always are. *)
(* A replica is never taken away: the operator deletes no object.          *)
(*                                                                         *)
(* MediaRelay implements this specification; SIPGateway is composed with   *)
(* it.                                                                     *)
(***************************************************************************)
EXTENDS Naturals

CONSTANT MaxReplicas  \* bound on the replicas of the MediaRelay

Replica == 0..(MaxReplicas - 1)

VARIABLES
    provisioned,  \* replicas whose Service and Deployment exist
    listed        \* replicas in the relay list of the MediaRelay's status

board == <<provisioned, listed>>

BoardInit == provisioned = {} /\ listed = {}

\* The first n replicas, as every loop over them has it.
First(n) == {i \in Replica : i < n}

Provision(n) ==
    /\ provisioned' = provisioned \cup First(n)
    /\ UNCHANGED listed

Report(n) ==
    /\ First(n) \subseteq provisioned
    /\ listed' = First(n)
    /\ UNCHANGED provisioned

BoardNext == \E n \in 1..MaxReplicas : Provision(n) \/ Report(n)

BoardSpec == BoardInit /\ [][BoardNext]_board
=============================================================================
