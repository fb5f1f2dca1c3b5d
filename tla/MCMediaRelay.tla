---------------------------- MODULE MCMediaRelay ----------------------------
(* Specs for MediaRelay, and a check of its closed form of the port partition. *)
EXTENDS MediaRelay

\* A cluster-local relay, two behind load balancers, and two on the host network
\* of which the second takes its address from the profile.
Local == [replicas |-> 1, start |-> 1, end |-> 3, override |-> Nothing,
          address |-> None, lb |-> FALSE, host |-> FALSE]
Balanced == [Local EXCEPT !.replicas = 2, !.lb = TRUE]
Hosted == [Local EXCEPT !.replicas = 2, !.host = TRUE,
                        !.override[0] = CHOOSE a \in Address : TRUE]
Specs == {Local, Balanced, Hosted}

\* The loop of partition_range: `current` at the start of round i.
Loop(s) == LET current[i \in 0..s.replicas] ==
                   IF i = 0 THEN s.start ELSE current[i - 1] + Count(s, i - 1)
           IN current

\* FirstPort is what the loop computes, for every range up to 12 ports.
ASSUME PartitionLoop ==
    \A start \in 1..3, ports \in 1..12 : \A n \in 1..ports :
        LET s == [replicas |-> n, start |-> start, end |-> start + ports - 1]
        IN \A i \in 0..n : FirstPort(s, i) = Loop(s)[i]
=============================================================================
