-------------------------- MODULE MCThreatResponse --------------------------
(* ThreatResponse on small instances.  A unit of time is two seconds and a    *)
(* unit of threat ten points, so that the level decays by one per unit.      *)
EXTENDS ThreatResponse, TLC

Alarm == [name |-> "alarm", global |-> TRUE, ttl |-> 3]
Shot == [name |-> "shot", global |-> FALSE, ttl |-> 2]
AlarmAndShot == {Alarm, Shot}

\* Everybody in one pack, or nobody in any.
Pack == [n \in Npcs |-> "pack"]
Loners == [n \in Npcs |-> ""]

\* Whoever causes events is interchangeable.
Symmetry == Permutations(Actors)
=============================================================================
