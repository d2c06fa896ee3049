---------------------------- MODULE MCPopulation ----------------------------
(* Population on small instances. *)
EXTENDS Population, TLC

\* A lone NPC, and a pack of leaders and followers.
Loner == [group |-> "", role |-> "follower"]
Pack == [group : Groups, role : {"leader", "follower"}]
PackAndLoner == Pack \cup {Loner}

Symmetry == Permutations(Clients) \cup Permutations(Ids)
=============================================================================
