------------------------------- MODULE MCMind -------------------------------
(* Mind with the three sets of weights the code has, in tenths; units as in MCThreatResponse, *)
(* but for rates scaled down and an energy that is used up after a few units of time.         *)
EXTENDS Mind

Alarm == [name |-> "alarm", global |-> TRUE, ttl |-> 3]
Shot == [name |-> "shot", global |-> FALSE, ttl |-> 2]
AlarmAndShot == {Alarm, Shot}
Loners == [n \in Npcs |-> ""]

Default == [threat |-> 10, needs |-> 0, emotion |-> 0]
Docile == [threat |-> 10, needs |-> 10, emotion |-> 10]
Aggressive == [threat |-> 15, needs |-> 7, emotion |-> 8]
AllPersonalities == {Default, Docile, Aggressive}
=============================================================================
