-------------------------------- MODULE Mind --------------------------------
(***************************************************************************)
(* What goes on in an NPC beside its threat: needs, emotion, personality   *)
(* and the arbitration between the three.  Refines every action of         *)
(* ThreatResponse.  The decision uses the needs and the emotion of the     *)
(* tick before; then come memory, needs and emotion, in this order.        *)
(*                                                                         *)
(* The one need is energy, the one emotion fear; the blackboard shows both *)
(* as the components have them.                                            *)
(***************************************************************************)
EXTENDS ThreatResponse

CONSTANTS Personalities,  \* records of weights [threat, needs, emotion]
          MaxEnergy, EnergyDecay, FearRise, FearDecay,  \* per unit of time
          MaxFear         \* bound: fear has none in the code

ASSUME MindAssumption ==
  /\ MaxEnergy \in Nat \ {0} /\ EnergyDecay \in Nat \ {0}
  /\ FearRise \in Nat \ {0} /\ FearDecay \in Nat \ {0} /\ MaxFear \in Nat \ {0}
  /\ \A p \in Personalities : p.threat \in Nat /\ p.needs \in Nat /\ p.emotion \in Nat

VARIABLES
  weights,  \* of each NPC, as long as it lives
  energy,   \* needs component and need_lowest_val
  fear,     \* emotion component and emotion_dominant_val
  winner    \* decision_winner

mindVars == <<weights, energy, fear, winner>>
mindedVars == <<vars, mindVars>>

MindInit ==
  /\ Init
  /\ weights \in [Npcs -> Personalities]
  /\ energy = [n \in Npcs |-> MaxEnergy]
  /\ fear = [n \in Npcs |-> 0]
  /\ winner = [n \in Npcs |-> None]

\* calcNeedUrgency, of 10
Urgency(current) == ((MaxEnergy - current) * 10) \div MaxEnergy

\* Mistake: at a tie the threat loses.
ArbitrateLast(w, threat, need, emotion) ==
  LET t == threat * w.threat
      u == need * w.needs
      e == emotion * w.emotion
  IN  IF e >= t /\ e >= u THEN "emotion" ELSE IF u >= t THEN "needs" ELSE "threat"

\* Center.Evaluate: the greatest weighted score; at a tie threat before needs before emotion.
Arbitrate(w, threat, need, emotion) ==
  LET t == threat * w.threat
      u == need * w.needs
      e == emotion * w.emotion
  IN  IF e > t /\ e > u THEN "emotion" ELSE IF u > t THEN "needs" ELSE "threat"

Capped(f) == IF f > MaxFear THEN MaxFear ELSE f

\* Mistake: emotion comes before memory and sees what was remembered before this tick.
FeelFirst(n) ==
  IF memory[n] # <<>> THEN Capped(fear[n] + FearRise * lag)
  ELSE Minus(fear[n], FearDecay * lag)

\* EmotionComponent.Tick, after MemoryComponent.Tick has written memory_threat_value: every
\* memory is one of a threat, and of a value above zero.
Feel(n) ==
  IF memory'[n] # <<>> THEN Capped(fear[n] + FearRise * lag)
  ELSE Minus(fear[n], FearDecay * lag)

\* TickThink with the other components of the NPC.
MindThink ==
  /\ phase = "think"
  /\ \E heard \in Perceptions :
       \E kept \in {k \in [Npcs -> SUBSET Active] : \A n \in Npcs : k[n] \in Kept(heard[n])} :
         \E best \in Worst(heard, kept) :
           LET s == [n \in Npcs |-> IF best[n] = 0 THEN 0 ELSE Strength(heard, kept, n, best[n])]
           IN  /\ Think(best, s)
               /\ winner' = [n \in Npcs |-> Arbitrate(weights[n], s[n], Urgency(energy[n]), fear[n])]
  /\ energy' = [n \in Npcs |-> Minus(energy[n], EnergyDecay * lag)]
  /\ fear' = [n \in Npcs |-> Feel(n)]
  /\ UNCHANGED weights

MindRespawn(n) ==
  /\ Respawn(n)
  /\ \E p \in Personalities : weights' = [weights EXCEPT ![n] = p]
  /\ energy' = [energy EXCEPT ![n] = MaxEnergy]
  /\ fear' = [fear EXCEPT ![n] = 0]
  /\ winner' = [winner EXCEPT ![n] = None]

MindNext ==
  \/ \E t \in EventTypes, v \in Severities, a \in Actors \cup {None} :
       Publish(t, v, a) /\ UNCHANGED mindVars
  \/ \E n \in Npcs : MindRespawn(n)
  \/ TickBus /\ UNCHANGED mindVars
  \/ MindThink

MindSpec ==
  MindInit /\ [][MindNext]_mindedVars
  /\ WF_mindedVars(TickBus /\ UNCHANGED mindVars) /\ WF_mindedVars(MindThink)

-----------------------------------------------------------------------------
(* Properties *)

\* Whoever feels a threat that somebody caused is afraid, from the tick in which it perceives
\* it to the end of the threat: the decision remembers, the memory is read by the emotion in
\* the same tick, and the memory outlasts the threat.
AfraidOfThreat ==
  \A n \in Npcs : source[n] # 0 /\ sent[source[n]].actor # None => fear[n] > 0

\* When no more events come, every NPC gets over its fear and does not go by it any more.  An
\* NPC that weighs its needs then goes by them for good once its energy is used up, for nothing
\* restores it.
MindSettles ==
  \A n \in Npcs :
    /\ <>[](fear[n] = 0 /\ winner[n] # "emotion")
    /\ <>[](energy[n] = 0) => <>[](weights[n].needs > 0 => winner[n] = "needs")
=============================================================================
