------------------------------ MODULE MindProofs ------------------------------
(***************************************************************************)
(* What holds of an NPC's mind for any weights, needs and emotions: it     *)
(* answers to threats as ThreatResponse says, and fears what it answers to. *)
(***************************************************************************)
EXTENDS Mind, ThreatProofs

\* A step of the mind is a step of the answer to threats.
LEMMA MindStep == [MindNext]_mindedVars => [Next]_vars
<1> SUFFICES ASSUME [MindNext]_mindedVars PROVE [Next]_vars
  OBVIOUS
<1>1. CASE \E t \in EventTypes, v \in Severities, a \in Actors \cup {None} :
             Publish(t, v, a) /\ UNCHANGED mindVars
  BY <1>1 DEF Next
<1>2. CASE \E n \in Npcs : MindRespawn(n)
  BY <1>2 DEF Next, MindRespawn
<1>3. CASE TickBus /\ UNCHANGED mindVars
  BY <1>3 DEF Next
<1>4. CASE MindThink
  BY <1>4 DEF Next, TickThink, MindThink
<1>5. CASE UNCHANGED mindedVars
  BY <1>5 DEF mindedVars
<1> QED BY <1>1, <1>2, <1>3, <1>4, <1>5 DEF MindNext

\* Needs, emotion and personality change nothing about when and how NPCs answer to threats: every
\* behaviour of the mind is one of ThreatResponse, for which the theorems of ThreatProofs hold.
THEOREM MindImplementsThreatResponse == MindSpec => Spec
<1>1. MindInit => Init
  BY DEF MindInit
<1> QED BY <1>1, MindStep, PTL DEF MindSpec, Spec

\* The newest memory of an NPC under threat is what keeps up its fear.
FearInv == fear \in [Npcs -> Nat] /\ AfraidOfThreat

\* At the start nobody is afraid.
LEMMA InitFear == MindInit => FearInv
BY DEF MindInit, Init, FearInv, AfraidOfThreat

\* Fear stays a number, above zero while there is a memory.
LEMMA FeelNat ==
  ASSUME ThreatInv, FearInv, NEW n \in Npcs
  PROVE  Feel(n) \in Nat /\ (phase = "think" /\ memory'[n] # <<>> => Feel(n) > 0)
<1>1. /\ lag \in Nat /\ fear[n] \in Nat /\ FearRise \in Nat \ {0} /\ FearDecay \in Nat
      /\ MaxFear \in Nat /\ MaxFear > 0 /\ (phase = "think" => lag > 0)
  BY ConfigAssumption, MindAssumption DEF ConfigAssumption, MindAssumption, ThreatInv, Types, FearInv
<1>2. FearRise * lag \in Nat /\ FearDecay * lag \in Nat
  BY <1>1
<1>3. lag > 0 => FearRise * lag > 0
  <2>1. SUFFICES ASSUME lag > 0 PROVE FearRise * lag > 0
    OBVIOUS
  <2>2. FearRise \in Nat /\ 1 <= lag /\ lag \in Int /\ 1 \in Int
    BY <1>1, <2>1
  <2>3. FearRise * 1 <= FearRise * lag /\ FearRise * 1 = FearRise
    BY <2>2, RateMonotone
  <2> QED BY <1>1, <1>2, <2>3
<1>4. Minus(fear[n], FearDecay * lag) \in Nat
  BY <1>1, <1>2, MinusNat
<1>5. fear[n] + FearRise * lag \in Nat /\ (lag > 0 => fear[n] + FearRise * lag > 0)
  BY <1>1, <1>2, <1>3
<1>6. /\ Capped(fear[n] + FearRise * lag) \in Nat
      /\ lag > 0 => Capped(fear[n] + FearRise * lag) > 0
  BY <1>1, <1>5 DEF Capped
<1> QED BY <1>1, <1>4, <1>6 DEF Feel

\* Every step keeps fear in step with memory.
LEMMA StepFear == ThreatInv /\ ThreatInv' /\ BlameInv' /\ FearInv /\ [MindNext]_mindedVars => FearInv'
<1> SUFFICES ASSUME ThreatInv, ThreatInv', BlameInv', FearInv, [MindNext]_mindedVars PROVE FearInv'
  OBVIOUS
<1>1. ASSUME NEW t \in EventTypes, NEW v \in Severities, NEW a \in Actors \cup {None},
             Publish(t, v, a), UNCHANGED mindVars
      PROVE  FearInv'
  <2>1. fear' = fear /\ source' = source
    BY <1>1 DEF mindVars, Publish, npcVars
  <2>2. \A n \in Npcs : source[n] # 0 => sent'[source[n]] = sent[source[n]]
    BY <1>1, PublishKeeps
  <2> QED BY <2>1, <2>2 DEF FearInv, AfraidOfThreat
<1>2. ASSUME NEW n \in Npcs, MindRespawn(n) PROVE FearInv'
  <2>1. /\ sent' = sent /\ source' = [source EXCEPT ![n] = 0] /\ fear' = [fear EXCEPT ![n] = 0]
    BY <1>2 DEF MindRespawn, Respawn, busVars
  <2>2. source \in [Npcs -> 0 .. Len(sent)] /\ fear \in [Npcs -> Nat]
    BY DEF ThreatInv, Types, FearInv
  <2> QED BY <2>1, <2>2 DEF FearInv, AfraidOfThreat
<1>3. CASE TickBus /\ UNCHANGED mindVars
  BY <1>3 DEF TickBus, mindVars, npcVars, FearInv, AfraidOfThreat
<1>4. CASE MindThink
  <2>1. phase = "think" /\ fear' = [n \in Npcs |-> Feel(n)]
    BY <1>4 DEF MindThink
  <2>2. fear' \in [Npcs -> Nat]
    BY <2>1, FeelNat
  <2>3. ASSUME NEW n \in Npcs, source'[n] # 0, sent'[source'[n]].actor # None
        PROVE  fear'[n] > 0
    <3>1. Len(memory'[n]) > 0
      BY <2>3 DEF BlameInv, Blames
    <3>2. memory'[n] # <<>>
      BY <3>1, EmptySeq
    <3> QED BY <2>1, <3>2, FeelNat
  <2> QED BY <2>2, <2>3 DEF FearInv, AfraidOfThreat
<1>5. CASE UNCHANGED mindedVars
  BY <1>5 DEF mindedVars, vars, busVars, npcVars, mindVars, FearInv, AfraidOfThreat
<1> QED BY <1>1, <1>2, <1>3, <1>4, <1>5 DEF MindNext

\* For any weights, rates and configuration in which memories outlast the decay of a threat, an NPC
\* that feels a threat somebody caused is afraid.
THEOREM AfraidOfThreatHolds == ASSUME LongMemory PROVE MindSpec => []AfraidOfThreat
<1>1. MindSpec => []ThreatInv /\ []BlameInv
  BY MindImplementsThreatResponse, ThreatInvHolds, BlameHolds, PTL
<1>2. FearInv => AfraidOfThreat
  BY DEF FearInv
<1> QED BY <1>1, <1>2, InitFear, StepFear, PTL DEF MindSpec
=============================================================================
