SPECIFICATION MindSpec
CONSTANTS
  Npcs = {"ann"}
  GroupOf <- Loners
  EventTypes <- AlarmAndShot
  Actors = {a1, a2}
  Severities = {2, 4}
  Strengths = {0, 2, 4}
  Attention = 2
  DecayRate = 1
  Capacity = 1
  DecayTime = 6
  CalmLevel = 2
  FleeLevel = 3
  CowerLevel = 4
  MaxLag = 2
  MaxEvents = 2
  Personalities <- AllPersonalities
  MaxEnergy = 3
  EnergyDecay = 1
  FearRise = 2
  FearDecay = 1
  MaxFear = 6
INVARIANTS RemembersThreat AfraidOfThreat
PROPERTY MindSettles
CHECK_DEADLOCK FALSE
