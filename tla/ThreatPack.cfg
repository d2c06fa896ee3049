SPECIFICATION FairSpec
CONSTANTS
  Npcs = {"ann", "ben"}
  GroupOf <- Pack
  EventTypes <- AlarmAndShot
  Actors = {a1}
  Severities = {3, 9}
  Strengths = {0, 3, 6, 9}
  Attention = 1
  DecayRate = 1
  Capacity = 2
  DecayTime = 11
  CalmLevel = 2
  FleeLevel = 5
  CowerLevel = 8
  MaxLag = 2
  MaxEvents = 2
INVARIANTS TypeOK ClearedTogether SharedFate PromptFlight NoStaleFlight
PROPERTY CalmsDown
CHECK_DEADLOCK FALSE
