SPECIFICATION Spec
CONSTANTS
  Npcs = {"ann", "ben"}
  Alphabet <- MCAlphabet
  Templates <- MCTemplates
  Keys <- MCKeys
  Threats = {4, 9}
  ThreatTtl = 2
  Decay = 2
INVARIANTS StateKnown WritesRegistered TypingIsSound MissingNeverEnables ActionOfState
PROPERTY EveryoneVisited
CHECK_DEADLOCK FALSE
