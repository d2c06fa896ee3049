SPECIFICATION Spec
CONSTANTS
  Conns = {c1, c2}
  SendCap = 1
  QueueCap = 1
  MaxTicks = 3
  MaxReqs = 1
SYMMETRY Symmetry
INVARIANTS TypeOK ClosedIffLeft NoZombie GaplessFeed
PROPERTY TickPassesNobody
CHECK_DEADLOCK FALSE
