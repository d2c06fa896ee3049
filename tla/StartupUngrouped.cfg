SPECIFICATION Spec
CONSTANTS
  Sources = {"json"}
  BaseKeys = {"threat"}
  Exports <- MCExports
  FirstDisks <- MCFirstDisks
INVARIANT AllGrouped
CHECK_DEADLOCK FALSE
