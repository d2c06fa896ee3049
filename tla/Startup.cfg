SPECIFICATION Spec
CONSTANTS
  Sources = {"http", "mongo", "json"}
  BaseKeys = {"threat"}
  Exports <- MCExports
  FirstDisks <- MCFirstDisks
INVARIANTS BootCascade IndependentSpawned NoDangling
PROPERTIES StaysCreatable BootEnds
CHECK_DEADLOCK FALSE
