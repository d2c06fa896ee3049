SPECIFICATION Spec
CONSTANTS
  Clients = {c1, c2}
  Ids = {a, b}
  Groups = {"pack"}
  Templates <- PackAndLoner
  MaxInst = 4
SYMMETRY Symmetry
INVARIANTS Coherent LeaderLossToldUncontested
PROPERTY NeverReplacedUncontested
CHECK_DEADLOCK FALSE
