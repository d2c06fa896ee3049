SPECIFICATION AlertSpec
CONSTANTS
  Clients = {c1, c2}
  Ids = {a}
  Groups = {"pack"}
  Templates <- Followers
  MaxInst = 2

PROPERTY AlertClears
CHECK_DEADLOCK FALSE
