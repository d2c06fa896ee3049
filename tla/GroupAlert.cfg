SPECIFICATION AlertSpec
CONSTANTS
  Clients = {c1, c2}
  Ids = {a, b}
  Groups = {"pack"}
  Templates <- Followers
  MaxInst = 2
PROPERTY AlertClearsUncontested
CHECK_DEADLOCK FALSE
