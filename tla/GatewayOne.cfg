SPECIFICATION FairSpec
CONSTANTS
  Conns = {c1}
  SendCap = 2
  QueueCap = 1
  MaxTicks = 3
  MaxReqs = 2
INVARIANT ResponsesAccounted
PROPERTIES FeedSpec CleanUp FeedProgress ShutdownCompletes
CHECK_DEADLOCK FALSE
