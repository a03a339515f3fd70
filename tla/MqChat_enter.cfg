SPECIFICATION FairSpec
CONSTANTS
  Clients = {c1}
  QueueCapacity = 1
  MaxLines = 1
  MaxStarts = 1
  MayQuit = FALSE
PROPERTY EnterStops
CHECK_DEADLOCK FALSE
