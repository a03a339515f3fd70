SPECIFICATION FairSpec
CONSTANTS
  Clients = {"c1", "c2"}
  Handlers = {"h1", "h2"}
  QueueCapacity = 1
  MaxCalls = 3
  MaxSent = 2
  MaxInterrupts = 2
INVARIANTS
  PoolSound
PROPERTIES
  ImplementsSwitchboard
  QueuedClientGreeted
  ShutdownCompletes
CHECK_DEADLOCK FALSE
