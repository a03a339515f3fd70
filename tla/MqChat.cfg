SPECIFICATION Spec
CONSTANTS
  Clients = {c1, c2}
  QueueCapacity = 2
  MaxLines = 2
  MaxStarts = 2
  MayQuit = TRUE
SYMMETRY Symmetry
INVARIANTS
  
  CopiesFollowCount

  
CHECK_DEADLOCK FALSE
