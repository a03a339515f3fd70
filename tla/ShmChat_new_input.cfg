SPECIFICATION Spec
CONSTANTS
  MAX_CLIENTS = 2
  Clients = {c1}
  MaxLines = 1
  MaxKills = 0
  MayLeave = FALSE
INVARIANT DetectedInputIsNew
CHECK_DEADLOCK FALSE
