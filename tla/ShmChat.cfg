SPECIFICATION Spec
CONSTANTS
  MAX_CLIENTS = 2
  Clients = {c1, c2}
  MaxLines = 3
  MaxKills = 1
  MayLeave = TRUE
SYMMETRY Symmetry
INVARIANTS
  RoundDiscipline
  MessagesCounted
  IdsNotBelowRank
CHECK_DEADLOCK FALSE
