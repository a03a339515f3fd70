SPECIFICATION FairSpec
CONSTANTS
  MAX_CLIENTS = 2
  Clients = {c1, c2}
  MaxLines = 2
  MaxKills = 1
  MayLeave = FALSE
PROPERTIES
  AnnouncementsEnd
  RoundReachesEveryScreen
CHECK_DEADLOCK FALSE
