SPECIFICATION Lessons
CONSTANTS
  TcpClients = {t1}
  UdpClients = {u1, u2}
  MaxTurns = 3
  MaxAsks = 2
  MaxKeys = 1
  Callers = {c1, c2}
  MaxFds = 2
  MaxProcs = 3
  MaxLines = 2
  Distance = 2
  TtlRange = 4
  MaxTimeouts = 4
  MaxLosses = 2
  MaxStrays = 1
  Rounds = 3
  Word = 4
  MaxWords = 4
INVARIANTS
  TypesOK
  OneGreetingBehind
  
  Verifies
PROPERTIES
  ImplementsAnswerService
  EachServed
  ChatGoesOn
  
  TalkProceeds
CHECK_DEADLOCK FALSE
