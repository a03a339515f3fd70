SPECIFICATION FairSpec
CONSTANTS
  Sizes = {0, 1, 2}
  Readable = {TRUE, FALSE}
  BarWidth = 3
  MaxCopies = 4

  
  
PROPERTIES
  CopyEnds
  ExitWhenWaiting
CHECK_DEADLOCK FALSE
