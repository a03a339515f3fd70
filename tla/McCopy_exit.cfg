SPECIFICATION FairSpec
CONSTANTS
  Sizes = {1}
  Readable = {TRUE}
  BarWidth = 3
  MaxCopies = 1
PROPERTY CtrlXExits
CHECK_DEADLOCK FALSE
