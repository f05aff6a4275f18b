CONSTANTS
  f1 = f1
  f2 = f2
  File = {f1, f2}
  None = None
  MaxLength = 1
  MaxMoves = 2
  MaxQueue = 3
  BatchSize = 2
SPECIFICATION FairSpec
PROPERTY
  LinesArrive
CHECK_DEADLOCK FALSE
