CONSTANTS
  f1 = f1
  f2 = f2
  File = {f1, f2}
  None = None
  MaxLength = 1
  Second = 2
  MaxMoves = 2
  ClockSteps <- Steps
  MaxSteps = 1
SPECIFICATION FairSpec
INVARIANTS
  TypeOK
  LinesWhole
  AtMostOnce
  PolledPassed
  SleepsTillDue
PROPERTY
  LinesArrive
CHECK_DEADLOCK FALSE
