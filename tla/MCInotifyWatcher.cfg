CONSTANTS
  f1 = f1
  f2 = f2
  File = {f1, f2}
  None = None
  MaxLength = 2
  MaxMoves = 2
  MaxQueue = 3
  BatchSize = 2
SYMMETRY FileSymmetry
SPECIFICATION Spec
INVARIANTS
  TypeOK
  Settled
  KeptUpUnlessLate
  LinesWhole
  AtMostOnceIfCalm
  CrashNeedsOverflow
CHECK_DEADLOCK FALSE
