CONSTANTS
  a1 = a1
  a2 = a2
  Address = {a1, a2}
  PipeSize = 2
  MaxOutput = 3
  MaxCalls = 3
SPECIFICATION FairSpec
INVARIANTS
  TypeOK
  NothingLeaked
PROPERTIES
  EntriesKept
  Returns
  KeepsPromise
CHECK_DEADLOCK FALSE
