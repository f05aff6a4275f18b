CONSTANTS
  a = a
  b = b
  c = c
  r1 = r1
  r2 = r2
  r3 = r3
  r4 = r4
  r5 = r5
  Files <- MCLiveFiles
  Invalid = Invalid
  Fatal = Fatal
  Ref = {r1, r2, r3}
  Free = Free
  Null = Null
  SignalPipe = SignalPipe
  PipeCapacity = 5
SPECIFICATION FairSpec
PROPERTIES
  ReloadTakesEffect
  EventsWorked
