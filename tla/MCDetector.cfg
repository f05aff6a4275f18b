CONSTANTS
  a1 = a1
  a2 = a2
  p = p
  q = q
  la = la
  lb = lb
  lboth = lboth
  lbad = lbad
  lunset = lunset
  Addr = {a1, a2}
  Pattern = {p, q}
  Line = {la, lb, lboth, lbad, lunset}
  Capture <- MCCapture
  NoMatch = NoMatch
  NotAnAddress = NotAnAddress
  NoCapture = NoCapture
  NoLine = NoLine
  Config <- MCConfig
  MaxTime = 2
  MaxAttempts = 3
SPECIFICATION Spec
INVARIANTS
  TypeOK
  DequeIsRecentHistory
  OneEntryPerAddress
  DequeBounded
PROPERTIES
  ImplementsPolicy
