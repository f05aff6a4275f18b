CONSTANTS
  NotWritten = NotWritten
  Unknown = NotWritten
  Document <- MCDocument
  Old <- MCOld
  Number <- MCNumber
  Groups <- MCGroups
  Rate <- MCRate
  Exempt <- MCExempt
  IntMax = 7
  UintMax = 15
  Bytes = 3
  V4Bytes = 2
  NoBits = NoBits
SPECIFICATION Spec
INVARIANTS
  TypeOK
  SplitsAsWritten
  AllOrNothing
  ExemptsCanonical
CHECK_DEADLOCK FALSE
