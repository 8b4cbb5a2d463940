SPECIFICATION Spec
CONSTANTS
  a = a
  b = b
  Nodes <- MCNodes
  AddrRank <- MCAddrRank
  SockRank <- MCSockRank
  MaxAttempts = 2
  MaxStarts = 2
  MaxFailures = 1
INVARIANTS
  TypeOK
  KeyOwnership
  AgreeUnlessCrossed
  ZeroKeySafe
  OnlyDialersStale
PROPERTY SettledPairsStay
CHECK_DEADLOCK FALSE
