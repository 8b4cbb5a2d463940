SPECIFICATION FairSpec
CONSTANTS
  a = a
  b = b
  Nodes <- MCNodes
  AddrRank <- MCAddrRank
  SockRank <- MCSockRank
  MaxAttempts = 2
  MaxStarts = 2
  MaxFailures = 0
PROPERTIES
  MeshSymmetric
  BothKeyed
CHECK_DEADLOCK FALSE
