SPECIFICATION FairSpec
CONSTANTS
  a = a
  b = b
  c = c
  Nodes <- Triangle
  Senders = {a}
  Links <- TriangleLinks
  Knows <- TriangleKnows
  Keyed <- TriangleKeyed
  SeenMax = 2
  MaxSends = 2
  MaxFaults = 1
INVARIANTS
  TypeOK
  PendingNotMasked
  
PROPERTIES
  
  EverySendEnds
  FloodEnds
CHECK_DEADLOCK FALSE
