SPECIFICATION FairSpec
CONSTANTS
  a = a
  b = b
  c = c
  Nodes <- Star
  AddrRank <- StarRank
  Multi = {}
  Boot <- StarBoot
  CliDials = {}
INVARIANTS
  MeshedAtRest
PROPERTY GossipEnds
CHECK_DEADLOCK FALSE
