SPECIFICATION Spec
CONSTANTS
  g = g
  h = h
  a = a
  b = b
  Conns <- MCConns
  Addrs <- MCAddrs
  Ids <- MCIds
  Start <- MCStart
  Rings <- MCRings
  Rounds = 2
  Reward = 1000
  MaxTicks = 4
INVARIANTS
  TypeOK
  LockedTwice
  LocksKept
  RewardsBounded
CHECK_DEADLOCK FALSE
