CONSTANTS
  Nil = Nil
  Noop = Noop
  Server = {s1, s2}
  Client = {c1}
  MaxSeq = 2
  MaxForwards = 1
  MaxLog = 3
  MaxTerm = 1
  MaxDrops = 1
  MaxRestarts = 0
  dedupeMaxClients = 2
SPECIFICATION FairSpec
CHECK_DEADLOCK FALSE
INVARIANT ShownIsKept
PROPERTY ForwardsEnd
