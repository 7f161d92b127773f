CONSTANTS
  Nil = Nil
  Noop = Noop
  Server = {s1, s2}
  Client = {c1}
  MaxSeq = 1
  MaxForwards = 1
  MaxLog = 3
  MaxTerm = 3
  MaxDrops = 0
  MaxRestarts = 0
  dedupeMaxClients = 2
SPECIFICATION Spec
SYMMETRY Symmetry
CHECK_DEADLOCK FALSE
INVARIANT AckNamesCommit
