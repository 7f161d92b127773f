CONSTANTS
  Nil = Nil
  Noop = Noop
  Server = {s1, s2}
  Client = {c1}
  MaxSeq = 1
  MaxForwards = 1
  MaxLog = 4
  MaxTerm = 2
  MaxDrops = 0
  MaxRestarts = 1
  dedupeMaxClients = 2
SPECIFICATION Spec
CHECK_DEADLOCK FALSE
SYMMETRY Symmetry
INVARIANT TypeOK
INVARIANT RetriesDrawOnce
INVARIANT AckNamesCommit
