CONSTANTS
  Nil = Nil
  Noop = Noop
  Server = {s1, s2}
  Client = {c1}
  MaxSeq = 2
  MaxForwards = 2
  MaxLog = 3
  MaxTerm = 1
  MaxDrops = 0
  MaxRestarts = 0
  dedupeMaxClients = 2
SPECIFICATION Spec
SYMMETRY Symmetry
CHECK_DEADLOCK FALSE
INVARIANT AckedIsDrawn
