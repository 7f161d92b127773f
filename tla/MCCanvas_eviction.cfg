CONSTANTS
  Nil = Nil
  Noop = Noop
  Server = {s1, s2}
  Client = {c1, c2, c3}
  MaxSeq = 2
  MaxLog = 4
  dedupeMaxClients = 2
SPECIFICATION Spec
SYMMETRY Symmetry
CHECK_DEADLOCK FALSE
INVARIANT TypeOK
INVARIANT ReplicasAgree
INVARIANT DrawsTheLog
INVARIANT HistoryIsComplete
