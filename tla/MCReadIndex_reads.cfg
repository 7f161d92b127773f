CONSTANTS
  Nil = Nil
  Noop = Noop
  Server = {s1, s2, s3}
  Client = {c1}
  MaxSeq = 1
  SnapshotThreshold = 1
  Window = 1
  MaxElections = 2
  MaxIndex = 1
  MaxRestarts = 0
  MaxReads = 1
SPECIFICATION ReadSpec
VIEW View
SYMMETRY Symmetry
CHECK_DEADLOCK FALSE
INVARIANT ReadsLinearizable
