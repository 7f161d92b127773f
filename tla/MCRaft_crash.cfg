CONSTANTS
  Nil = Nil
  Noop = Noop
  Server = {s1, s2, s3}
  Client = {c1}
  MaxSeq = 1
  SnapshotThreshold = 1
  Window = 1
  MaxElections = 2
  MaxIndex = 0
  MaxRestarts = 1
SPECIFICATION Spec
VIEW View
SYMMETRY Symmetry
CHECK_DEADLOCK FALSE
INVARIANT ElectionSafety
INVARIANT Recoverable
INVARIANT CommittedOnQuorum
PROPERTY VoteOnce
PROPERTY LeaderAppendOnly
