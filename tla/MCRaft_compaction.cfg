CONSTANTS
  Nil = Nil
  Noop = Noop
  Server = {s1, s2, s3}
  Client = {c1}
  MaxSeq = 1
  SnapshotThreshold = 2
  Window = 1
  MaxElections = 2
  MaxIndex = 1
  MaxRestarts = 0
SPECIFICATION Spec
VIEW View
SYMMETRY Symmetry
CHECK_DEADLOCK FALSE
INVARIANT LogReachesSnapshot
INVARIANT LogMatching
INVARIANT LeaderCompleteness
INVARIANT StateMachineSafety
INVARIANT CommittedIsAtHand
PROPERTY ImplementsReplicatedLog
