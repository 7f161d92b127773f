CONSTANTS
  Node = {n1, n2, n3}
  All = All
  capacity = 3
  MaxSteps = 1
  MaxClicks = 2
SPECIFICATION Spec
SYMMETRY Symmetry
CHECK_DEADLOCK FALSE
INVARIANT TypeOK
INVARIANT CountersBalance
INVARIANT IsolationHolds
INVARIANT TimelineExplains
