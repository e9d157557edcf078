SPECIFICATION Spec
CONSTANTS
  Requests <- MCRequests
CHECK_DEADLOCK FALSE
INVARIANTS
  TypeOK
  WithinBounds
  NeverOverspends
  Conservation
  RoundRobinFair
PROPERTIES
  PriorityFirst
  WorkConserving
  EveryIterationCounts
  KeepsPromise
  Termination
