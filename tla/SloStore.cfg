SPECIFICATION Spec
CONSTANTS
  None = None
  NoId = NoId
  one = one
  two = two
  own = own
  shared = shared
  Objects = {one, two}
  IdsOf <- MCIdsOf
  BackoffInitial = 1
  BackoffMax = 3
  MaxEdits = 3
  MaxFaults = 2
CHECK_DEADLOCK FALSE
INVARIANTS
  TypeOK
  CacheKeepsUp
PROPERTIES
  FirstSyncIsComplete
  StaysUsable
  EveryLiveKeyCached
