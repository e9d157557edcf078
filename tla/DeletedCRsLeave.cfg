SPECIFICATION Spec
CONSTANTS
  None = None
  NoId = NoId
  one = one
  two = two
  own = own
  shared = shared
  Objects = {one}
  IdsOf <- MCOwnId
  BackoffInitial = 1
  BackoffMax = 3
  MaxEdits = 1
  MaxFaults = 0
CHECK_DEADLOCK FALSE
PROPERTIES
  DeletedCRsLeave
