SPECIFICATION Spec
CONSTANTS
  None = None
  HeadroomPct = 50
  RejectionThreshold = 50
  RejectionOkFloor = 1
  FireGain = 2
  FireCapPct = 50
  FireCapCleanPct = 20
  GrowPct = 30
  ShedPct = 30
  MinRejections = 5
  MinRequests = 20
  UpCooldown = 1
  DownCooldown = 2
  ComfortSustain = 1
  CRs <- MCCRs
  Sets <- MCSets
  Observations <- MCObservations
  Counts = {None, 2}
  Seeds = {1}
  Readies <- MCReadies
  MaxSetBack = 1
INVARIANTS
  TypeOK
  ClockNeverOverclaims
PROPERTIES
  PdShedIsEarned
  PdGrowthIsSpaced
  RolesMoveApart
  WindowIsKept
  PairIsKept
