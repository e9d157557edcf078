SPECIFICATION LiveSpec
CONSTANTS
  None = None
  HeadroomPct = 50
  RejectionThreshold = 50
  RejectionOkFloor = 1
  FireGain = 2
  FireCapPct = 50
  FireCapCleanPct = 20
  GrowPct = 15
  ShedPct = 15
  MinRejections = 5
  MinRequests = 20
  UpCooldown = 2
  DownCooldown = 4
  ComfortSustain = 3
  MaxReady = 4
  CRs <- IdleCRs
  Observations = {}
  HungryReadings <- Hungry
  CalmReadings <- Calm
PROPERTIES
  FloorIsHonoured
