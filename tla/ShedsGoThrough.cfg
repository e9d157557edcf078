SPECIFICATION Spec
CONSTANTS
  None = None
  HeadroomPct = 50
  RejectionThreshold = 50
  RejectionOkFloor = 1
  FireGain = 2
  FireCapPct = 50
  FireCapCleanPct = 20
  GrowPct = 15
  ShedPct = 15
  MinRejections = 5
  MinRequests = 20
  UpCooldown = 0
  DownCooldown = 0
  ComfortSustain = 0
  Counts = {None, 1}
  Seeds = {1}
  CRs <- MCCRs
  Observations <- MCObservations
  Services = {1, 2}
  Gpr <- MCGpr
  Sets <- MCSets
  RoleReadings <- MCRoleReadings
  Lookups <- MCLookups
  Group <- MCGroup
  Pin <- MCPin
  Clusters <- MCClusters
  NoPool = NoPool
  DefaultGpuPool = NoPool
  FallbackGpuPool = 1
PROPERTIES
  ShedsGoThrough
