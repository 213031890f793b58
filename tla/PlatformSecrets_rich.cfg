SPECIFICATION Spec
CHECK_DEADLOCK FALSE
CONSTANTS
  PathList <- TwoPaths
  Auth = "auth"
  Keys <- AllKeys
  Secrets <- KeysOfPaths
  ClientSecret = "client"
  Generated <- JustAuth
  None = None
  FaultyCalls <- AnyCall
  Disturbances <- Anything
  MidRun <- OnlyCrash
  MaxValues = 4
  MaxFaults = 2
  MaxDisturbed = 5
INVARIANTS TypeOK HealthyMeansAgreed
PROPERTIES BackupRemembers BackupIsLive
