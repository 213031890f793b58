SPECIFICATION Spec
CHECK_DEADLOCK FALSE
CONSTANTS
  PathList <- TwoPaths
  Auth = "auth"
  Keys <- AllKeys
  Secrets <- KeysOfPaths
  ClientSecret = "client"
  Generated <- JustAuth
  None = None
  FaultyCalls <- TheGet
  Disturbances <- Writes
  MidRun <- NoFaults
  MaxValues = 4
  MaxFaults = 1
  MaxDisturbed = 2
PROPERTIES CredentialsAreKept
