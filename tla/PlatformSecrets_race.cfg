SPECIFICATION Spec
CHECK_DEADLOCK FALSE
CONSTANTS
  PathList <- TwoPaths
  Auth = "auth"
  Keys <- AllKeys
  Secrets <- KeysOfPaths
  ClientSecret = "client"
  Generated <- JustAuth
  None = None
  FaultyCalls <- NoFaults
  Disturbances <- Writes
  MidRun <- Writes
  MaxValues = 4
  MaxFaults = 0
  MaxDisturbed = 3
PROPERTIES CredentialsAreKept
