SPECIFICATION Spec
CHECK_DEADLOCK FALSE
CONSTANTS
  r1 = r1
  r2 = r2
  r3 = r3
  app1 = app1
  app2 = app2
  team1 = team1
  team2 = team2
  Runs <- AllRuns
  Apps <- AllApps
  Teams <- AllTeams
  AppOf <- Names
  TeamOf <- Owners
  NoFile = NoFile
  NoCommit = NoCommit
  MaxTime = 2
  MaxFaults = 2
INVARIANTS TypeOK DoneMeansOpened
PROPERTIES ReviewedIsMerged
