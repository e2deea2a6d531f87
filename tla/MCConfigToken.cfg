SPECIFICATION Spec
CONSTANTS
  Client = {c1}
  Deployment <- TokenDeployment
  FileCap = 5
  MaxPuts = 3
  MaxCrashes = 2
  MaxFaults = 1
  Submission <- MCSubmission
  NewId <- MCNewId
  IdsFromGet = TRUE
  MaxSaves = 1
  MaxReboots = 0
PROPERTIES RestartKeepsToken
CHECK_DEADLOCK FALSE
