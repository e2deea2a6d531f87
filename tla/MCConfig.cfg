SPECIFICATION Spec
CONSTANTS
  Client = {c1}
  Deployment <- MCDeployment
  FileCap = 5
  MaxPuts = 3
  MaxCrashes = 2
  MaxFaults = 1
  Submission <- MCSubmission
  NewId <- MCNewId
  IdsFromGet = TRUE
  MaxSaves = 4
  MaxReboots = 2
INVARIANTS ConfigIsSound StoredProvidersRun SecretsStayPut CapInForce
PROPERTIES RestartKeepsChain FileKeepsToken EntriesKeepIdentity
CHECK_DEADLOCK FALSE
