CONSTANTS
  Task = {t1, t2}
  Client = {c1}
  Kinds = {"rest", "webhook"}
  Limits = {0, 1}
  DefaultMax = 1
  Crashes = 1
  DbFailures = FALSE
  HangUps = TRUE
  NoTask = NoTask
SPECIFICATION LiveSpec
INVARIANTS RunningHasWorker NoOrphanRow
PROPERTIES QueueDrains
