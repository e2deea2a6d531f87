CONSTANTS
  Task = {t1, t2}
  Client = {c1, c2}
  Kinds = {"rest"}
  Limits = {0, 1}
  DefaultMax = 2
  Crashes = 1
  DbFailures = TRUE
  HangUps = TRUE
  NoTask = NoTask
SPECIFICATION Spec
SYMMETRY Interchangeable
PROPERTIES FollowsLifecycle CompletedRowStays
