SPECIFICATION Spec
CONSTANTS
  p1 = p1
  p2 = p2
  Checker = {c1}
  Starter = {s1, s2}
  Setting <- MCSetting
  OldFile = {index, appOld}
  NewFile = {index, appNew}
  Size = 2
  MaxFaults = 1
  Upgrader = {p1, p2}
  Roller = {p1}
  NoOne = NoOne
  Stale = 1
  Session <- MCSession
INVARIANTS JobIsSound InstallationSurvives DirectoryIsSound
PROPERTIES FailureRestores UpgradeEnds
CHECK_DEADLOCK FALSE
