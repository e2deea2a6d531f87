SPECIFICATION LiveSpec
CONSTANTS
  Mr = {m1}
  Delivery = {d1, d2}
  Waiter = {d1, d2}
  Rev = {r1, r2, r3}
  Sha = {r1, r2, r3, d1, d2}
  Fingerprint = {f1, f2}
  Content <- Amended
  None = None
  Timeout = 2
  WriteFailures = TRUE
  Crashes = 1

PROPERTIES NothingHangs
