SPECIFICATION Spec
CONSTANTS
  Mr = {m1}
  Delivery = {d1, d2, d3}
  Waiter = {d1, d2, d3}
  Rev = {r1, r2, r3}
  Sha = {r1, r2, r3, d1, d2, d3}
  Fingerprint = {f1, f2}
  Content <- Amended
  None = None
  Timeout = 2
  WriteFailures = FALSE
  Crashes = 0
SYMMETRY Interchangeable
INVARIANT NewestContentReviewed
