CONSTANTS
  f1 = f1
  f2 = f2
  f3 = f3
  Team <- MCTeam
  Plans <- MCPlans
  NoPlan = NoPlan
  Window = 2
  Limits <- MCLimits
  CapSettings = {NoCap, 0, 1}
  NoCap = NoCap
  DefaultCap = 2
  TokenCounts = {2}
SPECIFICATION LiveSpec
INVARIANTS RpmWithinWindow OutcomeIsSound
PROPERTIES RoutingIsSound ReviewEnds
