SPECIFICATION FairSpec
CONSTANTS
  m1 = m1
  m2 = m2
  r1 = r1
  r2 = r2
  r3 = r3
  c1 = c1
  c2 = c2
  NoBody = NoBody
  NoReport = NoReport
  Models = {m1, m2}
  Reports = {r1, r2}
  Calls = {c1, c2}
  Bodies <- Racing
  FailureThreshold = 2
  Cooldown = 2
  MaxResetHorizon = 3
  MaxSkew = 1
  MaxClock = 1
  MaxLosses = 1
PROPERTIES EventuallyAnswered
CHECK_DEADLOCK FALSE
