SPECIFICATION Spec
CONSTANTS
  m1 = m1
  m2 = m2
  r1 = r1
  r2 = r2
  r3 = r3
  c1 = c1
  c2 = c2
  NoBody = NoBody
  NoReport = NoReport
  Models = {m1}
  Reports = {r1, r2, r3}
  Calls = {c1, c2}
  Bodies <- OneTarget
  FailureThreshold = 2
  Cooldown = 2
  MaxResetHorizon = 3
  MaxSkew = 1
  MaxClock = 2
  MaxLosses = 1
SYMMETRY Symmetry
INVARIANTS TypeOK RequestsExact TokensExact CoolingJustified CoolingBounded AnswersTrue
PROPERTIES CoolingForward Implements
CHECK_DEADLOCK FALSE
