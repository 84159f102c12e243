SPECIFICATION FairSpec
CONSTANTS
  g1 = g1
  g2 = g2
  m1 = m1
  m2 = m2
  q1 = q1
  q2 = q2
  NoTarget = NoTarget
  NoSnapshot = NoSnapshot
  Models = {m1, m2}
  Groups = {g1, g2}
  Snapshots <- Configurations
  Requests = {q1, q2}
  Sizes <- LongAndShort
  MaxChanges = 1
INVARIANTS TypeOK CoolingRespected
PROPERTIES NeverTwice UnavailableOnlyWhenExhausted EveryRequestEnds
CHECK_DEADLOCK FALSE
