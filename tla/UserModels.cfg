SPECIFICATION FairSpec
CONSTANTS
  c1 = c1
  c2 = c2
  k1 = k1
  k2 = k2
  p1 = p1
  p2 = p2
  AnyProtocol = AnyProtocol
  Absent = Absent
  NoEntry = NoEntry
  NoVerdict = NoVerdict
  Collections = {c1, c2}
  Keys = {k1, k2}
  Protocols = {p1, p2}
  Rows <- SomeRows
  Asks <- SomeAsks
  Admins = {a1, a2}
  Callers = {u1, u2}
  TTL = 1
  MaxWrites = 2
  MaxFaults = 1
INVARIANTS TypeOK VerdictsOfTheTime
PROPERTIES EventuallyCurrent
CHECK_DEADLOCK FALSE
