SPECIFICATION FairSpec
CONSTANTS
  a1 = a1
  a2 = a2
  m1 = m1
  m2 = m2
  m3 = m3
  rd1 = rd1
  Absent = Absent
  Groups = {g1}
  Rows = {v1}
  Models = {m1, m2, m3}
  MemberLists <- Lists
  Catalogs = {c1, c2}
  Catalog0 = c1
  NoEntry = NoEntry
  Admins = {a1, a2}
  Readers = {rd1}
  TTL = 1
  MaxWrites = 2
  MaxFaults = 1
INVARIANTS TypeOK FreshUnlessOverlapped UnionsOfLists
PROPERTIES ReferencesHoldUnlessOvertaken EventuallyFresh
CHECK_DEADLOCK FALSE
