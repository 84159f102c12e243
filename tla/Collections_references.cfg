SPECIFICATION Spec
CONSTANTS
  a1 = a1
  a2 = a2
  m1 = m1
  m2 = m2
  m3 = m3
  rd1 = rd1
  Absent = Absent
  Groups = {g1}
  Rows = {v1}
  Models = {}
  MemberLists = {}
  Catalogs = {c1}
  Catalog0 = c1
  NoEntry = NoEntry
  Admins = {a1, a2}
  Readers = {}
  TTL = 1
  MaxWrites = 3
  MaxFaults = 1
PROPERTY ReferencedGroupsStay
CHECK_DEADLOCK FALSE
