SPECIFICATION Spec
CONSTANTS
  a = a
  b = b
  l1 = l1
  l2 = l2
  t1 = t1
  t2 = t2
  Null = Null
  Collections = {a, b}
  Groups = {1, 2}
  Lists = {l1, l2}
  NoMembers = l1
  Server0 <- TwoAndOne
  Tasks = {t1, t2}
  MaxActs = 4
  MaxFaults = 1
SYMMETRY Symmetry
INVARIANTS TypeOK SpinnersEnd UnsavedMarked DetailOfSelectedUnlessCrossed AtRestShowsServer
CHECK_DEADLOCK FALSE
