SPECIFICATION Spec
CONSTANTS
  g1 = g1
  g2 = g2
  gone = gone
  m1 = m1
  m2 = m2
  m3 = m3
  Groups = {g1, g2, gone}
  Models = {m1, m2, m3}
  Inputs <- CheckedInputs
INVARIANTS TypeOK NoRepeats NothingMissed CandidatesAsDeclared SkipsAsDeclared
CHECK_DEADLOCK FALSE
