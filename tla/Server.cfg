SPECIFICATION FairSpec
CONSTANTS
  Requests <- SomeRequests
  Plane <- PlaneOf
  Presents <- KeyOf
  Writes = {"a1", "a2", "d1"}
  Keys = {"k1", "k2"}
  NoKey = NoKey
  Configs <- SomeConfigs
INVARIANTS ServerTypeOK LostOnlyInHaste NoStatementCutOff PlanesIsolated
PROPERTIES StopsWhenTold
CHECK_DEADLOCK FALSE
