SPECIFICATION Spec
CONSTANTS
  Collections <- Order
  Policies <- SomePolicies
  Users <- SomeUsers
  PolicyOf <- PolicyOfUsers
  Groups <- SomeGroups
  Worlds <- SomeWorlds
  Strategies <- SomeStrategies
  Gone = Gone
  Nowhere = Nowhere
  Windows = {0, 1}
  r1 = r1
  r2 = r2
  Runs = {r1, r2}
  MaxEvents = 2
INVARIANTS TypeOK RefusedOnlyIfStirred UndisturbedRunsMigrateAll
SYMMETRY Symmetry
