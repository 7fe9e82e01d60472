CONSTANTS
  alice = alice
  bob = bob
  a1 = a1
  b1 = b1
  Users = {alice, bob}
  Owner = bob
  Ids = {1, 2}
  Inputs = {"x"}
  Commands <- DistinctCommands
  Tabs = {a1, b1}
  UserOf <- MCUserOf
  MaxLog = 1
  MaxConns = 2
  MaxCrashes = 1
  MaxRestarts = 1
SPECIFICATION Spec
INVARIANTS TypeOK NobodyForgotten WaitersAreMembers
PROPERTY KeepsContract
CHECK_DEADLOCK FALSE
