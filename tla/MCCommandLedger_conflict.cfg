CONSTANTS
  alice = alice
  bob = bob
  a1 = a1
  b1 = b1
  Users = {alice, bob}
  Owner = bob
  Ids = {1}
  Inputs = {"x", "y"}
  Commands <- ReusedCommands
  Tabs = {a1, b1}
  UserOf <- MCUserOf
  MaxLog = 1
  MaxConns = 2
  MaxCrashes = 1
  MaxRestarts = 1
SPECIFICATION Spec
INVARIANT ReuseIsConflict
CHECK_DEADLOCK FALSE
