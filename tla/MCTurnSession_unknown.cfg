SPECIFICATION Spec
CONSTANTS
  alice = alice
  bob = bob
  People <- MCPeople
  Approvers <- MCOnlyAlice
  Presets <- MCAgent
  MaxRounds = 2
  MaxTurns = 2
  MaxRequests = 1
  MaxSteers = 0
  MaxFaults = 0
  MaxCrashes = 1
INVARIANT UnknownMeansNeverAsked
