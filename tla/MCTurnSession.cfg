SPECIFICATION FairSpec
CONSTANTS
  alice = alice
  bob = bob
  People <- MCPeople
  Approvers <- MCOnlyAlice
  Presets <- MCPresets
  MaxRounds = 2
  MaxTurns = 2
  MaxRequests = 2
  MaxSteers = 1
  MaxFaults = 2
  MaxCrashes = 1
INVARIANTS TypeOK NothingUnapproved OneAnswerSettles OpenMeansWaiting
PROPERTIES NoWorkAfterStop NothingForgotten CompletedMeansHeard StopEndsTurn KeepsContract
