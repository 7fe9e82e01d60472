SPECIFICATION FairSpec
CONSTANTS
  Helps <- MCHelps
  MaxTurns = 2
  MaxEvents = 3
  MaxConns = 2
  MaxCrashes = 1
  MaxRestarts = 1
CHECK_DEADLOCK FALSE
INVARIANTS
  TypeOK
  AbsentHostRunsNothing
  SettledThreadIsOver
  MirrorFollowsTurn
PROPERTIES
  EventsInOrder
  UnknownPasses
