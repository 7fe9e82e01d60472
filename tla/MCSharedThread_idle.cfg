SPECIFICATION Spec
CONSTANTS
  Helps <- MCHelps
  MaxTurns = 1
  MaxEvents = 4
  MaxConns = 2
  MaxCrashes = 1
  MaxRestarts = 0
CHECK_DEADLOCK FALSE
INVARIANT IdleMeansOver
