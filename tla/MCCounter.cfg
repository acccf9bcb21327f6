CONSTANTS
  w1 = w1 w2 = w2
  Workers <- MCWorkers
  Main = Main
  Nobody = Nobody
  NoHandle = NoHandle
  Raw = Raw
  Platforms <- MCPlatforms
  MaxRounds = 2
SPECIFICATION Spec
INVARIANT MutexOutlivesGuards
INVARIANT TotalIsSum
INVARIANT EverythingFreed
INVARIANT JoinDelivers
INVARIANT ReleasedOnce
PROPERTY Terminates
