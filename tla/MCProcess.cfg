CONSTANTS
  s1 = s1 s2 = s2
  Spawners <- MCSpawners
  Parent = Parent
  Pids = {1, 2}
  Capacity = 1
  Volume = 2
  Calls <- MCCalls
SPECIFICATION Spec
CHECK_DEADLOCK FALSE
INVARIANT SpawnAnswers
INVARIANT WaitReportsOwn
PROPERTY CallsReturn
