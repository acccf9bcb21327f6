CONSTANTS
  t1 = t1 t2 = t2 t3 = t3
  Threads <- MCThreads
  Nobody = Nobody
  Platforms <- MCPlatforms
  MaxGuards = 2
  MaxAdds = 3
SPECIFICATION Spec
CHECK_DEADLOCK FALSE
INVARIANT MutualExclusion
INVARIANT NoLostUpdate
INVARIANT LockedByGuards
INVARIANT OneGuardUnlessNested
PROPERTY ImplementsGuardedCell
