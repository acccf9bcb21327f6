CONSTANTS
  t1 = t1 t2 = t2 t3 = t3
  Threads <- MCThreads
  Nobody = Nobody
  MaxGuards = 2
  MaxWrites = 2
SPECIFICATION Spec
CHECK_DEADLOCK FALSE
INVARIANT WriterAlone
INVARIANT NoTornRead
INVARIANT NoLostUpdate
PROPERTY ImplementsGuardedCell
