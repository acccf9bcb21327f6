CONSTANTS
  t1 = t1 t2 = t2 t3 = t3
  h1 = h1 h2 = h2 h3 = h3 h4 = h4
  Threads <- MCThreads
  Handles <- MCHandles
  Creator = t1
  Original = h1
  Nobody = Nobody
  NoHandle = NoHandle
  Windows = FALSE
SPECIFICATION Spec
CHECK_DEADLOCK FALSE
INVARIANT NoUseAfterFree
INVARIANT UniqueMeansAlone
PROPERTY LastOwnerFrees
PROPERTY ImplementsSharing
