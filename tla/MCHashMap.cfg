CONSTANTS
  k1 = k1 k2 = k2 k3 = k3 k4 = k4 k5 = k5
  v1 = v1 v2 = v2 v3 = v3 v4 = v4 v5 = v5
  Keys <- MCKeys
  Values <- MCValues
  None = None
  Hash <- MCHash
  InitialMapCapacity = 2
SPECIFICATION Spec
SYMMETRY Symmetry
INVARIANT ValuesConserved
INVARIANT WellFormed
PROPERTY ImplementsDictionary
