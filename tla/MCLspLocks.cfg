CONSTANTS
  h1 = h1 h2 = h2 h3 = h3
  Handlers <- MCHandlers
  Kinds <- MCKinds
SPECIFICATION LocksSpec
SYMMETRY Symmetry
CHECK_DEADLOCK FALSE
INVARIANT HangsOnlyByNesting
