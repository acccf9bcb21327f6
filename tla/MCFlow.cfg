SPECIFICATION Spec
CONSTANTS
  Locals <- MCLocals
  Fields = {"f", "g"}
  FieldsOf <- MCFieldsOf
  Whole = Whole
  None = None
  Blocks <- BlockIds
  Functions <- MCFunctions
  DropWhole <- MCDropWhole
  DropFields = {"f", "g"}
  Unnamed <- MCUnnamed
  Temps <- MCTemps
  MaxSteps = 60
  Owners <- MCOwners
  Views <- MCViews
INVARIANTS NoUseAfterMove NoUseAfterDrop DropsAreLive OwnedIsReleased FixpointStable NoFallThrough NoDanglingArgument TemporariesReleased
PROPERTY AnalysisEnds
CHECK_DEADLOCK FALSE
