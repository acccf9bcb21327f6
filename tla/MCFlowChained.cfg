SPECIFICATION Spec
CONSTANTS
  Locals <- MCLocals
  Fields = {"f", "g"}
  FieldsOf <- MCFieldsOf
  Whole = Whole
  None = None
  Blocks <- BlockIds
  Functions <- ChainedFunctions
  DropWhole <- MCDropWhole
  DropFields = {"f", "g"}
  Unnamed <- MCUnnamed
  Temps <- MCTemps
  MaxSteps = 60
  Owners <- MCOwners
  Views <- MCViews
INVARIANT NoDanglingArgument
CHECK_DEADLOCK FALSE
