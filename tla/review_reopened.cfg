SPECIFICATION Spec
CONSTANTS
  MaxOutputs = 5
  Interruptible = TRUE
  MaxBack = 4
INVARIANT AllShown
