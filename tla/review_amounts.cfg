SPECIFICATION Spec
CONSTANTS
  MaxOutputs = 2
  Interruptible = FALSE
  MaxBack = 4
INVARIANT AmountsShown
