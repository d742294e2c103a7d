SPECIFICATION Spec
CONSTANTS
  MaxOutputs = 2
  Interruptible = TRUE
  MaxBack = 4
INVARIANT DocumentedItem
