SPECIFICATION Spec
CONSTANTS
  MaxOutputs = 5
  Interruptible = FALSE
  MaxBack = 4
INVARIANTS TypeOK InStep PageIsCurrent AllShown AddressesShown
PROPERTIES ReachesEnd PagesSpec
