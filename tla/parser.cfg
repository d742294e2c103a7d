SPECIFICATION Spec
CONSTANTS
  Shapes <- mc_Shapes
  Scales <- mc_Scales
  Bytes <- mc_Bytes
INVARIANTS TypeOK Aligned InPlace Captured SummedOnce AllOutputs
PROPERTY VerdictSpec
