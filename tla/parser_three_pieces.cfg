SPECIFICATION Spec
CONSTANTS
  Shapes <- mc_ShortChunkShapes
  Scales <- mc_ShortChunkScales
  Bytes <- mc_Bytes
INVARIANT Captured
