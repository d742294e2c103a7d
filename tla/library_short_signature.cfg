SPECIFICATION Spec
CONSTANTS
  ByteBase = 8
  SizeBase = 4096
  MaxPath = 2
  WordBase = 16
  WordBits = 4
  WordBytes = 2
  TextLen = 7
  UnitLen = 1
  NulsDecimals = 2
  DigitBase = 4
  NumberWidth = 3
  MaxBlocks = 2
  Rooms = {0, 1, 2, 3, 4, 5, 6, 7, 8, 9, 10}
  Decimals = {0, 2, 3, 4}
  Codes <- mc_Codes
  Inputs <- mc_Inputs
  Addresses <- mc_Addresses
  Known <- mc_Known
  Signed <- Number
  Contents <- mc_Contents
  PoolMemory <- mc_PoolMemory
  Offsets <- mc_Offsets
  Values <- mc_Values
  Numbers <- mc_Numbers
  Divisors <- mc_Divisors
  Amounts <- mc_Amounts
  Coins <- mc_Coins
  Strings <- mc_Strings
INVARIANT SValueCopied
