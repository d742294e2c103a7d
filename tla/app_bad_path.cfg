SPECIFICATION Spec
CONSTANTS
  pieceA = pieceA
  pieceB = pieceB
  pieceC = pieceC
  k1 = k1
  k2 = k2
  Key = {k1}
  ShortPath = ShortPath
  RefusedPath = RefusedPath
  Piece = {pieceA, pieceB, pieceC}
  Tx <- mc_Tx
  Blind <- mc_Blind
  Unshowable <- mc_NoTxs
  MaxLen = 1
  NoKey = NoKey
  NoSig = NoSig
  NoReply = NoReply
  NoCommand = NoCommand
  NoTx = NoTx
  Liberties = {"malformed"}
  MaxPieces = 2
INVARIANT NoCommandForgotten
