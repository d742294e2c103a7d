SPECIFICATION Spec
CONSTANTS
  pieceA = pieceA
  pieceB = pieceB
  pieceC = pieceC
  k1 = k1
  k2 = k2
  Key = {k1, k2}
  ShortPath = ShortPath
  RefusedPath = RefusedPath
  Piece = {pieceA, pieceB, pieceC}
  Tx <- mc_Tx
  Blind <- mc_Blind
  Unshowable <- mc_NoTxs
  MaxLen = 2
  NoKey = NoKey
  NoSig = NoSig
  NoReply = NoReply
  NoCommand = NoCommand
  NoTx = NoTx
  Liberties = {}
  MaxPieces = 2
INVARIANT DecisionAwaited
PROPERTIES SignedIsReviewed UnreviewedIsPersonal ApprovedWasParsed ExchangeSpec
