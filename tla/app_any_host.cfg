SPECIFICATION Spec
CONSTANTS
  pieceA = pieceA
  pieceB = pieceB
  pieceC = pieceC
  k1 = k1
  k2 = k2
  Key = {k1}
  ShortPath = ShortPath
  RefusedPath = RefusedPath
  Piece = {pieceA}
  Tx <- mc_OneTx
  Blind <- mc_OneTx
  Unshowable <- mc_OneTx
  MaxLen = 1
  NoKey = NoKey
  NoSig = NoSig
  NoReply = NoReply
  NoCommand = NoCommand
  NoTx = NoTx
  Liberties = {"impatient", "malformed", "disordered"}
  MaxPieces = 2
INVARIANTS TypeOK ChannelOK BlindNeedsSetting
PROPERTY SettingKept
