----------------------------- MODULE MCNulsApp -----------------------------
EXTENDS NulsApp

CONSTANTS k1, k2, pieceA, pieceB, pieceC

\* A transaction of a displayable type in two pieces, and one of another type
\* whose first piece differs.
mc_Tx == {<<pieceA, pieceB>>, <<pieceC>>}
mc_Blind == {<<pieceC>>}
\* One transaction of a blind type, for the host that may do anything.
mc_OneTx == {<<pieceA>>}
mc_NoTxs == {}
mc_FirstTx == {<<pieceA, pieceB>>}
=============================================================================
