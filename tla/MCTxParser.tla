----------------------------- MODULE MCTxParser -----------------------------
EXTENDS TxParser, TxLayout

Transfer == [type |-> 2, remark |-> 4, data |-> 0, from |-> <<TRUE, FALSE>>,
             to |-> <<FALSE, TRUE>>, addresses |-> <<3, 4>>, method |-> "none",
             name |-> 0, desc |-> 0, args |-> <<>>, extra |-> 0, scale |-> "small"]
Other == [Transfer EXCEPT !.type = 3, !.remark = 0, !.data = 5,
                          !.from = <<TRUE>>, !.to = <<TRUE>>, !.addresses = <<3>>,
                          !.extra = 1]
Token == [Transfer EXCEPT !.type = 16, !.remark = 1, !.from = <<TRUE>>, !.to = <<>>,
                          !.addresses = <<>>, !.method = "transfer", !.name = 3, !.desc = 1,
                          !.args = <<<<3>>, <<1>>>>]
TokenFrom == [Token EXCEPT !.remark = 0, !.method = "transferFrom",
                           !.name = 4, !.args = <<<<1>>, <<0>>, <<1>>>>]
Call == [Token EXCEPT !.method = "other", !.name = 2,
                      !.args = <<<<1, 3>>, <<>>, <<2>>>>]
BadToken == [Token EXCEPT !.args = <<<<1, 1>>>>]
LongToken == [Token EXCEPT !.args = <<<<6>>>>]
Crowd == [Other EXCEPT !.data = 0, !.to = <<TRUE, TRUE, FALSE, TRUE>>,
                          !.addresses = <<3, 2, 0, 3>>]
Empty == [Other EXCEPT !.data = 1, !.from = <<>>, !.to = <<>>, !.addresses = <<>>]

SmallShapes == {Transfer, Other, Token, TokenFrom, Call, BadToken, LongToken,
                Crowd, Empty}

\* Widths scaled down: every field that can be cut is longer than a byte, and
\* most addresses are longer than short.
SmallWidth ==
  [address |-> 3, nonce |-> 2, TYP |-> 2, TSP |-> 2, CC_SENDER |-> 2,
   CC_CADDR |-> 2, CC_VALUE |-> 2, CC_GMSL |-> 1, CC_GMSP |-> 1,
   FROM_CHAIN |-> 2, FROM_ASSET |-> 2, FROM_AMOUNT |-> 2, FROM_LOCKED |-> 1,
   TO_CHAIN |-> 1, TO_ASSET |-> 2, TO_AMOUNT |-> 3, TO_LOCKTIME |-> 2]

\* The widths, and transactions at the limits, of the program.
FullWidth ==
  [address |-> 23, nonce |-> 8, TYP |-> 2, TSP |-> 4, CC_SENDER |-> 23,
   CC_CADDR |-> 23, CC_VALUE |-> 32, CC_GMSL |-> 8, CC_GMSP |-> 8,
   FROM_CHAIN |-> 2, FROM_ASSET |-> 2, FROM_AMOUNT |-> 32, FROM_LOCKED |-> 1,
   TO_CHAIN |-> 2, TO_ASSET |-> 2, TO_AMOUNT |-> 32, TO_LOCKTIME |-> 8]
FiveOutputs == [Transfer EXCEPT !.scale = "full", !.remark = 300, !.from = <<TRUE>>,
                                !.to = <<TRUE, FALSE, TRUE, TRUE, TRUE>>,
                                !.addresses = <<23, 40, 23, 23, 23>>]
SixOutputs == [FiveOutputs EXCEPT !.remark = 0, !.to = Append(@, TRUE),
                                  !.addresses = Append(@, 23)]
TokenTo37 == [Token EXCEPT !.scale = "full", !.method = "transferFrom",
                           !.name = 12, !.desc = 0,
                           !.args = <<<<37>>, <<37>>, <<20>>>>, !.to = <<TRUE>>,
                           !.addresses = <<23>>]
\* Its first two chunks may end 45 bytes into the 46 of the receiver, with
\* more than 255 bytes to come.
TokenTo46 == [Token EXCEPT !.scale = "full", !.name = 8, !.remark = 34,
                           !.args = <<<<46>>, <<1>>>>,
                           !.to = <<TRUE, FALSE, TRUE>>,
                           !.addresses = <<23, 23, 23>>]
TokenTo47 == [Token EXCEPT !.scale = "full", !.name = 8, !.args = <<<<47>>, <<1>>>>]
FullShapes == {FiveOutputs, SixOutputs, TokenTo37, TokenTo46, TokenTo47}

mc_Shapes == SmallShapes \cup FullShapes
mc_Scales ==
  [small |-> [width |-> SmallWidth, short |-> 2, room |-> 4, maxCoin |-> 3,
              pool |-> 26, capacity |-> 15, chunks |-> {4, 5, 7, 11}],
   full |-> [width |-> FullWidth, short |-> 252, room |-> 40, maxCoin |-> 5,
             pool |-> 400, capacity |-> 300, chunks |-> {45, 150, 255}]]
mc_Bytes(s) == LayoutOf(Scales[s.scale], s)

\* The host cuts chunks that are shorter than half an address.
mc_ShortChunkShapes == {[Transfer EXCEPT !.scale = "shortChunks", !.from = <<TRUE>>,
                                         !.to = <<TRUE>>, !.addresses = <<23>>]}
mc_ShortChunkScales ==
  [shortChunks |-> [mc_Scales["full"] EXCEPT !.chunks = {10}]]
=============================================================================
