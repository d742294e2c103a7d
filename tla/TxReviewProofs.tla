--------------------------- MODULE TxReviewProofs ---------------------------
(***************************************************************************)
(* What the review of a transaction shows is what the transaction says, for *)
(* every transaction that follows TxGrammar and every way to cut it; there  *)
(* is memory for it, or it is refused; and no copy leaves its memory.       *)
(***************************************************************************)
EXTENDS TxParserProofs, WellFoundedInduction

---------------------------------------------------------------------------
(* What the parser has behind it.                                           *)

\* The amounts in NULS among the first n coins of a side.
NulsOf(label, coins, n) == {<<label, i>> : i \in {i \in 0 .. n - 1 : coins[i + 1]}}

\* How many inputs' amounts, outputs' addresses and outputs' amounts have been
\* read.
FromDone ==
  IF p.pc \in InputLabels
  THEN IF p.pc \in {"FROM_NONCE", "FROM_LOCKED"} THEN p.array + 1 ELSE p.array
  ELSE IF p.pc \in OutputLabels \cup {"TO", "END"} THEN Len(shape.from) ELSE 0
AddressDone ==
  IF p.pc \in OutputLabels
  THEN IF p.pc = "TO_ADDRESS" THEN p.array ELSE p.array + 1
  ELSE IF p.pc = "END" THEN Len(shape.to) ELSE 0
ToDone ==
  IF p.pc \in OutputLabels
  THEN IF p.pc = "TO_LOCKTIME" THEN p.array + 1 ELSE p.array
  ELSE IF p.pc = "END" THEN Len(shape.to) ELSE 0

\* The sum has the amounts in NULS that have been read, each once, and the
\* asset of the coin whose amount is next is known.
Entries(sum) == {sum[k] : k \in DOMAIN sum}
SumInv ==
  /\ Entries(p.sum) = NulsOf("FROM_AMOUNT", shape.from, FromDone)
                      \cup NulsOf("TO_AMOUNT", shape.to, ToDone)
  /\ \A k, m \in DOMAIN p.sum : p.sum[k] = p.sum[m] => k = m
  /\ p.pc = "FROM_AMOUNT" => p.nuls = shape.from[p.array + 1]
  /\ p.pc = "TO_AMOUNT" => p.nuls = shape.to[p.array + 1]

\* Every output has taken its part of the pool, and the pool is too small for
\* more than there are places.
OutputRoom == Room + Width["TO_AMOUNT"]
Taking(label, room) == IF <<label, p.array>> \in p.reserved THEN room ELSE 0
Come(i) ==
  /\ <<"TO_ADDRESS", i>> \in p.reserved =>
       p.pc = "END" \/ (p.pc \in OutputLabels /\ i <= p.array)
  /\ <<"TO_AMOUNT", i>> \in p.reserved =>
       \/ p.pc = "END"
       \/ p.pc \in OutputLabels /\ i < ToDone
       \/ p.pc = "TO_AMOUNT" /\ i = p.array
SlotInv == \A i \in Nat : Come(i)
RoomInv ==
  /\ p.pc \in OutputLabels => p.array <= MaxCoin
  /\ p.pc = "TO_ADDRESS" =>
       p.pool >= p.array * OutputRoom + Taking("TO_ADDRESS", Room)
  /\ p.pc \in {"TO_CHAIN", "TO_ASSET"} => p.pool >= p.array * OutputRoom + Room
  /\ p.pc = "TO_AMOUNT" =>
       p.pool >= p.array * OutputRoom + Room + Taking("TO_AMOUNT", Width["TO_AMOUNT"])
  /\ p.pc = "TO_LOCKTIME" => p.pool >= (p.array + 1) * OutputRoom
  /\ p.pc = "END" => p.tos = Len(shape.to)
PoolInv == SlotInv /\ RoomInv

---------------------------------------------------------------------------
(* The coins that the parser is at.                                         *)

LEMMA ShapeFacts ==
  ASSUME shape \in Shapes
  PROVE  /\ shape.from \in Seq(BOOLEAN) /\ shape.to \in Seq(BOOLEAN)
         /\ Len(shape.from) \in Nat /\ Len(shape.to) \in Nat /\ shape.name \in Nat
         /\ \A k \in 1 .. Len(shape.from) : shape.from[k] \in BOOLEAN
         /\ \A k \in 1 .. Len(shape.to) : shape.to[k] \in BOOLEAN
<1>1. shape.from \in Seq(BOOLEAN) /\ shape.to \in Seq(BOOLEAN) /\ shape.name \in Nat
  BY ShapeAssumption
<1> QED
  BY <1>1

LEMMA CoinFacts ==
  ASSUME TypeInv, NEW st, Standing(st)
  PROVE  /\ p.pc \in InputLabels => p.array < Len(shape.from) /\ p.froms = Len(shape.from)
         /\ p.pc \in OutputLabels => p.array < Len(shape.to) /\ p.tos = Len(shape.to)
         /\ p.array \in Nat
<1>1. p.array \in Nat /\ p.pc \in Labels
  BY DEF TypeInv, ParserType
<1>2. ASSUME p.pc \in InputLabels PROVE p.array < Len(shape.from) /\ p.froms = Len(shape.from)
  <2>1. /\ FieldAt(st).label = p.pc /\ FieldAt(st).i = p.array /\ Says(shape, FieldAt(st))
        /\ p.froms = Len(shape.from)
    BY <1>2, FieldFacts DEF Standing, Aware, InputLabels, Index
  <2> QED
    BY <1>2, <2>1 DEF Says
<1>3. ASSUME p.pc \in OutputLabels PROVE p.array < Len(shape.to) /\ p.tos = Len(shape.to)
  <2>1. /\ FieldAt(st).label = p.pc /\ FieldAt(st).i = p.array /\ Says(shape, FieldAt(st))
        /\ p.tos = Len(shape.to)
    BY <1>3, FieldFacts DEF Standing, Aware, OutputLabels, Index
  <2> QED
    BY <1>3, <2>1 DEF Says
<1> QED
  BY <1>1, <1>2, <1>3

\* What a count or an asset says.
LEMMA CountFacts ==
  ASSUME TypeInv, NEW st, Standing(st), Enough
  PROVE  /\ p.pc = "FROM" => HeadValue = Len(shape.from)
         /\ p.pc = "TO" => HeadValue = Len(shape.to)
         /\ p.pc = "FROM_ASSET" => ((HeadValue = 1) = shape.from[p.array + 1])
         /\ p.pc = "TO_ASSET" => ((HeadValue = 1) = shape.to[p.array + 1])
<1> SUFFICES ASSUME p.pc \in {"FROM", "TO", "FROM_ASSET", "TO_ASSET"}
             PROVE  /\ p.pc = "FROM" => HeadValue = Len(shape.from)
                    /\ p.pc = "TO" => HeadValue = Len(shape.to)
                    /\ p.pc = "FROM_ASSET" => ((HeadValue = 1) = shape.from[p.array + 1])
                    /\ p.pc = "TO_ASSET" => ((HeadValue = 1) = shape.to[p.array + 1])
  OBVIOUS
<1>1. /\ HeadValue = Val(st) /\ StandsAt(st) /\ p.pc # "END" /\ p.pc # "D_VALUE_V"
  BY ShortFieldRead DEF VarLabel, Listed, Standing
<1>2. /\ FieldAt(st).label = p.pc /\ Says(shape, FieldAt(st)) /\ FieldAt(st).val = Val(st)
      /\ FieldAt(st).i = Index
  BY <1>1, FieldFacts, Extents
<1>3. p.pc \in {"FROM_ASSET", "TO_ASSET"} => Index = p.array
  BY DEF Index
<1>4. p.pc = "FROM_ASSET" => shape.from[p.array + 1] \in BOOLEAN
  <2>1. p.pc = "FROM_ASSET" => p.array + 1 \in 1 .. Len(shape.from)
    BY CoinFacts, ShapeFacts DEF TypeInv, InputLabels
  <2> QED
    BY <2>1, ShapeFacts DEF TypeInv
<1>5. p.pc = "TO_ASSET" => shape.to[p.array + 1] \in BOOLEAN
  <2>1. p.pc = "TO_ASSET" => p.array + 1 \in 1 .. Len(shape.to)
    BY CoinFacts, ShapeFacts DEF TypeInv, OutputLabels
  <2> QED
    BY <2>1, ShapeFacts DEF TypeInv
<1>6. p.pc = "FROM" => HeadValue = Len(shape.from)
  BY <1>1, <1>2 DEF Says
<1>7. p.pc = "TO" => HeadValue = Len(shape.to)
  BY <1>1, <1>2 DEF Says
<1>8. p.pc = "FROM_ASSET" => HeadValue = IF shape.from[p.array + 1] THEN 1 ELSE 0
  BY <1>1, <1>2, <1>3 DEF Says
<1>9. p.pc = "TO_ASSET" => HeadValue = IF shape.to[p.array + 1] THEN 1 ELSE 0
  BY <1>1, <1>2, <1>3 DEF Says
<1> QED
  BY <1>4, <1>5, <1>6, <1>7, <1>8, <1>9

---------------------------------------------------------------------------
(* The sum.                                                                 *)

\* The labels before the inputs.
Early == Labels \ (InputLabels \cup OutputLabels \cup {"TO", "END"})

LEMMA SumStays ==
  ASSUME SumInv, SameSum, shape' = shape, FromDone' = FromDone, ToDone' = ToDone,
         \/ p'.pc \notin {"FROM_AMOUNT", "TO_AMOUNT"}
         \/ p'.pc = p.pc /\ p'.array = p.array
  PROVE  SumInv'
BY DEF SumInv, SameSum, Entries, NulsOf

LEMMA NulsOfNext ==
  ASSUME NEW label, NEW coins, NEW n \in Nat
  PROVE  NulsOf(label, coins, n + 1) =
           NulsOf(label, coins, n) \cup (IF coins[n + 1] THEN {<<label, n>>} ELSE {})
<1>1. \A i : i \in 0 .. (n + 1) - 1 <=> i \in 0 .. n - 1 \/ i = n
  OBVIOUS
<1> QED
  BY <1>1 DEF NulsOf

LEMMA NulsOfMembers ==
  ASSUME NEW label, NEW coins, NEW n \in Nat, NEW e \in NulsOf(label, coins, n)
  PROVE  \E i \in 0 .. n - 1 : e = <<label, i>>
BY DEF NulsOf

LEMMA AppendEntries ==
  ASSUME NEW S, NEW sum \in Seq(S), NEW e \in S, e \notin Entries(sum),
         \A k, m \in DOMAIN sum : sum[k] = sum[m] => k = m
  PROVE  /\ Entries(Append(sum, e)) = Entries(sum) \cup {e}
         /\ \A k, m \in DOMAIN Append(sum, e) :
              Append(sum, e)[k] = Append(sum, e)[m] => k = m
<1> DEFINE t == Append(sum, e)
           n == Len(sum)
<1>1. /\ n \in Nat /\ DOMAIN sum = 1 .. n /\ DOMAIN t = 1 .. n + 1
      /\ \A k \in 1 .. n : t[k] = sum[k]
      /\ t[n + 1] = e
  OBVIOUS
<1> HIDE DEF t, n
<1>2. Entries(t) = Entries(sum) \cup {e}
  <2>1. \A k : k \in DOMAIN t <=> k \in DOMAIN sum \/ k = n + 1
    BY <1>1
  <2>2. n + 1 \in DOMAIN t
    BY <1>1
  <2>3. \A k \in DOMAIN sum : t[k] = sum[k]
    BY <1>1
  <2> QED
    BY <2>1, <2>2, <2>3, <1>1 DEF Entries
<1>3. ASSUME NEW k \in DOMAIN t, NEW m \in DOMAIN t, t[k] = t[m] PROVE k = m
  <2>1. CASE k \in 1 .. n /\ m \in 1 .. n
    BY <1>1, <1>3, <2>1
  <2>2. CASE k \in 1 .. n /\ m \notin 1 .. n
    <3>1. m = n + 1 /\ sum[k] = e /\ k \in DOMAIN sum
      BY <1>1, <1>3, <2>2
    <3> QED
      BY <3>1 DEF Entries
  <2>3. CASE m \in 1 .. n /\ k \notin 1 .. n
    <3>1. k = n + 1 /\ sum[m] = e /\ m \in DOMAIN sum
      BY <1>1, <1>3, <2>3
    <3> QED
      BY <3>1 DEF Entries
  <2>4. CASE k \notin 1 .. n /\ m \notin 1 .. n
    BY <1>1, <2>4
  <2> QED
    BY <2>1, <2>2, <2>3, <2>4
<1> QED
  BY <1>2, <1>3 DEF t

\* A label goes on to the next of its coin, or to one that is not an amount.
LEMMA DonePlain ==
  ASSUME p.pc \in Plain \ {"FROM_AMOUNT", "TO_AMOUNT"}, p'.pc = Following[p.pc],
         SameCoins, shape' = shape
  PROVE  /\ FromDone' = FromDone /\ ToDone' = ToDone
         /\ p'.pc \in {"FROM_AMOUNT", "TO_AMOUNT"} => p.pc \in {"FROM_ASSET", "TO_ASSET"}
BY DEF Plain, Behind, Following, SameCoins, FromDone, ToDone, InputLabels, OutputLabels

LEMMA DoneEarly ==
  ASSUME p.pc \in Early, p'.pc \in Early
  PROVE  /\ FromDone' = FromDone /\ ToDone' = ToDone
         /\ p'.pc \notin {"FROM_AMOUNT", "TO_AMOUNT"}
BY DEF Early, FromDone, ToDone, InputLabels, OutputLabels

LEMMA AmountKeepsSum ==
  ASSUME TypeInv, NEW st, Standing(st), SumInv, Amount
  PROVE  SumInv'
<1>1. /\ shape' = shape /\ p.pc \in {"FROM_AMOUNT", "TO_AMOUNT"} /\ p'.pc = Following[p.pc]
      /\ p'.sum = IF p.nuls THEN Append(p.sum, <<p.pc, p.array>>) ELSE p.sum
      /\ p'.array = p.array
  BY AmountEffect DEF Stay, SameCoins
<1>2. p.array \in Nat /\ p.sum \in Seq(Labels \X Nat) /\ p.pc \in Labels
  BY DEF TypeInv, ParserType
<1>3. p'.pc \notin {"FROM_AMOUNT", "TO_AMOUNT"}
  BY <1>1 DEF Following
<1> DEFINE e == <<p.pc, p.array>>
           froms == NulsOf("FROM_AMOUNT", shape.from, FromDone)
           tos == NulsOf("TO_AMOUNT", shape.to, ToDone)
<1>4. Len(shape.from) \in Nat
  BY ShapeFacts DEF TypeInv
<1>5. FromDone \in Nat /\ ToDone \in Nat
  BY <1>1, <1>2, <1>4 DEF FromDone, ToDone, InputLabels, OutputLabels
<1>6. e \notin Entries(p.sum)
  <2>1. Entries(p.sum) = froms \cup tos
    BY DEF SumInv
  <2>2. e \notin froms
    <3>1. CASE p.pc = "FROM_AMOUNT"
      <4>1. FromDone = p.array
        BY <3>1 DEF FromDone, InputLabels
      <4> QED
        BY <4>1, <1>2, <1>5, NulsOfMembers
    <3>2. CASE p.pc = "TO_AMOUNT"
      BY <3>2, <1>5, NulsOfMembers
    <3> QED
      BY <1>1, <3>1, <3>2
  <2>3. e \notin tos
    <3>1. CASE p.pc = "FROM_AMOUNT"
      BY <3>1, <1>5, NulsOfMembers
    <3>2. CASE p.pc = "TO_AMOUNT"
      <4>1. ToDone = p.array
        BY <3>2 DEF ToDone, OutputLabels
      <4> QED
        BY <4>1, <1>2, <1>5, NulsOfMembers
    <3> QED
      BY <1>1, <3>1, <3>2
  <2> QED
    BY <2>1, <2>2, <2>3
<1>7. /\ Entries(p'.sum) = Entries(p.sum) \cup (IF p.nuls THEN {e} ELSE {})
      /\ \A k, m \in DOMAIN p'.sum : p'.sum[k] = p'.sum[m] => k = m
  <2>1. \A k, m \in DOMAIN p.sum : p.sum[k] = p.sum[m] => k = m
    BY DEF SumInv
  <2>2. CASE p.nuls
    <3>1. e \in Labels \X Nat /\ p'.sum = Append(p.sum, e)
      BY <1>1, <1>2, <2>2
    <3> HIDE DEF e
    <3> QED
      BY SMTT(30), <3>1, <1>2, <1>6, <2>1, <2>2, AppendEntries
  <2>3. CASE ~p.nuls
    BY <1>1, <2>1, <2>3
  <2> QED
    BY <2>2, <2>3
<1>8. CASE p.pc = "FROM_AMOUNT"
  <2>1. FromDone = p.array /\ FromDone' = p.array + 1 /\ ToDone' = ToDone
    BY <1>1, <1>8 DEF FromDone, ToDone, InputLabels, OutputLabels, Following
  <2>2. p.nuls = shape.from[p.array + 1]
    BY <1>8 DEF SumInv
  <2>3. NulsOf("FROM_AMOUNT", shape.from, p.array + 1) = froms \cup (IF p.nuls THEN {e} ELSE {})
    BY ZenonT(60), <2>1, <2>2, <1>2, <1>8, NulsOfNext
  <2>4. Entries(p'.sum) = NulsOf("FROM_AMOUNT", shape.from, FromDone') \cup tos
    <3>1. Entries(p.sum) = froms \cup tos
      BY DEF SumInv
    <3> HIDE DEF froms, tos, e
    <3> QED
      BY <3>1, <2>1, <2>3, <1>7
  <2>5. NulsOf("TO_AMOUNT", shape.to, ToDone') = tos
    BY <2>1
  <2> HIDE DEF tos
  <2> QED
    BY <2>4, <2>5, <1>1, <1>3, <1>7 DEF SumInv, NulsOf, Entries
<1>9. CASE p.pc = "TO_AMOUNT"
  <2>1. ToDone = p.array /\ ToDone' = p.array + 1 /\ FromDone' = FromDone
    BY <1>1, <1>9 DEF FromDone, ToDone, InputLabels, OutputLabels, Following
  <2>2. p.nuls = shape.to[p.array + 1]
    BY <1>9 DEF SumInv
  <2>3. NulsOf("TO_AMOUNT", shape.to, p.array + 1) = tos \cup (IF p.nuls THEN {e} ELSE {})
    BY ZenonT(60), <2>1, <2>2, <1>2, <1>9, NulsOfNext
  <2>4. Entries(p'.sum) = froms \cup NulsOf("TO_AMOUNT", shape.to, ToDone')
    <3>1. Entries(p.sum) = froms \cup tos
      BY DEF SumInv
    <3> HIDE DEF froms, tos, e
    <3> QED
      BY <3>1, <2>1, <2>3, <1>7
  <2>5. NulsOf("FROM_AMOUNT", shape.from, FromDone') = froms
    BY <2>1
  <2> HIDE DEF froms
  <2> QED
    BY <2>4, <2>5, <1>1, <1>3, <1>7 DEF SumInv, NulsOf, Entries
<1> QED
  BY <1>1, <1>8, <1>9

LEMMA AssetKeepsSum ==
  ASSUME TypeInv, NEW st, Standing(st), SumInv, Asset
  PROVE  SumInv'
<1>1. /\ shape' = shape /\ p.pc \in {"FROM_ASSET", "TO_ASSET"} /\ p'.pc = Following[p.pc]
      /\ p'.nuls = (HeadValue = 1) /\ p'.sum = p.sum /\ SameCoins /\ Enough
  BY AssetEffect DEF Stay
<1>2. p.pc \in Plain \ {"FROM_AMOUNT", "TO_AMOUNT"}
  BY <1>1 DEF Plain, Behind
<1>3. FromDone' = FromDone /\ ToDone' = ToDone
  BY <1>1, <1>2, DonePlain
<1>4. /\ p'.pc = "FROM_AMOUNT" => p'.nuls = shape.from[p'.array + 1]
      /\ p'.pc = "TO_AMOUNT" => p'.nuls = shape.to[p'.array + 1]
  BY <1>1, CountFacts DEF Following, SameCoins
<1> QED
  BY <1>1, <1>3, <1>4 DEF SumInv, Entries, NulsOf

\* The count of a side, and the end of a coin.
LEMMA CountsKeepSum ==
  ASSUME TypeInv, NEW st, Standing(st), SumInv, FromCount \/ ToCount \/ EndFrom \/ EndTo
  PROVE  SumInv'
<1>0. shape \in Shapes /\ p.array \in Nat
  BY DEF TypeInv, ParserType
<1>1. CASE FromCount
  <2>1. /\ shape' = shape /\ p.pc = "FROM" /\ SameSum /\ p'.array = 0
        /\ p'.pc = IF Len(shape.from) = 0 THEN "TO" ELSE "FROM_ADDRESS"
    BY <1>1, FromCountEffect, CountFacts DEF Stay
  <2> QED
    BY <2>1, SumStays DEF FromDone, ToDone, InputLabels, OutputLabels
<1>2. CASE ToCount
  <2>1. /\ shape' = shape /\ p.pc = "TO" /\ SameSum /\ p'.array = 0
        /\ p'.pc = IF Len(shape.to) = 0 THEN "END" ELSE "TO_ADDRESS"
    BY <1>2, ToCountEffect, CountFacts DEF Stay
  <2> QED
    BY <2>1, SumStays DEF FromDone, ToDone, InputLabels, OutputLabels
<1>3. CASE EndFrom
  <2>1. /\ shape' = shape /\ p.pc = "FROM_LOCKED" /\ SameSum /\ p'.array = p.array + 1
        /\ p'.pc = IF p.array + 1 < p.froms THEN "FROM_ADDRESS" ELSE "TO"
    BY <1>3, EndFromEffect DEF Stay
  <2>2. p.array < Len(shape.from) /\ p.froms = Len(shape.from) /\ Len(shape.from) \in Nat
    BY <2>1, <1>0, CoinFacts, ShapeFacts DEF InputLabels
  <2>3. p'.pc = "TO" => p.array + 1 = Len(shape.from)
    BY <2>1, <2>2, <1>0
  <2> QED
    BY <2>1, <2>3, SumStays DEF FromDone, ToDone, InputLabels, OutputLabels
<1>4. CASE EndTo
  <2>1. /\ shape' = shape /\ p.pc = "TO_LOCKTIME" /\ SameSum /\ p'.array = p.array + 1
        /\ p'.pc = IF p.array + 1 >= p.tos THEN "END" ELSE "TO_ADDRESS"
    BY <1>4, EndToEffect DEF Stay
  <2>2. p.array < Len(shape.to) /\ p.tos = Len(shape.to) /\ Len(shape.to) \in Nat
    BY <2>1, <1>0, CoinFacts, ShapeFacts DEF OutputLabels
  <2>3. p'.pc = "END" => p.array + 1 = Len(shape.to)
    BY <2>1, <2>2, <1>0
  <2> QED
    BY <2>1, <2>3, SumStays DEF FromDone, ToDone, InputLabels, OutputLabels
<1> QED
  BY <1>1, <1>2, <1>3, <1>4

\* Every other step of the parser leaves the sum alone.
LEMMA OthersKeepSum ==
  ASSUME TypeInv, SumInv, phase' # "failed",
         \/ Reserve \/ ReadType \/ SkipFixed \/ TxDataLength \/ CoinDataLength
         \/ SkipVar \/ CaptureFixed \/ CaptureVar
         \/ ArgCount \/ ValueCount \/ ElementLength \/ Element \/ SkipValue
         \/ LengthError \/ ValueError \/ Finish
  PROVE  SumInv'
<1>1. CASE Reserve \/ LengthError \/ ValueError
  <2>1. shape' = shape /\ p'.pc = p.pc /\ SameCoins /\ SameSum
    BY <1>1, ReserveEffect, LengthErrorEffect, ValueErrorEffect
  <2> QED
    BY <2>1, SumStays DEF SameCoins, FromDone, ToDone
<1>2. CASE Finish
  BY <1>2, FinishEffect DEF SumInv, FromDone, ToDone
<1>3. ASSUME \/ ReadType \/ TxDataLength \/ ArgCount \/ ValueCount
             \/ ElementLength \/ Element \/ SkipValue
      PROVE  SumInv'
  <2>1. shape' = shape /\ p.pc \in Early /\ p'.pc \in Early /\ SameSum
    <3>1. p.pc \in Labels
      BY DEF TypeInv, ParserType
    <3>2. p'.pc \in Labels
      BY <1>3, ReadTypeEffect, TxDataLengthEffect, ArgCountEffect, ValueCountEffect,
         ElementLengthEffect, ElementEffect, SkipValueEffect DEF ParserType
    <3>3. CASE ReadType
      BY <3>1, <3>2, <3>3, ReadTypeEffect DEF Early, InputLabels, OutputLabels, Stay
    <3>4. CASE TxDataLength
      BY <3>1, <3>2, <3>4, TxDataLengthEffect DEF Early, InputLabels, OutputLabels, Stay
    <3>5. CASE ArgCount
      BY <3>1, <3>2, <3>5, ArgCountEffect DEF Early, InputLabels, OutputLabels, Stay
    <3>6. CASE ValueCount
      BY <3>1, <3>2, <3>6, ValueCountEffect DEF Early, InputLabels, OutputLabels
    <3>7. CASE ElementLength
      BY <3>1, <3>2, <3>7, ElementLengthEffect DEF Early, InputLabels, OutputLabels
    <3>8. CASE Element
      BY <3>1, <3>2, <3>8, ElementEffect DEF Early, InputLabels, OutputLabels, Stay
    <3>9. CASE SkipValue
      BY <3>1, <3>2, <3>9, SkipValueEffect DEF Early, InputLabels, OutputLabels, Stay
    <3> QED
      BY <1>3, <3>3, <3>4, <3>5, <3>6, <3>7, <3>8, <3>9
  <2> QED
    BY <2>1, DoneEarly, SumStays
<1>4. ASSUME SkipFixed \/ CoinDataLength \/ SkipVar \/ CaptureFixed \/ CaptureVar
      PROVE  SumInv'
  <2>1. /\ shape' = shape /\ SameCoins /\ SameSum
        /\ \/ p.pc = "TXD" /\ p'.pc = "COD"
           \/ /\ p.pc \in Plain \ {"FROM_AMOUNT", "TO_AMOUNT", "FROM_ASSET", "TO_ASSET"}
              /\ p'.pc = Following[p.pc]
    <3>1. CASE SkipFixed
      BY <3>1, SkipFixedEffect DEF Stay, Plain, Behind
    <3>2. CASE CoinDataLength
      BY <3>2, CoinDataLengthEffect DEF Stay, Plain, Behind, Following
    <3>3. CASE SkipVar
      BY <3>3, SkipVarEffect DEF Stay, Plain, Behind
    <3>4. CASE CaptureFixed
      BY <3>4, CaptureFixedEffect DEF Stay, Plain, Behind
    <3>5. CASE CaptureVar
      BY <3>5, CaptureVarEffect DEF Stay, Plain, Behind, CapturedVar
    <3> QED
      BY <1>4, <3>1, <3>2, <3>3, <3>4, <3>5
  <2>2. CASE p.pc = "TXD" /\ p'.pc = "COD"
    BY <2>1, <2>2, SumStays DEF FromDone, ToDone, InputLabels, OutputLabels
  <2>3. CASE /\ p.pc \in Plain \ {"FROM_AMOUNT", "TO_AMOUNT", "FROM_ASSET", "TO_ASSET"}
             /\ p'.pc = Following[p.pc]
    BY <2>1, <2>3, DonePlain, SumStays
  <2> QED
    BY <2>1, <2>2, <2>3
<1> QED
  BY <1>1, <1>2, <1>3, <1>4
---------------------------------------------------------------------------
(* The pool and the places for outputs.                                     *)

Outputs == OutputLabels \cup {"END"}

LEMMA OutputRooms ==
  ASSUME shape \in Shapes
  PROVE  /\ OutputRoom \in Nat \ {0} /\ Room \in Nat /\ Width["TO_AMOUNT"] \in Nat
         /\ OutputRoom = Room + Width["TO_AMOUNT"]
         /\ MaxCoin \in Nat /\ PoolSize \in Nat /\ (MaxCoin + 1) * OutputRoom > PoolSize
<1>1. Width["TO_AMOUNT"] \in Nat \ {0}
  BY ScaleFacts DEF FixedLabels
<1> QED
  BY <1>1, ScaleFacts DEF OutputRoom

LEMMA Products ==
  ASSUME NEW c \in Nat, NEW a \in Nat
  PROVE  /\ a * c \in Nat /\ (a + 1) * c = a * c + c
         /\ \A b \in Nat : a <= b => a * c <= b * c
<1>1. a * c \in Nat /\ (a + 1) * c = a * c + c
  OBVIOUS
<1>2. ASSUME NEW b \in Nat, a <= b PROVE a * c <= b * c
  <2>1. PICK d \in Nat : b = a + d
    <3>1. b - a \in Nat /\ b = a + (b - a)
      BY <1>2
    <3> QED
      BY <3>1
  <2>2. b * c = a * c + d * c /\ d * c >= 0
    BY <2>1
  <2> QED
    BY <2>2, <1>1
<1> QED
  BY <1>1, <1>2

LEMMA PoolOutside ==
  ASSUME PoolInv, p.pc \notin Outputs, p'.pc \notin Outputs,
         \A i \in Nat : /\ <<"TO_ADDRESS", i>> \in p'.reserved => <<"TO_ADDRESS", i>> \in p.reserved
                        /\ <<"TO_AMOUNT", i>> \in p'.reserved => <<"TO_AMOUNT", i>> \in p.reserved
  PROVE  PoolInv'
<1>1. SlotInv'
  BY DEF PoolInv, SlotInv, Come, Outputs, OutputLabels
<1>2. RoomInv'
  BY DEF RoomInv, Outputs, OutputLabels
<1> QED
  BY <1>1, <1>2 DEF PoolInv

LEMMA PoolStays ==
  ASSUME PoolInv, UNCHANGED shape, p'.pc = p.pc, SameCoins, SamePool
  PROVE  PoolInv'
BY SameSizes DEF PoolInv, SlotInv, Come, RoomInv, SameCoins, SamePool, Taking, OutputRoom, ToDone

\* The pointer of an output is its own.
LEMMA OwnPlace ==
  ASSUME TypeInv, PoolInv, p.pc \in {"TO_ADDRESS", "TO_AMOUNT"}
  PROVE  Pointer = <<p.pc, p.array>> /\ Pointer # NoPointer
<1>1. p.array \in Nat /\ MaxCoin \in Nat /\ p.array <= MaxCoin
  BY ScaleFacts DEF TypeInv, ParserType, PoolInv, RoomInv, OutputLabels
<1>2. Slot(p.array) = p.array
  BY <1>1 DEF Slot
<1> QED
  BY <1>2 DEF Pointer, NoPointer

LEMMA ReserveKeepsPool ==
  ASSUME TypeInv, PoolInv, Reserve, phase' # "failed"
  PROVE  PoolInv'
<1>1. /\ UNCHANGED shape /\ ~Reserved /\ p'.pc = p.pc /\ SameCoins /\ phase # "failed"
      /\ p.pc \in {"TO_ADDRESS", "TO_AMOUNT", "CC_CADDR", "CC_VALUE", "CC_MNAME"}
      /\ p'.pool = p.pool + RoomOf /\ p'.reserved = p.reserved \cup {Pointer}
  BY ReserveEffect DEF Parsing
<1>2. /\ p.pool \in Nat /\ p.array \in Nat /\ shape \in Shapes
      /\ p.reserved \in SUBSET (Labels \X Nat)
  BY DEF TypeInv, ParserType
<1>3. CASE p.pc \in {"CC_CADDR", "CC_VALUE", "CC_MNAME"}
  <2>1. Pointer = <<p.pc, 0>>
    BY <1>3 DEF Pointer
  <2> QED
    BY <1>1, <1>3, <2>1, PoolOutside DEF Outputs, OutputLabels
<1>4. CASE p.pc \in {"TO_ADDRESS", "TO_AMOUNT"}
  <2>1. Pointer = <<p.pc, p.array>> /\ <<p.pc, p.array>> \notin p.reserved
    BY <1>1, <1>4, OwnPlace DEF Reserved
  <2>2. RoomOf = (IF p.pc = "TO_ADDRESS" THEN Room ELSE Width["TO_AMOUNT"]) /\ RoomOf \in Nat
    BY <1>2, <1>4, OutputRooms DEF RoomOf
  <2>3. OutputRoom' = OutputRoom /\ MaxCoin' = MaxCoin /\ Room' = Room /\ Width' = Width
        /\ ToDone' = ToDone
    BY <1>1, SameSizes DEF OutputRoom, ToDone, SameCoins
  <2>4. SlotInv'
    <3> SUFFICES ASSUME NEW CONSTANT i \in Nat PROVE Come(i)'
      BY DEF SlotInv
    <3>1. Come(i) /\ p.pc \in OutputLabels /\ p'.array = p.array /\ p.array <= p.array
      BY <1>1, <1>2, <1>4 DEF PoolInv, SlotInv, OutputLabels, SameCoins
    <3>2. /\ <<"TO_ADDRESS", i>> \in p'.reserved =>
               <<"TO_ADDRESS", i>> \in p.reserved \/ i = p.array
          /\ <<"TO_AMOUNT", i>> \in p'.reserved =>
               <<"TO_AMOUNT", i>> \in p.reserved \/ (p.pc = "TO_AMOUNT" /\ i = p.array)
      BY <1>1, <2>1
    <3> QED
      BY <3>1, <3>2, <1>1, <2>3 DEF Come
  <2>5. p.array * OutputRoom \in Nat /\ Room \in Nat /\ Width["TO_AMOUNT"] \in Nat
    BY <1>2, OutputRooms, Products
  <2>6. p.array <= MaxCoin
    BY <1>4 DEF PoolInv, RoomInv, OutputLabels
  <2>7. CASE p.pc = "TO_ADDRESS"
    <3>1. p.pool >= p.array * OutputRoom
      BY <2>1, <2>5, <2>7, <1>2 DEF PoolInv, RoomInv, Taking
    <3>2. p'.pool >= p.array * OutputRoom + Room
      BY <3>1, <1>1, <1>2, <2>2, <2>5, <2>7
    <3>3. Taking("TO_ADDRESS", Room)' = Room
      BY <1>1, <2>1, <2>3, <2>7 DEF Taking, SameCoins
    <3>4. RoomInv'
      BY <3>2, <3>3, <1>1, <2>3, <2>6, <2>7 DEF RoomInv, SameCoins
    <3> QED
      BY <3>4, <2>4 DEF PoolInv
  <2>8. CASE p.pc = "TO_AMOUNT"
    <3>1. p.pool >= p.array * OutputRoom + Room
      BY <2>1, <2>5, <2>8, <1>2 DEF PoolInv, RoomInv, Taking
    <3>2. p'.pool >= p.array * OutputRoom + Room + Width["TO_AMOUNT"]
      BY <3>1, <1>1, <1>2, <2>2, <2>5, <2>8
    <3>3. Taking("TO_AMOUNT", Width["TO_AMOUNT"])' = Width["TO_AMOUNT"]
      BY <1>1, <2>1, <2>3, <2>8 DEF Taking, SameCoins
    <3>4. RoomInv'
      BY <3>2, <3>3, <1>1, <2>3, <2>6, <2>8 DEF RoomInv, SameCoins
    <3> QED
      BY <3>4, <2>4 DEF PoolInv
  <2> QED
    BY <1>4, <2>7, <2>8
<1> QED
  BY <1>1, <1>3, <1>4

\* The fields of an output up to the last.
LEMMA FieldKeepsPool ==
  ASSUME TypeInv, PoolInv, UNCHANGED shape, Reserved, SameCoins, SamePool,
         p.pc \in {"TO_ADDRESS", "TO_CHAIN", "TO_ASSET", "TO_AMOUNT"}, p'.pc = Following[p.pc]
  PROVE  PoolInv'
<1>1. /\ p.pool \in Nat /\ p.array \in Nat /\ shape \in Shapes /\ p'.array = p.array
      /\ p'.reserved = p.reserved /\ p'.pool = p.pool
  BY DEF TypeInv, ParserType, SameCoins, SamePool
<1>2. OutputRoom' = OutputRoom /\ MaxCoin' = MaxCoin /\ Room' = Room /\ Width' = Width
  BY SameSizes DEF OutputRoom
<1>3. p'.pc \in OutputLabels /\ p.pc \in OutputLabels /\ p'.pc # "TO_ADDRESS"
  BY DEF Following, OutputLabels
<1>4. SlotInv'
  <2>1. ToDone' = IF p.pc = "TO_AMOUNT" THEN p.array + 1 ELSE ToDone
    BY <1>1 DEF ToDone, Following, OutputLabels
  <2>2. ToDone = p.array
    BY <1>3 DEF ToDone
  <2> SUFFICES ASSUME NEW CONSTANT i \in Nat PROVE Come(i)'
    BY DEF SlotInv
  <2>3. Come(i)
    BY DEF PoolInv, SlotInv
  <2>4. p.pc # "END"
    BY <1>3 DEF OutputLabels
  <2>5. i < ToDone => i < ToDone'
    BY <1>1, <2>1, <2>2
  <2>6. p.pc = "TO_AMOUNT" /\ i = p.array => i < ToDone'
    BY <1>1, <2>1
  <2> QED
    BY <2>3, <2>4, <2>5, <2>6, <1>1, <1>3 DEF Come
<1>5. /\ p.array * OutputRoom \in Nat /\ Room \in Nat /\ Width["TO_AMOUNT"] \in Nat
      /\ (p.array + 1) * OutputRoom = p.array * OutputRoom + OutputRoom
      /\ OutputRoom = Room + Width["TO_AMOUNT"]
  BY <1>1, OutputRooms, Products
<1>6. p.array <= MaxCoin
  BY <1>3 DEF PoolInv, RoomInv
<1>7. CASE p.pc \in {"TO_ADDRESS", "TO_CHAIN", "TO_ASSET"}
  <2>1. p.pool >= p.array * OutputRoom + Room
    <3>1. p.pc = "TO_ADDRESS" => <<"TO_ADDRESS", p.array>> \in p.reserved
      BY OwnPlace DEF Reserved
    <3> QED
      BY <3>1, <1>7 DEF PoolInv, RoomInv, Taking
  <2>2. p'.pc = "TO_AMOUNT" => Taking("TO_AMOUNT", Width["TO_AMOUNT"])' = 0
    <3>1. p'.pc = "TO_AMOUNT" => <<"TO_AMOUNT", p.array>> \notin p.reserved
      <4>1. ~(p.array < p.array) /\ ToDone = p.array /\ p.pc \notin {"END", "TO_AMOUNT"}
        BY <1>1, <1>3, <1>7 DEF ToDone
      <4>2. Come(p.array)
        BY <1>1 DEF PoolInv, SlotInv
      <4> QED
        BY <4>1, <4>2 DEF Come
    <3> QED
      BY <3>1, <1>1 DEF Taking
  <2>3. p'.pc \in {"TO_CHAIN", "TO_ASSET", "TO_AMOUNT"}
    BY <1>7 DEF Following
  <2>4. p'.pool >= p'.array * OutputRoom + Room + 0
    BY <2>1, <1>1, <1>5
  <2>5. RoomInv'
    BY <1>1, <1>2, <1>6, <2>1, <2>2, <2>3, <2>4 DEF RoomInv
  <2> QED
    BY <2>5, <1>4 DEF PoolInv
<1>8. CASE p.pc = "TO_AMOUNT"
  <2>1. <<"TO_AMOUNT", p.array>> \in p.reserved
    BY <1>8, OwnPlace DEF Reserved
  <2>2. p.pool >= p.array * OutputRoom + Room + Width["TO_AMOUNT"]
    BY <2>1, <1>8 DEF PoolInv, RoomInv, Taking
  <2>3. p.pool >= (p.array + 1) * OutputRoom
    BY <2>2, <1>1, <1>5
  <2>4. p'.pc = "TO_LOCKTIME"
    BY <1>8 DEF Following
  <2>5. RoomInv'
    BY <1>1, <1>2, <1>6, <2>3, <2>4 DEF RoomInv
  <2> QED
    BY <2>5, <1>4 DEF PoolInv
<1> QED
  BY <1>7, <1>8

\* There is a place for every output that has been read.
LEMMA PlaceForEach ==
  ASSUME TypeInv, PoolInv, p.pc = "TO_LOCKTIME"
  PROVE  p.array + 1 <= MaxCoin
<1>1. p.pool \in Nat /\ p.array \in Nat /\ shape \in Shapes /\ p.pool <= PoolSize
  BY DEF TypeInv, ParserType
<1>2. p.pool >= (p.array + 1) * OutputRoom
  BY DEF PoolInv, RoomInv
<1>3. /\ OutputRoom \in Nat /\ MaxCoin \in Nat /\ PoolSize \in Nat
      /\ (MaxCoin + 1) * OutputRoom > PoolSize
  BY <1>1, OutputRooms
<1>4. ASSUME MaxCoin + 1 <= p.array + 1 PROVE FALSE
  <2>1. /\ (MaxCoin + 1) * OutputRoom <= (p.array + 1) * OutputRoom
        /\ (MaxCoin + 1) * OutputRoom \in Nat /\ (p.array + 1) * OutputRoom \in Nat
    <3>1. MaxCoin + 1 \in Nat /\ p.array + 1 \in Nat
      BY <1>1, <1>3
    <3> QED
      BY <3>1, <1>3, <1>4, Products
  <2> QED
    BY <2>1, <1>1, <1>2, <1>3
<1> QED
  BY <1>1, <1>3, <1>4

LEMMA EndToKeepsPool ==
  ASSUME TypeInv, NEW st, Standing(st), PoolInv, EndTo
  PROVE  PoolInv'
<1>1. /\ UNCHANGED shape /\ p.pc = "TO_LOCKTIME" /\ p'.array = p.array + 1 /\ SamePool
      /\ p'.pc = IF p.array + 1 >= p.tos THEN "END" ELSE "TO_ADDRESS"
      /\ p'.tos = IF p.array + 1 >= p.tos /\ p.tos > MaxCoin THEN MaxCoin ELSE p.tos
  BY EndToEffect DEF Stay
<1>2. /\ p.pool \in Nat /\ p.array \in Nat /\ shape \in Shapes
      /\ p'.reserved = p.reserved /\ p'.pool = p.pool
  BY <1>1 DEF TypeInv, ParserType, SamePool
<1>3. p.array + 1 <= MaxCoin /\ MaxCoin \in Nat
  BY <1>1, <1>2, PlaceForEach, OutputRooms
<1>4. /\ p.array < Len(shape.to) /\ p.tos = Len(shape.to) /\ Len(shape.to) \in Nat
  BY <1>1, <1>2, CoinFacts, ShapeFacts DEF OutputLabels
<1>5. OutputRoom' = OutputRoom /\ MaxCoin' = MaxCoin
  BY <1>1, SameSizes DEF OutputRoom
<1>6. SlotInv'
  <2>1. p'.pc = "TO_ADDRESS" => ToDone' = p.array + 1 /\ p'.pc \in OutputLabels
    BY <1>1 DEF ToDone, OutputLabels
  <2>2. ToDone = p.array + 1
    BY <1>1 DEF ToDone, OutputLabels
  <2> SUFFICES ASSUME NEW CONSTANT i \in Nat PROVE Come(i)'
    BY DEF SlotInv
  <2>3. Come(i) /\ p.pc \notin {"END", "TO_AMOUNT"}
    BY <1>1 DEF PoolInv, SlotInv
  <2>4. i <= p.array => i <= p'.array
    BY <1>1, <1>2
  <2> QED
    BY <2>1, <2>2, <2>3, <2>4, <1>1, <1>2 DEF Come
<1>7. CASE p'.pc = "END"
  <2>1. p.tos = p.array + 1 /\ ~(p.tos > MaxCoin)
    BY <1>1, <1>2, <1>3, <1>4, <1>7
  <2>2. RoomInv'
    BY <1>1, <1>4, <1>7, <2>1 DEF RoomInv, OutputLabels
  <2> QED
    BY <2>2, <1>6 DEF PoolInv
<1>8. CASE p'.pc = "TO_ADDRESS"
  <2>1. Taking("TO_ADDRESS", Room)' = 0
    <3>1. <<"TO_ADDRESS", p.array + 1>> \notin p.reserved
      <4>1. p.array + 1 \in Nat /\ ~(p.array + 1 <= p.array) /\ p.pc # "END"
        BY <1>1, <1>2
      <4> QED
        BY <4>1 DEF PoolInv, SlotInv, Come
    <3> QED
      BY <3>1, <1>1, <1>2 DEF Taking
  <2>2. p'.pool >= (p.array + 1) * OutputRoom + 0
    <3>1. p.pool >= (p.array + 1) * OutputRoom
      BY <1>1 DEF PoolInv, RoomInv
    <3>2. (p.array + 1) * OutputRoom \in Nat
      <4>1. p.array + 1 \in Nat /\ OutputRoom \in Nat
        BY <1>2, OutputRooms
      <4> QED
        BY <4>1, Products
    <3> QED
      BY <3>1, <3>2, <1>2
  <2>3. RoomInv'
    BY <1>1, <1>3, <1>5, <1>8, <2>1, <2>2 DEF RoomInv
  <2> QED
    BY <2>3, <1>6 DEF PoolInv
<1> QED
  BY <1>1, <1>7, <1>8

LEMMA ToCountKeepsPool ==
  ASSUME TypeInv, NEW st, Standing(st), PoolInv, ToCount
  PROVE  PoolInv'
<1>1. /\ UNCHANGED shape /\ p.pc = "TO" /\ p'.array = 0 /\ SamePool
      /\ p'.tos = Len(shape.to)
      /\ p'.pc = IF Len(shape.to) = 0 THEN "END" ELSE "TO_ADDRESS"
  BY ToCountEffect, CountFacts DEF Stay
<1>2. /\ p.pool \in Nat /\ shape \in Shapes /\ p'.reserved = p.reserved /\ p'.pool = p.pool
  BY <1>1 DEF TypeInv, ParserType, SamePool
<1>3. \A i \in Nat : <<"TO_ADDRESS", i>> \notin p.reserved /\ <<"TO_AMOUNT", i>> \notin p.reserved
  BY <1>1 DEF PoolInv, SlotInv, Come, OutputLabels
<1>4. SlotInv'
  BY <1>2, <1>3 DEF SlotInv, Come
<1>5. Taking("TO_ADDRESS", Room)' = 0
  <2>1. <<"TO_ADDRESS", 0>> \notin p'.reserved
    BY <1>2, <1>3
  <2> QED
    BY <2>1, <1>1 DEF Taking
<1>6. OutputRoom' \in Nat /\ MaxCoin' \in Nat
  BY <1>1, <1>2, SameSizes, OutputRooms DEF OutputRoom
<1>7. 0 * OutputRoom' + 0 = 0
  <2>1. PICK c \in Nat : c = OutputRoom'
    BY <1>6
  <2>2. 0 * c + 0 = 0
    OBVIOUS
  <2> QED
    BY <2>1, <2>2
<1>8. RoomInv'
  BY <1>1, <1>2, <1>5, <1>6, <1>7 DEF RoomInv, OutputLabels
<1> QED
  BY <1>4, <1>8 DEF PoolInv

LEMMA ParsingKeepsPool ==
  ASSUME TypeInv, PositionInv, PoolInv, Parse, phase' # "failed"
  PROVE  PoolInv'
<1>1. PICK st \in Nat : Standing(st)
  BY ParsingStands
<1>2. CASE Reserve
  BY <1>2, ReserveKeepsPool
<1>3. CASE EndTo
  BY <1>1, <1>3, EndToKeepsPool
<1>4. CASE ToCount
  BY <1>1, <1>4, ToCountKeepsPool
<1>5. CASE LengthError \/ ValueError
  <2>1. UNCHANGED shape /\ p'.pc = p.pc /\ SameCoins /\ SamePool
    BY <1>5, LengthErrorEffect, ValueErrorEffect
  <2> QED
    BY <2>1, PoolStays
<1>6. CASE Finish
  <2>1. UNCHANGED <<shape, p>>
    BY <1>6, FinishEffect
  <2> QED
    BY <2>1, PoolStays DEF SameCoins, SamePool
<1>7. ASSUME \/ ReadType \/ TxDataLength \/ CoinDataLength \/ CaptureFixed
             \/ ArgCount \/ ValueCount \/ ElementLength \/ Element \/ SkipValue
             \/ FromCount \/ EndFrom \/ SkipVar
      PROVE  PoolInv'
  <2>1. p'.reserved = p.reserved /\ p.pc \notin Outputs /\ p'.pc \notin Outputs
    <3>1. CASE ReadType
      BY <3>1, ReadTypeEffect DEF Outputs, OutputLabels
    <3>2. CASE TxDataLength
      BY <3>2, TxDataLengthEffect DEF Outputs, OutputLabels, SamePool
    <3>3. CASE CoinDataLength
      BY <3>3, CoinDataLengthEffect DEF Outputs, OutputLabels, SamePool
    <3>4. CASE CaptureFixed
      BY <3>4, CaptureFixedEffect DEF Outputs, OutputLabels, SamePool, Following
    <3>5. CASE ArgCount
      BY <3>5, ArgCountEffect DEF Outputs, OutputLabels, SamePool
    <3>6. CASE ValueCount
      BY <3>6, ValueCountEffect DEF Outputs, OutputLabels, SamePool
    <3>7. CASE ElementLength
      BY <3>7, ElementLengthEffect DEF Outputs, OutputLabels
    <3>8. CASE Element
      BY <3>8, ElementEffect DEF Outputs, OutputLabels, SamePool
    <3>9. CASE SkipValue
      BY <3>9, SkipValueEffect DEF Outputs, OutputLabels, SamePool
    <3>10. CASE FromCount
      BY <3>10, FromCountEffect DEF Outputs, OutputLabels, SamePool
    <3>11. CASE EndFrom
      BY <3>11, EndFromEffect DEF Outputs, OutputLabels, SamePool
    <3>12. CASE SkipVar
      BY <3>12, SkipVarEffect DEF Outputs, OutputLabels, SamePool, Following
    <3> QED
      BY <1>7, <3>1, <3>2, <3>3, <3>4, <3>5, <3>6, <3>7, <3>8, <3>9, <3>10, <3>11, <3>12
  <2> QED
    BY <2>1, PoolOutside
<1>8. ASSUME SkipFixed \/ CaptureVar \/ Asset \/ Amount
      PROVE  PoolInv'
  <2>1. /\ UNCHANGED shape /\ Reserved /\ SameCoins /\ SamePool /\ p'.pc = Following[p.pc]
        /\ \/ p.pc \in {"TO_ADDRESS", "TO_CHAIN", "TO_ASSET", "TO_AMOUNT"}
           \/ p.pc \notin Outputs /\ p'.pc \notin Outputs
    <3>1. CASE SkipFixed
      BY <3>1, SkipFixedEffect DEF Outputs, OutputLabels, Following, Enough, Stay
    <3>2. CASE CaptureVar
      BY <3>2, CaptureVarEffect DEF Outputs, OutputLabels, Following, Stay, CapturedVar
    <3>3. CASE Asset
      BY <3>3, AssetEffect DEF Outputs, OutputLabels, Following, Enough, Stay
    <3>4. CASE Amount
      BY <3>4, AmountEffect DEF Outputs, OutputLabels, Following, Stay
    <3> QED
      BY <1>8, <3>1, <3>2, <3>3, <3>4
  <2>2. p'.reserved = p.reserved
    BY <2>1 DEF SamePool
  <2> QED
    BY <2>1, <2>2, FieldKeepsPool, PoolOutside
<1> QED
  BY <1>2, <1>3, <1>4, <1>5, <1>6, <1>7, <1>8 DEF Parse

LEMMA ParsingKeepsSum ==
  ASSUME TypeInv, PositionInv, SumInv, Parse, phase' # "failed"
  PROVE  SumInv'
<1>1. PICK st \in Nat : Standing(st)
  BY ParsingStands
<1>2. CASE Amount
  BY <1>1, <1>2, AmountKeepsSum
<1>3. CASE Asset
  BY <1>1, <1>3, AssetKeepsSum
<1>4. CASE FromCount \/ ToCount \/ EndFrom \/ EndTo
  BY <1>1, <1>4, CountsKeepSum
<1>5. ASSUME \/ Reserve \/ ReadType \/ SkipFixed \/ TxDataLength \/ CoinDataLength
             \/ SkipVar \/ CaptureFixed \/ CaptureVar
             \/ ArgCount \/ ValueCount \/ ElementLength \/ Element \/ SkipValue
             \/ LengthError \/ ValueError \/ Finish
      PROVE  SumInv'
  BY <1>5, OthersKeepSum
<1> QED
  BY <1>2, <1>3, <1>4, <1>5 DEF Parse

---------------------------------------------------------------------------
(* The sum and the outputs, in every session.                               *)

CoinInv == phase # "failed" => SumInv /\ PoolInv

LEMMA CoinsBegin == p = Fresh(p.pool) => SumInv /\ PoolInv
<1> SUFFICES ASSUME p = Fresh(p.pool) PROVE SumInv /\ PoolInv
  OBVIOUS
<1>1. p.pc = "TYP" /\ p.sum = <<>> /\ p.reserved = {}
  BY DEF Fresh
<1>2. FromDone = 0 /\ ToDone = 0
  BY <1>1 DEF FromDone, ToDone, InputLabels, OutputLabels
<1>3. 0 .. 0 - 1 = {}
  OBVIOUS
<1>4. SumInv
  BY <1>1, <1>2, <1>3 DEF SumInv, Entries, NulsOf
<1>5. PoolInv
  BY <1>1 DEF PoolInv, SlotInv, Come, RoomInv, OutputLabels
<1> QED
  BY <1>4, <1>5

LEMMA CoinsStart == Init => CoinInv
<1> SUFFICES ASSUME Init PROVE CoinInv
  OBVIOUS
<1>1. p = Fresh(p.pool)
  BY DEF Init, Fresh
<1> QED
  BY <1>1, CoinsBegin DEF CoinInv

LEMMA CoinsStep == TypeInv /\ PositionInv /\ CoinInv /\ [Next]_vars => CoinInv'
<1> SUFFICES ASSUME TypeInv, PositionInv, CoinInv, [Next]_vars PROVE CoinInv'
  OBVIOUS
<1>1. CASE Parse
  <2>1. SumInv /\ PoolInv
    BY <1>1, ParsingStands DEF CoinInv
  <2> QED
    BY <1>1, <2>1, ParsingKeepsSum, ParsingKeepsPool DEF CoinInv
<1>2. ASSUME NEW n \in Sizes, NEW m \in BOOLEAN, Absorb(n, m) PROVE CoinInv'
  <2>1. /\ phase = "idle" /\ shape' = shape /\ p'.pc = p.pc
        /\ SameCoins /\ SameSum /\ SamePool
    BY <1>2, SizesAreNumbers, AbsorbEffect
  <2>2. FromDone' = FromDone /\ ToDone' = ToDone /\ p'.array = p.array
    BY <2>1 DEF FromDone, ToDone, SameCoins
  <2>3. SumInv' /\ PoolInv'
    BY <2>1, <2>2, SumStays, PoolStays DEF CoinInv
  <2> QED
    BY <2>3 DEF CoinInv
<1>3. CASE NewSession
  <2>1. (p = Fresh(p.pool))'
    BY <1>3 DEF NewSession, Fresh
  <2>2. (SumInv /\ PoolInv)'
    BY <2>1, CoinsBegin, PTL
  <2> QED
    BY <2>2 DEF CoinInv
<1>4. CASE UNCHANGED vars
  <2>1. SumInv' = SumInv
    BY <1>4 DEF vars, SumInv, Entries, NulsOf, FromDone, ToDone
  <2>2. PoolInv => PoolInv'
    BY <1>4, PoolStays DEF vars, SameCoins, SamePool
  <2> QED
    BY <1>4, <2>1, <2>2 DEF vars, CoinInv
<1> QED
  BY <1>1, <1>2, <1>3, <1>4 DEF Next

LEMMA WholeSum ==
  ASSUME TypeInv, PositionInv, CoinInv
  PROVE  SummedOnce
<1> SUFFICES ASSUME phase = "done" PROVE SummedOnce
  BY DEF SummedOnce
<1>1. p.pc = "END" /\ SumInv /\ shape \in Shapes
  BY DEF TypeInv, PositionInv, CoinInv
<1>2. FromDone = Len(shape.from) /\ ToDone = Len(shape.to)
  BY <1>1 DEF FromDone, ToDone, InputLabels, OutputLabels
<1>3. ASSUME NEW label, NEW coins \in Seq(BOOLEAN)
      PROVE  NulsOf(label, coins, Len(coins))
               = {<<label, i - 1>> : i \in {i \in DOMAIN coins : coins[i]}}
  <2> DEFINE R == {<<label, i - 1>> : i \in {i \in DOMAIN coins : coins[i]}}
  <2>0. DOMAIN coins = 1 .. Len(coins) /\ Len(coins) \in Nat
    OBVIOUS
  <2>1. ASSUME NEW e \in NulsOf(label, coins, Len(coins)) PROVE e \in R
    <3>1. PICK i \in 0 .. Len(coins) - 1 : coins[i + 1] /\ e = <<label, i>>
      BY DEF NulsOf
    <3>2. PICK j \in DOMAIN coins : j = i + 1
      BY <2>0
    <3>3. j - 1 = i
      BY <2>0, <3>2
    <3> QED
      BY <3>1, <3>2, <3>3
  <2>2. ASSUME NEW e \in R PROVE e \in NulsOf(label, coins, Len(coins))
    <3>1. PICK j \in DOMAIN coins : coins[j] /\ e = <<label, j - 1>>
      OBVIOUS
    <3>2. PICK i \in 0 .. Len(coins) - 1 : i = j - 1
      BY <2>0
    <3>3. i + 1 = j
      BY <2>0, <3>2
    <3> QED
      BY <3>1, <3>2, <3>3 DEF NulsOf
  <2> QED
    BY <2>1, <2>2
<1>4. /\ NulsOf("FROM_AMOUNT", shape.from, Len(shape.from))
           = {<<"FROM_AMOUNT", i - 1>> : i \in {i \in DOMAIN shape.from : shape.from[i]}}
      /\ NulsOf("TO_AMOUNT", shape.to, Len(shape.to))
           = {<<"TO_AMOUNT", i - 1>> : i \in {i \in DOMAIN shape.to : shape.to[i]}}
  BY <1>1, <1>3, ShapeFacts
<1> QED
  BY <1>1, <1>2, <1>4 DEF SummedOnce, SumInv, NulsAmounts, Entries

\* When the review opens, the amounts that went into the fee are those of the
\* inputs and of the outputs that are in NULS, none of them twice, in whatever
\* chunks the amounts came (assets_id, add_uint256 in deserialize.c).
THEOREM ParserSums == Spec => []SummedOnce
<1>1. Init => TypeInv /\ PositionInv /\ CoinInv
  BY TypesStart, PositionStart, CoinsStart
<1>2. TypeInv /\ PositionInv /\ CoinInv /\ [Next]_vars => (TypeInv /\ PositionInv /\ CoinInv)'
  BY TypesStep, PositionStep, CoinsStep
<1>3. TypeInv /\ PositionInv /\ CoinInv => SummedOnce
  BY WholeSum
<1> QED
  BY <1>1, <1>2, <1>3, PTL DEF Spec

\* A review never lacks an output: the memory for one output too many is never
\* there, so the cap on to_len (deserialize.c) never hides one.
THEOREM ParserOutputs == Spec => []AllOutputs
<1>1. Init => TypeInv /\ PositionInv /\ CoinInv
  BY TypesStart, PositionStart, CoinsStart
<1>2. TypeInv /\ PositionInv /\ CoinInv /\ [Next]_vars => (TypeInv /\ PositionInv /\ CoinInv)'
  BY TypesStep, PositionStep, CoinsStep
<1>3. TypeInv /\ PositionInv /\ CoinInv => AllOutputs
  BY DEF PositionInv, CoinInv, PoolInv, RoomInv, AllOutputs
<1> QED
  BY <1>1, <1>2, <1>3, PTL DEF Spec
---------------------------------------------------------------------------
(* The fields that may be captured in pieces.                               *)

\* raw_tx starts with the varint of what is missing of a field.
Cutting == p.buf # <<>> /\ Head(p.buf) <= 0

\* The length of the last copy is where the next one goes: what it leaves of
\* the field has room for what is missing.
BodyWidth == IF p.pc = "TO_ADDRESS" THEN shape.addresses[p.array + 1] ELSE shape.name
BeforeName == {"TYP", "TSP", "RMK", "TXD", "CC_SENDER", "CC_CADDR", "CC_VALUE",
               "CC_GMSL", "CC_GMSP"}
LenInv ==
  /\ p.pc \in BeforeName => p.len["CC_MNAME"] = 0
  /\ p.pc \notin OutputLabels => p.len["TO_ADDRESS"] = 0
  /\ p.pc \in CapturedVar =>
       IF Cutting THEN p.len[p.pc] + HeadValue <= BodyWidth ELSE p.len[p.pc] = 0

LensInv == phase \in {"idle", "parsing"} => LenInv

\* Each chunk the host cuts holds an output's address, and the name of the
\* method: none of them is cut twice.
CutOnce ==
  \A s \in Shapes : \A n \in Scales[s.scale].chunks :
    n >= s.name /\ \A i \in DOMAIN s.to : n >= s.addresses[i]

\* So what is missing of one that was cut is all that the first copy left, and
\* comes with the next chunk.
RestInv ==
  p.pc \in CapturedVar /\ Cutting =>
    /\ p.len[p.pc] + HeadValue = BodyWidth
    /\ IF phase = "idle" THEN Len(p.buf) = VarintWidth(HeadValue) ELSE Whole

CutInv == phase \in {"idle", "parsing"} => LenInv /\ RestInv

LEMMA CapturedFacts ==
  ASSUME TypeInv, NEW st, Standing(st), p.pc \in CapturedVar
  PROVE  /\ StandsAt(st) /\ Aware /\ st \in Nat \ {0} /\ VarLabel
         /\ BodyWidth = Val(st) /\ Val(st) \in Nat /\ VarintWidth(Val(st)) \in {1, 3}
         /\ BodyWidth <= Room
         /\ p.pc = "TO_ADDRESS" => p.array + 1 \in DOMAIN shape.to
         /\ HeadLen(shape, FieldAt(st)) = VarintWidth(Val(st))
         /\ BodyLen(shape, FieldAt(st)) = Val(st)
         /\ Past(st) = st + VarintWidth(Val(st)) + Val(st)
         /\ Past(st) <= Size(shape) + 1 /\ Size(shape) \in Nat
         /\ Uncut(st) \/ \E n \in Nat : Cut(st, n)
<1>1. /\ p.pc \in {"TO_ADDRESS", "CC_MNAME"} /\ StandsAt(st) /\ Aware
      /\ st \in Nat \ {0} /\ VarLabel
      /\ Uncut(st) \/ \E n \in Nat : Cut(st, n)
  BY DEF CapturedVar, Standing, AtBody, VarLabel
<1>2. /\ FieldAt(st).label = p.pc /\ Says(shape, FieldAt(st)) /\ FieldAt(st).val = Val(st)
      /\ Val(st) \in Nat /\ VarintWidth(Val(st)) \in {1, 3}
      /\ Past(st) = st + HeadLen(shape, FieldAt(st)) + BodyLen(shape, FieldAt(st))
      /\ Past(st) <= Size(shape) + 1 /\ Size(shape) \in Nat
  BY <1>1, FieldFacts, Extents
<1>3. /\ HeadLen(shape, FieldAt(st)) = VarintWidth(Val(st))
      /\ BodyLen(shape, FieldAt(st)) = Val(st)
  BY <1>1, Extent DEF FixedLabels, CountLabel
<1>4. p.pc = "TO_ADDRESS" => FieldAt(st).i = p.array /\ p.array + 1 \in DOMAIN shape.to
  <2>1. ASSUME p.pc = "TO_ADDRESS"
        PROVE  FieldAt(st).i = p.array /\ p.array + 1 \in DOMAIN shape.to
    <3>1. FieldAt(st).i = p.array
      BY <1>1, <2>1, FieldFacts DEF Index
    <3>2. p.array < Len(shape.to)
      BY <1>2, <2>1, <3>1 DEF Says, OutputLabels
    <3>3. p.array \in Nat /\ Len(shape.to) \in Nat /\ DOMAIN shape.to = 1 .. Len(shape.to)
      BY ShapeFacts DEF TypeInv, ParserType
    <3> QED
      BY <3>1, <3>2, <3>3
  <2> QED
    BY <2>1
<1>5. BodyWidth = Val(st)
  BY <1>1, <1>2, <1>4 DEF BodyWidth, Says
<1>6. BodyWidth <= Room
  BY <1>1, <1>4, ShapeAssumption DEF BodyWidth, TypeInv, Room, Scale
<1> QED
  BY <1>1, <1>2, <1>3, <1>4, <1>5, <1>6

LEMMA CuttingIsCut ==
  ASSUME TypeInv, NEW st, Standing(st), p.pc \in CapturedVar
  PROVE  /\ Uncut(st) => ~Cutting
         /\ \A n \in Nat : Cut(st, n) => Cutting /\ HeadValue = n /\ n \in 1 .. BodyWidth
<1>1. /\ p.pc # "END" /\ st \in Nat \ {0} /\ BodyWidth = Val(st)
  BY CapturedFacts DEF CapturedVar
<1>2. p.buf # <<>> => Head(p.buf) = p.buf[1]
  BY DEF TypeInv, ParserType
<1>3. Uncut(st) => ~Cutting
  BY <1>1, <1>2, FirstByte DEF Cutting
<1>4. ASSUME NEW n \in Nat, Cut(st, n) PROVE Cutting /\ HeadValue = n /\ n \in 1 .. BodyWidth
  <2>1. n \in 1 .. Val(st) /\ VarintWidth(n) \in {1, 3}
    BY <1>4, Widths DEF Cut, TypeInv
  <2>2. p.buf # <<>>
    <3> DEFINE at == st - 1 + VarintWidth(Val(st)) + Val(st) - n
    <3>1. /\ at \in Nat /\ at <= given /\ Len(p.buf) = VarintWidth(n) + given - at
      BY <1>4 DEF Cut, Holds
    <3>2. given \in Nat /\ (p.buf = <<>> => Len(p.buf) = 0)
      BY DEF TypeInv
    <3> HIDE DEF at
    <3> QED
      BY <3>1, <3>2, <2>1
  <2>3. p.buf[1] = -n /\ HeadValue = n
    BY <1>1, <1>4, <2>2, FirstByte
  <2> QED
    BY <1>1, <1>2, <2>1, <2>2, <2>3 DEF Cutting
<1> QED
  BY <1>3, <1>4

\* The varint of what is missing is never cut itself.
LEMMA ShortIsUncut ==
  ASSUME TypeInv, NEW st, Standing(st), p.pc \in CapturedVar, Reserved, ~Enough
  PROVE  ~Cutting
<1>1. ASSUME NEW n \in Nat, Cut(st, n) PROVE FALSE
  <2> DEFINE at == st - 1 + VarintWidth(Val(st)) + Val(st) - n
  <2>1. Cutting /\ HeadValue = n /\ VarLabel
    BY <1>1, CuttingIsCut, CapturedFacts
  <2>2. Need = VarintWidth(n) /\ VarintWidth(n) \in {1, 3}
    BY <2>1, Widths DEF Need, Cutting, HeadValue, TypeInv
  <2>3. Len(p.buf) = VarintWidth(n) + given - at /\ at \in Nat /\ at <= given /\ given \in Nat
    BY <1>1 DEF Cut, Holds, TypeInv
  <2>4. Len(p.buf) >= Need
    <3> HIDE DEF at
    <3> QED
      BY <2>2, <2>3
  <2> QED
    BY <2>4 DEF Enough, CapturedVar
<1> QED
  BY <1>1, CuttingIsCut, CapturedFacts

\* What the next label finds when a field without a body has been read.
LEMMA FreshField ==
  ASSUME TypeInv, NEW st, Standing(st), Enough, ~VarLabel,
         p.pc \notin {"D_VALUE", "D_VALUE_V"}, p'.buf = After(Need)
  PROVE  ~Cutting'
<1>1. Holds(p'.buf, 0, 0, Past(st) - 1, given) /\ Past(st) \in Nat \ {0}
  BY ShortFieldRead, Extents DEF Enough, Standing
<1>2. After(Need) \in Seq(Int)
  BY Needs, Rest
<1>3. ASSUME p'.buf # <<>> PROVE Head(p'.buf) > 0
  <2>1. 1 \in 1 .. Len(p'.buf) /\ Head(p'.buf) = p'.buf[1]
    BY <1>2, <1>3
  <2>2. p'.buf[1] = Past(st) - 1 + 1 - 0
    BY <1>1, <2>1 DEF Holds
  <2> QED
    BY <1>1, <2>1, <2>2
<1> QED
  BY <1>3, <1>2 DEF Cutting

\* The lengths at a label that captures nothing in pieces.
LEMMA OtherLengths ==
  ASSUME p'.pc \notin CapturedVar,
         p'.pc \in BeforeName => p.pc \in BeforeName /\ p'.len["CC_MNAME"] = p.len["CC_MNAME"],
         p'.pc \notin OutputLabels =>
           \/ p'.len["TO_ADDRESS"] = 0
           \/ p.pc \notin OutputLabels /\ p'.len["TO_ADDRESS"] = p.len["TO_ADDRESS"],
         LenInv
  PROVE  LenInv' /\ RestInv'
BY DEF LenInv, RestInv

LEMMA ValueCountLabels ==
  ASSUME TypeInv, ValueCount
  PROVE  p.pc = "D_LEN" /\ p'.len = p.len /\ p'.pc \in {"D_LEN", "COD", "D_VALUE"}
BY ZenonT(60) DEF ValueCount, Read, At, NextArg, TypeInv, ParserType

LEMMA ElementLengthLabels ==
  ASSUME TypeInv, ElementLength
  PROVE  p.pc = "D_VALUE" /\ p'.len = p.len /\ p'.pc \in {"D_VALUE", "D_VALUE_V"}
BY ZenonT(60) DEF ElementLength, Read, At, TypeInv, ParserType

LEMMA ReadingKeepsCut ==
  ASSUME TypeInv, NEW st, Standing(st), LenInv,
         \/ ReadType \/ SkipFixed \/ TxDataLength \/ CoinDataLength
         \/ SkipVar \/ CaptureFixed \/ CaptureVar
         \/ ArgCount \/ ValueCount \/ ElementLength \/ Element \/ SkipValue
         \/ FromCount \/ ToCount \/ Asset \/ Amount \/ EndFrom \/ EndTo
  PROVE  LenInv' /\ RestInv'
<1>0. p.len \in [CapturedVar -> Nat]
  BY DEF TypeInv, ParserType
<1>1. ASSUME \/ ReadType \/ TxDataLength \/ CoinDataLength \/ SkipVar \/ CaptureFixed
             \/ ArgCount \/ ValueCount \/ ElementLength \/ Element \/ SkipValue
             \/ FromCount \/ EndFrom \/ Asset \/ Amount
      PROVE  LenInv' /\ RestInv'
  <2>1. /\ p'.pc \notin CapturedVar /\ p'.len = p.len
        /\ p'.pc \in BeforeName => p.pc \in BeforeName
        /\ p'.pc \in OutputLabels <=> p.pc \in OutputLabels
    <3>1. CASE ReadType
      BY <3>1, ReadTypeEffect DEF CapturedVar, BeforeName, OutputLabels, SameParts
    <3>2. CASE TxDataLength
      BY <3>2, TxDataLengthEffect DEF CapturedVar, BeforeName, OutputLabels, SameParts
    <3>3. CASE CoinDataLength
      BY <3>3, CoinDataLengthEffect DEF CapturedVar, BeforeName, OutputLabels, SameParts
    <3>4. CASE SkipVar
      BY <3>4, SkipVarEffect DEF CapturedVar, BeforeName, OutputLabels, SameParts, Following
    <3>5. CASE CaptureFixed
      BY <3>5, CaptureFixedEffect DEF CapturedVar, BeforeName, OutputLabels, Following
    <3>6. CASE ArgCount
      BY <3>6, ArgCountEffect DEF CapturedVar, BeforeName, OutputLabels, SameParts
    <3>7. CASE ValueCount
      <4>1. /\ p.pc = "D_LEN" /\ p'.len = p.len
            /\ p'.pc \in {"D_LEN", "COD", "D_VALUE"}
        BY <3>7, ValueCountLabels
      <4> QED
        BY <4>1 DEF CapturedVar, BeforeName, OutputLabels
    <3>8. CASE ElementLength
      <4>1. p.pc = "D_VALUE" /\ p'.len = p.len /\ p'.pc \in {"D_VALUE", "D_VALUE_V"}
        BY <3>8, ElementLengthLabels
      <4> QED
        BY <4>1 DEF CapturedVar, BeforeName, OutputLabels
    <3>9. CASE Element
      BY <3>9, ElementEffect DEF CapturedVar, BeforeName, OutputLabels
    <3>10. CASE SkipValue
      BY <3>10, SkipValueEffect DEF CapturedVar, BeforeName, OutputLabels, SameParts
    <3>11. CASE FromCount
      BY <3>11, FromCountEffect DEF CapturedVar, BeforeName, OutputLabels, SameParts
    <3>12. CASE EndFrom
      BY <3>12, EndFromEffect DEF CapturedVar, BeforeName, OutputLabels, SameParts
    <3>13. CASE Asset
      BY <3>13, AssetEffect DEF CapturedVar, BeforeName, OutputLabels, SameParts, Following
    <3>14. CASE Amount
      BY <3>14, AmountEffect DEF CapturedVar, BeforeName, OutputLabels, Following
    <3> QED
      BY <1>1, <3>1, <3>2, <3>3, <3>4, <3>5, <3>6, <3>7, <3>8, <3>9, <3>10, <3>11, <3>12,
         <3>13, <3>14
  <2> QED
    BY <2>1, OtherLengths
<1>2. CASE CaptureVar
  <2>1. /\ p.pc \in {"TO_ADDRESS", "CC_MNAME"} /\ p'.pc = Following[p.pc]
        /\ p'.len = [p.len EXCEPT ![p.pc] = HeadValue]
    BY <1>2, CaptureVarEffect DEF CapturedVar
  <2>2. CASE p.pc = "TO_ADDRESS"
    <3>1. p'.pc = "TO_CHAIN"
      BY <2>1, <2>2 DEF Following
    <3> QED
      BY <3>1, OtherLengths DEF CapturedVar, BeforeName, OutputLabels
  <2>3. CASE p.pc = "CC_MNAME"
    <3>1. p'.pc = "CC_MDES" /\ p'.len["TO_ADDRESS"] = p.len["TO_ADDRESS"]
      BY <2>1, <2>3, <1>0 DEF Following, CapturedVar
    <3> QED
      BY <3>1, <2>3, OtherLengths DEF CapturedVar, BeforeName, OutputLabels
  <2> QED
    BY <2>1, <2>2, <2>3
<1>3. CASE SkipFixed
  <2>1. /\ p.pc \in {"TSP", "CC_SENDER", "CC_GMSL", "CC_GMSP", "FROM_CHAIN", "TO_CHAIN"}
        /\ p'.pc = Following[p.pc] /\ p'.len = p.len /\ Enough /\ p'.buf = After(Need)
    BY <1>3, SkipFixedEffect DEF SameParts
  <2>2. CASE p.pc = "CC_GMSP"
    <3>1. ~VarLabel /\ p'.pc = "CC_MNAME"
      BY <2>1, <2>2 DEF VarLabel, Listed, Following
    <3>2. ~Cutting'
      BY <2>1, <2>2, <3>1, FreshField
    <3> QED
      BY <2>1, <2>2, <3>1, <3>2 DEF LenInv, RestInv, BeforeName, OutputLabels
  <2>3. CASE p.pc # "CC_GMSP"
    <3>1. /\ p'.pc \notin CapturedVar
          /\ p'.pc \in BeforeName => p.pc \in BeforeName
          /\ p'.pc \in OutputLabels <=> p.pc \in OutputLabels
      BY <2>1, <2>3 DEF Following, CapturedVar, BeforeName, OutputLabels
    <3> QED
      BY <2>1, <3>1, OtherLengths
  <2> QED
    BY <2>2, <2>3
<1>4. CASE ToCount \/ EndTo
  <2>1. /\ p.pc \in {"TO", "TO_LOCKTIME"} /\ Enough /\ p'.buf = After(Need)
        /\ p'.pc \in {"TO_ADDRESS", "END"} /\ p'.len["TO_ADDRESS"] = 0
    <3>1. CASE ToCount
      BY <3>1, ToCountEffect DEF SameParts, LenInv, OutputLabels
    <3>2. CASE EndTo
      BY <3>2, <1>0, EndToEffect DEF CapturedVar
    <3> QED
      BY <1>4, <3>1, <3>2
  <2>2. ~Cutting'
    BY <2>1, FreshField DEF VarLabel, Listed
  <2> QED
    BY <2>1, <2>2 DEF LenInv, RestInv, BeforeName, OutputLabels, CapturedVar
<1> QED
  BY <1>1, <1>2, <1>3, <1>4

LEMMA BreakingKeepsCut ==
  ASSUME TypeInv, NEW CONSTANT st, Standing(st), LenInv, phase = "parsing",
         LengthError \/ ValueError, phase' # "failed"
  PROVE  LenInv' /\ (RestInv => RestInv')
<1>0. /\ p.len \in [CapturedVar -> Nat] /\ shape' = shape /\ p'.pc = p.pc /\ more
      /\ BodyWidth' = BodyWidth /\ phase' = "idle"
  BY LengthErrorEffect, ValueErrorEffect DEF TypeInv, ParserType, BodyWidth, SameCoins
<1>1. CASE p.pc \notin CapturedVar
  <2>1. p'.len = p.len
    BY <1>1, LengthErrorEffect, ValueErrorEffect DEF SameParts
  <2> QED
    BY <2>1, <1>0, <1>1, OtherLengths
<1>2. CASE p.pc \in CapturedVar /\ LengthError
  <2>1. /\ p'.buf = p.buf /\ p'.len = [p.len EXCEPT ![p.pc] = 0] /\ Reserved /\ ~Enough
    BY <1>2, LengthErrorEffect
  <2>2. ~Cutting'
    BY <2>1, <1>2, ShortIsUncut DEF Cutting
  <2>3. p'.len[p.pc] = 0 /\ (p.pc = "CC_MNAME" => p'.len["TO_ADDRESS"] = p.len["TO_ADDRESS"])
    BY <2>1, <1>0, <1>2 DEF CapturedVar
  <2> QED
    BY <2>2, <2>3, <1>0, <1>2 DEF LenInv, RestInv, CapturedVar, BeforeName, OutputLabels
<1>3. CASE p.pc \in CapturedVar /\ ValueError
  <2>1. /\ p'.buf = LackVarint(Lack) /\ p'.len = [p.len EXCEPT ![p.pc] = Avail]
        /\ VarLabel /\ Enough /\ ~Whole
    BY <1>0, <1>3, ValueErrorEffect
  <2>2. /\ Avail \in Nat /\ HeadValue \in Nat /\ Lack \in 1 .. HeadValue
        /\ Lack = HeadValue - Avail /\ VarintWidth(Lack) \in {1, 3}
    BY <2>1, LackFits
  <2>3. /\ HeadValue <= BodyWidth /\ BodyWidth \in Nat
        /\ RestInv => HeadValue = BodyWidth
    <3>1. CASE Uncut(st)
      <4>1. ~Cutting /\ p.pc # "END" /\ p.buf # <<>> /\ BodyWidth = Val(st) /\ Val(st) \in Nat
        BY <1>3, <3>1, <2>1, CuttingIsCut, CapturedFacts, Needs DEF CapturedVar
      <4> QED
        BY <4>1, <3>1, FirstByte
    <3>2. CASE ~Uncut(st)
      <4>1. Cutting /\ HeadValue \in 1 .. BodyWidth /\ BodyWidth \in Nat
        BY <1>3, <3>2, CuttingIsCut, CapturedFacts
      <4> QED
        BY <4>1, <1>3, <2>1 DEF RestInv
    <3> QED
      BY <3>1, <3>2
  <2>4. /\ LackVarint(Lack) \in Seq(Int) /\ Len(LackVarint(Lack)) = VarintWidth(Lack)
        /\ LackVarint(Lack)[1] = -Lack
    BY <2>2, LackVarintFacts
  <2>5. p'.buf # <<>> /\ Head(p'.buf) = -Lack
    BY <2>1, <2>2, <2>4
  <2>6. Cutting' /\ HeadValue' = Lack
    BY <2>2, <2>5 DEF Cutting, HeadValue, Value
  <2>7. /\ p'.len[p.pc] = Avail
        /\ p.pc = "CC_MNAME" => p'.len["TO_ADDRESS"] = p.len["TO_ADDRESS"]
    BY <2>1, <1>0, <1>3 DEF CapturedVar
  <2>8. Avail + Lack <= BodyWidth /\ (RestInv => Avail + Lack = BodyWidth)
    BY <2>2, <2>3
  <2>9. Len(p'.buf) = VarintWidth(HeadValue)'
    <3>1. VarintWidth(HeadValue)' = VarintWidth(Lack)
      BY <1>0, <2>6 DEF VarintWidth, Scale
    <3> QED
      BY <3>1, <2>1, <2>4
  <2>10. RestInv => RestInv'
    BY <1>0, <2>6, <2>7, <2>8, <2>9 DEF RestInv
  <2>11. LenInv'
    BY <1>0, <1>3, <2>6, <2>7, <2>8 DEF LenInv, CapturedVar, BeforeName, OutputLabels
  <2> QED
    BY <2>10, <2>11
<1> QED
  BY <1>1, <1>2, <1>3

\* A chunk brings what was missing.
LEMMA RestArrives ==
  ASSUME CutOnce, TypeInv, NEW CONSTANT st, Standing(st), phase = "idle", RestInv,
         p.pc \in CapturedVar, Cutting, NEW n \in Sizes
  PROVE  HeadValue <= n
<1>1. PICK h \in Nat : Cut(st, h)
  BY CuttingIsCut, CapturedFacts
<1>2. /\ HeadValue = h /\ h \in 1 .. Val(st) /\ BodyWidth = Val(st) /\ st \in Nat \ {0}
      /\ Val(st) \in Nat /\ VarintWidth(Val(st)) \in {1, 3}
      /\ Past(st) = st + VarintWidth(Val(st)) + Val(st)
      /\ Past(st) <= Size(shape) + 1 /\ Size(shape) \in Nat
  BY <1>1, CuttingIsCut, CapturedFacts
<1>3. given = st - 1 + VarintWidth(Val(st)) + Val(st) - h
  <2> DEFINE at == st - 1 + VarintWidth(Val(st)) + Val(st) - h
  <2>1. Len(p.buf) = VarintWidth(h) + given - at /\ at \in Nat
    BY <1>1 DEF Cut, Holds
  <2>2. Len(p.buf) = VarintWidth(h) /\ VarintWidth(h) \in {1, 3} /\ given \in Nat
    BY <1>2, Widths DEF RestInv, TypeInv
  <2>3. given = at
    <3> HIDE DEF at
    <3> QED
      BY <2>1, <2>2
  <2> QED
    BY <2>3
<1>4. shape \in Shapes /\ shape.extra \in Nat /\ given \in Nat
  BY ShapeAssumption DEF TypeInv
<1>5. CASE n \in ChunkSizes
  <2>1. n >= shape.name /\ \A i \in DOMAIN shape.to : n >= shape.addresses[i]
    BY <1>4, <1>5 DEF CutOnce, ChunkSizes, Scale
  <2>2. n >= Val(st) /\ n \in Nat
    BY <2>1, <1>2, CapturedFacts, SizesAreNumbers DEF BodyWidth
  <2> QED
    BY <2>2, <1>2
<1>6. CASE n = Size(shape) + shape.extra - given
  BY <1>2, <1>3, <1>4, <1>6
<1>7. CASE given = 0 /\ n = 0
  BY <1>2, <1>3, <1>7
<1> QED
  BY <1>5, <1>6, <1>7 DEF Sizes

LEMMA AbsorbingKeepsCut ==
  ASSUME TypeInv, NEW CONSTANT st, Standing(st), LenInv,
         NEW n \in Sizes, NEW m \in BOOLEAN, Absorb(n, m), phase' = "parsing"
  PROVE  LenInv' /\ (CutOnce /\ RestInv => RestInv')
<1>1. /\ phase = "idle" /\ shape' = shape /\ p'.buf = p.buf \o Chunk(n)
      /\ p'.pc = p.pc /\ p'.type = p.type /\ p'.len = p.len /\ SameCall
      /\ p'.array = p.array /\ n \in Nat
  BY SizesAreNumbers, AbsorbEffect DEF SameParts, SameCoins
<1>2. p.buf \in Seq(Int) /\ given \in Nat /\ Len(p.buf) \in Nat
  BY DEF TypeInv, ParserType
<1>3. CASE p.pc \notin CapturedVar
  BY <1>1, <1>3, OtherLengths
<1>4. CASE p.pc \in CapturedVar
  <2> DEFINE a == p.buf
             b == Chunk(n)
  <2>1. b \in Seq(Int) /\ Len(b) = n /\ \A k \in 1 .. n : b[k] = given + k
    BY <1>1, <1>2 DEF Chunk
  <2>2. /\ a \o b \in Seq(Int) /\ Len(a \o b) = Len(a) + n
        /\ \A k \in 1 .. Len(a) : (a \o b)[k] = a[k]
        /\ \A k \in 1 .. n : (a \o b)[Len(a) + k] = b[k]
    <3> HIDE DEF b
    <3> QED
      BY <2>1, <1>2, Appended
  <2>3. p'.buf = a \o b
    BY <1>1
  <2>4. BodyWidth' = BodyWidth
    BY <1>1 DEF BodyWidth
  <2>5. CASE a = <<>>
    <3>1. ~Cutting
      BY <2>5 DEF Cutting
    <3>2. ~Cutting'
      <4>1. ASSUME p'.buf # <<>> PROVE Head(p'.buf) > 0
        <5>1. 1 \in 1 .. n /\ Len(a) = 0
          <6> HIDE DEF b
          <6> QED
            BY <4>1, <2>2, <2>3, <2>5, <1>1
        <5>2. p'.buf[1] = given + 1
          <6> HIDE DEF b
          <6> QED
            BY <5>1, <2>1, <2>2, <2>3
        <5>3. Head(p'.buf) = p'.buf[1]
          <6> HIDE DEF b
          <6> QED
            BY <4>1, <2>2, <2>3
        <5> QED
          BY <5>2, <5>3, <1>2
      <4>2. p'.buf # <<>> => Head(p'.buf) \in Int
        <5> HIDE DEF b
        <5> QED
          BY <2>2, <2>3
      <4> QED
        BY <4>1, <4>2 DEF Cutting
    <3> QED
      BY <3>1, <3>2, <1>1, <1>4 DEF LenInv, RestInv
  <2>6. CASE a # <<>>
    <3>1. 1 \in 1 .. Len(a) /\ Head(a) = a[1]
      BY <2>6, <1>2
    <3>2. p'.buf # <<>> /\ Head(p'.buf) = Head(a)
      <4> HIDE DEF b
      <4> QED
        BY <3>1, <2>2, <2>3, <1>2
    <3>3. /\ Cutting' = Cutting /\ HeadValue' = HeadValue
          /\ VarintWidth(HeadValue)' = VarintWidth(HeadValue)
      BY <3>2, <2>6, <1>1
      DEF Cutting, HeadValue, Value, Byte, Size, VarintWidth, Scale
    <3>4. LenInv'
      BY <3>3, <2>4, <1>1 DEF LenInv
    <3>5. ASSUME CutOnce, RestInv, Cutting PROVE Whole'
      <4>1. HeadValue <= n /\ HeadValue \in Nat /\ VarintWidth(HeadValue) \in {1, 3}
        <5>1. HeadValue <= n
          BY <3>5, <1>1, <1>4, RestArrives
        <5>2. HeadValue \in Nat
          BY <3>5, Reading DEF Cutting
        <5> QED
          BY <5>1, <5>2, Widths DEF TypeInv
      <4>2. Len(p.buf) = VarintWidth(HeadValue)
        BY <3>5, <1>1, <1>4 DEF RestInv
      <4>3. Need' = VarintWidth(HeadValue)
        <5>1. VarLabel'
          BY <1>1, <1>4 DEF VarLabel, CapturedVar
        <5> QED
          BY <5>1, <3>2, <3>3 DEF Need, HeadValue
      <4>4. Len(p'.buf) = VarintWidth(HeadValue) + n
        <5> HIDE DEF b
        <5> QED
          BY <2>2, <2>3, <4>2
      <4>5. Len(p'.buf) - Need' >= HeadValue'
        BY <4>1, <4>3, <4>4, <3>3, <1>1
      <4> QED
        BY <4>1, <4>3, <4>4, <4>5, <3>3, <1>1 DEF Whole, Avail
    <3>6. CutOnce /\ RestInv => RestInv'
      BY <3>3, <3>5, <2>4, <1>1 DEF RestInv
    <3> QED
      BY <3>4, <3>6
  <2> QED
    BY <2>5, <2>6
<1> QED
  BY <1>3, <1>4

---------------------------------------------------------------------------
(* Where the captured bytes go.                                             *)

Placed(first, offset) ==
  offset = (IF Byte(first).k < 0 THEN -Byte(first).k ELSE Byte(first).k) - 1

LEMMA PlacedInBody ==
  ASSUME NEW first, NEW k \in Nat \ {0}, Byte(first).k = -k
  PROVE  Placed(first, k - 1)
<1>1. -k < 0 /\ -(-k) = k
  OBVIOUS
<1> QED
  BY <1>1 DEF Placed

LEMMA PlaceKept ==
  ASSUME InPlace, shape' = shape, p'.parts \subseteq p.parts
  PROVE  InPlace'
BY DEF InPlace, Byte, Size

LEMMA PlaceGained ==
  ASSUME InPlace, shape' = shape, NEW label, NEW i, NEW offset, NEW j, NEW len,
         p'.parts = p.parts \cup Part(label, i, offset, j, len),
         len # 0 => Placed(p.buf[j], offset)
  PROVE  InPlace'
<1>1. \A f \in p'.parts : f \in p.parts \/ (len # 0 /\ f.first = p.buf[j] /\ f.offset = offset)
  BY DEF Part
<1>2. \A f \in p'.parts : Placed(f.first, f.offset)
  BY <1>1 DEF InPlace, Placed
<1>3. \A pos : Byte(pos)' = Byte(pos)
  BY DEF Byte, Size
<1> QED
  BY <1>2, <1>3 DEF InPlace, Placed

\* A field of fixed size starts with its first byte.
LEMMA FixedPlaced ==
  ASSUME TypeInv, NEW st, Standing(st), Enough, p.pc \in {"CC_CADDR", "CC_VALUE", "TO_AMOUNT"}
  PROVE  Placed(p.buf[1], 0)
<1>1. /\ StandsAt(st) /\ Uncut(st) /\ p.buf # <<>> /\ p.pc # "END"
  BY Needs DEF Standing, AtBody, Cut, VarLabel, Listed
<1>2. /\ p.buf[1] = st /\ FieldAt(st).k = 1 /\ st \in 1 .. Size(shape) /\ Size(shape) \in Nat
  BY <1>1, FirstByte, FieldFacts
<1>3. Byte(st) = FieldAt(st)
  BY <1>2 DEF Byte, FieldAt
<1> QED
  BY <1>2, <1>3 DEF Placed

LEMMA ElementPlaced ==
  ASSUME TypeInv, NEW st, Standing(st), Enough, p.pc = "D_VALUE_V", Need # 0
  PROVE  Placed(p.buf[1], 0)
<1>1. Need = p.element /\ Need \in 0 .. Len(p.buf)
  BY Needs
<1>2. AtBody(st) /\ p.buf # <<>>
  BY <1>1 DEF Standing, Uncut, Cut, VarLabel, Listed, TypeInv, ParserType
<1>3. Byte(p.buf[1]).k = -1
  BY <1>1, <1>2, FirstOfBody
<1>4. PICK k \in Nat \ {0} : k = 1
  OBVIOUS
<1>5. Byte(p.buf[1]).k = -k /\ k - 1 = 0
  BY <1>3, <1>4
<1> QED
  BY <1>4, <1>5, PlacedInBody

\* The next copy of a field goes on where the last one ended.
LEMMA CopyPlaced ==
  ASSUME TypeInv, NEW st, Standing(st), LenInv, RestInv, Enough, p.pc \in CapturedVar,
         NEW len \in Nat \ {0}, len <= HeadValue, Need + len <= Len(p.buf)
  PROVE  Placed(p.buf[Need + 1], p.len[p.pc])
<1>1. /\ StandsAt(st) /\ p.pc # "END" /\ p.pc # "D_VALUE_V" /\ VarLabel
      /\ st \in Nat \ {0} /\ BodyWidth = Val(st) /\ Val(st) \in Nat
      /\ HeadLen(shape, FieldAt(st)) = VarintWidth(Val(st))
      /\ BodyLen(shape, FieldAt(st)) = Val(st)
      /\ VarintWidth(Val(st)) \in {1, 3}
      /\ Uncut(st) \/ \E n \in Nat : Cut(st, n)
  BY CapturedFacts DEF CapturedVar
<1>2. /\ Need = VarintWidth(HeadValue) /\ p.buf # <<>> /\ Len(p.buf) \in Nat
      /\ HeadValue \in Nat /\ Need \in Nat /\ Need + 1 \in 1 .. Len(p.buf)
  <2>1. Len(p.buf) \in Nat
    BY DEF TypeInv, ParserType
  <2> QED
    BY <1>1, <2>1, Needs
<1>3. CASE Uncut(st)
  <2>1. p.len[p.pc] = 0 /\ HeadValue = Val(st) /\ p.buf # <<>>
    BY <1>1, <1>2, <1>3, CuttingIsCut, FirstByte DEF LenInv
  <2>2. /\ Need = VarintWidth(Val(st)) /\ Holds(p.buf, 0, 0, st - 1, given)
    BY <1>2, <1>3, <2>1 DEF Uncut
  <2>3. p.buf[Need + 1] = st - 1 + (Need + 1) - 0
    BY <1>2, <2>2 DEF Holds
  <2>4. PICK k \in 1 .. Val(st) : k = 1
    BY <1>1, <1>2, <2>1
  <2>5. Byte(st + HeadLen(shape, FieldAt(st)) + k - 1).k = -k
    <3>1. k \in 1 .. BodyLen(shape, FieldAt(st))
      BY <1>1
    <3> QED
      BY <3>1, <1>1, BodyByte
  <2>6. p.buf[Need + 1] = st + HeadLen(shape, FieldAt(st)) + k - 1
    BY <1>1, <2>2, <2>3, <2>4
  <2>7. Byte(p.buf[Need + 1]).k = -k /\ k - 1 = 0
    BY <2>4, <2>5, <2>6
  <2> QED
    <3>1. k \in Nat \ {0} /\ p.len[p.pc] = k - 1
      BY <2>1, <2>7
    <3>2. Placed(p.buf[Need + 1], k - 1)
      BY <3>1, <2>7, PlacedInBody
    <3> QED
      BY <3>1, <3>2
<1>4. ASSUME NEW n \in Nat, Cut(st, n) PROVE Placed(p.buf[Need + 1], p.len[p.pc])
  <2>1. Cutting /\ HeadValue = n /\ n \in 1 .. Val(st)
    BY <1>1, <1>4, CuttingIsCut
  <2>2. p.len[p.pc] = Val(st) - n /\ Need = VarintWidth(n)
    <3>1. p.len[p.pc] + HeadValue = BodyWidth
      BY <2>1 DEF RestInv
    <3>2. p.len[p.pc] \in Nat
      BY DEF TypeInv, ParserType
    <3> QED
      BY <3>1, <3>2, <1>1, <1>2, <2>1
  <2>3. VarintWidth(n) + 1 <= Len(p.buf)
    BY <1>2, <2>2
  <2>4. Byte(p.buf[VarintWidth(n) + 1]).k = n - Val(st) - 1
    BY <1>4, <2>3, FirstMissing
  <2>5. Byte(p.buf[Need + 1]).k = n - Val(st) - 1
    BY <2>2, <2>4
  <2> QED
    BY <1>1, <2>1, <2>2, <2>5 DEF Placed
<1> QED
  BY <1>1, <1>3, <1>4

LEMMA CopyKeepsPlace ==
  ASSUME TypeInv, NEW st, Standing(st), LenInv, RestInv, InPlace, Enough,
         p.pc \in CapturedVar,
         NEW len \in Nat, len <= HeadValue, Need + len <= Len(p.buf),
         p'.parts = CopyOn(len), shape' = shape
  PROVE  InPlace'
<1>1. len # 0 => Placed(p.buf[Need + 1], p.len[p.pc])
  BY CopyPlaced
<1>2. p'.parts = p.parts \cup Part(p.pc, ArrayIndex, p.len[p.pc], Need + 1, len)
  BY DEF CopyOn
<1> QED
  BY <1>1, <1>2, PlaceGained

LEMMA ParsingKeepsPlace ==
  ASSUME TypeInv, PositionInv, CutInv, InPlace, Parse
  PROVE  InPlace'
<1>1. PICK st \in Nat : Standing(st)
  BY ParsingStands
<1>2. phase = "parsing" /\ LenInv /\ RestInv
  BY ParsingStands DEF CutInv
<1>3. ASSUME \/ Reserve \/ ReadType \/ SkipFixed \/ TxDataLength \/ CoinDataLength
             \/ SkipVar \/ ArgCount \/ ValueCount \/ ElementLength \/ SkipValue
             \/ FromCount \/ ToCount \/ Asset \/ EndFrom \/ EndTo
             \/ LengthError \/ Finish
      PROVE  InPlace'
  <2>1. shape' = shape /\ p'.parts \subseteq p.parts
    BY <1>3, ReserveEffect, ReadTypeEffect, SkipFixedEffect, TxDataLengthEffect,
       CoinDataLengthEffect, SkipVarEffect, ArgCountEffect, ValueCountEffect,
       ElementLengthEffect, SkipValueEffect, FromCountEffect, ToCountEffect, AssetEffect,
       EndFromEffect, EndToEffect, LengthErrorEffect, FinishEffect DEF SameParts, Stay
  <2> QED
    BY <2>1, PlaceKept
<1>4. CASE CaptureFixed
  <2>1. /\ shape' = shape /\ Enough /\ p.pc \in {"CC_CADDR", "CC_VALUE"}
        /\ p'.parts = p.parts \cup Part(p.pc, 0, 0, 1, Need)
    BY <1>4, CaptureFixedEffect DEF Stay
  <2> QED
    BY <1>1, <2>1, FixedPlaced, PlaceGained
<1>5. CASE Amount
  <2>1. /\ shape' = shape /\ Enough /\ p.pc \in {"FROM_AMOUNT", "TO_AMOUNT"}
        /\ p'.parts = IF p.pc = "FROM_AMOUNT" THEN p.parts
                      ELSE p.parts \cup Part(p.pc, p.array, 0, 1, Need)
    BY <1>5, AmountEffect DEF Stay
  <2>2. CASE p.pc = "FROM_AMOUNT"
    BY <2>1, <2>2, PlaceKept
  <2>3. CASE p.pc = "TO_AMOUNT"
    <3>1. p'.parts = p.parts \cup Part(p.pc, p.array, 0, 1, Need)
      BY <2>1, <2>3
    <3> QED
      BY <1>1, <2>1, <2>3, <3>1, FixedPlaced, PlaceGained
  <2> QED
    BY <2>1, <2>2, <2>3
<1>6. CASE Element
  <2>1. /\ shape' = shape /\ Enough /\ p.pc = "D_VALUE_V"
        /\ p'.parts = p.parts \cup Part("D_VALUE", ElementIndex, 0, 1, Need)
    BY <1>6, ElementEffect DEF Stay
  <2> QED
    BY <1>1, <2>1, ElementPlaced, PlaceGained
<1>7. CASE CaptureVar
  <2>1. /\ shape' = shape /\ Enough /\ VarLabel /\ Whole /\ p.pc \in CapturedVar
        /\ p'.parts = CopyOn(HeadValue)
    BY <1>7, CaptureVarEffect DEF Stay
  <2>2. HeadValue \in Nat /\ Need + HeadValue <= Len(p.buf)
    BY <2>1, WholeField
  <2> QED
    BY <1>1, <1>2, <2>1, <2>2, CopyKeepsPlace
<1>8. CASE ValueError /\ p.pc \in CapturedVar
  <2>1. /\ shape' = shape /\ Enough /\ VarLabel /\ ~Whole /\ p'.parts = CopyOn(Avail)
    BY <1>8, ValueErrorEffect
  <2>2. Avail \in Nat /\ Need + Avail <= Len(p.buf) /\ Avail <= HeadValue
    BY <2>1, LackFits
  <2> QED
    BY <1>1, <1>2, <1>8, <2>1, <2>2, CopyKeepsPlace
<1>9. CASE ValueError /\ p.pc \notin CapturedVar
  <2>1. shape' = shape /\ p'.parts = p.parts
    BY <1>9, ValueErrorEffect DEF SameParts
  <2> QED
    BY <2>1, PlaceKept
<1> QED
  BY <1>3, <1>4, <1>5, <1>6, <1>7, <1>8, <1>9 DEF Parse

---------------------------------------------------------------------------
(* Every captured byte, in every session.                                   *)

LEMMA CutBegins == p = Fresh(p.pool) => LenInv /\ RestInv
BY DEF Fresh, LenInv, RestInv, CapturedVar, BeforeName, OutputLabels

LEMMA CutStep ==
  ASSUME TypeInv, PositionInv, LensInv, [Next]_vars
  PROVE  LensInv' /\ (CutOnce /\ CutInv => CutInv')
<1> DEFINE Held == phase' \in {"idle", "parsing"}
                   => LenInv' /\ (CutOnce /\ CutInv => RestInv')
<1> SUFFICES Held
  BY DEF LensInv, CutInv
<1>1. CASE Parse
  <2>1. phase = "parsing" /\ LenInv /\ (CutInv => RestInv)
    BY <1>1, ParsingStands DEF LensInv, CutInv
  <2>2. PICK st \in Nat : Standing(st)
    BY <1>1, ParsingStands
  <2>3. CASE Reserve
    <3>1. /\ shape' = shape /\ p'.buf = p.buf /\ p'.pc = p.pc /\ p'.type = p.type /\ SameCall
          /\ SameParts /\ SameCoins /\ phase' \in {"parsing", "failed"}
      BY <2>1, <2>3, ReserveEffect
    <3>2. LenInv' /\ (phase' = "parsing" => (RestInv => RestInv'))
      BY <2>1, <3>1
      DEF LenInv, RestInv, Cutting, BodyWidth, Scale, HeadValue, Value, Byte, Size,
          Whole, Avail, Need, VarLabel, VarintLabel, CountLabel, Listed, VarintWidth, Width,
          SameCall, SameParts, SameCoins
    <3> QED
      BY <2>1, <3>1, <3>2
  <2>4. CASE LengthError \/ ValueError
    BY <2>1, <2>2, <2>4, BreakingKeepsCut
  <2>5. CASE Finish
    BY <2>5, FinishEffect
  <2>6. ASSUME \/ ReadType \/ SkipFixed \/ TxDataLength \/ CoinDataLength
               \/ SkipVar \/ CaptureFixed \/ CaptureVar
               \/ ArgCount \/ ValueCount \/ ElementLength \/ Element \/ SkipValue
               \/ FromCount \/ ToCount \/ Asset \/ Amount \/ EndFrom \/ EndTo
        PROVE  Held
    BY <2>1, <2>2, <2>6, ReadingKeepsCut
  <2> QED
    BY <1>1, <2>3, <2>4, <2>5, <2>6 DEF Parse
<1>2. ASSUME NEW n \in Sizes, NEW m \in BOOLEAN, Absorb(n, m) PROVE Held
  <2>1. phase = "idle" /\ phase' \in {"parsing", "failed"}
    BY <1>2, SizesAreNumbers, AbsorbEffect
  <2>2. PICK st \in Nat : Standing(st)
    BY <2>1 DEF PositionInv
  <2>3. phase' = "parsing" => LenInv' /\ (CutOnce /\ RestInv => RestInv')
    BY <1>2, <2>1, <2>2, AbsorbingKeepsCut DEF LensInv
  <2> QED
    BY <2>1, <2>3 DEF CutInv
<1>3. CASE NewSession
  <2>1. (p = Fresh(p.pool))'
    BY <1>3 DEF NewSession, Fresh
  <2>2. (LenInv /\ RestInv)'
    BY <2>1, CutBegins, PTL
  <2> QED
    BY <2>2
<1>4. CASE UNCHANGED vars
  <2>1. LenInv' = LenInv /\ RestInv' = RestInv
    BY <1>4
    DEF vars, LenInv, RestInv, Cutting, BodyWidth, Width, Scale, HeadValue, Value, Byte, Size,
        Whole, Avail, Need, VarLabel, VarintLabel, CountLabel, Listed, VarintWidth
  <2> QED
    BY <1>4, <2>1 DEF vars, LensInv, CutInv
<1> QED
  BY <1>1, <1>2, <1>3, <1>4 DEF Next

---------------------------------------------------------------------------
(* No copy leaves the memory reserved for its field, however often a field  *)
(* is cut.                                                                  *)

\* What has been copied of a field and what is there of the rest fit.
LEMMA RestFits ==
  ASSUME TypeInv, NEW st, Standing(st), LenInv, Enough, p.pc \in CapturedVar,
         NEW len \in Nat, len <= HeadValue
  PROVE  p.len[p.pc] + len <= Room
<1>1. /\ p.pc # "END" /\ VarLabel /\ BodyWidth = Val(st) /\ BodyWidth <= Room /\ Val(st) \in Nat
      /\ p.len[p.pc] \in Nat /\ Room \in Nat /\ HeadValue \in Nat /\ p.buf # <<>>
  BY CapturedFacts, Needs, ScaleFacts DEF CapturedVar, TypeInv, ParserType
<1>2. p.len[p.pc] + HeadValue <= BodyWidth
  <2>1. CASE Uncut(st)
    BY <1>1, <2>1, CuttingIsCut, FirstByte DEF LenInv
  <2>2. CASE ~Uncut(st)
    BY <1>1, <2>2, CapturedFacts, CuttingIsCut DEF LenInv
  <2> QED
    BY <2>1, <2>2
<1> QED
  BY <1>1, <1>2

LEMMA FitKept ==
  ASSUME CopiesFit, shape' = shape,
         NEW label, NEW i, NEW offset, NEW j, NEW len,
         p'.parts \subseteq p.parts \cup Part(label, i, offset, j, len),
         label \in CapturedVar => offset + len <= Room
  PROVE  CopiesFit'
<1>1. Room' = Room
  BY DEF Room, Scale
<1>2. \A f \in Part(label, i, offset, j, len) :
        f.label = label /\ f.offset = offset /\ f.len = len
  BY DEF Part
<1> QED
  BY <1>1, <1>2 DEF CopiesFit

LEMMA NothingCopied ==
  ASSUME CopiesFit, shape' = shape, p'.parts \subseteq p.parts
  PROVE  CopiesFit'
BY DEF CopiesFit, Room, Scale

LEMMA ParsingFits ==
  ASSUME TypeInv, PositionInv, LensInv, CopiesFit, Parse
  PROVE  CopiesFit'
<1>1. PICK st \in Nat : Standing(st)
  BY ParsingStands
<1>2. phase = "parsing" /\ LenInv
  BY ParsingStands DEF LensInv
<1>3. ASSUME \/ Reserve \/ ReadType \/ SkipFixed \/ TxDataLength \/ CoinDataLength
             \/ SkipVar \/ ArgCount \/ ValueCount \/ ElementLength \/ SkipValue
             \/ FromCount \/ ToCount \/ Asset \/ EndFrom \/ EndTo
             \/ LengthError \/ Finish \/ (ValueError /\ p.pc \notin CapturedVar)
      PROVE  CopiesFit'
  <2>1. shape' = shape /\ p'.parts \subseteq p.parts
    BY <1>3, ReserveEffect, ReadTypeEffect, SkipFixedEffect, TxDataLengthEffect,
       CoinDataLengthEffect, SkipVarEffect, ArgCountEffect, ValueCountEffect,
       ElementLengthEffect, SkipValueEffect, FromCountEffect, ToCountEffect, AssetEffect,
       EndFromEffect, EndToEffect, LengthErrorEffect, ValueErrorEffect, FinishEffect
    DEF SameParts, Stay
  <2> QED
    BY <2>1, NothingCopied
<1>4. CASE CaptureFixed
  <2>1. /\ shape' = shape /\ p.pc \notin CapturedVar
        /\ p'.parts = p.parts \cup Part(p.pc, 0, 0, 1, Need)
    BY <1>4, CaptureFixedEffect DEF Stay, CapturedVar
  <2> QED
    BY <2>1, FitKept
<1>5. CASE Amount
  <2>1. /\ shape' = shape /\ p.pc \notin CapturedVar
        /\ p'.parts \subseteq p.parts \cup Part(p.pc, p.array, 0, 1, Need)
    BY <1>5, AmountEffect DEF Stay, CapturedVar
  <2> QED
    BY <2>1, FitKept
<1>6. CASE Element
  <2>1. /\ shape' = shape /\ "D_VALUE" \notin CapturedVar
        /\ p'.parts = p.parts \cup Part("D_VALUE", ElementIndex, 0, 1, Need)
    BY <1>6, ElementEffect DEF Stay, CapturedVar
  <2> QED
    BY <2>1, FitKept
<1>7. ASSUME NEW len \in Nat, len <= HeadValue, Enough, p.pc \in CapturedVar,
             shape' = shape, p'.parts = CopyOn(len)
      PROVE  CopiesFit'
  <2>1. p.len[p.pc] + len <= Room
    BY <1>1, <1>2, <1>7, RestFits
  <2> QED
    BY <2>1, <1>7, FitKept DEF CopyOn
<1>8. CASE CaptureVar
  <2>1. /\ shape' = shape /\ Enough /\ VarLabel /\ Whole /\ p.pc \in CapturedVar
        /\ p'.parts = CopyOn(HeadValue)
    BY <1>8, CaptureVarEffect DEF Stay
  <2>2. HeadValue \in Nat /\ HeadValue <= HeadValue
    BY <2>1, WholeField
  <2> QED
    BY <2>1, <2>2, <1>7
<1>9. CASE ValueError /\ p.pc \in CapturedVar
  <2>1. /\ shape' = shape /\ Enough /\ VarLabel /\ ~Whole /\ p'.parts = CopyOn(Avail)
    BY <1>9, ValueErrorEffect
  <2>2. Avail \in Nat /\ Avail <= HeadValue
    BY <2>1, LackFits
  <2> QED
    BY <2>1, <2>2, <1>7, <1>9
<1> QED
  BY <1>3, <1>4, <1>5, <1>6, <1>8, <1>9 DEF Parse

LEMMA FitStep == TypeInv /\ PositionInv /\ LensInv /\ CopiesFit /\ [Next]_vars => CopiesFit'
<1> SUFFICES ASSUME TypeInv, PositionInv, LensInv, CopiesFit, [Next]_vars PROVE CopiesFit'
  OBVIOUS
<1>1. CASE Parse
  BY <1>1, ParsingFits
<1>2. ASSUME NEW n \in Sizes, NEW m \in BOOLEAN, Absorb(n, m) PROVE CopiesFit'
  <2>1. shape' = shape /\ p'.parts = p.parts
    BY <1>2, SizesAreNumbers, AbsorbEffect DEF SameParts
  <2> QED
    BY <2>1, NothingCopied
<1>3. CASE NewSession
  BY <1>3 DEF NewSession, Fresh, CopiesFit
<1>4. CASE UNCHANGED vars
  BY <1>4, NothingCopied DEF vars
<1> QED
  BY <1>1, <1>2, <1>3, <1>4 DEF Next

LEMMA FitStart == Init => LensInv /\ CopiesFit
<1> SUFFICES ASSUME Init PROVE LensInv /\ CopiesFit
  OBVIOUS
<1>1. p = Fresh(p.pool) /\ p.parts = {}
  BY DEF Init, Fresh
<1> QED
  BY <1>1, CutBegins DEF LensInv, CopiesFit

\* The program's variables keep their types, and the three limits hold: raw_tx
\* never has more than its capacity, the pool never gives out more than it has,
\* and no name or address is copied beyond the bytes reserved for it, in
\* sessions of any transactions whose names and addresses fit in those bytes,
\* cut anyhow and into any number of pieces, and in those that come after a
\* failed one (handler_sign_tx, buffer_malloc, transaction_deserialize_var_field).
THEOREM ParserTypes == Spec => []TypeOK
<1> DEFINE Inv == TypeInv /\ PositionInv /\ LensInv /\ CopiesFit
<1>1. Init => Inv
  BY TypesStart, PositionStart, FitStart
<1>2. Inv /\ [Next]_vars => Inv'
  BY TypesStep, PositionStep, CutStep, FitStep
<1>3. Inv => TypeOK
  BY DEF TypeInv, TypeOK, ParserType
<1> QED
  BY <1>1, <1>2, <1>3, PTL DEF Spec

---------------------------------------------------------------------------
LEMMA PlaceStep == TypeInv /\ PositionInv /\ CutInv /\ InPlace /\ [Next]_vars => InPlace'
<1> SUFFICES ASSUME TypeInv, PositionInv, CutInv, InPlace, [Next]_vars PROVE InPlace'
  OBVIOUS
<1>1. CASE Parse
  BY <1>1, ParsingKeepsPlace
<1>2. ASSUME NEW n \in Sizes, NEW m \in BOOLEAN, Absorb(n, m) PROVE InPlace'
  <2>1. shape' = shape /\ p'.parts = p.parts
    BY <1>2, SizesAreNumbers, AbsorbEffect DEF SameParts
  <2> QED
    BY <2>1, PlaceKept
<1>3. CASE NewSession
  BY <1>3 DEF NewSession, Fresh, InPlace
<1>4. CASE UNCHANGED vars
  BY <1>4, PlaceKept DEF vars
<1> QED
  BY <1>1, <1>2, <1>3, <1>4 DEF Next

LEMMA CutStart == Init => CutInv /\ InPlace
<1> SUFFICES ASSUME Init PROVE CutInv /\ InPlace
  OBVIOUS
<1>1. p = Fresh(p.pool) /\ p.parts = {}
  BY DEF Init, Fresh
<1> QED
  BY <1>1, CutBegins DEF CutInv, InPlace

\* If no address and no method name is cut twice, every byte kept for the
\* screen is at its place in its field (transaction_deserialize_var_field,
\* which copies to where the length of its last copy says).
THEOREM ParserPlaces == CutOnce => (Spec => []InPlace)
<1> SUFFICES ASSUME CutOnce PROVE Spec => []InPlace
  OBVIOUS
<1>1. Init => TypeInv /\ PositionInv /\ CutInv /\ InPlace
  BY TypesStart, PositionStart, CutStart
<1>2. TypeInv /\ PositionInv /\ CutInv /\ InPlace /\ [Next]_vars
      => (TypeInv /\ PositionInv /\ CutInv /\ InPlace)'
  BY TypesStep, PositionStep, CutStep, PlaceStep DEF LensInv, CutInv
<1> QED
  BY <1>1, <1>2, PTL DEF Spec

---------------------------------------------------------------------------
(* What has been captured.                                                  *)

Covers(parts, label, i, width) ==
  \A k \in 0 .. width - 1 :
    \E f \in parts : /\ f.label = label /\ f.i = i
                     /\ f.offset <= k /\ k < f.offset + f.len

\* The outputs that have been read, and what has been read of the field that
\* is being copied.
CoinCover ==
  /\ \A i \in 0 .. AddressDone - 1 : Covers(p.parts, "TO_ADDRESS", i, shape.addresses[i + 1])
  /\ \A i \in 0 .. ToDone - 1 : Covers(p.parts, "TO_AMOUNT", i, Width["TO_AMOUNT"])
  /\ p.pc \in CapturedVar => Covers(p.parts, p.pc, ArrayIndex, p.len[p.pc])

\* The fields of a call that have been read: those not still to come.
BeforeValue == BeforeName \ {"CC_GMSL", "CC_GMSP"}
BeforeAddress == BeforeValue \ {"CC_VALUE"}
CallCover ==
  shape.type = 16 =>
    /\ p.pc \in BeforeName \cup {"CC_MNAME"} \/ Covers(p.parts, "CC_MNAME", 0, shape.name)
    /\ p.pc \in BeforeAddress \/ Covers(p.parts, "CC_CADDR", 0, Width["CC_CADDR"])
    /\ p.pc \in BeforeValue \/ Covers(p.parts, "CC_VALUE", 0, Width["CC_VALUE"])

CoverInv == phase # "failed" => CoinCover /\ CallCover

\* Pieces of the fields above are never given up.
KeepsPieces == \A f \in p.parts : f.label # "D_VALUE" => f \in p'.parts

LEMMA StillCovers ==
  ASSUME KeepsPieces, NEW label, label # "D_VALUE", NEW i, NEW width,
         Covers(p.parts, label, i, width)
  PROVE  Covers(p'.parts, label, i, width)
BY DEF KeepsPieces, Covers

LEMMA NothingToCover ==
  ASSUME NEW parts, NEW label, NEW i
  PROVE  Covers(parts, label, i, 0)
<1>1. 0 .. 0 - 1 = {}
  OBVIOUS
<1> QED
  BY <1>1 DEF Covers

LEMMA CoversMore ==
  ASSUME TypeInv, NEW label, label # "D_VALUE", NEW i, NEW offset \in Nat, NEW j, NEW len \in Nat,
         Covers(p.parts, label, i, offset),
         p'.parts = p.parts \cup Part(label, i, offset, j, len)
  PROVE  Covers(p'.parts, label, i, offset + len)
<1>1. ASSUME NEW k \in 0 .. offset + len - 1
      PROVE  \E f \in p'.parts : /\ f.label = label /\ f.i = i
                                 /\ f.offset <= k /\ k < f.offset + f.len
  <2>1. CASE k < offset
    <3>1. k \in 0 .. offset - 1
      BY <2>1
    <3> QED
      BY <3>1 DEF Covers
  <2>2. CASE k >= offset
    <3>1. len # 0 /\ k < offset + len
      BY <2>2
    <3> DEFINE f == [label |-> label, i |-> i, offset |-> offset, first |-> p.buf[j], len |-> len]
    <3>2. f \in p'.parts
      BY <3>1 DEF Part
    <3>3. f.label = label /\ f.i = i /\ f.offset <= k /\ k < f.offset + f.len
      BY <2>2, <3>1
    <3> HIDE DEF f
    <3> QED
      BY <3>2, <3>3
  <2> QED
    BY <2>1, <2>2
<1> QED
  BY <1>1 DEF Covers

LEMMA CoinsStayCovered ==
  ASSUME CoinCover, KeepsPieces, shape' = shape,
         AddressDone' = AddressDone, ToDone' = ToDone,
         \/ p'.pc \notin CapturedVar \/ p'.len[p'.pc] = 0
         \/ p'.pc = p.pc /\ p'.array = p.array /\ p'.len = p.len
  PROVE  CoinCover'
<1>1. Width' = Width
  BY DEF Width, Scale
<1>2. \A i \in 0 .. AddressDone - 1 : Covers(p'.parts, "TO_ADDRESS", i, shape.addresses[i + 1])
  BY StillCovers DEF CoinCover
<1>3. \A i \in 0 .. ToDone - 1 : Covers(p'.parts, "TO_AMOUNT", i, Width["TO_AMOUNT"])
  BY StillCovers DEF CoinCover
<1>4. p'.pc \in CapturedVar => Covers(p'.parts, p'.pc, ArrayIndex', p'.len[p'.pc])
  <2>1. CASE p'.pc \in CapturedVar /\ p'.len[p'.pc] = 0
    BY <2>1, NothingToCover
  <2>2. CASE p'.pc \in CapturedVar /\ p'.pc = p.pc /\ p'.array = p.array /\ p'.len = p.len
    <3>1. ArrayIndex' = ArrayIndex /\ p.pc # "D_VALUE"
      BY <2>2 DEF ArrayIndex, CapturedVar
    <3> QED
      BY <2>2, <3>1, StillCovers DEF CoinCover
  <2> QED
    BY <2>1, <2>2
<1> QED
  BY <1>1, <1>2, <1>3, <1>4 DEF CoinCover

LEMMA CallStaysCovered ==
  ASSUME CallCover, KeepsPieces, shape' = shape,
         shape.type = 16 =>
           /\ p.pc \in BeforeName \cup {"CC_MNAME"} => p'.pc \in BeforeName \cup {"CC_MNAME"}
           /\ p.pc \in BeforeAddress => p'.pc \in BeforeAddress
           /\ p.pc \in BeforeValue => p'.pc \in BeforeValue
  PROVE  CallCover'
<1>1. Width' = Width
  BY DEF Width, Scale
<1>2. \A label \in {"CC_MNAME", "CC_CADDR", "CC_VALUE"} : \A width :
        Covers(p.parts, label, 0, width) => Covers(p'.parts, label, 0, width)
  BY StillCovers
<1> QED
  BY <1>1, <1>2 DEF CallCover

\* All of a field has been copied.
LEMMA AllCopied ==
  ASSUME TypeInv, NEW st, Standing(st), LenInv, RestInv, CoinCover, Enough, Whole,
         p.pc \in CapturedVar,
         p'.parts = CopyOn(HeadValue)
  PROVE  Covers(p'.parts, p.pc, ArrayIndex, BodyWidth)
<1>1. /\ p.pc # "END" /\ p.pc # "D_VALUE" /\ p.pc # "D_VALUE_V" /\ VarLabel
      /\ BodyWidth = Val(st) /\ Val(st) \in Nat
      /\ Uncut(st) \/ \E n \in Nat : Cut(st, n)
  BY CapturedFacts DEF CapturedVar
<1>2. HeadValue \in Nat /\ p.buf # <<>> /\ p.len[p.pc] \in Nat
  BY <1>1, Needs DEF TypeInv, ParserType
<1>3. p.len[p.pc] + HeadValue = BodyWidth
  <2>1. CASE Uncut(st)
    BY <1>1, <1>2, <2>1, CuttingIsCut, FirstByte DEF LenInv
  <2>2. CASE ~Uncut(st)
    BY <1>1, <1>2, <2>2, CuttingIsCut DEF RestInv
  <2> QED
    BY <2>1, <2>2
<1>4. /\ Covers(p.parts, p.pc, ArrayIndex, p.len[p.pc])
      /\ p'.parts = p.parts \cup Part(p.pc, ArrayIndex, p.len[p.pc], Need + 1, HeadValue)
  BY DEF CoinCover, CopyOn
<1>5. Covers(p'.parts, p.pc, ArrayIndex, p.len[p.pc] + HeadValue)
  BY <1>1, <1>2, <1>4, CoversMore
<1> QED
  BY <1>3, <1>5

\* The fields of a coin or a call that are copied whole.
LEMMA FixedCopied ==
  ASSUME TypeInv, Enough, NEW i, p.pc \in {"CC_CADDR", "CC_VALUE", "TO_AMOUNT"},
         p'.parts = p.parts \cup Part(p.pc, i, 0, 1, Need)
  PROVE  Covers(p'.parts, p.pc, i, Width[p.pc])
<1>1. Need = Width[p.pc] /\ Need \in Nat
  BY SMTT(30), Needs DEF FixedLabels, TypeInv, ParserType
<1>2. Covers(p'.parts, p.pc, i, 0 + Need)
  BY <1>1, NothingToCover, CoversMore
<1> QED
  BY <1>1, <1>2

LEMMA PiecesKept ==
  ASSUME TypeInv, Parse
  PROVE  KeepsPieces /\ shape' = shape
<1>1. ASSUME \/ Reserve \/ ReadType \/ SkipFixed \/ TxDataLength \/ CoinDataLength
             \/ SkipVar \/ ArgCount \/ ValueCount \/ SkipValue
             \/ FromCount \/ ToCount \/ Asset \/ EndFrom \/ EndTo
             \/ LengthError \/ Finish
      PROVE  p'.parts = p.parts /\ shape' = shape
  BY <1>1, ReserveEffect, ReadTypeEffect, SkipFixedEffect, TxDataLengthEffect,
     CoinDataLengthEffect, SkipVarEffect, ArgCountEffect, ValueCountEffect,
     SkipValueEffect, FromCountEffect, ToCountEffect, AssetEffect,
     EndFromEffect, EndToEffect, LengthErrorEffect, FinishEffect DEF SameParts, Stay
<1>2. ASSUME CaptureFixed \/ Amount \/ Element \/ CaptureVar \/ ValueError
      PROVE  p.parts \subseteq p'.parts /\ shape' = shape
  BY <1>2, CaptureFixedEffect, AmountEffect, ElementEffect, CaptureVarEffect, ValueErrorEffect
  DEF CopyOn, SameParts, Stay
<1>3. ASSUME ElementLength PROVE KeepsPieces /\ shape' = shape
  BY <1>3, ElementLengthEffect DEF KeepsPieces
<1> QED
  BY <1>1, <1>2, <1>3 DEF Parse, KeepsPieces

\* Away from the outputs nothing of them has been read.
LEMMA CoinsNotCome ==
  ASSUME CoinCover, KeepsPieces, shape' = shape, p.pc \notin Outputs, p'.pc \notin Outputs,
         p'.pc \notin CapturedVar \/ p'.len[p'.pc] = 0
  PROVE  CoinCover'
<1>1. AddressDone = 0 /\ AddressDone' = 0 /\ ToDone = 0 /\ ToDone' = 0
  BY DEF AddressDone, ToDone, Outputs
<1> QED
  BY <1>1, CoinsStayCovered

LEMMA OutsideKeepsCover ==
  ASSUME TypeInv, LenInv, CoinCover, KeepsPieces, shape' = shape,
         \/ ReadType \/ TxDataLength \/ CoinDataLength \/ CaptureFixed \/ SkipVar
         \/ ArgCount \/ ValueCount \/ ElementLength \/ Element \/ SkipValue
         \/ FromCount \/ EndFrom
         \/ (SkipFixed \/ CaptureVar \/ Asset \/ Amount) /\ p.pc \notin Outputs
  PROVE  CoinCover'
<1>1. CASE SkipFixed /\ p.pc \notin Outputs
  <2>1. /\ p.pc \in {"TSP", "CC_SENDER", "CC_GMSL", "CC_GMSP", "FROM_CHAIN"}
        /\ p'.pc = Following[p.pc] /\ p'.len = p.len
    BY <1>1, SkipFixedEffect DEF SameParts, Outputs, OutputLabels
  <2>2. p'.pc \notin Outputs /\ (p'.pc \notin CapturedVar \/ p'.len[p'.pc] = 0)
    BY <2>1 DEF Following, Outputs, OutputLabels, CapturedVar, LenInv, BeforeName
  <2> QED
    BY <2>2, <1>1, CoinsNotCome
<1>2. ASSUME \/ ReadType \/ TxDataLength \/ CoinDataLength \/ CaptureFixed \/ SkipVar
             \/ ArgCount \/ ValueCount \/ ElementLength \/ Element \/ SkipValue
             \/ FromCount \/ EndFrom
             \/ (CaptureVar \/ Asset \/ Amount) /\ p.pc \notin Outputs
      PROVE  CoinCover'
  <2>1. p.pc \notin Outputs /\ p'.pc \notin Outputs /\ p'.pc \notin CapturedVar
    <3>1. CASE ReadType
      BY <3>1, ReadTypeEffect DEF Outputs, OutputLabels, CapturedVar
    <3>2. CASE TxDataLength
      BY <3>2, TxDataLengthEffect DEF Outputs, OutputLabels, CapturedVar
    <3>3. CASE CoinDataLength
      BY <3>3, CoinDataLengthEffect DEF Outputs, OutputLabels, CapturedVar
    <3>4. CASE CaptureFixed
      BY <3>4, CaptureFixedEffect DEF Outputs, OutputLabels, CapturedVar, Following
    <3>5. CASE SkipVar
      BY <3>5, SkipVarEffect DEF Outputs, OutputLabels, CapturedVar, Following
    <3>6. CASE ArgCount
      BY <3>6, ArgCountEffect DEF Outputs, OutputLabels, CapturedVar
    <3>7. CASE ValueCount
      BY <3>7, ValueCountLabels DEF Outputs, OutputLabels, CapturedVar
    <3>8. CASE ElementLength
      BY <3>8, ElementLengthLabels DEF Outputs, OutputLabels, CapturedVar
    <3>9. CASE Element
      BY <3>9, ElementEffect DEF Outputs, OutputLabels, CapturedVar
    <3>10. CASE SkipValue
      BY <3>10, SkipValueEffect DEF Outputs, OutputLabels, CapturedVar
    <3>11. CASE FromCount
      BY <3>11, FromCountEffect DEF Outputs, OutputLabels, CapturedVar
    <3>12. CASE EndFrom
      BY <3>12, EndFromEffect DEF Outputs, OutputLabels, CapturedVar
    <3>13. CASE CaptureVar /\ p.pc \notin Outputs
      BY <3>13, CaptureVarEffect DEF Outputs, OutputLabels, CapturedVar, Following
    <3>14. CASE Asset /\ p.pc \notin Outputs
      BY <3>14, AssetEffect DEF Outputs, OutputLabels, CapturedVar, Following
    <3>15. CASE Amount /\ p.pc \notin Outputs
      BY <3>15, AmountEffect DEF Outputs, OutputLabels, CapturedVar, Following
    <3> QED
      BY <1>2, <3>1, <3>2, <3>3, <3>4, <3>5, <3>6, <3>7, <3>8, <3>9, <3>10, <3>11, <3>12,
         <3>13, <3>14, <3>15
  <2> QED
    BY <2>1, CoinsNotCome
<1> QED
  BY <1>1, <1>2

\* Within the outputs.
LEMMA OutputsKeepCover ==
  ASSUME TypeInv, NEW CONSTANT st, Standing(st), LenInv, RestInv, CoinCover, KeepsPieces,
         shape' = shape,
         \/ ToCount \/ EndTo
         \/ (SkipFixed \/ CaptureVar \/ Asset \/ Amount) /\ p.pc \in Outputs
  PROVE  CoinCover'
<1>0. /\ p.array \in Nat /\ p.len \in [CapturedVar -> Nat] /\ shape \in Shapes /\ Width' = Width
      /\ Len(shape.to) \in Nat
  BY ShapeFacts DEF TypeInv, ParserType, Width, Scale
<1>1. CASE ToCount
  <2>1. /\ p.pc = "TO" /\ p'.array = 0 /\ p'.len = p.len
        /\ p'.pc = IF Len(shape.to) = 0 THEN "END" ELSE "TO_ADDRESS"
    BY <1>1, ToCountEffect, CountFacts DEF SameParts
  <2>2. AddressDone = 0 /\ ToDone = 0 /\ AddressDone' = 0 /\ ToDone' = 0
    BY <2>1 DEF AddressDone, ToDone, OutputLabels
  <2>3. p'.len["TO_ADDRESS"] = 0
    BY <2>1 DEF LenInv, OutputLabels
  <2> QED
    BY <2>1, <2>2, <2>3, CoinsStayCovered DEF CapturedVar
<1>2. CASE EndTo
  <2>1. /\ p.pc = "TO_LOCKTIME" /\ p'.array = p.array + 1
        /\ p'.pc = IF p.array + 1 >= Len(shape.to) THEN "END" ELSE "TO_ADDRESS"
        /\ p'.len = [p.len EXCEPT !["TO_ADDRESS"] = 0]
        /\ p.array < Len(shape.to)
    BY <1>2, EndToEffect, CoinFacts DEF OutputLabels
  <2>2. AddressDone = p.array + 1 /\ ToDone = p.array + 1
    BY <2>1 DEF AddressDone, ToDone, OutputLabels
  <2>3. AddressDone' = p.array + 1 /\ ToDone' = p.array + 1
    BY <1>0, <2>1 DEF AddressDone, ToDone, OutputLabels
  <2>4. p'.len["TO_ADDRESS"] = 0
    BY <1>0, <2>1 DEF CapturedVar
  <2> QED
    BY <2>1, <2>2, <2>3, <2>4, CoinsStayCovered DEF CapturedVar
<1>3. CASE SkipFixed /\ p.pc \in Outputs
  <2>1. p.pc = "TO_CHAIN" /\ p'.pc = "TO_ASSET" /\ p'.array = p.array
    BY <1>3, SkipFixedEffect DEF Outputs, OutputLabels, Following, SameCoins
  <2> QED
    BY <2>1, CoinsStayCovered DEF AddressDone, ToDone, OutputLabels, CapturedVar
<1>4. CASE Asset /\ p.pc \in Outputs
  <2>1. p.pc = "TO_ASSET" /\ p'.pc = "TO_AMOUNT" /\ p'.array = p.array
    BY <1>4, AssetEffect DEF Outputs, OutputLabels, Following, SameCoins
  <2> QED
    BY <2>1, CoinsStayCovered DEF AddressDone, ToDone, OutputLabels, CapturedVar
<1>5. CASE CaptureVar /\ p.pc \in Outputs
  <2>1. /\ p.pc = "TO_ADDRESS" /\ p'.pc = "TO_CHAIN" /\ p'.array = p.array
        /\ p'.parts = CopyOn(HeadValue) /\ Enough /\ Whole
    BY <1>5, CaptureVarEffect DEF Outputs, OutputLabels, Following, SameCoins, CapturedVar
  <2>2. Covers(p'.parts, "TO_ADDRESS", p.array, shape.addresses[p.array + 1])
    <3>1. BodyWidth = shape.addresses[p.array + 1] /\ ArrayIndex = p.array /\ p.pc \in CapturedVar
      BY <2>1 DEF BodyWidth, ArrayIndex, CapturedVar
    <3> QED
      BY <2>1, <3>1, AllCopied
  <2>3. /\ AddressDone = p.array /\ AddressDone' = p.array + 1
        /\ ToDone = p.array /\ ToDone' = p.array
    BY <2>1 DEF AddressDone, ToDone, OutputLabels
  <2>4. \A i \in 0 .. p.array - 1 : Covers(p'.parts, "TO_ADDRESS", i, shape.addresses[i + 1])
    BY <2>3, StillCovers DEF CoinCover
  <2>5. \A i \in 0 .. p.array - 1 : Covers(p'.parts, "TO_AMOUNT", i, Width["TO_AMOUNT"])
    BY <2>3, StillCovers DEF CoinCover
  <2>6. \A i \in 0 .. (p.array + 1) - 1 : i \in 0 .. p.array - 1 \/ i = p.array
    BY <1>0
  <2> QED
    BY <1>0, <2>1, <2>2, <2>3, <2>4, <2>5, <2>6 DEF CoinCover, CapturedVar
<1>6. CASE Amount /\ p.pc \in Outputs
  <2>1. /\ p.pc = "TO_AMOUNT" /\ p'.pc = "TO_LOCKTIME" /\ p'.array = p.array
        /\ p'.parts = p.parts \cup Part(p.pc, p.array, 0, 1, Need) /\ Enough
    BY <1>6, AmountEffect DEF Outputs, OutputLabels, Following, SameCoins
  <2>2. Covers(p'.parts, "TO_AMOUNT", p.array, Width["TO_AMOUNT"])
    BY <2>1, FixedCopied
  <2>3. /\ AddressDone = p.array + 1 /\ AddressDone' = p.array + 1
        /\ ToDone = p.array /\ ToDone' = p.array + 1
    BY <2>1 DEF AddressDone, ToDone, OutputLabels
  <2>4. \A i \in 0 .. (p.array + 1) - 1 : Covers(p'.parts, "TO_ADDRESS", i, shape.addresses[i + 1])
    BY <2>3, StillCovers DEF CoinCover
  <2>5. \A i \in 0 .. p.array - 1 : Covers(p'.parts, "TO_AMOUNT", i, Width["TO_AMOUNT"])
    BY <2>3, StillCovers DEF CoinCover
  <2>6. \A i \in 0 .. (p.array + 1) - 1 : i \in 0 .. p.array - 1 \/ i = p.array
    BY <1>0
  <2> QED
    BY <1>0, <2>1, <2>2, <2>3, <2>4, <2>5, <2>6 DEF CoinCover, CapturedVar
<1> QED
  BY <1>1, <1>2, <1>3, <1>4, <1>5, <1>6

LEMMA ParsingKeepsCoins ==
  ASSUME TypeInv, PositionInv, CutInv, CoinCover, Parse
  PROVE  CoinCover'
<1>1. PICK st \in Nat : Standing(st)
  BY ParsingStands
<1>2. phase = "parsing" /\ LenInv /\ RestInv
  BY ParsingStands DEF CutInv
<1>3. KeepsPieces /\ shape' = shape /\ p.len \in [CapturedVar -> Nat]
  BY PiecesKept DEF TypeInv, ParserType
<1>4. CASE Reserve \/ LengthError \/ Finish
  <2>1. /\ p'.pc = p.pc /\ p'.array = p.array
        /\ p'.len = p.len \/ (p.pc \in CapturedVar /\ p'.len = [p.len EXCEPT ![p.pc] = 0])
    BY <1>4, ReserveEffect, LengthErrorEffect, FinishEffect DEF SameCoins, SameParts
  <2>2. AddressDone' = AddressDone /\ ToDone' = ToDone
    BY <2>1, <1>3 DEF AddressDone, ToDone
  <2>3. p.pc \in CapturedVar => p'.len[p.pc] = 0 \/ p'.len = p.len
    BY <2>1, <1>3
  <2> QED
    BY <2>1, <2>2, <2>3, <1>3, CoinsStayCovered
<1>5. CASE ValueError /\ p.pc \notin CapturedVar
  <2>1. p'.pc = p.pc /\ p'.array = p.array /\ p'.len = p.len
    BY <1>5, ValueErrorEffect DEF SameCoins, SameParts
  <2>2. AddressDone' = AddressDone /\ ToDone' = ToDone
    BY <2>1, <1>3 DEF AddressDone, ToDone
  <2> QED
    BY <2>1, <2>2, <1>3, CoinsStayCovered
<1>6. CASE ValueError /\ p.pc \in CapturedVar
  <2>1. /\ p'.pc = p.pc /\ p'.array = p.array /\ p'.len = [p.len EXCEPT ![p.pc] = Avail]
        /\ p'.parts = CopyOn(Avail) /\ VarLabel /\ Enough /\ ~Whole
    BY <1>6, ValueErrorEffect DEF SameCoins
  <2>2. AddressDone' = AddressDone /\ ToDone' = ToDone /\ ArrayIndex' = ArrayIndex
        /\ Width' = Width
    BY <2>1, <1>3 DEF AddressDone, ToDone, ArrayIndex, Width, Scale
  <2>3. p.len[p.pc] = 0 /\ p'.len[p.pc] = Avail /\ Avail \in Nat /\ p.pc # "D_VALUE"
    <3>1. ~Cutting
      BY <1>2, <1>6, <2>1 DEF RestInv
    <3> QED
      BY <3>1, <1>2, <1>3, <1>6, <2>1, LackFits DEF LenInv, CapturedVar
  <2>4. p'.parts = p.parts \cup Part(p.pc, ArrayIndex, 0, Need + 1, Avail)
    BY <2>1, <2>3 DEF CopyOn
  <2>5. Covers(p'.parts, p.pc, ArrayIndex, 0 + Avail)
    <3> DEFINE len == Avail
               i == ArrayIndex
               label == p.pc
               j == Need + 1
    <3>1. Covers(p.parts, label, i, 0) /\ len \in Nat /\ label # "D_VALUE"
      BY <2>3, NothingToCover
    <3>2. p'.parts = p.parts \cup Part(label, i, 0, j, len)
      BY <2>4
    <3> HIDE DEF len, i, label, j
    <3>3. Covers(p'.parts, label, i, 0 + len)
      BY <3>1, <3>2, CoversMore
    <3> QED
      BY <3>3 DEF len, i, label
  <2>6. Covers(p'.parts, p'.pc, ArrayIndex', p'.len[p'.pc])
    BY <2>1, <2>2, <2>3, <2>5
  <2>7. \A i \in 0 .. AddressDone - 1 : Covers(p'.parts, "TO_ADDRESS", i, shape.addresses[i + 1])
    BY <1>3, StillCovers DEF CoinCover
  <2>8. \A i \in 0 .. ToDone - 1 : Covers(p'.parts, "TO_AMOUNT", i, Width["TO_AMOUNT"])
    BY <1>3, StillCovers DEF CoinCover
  <2> QED
    BY <1>3, <2>2, <2>6, <2>7, <2>8 DEF CoinCover
<1>7. ASSUME \/ ReadType \/ TxDataLength \/ CoinDataLength \/ CaptureFixed \/ SkipVar
             \/ ArgCount \/ ValueCount \/ ElementLength \/ Element \/ SkipValue
             \/ FromCount \/ EndFrom \/ ToCount \/ EndTo
             \/ SkipFixed \/ CaptureVar \/ Asset \/ Amount
      PROVE  CoinCover'
  BY <1>1, <1>2, <1>3, <1>7, OutsideKeepsCover, OutputsKeepCover
<1> QED
  BY <1>4, <1>5, <1>6, <1>7 DEF Parse

LEMMA ParsingKeepsCall ==
  ASSUME TypeInv, PositionInv, CutInv, CoinCover, CallCover, Parse
  PROVE  CallCover'
<1>1. PICK st \in Nat : Standing(st)
  BY ParsingStands
<1>2. phase = "parsing" /\ LenInv /\ RestInv
  BY ParsingStands DEF CutInv
<1>3. KeepsPieces /\ shape' = shape /\ Width' = Width
  BY PiecesKept DEF Width, Scale
<1>4. \A label \in {"CC_MNAME", "CC_CADDR", "CC_VALUE"} : \A width :
        Covers(p.parts, label, 0, width) => Covers(p'.parts, label, 0, width)
  BY <1>3, StillCovers
<1>5. CASE CaptureFixed
  <2>1. /\ Enough /\ p.pc \in {"CC_CADDR", "CC_VALUE"} /\ p'.pc = Following[p.pc]
        /\ p'.parts = p.parts \cup Part(p.pc, 0, 0, 1, Need)
    BY <1>5, CaptureFixedEffect
  <2>2. Covers(p'.parts, p.pc, 0, Width[p.pc])
    BY <2>1, FixedCopied
  <2>3. CASE p.pc = "CC_CADDR"
    <3>1. p'.pc = "CC_VALUE"
      BY <2>1, <2>3 DEF Following
    <3> QED
      BY <3>1, <2>2, <2>3, <1>3 DEF CallCover, BeforeName, BeforeValue
  <2>4. CASE p.pc = "CC_VALUE"
    <3>1. p'.pc = "CC_GMSL"
      BY <2>1, <2>4 DEF Following
    <3>2. shape.type = 16 => Covers(p.parts, "CC_CADDR", 0, Width["CC_CADDR"])
      BY <2>4 DEF CallCover, BeforeAddress
    <3> QED
      BY <3>1, <3>2, <2>2, <2>4, <1>3, <1>4 DEF CallCover, BeforeName
  <2> QED
    BY <2>1, <2>3, <2>4
<1>6. CASE CaptureVar /\ p.pc = "CC_MNAME"
  <2>1. /\ Enough /\ Whole /\ p'.pc = "CC_MDES" /\ p'.parts = CopyOn(HeadValue)
        /\ p.pc \in CapturedVar
    BY <1>6, CaptureVarEffect DEF Following
  <2>2. Covers(p'.parts, "CC_MNAME", 0, shape.name)
    <3>1. BodyWidth = shape.name /\ ArrayIndex = 0
      BY <1>6 DEF BodyWidth, ArrayIndex
    <3> QED
      BY <2>1, <3>1, <1>1, <1>2, <1>6, AllCopied
  <2>3. shape.type = 16 => /\ Covers(p.parts, "CC_CADDR", 0, Width["CC_CADDR"])
                           /\ Covers(p.parts, "CC_VALUE", 0, Width["CC_VALUE"])
    BY <1>6 DEF CallCover, BeforeAddress, BeforeValue, BeforeName
  <2> QED
    BY <2>1, <2>2, <2>3, <1>3, <1>4 DEF CallCover
<1>7. ASSUME \/ Reserve \/ LengthError \/ ValueError \/ Finish
             \/ ReadType \/ TxDataLength \/ CoinDataLength \/ SkipVar \/ SkipFixed
             \/ ArgCount \/ ValueCount \/ ElementLength \/ Element \/ SkipValue
             \/ FromCount \/ EndFrom \/ ToCount \/ EndTo \/ Asset \/ Amount
             \/ CaptureVar /\ p.pc # "CC_MNAME"
      PROVE  CallCover'
  <2>1. shape.type = 16 =>
          \/ p'.pc = p.pc
          \/ p.pc \in {"TYP", "TSP", "RMK", "TXD", "CC_SENDER", "CC_GMSL", "CC_GMSP"}
             /\ <<p.pc, p'.pc>> \in {<<"TYP", "TSP">>, <<"TSP", "RMK">>, <<"RMK", "TXD">>,
                  <<"TXD", "CC_SENDER">>, <<"CC_SENDER", "CC_CADDR">>,
                  <<"CC_GMSL", "CC_GMSP">>, <<"CC_GMSP", "CC_MNAME">>}
          \/ p.pc \notin BeforeName \cup {"CC_MNAME"}
    <3>1. CASE Reserve \/ LengthError \/ ValueError \/ Finish
      BY <3>1, ReserveEffect, LengthErrorEffect, ValueErrorEffect, FinishEffect
    <3>2. CASE ReadType
      BY <3>2, ReadTypeEffect
    <3>3. CASE TxDataLength
      BY <3>3, <1>1, TxDataLengthEffect DEF Standing, Aware
    <3>4. CASE CoinDataLength
      BY <3>4, CoinDataLengthEffect DEF BeforeName
    <3>5. CASE SkipVar
      <4>1. p.pc = "TXD" => ~Typed(p.type)
        BY <3>5 DEF SkipVar, Read, At
      <4>2. p.pc = "TXD" => shape.type # 16
        BY <4>1, <1>1 DEF Standing, Aware, Typed
      <4> QED
        BY <3>5, <4>2, SkipVarEffect DEF Following, BeforeName
    <3>6. CASE SkipFixed
      BY <3>6, SkipFixedEffect DEF Following, BeforeName
    <3>7. CASE ArgCount
      BY <3>7, ArgCountEffect DEF BeforeName
    <3>8. CASE ValueCount \/ ElementLength
      BY <3>8, ValueCountLabels, ElementLengthLabels DEF BeforeName
    <3>9. CASE Element
      BY <3>9, ElementEffect DEF BeforeName
    <3>10. CASE SkipValue
      BY <3>10, SkipValueEffect DEF BeforeName
    <3>11. CASE FromCount
      BY <3>11, FromCountEffect DEF BeforeName
    <3>12. CASE EndFrom
      BY <3>12, EndFromEffect DEF BeforeName
    <3>13. CASE ToCount
      BY <3>13, ToCountEffect DEF BeforeName
    <3>14. CASE EndTo
      BY <3>14, EndToEffect DEF BeforeName
    <3>15. CASE Asset
      BY <3>15, AssetEffect DEF BeforeName
    <3>16. CASE Amount
      BY <3>16, AmountEffect DEF BeforeName
    <3>17. CASE CaptureVar /\ p.pc # "CC_MNAME"
      BY <3>17, CaptureVarEffect DEF BeforeName, CapturedVar
    <3> QED
      BY <1>7, <3>1, <3>2, <3>3, <3>4, <3>5, <3>6, <3>7, <3>8, <3>9, <3>10, <3>11, <3>12,
         <3>13, <3>14, <3>15, <3>16, <3>17
  <2>2. shape.type = 16 =>
          /\ p.pc \in BeforeName \cup {"CC_MNAME"} => p'.pc \in BeforeName \cup {"CC_MNAME"}
          /\ p.pc \in BeforeAddress => p'.pc \in BeforeAddress
          /\ p.pc \in BeforeValue => p'.pc \in BeforeValue
    BY <2>1 DEF BeforeName, BeforeAddress, BeforeValue
  <2> QED
    BY <2>2, <1>3, CallStaysCovered
<1> QED
  BY <1>5, <1>6, <1>7 DEF Parse

LEMMA CoverBegins == p = Fresh(p.pool) => CoinCover /\ CallCover
<1> SUFFICES ASSUME p = Fresh(p.pool) PROVE CoinCover /\ CallCover
  OBVIOUS
<1>1. p.pc = "TYP"
  BY DEF Fresh
<1>2. AddressDone = 0 /\ ToDone = 0 /\ 0 .. 0 - 1 = {}
  BY <1>1 DEF AddressDone, ToDone, OutputLabels
<1> QED
  BY <1>1, <1>2 DEF CoinCover, CallCover, CapturedVar, BeforeName, BeforeAddress, BeforeValue

LEMMA CoverStart == Init => CoverInv
<1> SUFFICES ASSUME Init PROVE CoverInv
  OBVIOUS
<1>1. p = Fresh(p.pool)
  BY DEF Init, Fresh
<1> QED
  BY <1>1, CoverBegins DEF CoverInv

LEMMA CoverStep ==
  TypeInv /\ PositionInv /\ CutInv /\ CoverInv /\ [Next]_vars => CoverInv'
<1> SUFFICES ASSUME TypeInv, PositionInv, CutInv, CoverInv, [Next]_vars PROVE CoverInv'
  OBVIOUS
<1>1. CASE Parse
  BY <1>1, ParsingStands, ParsingKeepsCoins, ParsingKeepsCall DEF CoverInv
<1>2. ASSUME NEW n \in Sizes, NEW m \in BOOLEAN, Absorb(n, m) PROVE CoverInv'
  <2>1. /\ phase = "idle" /\ shape' = shape /\ p'.pc = p.pc /\ p'.array = p.array
        /\ p'.len = p.len /\ p'.parts = p.parts
    BY <1>2, SizesAreNumbers, AbsorbEffect DEF SameCoins, SameParts
  <2>2. AddressDone' = AddressDone /\ ToDone' = ToDone /\ ArrayIndex' = ArrayIndex
        /\ Width' = Width
    BY <2>1 DEF AddressDone, ToDone, ArrayIndex, Width, Scale
  <2> QED
    BY <2>1, <2>2 DEF CoverInv, CoinCover, CallCover
<1>3. CASE NewSession
  <2>1. (p = Fresh(p.pool))'
    BY <1>3 DEF NewSession, Fresh
  <2>2. (CoinCover /\ CallCover)'
    BY <2>1, CoverBegins, PTL
  <2> QED
    BY <2>2 DEF CoverInv
<1>4. CASE UNCHANGED vars
  BY <1>4 DEF vars, CoverInv, CoinCover, CallCover, AddressDone, ToDone, ArrayIndex, Width,
              Scale
<1> QED
  BY <1>1, <1>2, <1>3, <1>4 DEF Next

LEMMA AllCaptured ==
  ASSUME TypeInv, PositionInv, CoinInv, CoverInv
  PROVE  Captured
<1> SUFFICES ASSUME phase = "done" PROVE Captured
  BY DEF Captured
<1>1. p.pc = "END" /\ CoinCover /\ CallCover /\ p.tos = Len(shape.to)
  BY DEF PositionInv, CoverInv, CoinInv, PoolInv, RoomInv
<1>2. \A label, i, width : CapturedWhole(label, i, width) <=> Covers(p.parts, label, i, width)
  BY DEF CapturedWhole, Covers
<1>3. AddressDone = p.tos /\ ToDone = p.tos
  BY <1>1 DEF AddressDone, ToDone, OutputLabels
<1>4. /\ p.pc \notin BeforeName \cup {"CC_MNAME"}
      /\ p.pc \notin BeforeAddress /\ p.pc \notin BeforeValue
  BY <1>1 DEF BeforeName, BeforeAddress, BeforeValue
<1>5. \A i \in 0 .. p.tos - 1 : /\ CapturedWhole("TO_ADDRESS", i, shape.addresses[i + 1])
                                /\ CapturedWhole("TO_AMOUNT", i, Width["TO_AMOUNT"])
  BY <1>1, <1>2, <1>3 DEF CoinCover
<1>6. shape.type = 16 =>
        /\ CapturedWhole("CC_MNAME", 0, shape.name)
        /\ CapturedWhole("CC_CADDR", 0, Width["CC_CADDR"])
        /\ CapturedWhole("CC_VALUE", 0, Width["CC_VALUE"])
  BY <1>1, <1>2, <1>4 DEF CallCover
<1> QED
  BY <1>5, <1>6 DEF Captured

\* If no address and no method name is cut twice, what the review shows of
\* every output and of a call has been captured to its last byte when it
\* opens, in whatever chunks it came (transaction_deserialize, resumed by
\* handler_sign_tx).
THEOREM ParserCaptures == CutOnce => (Spec => []Captured)
<1> SUFFICES ASSUME CutOnce PROVE Spec => []Captured
  OBVIOUS
<1>1. Init => TypeInv /\ PositionInv /\ CoinInv /\ CutInv /\ CoverInv
  BY TypesStart, PositionStart, CoinsStart, CutStart, CoverStart
<1>2. TypeInv /\ PositionInv /\ CoinInv /\ CutInv /\ CoverInv /\ [Next]_vars
      => (TypeInv /\ PositionInv /\ CoinInv /\ CutInv /\ CoverInv)'
  BY TypesStep, PositionStep, CoinsStep, CutStep, CoverStep DEF LensInv, CutInv
<1>3. TypeInv /\ PositionInv /\ CoinInv /\ CoverInv => Captured
  BY AllCaptured
<1> QED
  BY <1>1, <1>2, <1>3, PTL DEF Spec

---------------------------------------------------------------------------
(* The memory that a transaction takes.  Induction over sets of numbers,    *)
(* and the sums of a sequence's first numbers.                              *)

LEMMA Induction ==
  ASSUME NEW T \in SUBSET Nat, 0 \in T, \A n \in T : n + 1 \in T
  PROVE  T = Nat
<1> DEFINE U == Nat \ T
           R == {ss \in Nat \X Nat : ss[1] < ss[2]}
<1>1. SUFFICES ASSUME U # {} PROVE FALSE
  OBVIOUS
<1>2. IsWellFoundedOn(R, Nat)
  BY NatLessThanWellFounded DEF OpToRel
<1>3. \A x, y \in Nat : y < x => <<y, x>> \in R
  OBVIOUS
<1>4. U \in SUBSET Nat
  OBVIOUS
<1>5. PICK x \in U : \A y \in U : ~ (<<y, x>> \in R)
  <2> HIDE DEF R, U
  <2>. QED  BY <1>1, <1>2, <1>4, WFMin
<1> HIDE DEF R
<1>6. x - 1 \in Nat /\ x - 1 \in T
  <2>1. x \in Nat /\ x # 0
    OBVIOUS
  <2>2. x - 1 \in Nat /\ x - 1 < x
    BY <2>1
  <2>. QED  BY <2>1, <2>2, <1>3, <1>5
<1>7. (x - 1) + 1 = x /\ x \notin T
  OBVIOUS
<1>. QED  BY <1>6, <1>7

SumsUpTo(f, m, w) == \A n \in 0 .. m : f[n] = IF n = 0 THEN 0 ELSE f[n - 1] + w[n]

LEMMA SumsExist ==
  ASSUME NEW m \in Nat, NEW w, \A n \in 1 .. m : w[n] \in Nat
  PROVE  \E f \in [0 .. m -> Nat] : SumsUpTo(f, m, w)
<1> DEFINE Some(n) == \E f \in [0 .. n -> Nat] : SumsUpTo(f, n, w)
           T == {n \in Nat : n <= m => Some(n)}
<1>1. 0 \in T
  <2> DEFINE f == [n \in 0 .. 0 |-> 0]
  <2>1. f \in [0 .. 0 -> Nat] /\ SumsUpTo(f, 0, w)
    BY DEF SumsUpTo
  <2> HIDE DEF f
  <2>. QED  BY <2>1
<1>2. ASSUME NEW n \in T PROVE n + 1 \in T
  <2>1. n \in Nat /\ n + 1 \in Nat
    OBVIOUS
  <2>2. SUFFICES ASSUME n + 1 <= m PROVE Some(n + 1)
    BY <2>1
  <2>3. PICK f \in [0 .. n -> Nat] : SumsUpTo(f, n, w)
    BY <2>1, <2>2
  <2> DEFINE h == [k \in 0 .. n + 1 |-> IF k = n + 1 THEN f[n] + w[n + 1] ELSE f[k]]
  <2>4. h \in [0 .. n + 1 -> Nat]
    <3>1. f[n] \in Nat /\ w[n + 1] \in Nat
      BY <2>1, <2>2
    <3>2. f[n] + w[n + 1] \in Nat
      BY <3>1
    <3>. QED  BY <2>1, <3>2
  <2>5. ASSUME NEW k \in 0 .. n + 1
        PROVE  h[k] = IF k = 0 THEN 0 ELSE h[k - 1] + w[k]
    <3>1. CASE k = n + 1
      <4>1. h[k] = f[n] + w[n + 1] /\ k - 1 = n /\ h[n] = f[n] /\ k # 0
        BY <3>1, <2>1
      <4>. QED  BY <4>1, <3>1
    <3>2. CASE k # n + 1
      <4>1. /\ k \in 0 .. n /\ h[k] = f[k]
            /\ k # 0 => k - 1 \in 0 .. n /\ h[k - 1] = f[k - 1]
        BY <3>2, <2>1
      <4>2. f[k] = IF k = 0 THEN 0 ELSE f[k - 1] + w[k]
        BY <4>1, <2>3 DEF SumsUpTo
      <4>. QED  BY <4>1, <4>2
    <3>. QED  BY <3>1, <3>2
  <2> HIDE DEF h
  <2>6. SumsUpTo(h, n + 1, w)
    BY <2>5 DEF SumsUpTo
  <2>. QED  BY <2>4, <2>6
<1>3. T \in SUBSET Nat
  OBVIOUS
<1> HIDE DEF T
<1>4. T = Nat
  BY <1>1, <1>2, <1>3, Induction
<1>. QED  BY <1>4 DEF T

LEMMA SumsGrow ==
  ASSUME NEW m \in Nat, NEW f \in [0 .. m -> Nat], NEW w, \A n \in 1 .. m : w[n] \in Nat,
         SumsUpTo(f, m, w)
  PROVE  \A n, k \in 0 .. m : n <= k => f[n] <= f[k]
<1> DEFINE T == {d \in Nat : \A n \in 0 .. m : n + d <= m => f[n] <= f[n + d]}
<1>1. 0 \in T
  <2>1. \A n \in 0 .. m : n + 0 = n /\ f[n] \in Nat
    OBVIOUS
  <2>. QED  BY <2>1
<1>2. ASSUME NEW d \in T PROVE d + 1 \in T
  <2>1. ASSUME NEW n \in 0 .. m, n + (d + 1) <= m PROVE f[n] <= f[n + (d + 1)]
    <3>1. /\ d \in Nat /\ n + d \in 0 .. m /\ n + (d + 1) \in 1 .. m
          /\ (n + (d + 1)) - 1 = n + d /\ n + d <= m
      BY <2>1
    <3>2. f[n + (d + 1)] = f[n + d] + w[n + (d + 1)]
      BY <3>1 DEF SumsUpTo
    <3>3. f[n] <= f[n + d] /\ f[n] \in Nat /\ f[n + d] \in Nat /\ w[n + (d + 1)] \in Nat
      BY <3>1
    <3>. QED  BY <3>2, <3>3
  <2>. QED  BY <2>1
<1>3. T \in SUBSET Nat
  OBVIOUS
<1> HIDE DEF T
<1>4. T = Nat
  BY <1>1, <1>2, <1>3, Induction
<1>5. ASSUME NEW n \in 0 .. m, NEW k \in 0 .. m, n <= k PROVE f[n] <= f[k]
  <2>1. k - n \in Nat /\ n + (k - n) = k /\ k <= m
    BY <1>5
  <2>. QED  BY <1>4, <2>1 DEF T
<1>. QED  BY <1>5

---------------------------------------------------------------------------
(* What a reviewable transaction takes of the pool.                         *)

\* The arguments' part of PoolUse is a sum.
ArgRooms(s) == [n \in 1 .. Len(Arguments(s)) |-> s.args[n][1] + 1]

LEMMA ArgumentFacts ==
  ASSUME NEW s \in Shapes
  PROVE  /\ Len(s.args) \in Nat
         /\ Arguments(s) = <<>> \/ Arguments(s) = s.args
         /\ Len(Arguments(s)) \in 0 .. Len(s.args)
         /\ \A j \in 1 .. Len(s.args) : s.args[j] \in Seq(Nat)
         /\ Reviewable(s) => \A j \in 1 .. Len(Arguments(s)) :
                               /\ Len(s.args[j]) = 1 /\ s.args[j][1] \in Nat
                               /\ \A n \in Scales[s.scale].chunks :
                                    s.args[j][1] - 1 + n <= Scales[s.scale].capacity
<1>1. s.args \in Seq(Seq(Nat))
  BY ShapeAssumption
<1>2. Len(s.args) \in Nat /\ \A j \in 1 .. Len(s.args) : s.args[j] \in Seq(Nat)
  BY <1>1
<1>3. Arguments(s) = <<>> \/ Arguments(s) = s.args
  BY DEF Arguments
<1>4. Len(Arguments(s)) \in 0 .. Len(s.args) /\ DOMAIN Arguments(s) = 1 .. Len(Arguments(s))
  BY <1>1, <1>2, <1>3
<1>5. ASSUME Reviewable(s), NEW j \in 1 .. Len(Arguments(s))
      PROVE  /\ Len(s.args[j]) = 1 /\ s.args[j][1] \in Nat
             /\ \A n \in Scales[s.scale].chunks :
                  s.args[j][1] - 1 + n <= Scales[s.scale].capacity
  <2>1. /\ Len(s.args[j]) = 1
        /\ \A n \in Scales[s.scale].chunks :
             s.args[j][1] - 1 + n <= Scales[s.scale].capacity
    BY <1>4, <1>5 DEF Reviewable
  <2>2. s.args[j] \in Seq(Nat)
    BY <1>2, <1>4
  <2>3. s.args[j][1] \in Nat
    BY <2>1, <2>2
  <2>. QED  BY <2>1, <2>3
<1>. QED  BY <1>2, <1>3, <1>4, <1>5

LEMMA ArgumentRoomIs ==
  ASSUME NEW s \in Shapes, Reviewable(s)
  PROVE  /\ ArgumentRoom(s) \in [0 .. Len(Arguments(s)) -> Nat]
         /\ SumsUpTo(ArgumentRoom(s), Len(Arguments(s)), ArgRooms(s))
         /\ \A n \in 1 .. Len(Arguments(s)) : ArgRooms(s)[n] \in Nat
<1> DEFINE m == Len(Arguments(s))
           w == ArgRooms(s)
           Is(f) == f = [n \in 0 .. m |-> IF n = 0 THEN 0 ELSE f[n - 1] + s.args[n][1] + 1]
<1>1. m \in Nat /\ \A n \in 1 .. m : s.args[n][1] \in Nat
  BY ArgumentFacts
<1>2. \A n \in 1 .. m : w[n] = s.args[n][1] + 1 /\ w[n] \in Nat
  BY <1>1 DEF ArgRooms
<1>3. ArgumentRoom(s) = CHOOSE f : Is(f)
  BY DEF ArgumentRoom
<1> HIDE DEF m, w
<1>4. PICK f \in [0 .. m -> Nat] : SumsUpTo(f, m, w)
  BY <1>1, <1>2, SumsExist
<1>5. Is(f)
  <2>1. ASSUME NEW n \in 0 .. m
        PROVE  f[n] = IF n = 0 THEN 0 ELSE f[n - 1] + s.args[n][1] + 1
    <3>1. CASE n = 0
      BY <1>4, <3>1 DEF SumsUpTo
    <3>2. CASE n # 0
      <4>1. n \in 1 .. m /\ n - 1 \in 0 .. m
        BY <1>1, <3>2
      <4>2. f[n] = f[n - 1] + w[n] /\ f[n - 1] \in Nat
        BY <1>4, <4>1, <3>2 DEF SumsUpTo
      <4>3. w[n] = s.args[n][1] + 1 /\ s.args[n][1] \in Nat
        BY <1>1, <1>2, <4>1
      <4>4. f[n] = f[n - 1] + s.args[n][1] + 1
        BY <4>2, <4>3
      <4>. QED  BY <3>2, <4>4
    <3>. QED  BY <3>1, <3>2
  <2>. QED  BY <2>1
<1> DEFINE g == ArgumentRoom(s)
<1>6. Is(g)
  <2> HIDE DEF Is
  <2>. QED  BY <1>3, <1>5
<1>7. \A n \in 0 .. m : g[n] = IF n = 0 THEN 0 ELSE g[n - 1] + s.args[n][1] + 1
  <2> HIDE DEF g
  <2>. QED  BY <1>6
<1>8. DOMAIN g = 0 .. m /\ g = [n \in 0 .. m |-> g[n]]
  <2> HIDE DEF g
  <2>. QED  BY <1>6
<1> HIDE DEF g, Is
<1> DEFINE T == {n \in Nat : n <= m => g[n] \in Nat}
<1>9. 0 \in T
  BY <1>1, <1>7
<1>10. ASSUME NEW n \in T PROVE n + 1 \in T
  <2>1. n \in Nat /\ n + 1 \in Nat /\ (n + 1) - 1 = n /\ n + 1 # 0
    OBVIOUS
  <2>2. SUFFICES ASSUME n + 1 <= m PROVE g[n + 1] \in Nat
    BY <2>1
  <2>3. n + 1 \in 0 .. m /\ n + 1 \in 1 .. m /\ n <= m
    BY <1>1, <2>1, <2>2
  <2>4. g[n + 1] = g[n] + s.args[n + 1][1] + 1 /\ g[n] \in Nat /\ s.args[n + 1][1] \in Nat
    BY <1>1, <1>7, <2>1, <2>3
  <2>. QED  BY <2>4
<1>11. T \in SUBSET Nat
  OBVIOUS
<1>12. \A n \in 0 .. m : g[n] \in Nat
  <2> HIDE DEF T
  <2>1. T = Nat
    BY <1>9, <1>10, <1>11, Induction
  <2>2. \A n \in 0 .. m : n \in T /\ n <= m
    BY <1>1, <2>1
  <2>. QED  BY <2>2 DEF T
<1>13. g \in [0 .. m -> Nat]
  BY <1>8, <1>12
<1>14. SumsUpTo(g, m, w)
  <2>1. ASSUME NEW n \in 0 .. m PROVE g[n] = IF n = 0 THEN 0 ELSE g[n - 1] + w[n]
    <3>1. CASE n = 0
      BY <1>7, <3>1
    <3>2. CASE n # 0
      <4>1. n \in 1 .. m /\ n - 1 \in 0 .. m
        BY <1>1, <3>2
      <4>2. /\ g[n] = g[n - 1] + s.args[n][1] + 1 /\ g[n - 1] \in Nat
            /\ w[n] = s.args[n][1] + 1 /\ s.args[n][1] \in Nat
        BY <1>1, <1>2, <1>7, <1>12, <3>2, <4>1
      <4>3. g[n] = g[n - 1] + w[n]
        BY <4>2
      <4>. QED  BY <3>2, <4>3
    <3>. QED  BY <3>1, <3>2
  <2>. QED  BY <2>1 DEF SumsUpTo
<1>. QED  BY <1>2, <1>13, <1>14 DEF g, m, w

\* What the first k arguments take, which is nothing if they are not kept; and
\* all that is taken before the outputs.
ArgsTaken(s, k) == IF Arguments(s) = <<>> THEN 0 ELSE ArgumentRoom(s)[k]
Called(s) == CallRoom(s) + ArgumentRoom(s)[Len(Arguments(s))]
AddressRoom(s) == Scales[s.scale].width["CC_CADDR"]
ValueRoom(s) == Scales[s.scale].width["CC_VALUE"]
NameRoom(s) == Scales[s.scale].room
AmountRoom(s) == Scales[s.scale].width["TO_AMOUNT"]

LEMMA RoomFacts ==
  ASSUME shape \in Shapes
  PROVE  /\ AddressRoom(shape) \in Nat /\ AddressRoom(shape) = Width["CC_CADDR"]
         /\ ValueRoom(shape) \in Nat /\ ValueRoom(shape) = Width["CC_VALUE"]
         /\ NameRoom(shape) \in Nat /\ NameRoom(shape) = Room
         /\ AmountRoom(shape) \in Nat /\ AmountRoom(shape) = Width["TO_AMOUNT"]
         /\ RoomForOutput(shape) = NameRoom(shape) + AmountRoom(shape)
         /\ RoomForOutput(shape) \in Nat
         /\ CallRoom(shape) \in Nat
         /\ shape.type = 16 => CallRoom(shape) = AddressRoom(shape) + ValueRoom(shape)
                                                 + NameRoom(shape)
         /\ Len(shape.to) * RoomForOutput(shape) \in Nat /\ Len(shape.to) \in Nat
         /\ \A a \in Nat : a * RoomForOutput(shape) \in Nat
<1>1. /\ Width["CC_CADDR"] \in Nat /\ Width["CC_VALUE"] \in Nat /\ Width["TO_AMOUNT"] \in Nat
      /\ Room \in Nat
  BY ScaleFacts DEF FixedLabels
<1>2. /\ AddressRoom(shape) = Width["CC_CADDR"] /\ ValueRoom(shape) = Width["CC_VALUE"]
      /\ NameRoom(shape) = Room /\ AmountRoom(shape) = Width["TO_AMOUNT"]
      /\ RoomForOutput(shape) = NameRoom(shape) + AmountRoom(shape)
      /\ CallRoom(shape) = IF shape.type = 16
                           THEN AddressRoom(shape) + ValueRoom(shape) + NameRoom(shape) ELSE 0
  BY DEF AddressRoom, ValueRoom, NameRoom, AmountRoom, RoomForOutput, CallRoom, Width, Room, Scale
<1>3. RoomForOutput(shape) \in Nat /\ CallRoom(shape) \in Nat
  BY <1>1, <1>2
<1>4. Len(shape.to) \in Nat
  BY ShapeFacts
<1>5. \A a \in Nat : a * RoomForOutput(shape) \in Nat
  BY <1>3, Products
<1>. QED  BY <1>1, <1>2, <1>3, <1>4, <1>5

LEMMA TakenFacts ==
  ASSUME shape \in Shapes, Reviewable(shape)
  PROVE  /\ ArgsTaken(shape, 0) = 0
         /\ \A k \in 0 .. Len(shape.args) :
              ArgsTaken(shape, k) \in Nat /\ CallRoom(shape) + ArgsTaken(shape, k) <= Called(shape)
         /\ \A k \in 0 .. Len(shape.args) - 1 : ArgsTaken(shape, k) <= ArgsTaken(shape, k + 1)
         /\ Arguments(shape) # <<>> =>
              \A k \in 0 .. Len(shape.args) - 1 :
                ArgsTaken(shape, k + 1) = ArgsTaken(shape, k) + shape.args[k + 1][1] + 1
         /\ Called(shape) \in Nat /\ CallRoom(shape) <= Called(shape)
         /\ Called(shape) + Len(shape.to) * RoomForOutput(shape) <= PoolSize
<1> DEFINE m == Len(Arguments(shape))
           f == ArgumentRoom(shape)
           w == ArgRooms(shape)
<1>1. /\ f \in [0 .. m -> Nat] /\ SumsUpTo(f, m, w) /\ \A n \in 1 .. m : w[n] \in Nat
  BY ArgumentRoomIs
<1>2. m \in Nat /\ Len(shape.args) \in Nat
  BY ArgumentFacts
<1>3. Arguments(shape) # <<>> => m = Len(shape.args)
  BY ArgumentFacts
<1>4. \A n \in 1 .. m : w[n] = shape.args[n][1] + 1 /\ shape.args[n][1] \in Nat
  BY ArgumentFacts DEF ArgRooms
<1>5. \A k \in 0 .. Len(shape.args) :
        ArgsTaken(shape, k) = IF Arguments(shape) = <<>> THEN 0 ELSE f[k]
  BY DEF ArgsTaken
<1>6. CallRoom(shape) \in Nat
  BY RoomFacts
<1>7. Called(shape) = CallRoom(shape) + f[m]
  BY DEF Called
<1>8. Called(shape) + Len(shape.to) * RoomForOutput(shape) <= PoolSize
  <2>1. PoolUse(shape) = Called(shape) + Len(shape.to) * RoomForOutput(shape)
    BY DEF PoolUse, Called
  <2>. QED  BY <2>1 DEF Reviewable, PoolSize, Scale
<1> HIDE DEF m, f, w
<1>9. \A n, k \in 0 .. m : n <= k => f[n] <= f[k]
  BY <1>1, <1>2, SumsGrow
<1>10. f[0] = 0 /\ f[m] \in Nat /\ 0 \in 0 .. m /\ m \in 0 .. m
  BY <1>1, <1>2 DEF SumsUpTo
<1>11. ArgsTaken(shape, 0) = 0
  BY <1>2, <1>5, <1>10
<1>12. ASSUME NEW k \in 0 .. Len(shape.args)
       PROVE  /\ ArgsTaken(shape, k) \in Nat
              /\ CallRoom(shape) + ArgsTaken(shape, k) <= Called(shape)
  <2>1. CASE Arguments(shape) = <<>>
    BY <1>5, <1>6, <1>7, <1>10, <2>1
  <2>2. CASE Arguments(shape) # <<>>
    <3>1. k \in 0 .. m /\ k <= m /\ ArgsTaken(shape, k) = f[k]
      BY <1>3, <1>5, <2>2
    <3>2. f[k] \in Nat /\ f[k] <= f[m]
      BY <1>1, <1>9, <1>10, <3>1
    <3>. QED  BY <1>6, <1>7, <1>10, <3>1, <3>2
  <2>. QED  BY <2>1, <2>2
<1>13. ASSUME NEW k \in 0 .. Len(shape.args) - 1
       PROVE  /\ ArgsTaken(shape, k) <= ArgsTaken(shape, k + 1)
              /\ Arguments(shape) # <<>> =>
                   ArgsTaken(shape, k + 1) = ArgsTaken(shape, k) + shape.args[k + 1][1] + 1
  <2>0. k \in 0 .. Len(shape.args) /\ k + 1 \in 0 .. Len(shape.args)
    BY <1>2
  <2>1. CASE Arguments(shape) = <<>>
    BY <1>5, <2>0, <2>1
  <2>2. CASE Arguments(shape) # <<>>
    <3>1. /\ k \in 0 .. m /\ k + 1 \in 1 .. m /\ k + 1 \in 0 .. m
          /\ ArgsTaken(shape, k) = f[k] /\ ArgsTaken(shape, k + 1) = f[k + 1]
      BY <1>2, <1>3, <1>5, <2>0, <2>2
    <3>2. f[k + 1] = f[k] + w[k + 1] /\ f[k] \in Nat /\ f[k + 1] \in Nat
      <4>1. (k + 1) - 1 = k /\ k + 1 # 0
        BY <2>0
      <4>. QED  BY <1>1, <3>1, <4>1 DEF SumsUpTo
    <3>3. w[k + 1] = shape.args[k + 1][1] + 1 /\ shape.args[k + 1][1] \in Nat
      BY <1>4, <3>1
    <3>4. \A a, b, h, v \in Nat : b = a + v /\ v = h + 1 => a <= b /\ b = a + h + 1
      OBVIOUS
    <3>5. w[k + 1] \in Nat
      BY <3>3
    <3> DEFINE a == f[k]
               b == f[k + 1]
               v == w[k + 1]
               h == shape.args[k + 1][1]
    <3>6. /\ a \in Nat /\ b \in Nat /\ v \in Nat /\ h \in Nat /\ b = a + v /\ v = h + 1
          /\ ArgsTaken(shape, k) = a /\ ArgsTaken(shape, k + 1) = b
      BY <3>1, <3>2, <3>3, <3>5
    <3> HIDE DEF a, b, v
    <3>7. a <= b /\ b = a + h + 1
      <4> HIDE DEF h
      <4>. QED  BY <3>4, <3>6
    <3>. QED  BY <3>6, <3>7
  <2>. QED  BY <2>1, <2>2
<1>14. Called(shape) \in Nat /\ CallRoom(shape) <= Called(shape)
  BY <1>6, <1>7, <1>10
<1>. QED  BY <1>8, <1>11, <1>12, <1>13, <1>14

\* What the first k outputs take, and a pointer that may have been reserved.
OutputsTaken(s, k) == k * RoomForOutput(s)
Due(reserved, label, i, room) == IF <<label, i>> \in reserved THEN room ELSE 0

LEMMA OutputFacts ==
  ASSUME shape \in Shapes, Reviewable(shape)
  PROVE  /\ OutputsTaken(shape, 0) = 0
         /\ \A k \in Nat : /\ OutputsTaken(shape, k) \in Nat
                           /\ OutputsTaken(shape, k + 1)
                                = OutputsTaken(shape, k) + NameRoom(shape) + AmountRoom(shape)
         /\ \A k \in 0 .. Len(shape.to) : Called(shape) + OutputsTaken(shape, k) <= PoolSize
<1> DEFINE c == RoomForOutput(shape)
<1>1. /\ c \in Nat /\ c = NameRoom(shape) + AmountRoom(shape) /\ Len(shape.to) \in Nat
      /\ NameRoom(shape) \in Nat /\ AmountRoom(shape) \in Nat
  BY RoomFacts
<1>2. \A k : OutputsTaken(shape, k) = k * c
  BY DEF OutputsTaken
<1>3. Called(shape) \in Nat /\ Called(shape) + Len(shape.to) * c <= PoolSize /\ PoolSize \in Nat
  BY TakenFacts, ScaleFacts
<1> HIDE DEF c
<1>4. OutputsTaken(shape, 0) = 0
  <2>1. 0 * c = 0
    BY <1>1
  <2>. QED  BY <1>2, <2>1
<1>5. ASSUME NEW k \in Nat
      PROVE  /\ OutputsTaken(shape, k) \in Nat
             /\ OutputsTaken(shape, k + 1)
                  = OutputsTaken(shape, k) + NameRoom(shape) + AmountRoom(shape)
  <2>1. k * c \in Nat /\ (k + 1) * c = k * c + c
    BY <1>1, Products
  <2>2. OutputsTaken(shape, k) = k * c /\ OutputsTaken(shape, k + 1) = (k + 1) * c
    BY <1>2
  <2> DEFINE o == k * c
  <2> HIDE DEF o
  <2>3. o \in Nat /\ OutputsTaken(shape, k) = o /\ OutputsTaken(shape, k + 1) = o + c
    BY <2>1, <2>2 DEF o
  <2>. QED  BY <2>3, <1>1
<1>6. ASSUME NEW k \in 0 .. Len(shape.to)
      PROVE  Called(shape) + OutputsTaken(shape, k) <= PoolSize
  <2>1. k \in Nat /\ k <= Len(shape.to)
    BY <1>1
  <2>2. k * c \in Nat /\ Len(shape.to) * c \in Nat /\ k * c <= Len(shape.to) * c
    BY <1>1, <2>1, Products
  <2> DEFINE o == k * c
             all == Len(shape.to) * c
  <2>3. o \in Nat /\ all \in Nat /\ o <= all /\ Called(shape) + all <= PoolSize
    BY <1>3, <2>2
  <2>4. OutputsTaken(shape, k) = o
    BY <1>2
  <2> HIDE DEF o, all
  <2>. QED  BY <2>3, <2>4, <1>3
<1>. QED  BY <1>4, <1>5, <1>6

\* The pool holds no more than what the fields behind the parser, and the one
\* it is at, take in PoolUse.
CallLabels == {"CC_SENDER", "CC_CADDR", "CC_VALUE", "CC_GMSL", "CC_GMSP", "CC_MNAME",
               "CC_MDES", "CC_TDAL", "D_LEN", "D_VALUE", "D_VALUE_V"}
KnownCall ==
  /\ p.pc \in CallLabels => shape.type = 16
  /\ p.method \in {"none", "misread", shape.method}
CallUse ==
  /\ p.pc \in {"TSP", "RMK", "TXD", "CC_SENDER"} => p.pool <= 0
  /\ p.pc = "CC_CADDR" => p.pool <= Due(p.reserved, "CC_CADDR", 0, AddressRoom(shape))
  /\ p.pc = "CC_VALUE" =>
       p.pool <= AddressRoom(shape) + Due(p.reserved, "CC_VALUE", 0, ValueRoom(shape))
  /\ p.pc \in {"CC_GMSL", "CC_GMSP"} => p.pool <= AddressRoom(shape) + ValueRoom(shape)
  /\ p.pc = "CC_MNAME" =>
       p.pool <= AddressRoom(shape) + ValueRoom(shape)
                 + Due(p.reserved, "CC_MNAME", 0, NameRoom(shape))
  /\ p.pc \in {"CC_MDES", "CC_TDAL"} => p.pool <= CallRoom(shape)
  /\ p.pc \in {"D_LEN", "D_VALUE"} => p.pool <= CallRoom(shape) + ArgsTaken(shape, p.arg)
  /\ p.pc = "D_VALUE_V" => p.pool <= CallRoom(shape) + ArgsTaken(shape, p.arg + 1)
  /\ p.pc \in {"COD", "FROM", "TO"} \cup InputLabels => p.pool <= Called(shape)
CoinUse ==
  /\ p.pc = "TO_ADDRESS" =>
       p.pool <= Called(shape) + OutputsTaken(shape, p.array)
                 + Due(p.reserved, "TO_ADDRESS", p.array, NameRoom(shape))
  /\ p.pc \in {"TO_CHAIN", "TO_ASSET"} =>
       p.pool <= Called(shape) + OutputsTaken(shape, p.array) + NameRoom(shape)
  /\ p.pc = "TO_AMOUNT" =>
       p.pool <= Called(shape) + OutputsTaken(shape, p.array) + NameRoom(shape)
                 + Due(p.reserved, "TO_AMOUNT", p.array, AmountRoom(shape))
  /\ p.pc = "TO_LOCKTIME" => p.pool <= Called(shape) + OutputsTaken(shape, p.array + 1)
PoolUseInv == CallUse /\ CoinUse

\* Between chunks raw_tx holds less than a length, than a field of fixed size,
\* or than the value of an argument.
Waits ==
  \/ Len(p.buf) <= 3
  \/ p.pc \in FixedLabels /\ Len(p.buf) < Width[p.pc]
  \/ p.pc = "D_VALUE_V" /\ Len(p.buf) < p.element

MemoryInv ==
  /\ phase # "failed" => KnownCall
  /\ phase # "failed" /\ Reviewable(shape) => PoolUseInv
  /\ phase = "idle" => Waits

\* An argument the parser is at.
LEMMA ArgumentAt ==
  ASSUME TypeInv, NEW st, Standing(st), p.pc \in {"D_LEN", "D_VALUE", "D_VALUE_V"}
  PROVE  /\ p.arg \in 0 .. Len(shape.args) - 1 /\ Len(shape.args) \in Nat
         /\ p.args = Len(shape.args)
         /\ p.pc = "D_LEN" => Val(st) = Len(shape.args[p.arg + 1])
         /\ p.pc # "D_LEN" => /\ p.value < Len(shape.args[p.arg + 1])
                              /\ p.value \in Nat
                              /\ Val(st) = shape.args[p.arg + 1][p.value + 1]
<1>1. /\ p.arg \in Nat /\ p.value \in Nat /\ shape \in Shapes /\ StandsAt(st) /\ p.pc # "END"
      /\ p.args = Len(shape.args)
  BY DEF TypeInv, ParserType, Standing, Aware
<1>2. /\ FieldAt(st).label = (IF p.pc = "D_VALUE_V" THEN "D_VALUE" ELSE p.pc)
      /\ FieldAt(st).i = p.arg /\ FieldAt(st).j = Nth /\ Says(shape, FieldAt(st))
      /\ Val(st) = FieldAt(st).val
  BY <1>1, FieldFacts, Extents DEF Index
<1>3. p.pc # "D_LEN" => Nth = p.value
  BY DEF Nth
<1>4. Len(shape.args) \in Nat
  BY <1>1, ArgumentFacts
<1>5. p.arg < Len(shape.args)
  BY <1>2 DEF Says
<1>6. p.pc = "D_LEN" => Val(st) = Len(shape.args[p.arg + 1])
  BY <1>2 DEF Says
<1>7. p.pc # "D_LEN" => /\ p.value < Len(shape.args[p.arg + 1])
                        /\ Val(st) = shape.args[p.arg + 1][p.value + 1]
  BY <1>2, <1>3 DEF Says
<1>. QED  BY <1>1, <1>4, <1>5, <1>6, <1>7

LEMMA UseStays ==
  ASSUME PoolUseInv, UNCHANGED shape, p'.pc = p.pc, p'.arg = p.arg, SameCoins, SamePool
  PROVE  PoolUseInv'
BY DEF PoolUseInv, CallUse, CoinUse, SameCoins, SamePool

\* On to the next label, with what it may have reserved.
LEMMA PassingKeepsUse ==
  ASSUME TypeInv, Reviewable(shape), KnownCall, PoolUseInv, UNCHANGED shape,
         SameCoins, SamePool, p.pc \in DOMAIN Following \ {"TYP"}, p'.pc = Following[p.pc]
  PROVE  PoolUseInv'
<1>1. /\ p.pool \in Nat /\ p.array \in Nat /\ shape \in Shapes /\ p'.array = p.array
      /\ p'.reserved = p.reserved /\ p'.pool = p.pool
  BY DEF TypeInv, ParserType, SameCoins, SamePool
<1>2. /\ AddressRoom(shape) \in Nat /\ ValueRoom(shape) \in Nat /\ NameRoom(shape) \in Nat
      /\ AmountRoom(shape) \in Nat /\ CallRoom(shape) \in Nat
      /\ shape.type = 16 => CallRoom(shape) = AddressRoom(shape) + ValueRoom(shape)
                                              + NameRoom(shape)
  BY <1>1, RoomFacts
<1>3. /\ OutputsTaken(shape, p.array) \in Nat
      /\ OutputsTaken(shape, p.array + 1)
           = OutputsTaken(shape, p.array) + NameRoom(shape) + AmountRoom(shape)
  BY <1>1, OutputFacts
<1>4. Called(shape) \in Nat
  BY <1>1, TakenFacts
<1>5. \A label, i : /\ \A room \in Nat : /\ Due(p.reserved, label, i, room) \in Nat
                                         /\ Due(p.reserved, label, i, room) <= room
  BY DEF Due
<1>6. CASE p.pc \in {"TSP", "RMK", "CC_SENDER", "CC_CADDR", "CC_VALUE", "CC_GMSL", "CC_GMSP",
                     "CC_MNAME", "CC_MDES"}
  <2>1. p.pc \in {"CC_SENDER", "CC_CADDR", "CC_VALUE", "CC_GMSL", "CC_GMSP",
                  "CC_MNAME", "CC_MDES"} => shape.type = 16
    BY DEF KnownCall, CallLabels
  <2>2. CASE p.pc \in {"TSP", "RMK"}
    BY <1>1, <2>2 DEF PoolUseInv, CallUse, CoinUse, InputLabels, Following
  <2>3. CASE p.pc = "CC_SENDER"
    BY <1>1, <1>2, <1>5, <2>3 DEF PoolUseInv, CallUse, CoinUse, InputLabels, Following
  <2>4. CASE p.pc = "CC_CADDR"
    BY <1>1, <1>2, <1>5, <2>4 DEF PoolUseInv, CallUse, CoinUse, InputLabels, Following
  <2>5. CASE p.pc = "CC_VALUE"
    BY <1>1, <1>2, <1>5, <2>5 DEF PoolUseInv, CallUse, CoinUse, InputLabels, Following
  <2>6. CASE p.pc \in {"CC_GMSL", "CC_GMSP"}
    BY <1>1, <1>2, <1>5, <2>6 DEF PoolUseInv, CallUse, CoinUse, InputLabels, Following
  <2>7. CASE p.pc \in {"CC_MNAME", "CC_MDES"}
    BY <1>1, <1>2, <1>5, <2>1, <2>7 DEF PoolUseInv, CallUse, CoinUse, InputLabels, Following
  <2>. QED  BY <1>6, <2>2, <2>3, <2>4, <2>5, <2>6, <2>7
<1>7. CASE p.pc \in {"COD", "FROM_ADDRESS", "FROM_CHAIN", "FROM_ASSET", "FROM_AMOUNT",
                     "FROM_NONCE"}
  <2>1. p'.pc \in {"FROM", "FROM_CHAIN", "FROM_ASSET", "FROM_AMOUNT", "FROM_NONCE", "FROM_LOCKED"}
    BY <1>7 DEF Following
  <2>2. p.pool <= Called(shape)
    BY <1>7 DEF PoolUseInv, CallUse, InputLabels
  <2>. QED  BY <1>1, <2>1, <2>2 DEF PoolUseInv, CallUse, CoinUse, InputLabels
<1>8. CASE p.pc \in {"TO_ADDRESS", "TO_CHAIN", "TO_ASSET", "TO_AMOUNT"}
  <2>1. CASE p.pc = "TO_ADDRESS"
    <3>1. p'.pc = "TO_CHAIN"
      BY <2>1 DEF Following
    <3>2. CoinUse'
      BY <1>1, <1>2, <1>3, <1>4, <1>5, <2>1, <3>1 DEF PoolUseInv, CoinUse
    <3>3. CallUse'
      BY <3>1 DEF CallUse, InputLabels
    <3>. QED  BY <3>2, <3>3 DEF PoolUseInv
  <2>2. CASE p.pc = "TO_CHAIN"
    <3>1. p'.pc = "TO_ASSET"
      BY <2>2 DEF Following
    <3>2. CoinUse'
      BY <1>1, <1>2, <1>3, <1>4, <1>5, <2>2, <3>1 DEF PoolUseInv, CoinUse
    <3>3. CallUse'
      BY <3>1 DEF CallUse, InputLabels
    <3>. QED  BY <3>2, <3>3 DEF PoolUseInv
  <2>3. CASE p.pc = "TO_ASSET"
    <3>1. p'.pc = "TO_AMOUNT"
      BY <2>3 DEF Following
    <3>2. CoinUse'
      BY <1>1, <1>2, <1>3, <1>4, <1>5, <2>3, <3>1 DEF PoolUseInv, CoinUse
    <3>3. CallUse'
      BY <3>1 DEF CallUse, InputLabels
    <3>. QED  BY <3>2, <3>3 DEF PoolUseInv
  <2>4. CASE p.pc = "TO_AMOUNT"
    <3>1. p'.pc = "TO_LOCKTIME"
      BY <2>4 DEF Following
    <3>2. CoinUse'
      BY <1>1, <1>2, <1>3, <1>4, <1>5, <2>4, <3>1 DEF PoolUseInv, CoinUse
    <3>3. CallUse'
      BY <3>1 DEF CallUse, InputLabels
    <3>. QED  BY <3>2, <3>3 DEF PoolUseInv
  <2>. QED  BY <1>8, <2>1, <2>2, <2>3, <2>4
<1>. QED  BY <1>6, <1>7, <1>8 DEF Following

\* A pointer that is reserved takes its part.
LEMMA ReserveKeepsUse ==
  ASSUME TypeInv, Reviewable(shape), PoolInv, PoolUseInv, Reserve, phase' # "failed"
  PROVE  PoolUseInv'
<1>1. /\ UNCHANGED shape /\ ~Reserved /\ p'.pc = p.pc /\ SameCoins /\ phase # "failed"
      /\ p.pc \in {"TO_ADDRESS", "TO_AMOUNT", "CC_CADDR", "CC_VALUE", "CC_MNAME"}
      /\ p'.pool = p.pool + RoomOf /\ p'.reserved = p.reserved \cup {Pointer}
  BY ReserveEffect DEF Parsing
<1>2. /\ p.pool \in Nat /\ p.array \in Nat /\ shape \in Shapes /\ p'.array = p.array
  BY <1>1 DEF TypeInv, ParserType, SameCoins
<1>3. /\ AddressRoom(shape) \in Nat /\ ValueRoom(shape) \in Nat /\ NameRoom(shape) \in Nat
      /\ AmountRoom(shape) \in Nat /\ CallRoom(shape) \in Nat
      /\ AddressRoom(shape) = Width["CC_CADDR"] /\ ValueRoom(shape) = Width["CC_VALUE"]
      /\ NameRoom(shape) = Room /\ AmountRoom(shape) = Width["TO_AMOUNT"]
  BY <1>2, RoomFacts
<1>4. /\ OutputsTaken(shape, p.array) \in Nat /\ Called(shape) \in Nat
  BY <1>2, OutputFacts, TakenFacts
<1>5. CASE p.pc \in {"CC_CADDR", "CC_VALUE", "CC_MNAME"}
  <2>1. Pointer = <<p.pc, 0>> /\ <<p.pc, 0>> \notin p.reserved /\ <<p.pc, 0>> \in p'.reserved
    BY <1>1, <1>5 DEF Pointer, Reserved
  <2>2. RoomOf = IF p.pc = "CC_MNAME" THEN NameRoom(shape)
                 ELSE IF p.pc = "CC_CADDR" THEN AddressRoom(shape) ELSE ValueRoom(shape)
    BY <1>3, <1>5 DEF RoomOf
  <2>3. \A room : Due(p.reserved, p.pc, 0, room) = 0 /\ Due(p'.reserved, p.pc, 0, room) = room
    BY <2>1 DEF Due
  <2>4. CASE p.pc = "CC_CADDR"
    <3>1. p'.pool = p.pool + AddressRoom(shape) /\ Due(p'.reserved, "CC_CADDR", 0, AddressRoom(shape)) = AddressRoom(shape)
      BY <1>1, <2>2, <2>3, <2>4
    <3>2. p.pool <= 0
      BY <1>2, <1>3, <1>4, <2>3, <2>4 DEF PoolUseInv, CallUse
    <3>3. p'.pool <= Due(p'.reserved, "CC_CADDR", 0, AddressRoom(shape))
      BY <1>2, <1>3, <1>4, <3>1, <3>2
    <3>4. CallUse' /\ CoinUse'
      BY <1>1, <1>2, <2>4, <3>3 DEF CallUse, CoinUse, InputLabels
    <3>. QED  BY <3>4 DEF PoolUseInv
  <2>5. CASE p.pc = "CC_VALUE"
    <3>1. p'.pool = p.pool + ValueRoom(shape) /\ Due(p'.reserved, "CC_VALUE", 0, ValueRoom(shape)) = ValueRoom(shape)
      BY <1>1, <2>2, <2>3, <2>5
    <3>2. p.pool <= AddressRoom(shape)
      BY <1>2, <1>3, <1>4, <2>3, <2>5 DEF PoolUseInv, CallUse
    <3>3. p'.pool <= AddressRoom(shape) + Due(p'.reserved, "CC_VALUE", 0, ValueRoom(shape))
      BY <1>2, <1>3, <1>4, <3>1, <3>2
    <3>4. CallUse' /\ CoinUse'
      BY <1>1, <1>2, <2>5, <3>3 DEF CallUse, CoinUse, InputLabels
    <3>. QED  BY <3>4 DEF PoolUseInv
  <2>6. CASE p.pc = "CC_MNAME"
    <3>1. p'.pool = p.pool + NameRoom(shape) /\ Due(p'.reserved, "CC_MNAME", 0, NameRoom(shape)) = NameRoom(shape)
      BY <1>1, <2>2, <2>3, <2>6
    <3>2. p.pool <= AddressRoom(shape) + ValueRoom(shape)
      BY <1>2, <1>3, <1>4, <2>3, <2>6 DEF PoolUseInv, CallUse
    <3>3. p'.pool <= AddressRoom(shape) + ValueRoom(shape) + Due(p'.reserved, "CC_MNAME", 0, NameRoom(shape))
      BY <1>2, <1>3, <1>4, <3>1, <3>2
    <3>4. CallUse' /\ CoinUse'
      BY <1>1, <1>2, <2>6, <3>3 DEF CallUse, CoinUse, InputLabels
    <3>. QED  BY <3>4 DEF PoolUseInv
  <2>. QED  BY <1>5, <2>4, <2>5, <2>6
<1>6. CASE p.pc \in {"TO_ADDRESS", "TO_AMOUNT"}
  <2>1. /\ Pointer = <<p.pc, p.array>> /\ <<p.pc, p.array>> \notin p.reserved
        /\ <<p.pc, p.array>> \in p'.reserved
    BY <1>1, <1>6, OwnPlace DEF Reserved
  <2>2. RoomOf = IF p.pc = "TO_ADDRESS" THEN NameRoom(shape) ELSE AmountRoom(shape)
    BY <1>3, <1>6 DEF RoomOf
  <2>3. \A room : /\ Due(p.reserved, p.pc, p.array, room) = 0
                  /\ Due(p'.reserved, p.pc, p.array, room) = room
    BY <2>1 DEF Due
  <2>4. CASE p.pc = "TO_ADDRESS"
    <3>1. p'.pool = p.pool + NameRoom(shape) /\ Due(p'.reserved, "TO_ADDRESS", p.array, NameRoom(shape)) = NameRoom(shape)
      BY <1>1, <2>2, <2>3, <2>4
    <3>2. p.pool <= Called(shape) + OutputsTaken(shape, p.array)
      BY <1>2, <1>3, <1>4, <2>3, <2>4 DEF PoolUseInv, CoinUse
    <3>3. p'.pool <= Called(shape) + OutputsTaken(shape, p.array) + Due(p'.reserved, "TO_ADDRESS", p.array, NameRoom(shape))
      BY <1>2, <1>3, <1>4, <3>1, <3>2
    <3>4. CoinUse' /\ CallUse'
      BY <1>1, <1>2, <2>4, <3>3 DEF CallUse, CoinUse, InputLabels
    <3>. QED  BY <3>4 DEF PoolUseInv
  <2>5. CASE p.pc = "TO_AMOUNT"
    <3>1. p'.pool = p.pool + AmountRoom(shape) /\ Due(p'.reserved, "TO_AMOUNT", p.array, AmountRoom(shape)) = AmountRoom(shape)
      BY <1>1, <2>2, <2>3, <2>5
    <3>2. p.pool <= Called(shape) + OutputsTaken(shape, p.array) + NameRoom(shape)
      BY <1>2, <1>3, <1>4, <2>3, <2>5 DEF PoolUseInv, CoinUse
    <3>3. p'.pool <= Called(shape) + OutputsTaken(shape, p.array) + NameRoom(shape) + Due(p'.reserved, "TO_AMOUNT", p.array, AmountRoom(shape))
      BY <1>2, <1>3, <1>4, <3>1, <3>2
    <3>4. CoinUse' /\ CallUse'
      BY <1>1, <1>2, <2>5, <3>3 DEF CallUse, CoinUse, InputLabels
    <3>. QED  BY <3>4 DEF PoolUseInv
  <2>. QED  BY <1>6, <2>4, <2>5
<1>. QED  BY <1>1, <1>5, <1>6

\* The contract call is over, or the type has none.
LEMMA CallDone ==
  ASSUME p'.pool \in Nat, p'.pool <= Called(shape), UNCHANGED shape,
         p'.pc \in {"COD", "FROM", "TO"} \cup InputLabels
  PROVE  PoolUseInv'
BY DEF PoolUseInv, CallUse, CoinUse, InputLabels

\* The argument the parser was at has taken its part.
LEMMA ArgumentDone ==
  ASSUME TypeInv, NEW st, Standing(st), Reviewable(shape), UNCHANGED shape,
         p.pc \in {"D_LEN", "D_VALUE", "D_VALUE_V"},
         p'.pc = IF p.arg + 1 < p.args THEN "D_LEN" ELSE "COD",
         p'.arg = p.arg + 1, p'.pool = p.pool,
         p.pool <= CallRoom(shape) + ArgsTaken(shape, p.arg + 1)
  PROVE  PoolUseInv'
<1>1. p.arg \in 0 .. Len(shape.args) - 1 /\ Len(shape.args) \in Nat /\ p.pool \in Nat /\ shape \in Shapes
  BY ArgumentAt DEF TypeInv, ParserType
<1>2. p.arg + 1 \in 0 .. Len(shape.args)
  BY <1>1
<1>3. /\ CallRoom(shape) + ArgsTaken(shape, p.arg + 1) <= Called(shape)
      /\ ArgsTaken(shape, p.arg + 1) \in Nat /\ CallRoom(shape) \in Nat /\ Called(shape) \in Nat
  BY <1>1, <1>2, TakenFacts, RoomFacts
<1>4. CASE p'.pc = "D_LEN"
  BY <1>4 DEF PoolUseInv, CallUse, CoinUse, InputLabels
<1>5. CASE p'.pc = "COD"
  <2>1. p'.pool <= Called(shape) /\ p'.pool \in Nat
    BY <1>1, <1>3
  <2>. QED  BY <1>5, <2>1, CallDone
<1>. QED  BY <1>4, <1>5

\* A value that is kept is one of a transfer's.
LEMMA KeptArgument ==
  ASSUME TypeInv, NEW st, Standing(st), KnownCall, Reviewable(shape),
         \/ p.pc = "D_VALUE" /\ ~Listed /\ Enough
         \/ p.pc = "D_VALUE_V"
  PROVE  /\ Arguments(shape) # <<>> /\ p.arg + 1 \in 1 .. Len(Arguments(shape))
         /\ Val(st) = shape.args[p.arg + 1][1] /\ Val(st) \in Nat
         /\ p.pc = "D_VALUE" => HeadValue = shape.args[p.arg + 1][1] /\ HeadValue \in Nat
<1>1. /\ p.method \in Kept /\ shape.type = 16 /\ shape \in Shapes
  BY DEF Standing, Aware, Listed, KnownCall, CallLabels, TypeInv
<1>2. shape.method \in Kept
  BY <1>1 DEF KnownCall, Kept
<1>3. Arguments(shape) = shape.args
  BY <1>1, <1>2 DEF Arguments
<1>4. /\ p.arg \in 0 .. Len(shape.args) - 1 /\ Len(shape.args) \in Nat
      /\ p.value < Len(shape.args[p.arg + 1]) /\ p.value \in Nat
      /\ Val(st) = shape.args[p.arg + 1][p.value + 1]
  BY ArgumentAt
<1>5. p.arg + 1 \in 1 .. Len(Arguments(shape))
  BY <1>3, <1>4
<1>6. Len(shape.args[p.arg + 1]) = 1 /\ shape.args[p.arg + 1][1] \in Nat
  BY <1>1, <1>5, ArgumentFacts
<1>7. p.value = 0
  BY <1>4, <1>6
<1>8. Val(st) = shape.args[p.arg + 1][1] /\ Val(st) \in Nat
  BY <1>4, <1>6, <1>7
<1>9. p.pc = "D_VALUE" => HeadValue = Val(st)
  BY LengthRead
<1>10. Arguments(shape) # <<>>
  <2>1. Len(Arguments(shape)) # 0
    BY <1>3, <1>4
  <2>. QED  BY <2>1
<1>. QED  BY <1>5, <1>6, <1>8, <1>9, <1>10

LEMMA ArgumentsKeepUse ==
  ASSUME TypeInv, NEW st, Standing(st), Reviewable(shape), KnownCall, PoolUseInv,
         phase # "failed", phase' # "failed",
         ArgCount \/ ValueCount \/ ElementLength \/ Element \/ SkipValue
  PROVE  PoolUseInv'
<1>1. p.pool \in Nat /\ shape \in Shapes /\ CallRoom(shape) \in Nat /\ p.arg \in Nat
  BY RoomFacts DEF TypeInv, ParserType
<1>2. CASE ArgCount
  <2>1. /\ UNCHANGED shape /\ p.pc = "CC_TDAL" /\ p'.arg = 0 /\ SamePool
        /\ p'.pc \in {"D_LEN", "COD"}
    BY <1>2, ArgCountEffect DEF Stay
  <2>2. p.pool <= CallRoom(shape) /\ p'.pool = p.pool
    BY <2>1 DEF PoolUseInv, CallUse, SamePool
  <2>3. CASE p'.pc = "COD"
    <3>1. CallRoom(shape) <= Called(shape) /\ Called(shape) \in Nat
      BY <1>1, TakenFacts
    <3>2. p'.pool \in Nat /\ p'.pool <= Called(shape)
      BY <1>1, <2>2, <3>1
    <3>. QED  BY <2>1, <2>3, <3>2, CallDone
  <2>4. CASE p'.pc = "D_LEN"
    <3>1. ArgsTaken(shape, 0) = 0
      BY <1>1, TakenFacts
    <3>2. p'.pool <= CallRoom(shape) + ArgsTaken(shape, p'.arg)
      BY <1>1, <2>1, <2>2, <3>1
    <3>. QED  BY <2>1, <2>4, <3>2 DEF PoolUseInv, CallUse, CoinUse, InputLabels
  <2>. QED  BY <2>1, <2>3, <2>4
<1>3. ASSUME p.pc \in {"D_LEN", "D_VALUE", "D_VALUE_V"}
      PROVE  /\ p.arg \in 0 .. Len(shape.args) - 1 /\ p.arg + 1 \in 0 .. Len(shape.args)
             /\ p.arg \in 0 .. Len(shape.args)
             /\ ArgsTaken(shape, p.arg) \in Nat /\ ArgsTaken(shape, p.arg + 1) \in Nat
             /\ ArgsTaken(shape, p.arg) <= ArgsTaken(shape, p.arg + 1)
  <2>1. p.arg \in 0 .. Len(shape.args) - 1 /\ Len(shape.args) \in Nat
    BY <1>3, ArgumentAt
  <2>2. p.arg + 1 \in 0 .. Len(shape.args) /\ p.arg \in 0 .. Len(shape.args)
    BY <2>1
  <2>. QED  BY <1>1, <2>1, <2>2, TakenFacts
<1>4. CASE ValueCount
  <2>1. /\ UNCHANGED shape /\ p.pc = "D_LEN" /\ SamePool
        /\ \/ /\ p'.arg = p.arg + 1
              /\ p'.pc = IF p.arg + 1 < p.args THEN "D_LEN" ELSE "COD"
           \/ p'.arg = p.arg /\ p'.pc = "D_VALUE"
    BY <1>4, ValueCountEffect
  <2>2. p.pool <= CallRoom(shape) + ArgsTaken(shape, p.arg) /\ p'.pool = p.pool
    BY <2>1 DEF PoolUseInv, CallUse, SamePool
  <2>3. p.pool <= CallRoom(shape) + ArgsTaken(shape, p.arg + 1)
    BY <1>1, <1>3, <2>1, <2>2
  <2>4. CASE p'.arg = p.arg /\ p'.pc = "D_VALUE"
    BY <2>1, <2>2, <2>4 DEF PoolUseInv, CallUse, CoinUse, InputLabels
  <2>. QED  BY <2>1, <2>2, <2>3, <2>4, ArgumentDone
<1>5. CASE SkipValue
  <2>1. /\ UNCHANGED shape /\ p.pc = "D_VALUE" /\ SamePool
        /\ \/ /\ p'.arg = p.arg + 1
              /\ p'.pc = IF p.arg + 1 < p.args THEN "D_LEN" ELSE "COD"
           \/ p'.arg = p.arg /\ p'.pc = "D_VALUE"
    BY <1>5, SkipValueEffect DEF Stay
  <2>2. p.pool <= CallRoom(shape) + ArgsTaken(shape, p.arg) /\ p'.pool = p.pool
    BY <2>1 DEF PoolUseInv, CallUse, SamePool
  <2>3. p.pool <= CallRoom(shape) + ArgsTaken(shape, p.arg + 1)
    BY <1>1, <1>3, <2>1, <2>2
  <2>4. CASE p'.arg = p.arg /\ p'.pc = "D_VALUE"
    BY <2>1, <2>2, <2>4 DEF PoolUseInv, CallUse, CoinUse, InputLabels
  <2>. QED  BY <2>1, <2>2, <2>3, <2>4, ArgumentDone
<1>6. CASE Element
  <2>1. /\ UNCHANGED shape /\ p.pc = "D_VALUE_V" /\ SamePool /\ p'.arg = p.arg + 1
        /\ p'.pc = IF p.arg + 1 < p.args THEN "D_LEN" ELSE "COD"
    BY <1>6, ElementEffect DEF Stay
  <2>2. p.pool <= CallRoom(shape) + ArgsTaken(shape, p.arg + 1) /\ p'.pool = p.pool
    BY <2>1 DEF PoolUseInv, CallUse, SamePool
  <2>. QED  BY <2>1, <2>2, ArgumentDone
<1>7. CASE ElementLength
  <2>1. /\ UNCHANGED shape /\ p.pc = "D_VALUE" /\ ~Listed /\ Enough /\ p'.arg = p.arg
        /\ p'.pc = "D_VALUE_V" /\ p'.pool = p.pool + HeadValue + 1
    BY <1>7, ElementLengthEffect
  <2>2. /\ p.pool <= CallRoom(shape) + ArgsTaken(shape, p.arg)
    BY <2>1 DEF PoolUseInv, CallUse
  <2>3. Arguments(shape) # <<>> /\ HeadValue = shape.args[p.arg + 1][1] /\ HeadValue \in Nat
    BY <2>1, KeptArgument
  <2>4. ArgsTaken(shape, p.arg + 1) = ArgsTaken(shape, p.arg) + HeadValue + 1
    BY <1>1, <1>3, <2>1, <2>3, TakenFacts
  <2>5. p'.pool <= CallRoom(shape) + ArgsTaken(shape, p.arg + 1)
    <3>1. ArgsTaken(shape, p.arg) \in Nat
      BY <1>3, <2>1
    <3>2. \A a, b, c, h \in Nat : a <= b + c => a + h + 1 <= b + (c + h + 1)
      OBVIOUS
    <3>3. p.pool + HeadValue + 1 <= CallRoom(shape) + (ArgsTaken(shape, p.arg) + HeadValue + 1)
      BY <1>1, <2>2, <2>3, <3>1, <3>2
    <3>. QED  BY <2>1, <2>4, <3>3
  <2>. QED  BY <2>1, <2>5 DEF PoolUseInv, CallUse, CoinUse, InputLabels
<1>. QED  BY <1>2, <1>4, <1>5, <1>6, <1>7

LEMMA CoinsKeepUse ==
  ASSUME TypeInv, NEW st, Standing(st), Reviewable(shape), PoolUseInv,
         FromCount \/ ToCount \/ EndFrom \/ EndTo
  PROVE  PoolUseInv'
<1>1. p.pool \in Nat /\ shape \in Shapes /\ Called(shape) \in Nat /\ p.array \in Nat
  BY TakenFacts DEF TypeInv, ParserType
<1>2. /\ OutputsTaken(shape, 0) = 0 /\ OutputsTaken(shape, p.array + 1) \in Nat
      /\ NameRoom(shape) \in Nat
  <2>1. p.array + 1 \in Nat
    BY <1>1
  <2>. QED  BY <1>1, <2>1, OutputFacts, RoomFacts
<1>3. \A label, i : Due(p'.reserved, label, i, NameRoom(shape)) \in Nat
  BY <1>2 DEF Due
<1>4. CASE FromCount \/ EndFrom
  <2>1. /\ UNCHANGED shape /\ p.pc \in {"FROM", "FROM_LOCKED"} /\ p'.pool = p.pool
        /\ p'.pc \in {"TO", "FROM_ADDRESS"}
    BY <1>4, FromCountEffect, EndFromEffect DEF Stay, SamePool
  <2>2. p.pool <= Called(shape)
    BY <2>1 DEF PoolUseInv, CallUse, InputLabels
  <2>. QED  BY <1>1, <2>1, <2>2, CallDone DEF InputLabels
<1>5. CASE ToCount
  <2>1. /\ UNCHANGED shape /\ p.pc = "TO" /\ p'.pool = p.pool /\ p'.array = 0
        /\ p'.pc \in {"END", "TO_ADDRESS"}
    BY <1>5, ToCountEffect DEF Stay, SamePool
  <2>2. p.pool <= Called(shape)
    BY <2>1 DEF PoolUseInv, CallUse
  <2>3. p'.pool <= Called(shape) + OutputsTaken(shape, 0)
                   + Due(p'.reserved, "TO_ADDRESS", 0, NameRoom(shape))
    BY <1>1, <1>2, <1>3, <2>1, <2>2
  <2>4. CoinUse'
    BY <2>1, <2>3 DEF CoinUse
  <2>5. CallUse'
    BY <2>1 DEF CallUse, InputLabels
  <2>. QED  BY <2>4, <2>5 DEF PoolUseInv
<1>6. CASE EndTo
  <2>1. /\ UNCHANGED shape /\ p.pc = "TO_LOCKTIME" /\ p'.pool = p.pool
        /\ p'.array = p.array + 1 /\ p'.pc \in {"END", "TO_ADDRESS"}
    BY <1>6, EndToEffect DEF Stay, SamePool
  <2>2. p.pool <= Called(shape) + OutputsTaken(shape, p.array + 1)
    BY <2>1 DEF PoolUseInv, CoinUse
  <2>3. p'.pool <= Called(shape) + OutputsTaken(shape, p.array + 1)
                   + Due(p'.reserved, "TO_ADDRESS", p.array + 1, NameRoom(shape))
    BY <1>1, <1>2, <1>3, <2>1, <2>2
  <2>4. CoinUse'
    BY <2>1, <2>3 DEF CoinUse
  <2>5. CallUse'
    BY <2>1 DEF CallUse, InputLabels
  <2>. QED  BY <2>4, <2>5 DEF PoolUseInv
<1>. QED  BY <1>4, <1>5, <1>6

LEMMA ParsingKeepsUse ==
  ASSUME TypeInv, PositionInv, Reviewable(shape), KnownCall, PoolInv, PoolUseInv,
         Parse, phase' # "failed"
  PROVE  PoolUseInv'
<1>1. phase = "parsing"
  BY ParsingStands
<1>2. PICK st \in Nat : Standing(st)
  BY ParsingStands
<1>3. CASE Reserve
  BY <1>3, ReserveKeepsUse
<1>4. CASE ReadType
  <2>1. UNCHANGED shape /\ p'.pc = "TSP" /\ p'.pool = 0
    BY <1>4, ReadTypeEffect DEF Stay
  <2>. QED  BY <2>1 DEF PoolUseInv, CallUse, CoinUse, InputLabels
<1>5. CASE ArgCount \/ ValueCount \/ ElementLength \/ Element \/ SkipValue
  BY <1>1, <1>2, <1>5, ArgumentsKeepUse
<1>6. CASE FromCount \/ ToCount \/ EndFrom \/ EndTo
  BY <1>2, <1>6, CoinsKeepUse
<1>7. CASE LengthError \/ ValueError
  <2>1. UNCHANGED shape /\ p'.pc = p.pc /\ SameCall /\ SameCoins /\ SamePool
    BY <1>7, LengthErrorEffect, ValueErrorEffect
  <2>. QED  BY <2>1, UseStays DEF SameCall
<1>8. CASE Finish
  <2>1. UNCHANGED <<shape, p>>
    BY <1>8, FinishEffect
  <2>. QED  BY <2>1, UseStays DEF SameCoins, SamePool
<1>9. ASSUME TxDataLength \/ (SkipVar /\ p.pc = "TXD")
      PROVE  PoolUseInv'
  <2>1. /\ UNCHANGED shape /\ p.pc = "TXD" /\ p'.pool = p.pool
        /\ p'.pc \in {"CC_SENDER", "COD"}
    BY <1>9, TxDataLengthEffect, SkipVarEffect DEF Stay, SamePool
  <2>2. p.pool <= 0 /\ p.pool \in Nat /\ Called(shape) \in Nat
    BY <2>1, TakenFacts DEF PoolUseInv, CallUse, TypeInv, ParserType
  <2>3. p'.pool <= 0 /\ p'.pool <= Called(shape) /\ p'.pool \in Nat
    BY <2>1, <2>2
  <2>. QED  BY <2>1, <2>3 DEF PoolUseInv, CallUse, CoinUse, InputLabels
<1>10. ASSUME \/ SkipFixed \/ CoinDataLength \/ (SkipVar /\ p.pc # "TXD")
              \/ CaptureFixed \/ CaptureVar \/ Asset \/ Amount
       PROVE  PoolUseInv'
  <2>1. /\ UNCHANGED shape /\ SameCoins /\ SamePool /\ p.pc \in DOMAIN Following \ {"TYP"}
        /\ p'.pc = Following[p.pc]
    <3>1. CASE SkipFixed
      BY <3>1, SkipFixedEffect DEF Stay, Following
    <3>2. CASE CoinDataLength
      BY <3>2, CoinDataLengthEffect DEF Stay, Following
    <3>3. CASE SkipVar /\ p.pc # "TXD"
      BY <3>3, SkipVarEffect DEF Stay, Following
    <3>4. CASE CaptureFixed
      BY <3>4, CaptureFixedEffect DEF Stay, Following
    <3>5. CASE CaptureVar
      BY <3>5, CaptureVarEffect DEF Stay, Following, CapturedVar
    <3>6. CASE Asset
      BY <3>6, AssetEffect DEF Stay, Following
    <3>7. CASE Amount
      BY <3>7, AmountEffect DEF Stay, Following
    <3>. QED  BY <1>10, <3>1, <3>2, <3>3, <3>4, <3>5, <3>6, <3>7
  <2>. QED  BY <2>1, PassingKeepsUse
<1>. QED  BY <1>3, <1>4, <1>5, <1>6, <1>7, <1>8, <1>9, <1>10 DEF Parse

\* What is known of the call.
LEMMA ParsingKeepsCallKnown ==
  ASSUME TypeInv, PositionInv, KnownCall, Parse, phase' # "failed"
  PROVE  KnownCall'
<1>1. PICK st \in Nat : Standing(st)
  BY ParsingStands
<1>2. p.pc # "TYP" => p.type = shape.type
  BY <1>1 DEF Standing, Aware
<1>3. UNCHANGED shape
  BY ParsingConcludes
<1>4. p'.method \in {"none", "misread", shape.method}
  <2>1. CASE CaptureVar
    <3>1. p \in ParserType
      BY DEF TypeInv
    <3> DEFINE method == IF p.pc # "CC_MNAME" THEN p.method
                         ELSE IF \A f \in CopyOn(HeadValue) : f.label = "CC_MNAME"
                                               => f.offset = -Byte(f.first).k - 1
                              THEN shape.method ELSE "misread"
    <3>2. p'.method = method
      BY <2>1, <3>1 DEF CaptureVar, ParserType
    <3>. QED  BY <3>2 DEF KnownCall
  <2>2. ASSUME ~CaptureVar PROVE p'.method = p.method
    <3>1. CASE ReadType \/ Reserve \/ SkipFixed \/ TxDataLength \/ CoinDataLength \/ SkipVar
      BY <3>1, ReadTypeEffect, ReserveEffect, SkipFixedEffect, TxDataLengthEffect,
         CoinDataLengthEffect, SkipVarEffect DEF SameCall
    <3>2. CASE CaptureFixed \/ ArgCount \/ ValueCount \/ ElementLength \/ Element \/ SkipValue
      BY <3>2, CaptureFixedEffect, ArgCountEffect, ValueCountEffect, ElementLengthEffect,
         ElementEffect, SkipValueEffect DEF SameCall
    <3>3. CASE FromCount \/ ToCount \/ Asset \/ Amount \/ EndFrom \/ EndTo
      BY <3>3, FromCountEffect, ToCountEffect, AssetEffect, AmountEffect, EndFromEffect,
         EndToEffect DEF SameCall
    <3>4. CASE LengthError \/ ValueError \/ Finish
      BY <3>4, LengthErrorEffect, ValueErrorEffect, FinishEffect DEF SameCall
    <3>. QED  BY <2>2, <3>1, <3>2, <3>3, <3>4 DEF Parse
  <2>. QED  BY <2>1, <2>2 DEF KnownCall
<1>5. p'.pc \in CallLabels => shape.type = 16
  <2>1. SUFFICES ASSUME p.pc \notin CallLabels, p'.pc \in CallLabels PROVE shape.type = 16
    BY DEF KnownCall
  <2>2. TxDataLength
    <3>1. p'.pc # p.pc
      BY <2>1
    <3>2. ~ (Reserve \/ LengthError \/ ValueError \/ Finish)
      BY <3>1, ReserveEffect, LengthErrorEffect, ValueErrorEffect, FinishEffect
    <3>3. ~ (ReadType \/ SkipFixed \/ CoinDataLength \/ SkipVar)
      BY <2>1, ReadTypeEffect, SkipFixedEffect, CoinDataLengthEffect, SkipVarEffect
      DEF CallLabels, Following
    <3>4. ~ (CaptureFixed \/ CaptureVar \/ ArgCount \/ ValueCount \/ ElementLength \/ Element
             \/ SkipValue)
      BY <2>1, CaptureFixedEffect, CaptureVarEffect, ArgCountEffect, ValueCountEffect,
         ElementLengthEffect, ElementEffect, SkipValueEffect
      DEF CallLabels, CapturedVar, Following
    <3>5. ~ (FromCount \/ ToCount \/ Asset \/ Amount \/ EndFrom \/ EndTo)
      BY <2>1, FromCountEffect, ToCountEffect, AssetEffect, AmountEffect, EndFromEffect,
         EndToEffect DEF CallLabels, Following
    <3>. QED  BY <3>2, <3>3, <3>4, <3>5 DEF Parse
  <2>3. p.pc = "TXD" /\ p'.pc = IF p.type = 16 THEN "CC_SENDER" ELSE "COD"
    BY <2>2, TxDataLengthEffect
  <2>. QED  BY <1>2, <2>1, <2>3 DEF CallLabels
<1>. QED  BY <1>3, <1>4, <1>5 DEF KnownCall

---------------------------------------------------------------------------
(* The memory that a chunk finds.                                           *)

LEMMA ChunkFacts ==
  ASSUME shape \in Shapes
  PROVE  /\ Max(ChunkSizes) \in ChunkSizes /\ Max(ChunkSizes) \in Nat
         /\ 3 + Max(ChunkSizes) <= Capacity
         /\ \A label \in FixedLabels : Width[label] - 1 + Max(ChunkSizes) <= Capacity
<1>1. shape.scale \in DOMAIN Scales
  BY ShapeAssumption
<1>2. /\ \E most \in ChunkSizes : \A c \in ChunkSizes : c <= most
      /\ \A c \in ChunkSizes : /\ 3 + c <= Capacity
                               /\ \A label \in FixedLabels : Width[label] - 1 + c <= Capacity
  BY <1>1, ScaleAssumption DEF Scale, ChunkSizes, Capacity, Width
<1>3. ChunkSizes \subseteq Nat
  BY ScaleFacts
<1>4. Max(ChunkSizes) \in ChunkSizes
  <2> DEFINE most == CHOOSE x \in ChunkSizes : \A y \in ChunkSizes : x >= y
  <2>1. \E x \in ChunkSizes : \A y \in ChunkSizes : x >= y
    BY <1>2, <1>3
  <2>2. most \in ChunkSizes
    BY <2>1
  <2>. QED  BY <2>2 DEF Max
<1>. QED  BY <1>2, <1>3, <1>4

\* What is kept of a chunk is short.
LEMMA ParsingWaits ==
  ASSUME TypeInv, Parse, phase = "parsing", phase' = "idle"
  PROVE  Waits'
<1>1. LengthError \/ ValueError
  <2>1. CASE Reserve \/ Finish
    BY <2>1, ReserveEffect, FinishEffect
  <2>2. CASE ValueCount \/ ElementLength
    BY <2>2, ValueCountEffect, ElementLengthEffect
  <2>3. CASE \/ ReadType \/ SkipFixed \/ TxDataLength \/ CoinDataLength
             \/ SkipVar \/ CaptureFixed \/ CaptureVar
             \/ ArgCount \/ Element \/ SkipValue
             \/ FromCount \/ ToCount \/ Asset \/ Amount \/ EndFrom \/ EndTo
    <3>1. Stay
      BY <2>3 DEF ReadType, SkipFixed, TxDataLength, CoinDataLength, SkipVar,
                  CaptureFixed, CaptureVar, ArgCount, Element, SkipValue, FromCount,
                  ToCount, Asset, Amount, EndFrom, EndTo
    <3>. QED  BY <3>1 DEF Stay
  <2>. QED  BY <2>1, <2>2, <2>3 DEF Parse
<1>2. shape \in Shapes /\ p.pc \in Labels /\ p.buf \in Seq(Int) /\ Len(p.buf) \in Nat
  BY DEF TypeInv, ParserType
<1>3. CASE LengthError
  <2>1. /\ UNCHANGED shape /\ p'.buf = p.buf /\ p'.pc = p.pc /\ p'.element = p.element
        /\ p.pc # "END" /\ Reserved /\ ~Enough
    BY <1>3, LengthErrorEffect DEF SameCall
  <2>2. ~ (Len(p.buf) >= Need)
    BY <2>1 DEF Enough
  <2>3. Waits
    <3>1. CASE VarLabel \/ VarintLabel
      <4>1. CASE p.buf = <<>>
        BY <4>1 DEF Waits
      <4>2. CASE p.buf # <<>>
        <5>1. Need = VarintWidth(HeadValue) /\ HeadValue \in Nat
          BY <3>1, <4>2, Reading DEF Need, HeadValue
        <5>2. Need \in {1, 3}
          BY <1>2, <5>1, Widths
        <5>. QED  BY <1>2, <2>2, <5>2 DEF Waits
      <4>. QED  BY <4>1, <4>2
    <3>2. CASE ~(VarLabel \/ VarintLabel) /\ CountLabel
      <4>1. Need = 1
        BY <3>2 DEF Need
      <4>. QED  BY <1>2, <2>2, <4>1 DEF Waits
    <3>3. CASE ~(VarLabel \/ VarintLabel) /\ ~CountLabel /\ p.pc = "D_VALUE_V"
      <4>1. Need = p.element /\ p.element \in Nat
        BY <3>3 DEF Need, TypeInv, ParserType
      <4>. QED  BY <1>2, <2>2, <3>3, <4>1 DEF Waits
    <3>4. CASE ~(VarLabel \/ VarintLabel) /\ ~CountLabel /\ p.pc # "D_VALUE_V"
      <4>1. p.pc \in FixedLabels
        BY <1>2, <2>1, <3>4
        DEF Labels, CountLabels, CountLabel, VarLabels, VarLabel, VarintLabel, Listed
      <4>2. Need = Width[p.pc] /\ Width[p.pc] \in Nat
        BY <1>2, <3>4, <4>1, ScaleFacts DEF Need
      <4>. QED  BY <1>2, <2>2, <4>1, <4>2 DEF Waits
    <3>. QED  BY <3>1, <3>2, <3>3, <3>4
  <2>4. Width' = Width
    BY <2>1, SameSizes
  <2>. QED  BY <2>1, <2>3, <2>4 DEF Waits
<1>4. CASE ValueError
  <2>1. VarLabel /\ Enough /\ ~Whole /\ p'.buf = LackVarint(Lack)
    BY <1>4, ValueErrorEffect
  <2>2. Lack \in Nat /\ VarintWidth(Lack) \in {1, 3}
    BY <2>1, LackFits
  <2>3. Len(p'.buf) = VarintWidth(Lack)
    BY <2>1, <2>2, LackVarintFacts
  <2>. QED  BY <2>2, <2>3 DEF Waits
<1>. QED  BY <1>1, <1>3, <1>4

LEMMA ChunkFits ==
  ASSUME TypeInv, PositionInv, MemoryInv, phase = "idle", Reviewable(shape), NEW n \in Sizes
  PROVE  Fits(n)
<1>1. /\ shape \in Shapes /\ Len(p.buf) \in Nat /\ Len(p.buf) <= Capacity /\ Capacity \in Nat
      /\ p.element \in Nat
  BY ScaleFacts DEF TypeInv, ParserType
<1>2. n = 0 \/ (n \in Nat /\ n <= Max(ChunkSizes))
  BY SizesAreNumbers DEF Sizes
<1>3. CASE n = 0
  BY <1>1, <1>3 DEF Fits
<1>4. CASE n \in Nat /\ n <= Max(ChunkSizes)
  <2>1. /\ Max(ChunkSizes) \in ChunkSizes /\ Max(ChunkSizes) \in Nat
        /\ 3 + Max(ChunkSizes) <= Capacity
        /\ \A label \in FixedLabels : Width[label] - 1 + Max(ChunkSizes) <= Capacity
    BY <1>1, ChunkFacts
  <2> DEFINE most == Max(ChunkSizes)
  <2> HIDE DEF most
  <2>2. CASE Len(p.buf) <= 3
    BY <1>1, <1>4, <2>1, <2>2 DEF Fits, most
  <2>3. CASE p.pc \in FixedLabels /\ Len(p.buf) < Width[p.pc]
    <3>1. Width[p.pc] \in Nat /\ Width[p.pc] - 1 + Max(ChunkSizes) <= Capacity
      BY <1>1, <2>1, <2>3, ScaleFacts
    <3>. QED  BY <1>1, <1>4, <2>1, <2>3, <3>1 DEF Fits
  <2>4. CASE p.pc = "D_VALUE_V" /\ Len(p.buf) < p.element
    <3>1. PICK st \in Nat : Standing(st)
      BY DEF PositionInv
    <3>2. p.element = Val(st)
      BY <2>4, <3>1 DEF Standing, Uncut, AtBody, Cut, VarLabel, Listed
    <3>3. KnownCall
      BY DEF MemoryInv
    <3>4. /\ p.arg + 1 \in 1 .. Len(Arguments(shape)) /\ Val(st) = shape.args[p.arg + 1][1]
      BY <2>4, <3>1, <3>3, KeptArgument
    <3>5. shape.args[p.arg + 1][1] - 1 + Max(ChunkSizes) <= Capacity
      BY <1>1, <2>1, <3>4, ArgumentFacts DEF ChunkSizes, Capacity, Scale
    <3>6. p.element - 1 + Max(ChunkSizes) <= Capacity
      BY <3>2, <3>4, <3>5
    <3>. QED  BY <1>1, <1>4, <2>1, <2>4, <3>6 DEF Fits
  <2>. QED  BY <2>2, <2>3, <2>4 DEF MemoryInv, Waits
<1>. QED  BY <1>2, <1>3, <1>4

\* There is memory for every pointer and every value.
LEMMA PointerFits ==
  ASSUME TypeInv, NEW st, Standing(st), Reviewable(shape), KnownCall, PoolInv, PoolUseInv,
         ~Reserved
  PROVE  p.pool + RoomOf <= PoolSize
<1>1. /\ p.pool \in Nat /\ p.array \in Nat /\ shape \in Shapes
  BY DEF TypeInv, ParserType
<1>2. /\ AddressRoom(shape) \in Nat /\ ValueRoom(shape) \in Nat /\ NameRoom(shape) \in Nat
      /\ AmountRoom(shape) \in Nat
      /\ AddressRoom(shape) = Width["CC_CADDR"] /\ ValueRoom(shape) = Width["CC_VALUE"]
      /\ NameRoom(shape) = Room /\ AmountRoom(shape) = Width["TO_AMOUNT"]
      /\ shape.type = 16 => CallRoom(shape) = AddressRoom(shape) + ValueRoom(shape)
                                              + NameRoom(shape)
      /\ Len(shape.to) \in Nat
  BY <1>1, RoomFacts
<1>3. /\ Called(shape) \in Nat /\ CallRoom(shape) <= Called(shape) /\ PoolSize \in Nat
  BY <1>1, TakenFacts, ScaleFacts
<1>4. p.pc \in {"TO_ADDRESS", "TO_AMOUNT", "CC_CADDR", "CC_VALUE", "CC_MNAME"}
  BY DEF Reserved, Pointer
<1>5. CASE p.pc \in {"CC_CADDR", "CC_VALUE", "CC_MNAME"}
  <2>1. \A room : Due(p.reserved, p.pc, 0, room) = 0
    BY <1>5 DEF Due, Reserved, Pointer
  <2>2. RoomOf = IF p.pc = "CC_MNAME" THEN NameRoom(shape)
                 ELSE IF p.pc = "CC_CADDR" THEN AddressRoom(shape) ELSE ValueRoom(shape)
    BY <1>2, <1>5 DEF RoomOf
  <2>3. CallRoom(shape) = AddressRoom(shape) + ValueRoom(shape) + NameRoom(shape)
    BY <1>2, <1>5 DEF KnownCall, CallLabels
  <2>4. CallRoom(shape) <= PoolSize /\ CallRoom(shape) \in Nat
    <3>1. Called(shape) + OutputsTaken(shape, 0) <= PoolSize /\ OutputsTaken(shape, 0) = 0
      <4>1. 0 \in 0 .. Len(shape.to)
        BY <1>2
      <4>. QED  BY <1>1, <4>1, OutputFacts
    <3>2. CallRoom(shape) \in Nat
      BY <1>2, <2>3
    <3>. QED  BY <1>3, <3>1, <3>2
  <2>5. CASE p.pc = "CC_CADDR"
    <3>1. p.pool <= 0
      BY <2>1, <2>5 DEF PoolUseInv, CallUse
    <3>. QED  BY <1>1, <1>2, <1>3, <2>2, <2>3, <2>4, <2>5, <3>1
  <2>6. CASE p.pc = "CC_VALUE"
    <3>1. p.pool <= AddressRoom(shape) + 0
      BY <2>1, <2>6 DEF PoolUseInv, CallUse
    <3>. QED  BY <1>1, <1>2, <1>3, <2>2, <2>3, <2>4, <2>6, <3>1
  <2>7. CASE p.pc = "CC_MNAME"
    <3>1. p.pool <= AddressRoom(shape) + ValueRoom(shape) + 0
      BY <2>1, <2>7 DEF PoolUseInv, CallUse
    <3>. QED  BY <1>1, <1>2, <1>3, <2>2, <2>3, <2>4, <2>7, <3>1
  <2>. QED  BY <1>5, <2>5, <2>6, <2>7
<1>6. CASE p.pc \in {"TO_ADDRESS", "TO_AMOUNT"}
  <2>1. Pointer = <<p.pc, p.array>> /\ <<p.pc, p.array>> \notin p.reserved
    BY <1>6, OwnPlace DEF Reserved
  <2>2. RoomOf = IF p.pc = "TO_ADDRESS" THEN NameRoom(shape) ELSE AmountRoom(shape)
    BY <1>2, <1>6 DEF RoomOf
  <2>3. \A room : Due(p.reserved, p.pc, p.array, room) = 0
    BY <2>1 DEF Due
  <2>4. p.array < Len(shape.to)
    BY <1>6, CoinFacts DEF OutputLabels
  <2> DEFINE o == OutputsTaken(shape, p.array)
  <2>5. /\ o \in Nat /\ Called(shape) + o + NameRoom(shape) + AmountRoom(shape) <= PoolSize
    <3>1. p.array + 1 \in 0 .. Len(shape.to)
      BY <1>1, <1>2, <2>4
    <3>2. Called(shape) + OutputsTaken(shape, p.array + 1) <= PoolSize
      BY <1>1, <3>1, OutputFacts
    <3>3. /\ o \in Nat
          /\ OutputsTaken(shape, p.array + 1) = o + NameRoom(shape) + AmountRoom(shape)
      BY <1>1, OutputFacts
    <3> HIDE DEF o
    <3>. QED  BY <1>2, <1>3, <3>2, <3>3
  <2>6. CASE p.pc = "TO_ADDRESS"
    <3>1. p.pool <= Called(shape) + o + 0
      BY <2>3, <2>6 DEF PoolUseInv, CoinUse
    <3> HIDE DEF o
    <3>. QED  BY <1>1, <1>2, <1>3, <2>2, <2>5, <2>6, <3>1
  <2>7. CASE p.pc = "TO_AMOUNT"
    <3>1. p.pool <= Called(shape) + o + NameRoom(shape) + 0
      BY <2>3, <2>7 DEF PoolUseInv, CoinUse
    <3> HIDE DEF o
    <3>. QED  BY SMTT(30), <1>1, <1>2, <1>3, <2>2, <2>5, <2>7, <3>1
  <2>. QED  BY <1>6, <2>6, <2>7
<1>. QED  BY <1>4, <1>5, <1>6

LEMMA MemorySuffices ==
  ASSUME TypeInv, PositionInv, CoinInv, MemoryInv, Parse, Reviewable(shape)
  PROVE  ~OutOfMemory /\ ~BadArgument
<1>1. phase = "parsing"
  BY ParsingStands
<1>2. PICK st \in Nat : Standing(st)
  BY ParsingStands
<1>3. KnownCall /\ PoolUseInv /\ PoolInv
  BY <1>1 DEF MemoryInv, CoinInv
<1>4. p.pool \in Nat /\ shape \in Shapes /\ PoolSize \in Nat
  BY ScaleFacts DEF TypeInv, ParserType
<1>5. ASSUME ~Reserved PROVE ~ (p.pool + RoomOf > PoolSize)
  <2>1. p.pool + RoomOf <= PoolSize
    BY <1>2, <1>3, <1>5, PointerFits
  <2>2. RoomOf \in Nat
    <3>1. p.pc \in {"TO_ADDRESS", "TO_AMOUNT", "CC_CADDR", "CC_VALUE", "CC_MNAME"}
      BY <1>5 DEF Reserved, Pointer
    <3>. QED  BY <1>4, <3>1, ScaleFacts DEF RoomOf, FixedLabels
  <2>. QED  BY <1>4, <2>1, <2>2
<1>6. ASSUME Read("D_VALUE"), ~Listed PROVE ~ (p.pool + HeadValue + 1 > PoolSize)
  <2>1. p.pc = "D_VALUE" /\ Enough
    BY <1>6 DEF Read, At
  <2>2. /\ Arguments(shape) # <<>> /\ HeadValue = shape.args[p.arg + 1][1] /\ HeadValue \in Nat
        /\ p.arg \in 0 .. Len(shape.args) - 1 /\ Len(shape.args) \in Nat
    BY <1>2, <1>3, <1>6, <2>1, KeptArgument, ArgumentAt
  <2>3. p.arg \in 0 .. Len(shape.args) /\ p.arg + 1 \in 0 .. Len(shape.args)
    BY <2>2
  <2>4. /\ ArgsTaken(shape, p.arg + 1) = ArgsTaken(shape, p.arg) + HeadValue + 1
        /\ ArgsTaken(shape, p.arg) \in Nat
        /\ CallRoom(shape) + ArgsTaken(shape, p.arg + 1) <= Called(shape)
        /\ Called(shape) \in Nat
    BY <1>4, <2>2, <2>3, TakenFacts
  <2>5. p.pool <= CallRoom(shape) + ArgsTaken(shape, p.arg)
    BY <1>3, <2>1 DEF PoolUseInv, CallUse
  <2>6. Called(shape) <= PoolSize
    <3>1. Called(shape) + OutputsTaken(shape, 0) <= PoolSize /\ OutputsTaken(shape, 0) = 0
      <4>1. 0 \in 0 .. Len(shape.to)
        BY <1>4, RoomFacts
      <4>. QED  BY <1>4, <4>1, OutputFacts
    <3>. QED  BY <2>4, <3>1
  <2>7. CallRoom(shape) \in Nat
    BY <1>4, RoomFacts
  <2>8. \A a, b, c, d, h, m \in Nat :
          a <= b + c /\ b + (c + h + 1) <= d /\ d <= m => ~ (a + h + 1 > m)
    OBVIOUS
  <2>. QED  BY <1>4, <2>2, <2>4, <2>5, <2>6, <2>7, <2>8
<1>7. ASSUME Read("D_LEN"), p.method \in Kept PROVE HeadValue = 1
  <2>1. p.pc = "D_LEN" /\ Enough /\ ~VarLabel
    BY <1>7 DEF Read, At, VarLabel, Listed
  <2>2. HeadValue = Val(st)
    BY <1>2, <2>1, ShortFieldRead
  <2>3. /\ Val(st) = Len(shape.args[p.arg + 1]) /\ p.arg \in 0 .. Len(shape.args) - 1
        /\ Len(shape.args) \in Nat
    BY <1>2, <2>1, ArgumentAt
  <2>4. shape.type = 16 /\ shape.method \in Kept
    BY <1>3, <1>7, <2>1 DEF KnownCall, CallLabels, Kept
  <2>5. p.arg + 1 \in 1 .. Len(Arguments(shape))
    BY <2>3, <2>4 DEF Arguments
  <2>. QED  BY <1>4, <2>2, <2>3, <2>5, ArgumentFacts
<1>. QED  BY <1>1, <1>5, <1>6, <1>7 DEF OutOfMemory, BadArgument

---------------------------------------------------------------------------
(* The verdict, in every session.                                           *)

LEMMA MemoryBegins == p = Fresh(p.pool) => KnownCall /\ PoolUseInv /\ Waits
<1> SUFFICES ASSUME p = Fresh(p.pool) PROVE KnownCall /\ PoolUseInv /\ Waits
  OBVIOUS
<1>1. p.pc = "TYP" /\ p.method = "none" /\ p.buf = <<>>
  BY DEF Fresh
<1>2. KnownCall
  BY <1>1 DEF KnownCall, CallLabels
<1>3. PoolUseInv
  BY <1>1 DEF PoolUseInv, CallUse, CoinUse, InputLabels
<1>4. Len(p.buf) = 0
  BY <1>1
<1>. QED  BY <1>2, <1>3, <1>4 DEF Waits

LEMMA MemoryStart == Init => MemoryInv
<1> SUFFICES ASSUME Init PROVE MemoryInv
  OBVIOUS
<1>1. p = Fresh(p.pool)
  BY DEF Init, Fresh
<1>. QED  BY <1>1, MemoryBegins DEF MemoryInv

LEMMA MemoryStep ==
  TypeInv /\ PositionInv /\ CoinInv /\ MemoryInv /\ [Next]_vars => MemoryInv'
<1> SUFFICES ASSUME TypeInv, PositionInv, CoinInv, MemoryInv, [Next]_vars PROVE MemoryInv'
  OBVIOUS
<1>1. CASE Parse
  <2>1. phase = "parsing" /\ UNCHANGED shape
    BY <1>1, ParsingConcludes
  <2>2. KnownCall /\ PoolInv
    BY <2>1 DEF MemoryInv, CoinInv
  <2>3. phase' # "failed" => KnownCall'
    BY <1>1, <2>2, ParsingKeepsCallKnown
  <2>4. ASSUME phase' # "failed", Reviewable(shape') PROVE PoolUseInv'
    <3>1. Reviewable(shape)
      BY <2>1, <2>4
    <3>. QED  BY <1>1, <2>1, <2>2, <2>4, <3>1, ParsingKeepsUse DEF MemoryInv
  <2>5. phase' = "idle" => Waits'
    BY <1>1, <2>1, ParsingWaits
  <2>. QED  BY <2>3, <2>4, <2>5 DEF MemoryInv
<1>2. ASSUME NEW n \in Sizes, NEW m \in BOOLEAN, Absorb(n, m) PROVE MemoryInv'
  <2>1. /\ phase = "idle" /\ shape' = shape /\ p'.pc = p.pc
        /\ phase' \in {"parsing", "failed"} /\ SameCall /\ SameCoins /\ SamePool
    BY <1>2, SizesAreNumbers, AbsorbEffect
  <2>2. KnownCall'
    BY <2>1 DEF MemoryInv, KnownCall, SameCall
  <2>3. Reviewable(shape') => PoolUseInv'
    BY <2>1, UseStays DEF MemoryInv, SameCall
  <2>. QED  BY <2>1, <2>2, <2>3 DEF MemoryInv
<1>3. CASE NewSession
  <2>1. (p = Fresh(p.pool))'
    BY <1>3 DEF NewSession, Fresh
  <2>2. (KnownCall /\ PoolUseInv /\ Waits)'
    BY <2>1, MemoryBegins, PTL
  <2>. QED  BY <2>2 DEF MemoryInv
<1>4. CASE UNCHANGED vars
  <2>1. shape' = shape /\ p' = p /\ phase' = phase
    BY <1>4 DEF vars
  <2>2. KnownCall' = KnownCall /\ Waits' = Waits
    BY <2>1 DEF KnownCall, Waits, Width, Scale
  <2>3. PoolUseInv => PoolUseInv'
    BY <2>1, UseStays DEF SameCoins, SamePool
  <2>. QED  BY <2>1, <2>2, <2>3 DEF MemoryInv
<1>. QED  BY <1>1, <1>2, <1>3, <1>4 DEF Next

LEMMA VerdictStep ==
  TypeInv /\ PositionInv /\ CoinInv /\ MemoryInv /\ [Next]_vars
  => [Contract!Next]_(Contract!session)
<1> SUFFICES ASSUME TypeInv, PositionInv, CoinInv, MemoryInv, [Next]_vars
             PROVE  Contract!Next \/ UNCHANGED <<shape, given, more, phase>>
  BY DEF Contract!session
<1>1. given \in Nat /\ Size(shape) \in Nat
  BY BytesRead DEF TypeInv
<1>2. CASE Parse
  <2>1. /\ UNCHANGED <<shape, given, more>> /\ phase = "parsing"
        /\ \/ phase' = "parsing" \/ phase' = "failed"
           \/ phase' = "idle" /\ more /\ given < Size(shape)
           \/ phase' = "done" /\ given = Size(shape)
        /\ ForCause
    BY <1>2, ParsingConcludes
  <2>2. phase' = "failed" => Contract!Refuse
    <3>1. Reviewable(shape) => ~OutOfMemory /\ ~BadArgument
      BY <1>2, MemorySuffices
    <3>. QED
      BY <2>1, <3>1 DEF ForCause, Incomplete, TooLong, Contract!Refuse, Contract!MayRefuse
  <2>. QED
    BY <2>1, <2>2
    DEF Contract!Next, Contract!Conclude, Contract!Accept, Contract!AskForMore
<1>3. ASSUME NEW n \in Sizes, NEW m \in BOOLEAN, Absorb(n, m) PROVE Contract!Next
  <2>1. /\ phase = "idle" /\ shape' = shape /\ given' = given + n /\ more' = m
        /\ n \in Nat /\ phase' \in {"parsing", "failed"}
        /\ phase' = "failed" => ~Fits(n)
    BY <1>3, SizesAreNumbers, AbsorbEffect
  <2>2. given' \in Nat /\ given' >= given /\ more' \in BOOLEAN
    BY <2>1, <1>1
  <2>3. phase' = "failed" => ~Reviewable(shape)
    BY <2>1, ChunkFits
  <2>4. Contract!Give
    BY <2>1, <2>2, <2>3 DEF Contract!Give, Contract!MayRefuse
  <2>. QED  BY <2>4 DEF Contract!Next
<1>4. CASE NewSession
  BY <1>4 DEF NewSession, Contract!Next, Contract!NewSession
<1>5. CASE UNCHANGED vars
  BY <1>5 DEF vars
<1>. QED  BY <1>2, <1>3, <1>4, <1>5 DEF Next

\* However a transaction is cut into chunks, its verdict is that of TxVerdict:
\* the review opens exactly when all of its bytes have been sent and none more,
\* and a transaction for which there is memory is refused only if it is too long
\* or incomplete at its last chunk, be it in the first session or in one that
\* comes after a failed one.  raw_tx, the pool and the pool's pointers run out
\* for no other transaction (buffer_malloc, transaction_deserialize,
\* handler_sign_tx).
THEOREM ParserVerdict == Spec => Contract!Init /\ [][Contract!Next]_(Contract!session)
<1>1. Init => TypeInv /\ PositionInv /\ CoinInv /\ MemoryInv /\ Contract!Init
  BY TypesStart, PositionStart, CoinsStart, MemoryStart DEF Init, Contract!Init
<1>2. TypeInv /\ PositionInv /\ CoinInv /\ MemoryInv /\ [Next]_vars
      => (TypeInv /\ PositionInv /\ CoinInv /\ MemoryInv)'
         /\ [Contract!Next]_(Contract!session)
  BY TypesStep, PositionStep, CoinsStep, MemoryStep, VerdictStep
<1>. QED  BY <1>1, <1>2, PTL DEF Spec
=============================================================================
