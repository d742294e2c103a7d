--------------------------- MODULE TxParserProofs ---------------------------
(***************************************************************************)
(* Proofs about TxParser, for all transactions, all sizes of a program and  *)
(* all chunks: what each step changes, field by field; the types, and the   *)
(* limits of raw_tx and of the pool; and the position of the parser in      *)
(* every transaction that follows TxGrammar, whatever the way to cut it.    *)
(***************************************************************************)
EXTENDS TxParser, TLAPS

---------------------------------------------------------------------------
(* The types of the parser's fields.                                        *)

Labels == FixedLabels \cup CountLabels \cup VarLabels \cup {"TXD", "COD", "D_VALUE_V", "END"}
Methods == {"none", "misread"} \cup {s.method : s \in Shapes}
Pieces == [label : Labels, i : Nat, offset : Nat, first : Int, len : Nat]
ParserType ==
  [pc : Labels, buf : Seq(Int), type : Nat, method : Methods,
   args : Nat, arg : Nat, values : Nat, value : Nat, element : Nat,
   froms : Nat, tos : Nat, array : Nat, nuls : BOOLEAN,
   len : [CapturedVar -> Nat], reserved : SUBSET (Labels \X Nat),
   pool : Nat, parts : SUBSET Pieces, sum : Seq(Labels \X Nat)]

TypeInv ==
  /\ shape \in Shapes /\ given \in Nat /\ more \in BOOLEAN
  /\ phase \in {"idle", "parsing", "done", "failed"}
  /\ p \in ParserType
  /\ p.pool <= PoolSize /\ Len(p.buf) <= Capacity
  /\ \A k \in DOMAIN p.buf : p.buf[k] <= given

---------------------------------------------------------------------------
(* Sizes, bytes and numbers.                                                *)

LEMMA ScaleFacts ==
  ASSUME shape \in Shapes
  PROVE  /\ Width \in [FixedLabels \cup {"address", "nonce"} -> Nat \ {0}]
         /\ Scale.short \in Nat \ {0} /\ Capacity \in Nat /\ PoolSize \in Nat /\ Room \in Nat
         /\ MaxCoin \in Nat /\ ChunkSizes \in SUBSET (Nat \ {0})
         /\ (MaxCoin + 1) * (Room + Width["TO_AMOUNT"]) > PoolSize
<1>1. shape.scale \in DOMAIN Scales
  BY ShapeAssumption
<1>2. Scale \in ScaleType /\ (Scale.maxCoin + 1) * (Scale.room + Scale.width["TO_AMOUNT"]) > Scale.pool
  BY <1>1, ScaleAssumption DEF Scale
<1> QED
  BY <1>2 DEF ScaleType, Width, Capacity, PoolSize, Room, MaxCoin, ChunkSizes

LEMMA Widths ==
  ASSUME shape \in Shapes, NEW n \in Nat
  PROVE  /\ VarintWidth(n) \in {1, 3}
         /\ \A m \in 0 .. n : VarintWidth(m) <= VarintWidth(n)
BY ScaleFacts DEF VarintWidth, Wide

LEMMA BytesRead ==
  ASSUME shape \in Shapes, NEW pos \in Int
  PROVE  /\ Size(shape) \in Nat
         /\ Value(pos) \in Nat
         /\ pos \in 1 .. Size(shape) =>
              Layout[shape][pos] \in [label : STRING, i : Nat, j : Nat, k : Int, val : Nat]
<1>1. Layout[shape] \in Seq([label : STRING, i : Nat, j : Nat, k : Int, val : Nat])
  BY LayoutAssumption
<1>2. Size(shape) \in Nat
  BY <1>1 DEF Size
<1>3. pos \in 1 .. Size(shape) =>
        Layout[shape][pos] \in [label : STRING, i : Nat, j : Nat, k : Int, val : Nat]
  <2> DEFINE F == [label : STRING, i : Nat, j : Nat, k : Int, val : Nat]
             B == Layout[shape]
  <2> HIDE DEF F, B
  <2>1. B \in Seq(F) /\ Size(shape) = Len(B)
    BY <1>1 DEF Size, F, B
  <2>2. pos \in 1 .. Len(B) => B[pos] \in F
    BY <2>1
  <2> QED
    BY <2>1, <2>2 DEF F, B
<1> QED
  BY <1>2, <1>3 DEF Value, Byte

LEMMA Reading ==
  ASSUME TypeInv, p.buf # <<>>
  PROVE  Head(p.buf) = p.buf[1] /\ HeadValue \in Nat /\ HeadValue = Value(p.buf[1])
<1>1. p.buf \in Seq(Int) /\ p.buf # <<>>
  BY DEF TypeInv, ParserType
<1>2. Head(p.buf) = p.buf[1] /\ p.buf[1] \in Int
  BY <1>1
<1> QED
  BY <1>2, BytesRead DEF HeadValue, TypeInv

LEMMA Needs ==
  ASSUME TypeInv, Enough
  PROVE  /\ Need \in 0 .. Len(p.buf)
         /\ p.pc # "D_VALUE_V" => Need > 0 /\ p.buf # <<>> /\ HeadValue \in Nat
         /\ VarLabel \/ VarintLabel => Need = VarintWidth(HeadValue)
         /\ CountLabel => Need = 1
         /\ p.pc \in FixedLabels => Need = Width[p.pc]
         /\ p.pc = "D_VALUE_V" => Need = p.element
<1>1. p \in ParserType /\ p.pc # "END" /\ Len(p.buf) >= Need /\ shape \in Shapes
  BY DEF TypeInv, Enough
<1>2. p.pc \in Labels /\ p.buf \in Seq(Int) /\ p.element \in Nat
  BY <1>1 DEF ParserType
<1>3. CASE VarLabel \/ VarintLabel
  <2>1. p.buf # <<>>
    BY <1>1, <1>2, <1>3 DEF Need
  <2>2. HeadValue \in Nat
    BY <2>1, Reading
  <2>3. Need = VarintWidth(HeadValue)
    BY <2>1, <1>3 DEF Need, HeadValue
  <2>4. p.pc # "D_VALUE_V" /\ p.pc \notin FixedLabels /\ ~CountLabel
    BY <1>3 DEF VarLabel, VarintLabel, Listed, FixedLabels, CountLabel
  <2> QED
    BY <2>1, <2>2, <2>3, <2>4, Widths, <1>1, <1>2
<1>4. CASE ~(VarLabel \/ VarintLabel) /\ CountLabel
  <2>1. Need = 1 /\ p.pc # "D_VALUE_V" /\ p.pc \notin FixedLabels
    BY <1>4 DEF Need, CountLabel, FixedLabels
  <2> QED
    BY <2>1, <1>1, <1>2, <1>4, Reading
<1>5. CASE ~(VarLabel \/ VarintLabel) /\ p.pc = "D_VALUE_V"
  <2>1. Need = p.element /\ ~CountLabel /\ p.pc \notin FixedLabels
    BY <1>5 DEF Need, CountLabel, FixedLabels
  <2> QED
    BY <2>1, <1>1, <1>2, <1>5
<1>6. CASE ~(VarLabel \/ VarintLabel) /\ ~CountLabel /\ p.pc # "D_VALUE_V"
  <2>1. p.pc \in FixedLabels
    BY <1>1, <1>2, <1>6
    DEF Labels, CountLabels, CountLabel, VarLabels, VarLabel, VarintLabel, Listed
  <2>2. Need = Width[p.pc]
    BY <1>6 DEF Need
  <2>3. Width[p.pc] \in Nat \ {0}
    BY <2>1, <1>1, ScaleFacts
  <2> QED
    BY <2>1, <2>2, <2>3, <1>1, <1>2, <1>6, Reading
<1> QED
  BY <1>3, <1>4, <1>5, <1>6

LEMMA Rest ==
  ASSUME TypeInv, NEW n \in 0 .. Len(p.buf)
  PROVE  /\ After(n) \in Seq(Int) /\ Len(After(n)) = Len(p.buf) - n
         /\ \A k \in 1 .. Len(p.buf) - n : After(n)[k] = p.buf[n + k]
         /\ Len(After(n)) <= Capacity /\ \A k \in DOMAIN After(n) : After(n)[k] <= given
<1>1. p.buf \in Seq(Int) /\ Len(p.buf) \in Nat
  BY DEF TypeInv, ParserType
<1>2. /\ After(n) \in Seq(Int) /\ Len(After(n)) = Len(p.buf) - n
      /\ \A k \in 1 .. Len(p.buf) - n : After(n)[k] = p.buf[n + k]
  BY <1>1 DEF After
<1>3. Len(p.buf) <= Capacity /\ Capacity \in Nat /\ given \in Nat
      /\ \A k \in DOMAIN p.buf : p.buf[k] <= given
  BY ScaleFacts DEF TypeInv
<1>4. DOMAIN After(n) = 1 .. Len(p.buf) - n /\ DOMAIN p.buf = 1 .. Len(p.buf)
  BY <1>1, <1>2
<1>5. ASSUME NEW k \in 1 .. Len(p.buf) - n PROVE After(n)[k] <= given
  <2>1. n + k \in 1 .. Len(p.buf)
    BY <1>1
  <2>2. After(n)[k] = p.buf[n + k]
    BY <1>2
  <2> QED
    BY <2>1, <2>2, <1>3, <1>4
<1>6. Len(After(n)) <= Capacity
  BY <1>1, <1>2, <1>3
<1>7. \A k \in DOMAIN After(n) : After(n)[k] <= given
  BY <1>4, <1>5
<1> QED
  BY <1>2, <1>6, <1>7
---------------------------------------------------------------------------
(* What a step changes, field by field.                                     *)

SameCall == /\ p'.method = p.method /\ p'.args = p.args /\ p'.arg = p.arg
            /\ p'.values = p.values /\ p'.value = p.value /\ p'.element = p.element
SameCoins == p'.froms = p.froms /\ p'.tos = p.tos /\ p'.array = p.array
SameSum == p'.nuls = p.nuls /\ p'.sum = p.sum
SamePool == p'.pool = p.pool /\ p'.reserved = p.reserved
SameParts == p'.len = p.len /\ p'.parts = p.parts

LEMMA ReadTypeEffect ==
  ASSUME TypeInv, ReadType
  PROVE  /\ p' \in ParserType /\ Stay
         /\ p.pc = "TYP" /\ p'.buf = After(Need) /\ p'.pc = "TSP"
         /\ p'.type = HeadValue /\ p'.pool = 0 /\ p'.reserved = p.reserved
         /\ SameCall /\ SameCoins /\ SameSum /\ SameParts
<1>1. Enough /\ p.pc = "TYP" /\ Parsing /\ Stay
  BY DEF ReadType, Read, At
<1>2. After(Need) \in Seq(Int) /\ HeadValue \in Nat
  BY <1>1, Needs, Rest
<1>3. p' = [p EXCEPT !.buf = After(Need), !.pc = "TSP", !.type = HeadValue, !.pool = 0]
  BY DEF ReadType
<1>4. p \in ParserType
  BY DEF TypeInv
<1>5. "TSP" \in Labels
  BY DEF Labels, FixedLabels
<1> QED
  BY <1>1, <1>2, <1>3, <1>4, <1>5 DEF ParserType, SameCall, SameCoins, SameSum, SameParts
LEMMA SkipFixedEffect ==
  ASSUME TypeInv, SkipFixed
  PROVE  /\ p' \in ParserType /\ Stay /\ Enough
         /\ p.pc \in {"TSP", "CC_SENDER", "CC_GMSL", "CC_GMSP", "FROM_CHAIN", "TO_CHAIN"}
         /\ p'.buf = After(Need) /\ p'.pc = Following[p.pc] /\ p'.type = p.type
         /\ SameCall /\ SameCoins /\ SameSum /\ SamePool /\ SameParts
<1>1. /\ Enough /\ Parsing /\ Stay
      /\ p.pc \in {"TSP", "CC_SENDER", "CC_GMSL", "CC_GMSP", "FROM_CHAIN", "TO_CHAIN"}
  BY DEF SkipFixed, Read, At
<1>2. After(Need) \in Seq(Int) /\ Following[p.pc] \in Labels
  BY <1>1, Needs, Rest DEF Following, Labels, FixedLabels, VarLabels
<1>3. p' = [p EXCEPT !.buf = After(Need), !.pc = Following[p.pc]]
  BY DEF SkipFixed
<1>4. p \in ParserType
  BY DEF TypeInv
<1> QED
  BY ZenonT(60), <1>1, <1>2, <1>3, <1>4
  DEF ParserType, SameCall, SameCoins, SameSum, SamePool, SameParts

LEMMA TxDataLengthEffect ==
  ASSUME TypeInv, TxDataLength
  PROVE  /\ p' \in ParserType /\ Stay /\ Enough
         /\ p.pc = "TXD" /\ Typed(p.type) /\ p'.buf = After(Need) /\ p'.type = p.type
         /\ p'.pc = IF p.type = 16 THEN "CC_SENDER" ELSE "COD"
         /\ SameCall /\ SameCoins /\ SameSum /\ SamePool /\ SameParts
<1> DEFINE pc == IF p.type = 16 THEN "CC_SENDER" ELSE "COD"
<1>1. Enough /\ p.pc = "TXD" /\ Typed(p.type) /\ Stay
  BY DEF TxDataLength, Read, At
<1>2. After(Need) \in Seq(Int) /\ pc \in Labels
  BY <1>1, Needs, Rest DEF Labels, FixedLabels
<1>3. p' = [p EXCEPT !.buf = After(Need), !.pc = pc]
  BY DEF TxDataLength
<1>4. p \in ParserType
  BY DEF TypeInv
<1> QED
  BY <1>1, <1>2, <1>3, <1>4
  DEF ParserType, SameCall, SameCoins, SameSum, SamePool, SameParts

LEMMA CoinDataLengthEffect ==
  ASSUME TypeInv, CoinDataLength
  PROVE  /\ p' \in ParserType /\ Stay /\ Enough
         /\ p.pc = "COD" /\ p'.buf = After(Need) /\ p'.pc = "FROM" /\ p'.type = p.type
         /\ SameCall /\ SameCoins /\ SameSum /\ SamePool /\ SameParts
<1>1. Enough /\ p.pc = "COD" /\ Stay
  BY DEF CoinDataLength, Read, At
<1>2. After(Need) \in Seq(Int) /\ "FROM" \in Labels
  BY <1>1, Needs, Rest DEF Labels, CountLabels
<1>3. p' = [p EXCEPT !.buf = After(Need), !.pc = "FROM"]
  BY DEF CoinDataLength
<1>4. p \in ParserType
  BY DEF TypeInv
<1> QED
  BY <1>1, <1>2, <1>3, <1>4
  DEF ParserType, SameCall, SameCoins, SameSum, SamePool, SameParts

\* The bytes of a field that is there as a whole.
LEMMA WholeField ==
  ASSUME TypeInv, Enough, VarLabel, Whole
  PROVE  /\ HeadValue \in Nat /\ Need + HeadValue \in 0 .. Len(p.buf)
         /\ After(Need + HeadValue) \in Seq(Int)
<1>1. HeadValue \in Nat /\ Need \in 0 .. Len(p.buf)
  BY Needs DEF VarLabel, Listed
<1>2. Len(p.buf) \in Nat
  BY DEF TypeInv, ParserType
<1>3. Need + HeadValue \in 0 .. Len(p.buf)
  BY <1>1, <1>2 DEF Whole, Avail
<1> QED
  BY <1>1, <1>3, Rest

LEMMA SkipVarEffect ==
  ASSUME TypeInv, SkipVar
  PROVE  /\ p' \in ParserType /\ Stay /\ Enough /\ VarLabel /\ Whole
         /\ p.pc \in {"RMK", "CC_MDES", "FROM_ADDRESS", "FROM_NONCE", "TXD"}
         /\ p'.buf = After(Need + HeadValue) /\ p'.type = p.type
         /\ p'.pc = IF p.pc = "TXD" THEN "COD" ELSE Following[p.pc]
         /\ SameCall /\ SameCoins /\ SameSum /\ SamePool /\ SameParts
<1> DEFINE pc == IF p.pc = "TXD" THEN "COD" ELSE Following[p.pc]
<1>1. /\ Enough /\ Stay /\ VarLabel /\ Whole
      /\ p.pc \in {"RMK", "CC_MDES", "FROM_ADDRESS", "FROM_NONCE", "TXD"}
  BY DEF SkipVar, Read, At, VarLabel
<1>2. After(Need + HeadValue) \in Seq(Int) /\ pc \in Labels
  BY <1>1, WholeField DEF Following, Labels, FixedLabels, CountLabels
<1>3. p' = [p EXCEPT !.buf = After(Need + HeadValue), !.pc = pc]
  BY DEF SkipVar
<1>4. p \in ParserType
  BY DEF TypeInv
<1> QED
  BY <1>1, <1>2, <1>3, <1>4
  DEF ParserType, SameCall, SameCoins, SameSum, SamePool, SameParts

\* A piece that is kept.
LEMMA PartIsPiece ==
  ASSUME TypeInv, NEW label \in Labels, NEW i \in Nat, NEW offset \in Nat,
         NEW j \in Nat \ {0}, NEW len \in Nat, len > 0 => j <= Len(p.buf)
  PROVE  Part(label, i, offset, j, len) \subseteq Pieces
<1>1. CASE len = 0
  BY <1>1 DEF Part
<1>2. CASE len # 0
  <2>1. p.buf[j] \in Int
    BY <1>2 DEF TypeInv, ParserType
  <2> QED
    BY <2>1, <1>2 DEF Part, Pieces
<1> QED
  BY <1>1, <1>2

LEMMA CaptureFixedEffect ==
  ASSUME TypeInv, CaptureFixed
  PROVE  /\ p' \in ParserType /\ Stay /\ Enough /\ Reserved
         /\ p.pc \in {"CC_CADDR", "CC_VALUE"}
         /\ p'.buf = After(Need) /\ p'.pc = Following[p.pc] /\ p'.type = p.type
         /\ p'.parts = p.parts \cup Part(p.pc, 0, 0, 1, Need) /\ p'.len = p.len
         /\ SameCall /\ SameCoins /\ SameSum /\ SamePool
<1> DEFINE parts == p.parts \cup Part(p.pc, 0, 0, 1, Need)
<1>1. Enough /\ Reserved /\ Stay /\ p.pc \in {"CC_CADDR", "CC_VALUE"}
  BY DEF CaptureFixed, Read, At, Enough
<1>2. After(Need) \in Seq(Int) /\ Following[p.pc] \in Labels
  BY <1>1, Needs, Rest DEF Following, Labels, FixedLabels
<1>3. p' = [p EXCEPT !.buf = After(Need), !.pc = Following[p.pc], !.parts = parts]
  BY DEF CaptureFixed
<1>4. p \in ParserType
  BY DEF TypeInv
<1>5. parts \in SUBSET Pieces
  <2>0. Len(p.buf) \in Nat
    BY <1>4 DEF ParserType
  <2>1. Need \in Nat /\ (Need > 0 => 1 <= Len(p.buf))
    BY <1>1, <2>0, Needs
  <2>3. p.pc \in Labels
    BY <1>4 DEF ParserType
  <2>2. Part(p.pc, 0, 0, 1, Need) \subseteq Pieces
    BY <2>1, <2>3, PartIsPiece
  <2> QED
    BY <2>2, <1>4 DEF ParserType
<1> HIDE DEF parts
<1>6. /\ p' \in ParserType
      /\ p'.buf = After(Need) /\ p'.pc = Following[p.pc] /\ p'.type = p.type
      /\ p'.parts = parts /\ p'.len = p.len
      /\ SameCall /\ SameCoins /\ SameSum /\ SamePool
  BY ZenonT(60), <1>1, <1>2, <1>3, <1>4, <1>5
  DEF ParserType, SameCall, SameCoins, SameSum, SamePool
<1> QED
  BY <1>1, <1>6 DEF parts
LEMMA CopyIsPieces ==
  ASSUME TypeInv, p.pc \in CapturedVar, Enough, NEW len \in 0 .. Len(p.buf) - Need
  PROVE  CopyOn(len) \in SUBSET Pieces
<1>1. p \in ParserType /\ p.pc \in Labels /\ Len(p.buf) \in Nat /\ p.parts \subseteq Pieces
  BY SMTT(30) DEF TypeInv, ParserType
<1>2. Need \in Nat
  BY Needs, <1>1
<1>3. p.len[p.pc] \in Nat /\ ArrayIndex \in Nat
  BY <1>1 DEF ParserType, ArrayIndex
<1>4. Need + 1 \in Nat \ {0} /\ (len > 0 => Need + 1 <= Len(p.buf)) /\ len \in Nat
  BY <1>1, <1>2
<1>5. Part(p.pc, ArrayIndex, p.len[p.pc], Need + 1, len) \subseteq Pieces
  BY <1>1, <1>3, <1>4, PartIsPiece
<1> QED
  BY <1>1, <1>5 DEF CopyOn

LEMMA CaptureVarEffect ==
  ASSUME TypeInv, CaptureVar
  PROVE  /\ p' \in ParserType /\ Stay /\ Enough /\ Reserved /\ VarLabel /\ Whole
         /\ p.pc \in CapturedVar
         /\ p'.buf = After(Need + HeadValue) /\ p'.pc = Following[p.pc]
         /\ p'.type = p.type
         /\ p'.len = [p.len EXCEPT ![p.pc] = HeadValue] /\ p'.parts = CopyOn(HeadValue)
         /\ p.pc # "CC_MNAME" => SameCall
         /\ SameCoins /\ SameSum /\ SamePool
<1> DEFINE parts == CopyOn(HeadValue)
           legible == \A f \in parts : f.label = "CC_MNAME" => f.offset = -Byte(f.first).k - 1
           method == IF p.pc # "CC_MNAME" THEN p.method
                     ELSE IF legible THEN shape.method ELSE "misread"
           len == [p.len EXCEPT ![p.pc] = HeadValue]
<1>1. Enough /\ Reserved /\ Stay /\ p.pc \in CapturedVar /\ Whole /\ VarLabel
  BY DEF CaptureVar, Read, At, Enough, CapturedVar, VarLabel
<1>2. /\ After(Need + HeadValue) \in Seq(Int) /\ Following[p.pc] \in Labels
      /\ HeadValue \in Nat
  BY <1>1, WholeField DEF Following, CapturedVar, Labels, FixedLabels, VarLabels
<1>3. p' = [p EXCEPT !.buf = After(Need + HeadValue), !.pc = Following[p.pc],
                     !.len = len, !.parts = parts, !.method = method]
  BY DEF CaptureVar
<1>4. p \in ParserType /\ Len(p.buf) \in Nat
  BY DEF TypeInv, ParserType
<1>5. parts \in SUBSET Pieces
  <2>1. HeadValue \in 0 .. Len(p.buf) - Need
    BY <1>1, <1>2, <1>4, Needs DEF Whole, Avail
  <2> QED
    BY <2>1, <1>1, CopyIsPieces
<1>6. method \in Methods
  <2>1. p.method \in Methods /\ shape \in Shapes
    BY DEF TypeInv, ParserType
  <2> QED
    BY <2>1 DEF Methods
<1>7. len \in [CapturedVar -> Nat]
  BY <1>1, <1>2, <1>4 DEF ParserType
<1>8. p.pc # "CC_MNAME" => method = p.method
  OBVIOUS
<1> HIDE DEF parts, method, len
<1>9. /\ p' \in ParserType
      /\ p'.buf = After(Need + HeadValue) /\ p'.pc = Following[p.pc] /\ p'.type = p.type
      /\ p'.parts = parts /\ p'.len = len
      /\ p.pc # "CC_MNAME" => SameCall
      /\ SameCoins /\ SameSum /\ SamePool
  BY ZenonT(60), <1>2, <1>3, <1>4, <1>5, <1>6, <1>7, <1>8
  DEF ParserType, SameCall, SameCoins, SameSum, SamePool
<1> QED
  BY <1>1, <1>9 DEF parts, len

LEMMA ArgCountEffect ==
  ASSUME TypeInv, ArgCount
  PROVE  /\ p' \in ParserType /\ Stay /\ Enough
         /\ p.pc = "CC_TDAL" /\ Need = 1 /\ p'.buf = After(Need) /\ p'.type = p.type
         /\ p'.pc = IF HeadValue = 0 THEN "COD" ELSE "D_LEN"
         /\ p'.args = HeadValue /\ p'.arg = 0 /\ p'.method = p.method
         /\ SameCoins /\ SameSum /\ SamePool /\ SameParts
<1> DEFINE pc == IF HeadValue = 0 THEN "COD" ELSE "D_LEN"
<1>1. Enough /\ p.pc = "CC_TDAL" /\ Stay
  BY DEF ArgCount, Read, At
<1>2. After(Need) \in Seq(Int) /\ pc \in Labels /\ HeadValue \in Nat /\ Need = 1
  BY <1>1, Needs, Rest DEF Labels, CountLabels, CountLabel
<1>3. p' = [p EXCEPT !.buf = After(Need), !.args = HeadValue, !.arg = 0, !.pc = pc]
  BY <1>2 DEF ArgCount
<1>4. p \in ParserType
  BY DEF TypeInv
<1> QED
  BY ZenonT(60), <1>1, <1>2, <1>3, <1>4
  DEF ParserType, SameCoins, SameSum, SamePool, SameParts

\* The next argument, or the end of them.
Advanced(r, q) ==
  /\ r.arg = q.arg + 1
  /\ r.pc = IF q.arg + 1 < q.args THEN "D_LEN" ELSE "COD"
  /\ r.buf = q.buf /\ r.type = q.type /\ r.method = q.method /\ r.args = q.args
  /\ r.values = q.values /\ r.value = q.value /\ r.element = q.element
  /\ r.froms = q.froms /\ r.tos = q.tos /\ r.array = q.array
  /\ r.nuls = q.nuls /\ r.sum = q.sum /\ r.pool = q.pool
  /\ r.reserved = q.reserved /\ r.len = q.len /\ r.parts = q.parts

LEMMA ArgAdvances ==
  ASSUME NEW q \in ParserType
  PROVE  NextArg(q) \in ParserType /\ Advanced(NextArg(q), q)
<1> DEFINE pc == IF q.arg + 1 < q.args THEN "D_LEN" ELSE "COD"
           arg == q.arg + 1
<1>1. pc \in Labels /\ arg \in Nat
  BY DEF ParserType, Labels, CountLabels
<1>2. NextArg(q) = [q EXCEPT !.arg = arg, !.pc = pc]
  BY DEF NextArg
<1> HIDE DEF pc, arg
<1>3. /\ NextArg(q) \in ParserType /\ NextArg(q).arg = arg /\ NextArg(q).pc = pc
      /\ NextArg(q).buf = q.buf /\ NextArg(q).type = q.type
      /\ NextArg(q).method = q.method /\ NextArg(q).args = q.args
      /\ NextArg(q).values = q.values /\ NextArg(q).value = q.value
      /\ NextArg(q).element = q.element
      /\ NextArg(q).froms = q.froms /\ NextArg(q).tos = q.tos
      /\ NextArg(q).array = q.array /\ NextArg(q).nuls = q.nuls
      /\ NextArg(q).sum = q.sum /\ NextArg(q).pool = q.pool
      /\ NextArg(q).reserved = q.reserved /\ NextArg(q).len = q.len
      /\ NextArg(q).parts = q.parts
  BY ZenonT(60), <1>1, <1>2 DEF ParserType
<1> QED
  BY <1>3 DEF Advanced, pc, arg

LEMMA ValueCountEffect ==
  ASSUME TypeInv, ValueCount
  PROVE  /\ p' \in ParserType /\ Enough /\ UNCHANGED <<shape, given, more>>
         /\ p.pc = "D_LEN" /\ Need = 1 /\ p'.buf = After(Need) /\ p'.type = p.type
         /\ p'.method = p.method /\ p'.args = p.args
         /\ p'.values = HeadValue /\ p'.value = 0
         /\ IF p.method \in Kept /\ HeadValue # 1 THEN phase' = "failed"
            ELSE /\ phase' = phase
                 /\ IF HeadValue = 0
                    THEN /\ p'.arg = p.arg + 1
                         /\ p'.pc = IF p.arg + 1 < p.args THEN "D_LEN" ELSE "COD"
                    ELSE p'.arg = p.arg /\ p'.pc = "D_VALUE"
         /\ SameCoins /\ SameSum /\ SamePool /\ SameParts
<1> DEFINE q == [p EXCEPT !.buf = After(Need), !.values = HeadValue, !.value = 0,
                          !.pc = "D_VALUE"]
<1>1. Enough /\ p.pc = "D_LEN"
  BY DEF ValueCount, Read, At
<1>2. /\ After(Need) \in Seq(Int) /\ HeadValue \in Nat /\ Need = 1
      /\ "D_VALUE" \in Labels /\ "D_LEN" \in Labels /\ "COD" \in Labels
  BY <1>1, Needs, Rest DEF Labels, CountLabels, CountLabel, VarLabels
<1>3. IF p.method \in Kept /\ HeadValue # 1
      THEN phase' = "failed" /\ p' = q /\ UNCHANGED <<shape, given, more>>
      ELSE p' = (IF HeadValue = 0 THEN NextArg(q) ELSE q) /\ Stay
  BY <1>2 DEF ValueCount
<1>4. p \in ParserType
  BY DEF TypeInv
<1>5. /\ q \in ParserType /\ q.buf = After(Need) /\ q.type = p.type /\ q.pc = "D_VALUE"
      /\ q.method = p.method /\ q.args = p.args /\ q.arg = p.arg
      /\ q.values = HeadValue /\ q.value = 0
      /\ q.froms = p.froms /\ q.tos = p.tos /\ q.array = p.array
      /\ q.nuls = p.nuls /\ q.sum = p.sum /\ q.pool = p.pool /\ q.reserved = p.reserved
      /\ q.len = p.len /\ q.parts = p.parts
  BY ZenonT(60), <1>2, <1>4 DEF ParserType
<1> HIDE DEF q
<1>6. CASE p.method \in Kept /\ HeadValue # 1
  BY <1>1, <1>2, <1>3, <1>5, <1>6 DEF SameCoins, SameSum, SamePool, SameParts
<1>7. CASE ~(p.method \in Kept /\ HeadValue # 1) /\ HeadValue # 0
  BY <1>1, <1>2, <1>3, <1>5, <1>7 DEF SameCoins, SameSum, SamePool, SameParts, Stay
<1>8. CASE ~(p.method \in Kept /\ HeadValue # 1) /\ HeadValue = 0
  <2>1. p' = NextArg(q) /\ Stay
    BY <1>3, <1>8
  <2>2. NextArg(q) \in ParserType /\ Advanced(NextArg(q), q)
    BY <1>5, ArgAdvances
  <2> QED
    BY <2>1, <2>2, <1>8, <1>1, <1>2, <1>5
    DEF Advanced, SameCoins, SameSum, SamePool, SameParts, Stay
<1> QED
  BY <1>6, <1>7, <1>8
LEMMA ElementLengthEffect ==
  ASSUME TypeInv, ElementLength
  PROVE  /\ p' \in ParserType /\ Enough /\ UNCHANGED <<shape, given, more>>
         /\ p.pc = "D_VALUE" /\ ~Listed /\ p'.buf = After(Need) /\ p'.type = p.type
         /\ p'.element = HeadValue
         /\ p'.parts = {f \in p.parts : f.label # "D_VALUE" \/ f.i # ElementIndex}
         /\ p'.method = p.method /\ p'.args = p.args /\ p'.arg = p.arg
         /\ p'.values = p.values /\ p'.value = p.value
         /\ \/ /\ p.pool + HeadValue + 1 <= PoolSize /\ phase' = phase
               /\ p'.pc = "D_VALUE_V" /\ p'.pool = p.pool + HeadValue + 1
            \/ phase' = "failed" /\ p'.pool = p.pool
         /\ p'.reserved = p.reserved /\ p'.len = p.len /\ SameCoins /\ SameSum
<1> DEFINE parts == {f \in p.parts : f.label # "D_VALUE" \/ f.i # ElementIndex}
           q == [p EXCEPT !.buf = After(Need), !.element = HeadValue, !.parts = parts]
<1>1. Enough /\ p.pc = "D_VALUE" /\ ~Listed
  BY DEF ElementLength, Read, At
<1>2. /\ After(Need) \in Seq(Int) /\ HeadValue \in Nat /\ "D_VALUE_V" \in Labels
      /\ p \in ParserType /\ parts \in SUBSET Pieces
  BY <1>1, Needs, Rest DEF Labels, TypeInv, ParserType
<1>3. /\ UNCHANGED <<shape, given, more>>
      /\ \/ /\ p.pool + HeadValue + 1 <= PoolSize /\ phase' = phase
            /\ p' = [q EXCEPT !.pool = @ + HeadValue + 1, !.pc = "D_VALUE_V"]
         \/ phase' = "failed" /\ p' = q
  BY DEF ElementLength, Stay
<1> HIDE DEF parts
<1>4. /\ q \in ParserType /\ q.buf = After(Need) /\ q.type = p.type /\ q.pc = p.pc
      /\ q.method = p.method /\ q.args = p.args /\ q.arg = p.arg
      /\ q.values = p.values /\ q.value = p.value /\ q.element = HeadValue
      /\ q.froms = p.froms /\ q.tos = p.tos /\ q.array = p.array
      /\ q.nuls = p.nuls /\ q.sum = p.sum /\ q.pool = p.pool /\ q.reserved = p.reserved
      /\ q.len = p.len /\ q.parts = parts
  BY <1>2 DEF ParserType
<1> HIDE DEF q
<1>5. CASE phase' = "failed" /\ p' = q
  BY <1>1, <1>3, <1>4, <1>5 DEF SameCoins, SameSum, parts
<1>6. CASE /\ p.pool + HeadValue + 1 <= PoolSize /\ phase' = phase
           /\ p' = [q EXCEPT !.pool = @ + HeadValue + 1, !.pc = "D_VALUE_V"]
  <2> DEFINE pool == q.pool + HeadValue + 1
  <2>1. pool \in Nat /\ pool = p.pool + HeadValue + 1
    BY SMTT(30), <1>2, <1>4 DEF ParserType
  <2>2. p' = [q EXCEPT !.pool = pool, !.pc = "D_VALUE_V"]
    BY <1>6
  <2> HIDE DEF pool
  <2>3. /\ p' \in ParserType /\ p'.pool = pool /\ p'.pc = "D_VALUE_V"
        /\ p'.buf = q.buf /\ p'.type = q.type /\ p'.element = q.element
        /\ p'.method = q.method /\ p'.args = q.args /\ p'.arg = q.arg
        /\ p'.values = q.values /\ p'.value = q.value
        /\ p'.froms = q.froms /\ p'.tos = q.tos /\ p'.array = q.array
        /\ p'.nuls = q.nuls /\ p'.sum = q.sum /\ p'.reserved = q.reserved
        /\ p'.len = q.len /\ p'.parts = q.parts
    BY ZenonT(60), <2>1, <2>2, <1>2, <1>4 DEF ParserType
  <2> QED
    BY <2>1, <2>3, <1>1, <1>3, <1>4, <1>6 DEF SameCoins, SameSum, parts
<1> QED
  BY <1>3, <1>5, <1>6

LEMMA ElementEffect ==
  ASSUME TypeInv, Element
  PROVE  /\ p' \in ParserType /\ Enough /\ Stay
         /\ p.pc = "D_VALUE_V" /\ p'.buf = After(Need) /\ p'.type = p.type
         /\ p'.arg = p.arg + 1
         /\ p'.pc = IF p.arg + 1 < p.args THEN "D_LEN" ELSE "COD"
         /\ p'.args = p.args /\ p'.method = p.method
         /\ p'.parts = p.parts \cup Part("D_VALUE", ElementIndex, 0, 1, Need)
         /\ p'.len = p.len /\ SameCoins /\ SameSum /\ SamePool
<1> DEFINE parts == p.parts \cup Part("D_VALUE", ElementIndex, 0, 1, Need)
           q == [p EXCEPT !.buf = After(Need), !.parts = parts]
<1>1. Enough /\ p.pc = "D_VALUE_V" /\ Stay
  BY DEF Element, Read, At
<1>2. p \in ParserType /\ Len(p.buf) \in Nat /\ Need \in 0 .. Len(p.buf)
  BY SMTT(30), <1>1, Needs DEF TypeInv, ParserType
<1>3. After(Need) \in Seq(Int)
  BY <1>2, Rest
<1>4. parts \in SUBSET Pieces
  <2>1. Need \in Nat /\ (Need > 0 => 1 <= Len(p.buf))
    BY <1>2
  <2>3. ElementIndex \in Nat
    BY DEF ElementIndex
  <2>4. "D_VALUE" \in Labels
    BY DEF Labels, VarLabels
  <2>2. Part("D_VALUE", ElementIndex, 0, 1, Need) \subseteq Pieces
    BY <2>1, <2>3, <2>4, PartIsPiece
  <2> QED
    BY <2>2, <1>2 DEF ParserType
<1>5. p' = NextArg(q)
  BY DEF Element
<1> HIDE DEF parts
<1>6. /\ q \in ParserType /\ q.buf = After(Need) /\ q.type = p.type
      /\ q.method = p.method /\ q.args = p.args /\ q.arg = p.arg
      /\ q.froms = p.froms /\ q.tos = p.tos /\ q.array = p.array
      /\ q.nuls = p.nuls /\ q.sum = p.sum /\ q.pool = p.pool /\ q.reserved = p.reserved
      /\ q.len = p.len /\ q.parts = parts
  BY <1>2, <1>3, <1>4 DEF ParserType
<1> HIDE DEF q
<1>7. p' \in ParserType /\ Advanced(p', q)
  BY <1>5, <1>6, ArgAdvances
<1> QED
  BY <1>1, <1>6, <1>7 DEF Advanced, SameCoins, SameSum, SamePool, parts

LEMMA SkipValueEffect ==
  ASSUME TypeInv, SkipValue
  PROVE  /\ p' \in ParserType /\ Enough /\ Stay /\ VarLabel /\ Whole
         /\ p.pc = "D_VALUE" /\ Listed
         /\ p'.buf = After(Need + HeadValue) /\ p'.type = p.type
         /\ p'.value = p.value + 1 /\ p'.values = p.values
         /\ p'.args = p.args /\ p'.method = p.method
         /\ IF p.value + 1 < p.values
            THEN p'.arg = p.arg /\ p'.pc = "D_VALUE"
            ELSE /\ p'.arg = p.arg + 1
                 /\ p'.pc = IF p.arg + 1 < p.args THEN "D_LEN" ELSE "COD"
         /\ SameCoins /\ SameSum /\ SamePool /\ SameParts
<1> DEFINE value == p.value + 1
           q == [p EXCEPT !.buf = After(Need + HeadValue), !.value = value]
<1>1. Enough /\ p.pc = "D_VALUE" /\ Listed /\ VarLabel /\ Whole /\ Stay
  BY DEF SkipValue, Read, At, VarLabel
<1>2. p \in ParserType /\ After(Need + HeadValue) \in Seq(Int)
  BY <1>1, WholeField DEF TypeInv
<1>4. value \in Nat
  BY <1>2 DEF ParserType
<1>3. p' = IF q.value < q.values THEN q ELSE NextArg(q)
  BY DEF SkipValue
<1> HIDE DEF value
<1>6. /\ q \in ParserType /\ q.buf = After(Need + HeadValue) /\ q.type = p.type
      /\ q.pc = "D_VALUE" /\ q.value = value /\ q.values = p.values
      /\ q.method = p.method /\ q.args = p.args /\ q.arg = p.arg
      /\ q.froms = p.froms /\ q.tos = p.tos /\ q.array = p.array
      /\ q.nuls = p.nuls /\ q.sum = p.sum /\ q.pool = p.pool /\ q.reserved = p.reserved
      /\ q.len = p.len /\ q.parts = p.parts
  BY ZenonT(60), <1>1, <1>2, <1>4 DEF ParserType
<1> HIDE DEF q
<1>7. NextArg(q) \in ParserType /\ Advanced(NextArg(q), q)
  BY <1>6, ArgAdvances
<1> QED
  BY <1>1, <1>3, <1>6, <1>7 DEF Advanced, SameCoins, SameSum, SamePool, SameParts, value
LEMMA FromCountEffect ==
  ASSUME TypeInv, FromCount
  PROVE  /\ p' \in ParserType /\ Stay /\ Enough
         /\ p.pc = "FROM" /\ Need = 1 /\ p'.buf = After(Need) /\ p'.type = p.type
         /\ p'.pc = IF HeadValue = 0 THEN "TO" ELSE "FROM_ADDRESS"
         /\ p'.froms = HeadValue /\ p'.array = 0 /\ p'.tos = p.tos
         /\ SameCall /\ SameSum /\ SamePool /\ SameParts
<1> DEFINE pc == IF HeadValue = 0 THEN "TO" ELSE "FROM_ADDRESS"
<1>1. Enough /\ p.pc = "FROM" /\ Stay
  BY DEF FromCount, Read, At
<1>2. After(Need) \in Seq(Int) /\ pc \in Labels /\ HeadValue \in Nat /\ Need = 1
  BY <1>1, Needs, Rest DEF Labels, CountLabels, CountLabel, VarLabels
<1>3. p' = [p EXCEPT !.buf = After(Need), !.froms = HeadValue, !.array = 0, !.pc = pc]
  BY <1>2 DEF FromCount
<1>4. p \in ParserType
  BY DEF TypeInv
<1> QED
  BY ZenonT(60), <1>1, <1>2, <1>3, <1>4
  DEF ParserType, SameCall, SameSum, SamePool, SameParts

LEMMA ToCountEffect ==
  ASSUME TypeInv, ToCount
  PROVE  /\ p' \in ParserType /\ Stay /\ Enough
         /\ p.pc = "TO" /\ Need = 1 /\ p'.buf = After(Need) /\ p'.type = p.type
         /\ p'.pc = IF HeadValue = 0 THEN "END" ELSE "TO_ADDRESS"
         /\ p'.tos = HeadValue /\ p'.array = 0 /\ p'.froms = p.froms
         /\ SameCall /\ SameSum /\ SamePool /\ SameParts
<1> DEFINE pc == IF HeadValue = 0 THEN "END" ELSE "TO_ADDRESS"
<1>1. Enough /\ p.pc = "TO" /\ Stay
  BY DEF ToCount, Read, At
<1>2. After(Need) \in Seq(Int) /\ pc \in Labels /\ HeadValue \in Nat /\ Need = 1
  BY <1>1, Needs, Rest DEF Labels, CountLabels, CountLabel, VarLabels
<1>3. p' = [p EXCEPT !.buf = After(Need), !.tos = HeadValue, !.array = 0, !.pc = pc]
  BY <1>2 DEF ToCount
<1>4. p \in ParserType
  BY DEF TypeInv
<1> QED
  BY ZenonT(60), <1>1, <1>2, <1>3, <1>4
  DEF ParserType, SameCall, SameSum, SamePool, SameParts

LEMMA AssetEffect ==
  ASSUME TypeInv, Asset
  PROVE  /\ p' \in ParserType /\ Stay /\ Enough
         /\ p.pc \in {"FROM_ASSET", "TO_ASSET"}
         /\ p'.buf = After(Need) /\ p'.pc = Following[p.pc] /\ p'.type = p.type
         /\ p'.nuls = (HeadValue = 1) /\ p'.sum = p.sum
         /\ SameCall /\ SameCoins /\ SamePool /\ SameParts
<1> DEFINE nuls == HeadValue = 1
<1>1. Enough /\ Stay /\ p.pc \in {"FROM_ASSET", "TO_ASSET"}
  BY DEF Asset, Read, At
<1>2. After(Need) \in Seq(Int) /\ Following[p.pc] \in Labels
  BY <1>1, Needs, Rest DEF Following, Labels, FixedLabels
<1>3. p' = [p EXCEPT !.buf = After(Need), !.pc = Following[p.pc], !.nuls = nuls]
  BY DEF Asset
<1>4. p \in ParserType /\ nuls \in BOOLEAN
  BY DEF TypeInv
<1> HIDE DEF nuls
<1>5. /\ p' \in ParserType
      /\ p'.buf = After(Need) /\ p'.pc = Following[p.pc] /\ p'.type = p.type
      /\ p'.nuls = nuls /\ p'.sum = p.sum
      /\ SameCall /\ SameCoins /\ SamePool /\ SameParts
  BY ZenonT(60), <1>2, <1>3, <1>4 DEF ParserType, SameCall, SameCoins, SamePool, SameParts
<1> QED
  BY <1>1, <1>5 DEF nuls

LEMMA AmountEffect ==
  ASSUME TypeInv, Amount
  PROVE  /\ p' \in ParserType /\ Stay /\ Enough /\ Reserved
         /\ p.pc \in {"FROM_AMOUNT", "TO_AMOUNT"}
         /\ p'.buf = After(Need) /\ p'.pc = Following[p.pc] /\ p'.type = p.type
         /\ p'.sum = IF p.nuls THEN Append(p.sum, <<p.pc, p.array>>) ELSE p.sum
         /\ p'.parts = IF p.pc = "FROM_AMOUNT" THEN p.parts
                       ELSE p.parts \cup Part(p.pc, p.array, 0, 1, Need)
         /\ p'.len = p.len /\ SameCall /\ SameCoins /\ SamePool
<1> DEFINE parts == IF p.pc = "FROM_AMOUNT" THEN p.parts
                    ELSE p.parts \cup Part(p.pc, p.array, 0, 1, Need)
           sum == IF p.nuls THEN Append(p.sum, <<p.pc, p.array>>) ELSE p.sum
<1>1. Enough /\ Reserved /\ Stay /\ p.pc \in {"FROM_AMOUNT", "TO_AMOUNT"}
  BY DEF Amount, Read, At, Enough
<1>2. After(Need) \in Seq(Int) /\ Following[p.pc] \in Labels
  BY <1>1, Needs, Rest DEF Following, Labels, FixedLabels, VarLabels
<1>3. p' = [p EXCEPT !.buf = After(Need), !.pc = Following[p.pc],
                     !.sum = sum, !.parts = parts]
  BY DEF Amount
<1>4. /\ p \in ParserType /\ Len(p.buf) \in Nat /\ p.array \in Nat /\ p.pc \in Labels
      /\ p.sum \in Seq(Labels \X Nat)
  BY SMTT(30) DEF TypeInv, ParserType
<1>5. parts \in SUBSET Pieces
  <2>1. Need \in Nat /\ (Need > 0 => 1 <= Len(p.buf))
    BY <1>1, <1>4, Needs
  <2>2. Part(p.pc, p.array, 0, 1, Need) \subseteq Pieces
    BY <2>1, <1>4, PartIsPiece
  <2> QED
    BY <2>2, <1>4 DEF ParserType
<1>6. sum \in Seq(Labels \X Nat)
  BY <1>4
<1> HIDE DEF parts, sum
<1>7. /\ p' \in ParserType
      /\ p'.buf = After(Need) /\ p'.pc = Following[p.pc] /\ p'.type = p.type
      /\ p'.sum = sum /\ p'.parts = parts
      /\ p'.len = p.len /\ p'.nuls = p.nuls /\ SameCall /\ SameCoins /\ SamePool
  BY <1>2, <1>3, <1>4, <1>5, <1>6 DEF ParserType, SameCall, SameCoins, SamePool
<1> QED
  BY <1>1, <1>7 DEF parts, sum

LEMMA EndFromEffect ==
  ASSUME TypeInv, EndFrom
  PROVE  /\ p' \in ParserType /\ Stay /\ Enough
         /\ p.pc = "FROM_LOCKED" /\ p'.buf = After(Need) /\ p'.type = p.type
         /\ p'.array = p.array + 1
         /\ p'.pc = IF p.array + 1 < p.froms THEN "FROM_ADDRESS" ELSE "TO"
         /\ p'.froms = p.froms /\ p'.tos = p.tos
         /\ SameCall /\ SameSum /\ SamePool /\ SameParts
<1> DEFINE pc == IF p.array + 1 < p.froms THEN "FROM_ADDRESS" ELSE "TO"
           array == p.array + 1
<1>1. Enough /\ p.pc = "FROM_LOCKED" /\ Stay
  BY DEF EndFrom, Read, At
<1>2. After(Need) \in Seq(Int) /\ pc \in Labels
  BY <1>1, Needs, Rest DEF Labels, CountLabels, VarLabels
<1>3. p' = [p EXCEPT !.buf = After(Need), !.array = array, !.pc = pc]
  BY DEF EndFrom
<1>4. p \in ParserType /\ array \in Nat
  BY SMTT(30) DEF TypeInv, ParserType
<1> HIDE DEF pc, array
<1>5. /\ p' \in ParserType
      /\ p'.buf = After(Need) /\ p'.type = p.type /\ p'.array = array /\ p'.pc = pc
      /\ p'.froms = p.froms /\ p'.tos = p.tos
      /\ SameCall /\ SameSum /\ SamePool /\ SameParts
  BY ZenonT(60), <1>2, <1>3, <1>4 DEF ParserType, SameCall, SameSum, SamePool, SameParts
<1> QED
  BY <1>1, <1>5 DEF pc, array

LEMMA EndToEffect ==
  ASSUME TypeInv, EndTo
  PROVE  /\ p' \in ParserType /\ Stay /\ Enough
         /\ p.pc = "TO_LOCKTIME" /\ p'.buf = After(Need) /\ p'.type = p.type
         /\ p'.array = p.array + 1
         /\ p'.pc = IF p.array + 1 >= p.tos THEN "END" ELSE "TO_ADDRESS"
         /\ p'.tos = IF p.array + 1 >= p.tos /\ p.tos > MaxCoin THEN MaxCoin ELSE p.tos
         /\ p'.len = [p.len EXCEPT !["TO_ADDRESS"] = 0]
         /\ p'.parts = p.parts /\ p'.froms = p.froms
         /\ SameCall /\ SameSum /\ SamePool
<1> DEFINE last == p.array + 1 >= p.tos
           pc == IF last THEN "END" ELSE "TO_ADDRESS"
           array == p.array + 1
           tos == IF last /\ p.tos > MaxCoin THEN MaxCoin ELSE p.tos
           len == [p.len EXCEPT !["TO_ADDRESS"] = 0]
<1>1. Enough /\ p.pc = "TO_LOCKTIME" /\ Stay
  BY DEF EndTo, Read, At
<1>2. After(Need) \in Seq(Int) /\ pc \in Labels
  BY <1>1, Needs, Rest DEF Labels, CountLabels, VarLabels
<1>3. p' = [p EXCEPT !.buf = After(Need), !.array = array, !.len = len, !.pc = pc,
                     !.tos = tos]
  BY DEF EndTo
<1>4. p \in ParserType /\ array \in Nat /\ tos \in Nat /\ len \in [CapturedVar -> Nat]
  <2>1. /\ p \in ParserType /\ shape \in Shapes
        /\ p.tos \in Nat /\ p.array \in Nat /\ p.len \in [CapturedVar -> Nat]
    BY DEF TypeInv, ParserType
  <2>2. MaxCoin \in Nat
    BY <2>1, ScaleFacts
  <2>3. len \in [CapturedVar -> Nat]
    BY <2>1
  <2> QED
    BY <2>1, <2>2, <2>3
<1> HIDE DEF pc, array, tos, len
<1>5. /\ p' \in ParserType
      /\ p'.buf = After(Need) /\ p'.type = p.type /\ p'.array = array /\ p'.pc = pc
      /\ p'.froms = p.froms /\ p'.tos = tos /\ p'.len = len /\ p'.parts = p.parts
      /\ SameCall /\ SameSum /\ SamePool
  BY ZenonT(60), <1>2, <1>3, <1>4 DEF ParserType, SameCall, SameSum, SamePool
<1> QED
  BY <1>1, <1>5 DEF pc, array, tos, len

LEMMA ReserveEffect ==
  ASSUME TypeInv, Reserve
  PROVE  /\ UNCHANGED <<shape, given, more>> /\ Parsing /\ p.pc # "END" /\ ~Reserved
         /\ p' \in ParserType /\ RoomOf \in Nat
         /\ p.pc \in {"TO_ADDRESS", "TO_AMOUNT", "CC_CADDR", "CC_VALUE", "CC_MNAME"}
         /\ \/ /\ p.pool + RoomOf <= PoolSize /\ phase' = phase
               /\ p'.pool = p.pool + RoomOf /\ p'.reserved = p.reserved \cup {Pointer}
            \/ phase' = "failed" /\ p' = p
         /\ p'.buf = p.buf /\ p'.pc = p.pc /\ p'.type = p.type
         /\ SameCall /\ SameCoins /\ SameSum /\ SameParts
<1> DEFINE pool == p.pool + RoomOf
           reserved == p.reserved \cup {Pointer}
<1>1. Parsing /\ p.pc # "END" /\ ~Reserved /\ UNCHANGED <<shape, given, more>>
  BY DEF Reserve, Stay
<1>2. p \in ParserType /\ p.pc \in Labels /\ p.array \in Nat /\ shape \in Shapes
  BY DEF TypeInv, ParserType
<1>3. p.pc \in {"TO_ADDRESS", "TO_AMOUNT", "CC_CADDR", "CC_VALUE", "CC_MNAME"}
  BY <1>1 DEF Reserved, Pointer
<1>4. Pointer \in Labels \X Nat
  BY <1>2, <1>3, ScaleFacts DEF Pointer, Slot
<1>5. RoomOf \in Nat
  BY <1>2, <1>3, ScaleFacts DEF RoomOf, FixedLabels
<1>6. pool \in Nat /\ reserved \in SUBSET (Labels \X Nat)
  BY SMTT(30), <1>2, <1>4, <1>5 DEF ParserType
<1>7. \/ /\ pool <= PoolSize /\ phase' = phase
         /\ p' = [p EXCEPT !.pool = pool, !.reserved = reserved]
      \/ phase' = "failed" /\ p' = p
  BY DEF Reserve, Stay
<1>8. CASE phase' = "failed" /\ p' = p
  BY <1>1, <1>2, <1>3, <1>5, <1>8 DEF SameCall, SameCoins, SameSum, SameParts
<1>9. CASE /\ pool <= PoolSize /\ phase' = phase
           /\ p' = [p EXCEPT !.pool = pool, !.reserved = reserved]
  <2> HIDE DEF pool, reserved
  <2>1. /\ p' \in ParserType /\ p'.pool = pool /\ p'.reserved = reserved
        /\ p'.buf = p.buf /\ p'.pc = p.pc /\ p'.type = p.type
        /\ SameCall /\ SameCoins /\ SameSum /\ SameParts
    BY ZenonT(60), <1>2, <1>6, <1>9 DEF ParserType, SameCall, SameCoins, SameSum, SameParts
  <2> QED
    BY <2>1, <1>1, <1>3, <1>5, <1>9 DEF pool, reserved
<1> QED
  BY <1>7, <1>8, <1>9
LEMMA LengthErrorEffect ==
  ASSUME TypeInv, LengthError
  PROVE  /\ UNCHANGED <<shape, given, more>> /\ Parsing
         /\ p.pc # "END" /\ Reserved /\ ~Enough
         /\ p' \in ParserType
         /\ phase' = IF more THEN "idle" ELSE "failed"
         /\ p'.buf = p.buf /\ p'.pc = p.pc /\ p'.type = p.type
         /\ p'.len = IF p.pc \in CapturedVar THEN [p.len EXCEPT ![p.pc] = 0] ELSE p.len
         /\ p'.parts = p.parts
         /\ SameCall /\ SameCoins /\ SameSum /\ SamePool
<1> DEFINE len == IF p.pc \in CapturedVar THEN [p.len EXCEPT ![p.pc] = 0] ELSE p.len
           rest == IF p.pc \in CapturedVar THEN [p EXCEPT !.len[p.pc] = 0] ELSE p
<1>1. Parsing /\ p.pc # "END" /\ Reserved /\ ~Enough /\ UNCHANGED <<shape, given, more>>
  BY DEF LengthError
<1>2. p \in ParserType /\ p.len \in [CapturedVar -> Nat] /\ p.buf \in Seq(Int)
  BY DEF TypeInv, ParserType
<1>3. /\ rest \in ParserType
      /\ rest.buf = p.buf /\ rest.pc = p.pc /\ rest.type = p.type
      /\ rest.method = p.method /\ rest.args = p.args /\ rest.arg = p.arg
      /\ rest.values = p.values /\ rest.value = p.value /\ rest.element = p.element
      /\ rest.froms = p.froms /\ rest.tos = p.tos /\ rest.array = p.array
      /\ rest.nuls = p.nuls /\ rest.sum = p.sum
      /\ rest.pool = p.pool /\ rest.reserved = p.reserved
      /\ rest.len = len /\ rest.parts = p.parts
  <2>1. len \in [CapturedVar -> Nat] /\ rest = [p EXCEPT !.len = len]
    BY <1>2 DEF ParserType
  <2> HIDE DEF len, rest
  <2> QED
    BY ZenonT(60), <2>1, <1>2 DEF ParserType
<1>4. phase' = (IF more THEN "idle" ELSE "failed") /\ (p' = rest \/ p' = [rest EXCEPT !.buf = p.buf])
  BY DEF LengthError, EndChunk
<1> HIDE DEF rest, len
<1>5. [rest EXCEPT !.buf = p.buf] = rest
  BY <1>3, <1>2 DEF ParserType
<1> QED
  BY <1>1, <1>3, <1>4, <1>5 DEF SameCall, SameCoins, SameSum, SamePool, len

\* The varint of what is missing is not longer than that of the whole length.
LEMMA LackFits ==
  ASSUME TypeInv, Enough, VarLabel, ~Whole
  PROVE  /\ HeadValue \in Nat /\ Need = VarintWidth(HeadValue)
         /\ Need \in 1 .. Len(p.buf) /\ Avail \in Nat /\ Avail = Len(p.buf) - Need
         /\ Lack \in 1 .. HeadValue /\ Lack = HeadValue - Avail
         /\ VarintWidth(Lack) \in {1, 3} /\ VarintWidth(Lack) <= Need
<1>1. /\ HeadValue \in Nat /\ Need = VarintWidth(HeadValue)
      /\ Need \in 0 .. Len(p.buf) /\ Need > 0
  BY Needs DEF VarLabel, Listed
<1>2. Len(p.buf) \in Nat /\ shape \in Shapes
  BY DEF TypeInv, ParserType
<1>3. Avail \in Nat /\ Avail = Len(p.buf) - Need
  BY <1>1, <1>2 DEF Avail
<1>4. Lack \in 1 .. HeadValue /\ Lack = HeadValue - Avail
  BY <1>1, <1>3 DEF Lack, Whole
<1>5. VarintWidth(Lack) \in {1, 3} /\ VarintWidth(Lack) <= VarintWidth(HeadValue)
  BY <1>1, <1>2, <1>4, Widths
<1> QED
  BY <1>1, <1>2, <1>3, <1>4, <1>5

LEMMA LackVarintFacts ==
  ASSUME NEW n \in Nat, VarintWidth(n) \in {1, 3}
  PROVE  /\ LackVarint(n) \in Seq(Int) /\ Len(LackVarint(n)) = VarintWidth(n)
         /\ \A k \in 1 .. VarintWidth(n) : LackVarint(n)[k] = IF k = 1 THEN -n ELSE 0
<1> DEFINE w == VarintWidth(n)
           tail == [k \in 1 .. w - 1 |-> 0]
<1>1. tail \in Seq(Int) /\ Len(tail) = w - 1 /\ \A k \in 1 .. w - 1 : tail[k] = 0
  <2>1. w - 1 \in Nat
    OBVIOUS
  <2> QED
    BY <2>1
<1>2. <<-n>> \in Seq(Int) /\ Len(<<-n>>) = 1 /\ <<-n>>[1] = -n
  OBVIOUS
<1>3. LackVarint(n) = <<-n>> \o tail
  BY DEF LackVarint
<1> HIDE DEF tail
<1> QED
  BY <1>1, <1>2, <1>3

LEMMA ValueErrorEffect ==
  ASSUME TypeInv, ValueError
  PROVE  /\ UNCHANGED <<shape, given, more>> /\ Parsing /\ VarLabel /\ Enough /\ ~Whole
         /\ p' \in ParserType
         /\ phase' = IF more THEN "idle" ELSE "failed"
         /\ p'.buf = IF more THEN LackVarint(Lack) ELSE p.buf
         /\ p'.pc = p.pc /\ p'.type = p.type
         /\ IF p.pc \in CapturedVar
            THEN p'.len = [p.len EXCEPT ![p.pc] = Avail] /\ p'.parts = CopyOn(Avail)
            ELSE SameParts
         /\ SameCall /\ SameCoins /\ SameSum /\ SamePool
<1> DEFINE len == IF p.pc \in CapturedVar THEN [p.len EXCEPT ![p.pc] = Avail] ELSE p.len
           parts == IF p.pc \in CapturedVar THEN CopyOn(Avail) ELSE p.parts
           buf == IF more THEN LackVarint(Lack) ELSE p.buf
           q == [p EXCEPT !.buf = LackVarint(Lack)]
           rest == IF p.pc \in CapturedVar
                   THEN [q EXCEPT !.len[p.pc] = Avail, !.parts = CopyOn(Avail)] ELSE q
<1>1. Parsing /\ VarLabel /\ Enough /\ ~Whole /\ UNCHANGED <<shape, given, more>>
  BY DEF ValueError
<1>2. /\ p \in ParserType /\ p.len \in [CapturedVar -> Nat] /\ p.buf \in Seq(Int)
      /\ p.parts \in SUBSET Pieces /\ more \in BOOLEAN
  BY DEF TypeInv, ParserType
<1>3. LackVarint(Lack) \in Seq(Int) /\ Avail \in Nat
  BY <1>1, LackFits, LackVarintFacts
<1>4. len \in [CapturedVar -> Nat] /\ parts \in SUBSET Pieces /\ buf \in Seq(Int)
  <2>1. p.pc \in CapturedVar => CopyOn(Avail) \in SUBSET Pieces
    <3>1. Avail \in 0 .. Len(p.buf) - Need
      BY <1>1, <1>3, LackFits
    <3> QED
      BY <1>1, <3>1, CopyIsPieces
  <2> QED
    BY <2>1, <1>2, <1>3
<1>5. p' = [p EXCEPT !.buf = buf, !.len = len, !.parts = parts]
  <2>1. IF more THEN p' = rest ELSE p' = [rest EXCEPT !.buf = p.buf]
    BY DEF ValueError, EndChunk
  <2>2. rest = [p EXCEPT !.buf = LackVarint(Lack), !.len = len, !.parts = parts]
    <3>1. CASE p.pc \in CapturedVar
      BY <3>1, <1>2 DEF ParserType
    <3>2. CASE p.pc \notin CapturedVar
      BY <3>2, <1>2 DEF ParserType
    <3> QED
      BY <3>1, <3>2
  <2> HIDE DEF rest, len, parts
  <2> QED
    BY <2>1, <2>2, <1>2 DEF ParserType
<1>6. phase' = (IF more THEN "idle" ELSE "failed")
  BY DEF ValueError, EndChunk
<1> HIDE DEF len, parts, buf
<1>7. /\ p' \in ParserType /\ p'.buf = buf /\ p'.len = len /\ p'.parts = parts
      /\ p'.pc = p.pc /\ p'.type = p.type
      /\ SameCall /\ SameCoins /\ SameSum /\ SamePool
  BY ZenonT(60), <1>2, <1>4, <1>5 DEF ParserType, SameCall, SameCoins, SameSum, SamePool
<1> QED
  BY <1>1, <1>6, <1>7 DEF len, parts, buf, SameParts

LEMMA FinishEffect ==
  ASSUME Finish
  PROVE  /\ UNCHANGED <<shape, given, more, p>> /\ Parsing /\ p.pc = "END"
         /\ phase' = IF p.buf = <<>> THEN "done" ELSE "failed"
BY DEF Finish, At

\* The bytes of a chunk.
Chunk(n) == [k \in 1 .. n |-> given + k]

LEMMA AbsorbEffect ==
  ASSUME TypeInv, NEW n \in Nat, NEW m \in BOOLEAN, Absorb(n, m)
  PROVE  /\ phase = "idle" /\ shape' = shape /\ given' = given + n /\ more' = m
         /\ p' \in ParserType
         /\ \/ Fits(n) /\ phase' = "parsing" /\ p'.buf = p.buf \o Chunk(n)
            \/ ~Fits(n) /\ phase' = "failed" /\ p' = p
         /\ p'.pc = p.pc /\ p'.type = p.type
         /\ SameCall /\ SameCoins /\ SameSum /\ SamePool /\ SameParts
<1>1. phase = "idle" /\ shape' = shape /\ given' = given + n /\ more' = m
  BY DEF Absorb
<1>2. p \in ParserType /\ given \in Nat /\ p.buf \in Seq(Int)
  BY DEF TypeInv, ParserType
<1>3. \/ Fits(n) /\ phase' = "parsing" /\ p' = [p EXCEPT !.buf = p.buf \o Chunk(n)]
      \/ ~Fits(n) /\ phase' = "failed" /\ p' = p
  BY DEF Absorb, Chunk
<1>4. p.buf \o Chunk(n) \in Seq(Int)
  <2>1. Chunk(n) \in Seq(Int)
    BY <1>2 DEF Chunk
  <2> QED
    BY <2>1, <1>2
<1>5. CASE Fits(n) /\ phase' = "parsing" /\ p' = [p EXCEPT !.buf = p.buf \o Chunk(n)]
  BY ZenonT(60), <1>1, <1>2, <1>4, <1>5
  DEF ParserType, SameCall, SameCoins, SameSum, SamePool, SameParts
<1>6. CASE ~Fits(n) /\ phase' = "failed" /\ p' = p
  BY <1>1, <1>2, <1>6 DEF SameCall, SameCoins, SameSum, SamePool, SameParts
<1> QED
  BY <1>3, <1>5, <1>6

LEMMA FreshType ==
  ASSUME NEW pool \in Nat
  PROVE  Fresh(pool) \in ParserType
<1>1. [CC_MNAME |-> 0, TO_ADDRESS |-> 0] \in [CapturedVar -> Nat]
  BY DEF CapturedVar
<1>2. "TYP" \in Labels /\ "none" \in Methods
  BY DEF Labels, FixedLabels, Methods
<1>3. <<>> \in Seq(Int) /\ <<>> \in Seq(Labels \X Nat)
  OBVIOUS
<1> QED
  BY <1>1, <1>2, <1>3 DEF Fresh, ParserType
---------------------------------------------------------------------------
(* Types.                                                                   *)

LEMMA SameSizes ==
  ASSUME shape'.scale = shape.scale
  PROVE  /\ PoolSize' = PoolSize /\ Capacity' = Capacity /\ Room' = Room
         /\ MaxCoin' = MaxCoin /\ Width' = Width
         /\ \A n : VarintWidth(n)' = VarintWidth(n)
BY DEF PoolSize, Capacity, Room, MaxCoin, Width, VarintWidth, Scale

\* A step within a chunk that does not lengthen raw_tx.
LEMMA TypesKept ==
  ASSUME TypeInv, UNCHANGED <<shape, given, more>>, p' \in ParserType,
         phase' \in {"idle", "parsing", "done", "failed"}, p'.pool <= PoolSize,
         Len(p'.buf) <= Capacity, \A k \in DOMAIN p'.buf : p'.buf[k] <= given
  PROVE  TypeInv'
BY SameSizes DEF TypeInv

\* A step that takes bytes from the front of raw_tx.
LEMMA TakingKeepsTypes ==
  ASSUME TypeInv, UNCHANGED <<shape, given, more>>, p' \in ParserType,
         phase' \in {phase, "failed"}, p'.pool <= PoolSize,
         NEW n \in 0 .. Len(p.buf), p'.buf = After(n)
  PROVE  TypeInv'
<1>1. Len(p'.buf) <= Capacity /\ \A k \in DOMAIN p'.buf : p'.buf[k] <= given
  BY Rest
<1>2. phase' \in {"idle", "parsing", "done", "failed"}
  BY DEF TypeInv
<1> QED
  BY <1>1, <1>2, TypesKept

LEMMA ParsingKeepsTypes ==
  ASSUME TypeInv, Parse
  PROVE  TypeInv'
<1>1. p.pool <= PoolSize /\ p.pool \in Nat /\ PoolSize \in Nat /\ Len(p.buf) \in Nat
  BY ScaleFacts DEF TypeInv, ParserType
<1>2. CASE Reserve
  <2>1. /\ UNCHANGED <<shape, given, more>> /\ p' \in ParserType /\ p'.buf = p.buf
        /\ phase' \in {phase, "failed"} /\ p'.pool <= PoolSize
    BY <1>1, <1>2, ReserveEffect
  <2> QED
    BY <2>1, TypesKept DEF TypeInv
<1>3. CASE ReadType
  <2>1. Need \in 0 .. Len(p.buf)
    BY <1>3, Needs DEF ReadType, Read
  <2> QED
    BY <2>1, <1>1, <1>3, ReadTypeEffect, TakingKeepsTypes DEF Stay
<1>4. ASSUME \/ SkipFixed \/ TxDataLength \/ CoinDataLength \/ CaptureFixed \/ ArgCount
             \/ ValueCount \/ Element \/ FromCount \/ ToCount \/ Asset \/ Amount
             \/ EndFrom \/ EndTo
      PROVE  TypeInv'
  <2>1. /\ Enough /\ UNCHANGED <<shape, given, more>> /\ p' \in ParserType
        /\ p'.buf = After(Need) /\ phase' \in {phase, "failed"} /\ p'.pool = p.pool
    <3>1. CASE SkipFixed
      BY <3>1, SkipFixedEffect DEF Stay, SamePool
    <3>2. CASE TxDataLength
      BY <3>2, TxDataLengthEffect DEF Stay, SamePool
    <3>3. CASE CoinDataLength
      BY <3>3, CoinDataLengthEffect DEF Stay, SamePool
    <3>4. CASE CaptureFixed
      BY <3>4, CaptureFixedEffect DEF Stay, SamePool
    <3>5. CASE ArgCount
      BY <3>5, ArgCountEffect DEF Stay, SamePool
    <3>6. CASE ValueCount
      BY <3>6, ValueCountEffect DEF Stay, SamePool
    <3>7. CASE Element
      BY <3>7, ElementEffect DEF Stay, SamePool
    <3>8. CASE FromCount
      BY <3>8, FromCountEffect DEF Stay, SamePool
    <3>9. CASE ToCount
      BY <3>9, ToCountEffect DEF Stay, SamePool
    <3>10. CASE Asset
      BY <3>10, AssetEffect DEF Stay, SamePool
    <3>11. CASE Amount
      BY <3>11, AmountEffect DEF Stay, SamePool
    <3>12. CASE EndFrom
      BY <3>12, EndFromEffect DEF Stay, SamePool
    <3>13. CASE EndTo
      BY <3>13, EndToEffect DEF Stay, SamePool
    <3> QED
      BY <1>4, <3>1, <3>2, <3>3, <3>4, <3>5, <3>6, <3>7, <3>8, <3>9, <3>10, <3>11, <3>12, <3>13
  <2> QED
    BY <2>1, <1>1, Needs, TakingKeepsTypes
<1>5. ASSUME SkipVar \/ CaptureVar \/ SkipValue
      PROVE  TypeInv'
  <2>1. /\ Enough /\ VarLabel /\ Whole /\ UNCHANGED <<shape, given, more>>
        /\ p' \in ParserType /\ p'.buf = After(Need + HeadValue)
        /\ phase' = phase /\ p'.pool = p.pool
    <3>1. CASE SkipVar
      BY <3>1, SkipVarEffect DEF Stay, SamePool
    <3>2. CASE CaptureVar
      BY <3>2, CaptureVarEffect DEF Stay, SamePool
    <3>3. CASE SkipValue
      BY <3>3, SkipValueEffect DEF Stay, SamePool
    <3> QED
      BY <1>5, <3>1, <3>2, <3>3
  <2> QED
    BY <2>1, <1>1, WholeField, TakingKeepsTypes
<1>6. CASE ElementLength
  <2>1. /\ Enough /\ UNCHANGED <<shape, given, more>> /\ p' \in ParserType
        /\ p'.buf = After(Need) /\ phase' \in {phase, "failed"} /\ p'.pool <= PoolSize
    BY <1>1, <1>6, ElementLengthEffect
  <2> QED
    BY <2>1, Needs, TakingKeepsTypes
<1>7. CASE LengthError
  <2>1. /\ UNCHANGED <<shape, given, more>> /\ p' \in ParserType /\ p'.buf = p.buf
        /\ phase' \in {"idle", "failed"} /\ p'.pool = p.pool
    BY <1>7, LengthErrorEffect DEF SamePool
  <2> QED
    BY <2>1, TypesKept DEF TypeInv
<1>8. CASE ValueError
  <2>1. /\ UNCHANGED <<shape, given, more>> /\ p' \in ParserType
        /\ phase' \in {"idle", "failed"} /\ p'.pool = p.pool
        /\ p'.buf = IF more THEN LackVarint(Lack) ELSE p.buf
        /\ Enough /\ VarLabel /\ ~Whole
    BY <1>8, ValueErrorEffect DEF SamePool
  <2>2. /\ Lack \in Nat /\ VarintWidth(Lack) \in {1, 3}
        /\ VarintWidth(Lack) <= Len(p.buf)
    BY <2>1, <1>1, LackFits
  <2>3. given \in Nat /\ Len(p.buf) <= Capacity /\ Capacity \in Nat
    BY ScaleFacts DEF TypeInv
  <2>4. /\ LackVarint(Lack) \in Seq(Int) /\ Len(LackVarint(Lack)) <= Capacity
        /\ \A k \in DOMAIN LackVarint(Lack) : LackVarint(Lack)[k] <= given
    <3>1. /\ LackVarint(Lack) \in Seq(Int) /\ Len(LackVarint(Lack)) = VarintWidth(Lack)
          /\ \A k \in 1 .. VarintWidth(Lack) :
               LackVarint(Lack)[k] = IF k = 1 THEN -Lack ELSE 0
      BY <2>2, LackVarintFacts
    <3>2. DOMAIN LackVarint(Lack) = 1 .. VarintWidth(Lack)
      BY <3>1
    <3>3. Len(LackVarint(Lack)) <= Capacity
      BY <3>1, <2>2, <2>3, <1>1
    <3>4. \A k \in 1 .. VarintWidth(Lack) : LackVarint(Lack)[k] <= given
      BY <3>1, <2>2, <2>3
    <3> QED
      BY <3>1, <3>2, <3>3, <3>4
  <2> QED
    BY <2>1, <2>4, <1>1, TypesKept DEF TypeInv
<1>9. CASE Finish
  BY <1>9, FinishEffect, TypesKept DEF TypeInv
<1> QED
  BY <1>2, <1>3, <1>4, <1>5, <1>6, <1>7, <1>8, <1>9 DEF Parse

LEMMA SizesAreNumbers ==
  ASSUME TypeInv, NEW n \in Sizes
  PROVE  n \in Nat
<1>1. shape \in Shapes /\ given \in Nat /\ Size(shape) \in Nat /\ shape.extra \in Nat
  BY BytesRead, ShapeAssumption DEF TypeInv
<1>2. ChunkSizes \subseteq Nat
  BY <1>1, ScaleFacts
<1> QED
  BY <1>1, <1>2 DEF Sizes

LEMMA Appended ==
  ASSUME NEW a \in Seq(Int), NEW b \in Seq(Int)
  PROVE  /\ a \o b \in Seq(Int) /\ Len(a \o b) = Len(a) + Len(b)
         /\ \A k \in 1 .. Len(a) : (a \o b)[k] = a[k]
         /\ \A k \in 1 .. Len(b) : (a \o b)[Len(a) + k] = b[k]
OBVIOUS

LEMMA AbsorbingKeepsTypes ==
  ASSUME TypeInv, NEW n \in Nat, NEW m \in BOOLEAN, Absorb(n, m)
  PROVE  TypeInv'
<1>1. /\ shape' = shape /\ given' = given + n /\ more' \in BOOLEAN
      /\ p' \in ParserType /\ p'.pool = p.pool
  BY AbsorbEffect DEF SamePool
<1>2. /\ shape \in Shapes /\ given \in Nat /\ p.buf \in Seq(Int) /\ p.pool <= PoolSize
      /\ Len(p.buf) <= Capacity /\ \A k \in DOMAIN p.buf : p.buf[k] <= given
  BY DEF TypeInv, ParserType
<1>3. PoolSize' = PoolSize /\ Capacity' = Capacity
  BY <1>1, SameSizes
<1>4. CASE Fits(n) /\ phase' = "parsing" /\ p'.buf = p.buf \o Chunk(n)
  <2>1. Chunk(n) \in Seq(Int) /\ Len(Chunk(n)) = n /\ \A k \in 1 .. n : Chunk(n)[k] = given + k
    BY <1>2 DEF Chunk
  <2>2. /\ Len(p'.buf) = Len(p.buf) + n
        /\ \A k \in 1 .. Len(p.buf) : p'.buf[k] = p.buf[k]
        /\ \A k \in 1 .. n : p'.buf[Len(p.buf) + k] = given + k
    <3> DEFINE a == p.buf
               b == Chunk(n)
    <3>1. a \in Seq(Int) /\ b \in Seq(Int) /\ Len(b) = n
      BY <2>1, <1>2
    <3> HIDE DEF a, b
    <3>2. /\ Len(a \o b) = Len(a) + n
          /\ \A k \in 1 .. Len(a) : (a \o b)[k] = a[k]
          /\ \A k \in 1 .. n : (a \o b)[Len(a) + k] = b[k]
      BY <3>1, Appended
    <3> QED
      BY <3>2, <2>1, <1>4 DEF a, b
  <2>3. Len(p'.buf) <= Capacity
    BY <2>2, <1>4 DEF Fits
  <2>4. ASSUME NEW k \in 1 .. Len(p.buf) + n PROVE p'.buf[k] <= given'
    <3>1. CASE k <= Len(p.buf)
      <4>1. k \in DOMAIN p.buf /\ k \in 1 .. Len(p.buf)
        BY <3>1, <1>2
      <4>2. p'.buf[k] = p.buf[k] /\ p.buf[k] \in Int
        BY <4>1, <2>2, <1>2
      <4> QED
        BY <4>1, <4>2, <1>1, <1>2
    <3>2. CASE k > Len(p.buf)
      <4>1. PICK d \in 1 .. n : k = Len(p.buf) + d
        <5>1. k - Len(p.buf) \in 1 .. n /\ k = Len(p.buf) + (k - Len(p.buf))
          BY <3>2, <1>2
        <5> QED
          BY <5>1
      <4>2. p'.buf[k] = given + d
        BY <4>1, <2>2
      <4> QED
        BY <4>1, <4>2, <1>1, <1>2
    <3> QED
      BY <3>1, <3>2, <1>2
  <2>5. DOMAIN p'.buf = 1 .. Len(p.buf) + n
    BY SMTT(30), <2>2, <1>1 DEF ParserType
  <2> QED
    BY <1>1, <1>2, <1>3, <1>4, <2>3, <2>4, <2>5 DEF TypeInv
<1>5. CASE phase' = "failed" /\ p' = p
  BY <1>1, <1>2, <1>3, <1>5 DEF TypeInv
<1> QED
  BY <1>4, <1>5, AbsorbEffect

LEMMA NewSessionKeepsTypes ==
  ASSUME TypeInv, NewSession
  PROVE  TypeInv'
<1>1. /\ shape' \in Shapes /\ shape'.scale = shape.scale
      /\ given' = 0 /\ more' = TRUE /\ phase' = "idle" /\ p' = Fresh(p.pool)
  BY DEF NewSession
<1>2. p.pool \in Nat /\ p.pool <= PoolSize
  BY DEF TypeInv, ParserType
<1>3. PoolSize' = PoolSize /\ Capacity' \in Nat
  <2>1. Scales[shape'.scale] \in ScaleType
    BY <1>1, ScaleAssumption, ShapeAssumption
  <2> QED
    BY <2>1, <1>1, SameSizes DEF Capacity, Scale, ScaleType
<1>4. p' \in ParserType /\ p'.buf = <<>> /\ p'.pool = p.pool
  BY <1>1, <1>2, FreshType DEF Fresh
<1> QED
  BY <1>1, <1>2, <1>3, <1>4 DEF TypeInv

LEMMA TypesStart == Init => TypeInv
<1> SUFFICES ASSUME Init PROVE TypeInv
  OBVIOUS
<1>1. shape \in Shapes /\ PoolSize \in Nat /\ Capacity \in Nat
  BY ScaleFacts DEF Init
<1>2. p \in ParserType /\ p.buf = <<>> /\ p.pool = 0
  BY FreshType DEF Init, Fresh
<1> QED
  BY <1>1, <1>2 DEF Init, TypeInv

LEMMA TypesStep == TypeInv /\ [Next]_vars => TypeInv'
<1> SUFFICES ASSUME TypeInv, [Next]_vars PROVE TypeInv'
  OBVIOUS
<1>1. CASE Parse
  BY <1>1, ParsingKeepsTypes
<1>2. ASSUME NEW n \in Sizes, NEW m \in BOOLEAN, Absorb(n, m) PROVE TypeInv'
  BY <1>2, SizesAreNumbers, AbsorbingKeepsTypes
<1>3. CASE NewSession
  BY <1>3, NewSessionKeepsTypes
<1>4. CASE UNCHANGED vars
  BY <1>4 DEF vars, TypeInv, PoolSize, Capacity, Scale
<1> QED
  BY <1>1, <1>2, <1>3, <1>4 DEF Next

---------------------------------------------------------------------------
(* Where the parser stands.                                                 *)

\* raw_tx holds the bytes behind at, up to g; before them, in h bytes, a
\* varint of n.
Holds(buf, h, n, at, g) ==
  /\ at \in Nat /\ at <= g /\ Len(buf) = h + g - at
  /\ \A k \in 1 .. Len(buf) :
       buf[k] = IF k > h THEN at + k - h ELSE IF k = 1 THEN -n ELSE 0

\* The field that starts at st is the one the label reads.
Nth == IF p.pc \in {"D_VALUE", "D_VALUE_V"} THEN p.value ELSE 0
StandsAt(st) ==
  Starts(shape, st, IF p.pc = "D_VALUE_V" THEN "D_VALUE" ELSE p.pc, Index, Nth)

\* What the parser has counted is what the transaction has.
Aware ==
  /\ p.pc # "TYP" => p.type = shape.type
  /\ p.pc \in {"D_LEN", "D_VALUE", "D_VALUE_V"} => p.args = Len(shape.args)
  /\ p.pc \in {"D_VALUE", "D_VALUE_V"} =>
       /\ p.values = Len(shape.args[p.arg + 1])
       /\ p.method \in Kept => p.values = 1
  /\ p.pc = "D_VALUE_V" => p.method \in Kept
  /\ p.pc \in InputLabels => p.froms = Len(shape.from)
  /\ p.pc \in OutputLabels => p.tos = Len(shape.to)

\* Nothing of the field has been read; or its length only, for a value that is
\* kept; or all but the last n bytes.
Val(st) == Layout[shape][st].val
Uncut(st) == p.pc # "D_VALUE_V" /\ Holds(p.buf, 0, 0, st - 1, given)
AtBody(st) ==
  /\ p.pc = "D_VALUE_V" /\ p.element = Val(st)
  /\ Holds(p.buf, 0, 0, st - 1 + VarintWidth(Val(st)), given)
Cut(st, n) ==
  /\ VarLabel /\ n \in 1 .. Val(st)
  /\ Holds(p.buf, VarintWidth(n), n,
           st - 1 + VarintWidth(Val(st)) + Val(st) - n, given)

Standing(st) ==
  /\ st \in Nat \ {0} /\ StandsAt(st) /\ Aware
  /\ Uncut(st) \/ AtBody(st) \/ \E n \in Nat : Cut(st, n)

PositionInv ==
  /\ phase \in {"idle", "parsing"} => \E st \in Nat : Standing(st)
  /\ phase = "done" => /\ given = Size(shape) /\ p.pc = "END" /\ p.buf = <<>>
                       /\ Aware

\* The end of the field that starts at st.
Past(st) ==
  st + HeadLen(shape, Layout[shape][st]) + BodyLen(shape, Layout[shape][st])

---------------------------------------------------------------------------
(* raw_tx.                                                                  *)

LEMMA TakenFrom ==
  ASSUME NEW buf \in Seq(Int), NEW h \in Nat, NEW n \in Nat, NEW at \in Nat, NEW g \in Nat,
         Holds(buf, h, n, at, g), NEW m \in Nat, h <= m, m <= Len(buf),
         NEW rest \in Seq(Int), Len(rest) = Len(buf) - m,
         \A k \in 1 .. Len(buf) - m : rest[k] = buf[m + k]
  PROVE  Holds(rest, 0, 0, at + m - h, g)
<1>1. at <= g /\ Len(buf) = h + g - at
  BY DEF Holds
<1>2. at + m - h \in Nat /\ at + m - h <= g /\ Len(rest) = g - (at + m - h)
  BY <1>1
<1>3. ASSUME NEW k \in 1 .. Len(rest) PROVE rest[k] = at + m - h + k
  <2>1. m + k \in 1 .. Len(buf) /\ m + k > h /\ k \in 1 .. Len(buf) - m
    BY <1>1
  <2>2. rest[k] = buf[m + k]
    BY <2>1
  <2>3. buf[m + k] = at + (m + k) - h
    BY <2>1 DEF Holds
  <2> QED
    BY <2>2, <2>3, <2>1
<1>4. \A k \in 1 .. Len(rest) :
        rest[k] = IF k > 0 THEN at + m - h + k - 0 ELSE IF k = 1 THEN -0 ELSE 0
  BY <1>3
<1> QED
  BY <1>2, <1>4 DEF Holds

LEMMA Taken ==
  ASSUME TypeInv, NEW h \in Nat, NEW n \in Nat, NEW at \in Nat,
         Holds(p.buf, h, n, at, given), NEW m \in Nat, h <= m, m <= Len(p.buf)
  PROVE  Holds(After(m), 0, 0, at + m - h, given)
<1> DEFINE buf == p.buf
           rest == After(m)
<1>1. /\ buf \in Seq(Int) /\ given \in Nat /\ m \in 0 .. Len(p.buf)
      /\ Holds(buf, h, n, at, given) /\ m <= Len(buf)
  BY DEF TypeInv, ParserType
<1>2. /\ rest \in Seq(Int) /\ Len(rest) = Len(buf) - m
      /\ \A k \in 1 .. Len(buf) - m : rest[k] = buf[m + k]
  BY <1>1, Rest
<1> HIDE DEF buf, rest
<1>3. Holds(rest, 0, 0, at + m - h, given)
  BY <1>1, <1>2, TakenFrom
<1> QED
  BY <1>3 DEF rest

LEMMA AppendedTo ==
  ASSUME NEW buf \in Seq(Int), NEW h \in Nat, NEW n \in Nat, NEW at \in Nat,
         given \in Nat, Holds(buf, h, n, at, given), NEW m \in Nat
  PROVE  Holds(buf \o Chunk(m), h, n, at, given + m)
<1> DEFINE b == Chunk(m)
<1>1. b \in Seq(Int) /\ Len(b) = m /\ \A k \in 1 .. m : b[k] = given + k
  BY DEF Chunk
<1> HIDE DEF b
<1>2. /\ buf \o b \in Seq(Int) /\ Len(buf \o b) = Len(buf) + m
      /\ \A k \in 1 .. Len(buf) : (buf \o b)[k] = buf[k]
      /\ \A k \in 1 .. m : (buf \o b)[Len(buf) + k] = b[k]
  BY <1>1, Appended
<1>3. at <= given /\ Len(buf) = h + given - at /\ Len(buf) \in Nat
  BY DEF Holds
<1>4. ASSUME NEW k \in 1 .. Len(buf) + m
      PROVE  (buf \o b)[k] = IF k > h THEN at + k - h ELSE IF k = 1 THEN -n ELSE 0
  <2>1. CASE k <= Len(buf)
    <3>1. k \in 1 .. Len(buf)
      BY <2>1
    <3> QED
      BY <3>1, <1>2 DEF Holds
  <2>2. CASE k > Len(buf)
    <3>1. PICK d \in 1 .. m : k = Len(buf) + d
      <4>1. k - Len(buf) \in 1 .. m /\ k = Len(buf) + (k - Len(buf))
        BY <2>2
      <4> QED
        BY <4>1
    <3>2. (buf \o b)[k] = given + d
      BY <3>1, <1>1, <1>2
    <3>3. k > h /\ at + k - h = given + d
      BY <3>1, <1>3
    <3> QED
      BY <3>2, <3>3
  <2>3. k <= Len(buf) \/ k > Len(buf)
    BY <1>3
  <2> QED
    BY <2>1, <2>2, <2>3
<1>5. Len(buf \o b) = h + (given + m) - at /\ at <= given + m
  BY <1>2, <1>3
<1>6. Holds(buf \o b, h, n, at, given + m)
  BY <1>2, <1>4, <1>5 DEF Holds
<1> QED
  BY <1>6 DEF b

\* raw_tx after a chunk has ended inside a field of which n bytes are missing.
LEMMA NothingBehind ==
  ASSUME NEW n \in Nat, VarintWidth(n) \in {1, 3}, given \in Nat
  PROVE  Holds(LackVarint(n), VarintWidth(n), n, given, given)
BY LackVarintFacts DEF Holds

---------------------------------------------------------------------------
(* The field that the label reads.                                          *)

ByteType == [label : STRING, i : Nat, j : Nat, k : Int, val : Nat]
FieldAt(st) == Layout[shape][st]

LEMMA FieldFacts ==
  ASSUME TypeInv, NEW st, StandsAt(st), p.pc # "END"
  PROVE  /\ st \in 1 .. Size(shape) /\ Size(shape) \in Nat
         /\ FieldAt(st) \in ByteType /\ FieldAt(st).k = 1
         /\ FieldAt(st).label = (IF p.pc = "D_VALUE_V" THEN "D_VALUE" ELSE p.pc)
         /\ FieldAt(st).i = Index /\ FieldAt(st).j = Nth
         /\ Consists(shape, st) /\ Says(shape, FieldAt(st))
         /\ Follows(shape, FieldAt(st), Past(st))
<1>1. shape \in Shapes /\ p.pc \in Labels
  BY DEF TypeInv, ParserType
<1>2. /\ st \in 1 .. Size(shape)
      /\ FieldAt(st).label = (IF p.pc = "D_VALUE_V" THEN "D_VALUE" ELSE p.pc)
      /\ FieldAt(st).i = Index /\ FieldAt(st).j = Nth /\ FieldAt(st).k = 1
  BY DEF StandsAt, Starts, FieldAt
<1>3. FieldAt(st) \in ByteType /\ Size(shape) \in Nat
  BY <1>1, <1>2, BytesRead DEF FieldAt, ByteType
<1>4. Consists(shape, st) /\ Says(shape, FieldAt(st)) /\ Follows(shape, FieldAt(st), Past(st))
  BY <1>1, <1>2, LayoutAssumption DEF FieldAt, Past
<1> QED
  BY <1>2, <1>3, <1>4

LEMMA Extents ==
  ASSUME TypeInv, NEW st, StandsAt(st), p.pc # "END"
  PROVE  /\ HeadLen(shape, FieldAt(st)) \in Nat \ {0}
         /\ BodyLen(shape, FieldAt(st)) \in Nat
         /\ Past(st) = st + HeadLen(shape, FieldAt(st)) + BodyLen(shape, FieldAt(st))
         /\ Past(st) \in Nat \ {0} /\ Past(st) <= Size(shape) + 1
         /\ Val(st) \in Nat /\ Val(st) = FieldAt(st).val
         /\ VarintWidth(Val(st)) \in {1, 3}
<1>1. /\ st \in 1 .. Size(shape) /\ Size(shape) \in Nat /\ FieldAt(st) \in ByteType
      /\ FieldAt(st).label = (IF p.pc = "D_VALUE_V" THEN "D_VALUE" ELSE p.pc)
      /\ Consists(shape, st)
  BY FieldFacts
<1>2. shape \in Shapes
  BY DEF TypeInv
<1>3. Val(st) \in Nat /\ Val(st) = FieldAt(st).val
  BY <1>1 DEF Val, FieldAt, ByteType
<1>4. VarintWidth(Val(st)) \in {1, 3}
  BY <1>2, <1>3, Widths
<1>5. HeadLen(shape, FieldAt(st)) \in Nat \ {0}
  <2>1. CASE FieldAt(st).label \in FixedLabels
    <3>1. HeadLen(shape, FieldAt(st)) = Width[FieldAt(st).label]
      BY <2>1 DEF HeadLen, Width, Scale
    <3> QED
      BY <3>1, <2>1, <1>2, ScaleFacts
  <2>2. CASE FieldAt(st).label \notin FixedLabels
    <3>1. HeadLen(shape, FieldAt(st)) \in {1, VarintWidth(Val(st))}
      BY <2>2, <1>3 DEF HeadLen, VarintWidth, Scale
    <3> QED
      BY <3>1, <1>4
  <2> QED
    BY <2>1, <2>2
<1>6. BodyLen(shape, FieldAt(st)) \in Nat
  BY <1>3 DEF BodyLen
<1>7. Past(st) = st + HeadLen(shape, FieldAt(st)) + BodyLen(shape, FieldAt(st))
  BY DEF Past, FieldAt
<1>8. Past(st) - 1 <= Size(shape)
  <2>1. st + HeadLen(shape, FieldAt(st)) + BodyLen(shape, FieldAt(st)) - 1 <= Size(shape)
    BY <1>1 DEF Consists, FieldAt
  <2> QED
    BY <2>1, <1>1, <1>5, <1>6, <1>7
<1> QED
  BY <1>1, <1>3, <1>4, <1>5, <1>6, <1>7, <1>8

\* The parser and the transaction agree on how the field is made up.
LEMMA Extent ==
  ASSUME TypeInv, NEW st, StandsAt(st), Aware, p.pc # "END"
  PROVE  /\ HeadLen(shape, FieldAt(st)) =
              IF p.pc \in FixedLabels THEN Width[p.pc]
              ELSE IF CountLabel THEN 1 ELSE VarintWidth(Val(st))
         /\ VarLabel => BodyLen(shape, FieldAt(st)) = Val(st)
         /\ ~VarLabel /\ p.pc \notin {"D_VALUE", "D_VALUE_V"} =>
              BodyLen(shape, FieldAt(st)) = 0
         /\ p.pc \in {"D_VALUE", "D_VALUE_V"} => BodyLen(shape, FieldAt(st)) = Val(st)
<1>1. /\ FieldAt(st).label = (IF p.pc = "D_VALUE_V" THEN "D_VALUE" ELSE p.pc)
      /\ Val(st) = FieldAt(st).val /\ p.pc \in Labels
  BY FieldFacts, Extents DEF TypeInv, ParserType
<1>2. p.pc = "TXD" => p.type = shape.type
  BY DEF Aware
<1>3. HeadLen(shape, FieldAt(st)) =
        IF p.pc \in FixedLabels THEN Width[p.pc]
        ELSE IF CountLabel THEN 1 ELSE VarintWidth(Val(st))
  BY <1>1 DEF HeadLen, FixedLabels, CountLabels, CountLabel, VarintWidth, Width, Scale
<1>4. HasBody(shape, FieldAt(st)) <=>
        VarLabel \/ p.pc \in {"D_VALUE", "D_VALUE_V"}
  BY <1>1, <1>2 DEF HasBody, VarLabels, VarLabel, Listed
<1> QED
  BY <1>1, <1>3, <1>4 DEF BodyLen
---------------------------------------------------------------------------
(* What is read at the label.                                               *)

LEMMA FirstByte ==
  ASSUME TypeInv, NEW st, Standing(st), p.pc # "END", p.buf # <<>>
  PROVE  /\ Uncut(st) => p.buf[1] = st /\ HeadValue = Val(st)
         /\ \A n \in Nat : Cut(st, n) => p.buf[1] = -n /\ HeadValue = n
<1>1. /\ st \in 1 .. Size(shape) /\ Size(shape) \in Nat
      /\ Val(st) \in Nat /\ Val(st) = FieldAt(st).val
  BY FieldFacts, Extents DEF Standing
<1>2. p.buf \in Seq(Int) /\ p.buf # <<>> /\ 1 \in 1 .. Len(p.buf)
  BY DEF TypeInv, ParserType
<1>3. HeadValue = Value(p.buf[1])
  BY Reading
<1>4. ASSUME Uncut(st) PROVE p.buf[1] = st /\ HeadValue = Val(st)
  <2>1. p.buf[1] = st - 1 + 1 - 0
    BY <1>2, <1>4 DEF Uncut, Holds
  <2>2. p.buf[1] = st
    BY <2>1, <1>1
  <2> QED
    BY <2>2, <1>1, <1>3 DEF Value, Byte, FieldAt
<1>5. ASSUME NEW n \in Nat, Cut(st, n) PROVE p.buf[1] = -n /\ HeadValue = n
  <2>1. n \in 1 .. Val(st) /\ VarintWidth(n) \in {1, 3}
    BY <1>1, <1>5, Widths DEF Cut, TypeInv
  <2>2. p.buf[1] = -n
    BY <1>2, <1>5, <2>1 DEF Cut, Holds
  <2>3. Value(-n) = n
    BY <2>1, <1>1 DEF Value
  <2> QED
    BY <2>2, <2>3, <1>3
<1> QED
  BY <1>4, <1>5

\* The bytes behind the length of a field, or behind the varint of the rest.
LEMMA HeadTaken ==
  ASSUME TypeInv, NEW st, Standing(st), Uncut(st), Enough
  PROVE  /\ Need = HeadLen(shape, FieldAt(st)) /\ HeadValue = Val(st)
         /\ Need \in 1 .. Len(p.buf)
         /\ Holds(p.buf, 0, 0, st - 1, given)
<1>1. p.pc # "END" /\ p.pc # "D_VALUE_V" /\ p.pc \in Labels /\ StandsAt(st) /\ Aware
  BY DEF Enough, Uncut, TypeInv, ParserType, Standing
<1>2. Need \in 0 .. Len(p.buf) /\ Need > 0 /\ p.buf # <<>> /\ Len(p.buf) \in Nat
  BY SMTT(30), <1>1, Needs DEF TypeInv, ParserType
<1>3. HeadValue = Val(st)
  BY <1>1, <1>2, FirstByte
<1>4. Need = IF p.pc \in FixedLabels THEN Width[p.pc]
             ELSE IF CountLabel THEN 1 ELSE VarintWidth(Val(st))
  <2>1. CASE p.pc \in FixedLabels
    BY <2>1, Needs
  <2>2. CASE p.pc \notin FixedLabels /\ CountLabel
    BY <2>2, Needs
  <2>3. CASE p.pc \notin FixedLabels /\ ~CountLabel
    <3>1. VarLabel \/ VarintLabel
      BY <2>3, <1>1 DEF Labels, CountLabels, CountLabel, VarLabels, VarLabel, VarintLabel, Listed
    <3> QED
      BY <3>1, <2>3, <1>3, Needs
  <2> QED
    BY <2>1, <2>2, <2>3
<1> QED
  BY <1>1, <1>2, <1>3, <1>4, Extent DEF Uncut

\* A field of fixed size, a count, or a varint without a body has been read.
LEMMA ShortFieldRead ==
  ASSUME TypeInv, NEW st, Standing(st), Enough, ~VarLabel,
         p.pc \notin {"D_VALUE", "D_VALUE_V"}
  PROVE  /\ Holds(After(Need), 0, 0, Past(st) - 1, given) /\ HeadValue = Val(st)
         /\ Past(st) - 1 <= given
<1>1. p.pc # "END" /\ StandsAt(st) /\ Aware /\ st \in Nat \ {0} /\ Uncut(st)
  BY DEF Enough, Standing, AtBody, Cut
<1>2. /\ Need = HeadLen(shape, FieldAt(st)) /\ HeadValue = Val(st)
      /\ Need \in 1 .. Len(p.buf) /\ Holds(p.buf, 0, 0, st - 1, given)
  BY <1>1, HeadTaken
<1>3. BodyLen(shape, FieldAt(st)) = 0 /\ Past(st) = st + Need
  BY <1>1, <1>2, Extent, Extents
<1>4. p.buf \in Seq(Int) /\ given \in Nat /\ st - 1 \in Nat
  BY <1>1 DEF TypeInv, ParserType
<1>5. Holds(After(Need), 0, 0, st - 1 + Need - 0, given)
  BY <1>2, <1>4, Taken
<1>6. st - 1 + Need - 0 = Past(st) - 1
  BY <1>1, <1>2, <1>3
<1> QED
  BY <1>2, <1>5, <1>6 DEF Holds

\* A field with a body, or the rest of one, has been read.
LEMMA VarFieldRead ==
  ASSUME TypeInv, NEW st, Standing(st), Enough, VarLabel, Whole
  PROVE  Holds(After(Need + HeadValue), 0, 0, Past(st) - 1, given)
<1>1. p.pc # "END" /\ p.pc # "D_VALUE_V" /\ StandsAt(st) /\ Aware /\ st \in Nat \ {0}
  BY DEF Enough, Standing, VarLabel, Listed
<1>2. /\ Need + HeadValue \in Nat /\ Need + HeadValue <= Len(p.buf)
      /\ HeadValue \in Nat /\ Need \in Nat /\ Len(p.buf) \in Nat
      /\ p.buf # <<>> /\ Need = VarintWidth(HeadValue)
  <2>1. Len(p.buf) \in Nat
    BY DEF TypeInv, ParserType
  <2>2. HeadValue \in Nat /\ Need + HeadValue \in 0 .. Len(p.buf)
    BY WholeField
  <2>3. Need \in 0 .. Len(p.buf) /\ p.buf # <<>> /\ Need = VarintWidth(HeadValue)
    BY <1>1, Needs
  <2> QED
    BY <2>1, <2>2, <2>3
<1>3. p.buf \in Seq(Int) /\ given \in Nat /\ st - 1 \in Nat
  BY <1>1 DEF TypeInv, ParserType
<1>4. /\ Past(st) = st + VarintWidth(Val(st)) + Val(st) /\ Val(st) \in Nat
      /\ VarintWidth(Val(st)) \in {1, 3}
  <2>1. p.pc \notin FixedLabels /\ ~CountLabel
    BY DEF VarLabel, Listed, FixedLabels, CountLabel
  <2> QED
    BY <2>1, <1>1, Extent, Extents
<1>5. CASE Uncut(st)
  <2>1. Need = VarintWidth(Val(st)) /\ HeadValue = Val(st) /\ Holds(p.buf, 0, 0, st - 1, given)
    BY <1>1, <1>2, <1>5, FirstByte DEF Uncut
  <2>2. Holds(After(Need + HeadValue), 0, 0, st - 1 + (Need + HeadValue) - 0, given)
    BY SMTT(30), <2>1, <1>2, <1>3, Taken
  <2>3. st - 1 + (Need + HeadValue) - 0 = Past(st) - 1
    BY <2>1, <1>1, <1>4
  <2> QED
    BY <2>2, <2>3
<1>6. ASSUME NEW n \in Nat, Cut(st, n)
      PROVE  Holds(After(Need + HeadValue), 0, 0, Past(st) - 1, given)
  <2> DEFINE at == st - 1 + VarintWidth(Val(st)) + Val(st) - n
  <2>1. /\ HeadValue = n /\ Need = VarintWidth(n) /\ n \in 1 .. Val(st)
        /\ Holds(p.buf, Need, n, at, given)
    BY <1>1, <1>2, <1>6, FirstByte DEF Cut
  <2>2. at \in Nat
    BY <2>1 DEF Holds
  <2>3. Holds(After(Need + HeadValue), 0, 0, at + (Need + HeadValue) - Need, given)
    <3> DEFINE h == Need
               m == Need + HeadValue
    <3>1. h \in Nat /\ m \in Nat /\ h <= m /\ m <= Len(p.buf)
      BY <1>2
    <3> HIDE DEF at
    <3>2. Holds(p.buf, h, n, at, given)
      BY <2>1
    <3> HIDE DEF h, m
    <3>3. Holds(After(m), 0, 0, at + m - h, given)
      BY <2>2, <3>1, <3>2, Taken
    <3> QED
      BY <3>3 DEF h, m
  <2>4. at + (Need + HeadValue) - Need = Past(st) - 1
    <3>1. at + n = st - 1 + VarintWidth(Val(st)) + Val(st)
      BY <1>1, <1>4
    <3>2. at + n = Past(st) - 1
      BY <3>1, <1>1, <1>4
    <3> HIDE DEF at
    <3> QED
      BY <3>2, <2>1, <2>2, <1>2
  <2> QED
    BY <2>3, <2>4
<1> QED
  BY <1>1, <1>5, <1>6 DEF Standing, AtBody

\* The length of a value that is kept has been read, and the value.
LEMMA LengthRead ==
  ASSUME TypeInv, NEW st, Standing(st), Enough, p.pc = "D_VALUE", ~Listed
  PROVE  /\ HeadValue = Val(st)
         /\ Holds(After(Need), 0, 0, st - 1 + VarintWidth(Val(st)), given)
<1>1. p.pc # "END" /\ StandsAt(st) /\ Aware /\ st \in Nat \ {0} /\ Uncut(st)
  BY DEF Enough, Standing, AtBody, Cut, VarLabel
<1>2. /\ Need = HeadLen(shape, FieldAt(st)) /\ HeadValue = Val(st)
      /\ Need \in 1 .. Len(p.buf) /\ Holds(p.buf, 0, 0, st - 1, given)
  BY <1>1, HeadTaken
<1>3. Need = VarintWidth(Val(st))
  BY <1>1, <1>2, Extent DEF FixedLabels, CountLabel
<1>4. p.buf \in Seq(Int) /\ given \in Nat /\ st - 1 \in Nat
  BY <1>1 DEF TypeInv, ParserType
<1>5. Holds(After(Need), 0, 0, st - 1 + Need - 0, given)
  BY <1>2, <1>4, Taken
<1>6. st - 1 + Need - 0 = st - 1 + VarintWidth(Val(st))
  BY <1>1, <1>2, <1>3
<1> QED
  BY <1>2, <1>5, <1>6

LEMMA ElementRead ==
  ASSUME TypeInv, NEW st, Standing(st), Enough, p.pc = "D_VALUE_V"
  PROVE  Holds(After(Need), 0, 0, Past(st) - 1, given)
<1>1. p.pc # "END" /\ StandsAt(st) /\ Aware /\ st \in Nat \ {0} /\ AtBody(st)
  BY DEF Standing, Uncut, Cut, VarLabel, Listed
<1>2. Need = p.element /\ Need \in 0 .. Len(p.buf)
  BY <1>1, Needs
<1>3. /\ p.element = Val(st)
      /\ Holds(p.buf, 0, 0, st - 1 + VarintWidth(Val(st)), given)
  BY <1>1 DEF AtBody
<1>4. /\ Past(st) = st + VarintWidth(Val(st)) + Val(st) /\ Val(st) \in Nat
      /\ VarintWidth(Val(st)) \in {1, 3}
  BY <1>1, Extent, Extents DEF FixedLabels, CountLabel
<1>5. p.buf \in Seq(Int) /\ given \in Nat /\ st - 1 + VarintWidth(Val(st)) \in Nat
  BY SMTT(30), <1>1, <1>4 DEF TypeInv, ParserType
<1>6. Holds(After(Need), 0, 0, st - 1 + VarintWidth(Val(st)) + Need - 0, given)
  <2> DEFINE at == st - 1 + VarintWidth(Val(st))
  <2>1. at \in Nat /\ Holds(p.buf, 0, 0, at, given)
    BY <1>3, <1>5
  <2> HIDE DEF at
  <2>2. Holds(After(Need), 0, 0, at + Need - 0, given)
    BY <2>1, <1>2, <1>5, Taken
  <2> QED
    BY <2>2 DEF at
<1>7. st - 1 + VarintWidth(Val(st)) + Need - 0 = Past(st) - 1
  BY <1>1, <1>2, <1>3, <1>4
<1> QED
  BY <1>6, <1>7
---------------------------------------------------------------------------
(* The label goes with the field.                                           *)

LEMMA ComesTo ==
  ASSUME UNCHANGED <<shape, given>>, NEW CONSTANT e \in Nat \ {0},
         p'.pc # "D_VALUE_V", Holds(p'.buf, 0, 0, e - 1, given), StandsAt(e)', Aware'
  PROVE  Standing(e)'
BY DEF Standing, Uncut

LEMMA Tables == Following = Behind
BY DEF Following, Behind

Plain == DOMAIN Behind

LEMMA Onward ==
  ASSUME TypeInv, NEW CONSTANT st, StandsAt(st), Aware, p.pc \in Plain, p.pc # "TYP",
         shape' = shape, p'.pc = Following[p.pc], p'.type = p.type, SameCoins,
         NEW CONSTANT e, e = Past(st)
  PROVE  StandsAt(e)' /\ Aware' /\ p'.pc # "D_VALUE_V"
<1>1. p.pc # "END" /\ p.pc \notin {"D_VALUE", "D_VALUE_V"}
  BY DEF Plain, Behind
<1>2. Starts(shape, e, Behind[p.pc], Index, 0)
  <2>1. FieldAt(st).label = p.pc /\ FieldAt(st).i = Index /\ Follows(shape, FieldAt(st), e)
    BY <1>1, FieldFacts
  <2> QED
    BY <2>1 DEF Follows, Plain
<1>3. /\ p'.pc \notin {"D_LEN", "D_VALUE", "D_VALUE_V", "TYP"}
      /\ p'.pc \in InputLabels => p.pc \in InputLabels
      /\ p'.pc \in OutputLabels => p.pc \in OutputLabels
      /\ p.pc \in InputLabels => p'.pc \in InputLabels
      /\ p.pc \in OutputLabels => p'.pc \in OutputLabels
      /\ p.pc # "D_LEN"
  BY Tables DEF Plain, Behind, InputLabels, OutputLabels
<1>4. Index' = Index /\ Nth' = 0
  BY <1>1, <1>3 DEF Index, Nth, SameCoins, InputLabels, OutputLabels
<1>5. StandsAt(e)'
  BY <1>2, <1>3, <1>4, Tables DEF StandsAt
<1>6. Aware'
  BY <1>3 DEF Aware, SameCoins
<1> QED
  BY <1>3, <1>5, <1>6

\* A step that reads all of a field and stays within the chunk.
Moves(e) == Standing(e)' /\ phase' = phase /\ UNCHANGED <<shape, given, more>>

LEMMA PlainMoves ==
  ASSUME TypeInv, NEW CONSTANT st, Standing(st), p.pc \in Plain, p.pc # "TYP", Stay,
         p'.pc = Following[p.pc], p'.type = p.type, SameCoins,
         Holds(p'.buf, 0, 0, Past(st) - 1, given)
  PROVE  \E e \in Nat : Moves(e)
<1>1. p.pc # "END" /\ StandsAt(st) /\ Aware
  BY DEF Plain, Behind, Standing
<1>2. PICK e \in Nat \ {0} : e = Past(st)
  BY <1>1, Extents
<1>3. StandsAt(e)' /\ Aware' /\ p'.pc # "D_VALUE_V"
  BY <1>1, <1>2, Onward DEF Stay
<1>4. Standing(e)'
  BY <1>2, <1>3, ComesTo DEF Stay
<1> QED
  BY <1>4 DEF Moves, Stay

LEMMA ReadTypeMoves ==
  ASSUME TypeInv, NEW CONSTANT st, Standing(st), ReadType
  PROVE  \E e \in Nat : Moves(e)
<1>1. /\ Stay /\ Enough /\ p.pc = "TYP" /\ p'.buf = After(Need) /\ p'.pc = "TSP"
      /\ p'.type = HeadValue
  BY ReadTypeEffect DEF ReadType, Read
<1>2. Holds(After(Need), 0, 0, Past(st) - 1, given) /\ HeadValue = Val(st)
  BY <1>1, ShortFieldRead DEF VarLabel, Listed
<1>3. StandsAt(st) /\ p.pc # "END"
  BY <1>1 DEF Standing
<1>4. PICK e \in Nat \ {0} : e = Past(st)
  BY <1>3, Extents
<1>5. /\ FieldAt(st).label = "TYP" /\ FieldAt(st).i = 0 /\ FieldAt(st).val = shape.type
      /\ Follows(shape, FieldAt(st), e)
  BY <1>1, <1>3, <1>4, FieldFacts DEF Index, Says
<1>6. Starts(shape, e, "TSP", 0, 0)
  BY <1>5 DEF Follows, Behind
<1>7. StandsAt(e)' /\ Aware'
  <2>1. shape' = shape /\ p'.type = shape.type
    BY <1>1, <1>2, <1>3, <1>5, Extents DEF Stay
  <2>2. Index' = 0 /\ Nth' = 0
    BY <1>1 DEF Index, Nth
  <2>3. StandsAt(e)'
    BY <1>1, <1>6, <2>1, <2>2 DEF StandsAt
  <2>4. Aware'
    BY <1>1, <2>1 DEF Aware, InputLabels, OutputLabels
  <2> QED
    BY <2>3, <2>4
<1> QED
  BY <1>1, <1>2, <1>4, <1>7, ComesTo DEF Stay, Moves

LEMMA SkipFixedMoves ==
  ASSUME TypeInv, NEW CONSTANT st, Standing(st), SkipFixed
  PROVE  \E e \in Nat : Moves(e)
<1>1. /\ Stay /\ Enough /\ p'.buf = After(Need) /\ p'.pc = Following[p.pc]
      /\ p.pc \in {"TSP", "CC_SENDER", "CC_GMSL", "CC_GMSP", "FROM_CHAIN", "TO_CHAIN"}
      /\ p'.type = p.type /\ SameCoins
  BY SkipFixedEffect
<1>2. p.pc \in Plain /\ p.pc \notin {"TYP", "D_VALUE", "D_VALUE_V"} /\ ~VarLabel
  BY <1>1 DEF Plain, Behind, VarLabel, Listed
<1>3. Holds(After(Need), 0, 0, Past(st) - 1, given)
  BY <1>1, <1>2, ShortFieldRead
<1> QED
  BY <1>1, <1>2, <1>3, PlainMoves

LEMMA CaptureFixedMoves ==
  ASSUME TypeInv, NEW CONSTANT st, Standing(st), CaptureFixed
  PROVE  \E e \in Nat : Moves(e)
<1>1. /\ Stay /\ Enough /\ p'.buf = After(Need) /\ p'.pc = Following[p.pc]
      /\ p.pc \in {"CC_CADDR", "CC_VALUE"} /\ p'.type = p.type /\ SameCoins
  BY CaptureFixedEffect
<1>2. p.pc \in Plain /\ p.pc \notin {"TYP", "D_VALUE", "D_VALUE_V"} /\ ~VarLabel
  BY <1>1 DEF Plain, Behind, VarLabel, Listed
<1>3. Holds(After(Need), 0, 0, Past(st) - 1, given)
  BY <1>1, <1>2, ShortFieldRead
<1> QED
  BY <1>1, <1>2, <1>3, PlainMoves

LEMMA AssetMoves ==
  ASSUME TypeInv, NEW CONSTANT st, Standing(st), Asset
  PROVE  \E e \in Nat : Moves(e)
<1>1. /\ Stay /\ Enough /\ p'.buf = After(Need) /\ p'.pc = Following[p.pc]
      /\ p.pc \in {"FROM_ASSET", "TO_ASSET"} /\ p'.type = p.type /\ SameCoins
  BY AssetEffect
<1>2. p.pc \in Plain /\ p.pc \notin {"TYP", "D_VALUE", "D_VALUE_V"} /\ ~VarLabel
  BY <1>1 DEF Plain, Behind, VarLabel, Listed
<1>3. Holds(After(Need), 0, 0, Past(st) - 1, given)
  BY <1>1, <1>2, ShortFieldRead
<1> QED
  BY <1>1, <1>2, <1>3, PlainMoves

LEMMA AmountMoves ==
  ASSUME TypeInv, NEW CONSTANT st, Standing(st), Amount
  PROVE  \E e \in Nat : Moves(e)
<1>1. /\ Stay /\ Enough /\ p'.buf = After(Need) /\ p'.pc = Following[p.pc]
      /\ p.pc \in {"FROM_AMOUNT", "TO_AMOUNT"} /\ p'.type = p.type /\ SameCoins
  BY AmountEffect
<1>2. p.pc \in Plain /\ p.pc \notin {"TYP", "D_VALUE", "D_VALUE_V"} /\ ~VarLabel
  BY <1>1 DEF Plain, Behind, VarLabel, Listed
<1>3. Holds(After(Need), 0, 0, Past(st) - 1, given)
  BY <1>1, <1>2, ShortFieldRead
<1> QED
  BY <1>1, <1>2, <1>3, PlainMoves

LEMMA CoinDataLengthMoves ==
  ASSUME TypeInv, NEW CONSTANT st, Standing(st), CoinDataLength
  PROVE  \E e \in Nat : Moves(e)
<1>1. /\ Stay /\ Enough /\ p'.buf = After(Need) /\ p'.pc = "FROM"
      /\ p.pc = "COD" /\ p'.type = p.type /\ SameCoins
  BY CoinDataLengthEffect
<1>2. /\ p.pc \in Plain /\ p.pc \notin {"TYP", "D_VALUE", "D_VALUE_V"} /\ ~VarLabel
      /\ p'.pc = Following[p.pc]
  BY <1>1 DEF Plain, Behind, Following, VarLabel, Listed
<1>3. Holds(After(Need), 0, 0, Past(st) - 1, given)
  BY <1>1, <1>2, ShortFieldRead
<1> QED
  BY <1>1, <1>2, <1>3, PlainMoves

LEMMA CaptureVarMoves ==
  ASSUME TypeInv, NEW CONSTANT st, Standing(st), CaptureVar
  PROVE  \E e \in Nat : Moves(e)
<1>1. /\ Stay /\ Enough /\ p'.buf = After(Need + HeadValue) /\ p'.pc = Following[p.pc]
      /\ p.pc \in CapturedVar /\ p'.type = p.type /\ SameCoins /\ VarLabel /\ Whole
  BY CaptureVarEffect
<1>2. p.pc \in Plain /\ p.pc # "TYP"
  BY <1>1 DEF Plain, Behind, CapturedVar
<1>3. Holds(After(Need + HeadValue), 0, 0, Past(st) - 1, given)
  BY <1>1, VarFieldRead
<1> QED
  BY <1>1, <1>2, <1>3, PlainMoves

\* Behind the data of a transaction, or at its start.
LEMMA DataMoves ==
  ASSUME TypeInv, NEW CONSTANT st, Standing(st), p.pc = "TXD", Stay,
         p'.pc = IF p.type = 16 THEN "CC_SENDER" ELSE "COD", p'.type = p.type, SameCoins,
         Holds(p'.buf, 0, 0, Past(st) - 1, given)
  PROVE  \E e \in Nat : Moves(e)
<1>1. p.pc # "END" /\ StandsAt(st) /\ Aware /\ p.type = shape.type
  BY DEF Standing, Aware
<1>2. PICK e \in Nat \ {0} : e = Past(st)
  BY <1>1, Extents
<1>3. Starts(shape, e, p'.pc, 0, 0)
  <2>1. FieldAt(st).label = "TXD" /\ Follows(shape, FieldAt(st), e)
    BY <1>1, <1>2, FieldFacts
  <2> QED
    BY <2>1, <1>1 DEF Follows
<1>4. StandsAt(e)'
  <2>1. Index' = 0 /\ Nth' = 0 /\ p'.pc # "D_VALUE_V"
    BY DEF Index, Nth
  <2> QED
    BY <1>3, <2>1 DEF StandsAt, Stay
<1>5. Aware'
  BY <1>1 DEF Aware, InputLabels, OutputLabels, Stay
<1> QED
  BY <1>2, <1>4, <1>5, ComesTo DEF Moves, Stay

LEMMA TxDataLengthMoves ==
  ASSUME TypeInv, NEW CONSTANT st, Standing(st), TxDataLength
  PROVE  \E e \in Nat : Moves(e)
<1>1. /\ Stay /\ Enough /\ p'.buf = After(Need) /\ p.pc = "TXD" /\ Typed(p.type)
      /\ p'.pc = IF p.type = 16 THEN "CC_SENDER" ELSE "COD"
      /\ p'.type = p.type /\ SameCoins
  BY TxDataLengthEffect
<1>2. Holds(After(Need), 0, 0, Past(st) - 1, given)
  BY <1>1, ShortFieldRead DEF VarLabel, Listed
<1> QED
  BY <1>1, <1>2, DataMoves

LEMMA SkipVarMoves ==
  ASSUME TypeInv, NEW CONSTANT st, Standing(st), SkipVar
  PROVE  \E e \in Nat : Moves(e)
<1>1. /\ Stay /\ Enough /\ VarLabel /\ Whole /\ p'.buf = After(Need + HeadValue)
      /\ p.pc \in {"RMK", "CC_MDES", "FROM_ADDRESS", "FROM_NONCE", "TXD"}
      /\ p'.pc = IF p.pc = "TXD" THEN "COD" ELSE Following[p.pc]
      /\ p'.type = p.type /\ SameCoins
  BY SkipVarEffect
<1>2. Holds(After(Need + HeadValue), 0, 0, Past(st) - 1, given)
  BY <1>1, VarFieldRead
<1>3. CASE p.pc = "TXD"
  <2>1. p.type # 16
    BY <1>1, <1>3 DEF VarLabel, Listed, Typed
  <2> QED
    BY <1>1, <1>2, <1>3, <2>1, DataMoves
<1>4. CASE p.pc # "TXD"
  <2>1. p.pc \in Plain /\ p.pc # "TYP"
    BY <1>1, <1>4 DEF Plain, Behind
  <2> QED
    BY <1>1, <1>2, <1>4, <2>1, PlainMoves
<1> QED
  BY <1>3, <1>4
---------------------------------------------------------------------------
(* Arguments.                                                               *)

\* Argument number i starts at e, or the coin data behind the last.
ArgAt(e, i) == IF i < Len(shape.args) THEN Starts(shape, e, "D_LEN", i, 0)
               ELSE Starts(shape, e, "COD", 0, 0)

LEMMA ArgMoves ==
  ASSUME TypeInv, UNCHANGED <<shape, given, more, phase>>,
         NEW CONSTANT e \in Nat \ {0}, Holds(p'.buf, 0, 0, e - 1, given),
         ArgAt(e, p'.arg), p'.args = Len(shape.args), p'.type = shape.type,
         p'.pc = IF p'.arg < p'.args THEN "D_LEN" ELSE "COD"
  PROVE  Moves(e)
<1>1. Nth' = 0 /\ Index' = IF p'.pc = "D_LEN" THEN p'.arg ELSE 0
  BY DEF Nth, Index
<1>2. StandsAt(e)'
  BY <1>1 DEF StandsAt, ArgAt
<1>3. Aware' /\ p'.pc # "D_VALUE_V"
  BY DEF Aware, InputLabels, OutputLabels
<1> QED
  BY <1>2, <1>3, ComesTo DEF Moves

LEMMA ArgCountMoves ==
  ASSUME TypeInv, NEW CONSTANT st, Standing(st), ArgCount
  PROVE  \E e \in Nat : Moves(e)
<1>1. /\ Stay /\ Enough /\ p.pc = "CC_TDAL" /\ p'.buf = After(Need) /\ p'.type = p.type
      /\ p'.pc = IF HeadValue = 0 THEN "COD" ELSE "D_LEN"
      /\ p'.args = HeadValue /\ p'.arg = 0
  BY ArgCountEffect
<1>2. Holds(After(Need), 0, 0, Past(st) - 1, given) /\ HeadValue = Val(st)
  BY <1>1, ShortFieldRead DEF VarLabel, Listed
<1>3. p.pc # "END" /\ StandsAt(st) /\ p.type = shape.type
  BY <1>1 DEF Standing, Aware
<1>4. PICK e \in Nat \ {0} : e = Past(st)
  BY <1>3, Extents
<1>5. /\ FieldAt(st).label = "CC_TDAL" /\ Val(st) = Len(shape.args) /\ Val(st) \in Nat
      /\ Follows(shape, FieldAt(st), e)
  BY <1>1, <1>3, <1>4, FieldFacts, Extents DEF Says
<1>6. ArgAt(e, 0)
  BY <1>5 DEF Follows, ArgAt
<1>7. p'.pc = IF p'.arg < p'.args THEN "D_LEN" ELSE "COD"
  BY <1>1, <1>2, <1>5
<1> QED
  BY <1>1, <1>2, <1>3, <1>4, <1>5, <1>6, <1>7, ArgMoves DEF Stay

LEMMA ValueCountMoves ==
  ASSUME TypeInv, NEW CONSTANT st, Standing(st), ValueCount, phase' = phase
  PROVE  phase = "failed" \/ \E e \in Nat : Moves(e)
<1>1. /\ UNCHANGED <<shape, given, more, phase>> /\ Enough /\ p.pc = "D_LEN"
      /\ p'.buf = After(Need) /\ p'.type = p.type /\ p'.args = p.args
      /\ p'.method = p.method /\ p'.values = HeadValue /\ p'.value = 0
      /\ IF p.method \in Kept /\ HeadValue # 1 THEN phase' = "failed"
         ELSE IF HeadValue = 0
              THEN /\ p'.arg = p.arg + 1
                   /\ p'.pc = IF p.arg + 1 < p.args THEN "D_LEN" ELSE "COD"
              ELSE p'.arg = p.arg /\ p'.pc = "D_VALUE"
  BY ValueCountEffect
<1>2. Holds(After(Need), 0, 0, Past(st) - 1, given) /\ HeadValue = Val(st)
  BY <1>1, ShortFieldRead DEF VarLabel, Listed
<1>3. p.pc # "END" /\ StandsAt(st) /\ p.type = shape.type /\ p.args = Len(shape.args)
  BY <1>1 DEF Standing, Aware
<1>4. PICK e \in Nat \ {0} : e = Past(st)
  BY <1>3, Extents
<1>5. /\ FieldAt(st).label = "D_LEN" /\ FieldAt(st).i = p.arg /\ FieldAt(st).val = Val(st)
      /\ Val(st) = Len(shape.args[p.arg + 1])
      /\ Follows(shape, FieldAt(st), e)
  <2>1. /\ FieldAt(st).label = "D_LEN" /\ FieldAt(st).i = p.arg
        /\ Says(shape, FieldAt(st)) /\ Follows(shape, FieldAt(st), e)
    BY <1>1, <1>3, <1>4, FieldFacts DEF Index
  <2>2. FieldAt(st).val = Val(st)
    BY <1>3, Extents
  <2>3. FieldAt(st).val = Len(shape.args[p.arg + 1])
    BY <2>1 DEF Says
  <2> QED
    BY <2>1, <2>2, <2>3
<1>6. CASE p.method \in Kept /\ HeadValue # 1
  BY <1>1, <1>6
<1>7. CASE ~(p.method \in Kept /\ HeadValue # 1) /\ HeadValue = 0
  <2>1. ArgAt(e, p.arg + 1)
    BY <1>2, <1>5, <1>7 DEF Follows, ArgAt
  <2> QED
    BY <2>1, <1>1, <1>2, <1>3, <1>4, <1>7, ArgMoves
<1>8. CASE ~(p.method \in Kept /\ HeadValue # 1) /\ HeadValue # 0
  <2>1. Starts(shape, e, "D_VALUE", p.arg, 0)
    BY <1>2, <1>5, <1>8 DEF Follows
  <2>2. Index' = p.arg /\ Nth' = 0 /\ p'.pc = "D_VALUE" /\ p'.arg = p.arg
    BY <1>1, <1>8 DEF Index, Nth
  <2>3. StandsAt(e)'
    BY <2>1, <2>2, <1>1 DEF StandsAt
  <2>4. Aware'
    BY <2>2, <1>1, <1>2, <1>3, <1>5, <1>8 DEF Aware, InputLabels, OutputLabels
  <2>5. Standing(e)'
    BY <2>2, <2>3, <2>4, <1>1, <1>2, <1>4, ComesTo
  <2> QED
    BY <2>5, <1>1 DEF Moves
<1> QED
  BY <1>6, <1>7, <1>8

LEMMA ElementLengthMoves ==
  ASSUME TypeInv, NEW CONSTANT st, Standing(st), ElementLength, phase' = phase
  PROVE  phase = "failed" \/ Moves(st)
<1> SUFFICES ASSUME phase # "failed" PROVE Moves(st)
  OBVIOUS
<1>1. /\ UNCHANGED <<shape, given, more>> /\ Enough /\ p.pc = "D_VALUE" /\ ~Listed
      /\ p'.buf = After(Need) /\ p'.type = p.type /\ p'.element = HeadValue
      /\ p'.pc = "D_VALUE_V" /\ p'.method = p.method
      /\ p'.args = p.args /\ p'.arg = p.arg /\ p'.values = p.values /\ p'.value = p.value
  BY ElementLengthEffect
<1>2. /\ HeadValue = Val(st)
      /\ Holds(After(Need), 0, 0, st - 1 + VarintWidth(Val(st)), given)
  BY <1>1, LengthRead
<1>3. Val(st)' = Val(st) /\ VarintWidth(Val(st))' = VarintWidth(Val(st))
  BY <1>1 DEF Val, VarintWidth, Scale
<1>4. AtBody(st)'
  BY <1>1, <1>2, <1>3 DEF AtBody
<1>5. StandsAt(st)'
  BY <1>1 DEF Standing, StandsAt, Index, Nth
<1>6. Aware'
  <2>1. p.method \in Kept
    BY <1>1 DEF Listed
  <2> QED
    BY <2>1, <1>1 DEF Aware, Standing, InputLabels, OutputLabels
<1> QED
  BY <1>1, <1>4, <1>5, <1>6 DEF Moves, Standing

LEMMA ElementMoves ==
  ASSUME TypeInv, NEW CONSTANT st, Standing(st), Element
  PROVE  \E e \in Nat : Moves(e)
<1>1. /\ Stay /\ Enough /\ p.pc = "D_VALUE_V" /\ p'.buf = After(Need)
      /\ p'.type = p.type /\ p'.args = p.args /\ p'.arg = p.arg + 1
      /\ p'.pc = IF p.arg + 1 < p.args THEN "D_LEN" ELSE "COD"
  BY ElementEffect
<1>2. Holds(After(Need), 0, 0, Past(st) - 1, given)
  BY <1>1, ElementRead
<1>3. /\ p.pc # "END" /\ StandsAt(st) /\ p.type = shape.type /\ p.args = Len(shape.args)
      /\ Len(shape.args[p.arg + 1]) = 1
  BY <1>1 DEF Standing, Aware
<1>4. PICK e \in Nat \ {0} : e = Past(st)
  BY <1>3, Extents
<1>5. /\ FieldAt(st).label = "D_VALUE" /\ FieldAt(st).i = p.arg
      /\ FieldAt(st).j \in Nat /\ FieldAt(st).j < Len(shape.args[p.arg + 1])
      /\ Follows(shape, FieldAt(st), e)
  BY SMTT(30), <1>1, <1>3, <1>4, FieldFacts DEF Says, Index, ByteType
<1>6. ArgAt(e, p.arg + 1)
  <2>1. ~(FieldAt(st).j + 1 < Len(shape.args[p.arg + 1]))
    BY <1>3, <1>5
  <2> QED
    BY <2>1, <1>5 DEF Follows, ArgAt
<1> QED
  BY <1>1, <1>2, <1>3, <1>4, <1>6, ArgMoves DEF Stay

LEMMA SkipValueMoves ==
  ASSUME TypeInv, NEW CONSTANT st, Standing(st), SkipValue
  PROVE  \E e \in Nat : Moves(e)
<1>1. /\ Stay /\ Enough /\ VarLabel /\ Whole /\ p.pc = "D_VALUE" /\ Listed
      /\ p'.buf = After(Need + HeadValue) /\ p'.type = p.type
      /\ p'.value = p.value + 1 /\ p'.values = p.values
      /\ p'.args = p.args /\ p'.method = p.method
      /\ IF p.value + 1 < p.values
         THEN p'.arg = p.arg /\ p'.pc = "D_VALUE"
         ELSE /\ p'.arg = p.arg + 1
              /\ p'.pc = IF p.arg + 1 < p.args THEN "D_LEN" ELSE "COD"
  BY SkipValueEffect
<1>2. Holds(After(Need + HeadValue), 0, 0, Past(st) - 1, given)
  BY <1>1, VarFieldRead
<1>3. /\ p.pc # "END" /\ StandsAt(st) /\ Aware /\ p.type = shape.type
      /\ p.args = Len(shape.args) /\ p.values = Len(shape.args[p.arg + 1])
  BY <1>1 DEF Standing, Aware
<1>4. PICK e \in Nat \ {0} : e = Past(st)
  BY <1>3, Extents
<1>5. /\ FieldAt(st).label = "D_VALUE" /\ FieldAt(st).i = p.arg
      /\ FieldAt(st).j = p.value /\ Follows(shape, FieldAt(st), e)
  BY <1>1, <1>3, <1>4, FieldFacts DEF Index, Nth
<1>6. CASE p.value + 1 < p.values
  <2>1. Starts(shape, e, "D_VALUE", p.arg, p.value + 1)
    BY <1>3, <1>5, <1>6 DEF Follows
  <2>2. Index' = p.arg /\ Nth' = p.value + 1 /\ p'.pc = "D_VALUE" /\ p'.arg = p.arg
    BY <1>1, <1>6 DEF Index, Nth
  <2>3. StandsAt(e)'
    BY <2>1, <2>2, <1>1 DEF StandsAt, Stay
  <2>4. Aware'
    BY <2>2, <1>1, <1>3 DEF Aware, InputLabels, OutputLabels, Stay
  <2>5. Standing(e)'
    BY <2>2, <2>3, <2>4, <1>1, <1>2, <1>4, ComesTo DEF Stay
  <2> QED
    BY <2>5, <1>1 DEF Moves, Stay
<1>7. CASE ~(p.value + 1 < p.values)
  <2>1. ArgAt(e, p.arg + 1)
    BY <1>3, <1>5, <1>7 DEF Follows, ArgAt
  <2> QED
    BY <2>1, <1>1, <1>2, <1>3, <1>4, <1>7, ArgMoves DEF Stay
<1> QED
  BY <1>6, <1>7

---------------------------------------------------------------------------
(* Coins.                                                                   *)

LEMMA InputMoves ==
  ASSUME TypeInv, UNCHANGED <<shape, given, more, phase>>,
         NEW CONSTANT e \in Nat \ {0}, Holds(p'.buf, 0, 0, e - 1, given),
         IF p'.array < Len(shape.from) THEN Starts(shape, e, "FROM_ADDRESS", p'.array, 0)
         ELSE Starts(shape, e, "TO", 0, 0),
         p'.froms = Len(shape.from), p'.type = shape.type,
         p'.pc = IF p'.array < p'.froms THEN "FROM_ADDRESS" ELSE "TO"
  PROVE  Moves(e)
<1>1. Nth' = 0 /\ Index' = IF p'.pc = "TO" THEN 0 ELSE p'.array
  BY DEF Nth, Index
<1>2. StandsAt(e)'
  BY <1>1 DEF StandsAt
<1>3. Aware' /\ p'.pc # "D_VALUE_V"
  BY DEF Aware, InputLabels, OutputLabels
<1> QED
  BY <1>2, <1>3, ComesTo DEF Moves

LEMMA FromCountMoves ==
  ASSUME TypeInv, NEW CONSTANT st, Standing(st), FromCount
  PROVE  \E e \in Nat : Moves(e)
<1>1. /\ Stay /\ Enough /\ p.pc = "FROM" /\ p'.buf = After(Need) /\ p'.type = p.type
      /\ p'.pc = IF HeadValue = 0 THEN "TO" ELSE "FROM_ADDRESS"
      /\ p'.froms = HeadValue /\ p'.array = 0
  BY FromCountEffect
<1>2. Holds(After(Need), 0, 0, Past(st) - 1, given) /\ HeadValue = Val(st)
  BY <1>1, ShortFieldRead DEF VarLabel, Listed
<1>3. p.pc # "END" /\ StandsAt(st) /\ p.type = shape.type
  BY <1>1 DEF Standing, Aware
<1>4. PICK e \in Nat \ {0} : e = Past(st)
  BY <1>3, Extents
<1>5. /\ FieldAt(st).label = "FROM" /\ Val(st) = Len(shape.from) /\ Val(st) \in Nat
      /\ Follows(shape, FieldAt(st), e)
  BY <1>1, <1>3, <1>4, FieldFacts, Extents DEF Says
<1>6. IF 0 < Len(shape.from) THEN Starts(shape, e, "FROM_ADDRESS", 0, 0)
      ELSE Starts(shape, e, "TO", 0, 0)
  BY <1>5 DEF Follows
<1>7. p'.pc = IF p'.array < p'.froms THEN "FROM_ADDRESS" ELSE "TO"
  BY <1>1, <1>2, <1>5
<1> QED
  BY <1>1, <1>2, <1>3, <1>4, <1>5, <1>6, <1>7, InputMoves DEF Stay

LEMMA EndFromMoves ==
  ASSUME TypeInv, NEW CONSTANT st, Standing(st), EndFrom
  PROVE  \E e \in Nat : Moves(e)
<1>1. /\ Stay /\ Enough /\ p.pc = "FROM_LOCKED" /\ p'.buf = After(Need)
      /\ p'.type = p.type /\ p'.array = p.array + 1 /\ p'.froms = p.froms
      /\ p'.pc = IF p.array + 1 < p.froms THEN "FROM_ADDRESS" ELSE "TO"
  BY EndFromEffect
<1>2. Holds(After(Need), 0, 0, Past(st) - 1, given)
  BY <1>1, ShortFieldRead DEF VarLabel, Listed
<1>3. p.pc # "END" /\ StandsAt(st) /\ p.type = shape.type /\ p.froms = Len(shape.from)
  BY <1>1 DEF Standing, Aware, InputLabels
<1>4. PICK e \in Nat \ {0} : e = Past(st)
  BY <1>3, Extents
<1>5. /\ FieldAt(st).label = "FROM_LOCKED" /\ FieldAt(st).i = p.array
      /\ Follows(shape, FieldAt(st), e)
  BY <1>1, <1>3, <1>4, FieldFacts DEF Index
<1>6. IF p.array + 1 < Len(shape.from)
      THEN Starts(shape, e, "FROM_ADDRESS", p.array + 1, 0)
      ELSE Starts(shape, e, "TO", 0, 0)
  BY <1>5 DEF Follows
<1> QED
  BY <1>1, <1>2, <1>3, <1>4, <1>6, InputMoves DEF Stay

\* The next output, or the end; the number of outputs is capped there.
LEMMA OutputMoves ==
  ASSUME TypeInv, UNCHANGED <<shape, given, more, phase>>,
         NEW CONSTANT e \in Nat \ {0}, Holds(p'.buf, 0, 0, e - 1, given),
         IF p'.array < Len(shape.to) THEN Starts(shape, e, "TO_ADDRESS", p'.array, 0)
         ELSE Starts(shape, e, "END", 0, 0),
         p'.type = shape.type, p'.array < Len(shape.to) => p'.tos = Len(shape.to),
         p'.pc = IF p'.array < Len(shape.to) THEN "TO_ADDRESS" ELSE "END"
  PROVE  Moves(e)
<1>1. Nth' = 0 /\ Index' = IF p'.pc = "END" THEN 0 ELSE p'.array
  BY DEF Nth, Index
<1>2. StandsAt(e)'
  BY <1>1 DEF StandsAt
<1>3. Aware' /\ p'.pc # "D_VALUE_V"
  BY DEF Aware, InputLabels, OutputLabels
<1> QED
  BY <1>2, <1>3, ComesTo DEF Moves

LEMMA ToCountMoves ==
  ASSUME TypeInv, NEW CONSTANT st, Standing(st), ToCount
  PROVE  \E e \in Nat : Moves(e)
<1>1. /\ Stay /\ Enough /\ p.pc = "TO" /\ p'.buf = After(Need) /\ p'.type = p.type
      /\ p'.pc = IF HeadValue = 0 THEN "END" ELSE "TO_ADDRESS"
      /\ p'.tos = HeadValue /\ p'.array = 0
  BY ToCountEffect
<1>2. Holds(After(Need), 0, 0, Past(st) - 1, given) /\ HeadValue = Val(st)
  BY <1>1, ShortFieldRead DEF VarLabel, Listed
<1>3. p.pc # "END" /\ StandsAt(st) /\ p.type = shape.type
  BY <1>1 DEF Standing, Aware
<1>4. PICK e \in Nat \ {0} : e = Past(st)
  BY <1>3, Extents
<1>5. /\ FieldAt(st).label = "TO" /\ Val(st) = Len(shape.to) /\ Val(st) \in Nat
      /\ Follows(shape, FieldAt(st), e)
  BY <1>1, <1>3, <1>4, FieldFacts, Extents DEF Says
<1>6. IF 0 < Len(shape.to) THEN Starts(shape, e, "TO_ADDRESS", 0, 0)
      ELSE Starts(shape, e, "END", 0, 0)
  BY <1>5 DEF Follows
<1>7. p'.pc = IF p'.array < Len(shape.to) THEN "TO_ADDRESS" ELSE "END"
  BY <1>1, <1>2, <1>5
<1> QED
  BY <1>1, <1>2, <1>3, <1>4, <1>5, <1>6, <1>7, OutputMoves DEF Stay

LEMMA EndToMoves ==
  ASSUME TypeInv, NEW CONSTANT st, Standing(st), EndTo
  PROVE  \E e \in Nat : Moves(e)
<1>1. /\ Stay /\ Enough /\ p.pc = "TO_LOCKTIME" /\ p'.buf = After(Need)
      /\ p'.type = p.type /\ p'.array = p.array + 1
      /\ p'.pc = IF p.array + 1 >= p.tos THEN "END" ELSE "TO_ADDRESS"
      /\ p'.tos = IF p.array + 1 >= p.tos /\ p.tos > MaxCoin THEN MaxCoin ELSE p.tos
  BY EndToEffect
<1>2. Holds(After(Need), 0, 0, Past(st) - 1, given)
  BY <1>1, ShortFieldRead DEF VarLabel, Listed
<1>3. p.pc # "END" /\ StandsAt(st) /\ p.type = shape.type /\ p.tos = Len(shape.to)
  BY <1>1 DEF Standing, Aware, OutputLabels
<1>4. PICK e \in Nat \ {0} : e = Past(st)
  BY <1>3, Extents
<1>5. /\ FieldAt(st).label = "TO_LOCKTIME" /\ FieldAt(st).i = p.array
      /\ Follows(shape, FieldAt(st), e)
  BY <1>1, <1>3, <1>4, FieldFacts DEF Index
<1>6. IF p.array + 1 < Len(shape.to)
      THEN Starts(shape, e, "TO_ADDRESS", p.array + 1, 0)
      ELSE Starts(shape, e, "END", 0, 0)
  BY <1>5 DEF Follows
<1>7. p.array \in Nat /\ p.tos \in Nat
  BY DEF TypeInv, ParserType
<1>8. /\ p'.pc = IF p'.array < Len(shape.to) THEN "TO_ADDRESS" ELSE "END"
      /\ p'.array < Len(shape.to) => p'.tos = Len(shape.to)
  BY <1>1, <1>3, <1>7
<1> QED
  BY <1>1, <1>2, <1>3, <1>4, <1>6, <1>8, OutputMoves DEF Stay
---------------------------------------------------------------------------
(* The ends of a chunk, and the beginning of the next.                      *)

\* The parser stands where it stood.
LEMMA StandsStill ==
  ASSUME NEW CONSTANT st, Standing(st), UNCHANGED <<shape, given>>, p'.buf = p.buf,
         p'.pc = p.pc, p'.type = p.type, SameCall, SameCoins
  PROVE  Standing(st)'
<1>1. StandsAt(st)' /\ Aware'
  BY DEF Standing, StandsAt, Aware, Index, Nth, SameCall, SameCoins
<1>2. /\ Val(st)' = Val(st) /\ \A n : VarintWidth(n)' = VarintWidth(n)
      /\ VarLabel' = VarLabel
  BY DEF Val, VarintWidth, Scale, VarLabel, Listed, SameCall
<1>3. Uncut(st)' = Uncut(st) /\ AtBody(st)' = AtBody(st) /\ \A n : Cut(st, n)' = Cut(st, n)
  BY <1>2 DEF Uncut, AtBody, Cut, SameCall
<1> QED
  BY <1>1, <1>3 DEF Standing

\* What is missing of a field that is cut has not been given yet.
LEMMA LackIsRest ==
  ASSUME TypeInv, NEW st, Standing(st), VarLabel, Enough, ~Whole
  PROVE  /\ Lack \in 1 .. Val(st)
         /\ given = st - 1 + VarintWidth(Val(st)) + Val(st) - Lack
<1>2. /\ p.pc # "END" /\ p.pc # "D_VALUE_V" /\ StandsAt(st) /\ Aware /\ st \in Nat \ {0}
      /\ given \in Nat
  BY DEF Enough, Standing, VarLabel, Listed, TypeInv
<1>3. /\ HeadValue \in Nat /\ Need = VarintWidth(HeadValue) /\ Avail = Len(p.buf) - Need
      /\ Lack \in 1 .. HeadValue /\ Lack = HeadValue - Avail
      /\ Need \in 1 .. Len(p.buf) /\ Len(p.buf) \in Nat /\ p.buf # <<>>
  <2>1. Len(p.buf) \in Nat
    BY DEF TypeInv, ParserType
  <2>2. p.buf # <<>>
    BY <1>2, Needs
  <2> QED
    BY <2>1, <2>2, LackFits
<1>4. Val(st) \in Nat /\ VarintWidth(Val(st)) \in {1, 3}
  BY <1>2, Extents
<1>5. CASE Uncut(st)
  <2>1. HeadValue = Val(st)
    BY <1>5, <1>2, <1>3, FirstByte
  <2>2. Len(p.buf) = 0 + given - (st - 1)
    BY <1>5 DEF Uncut, Holds
  <2> QED
    BY SMTT(30), <2>1, <2>2, <1>2, <1>3, <1>4
<1>6. ASSUME NEW n \in Nat, Cut(st, n)
      PROVE  /\ Lack \in 1 .. Val(st)
             /\ given = st - 1 + VarintWidth(Val(st)) + Val(st) - Lack
  <2> DEFINE at == st - 1 + VarintWidth(Val(st)) + Val(st) - n
  <2>1. HeadValue = n /\ n \in 1 .. Val(st)
    BY <1>6, <1>2, <1>3, FirstByte DEF Cut
  <2>2. Need = VarintWidth(n) /\ Need \in Nat
    BY <2>1, <1>3
  <2>3. Len(p.buf) = Need + given - at /\ at \in Nat
    BY <1>6, <2>2 DEF Cut, Holds
  <2>4. Lack = at - given + n
    <3> HIDE DEF at
    <3> QED
      BY <2>1, <2>2, <2>3, <1>2, <1>3
  <2>5. at + n = st - 1 + VarintWidth(Val(st)) + Val(st)
    BY <2>1, <1>2, <1>4
  <2>6. given = st - 1 + VarintWidth(Val(st)) + Val(st) - Lack
    <3> DEFINE end == st - 1 + VarintWidth(Val(st)) + Val(st)
    <3>1. end \in Int
      BY <1>2, <1>4
    <3> HIDE DEF at, end
    <3>2. given = end - Lack
      BY <2>1, <2>3, <2>4, <2>5, <1>2, <3>1 DEF end
    <3>3. Lack \in Int
      BY <1>3
    <3> QED
      BY <3>2, <3>3, <1>2, <1>4 DEF end
  <2>7. Lack \in 1 .. Val(st)
    BY <2>1, <1>3, <1>4
  <2> QED
    BY <2>6, <2>7
<1> QED
  BY <1>5, <1>6, <1>2 DEF Standing, AtBody

\* A field that is not there as a whole is cut, or cut again, where the chunk
\* ends.
LEMMA CutAgain ==
  ASSUME TypeInv, NEW CONSTANT st, Standing(st), ValueError, more
  PROVE  Standing(st)'
<1>1. /\ UNCHANGED <<shape, given, more>> /\ VarLabel /\ Enough /\ ~Whole
      /\ p'.buf = LackVarint(Lack) /\ p'.pc = p.pc /\ p'.type = p.type
      /\ SameCall /\ SameCoins
  BY ValueErrorEffect
<1>2. /\ p.pc # "END" /\ p.pc # "D_VALUE_V" /\ StandsAt(st) /\ Aware /\ st \in Nat \ {0}
      /\ given \in Nat
  BY <1>1 DEF Enough, Standing, VarLabel, Listed, TypeInv
<1>3. /\ HeadValue \in Nat /\ Need = VarintWidth(HeadValue) /\ Avail = Len(p.buf) - Need
      /\ Lack \in 1 .. HeadValue /\ Lack = HeadValue - Avail
      /\ Need \in 1 .. Len(p.buf) /\ Len(p.buf) \in Nat
      /\ VarintWidth(Lack) \in {1, 3} /\ p.buf # <<>>
  <2>1. Len(p.buf) \in Nat
    BY DEF TypeInv, ParserType
  <2>2. p.buf # <<>>
    BY <1>1, <1>2, Needs
  <2> QED
    BY <1>1, <2>1, <2>2, LackFits
<1>4. Val(st) \in Nat /\ VarintWidth(Val(st)) \in {1, 3}
  BY <1>2, Extents
<1>5. /\ Lack \in 1 .. Val(st)
      /\ given = st - 1 + VarintWidth(Val(st)) + Val(st) - Lack
  BY <1>1, LackIsRest
<1>6. Holds(LackVarint(Lack), VarintWidth(Lack), Lack, given, given)
  BY <1>2, <1>3, NothingBehind
<1>7. PICK n \in Nat : n = Lack
  BY <1>3
<1>8. Cut(st, n)'
  <2>1. /\ Val(st)' = Val(st) /\ VarintWidth(n)' = VarintWidth(n)
        /\ VarintWidth(Val(st))' = VarintWidth(Val(st)) /\ VarLabel'
    BY <1>1 DEF Val, VarintWidth, Scale, VarLabel, Listed, SameCall
  <2>2. Holds(p'.buf, VarintWidth(n), n,
              st - 1 + VarintWidth(Val(st)) + Val(st) - n, given)
    BY <1>1, <1>5, <1>6, <1>7
  <2> QED
    BY <2>1, <2>2, <1>1, <1>5, <1>7 DEF Cut
<1>9. StandsAt(st)' /\ Aware'
  BY <1>1, <1>2 DEF StandsAt, Aware, Index, Nth, SameCall, SameCoins
<1> QED
  BY <1>2, <1>8, <1>9 DEF Standing

LEMMA AbsorbMoves ==
  ASSUME TypeInv, NEW CONSTANT st, Standing(st), NEW n \in Nat, NEW m \in BOOLEAN,
         Absorb(n, m), phase' = "parsing"
  PROVE  Standing(st)'
<1>1. /\ shape' = shape /\ given' = given + n /\ p'.buf = p.buf \o Chunk(n)
      /\ p'.pc = p.pc /\ p'.type = p.type /\ SameCall /\ SameCoins
  BY AbsorbEffect
<1>2. p.buf \in Seq(Int) /\ given \in Nat /\ shape \in Shapes
  BY DEF TypeInv, ParserType
<1>3. StandsAt(st)' /\ Aware' /\ st \in Nat \ {0}
  BY <1>1 DEF Standing, StandsAt, Aware, Index, Nth, SameCall, SameCoins
<1>4. /\ Val(st)' = Val(st) /\ \A k : VarintWidth(k)' = VarintWidth(k)
      /\ VarLabel' = VarLabel
  BY <1>1 DEF Val, VarintWidth, Scale, VarLabel, Listed, SameCall
<1>5. ASSUME NEW h \in Nat, NEW k \in Nat, NEW at \in Nat, Holds(p.buf, h, k, at, given)
      PROVE  Holds(p'.buf, h, k, at, given')
  BY <1>1, <1>2, <1>5, AppendedTo
<1>6. CASE Uncut(st)
  <2>1. st - 1 \in Nat
    BY <1>3
  <2>2. Holds(p'.buf, 0, 0, st - 1, given')
    BY <2>1, <1>5, <1>6 DEF Uncut
  <2> QED
    BY <2>2, <1>1, <1>3, <1>6 DEF Standing, Uncut
<1>7. CASE AtBody(st)
  <2>1. st - 1 + VarintWidth(Val(st)) \in Nat
    BY <1>7 DEF AtBody, Holds
  <2>2. Holds(p'.buf, 0, 0, st - 1 + VarintWidth(Val(st)), given')
    BY <2>1, <1>5, <1>7 DEF AtBody
  <2>3. AtBody(st)'
    BY <2>2, <1>1, <1>4, <1>7 DEF AtBody, SameCall
  <2> QED
    BY <2>3, <1>3 DEF Standing
<1>8. ASSUME NEW CONSTANT k \in Nat, Cut(st, k)
      PROVE  Standing(st)'
  <2> DEFINE at == st - 1 + VarintWidth(Val(st)) + Val(st) - k
  <2>1. at \in Nat /\ Holds(p.buf, VarintWidth(k), k, at, given)
    BY <1>8 DEF Cut, Holds
  <2>2. VarintWidth(k) \in Nat
    BY <1>2, Widths
  <2>3. Holds(p'.buf, VarintWidth(k), k, at, given')
    <3> HIDE DEF at
    <3> QED
      BY <2>1, <2>2, <1>5
  <2>4. Cut(st, k)'
    BY <2>3, <1>4, <1>8 DEF Cut
  <2> QED
    BY <2>4, <1>3 DEF Standing
<1> QED
  BY <1>6, <1>7, <1>8 DEF Standing

\* A session starts at the first byte.
Begun == shape \in Shapes /\ given = 0 /\ p = Fresh(p.pool)
LEMMA StandsAtFirst == Begun => Standing(1)
<1> SUFFICES ASSUME Begun PROVE Standing(1)
  OBVIOUS
<1>1. p.pc = "TYP" /\ p.buf = <<>> /\ Index = 0 /\ Nth = 0 /\ shape \in Shapes /\ given = 0
  BY DEF Begun, Fresh, Index, Nth
<1>2. StandsAt(1)
  BY <1>1, LayoutAssumption DEF StandsAt
<1>3. Aware
  BY <1>1 DEF Aware, InputLabels, OutputLabels
<1>4. Holds(p.buf, 0, 0, 1 - 1, given)
  BY <1>1 DEF Holds
<1> QED
  BY <1>1, <1>2, <1>3, <1>4 DEF Standing, Uncut
---------------------------------------------------------------------------
(* The position is never lost.                                              *)

\* A step of the parser within a chunk: the label goes on to the next field,
\* stays, or the transaction is refused.
LEMMA ReadingMoves ==
  ASSUME TypeInv, NEW CONSTANT st, Standing(st), phase' = phase, phase = "parsing",
         \/ ReadType \/ SkipFixed \/ TxDataLength \/ CoinDataLength
         \/ SkipVar \/ CaptureFixed \/ CaptureVar
         \/ ArgCount \/ ValueCount \/ ElementLength \/ Element \/ SkipValue
         \/ FromCount \/ ToCount \/ Asset \/ Amount \/ EndFrom \/ EndTo
  PROVE  \E e \in Nat : Moves(e)
<1>1. CASE ReadType
  BY <1>1, ReadTypeMoves
<1>2. CASE SkipFixed
  BY <1>2, SkipFixedMoves
<1>3. CASE TxDataLength
  BY <1>3, TxDataLengthMoves
<1>4. CASE CoinDataLength
  BY <1>4, CoinDataLengthMoves
<1>5. CASE SkipVar
  BY <1>5, SkipVarMoves
<1>6. CASE CaptureFixed
  BY <1>6, CaptureFixedMoves
<1>7. CASE CaptureVar
  BY <1>7, CaptureVarMoves
<1>8. CASE ArgCount
  BY <1>8, ArgCountMoves
<1>9. CASE ValueCount
  BY <1>9, ValueCountMoves
<1>10. CASE ElementLength
  <2>1. Moves(st) /\ st \in Nat
    BY <1>10, ElementLengthMoves DEF Standing
  <2> QED
    BY <2>1
<1>11. CASE Element
  BY <1>11, ElementMoves
<1>12. CASE SkipValue
  BY <1>12, SkipValueMoves
<1>13. CASE FromCount
  BY <1>13, FromCountMoves
<1>14. CASE ToCount
  BY <1>14, ToCountMoves
<1>15. CASE Asset
  BY <1>15, AssetMoves
<1>16. CASE Amount
  BY <1>16, AmountMoves
<1>17. CASE EndFrom
  BY <1>17, EndFromMoves
<1>18. CASE EndTo
  BY <1>18, EndToMoves
<1> QED
  BY <1>1, <1>2, <1>3, <1>4, <1>5, <1>6, <1>7, <1>8, <1>9, <1>10, <1>11, <1>12,
     <1>13, <1>14, <1>15, <1>16, <1>17, <1>18

\* The end of a transaction is where all of it has been read.
LEMMA EndIsEnd ==
  ASSUME TypeInv, NEW st, Standing(st), p.pc = "END"
  PROVE  given >= Size(shape) /\ (p.buf = <<>> => given = Size(shape))
<1>1. st = Size(shape) + 1 /\ Size(shape) \in Nat /\ given \in Nat
  BY BytesRead DEF Standing, StandsAt, Starts, TypeInv
<1>2. Holds(p.buf, 0, 0, st - 1, given)
  BY DEF Standing, Uncut, AtBody, Cut, VarLabel, Listed
<1>3. st - 1 <= given /\ Len(p.buf) = 0 + given - (st - 1)
  BY <1>2 DEF Holds
<1>4. p.buf = <<>> => Len(p.buf) = 0
  OBVIOUS
<1> QED
  BY <1>1, <1>3, <1>4

LEMMA ParsingStands ==
  ASSUME PositionInv, Parse
  PROVE  phase = "parsing" /\ \E st \in Nat : Standing(st)
<1>1. phase = "parsing"
  BY DEF Parse, Reserve, ReadType, SkipFixed, TxDataLength, CoinDataLength, SkipVar,
         CaptureFixed, CaptureVar, ArgCount, ValueCount, ElementLength, Element,
         SkipValue, FromCount, ToCount, Asset, Amount, EndFrom, EndTo, LengthError,
         ValueError, Finish, Read, At, Parsing
<1> QED
  BY <1>1 DEF PositionInv

LEMMA PositionKept ==
  ASSUME TypeInv, PositionInv, Parse
  PROVE  PositionInv'
<1>1. phase = "parsing"
  BY ParsingStands
<1>2. PICK st \in Nat : Standing(st)
  BY ParsingStands
<1>3. CASE Reserve
  <2>1. \/ phase' = "failed"
        \/ /\ UNCHANGED <<shape, given>> /\ phase' = phase /\ p'.buf = p.buf
           /\ p'.pc = p.pc /\ p'.type = p.type /\ SameCall /\ SameCoins
    BY <1>3, ReserveEffect
  <2>2. phase' = "failed" \/ Standing(st)'
    BY <2>1, <1>2, StandsStill
  <2> QED
    BY <1>1, <2>1, <2>2 DEF PositionInv
<1>4. CASE LengthError
  <2>1. /\ UNCHANGED <<shape, given>> /\ phase' \in {"idle", "failed"} /\ p'.buf = p.buf
        /\ p'.pc = p.pc /\ p'.type = p.type /\ SameCall /\ SameCoins
    BY <1>4, LengthErrorEffect
  <2>2. Standing(st)'
    BY <2>1, <1>2, StandsStill
  <2> QED
    BY <2>1, <2>2 DEF PositionInv
<1>5. CASE ValueError
  <2>1. phase' = IF more THEN "idle" ELSE "failed"
    BY <1>5, ValueErrorEffect
  <2>2. more => Standing(st)'
    BY <1>2, <1>5, CutAgain
  <2> QED
    BY <2>1, <2>2 DEF PositionInv
<1>6. CASE Finish
  <2>1. /\ UNCHANGED <<shape, given, more, p>> /\ p.pc = "END"
        /\ phase' = IF p.buf = <<>> THEN "done" ELSE "failed"
    BY <1>6, FinishEffect
  <2>2. phase' = "done" => given = Size(shape)
    BY <2>1, <1>2, EndIsEnd
  <2>3. Aware' /\ Size(shape)' = Size(shape)
    BY <2>1, <1>2 DEF Standing, Aware, Size
  <2> QED
    BY <2>1, <2>2, <2>3 DEF PositionInv
<1>7. ASSUME \/ ReadType \/ SkipFixed \/ TxDataLength \/ CoinDataLength
             \/ SkipVar \/ CaptureFixed \/ CaptureVar
             \/ ArgCount \/ ValueCount \/ ElementLength \/ Element \/ SkipValue
             \/ FromCount \/ ToCount \/ Asset \/ Amount \/ EndFrom \/ EndTo
      PROVE  PositionInv'
  <2>1. phase' \in {phase, "failed"}
    BY <1>7, ValueCountEffect, ElementLengthEffect
    DEF ReadType, SkipFixed, TxDataLength, CoinDataLength, SkipVar, CaptureFixed,
        CaptureVar, ArgCount, Element, SkipValue, FromCount, ToCount, Asset, Amount,
        EndFrom, EndTo, Stay
  <2>2. phase' = phase => \E e \in Nat : Moves(e)
    BY <1>1, <1>2, <1>7, ReadingMoves
  <2> QED
    BY <1>1, <2>1, <2>2 DEF PositionInv, Moves
<1> QED
  BY <1>3, <1>4, <1>5, <1>6, <1>7 DEF Parse

LEMMA PositionStart == Init => PositionInv
<1> SUFFICES ASSUME Init PROVE PositionInv
  OBVIOUS
<1>1. Standing(1)
  BY StandsAtFirst DEF Init, Begun, Fresh
<1> QED
  BY <1>1 DEF Init, PositionInv

LEMMA PositionStep == TypeInv /\ PositionInv /\ [Next]_vars => PositionInv'
<1> SUFFICES ASSUME TypeInv, PositionInv, [Next]_vars PROVE PositionInv'
  OBVIOUS
<1>1. CASE Parse
  BY <1>1, PositionKept
<1>2. ASSUME NEW n \in Sizes, NEW m \in BOOLEAN, Absorb(n, m) PROVE PositionInv'
  <2>1. n \in Nat /\ phase = "idle" /\ phase' \in {"parsing", "failed"}
    BY <1>2, SizesAreNumbers, AbsorbEffect
  <2>2. PICK st \in Nat : Standing(st)
    BY <2>1 DEF PositionInv
  <2>3. phase' = "parsing" => Standing(st)'
    BY <1>2, <2>1, <2>2, AbsorbMoves
  <2> QED
    BY <2>1, <2>3 DEF PositionInv
<1>3. CASE NewSession
  <2>1. /\ shape' \in Shapes /\ given' = 0 /\ phase' = "idle" /\ p' = Fresh(p.pool)
    BY <1>3 DEF NewSession
  <2>2. Begun'
    BY <2>1 DEF Begun, Fresh
  <2>3. Standing(1)'
    BY <2>2, StandsAtFirst, PTL
  <2> QED
    BY <2>1, <2>3 DEF PositionInv
<1>4. CASE UNCHANGED vars
  <2>1. \A st : Standing(st)' = Standing(st)
    BY <1>4 DEF vars, Standing, StandsAt, Aware, Uncut, AtBody, Cut, Val, VarintWidth,
                Scale, VarLabel, Listed, Index, Nth
  <2> QED
    BY <1>4, <2>1 DEF vars, PositionInv, Aware, Size
<1> QED
  BY <1>1, <1>2, <1>3, <1>4 DEF Next

LEMMA HeadByte ==
  ASSUME TypeInv, NEW st, StandsAt(st), p.pc # "END",
         NEW k \in 1 .. HeadLen(shape, FieldAt(st))
  PROVE  Byte(st + k - 1) = [FieldAt(st) EXCEPT !.k = k]
<1>1. /\ st \in 1 .. Size(shape) /\ Size(shape) \in Nat /\ Consists(shape, st)
      /\ HeadLen(shape, FieldAt(st)) \in Nat /\ BodyLen(shape, FieldAt(st)) \in Nat
      /\ Past(st) = st + HeadLen(shape, FieldAt(st)) + BodyLen(shape, FieldAt(st))
      /\ Past(st) <= Size(shape) + 1
  BY FieldFacts, Extents
<1>2. st + k - 1 \in 1 .. Size(shape)
  BY <1>1
<1>3. Layout[shape][st + k - 1] = [FieldAt(st) EXCEPT !.k = k]
  BY <1>1 DEF Consists, FieldAt
<1> QED
  BY <1>2, <1>3 DEF Byte

LEMMA BodyByte ==
  ASSUME TypeInv, NEW st, StandsAt(st), p.pc # "END",
         NEW k \in 1 .. BodyLen(shape, FieldAt(st))
  PROVE  /\ Byte(st + HeadLen(shape, FieldAt(st)) + k - 1) = [FieldAt(st) EXCEPT !.k = -k]
         /\ Byte(st + HeadLen(shape, FieldAt(st)) + k - 1).k = -k
<1>1. /\ st \in 1 .. Size(shape) /\ Size(shape) \in Nat /\ Consists(shape, st)
      /\ HeadLen(shape, FieldAt(st)) \in Nat /\ BodyLen(shape, FieldAt(st)) \in Nat
      /\ Past(st) = st + HeadLen(shape, FieldAt(st)) + BodyLen(shape, FieldAt(st))
      /\ Past(st) <= Size(shape) + 1
  BY FieldFacts, Extents
<1>2. st + HeadLen(shape, FieldAt(st)) + k - 1 \in 1 .. Size(shape)
  BY <1>1
<1>3. Layout[shape][st + HeadLen(shape, FieldAt(st)) + k - 1] = [FieldAt(st) EXCEPT !.k = -k]
  BY <1>1 DEF Consists, FieldAt
<1>4. FieldAt(st) \in ByteType
  BY FieldFacts
<1> QED
  BY <1>2, <1>3, <1>4 DEF Byte, ByteType

\* The first byte of the body, or the first that was missing.
LEMMA FirstOfBody ==
  ASSUME TypeInv, NEW st, Standing(st), AtBody(st), p.element # 0, p.buf # <<>>
  PROVE  /\ p.buf[1] > 0 /\ Byte(p.buf[1]).label = "D_VALUE"
         /\ Byte(p.buf[1]).i = Index /\ Byte(p.buf[1]).k = -1
<1>1. /\ p.pc = "D_VALUE_V" /\ p.element = Val(st)
      /\ Holds(p.buf, 0, 0, st - 1 + VarintWidth(Val(st)), given)
  BY DEF AtBody
<1>2. /\ StandsAt(st) /\ st \in Nat \ {0} /\ p.pc # "END" /\ Aware
  BY <1>1 DEF Standing
<1>3. /\ FieldAt(st) \in ByteType /\ FieldAt(st).label = "D_VALUE" /\ FieldAt(st).i = Index
      /\ Val(st) \in Nat /\ VarintWidth(Val(st)) \in {1, 3}
      /\ HeadLen(shape, FieldAt(st)) = VarintWidth(Val(st))
      /\ BodyLen(shape, FieldAt(st)) = Val(st)
  BY <1>1, <1>2, FieldFacts, Extents, Extent DEF FixedLabels, CountLabel
<1>4. p.buf[1] = st - 1 + VarintWidth(Val(st)) + 1 - 0
  <2>1. 1 \in 1 .. Len(p.buf)
    BY DEF TypeInv, ParserType
  <2> QED
    BY <1>1, <2>1 DEF Holds
<1>5. PICK k \in 1 .. Val(st) : k = 1
  BY <1>1, <1>3
<1>6. p.buf[1] = st + HeadLen(shape, FieldAt(st)) + k - 1 /\ p.buf[1] > 0
  BY <1>2, <1>3, <1>4, <1>5
<1>7. Byte(p.buf[1]) = [FieldAt(st) EXCEPT !.k = -k]
  <2>1. k \in 1 .. BodyLen(shape, FieldAt(st))
    BY <1>3
  <2>2. Byte(st + HeadLen(shape, FieldAt(st)) + k - 1) = [FieldAt(st) EXCEPT !.k = -k]
    BY <2>1, <1>1, <1>2, BodyByte
  <2> QED
    BY <2>2, <1>6
<1> QED
  BY <1>3, <1>5, <1>6, <1>7 DEF ByteType

LEMMA FirstMissing ==
  ASSUME TypeInv, NEW st, Standing(st), NEW n \in Nat, Cut(st, n),
         VarintWidth(n) + 1 <= Len(p.buf)
  PROVE  LET b == Byte(p.buf[VarintWidth(n) + 1]) IN
         b.label = p.pc /\ b.i = Index /\ b.k = n - Val(st) - 1 /\ b.val = Val(st)
<1>1. /\ VarLabel /\ n \in 1 .. Val(st)
      /\ Holds(p.buf, VarintWidth(n), n,
               st - 1 + VarintWidth(Val(st)) + Val(st) - n, given)
  BY DEF Cut
<1>2. /\ StandsAt(st) /\ st \in Nat \ {0} /\ p.pc \notin {"END", "D_VALUE_V"} /\ Aware
  BY <1>1 DEF Standing, VarLabel, Listed
<1>3. /\ FieldAt(st) \in ByteType /\ FieldAt(st).label = p.pc /\ FieldAt(st).i = Index
      /\ Val(st) \in Nat /\ VarintWidth(Val(st)) \in {1, 3} /\ FieldAt(st).val = Val(st)
      /\ HeadLen(shape, FieldAt(st)) = VarintWidth(Val(st))
      /\ BodyLen(shape, FieldAt(st)) = Val(st)
  <2>1. p.pc \notin FixedLabels /\ ~CountLabel
    BY <1>1 DEF VarLabel, Listed, FixedLabels, CountLabel
  <2> QED
    BY <1>1, <1>2, <2>1, FieldFacts, Extents, Extent
<1>4. PICK j \in Nat : j = VarintWidth(n) + 1 /\ j \in 1 .. Len(p.buf) /\ j > VarintWidth(n)
  <2>1. VarintWidth(n) \in {1, 3} /\ Len(p.buf) \in Nat
    BY Widths DEF TypeInv, ParserType
  <2> QED
    BY <2>1
<1>5. p.buf[j] = st - 1 + VarintWidth(Val(st)) + Val(st) - n + j - VarintWidth(n)
  BY <1>1, <1>4 DEF Holds
<1>6. PICK k \in 1 .. Val(st) : k = Val(st) - n + 1
  BY <1>1, <1>3
<1>7. p.buf[j] = st + HeadLen(shape, FieldAt(st)) + k - 1
  <2>1. VarintWidth(n) \in {1, 3}
    BY Widths DEF TypeInv
  <2>2. p.buf[j] = st - 1 + VarintWidth(Val(st)) + Val(st) - n + 1
    BY <1>2, <1>3, <1>4, <1>5, <2>1
  <2> QED
    BY <1>2, <1>3, <1>6, <2>2
<1>8. Byte(p.buf[j]) = [FieldAt(st) EXCEPT !.k = -k]
  <2>1. k \in 1 .. BodyLen(shape, FieldAt(st))
    BY <1>3
  <2>2. Byte(st + HeadLen(shape, FieldAt(st)) + k - 1) = [FieldAt(st) EXCEPT !.k = -k]
    BY <2>1, <1>2, BodyByte
  <2> QED
    BY <2>2, <1>7
<1>9. /\ Byte(p.buf[j]).label = p.pc /\ Byte(p.buf[j]).i = Index
      /\ Byte(p.buf[j]).k = -k /\ Byte(p.buf[j]).val = Val(st)
  BY <1>3, <1>8 DEF ByteType
<1> QED
  BY <1>3, <1>4, <1>6, <1>9

LEMMA StandingIsAligned ==
  ASSUME TypeInv, PositionInv
  PROVE  Aligned
<1> SUFFICES ASSUME Parsing, p.buf # <<>>, p.pc # "END" PROVE Aligned
  BY DEF Aligned
<1>1. PICK st \in Nat : Standing(st)
  BY DEF PositionInv, Parsing
<1>2. Head(p.buf) = p.buf[1] /\ p.buf[1] \in Int /\ Len(p.buf) \in Nat /\ Len(p.buf) > 0
  BY SMTT(30) DEF TypeInv, ParserType
<1>3. CASE Uncut(st)
  <2>1. /\ p.buf[1] = st /\ p.pc # "D_VALUE_V" /\ st \in 1 .. Size(shape)
        /\ Size(shape) \in Nat /\ FieldAt(st).k = 1 /\ FieldAt(st).i = Index
        /\ FieldAt(st).label = p.pc
    BY <1>1, <1>3, FirstByte, FieldFacts DEF Uncut, Standing
  <2>2. Byte(p.buf[1]) = FieldAt(st) /\ ~(Head(p.buf) <= 0)
    BY <1>2, <2>1 DEF Byte, FieldAt
  <2> QED
    BY <2>1, <2>2 DEF Aligned
<1>4. CASE AtBody(st)
  <2>1. p.pc = "D_VALUE_V"
    BY <1>4 DEF AtBody
  <2>2. CASE p.element = 0
    BY <2>1, <2>2 DEF Aligned
  <2>3. CASE p.element # 0
    <3>1. /\ ~(Head(p.buf) <= 0) /\ Byte(p.buf[1]).label = "D_VALUE"
          /\ Byte(p.buf[1]).i = Index /\ Byte(p.buf[1]).k = -1
      BY <1>1, <1>2, <1>4, <2>3, FirstOfBody
    <3> QED
      BY <2>1, <3>1 DEF Aligned
  <2> QED
    BY <2>2, <2>3
<1>5. ASSUME NEW n \in Nat, Cut(st, n) PROVE Aligned
  <2>1. p.buf[1] = -n /\ HeadValue = n /\ n > 0 /\ p.pc # "D_VALUE_V"
    BY <1>1, <1>5, FirstByte DEF Cut, VarLabel, Listed
  <2>2. Head(p.buf) <= 0 /\ VarintWidth(n) \in {1, 3}
    BY <1>2, <2>1, Widths DEF TypeInv
  <2>3. CASE VarintWidth(n) + 1 > Len(p.buf)
    BY <2>1, <2>2, <2>3 DEF Aligned
  <2>4. CASE VarintWidth(n) + 1 <= Len(p.buf)
    <3> DEFINE b == Byte(p.buf[VarintWidth(n) + 1])
    <3>1. b.label = p.pc /\ b.i = Index /\ b.k = n - Val(st) - 1 /\ b.val = Val(st)
      BY <1>1, <1>5, <2>4, FirstMissing
    <3>2. b.val = (-b.k - 1) + n
      <4>1. Val(st) \in Nat
        BY <1>1, <1>5, <2>1, Extents DEF Standing, Cut, VarLabel, Listed
      <4> HIDE DEF b
      <4> QED
        BY <3>1, <4>1
    <3> QED
      BY <2>1, <2>2, <3>1, <3>2 DEF Aligned
  <2> QED
    BY <1>2, <2>2, <2>3, <2>4
<1> QED
  BY <1>1, <1>3, <1>4, <1>5 DEF Standing

\* However the transaction is cut into chunks, a label that reads bytes of it
\* reads its own field, from its first byte or from the first one that was
\* missing (the labels of transaction_deserialize, the lack that
\* handler_sign_tx writes before the next chunk).
THEOREM ParserAligned == Spec => []Aligned
<1>1. Init => TypeInv /\ PositionInv
  BY TypesStart, PositionStart
<1>2. TypeInv /\ PositionInv /\ [Next]_vars => (TypeInv /\ PositionInv)'
  BY TypesStep, PositionStep
<1>3. TypeInv /\ PositionInv => Aligned
  BY StandingIsAligned
<1> QED
  BY <1>1, <1>2, <1>3, PTL DEF Spec

---------------------------------------------------------------------------
(* The verdicts on the chunks.                                              *)

\* A chunk that ends within a field ends before the transaction does.
LEMMA CutBeforeEnd ==
  ASSUME TypeInv, NEW st, Standing(st), VarLabel, Enough, ~Whole
  PROVE  given < Size(shape)
<1>1. p.pc # "END" /\ StandsAt(st) /\ Aware /\ st \in Nat \ {0}
  BY DEF Enough, Standing
<1>2. /\ HeadLen(shape, FieldAt(st)) = VarintWidth(Val(st))
      /\ BodyLen(shape, FieldAt(st)) = Val(st)
  BY <1>1, Extent
  DEF VarLabel, Listed, FixedLabels, CountLabel
<1>3. /\ Past(st) = st + VarintWidth(Val(st)) + Val(st) /\ Past(st) <= Size(shape) + 1
      /\ Val(st) \in Nat /\ VarintWidth(Val(st)) \in {1, 3}
  BY <1>1, <1>2, Extents
<1>4. Size(shape) \in Nat /\ given \in Nat
  BY BytesRead DEF TypeInv
<1>5. /\ Lack \in 1 .. Val(st)
      /\ given = st - 1 + VarintWidth(Val(st)) + Val(st) - Lack
  BY LackIsRest
<1> HIDE DEF Past, Val, Lack
<1>6. PICK n \in 1 .. Val(st) : n = Lack
  BY <1>5
<1> QED
  BY <1>1, <1>3, <1>4, <1>5, <1>6

LEMMA ShortBeforeEnd ==
  ASSUME TypeInv, NEW st, Standing(st), p.pc # "END", Reserved, ~Enough
  PROVE  given < Size(shape)
<1>1. /\ StandsAt(st) /\ Aware /\ st \in Nat \ {0} /\ p.pc \in Labels
      /\ st \in 1 .. Size(shape) /\ Size(shape) \in Nat /\ given \in Nat
      /\ p.buf \in Seq(Int) /\ Len(p.buf) \in Nat
  BY FieldFacts DEF Standing, TypeInv, ParserType
<1>2. /\ HeadLen(shape, FieldAt(st)) \in Nat \ {0} /\ BodyLen(shape, FieldAt(st)) \in Nat
      /\ Past(st) = st + HeadLen(shape, FieldAt(st)) + BodyLen(shape, FieldAt(st))
      /\ Past(st) <= Size(shape) + 1
      /\ Val(st) \in Nat /\ VarintWidth(Val(st)) \in {1, 3}
  BY <1>1, Extents
<1>3. ~(Len(p.buf) >= Need)
  BY DEF Enough
<1>4. CASE Uncut(st)
  <2>1. p.pc # "D_VALUE_V" /\ Len(p.buf) = 0 + given - (st - 1)
    BY <1>4 DEF Uncut, Holds
  <2>2. CASE p.buf = <<>>
    BY <2>1, <2>2, <1>1
  <2>3. CASE p.buf # <<>>
    <3>1. HeadValue = Val(st)
      BY <2>3, <1>4, FirstByte
    <3>2. Need = HeadLen(shape, FieldAt(st))
      <4>1. CASE VarLabel \/ VarintLabel
        BY <4>1, <2>3, <3>1, <1>1, Extent
        DEF Need, HeadValue, VarLabel, VarintLabel, Listed, FixedLabels, CountLabel
      <4>2. CASE ~(VarLabel \/ VarintLabel) /\ CountLabel
        BY <4>2, <1>1, Extent DEF Need, CountLabel, FixedLabels
      <4>3. CASE ~(VarLabel \/ VarintLabel) /\ ~CountLabel
        <5>1. p.pc \in FixedLabels
          BY <4>3, <2>1, <1>1
          DEF Labels, CountLabels, CountLabel, VarLabels, VarLabel, VarintLabel, Listed
        <5> QED
          BY <4>3, <5>1, <2>1, <1>1, Extent DEF Need
      <4> QED
        BY <4>1, <4>2, <4>3
    <3> QED
      BY <3>2, <2>1, <1>1, <1>2, <1>3
  <2> QED
    BY <2>2, <2>3
<1>5. CASE AtBody(st)
  <2>1. /\ p.pc = "D_VALUE_V" /\ p.element = Val(st)
        /\ Len(p.buf) = 0 + given - (st - 1 + VarintWidth(Val(st)))
    BY <1>5 DEF AtBody, Holds
  <2>2. Need = Val(st)
    BY <2>1 DEF Need, VarLabel, VarintLabel, Listed, CountLabel
  <2>3. /\ HeadLen(shape, FieldAt(st)) = VarintWidth(Val(st))
        /\ BodyLen(shape, FieldAt(st)) = Val(st)
    BY <2>1, <1>1, Extent DEF FixedLabels, CountLabel
  <2> QED
    BY <2>1, <2>2, <2>3, <1>1, <1>2, <1>3
<1>6. ASSUME NEW n \in Nat, Cut(st, n) PROVE FALSE
  <2> DEFINE at == st - 1 + VarintWidth(Val(st)) + Val(st) - n
  <2>1. VarLabel /\ at <= given /\ Len(p.buf) = VarintWidth(n) + given - at /\ at \in Nat
    BY <1>6 DEF Cut, Holds
  <2>2. VarintWidth(n) \in {1, 3}
    BY Widths DEF TypeInv
  <2> HIDE DEF at
  <2>3. Len(p.buf) >= VarintWidth(n) /\ Len(p.buf) > 0
    BY <2>1, <2>2, <1>1
  <2>4. p.buf # <<>>
    BY <2>3
  <2>5. HeadValue = n
    BY <2>4, <1>6, FirstByte
  <2>6. Need = VarintWidth(n)
    BY <2>1, <2>4, <2>5 DEF Need, HeadValue
  <2> QED
    BY <2>3, <2>6, <1>3
<1> QED
  BY <1>4, <1>5, <1>6 DEF Standing

\* Memory that a step has not got: a pointer's in the pool, a value's in the
\* pool, a chunk's in raw_tx; and a transfer's argument that is not one value.
OutOfMemory ==
  \/ Parsing /\ ~Reserved /\ p.pool + RoomOf > PoolSize
  \/ Read("D_VALUE") /\ ~Listed /\ p.pool + HeadValue + 1 > PoolSize
  \/ phase = "idle" /\ \E n \in Sizes : given' = given + n /\ ~Fits(n)
BadArgument == Read("D_LEN") /\ p.method \in Kept /\ HeadValue # 1

Incomplete == ~more /\ given < Size(shape)
TooLong == given > Size(shape)
ForCause ==
  phase' = "failed" => \/ phase = "failed" \/ Incomplete \/ TooLong
                       \/ OutOfMemory \/ BadArgument

\* TxVerdict, when memory may be lacking anywhere.
NeverSure(s) == FALSE
Order == INSTANCE TxVerdict WITH Reviewable <- NeverSure

\* A step of the parser on its way through a chunk, or the verdict on it.
LEMMA ParsingConcludes ==
  ASSUME TypeInv, PositionInv, Parse
  PROVE  /\ UNCHANGED <<shape, given, more>> /\ phase = "parsing"
         /\ \/ phase' = "parsing" \/ phase' = "failed"
            \/ phase' = "idle" /\ more /\ given < Size(shape)
            \/ phase' = "done" /\ given = Size(shape)
         /\ ForCause
<1>1. phase = "parsing"
  BY ParsingStands
<1>2. PICK st \in Nat : Standing(st)
  BY ParsingStands
<1>3. more \in BOOLEAN /\ given \in Nat /\ Size(shape) \in Nat
  BY BytesRead DEF TypeInv
<1>4. CASE Reserve
  <2>1. UNCHANGED <<shape, given, more>> /\ phase' \in {phase, "failed"}
    BY <1>4, ReserveEffect
  <2>2. p.pool \in Nat /\ RoomOf \in Nat /\ PoolSize \in Nat
    BY <1>4, ReserveEffect, ScaleFacts DEF TypeInv, ParserType
  <2>3. phase' = "failed" => OutOfMemory
    BY <1>1, <1>4, <2>2 DEF Reserve, OutOfMemory, Stay
  <2> QED
    BY <1>1, <2>1, <2>3 DEF ForCause
<1>5. CASE LengthError
  <2>1. /\ UNCHANGED <<shape, given, more>> /\ p.pc # "END" /\ Reserved /\ ~Enough
        /\ phase' = IF more THEN "idle" ELSE "failed"
    BY <1>5, LengthErrorEffect
  <2>2. given < Size(shape)
    BY <1>2, <2>1, ShortBeforeEnd
  <2> QED
    BY <1>1, <1>3, <2>1, <2>2 DEF ForCause, Incomplete
<1>6. CASE ValueError
  <2>1. /\ UNCHANGED <<shape, given, more>> /\ VarLabel /\ Enough /\ ~Whole
        /\ phase' = IF more THEN "idle" ELSE "failed"
    BY <1>6, ValueErrorEffect
  <2>2. given < Size(shape)
    BY <1>2, <2>1, CutBeforeEnd
  <2> QED
    BY <1>1, <1>3, <2>1, <2>2 DEF ForCause, Incomplete
<1>7. CASE Finish
  <2>1. /\ UNCHANGED <<shape, given, more, p>> /\ p.pc = "END"
        /\ phase' = IF p.buf = <<>> THEN "done" ELSE "failed"
    BY <1>7, FinishEffect
  <2>2. p.buf = <<>> => given = Size(shape)
    BY <2>1, <1>2, EndIsEnd
  <2>3. p.buf # <<>> => given > Size(shape)
    <3>1. st = Size(shape) + 1 /\ Holds(p.buf, 0, 0, st - 1, given)
      BY <1>2, <2>1 DEF Standing, StandsAt, Starts, Uncut, AtBody, Cut, VarLabel, Listed
    <3>2. Len(p.buf) = 0 + given - (st - 1)
      BY <3>1 DEF Holds
    <3>3. p.buf \in Seq(Int)
      BY DEF TypeInv, ParserType
    <3>4. p.buf # <<>> => Len(p.buf) > 0
      BY <3>3
    <3> QED
      BY <3>1, <3>2, <3>4, <1>3
  <2> QED
    BY <1>1, <2>1, <2>2, <2>3 DEF ForCause, TooLong
<1>8. CASE ValueCount
  <2>1. UNCHANGED <<shape, given, more>> /\ phase' \in {phase, "failed"}
        /\ (phase' = "failed" => p.method \in Kept /\ HeadValue # 1)
    BY <1>1, <1>8, ValueCountEffect
  <2>2. Read("D_LEN")
    BY <1>8 DEF ValueCount
  <2> QED
    BY <1>1, <2>1, <2>2 DEF ForCause, BadArgument
<1>9. CASE ElementLength
  <2>1. UNCHANGED <<shape, given, more>> /\ phase' \in {phase, "failed"}
    BY <1>9, ElementLengthEffect
  <2>2. Read("D_VALUE") /\ ~Listed /\ HeadValue \in Nat
    BY <1>9, Needs DEF ElementLength, Read, At
  <2>3. p.pool \in Nat /\ PoolSize \in Nat
    BY ScaleFacts DEF TypeInv, ParserType
  <2>4. phase' = "failed" => p.pool + HeadValue + 1 > PoolSize
    BY <1>1, <1>9, <2>2, <2>3 DEF ElementLength, Stay
  <2> QED
    BY <1>1, <2>1, <2>2, <2>4 DEF ForCause, OutOfMemory
<1>10. CASE \/ ReadType \/ SkipFixed \/ TxDataLength \/ CoinDataLength
            \/ SkipVar \/ CaptureFixed \/ CaptureVar
            \/ ArgCount \/ Element \/ SkipValue
            \/ FromCount \/ ToCount \/ Asset \/ Amount \/ EndFrom \/ EndTo
  <2>1. Stay
    BY <1>10 DEF ReadType, SkipFixed, TxDataLength, CoinDataLength, SkipVar,
                 CaptureFixed, CaptureVar, ArgCount, Element, SkipValue, FromCount,
                 ToCount, Asset, Amount, EndFrom, EndTo
  <2> QED
    BY <1>1, <2>1 DEF Stay, ForCause
<1> QED
  BY <1>4, <1>5, <1>6, <1>7, <1>8, <1>9, <1>10 DEF Parse

LEMMA AbsorbingGives ==
  ASSUME TypeInv, NEW n \in Sizes, NEW m \in BOOLEAN, Absorb(n, m)
  PROVE  /\ phase = "idle" /\ shape' = shape /\ given' = given + n /\ more' = m
         /\ n \in Nat /\ phase' \in {"parsing", "failed"} /\ ForCause
<1>1. n \in Nat
  BY SizesAreNumbers
<1>2. /\ phase = "idle" /\ shape' = shape /\ given' = given + n /\ more' = m
      /\ \/ Fits(n) /\ phase' = "parsing" /\ p'.buf = p.buf \o Chunk(n)
         \/ ~Fits(n) /\ phase' = "failed" /\ p' = p
  BY <1>1, AbsorbEffect
<1> QED
  BY <1>1, <1>2 DEF ForCause, OutOfMemory

LEMMA OrderStep ==
  TypeInv /\ PositionInv /\ [Next]_vars => [Order!Next]_(Order!session)
<1> SUFFICES ASSUME TypeInv, PositionInv, [Next]_vars
             PROVE  Order!Next \/ UNCHANGED <<shape, given, more, phase>>
  BY DEF Order!session
<1>1. given \in Nat /\ Size(shape) \in Nat
  BY BytesRead DEF TypeInv
<1>2. CASE Parse
  <2>1. /\ UNCHANGED <<shape, given, more>> /\ phase = "parsing"
        /\ \/ phase' = "parsing" \/ phase' = "failed"
           \/ phase' = "idle" /\ more /\ given < Size(shape)
           \/ phase' = "done" /\ given = Size(shape)
    BY <1>2, ParsingConcludes
  <2>2. phase' = "failed" => Order!Refuse
    BY DEF Order!Refuse, Order!MayRefuse, NeverSure
  <2> QED
    BY <2>1, <2>2
    DEF Order!Next, Order!Conclude, Order!Accept, Order!AskForMore
<1>3. ASSUME NEW n \in Sizes, NEW m \in BOOLEAN, Absorb(n, m)
      PROVE  Order!Next
  <2>1. /\ phase = "idle" /\ shape' = shape /\ given' = given + n /\ more' = m
        /\ n \in Nat /\ phase' \in {"parsing", "failed"}
    BY <1>3, AbsorbingGives
  <2>2. given' \in Nat /\ given' >= given /\ more' \in BOOLEAN
    BY <2>1, <1>1
  <2>3. Order!Give
    BY <2>1, <2>2 DEF Order!Give, Order!MayRefuse, NeverSure
  <2> QED
    BY <2>3 DEF Order!Next
<1>4. CASE NewSession
  BY <1>4 DEF NewSession, Order!Next, Order!NewSession
<1>5. CASE UNCHANGED vars
  BY <1>5 DEF vars
<1> QED
  BY <1>2, <1>3, <1>4, <1>5 DEF Next

LEMMA CauseStep ==
  TypeInv /\ PositionInv /\ [Next]_vars => [ForCause]_vars
<1> SUFFICES ASSUME TypeInv, PositionInv, Next PROVE ForCause
  OBVIOUS
<1>1. CASE Parse
  BY <1>1, ParsingConcludes
<1>2. ASSUME NEW n \in Sizes, NEW m \in BOOLEAN, Absorb(n, m) PROVE ForCause
  BY <1>2, AbsorbingGives
<1>3. CASE NewSession
  BY <1>3 DEF NewSession, ForCause
<1> QED
  BY <1>1, <1>2, <1>3 DEF Next

\* However a transaction is cut into chunks, the review opens exactly when all
\* of its bytes have been sent and none more, the host is asked for more only
\* before that and only if it announced more, and a new session starts only
\* after a verdict (transaction_deserialize, handler_sign_tx): every step is
\* one of TxVerdict, or none.
THEOREM ParserOrder == Spec => Order!Init /\ [][Order!Next]_(Order!session)
<1>1. Init => TypeInv /\ PositionInv /\ Order!Init
  BY TypesStart, PositionStart DEF Init, Order!Init
<1>2. TypeInv /\ PositionInv /\ [Next]_vars
      => (TypeInv /\ PositionInv)' /\ [Order!Next]_(Order!session)
  BY TypesStep, PositionStep, OrderStep
<1> QED
  BY <1>1, <1>2, PTL DEF Spec

\* No transaction is refused without a reason: it is refused only if it is too
\* long, is incomplete at its last chunk, takes memory that raw_tx or the pool
\* have not got, or lists several values for an argument of a transfer.
THEOREM ParserCauses == Spec => [][ForCause]_vars
<1>1. Init => TypeInv /\ PositionInv
  BY TypesStart, PositionStart
<1>2. TypeInv /\ PositionInv /\ [Next]_vars
      => (TypeInv /\ PositionInv)' /\ [ForCause]_vars
  BY TypesStep, PositionStep, CauseStep
<1> QED
  BY <1>1, <1>2, PTL DEF Spec
=============================================================================
