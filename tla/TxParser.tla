------------------------------ MODULE TxParser ------------------------------
(***************************************************************************)
(* The resumable parser of transaction/deserialize.c and                    *)
(* tx_call_contract.c, driven by the chunks of handler_sign_tx.             *)
(*                                                                          *)
(* Every switch label of the parser is a value of p.pc, and every field it  *)
(* reads is a step.  The nested stack_index variables (transaction, call    *)
(* contract, coin data, current coin) name one label between them: each     *)
(* outer one stands at the label that calls the inner function.             *)
(*                                                                          *)
(* Bytes are identified by their position in the transaction, so a wrong,   *)
(* lost or repeated byte shows; what they say (lengths, counts, types) is   *)
(* in the layout.  raw_tx is a sequence of positions, except for the varint *)
(* that handler_sign_tx writes for the rest of a field: the varint of n is  *)
(* -n, followed by zeros if it is three bytes wide.                         *)
(***************************************************************************)
EXTENDS TxGrammar, SequencesExt

VARIABLES
  shape,       \* the transaction being sent
  given,       \* how many of its bytes have been
  more,        \* p2 of the last chunk
  phase,       \* "idle" between chunks, "parsing", then "done" or "failed"
  p            \* the parser: transaction_t, raw_tx and the memory pool

vars == <<shape, given, more, phase, p>>

---------------------------------------------------------------------------
(* The sizes of the program that runs.                                      *)

Scale == Scales[shape.scale]
Width == Scale.width
Capacity == Scale.capacity
PoolSize == Scale.pool
Room == Scale.room
MaxCoin == Scale.maxCoin
ChunkSizes == Scale.chunks

Byte(pos) == IF pos <= Size(shape) THEN Layout[shape][pos]
             ELSE [label |-> "EXTRA", i |-> 0, j |-> 0, k |-> 1, val |-> 0]

---------------------------------------------------------------------------
(* The parser's view of raw_tx.                                             *)

VarintWidth(n) == Wide(Scale, n)
Value(sym) == IF sym <= 0 THEN -sym ELSE Byte(sym).val
LackVarint(n) == <<-n>> \o [k \in 1 .. VarintWidth(n) - 1 |-> 0]

Parsing == phase = "parsing"
At(label) == Parsing /\ p.pc = label

\* The pointer a label fills, or NoPointer: outputs beyond the fifth share the
\* last place of the array.
Slot(i) == IF i >= MaxCoin THEN MaxCoin ELSE i
NoPointer == <<"none", 0>>
Pointer ==
  CASE p.pc \in {"TO_ADDRESS", "TO_AMOUNT"} -> <<p.pc, Slot(p.array)>>
    [] p.pc \in {"CC_CADDR", "CC_VALUE", "CC_MNAME"} -> <<p.pc, 0>>
    [] OTHER -> NoPointer
RoomOf == IF p.pc \in {"TO_ADDRESS", "CC_MNAME"} THEN Room ELSE Width[p.pc]
Reserved == Pointer = NoPointer \/ Pointer \in p.reserved

\* Labels whose field is a varint and a body, and labels with a varint only.
Kept == {"transfer", "transferFrom"}
Listed == p.pc = "D_VALUE" /\ p.method \notin Kept
VarLabel == \/ p.pc \in {"RMK", "CC_MNAME", "CC_MDES", "FROM_ADDRESS",
                         "FROM_NONCE", "TO_ADDRESS"}
            \/ p.pc = "TXD" /\ ~Typed(p.type)
            \/ Listed
VarintLabel == p.pc = "COD" \/ (p.pc = "TXD" /\ Typed(p.type))
               \/ (p.pc = "D_VALUE" /\ ~Listed)
CountLabel == p.pc \in {"FROM", "TO", "CC_TDAL", "D_LEN"}

\* The bytes the label cannot do without.
Need ==
  IF VarLabel \/ VarintLabel
  THEN IF p.buf = <<>> THEN 1 ELSE VarintWidth(Value(Head(p.buf)))
  ELSE IF CountLabel THEN 1
  ELSE IF p.pc = "D_VALUE_V" THEN p.element
  ELSE Width[p.pc]

Enough == Reserved /\ p.pc # "END" /\ Len(p.buf) >= Need
Read(label) == At(label) /\ Enough
HeadValue == Value(Head(p.buf))

After(n) == SubSeq(p.buf, n + 1, Len(p.buf))

\* The body of a field of variable size, or as much of it as there is.
Avail == Len(p.buf) - Need
Whole == HeadValue <= Avail

\* What is missing of the body: buf->lack.
LackOfAll == HeadValue
Lack == HeadValue - Avail

\* A copy of len bytes of raw_tx, from the one at index j, to a captured field.
Part(label, i, offset, j, len) ==
  IF len = 0 THEN {}
  ELSE {[label |-> label, i |-> i, offset |-> offset, first |-> p.buf[j],
         len |-> len]}

\* Fields of variable size that are kept, the rest being skipped.
CapturedVar == {"CC_MNAME", "TO_ADDRESS"}

\* The copy of len bytes of such a field goes where the length that its last
\* copy had says.
ArrayIndex == IF p.pc = "TO_ADDRESS" THEN p.array ELSE 0
CopyToStart(len) ==
  p.parts \cup Part(p.pc, ArrayIndex, 0, Need + 1, len)
CopyOn(len) ==
  p.parts \cup Part(p.pc, ArrayIndex, p.len[p.pc], Need + 1, len)

---------------------------------------------------------------------------
(* Labels.                                                                  *)

Following ==
  [TYP |-> "TSP", TSP |-> "RMK", RMK |-> "TXD",
   CC_SENDER |-> "CC_CADDR", CC_CADDR |-> "CC_VALUE", CC_VALUE |-> "CC_GMSL",
   CC_GMSL |-> "CC_GMSP", CC_GMSP |-> "CC_MNAME", CC_MNAME |-> "CC_MDES",
   CC_MDES |-> "CC_TDAL", COD |-> "FROM",
   FROM_ADDRESS |-> "FROM_CHAIN", FROM_CHAIN |-> "FROM_ASSET", FROM_ASSET |-> "FROM_AMOUNT",
   FROM_AMOUNT |-> "FROM_NONCE", FROM_NONCE |-> "FROM_LOCKED",
   TO_ADDRESS |-> "TO_CHAIN", TO_CHAIN |-> "TO_ASSET", TO_ASSET |-> "TO_AMOUNT",
   TO_AMOUNT |-> "TO_LOCKTIME"]

Stay == UNCHANGED <<shape, given, more, phase>>

\* Reserve without the limit of the pool.
ReserveUnlimited ==
  /\ Parsing /\ p.pc # "END" /\ ~Reserved
  /\ p' = [p EXCEPT !.pool = @ + RoomOf, !.reserved = @ \cup {Pointer}]
  /\ Stay

\* buffer_malloc before a field that is kept; PARSING_ERROR if the pool is
\* exhausted.
Reserve ==
  /\ Parsing /\ p.pc # "END" /\ ~Reserved
  /\ IF p.pool + RoomOf <= PoolSize
     THEN /\ p' = [p EXCEPT !.pool = @ + RoomOf, !.reserved = @ \cup {Pointer}]
          /\ Stay
     ELSE phase' = "failed" /\ UNCHANGED <<shape, given, more, p>>

\* init_transaction_type, and buffer_init: the pool is empty again.
ReadType ==
  /\ Read("TYP")
  /\ p' = [p EXCEPT !.buf = After(Need), !.pc = "TSP", !.type = HeadValue,
                    !.pool = 0]
  /\ Stay

\* Fields that are only skipped, and the chain's number of an asset.
SkipFixed ==
  /\ \E label \in {"TSP", "CC_SENDER", "CC_GMSL", "CC_GMSP",
                   "FROM_CHAIN", "TO_CHAIN"} : Read(label)
  /\ p' = [p EXCEPT !.buf = After(Need), !.pc = Following[p.pc]]
  /\ Stay

\* The length of the data of a known type is read and not used.
TxDataLength ==
  /\ Read("TXD") /\ Typed(p.type)
  /\ p' = [p EXCEPT !.buf = After(Need),
                    !.pc = IF p.type = 16 THEN "CC_SENDER" ELSE "COD"]
  /\ Stay

CoinDataLength ==
  /\ Read("COD")
  /\ p' = [p EXCEPT !.buf = After(Need), !.pc = "FROM"]
  /\ Stay

\* transaction_deserialize_var_field without a destination, when all of the
\* field is there.
SkipVar ==
  /\ \/ \E label \in {"RMK", "CC_MDES", "FROM_ADDRESS", "FROM_NONCE"} : Read(label)
     \/ Read("TXD") /\ ~Typed(p.type)
  /\ Whole
  /\ p' = [p EXCEPT !.buf = After(Need + HeadValue),
                    !.pc = IF p.pc = "TXD" THEN "COD" ELSE Following[p.pc]]
  /\ Stay

\* The contract's address and the value sent with the call.
CaptureFixed ==
  /\ \E label \in {"CC_CADDR", "CC_VALUE"} : Read(label)
  /\ p' = [p EXCEPT !.buf = After(Need), !.pc = Following[p.pc],
                    !.parts = @ \cup Part(p.pc, 0, 0, 1, Need)]
  /\ Stay

\* transaction_deserialize_var_field with a destination, when all of the field
\* is there.  The name of a method is compared later; its bytes are where they
\* should be, or it is not the name it was.
CaptureVar ==
  /\ \E label \in CapturedVar : Read(label)
  /\ Whole
  /\ LET parts == CopyOn(HeadValue)
         legible == \A f \in parts : f.label = "CC_MNAME"
                                      => f.offset = -Byte(f.first).k - 1
     IN p' = [p EXCEPT !.buf = After(Need + HeadValue), !.pc = Following[p.pc],
                       !.len[p.pc] = HeadValue, !.parts = parts,
                       !.method = IF p.pc # "CC_MNAME" THEN @
                                  ELSE IF legible THEN shape.method
                                  ELSE "misread"]
  /\ Stay

---------------------------------------------------------------------------
(* The arguments of a contract call.                                        *)

ArgCount ==
  /\ Read("CC_TDAL")
  /\ p' = [p EXCEPT !.buf = After(1), !.args = HeadValue, !.arg = 0,
                    !.pc = IF HeadValue = 0 THEN "COD" ELSE "D_LEN"]
  /\ Stay

NextArg(q) ==
  [q EXCEPT !.arg = @ + 1,
            !.pc = IF q.arg + 1 < q.args THEN "D_LEN" ELSE "COD"]

\* dimensional_*_deserialize, first label: the two transfer methods take one
\* value per argument.
ValueCount ==
  /\ Read("D_LEN")
  /\ LET q == [p EXCEPT !.buf = After(1), !.values = HeadValue, !.value = 0,
                        !.pc = "D_VALUE"]
     IN IF p.method \in Kept /\ HeadValue # 1
        THEN phase' = "failed" /\ p' = q /\ UNCHANGED <<shape, given, more>>
        ELSE p' = (IF HeadValue = 0 THEN NextArg(q) ELSE q) /\ Stay

\* element1, element2 or element3: the pointer the argument goes to.
ElementIndex ==
  LET n == IF p.method = "transfer" THEN p.arg + 1 ELSE p.arg
  IN IF n \in {1, 2} THEN n ELSE 3

\* The length of a value that is kept, and the memory for it.
ElementLength ==
  /\ Read("D_VALUE") /\ ~Listed
  /\ LET q == [p EXCEPT !.buf = After(Need), !.element = HeadValue,
                        !.parts = {f \in @ : f.label # "D_VALUE" \/ f.i # ElementIndex}]
     IN
     IF p.pool + HeadValue + 1 <= PoolSize
     THEN p' = [q EXCEPT !.pool = @ + HeadValue + 1, !.pc = "D_VALUE_V"] /\ Stay
     ELSE phase' = "failed" /\ p' = q /\ UNCHANGED <<shape, given, more>>

Element ==
  /\ Read("D_VALUE_V")
  /\ p' = NextArg([p EXCEPT
                     !.buf = After(Need),
                     !.parts = @ \cup Part("D_VALUE", ElementIndex, 0, 1, Need)])
  /\ Stay

\* A value of another method is skipped.
SkipValue ==
  /\ Read("D_VALUE") /\ Listed /\ Whole
  /\ LET q == [p EXCEPT !.buf = After(Need + HeadValue), !.value = @ + 1]
     IN p' = IF q.value < q.values THEN q ELSE NextArg(q)
  /\ Stay

---------------------------------------------------------------------------
(* Coins.                                                                   *)

FromCount ==
  /\ Read("FROM")
  /\ p' = [p EXCEPT !.buf = After(1), !.froms = HeadValue, !.array = 0,
                    !.pc = IF HeadValue = 0 THEN "TO" ELSE "FROM_ADDRESS"]
  /\ Stay

ToCount ==
  /\ Read("TO")
  /\ p' = [p EXCEPT !.buf = After(1), !.tos = HeadValue, !.array = 0,
                    !.pc = IF HeadValue = 0 THEN "END" ELSE "TO_ADDRESS"]
  /\ Stay

\* assets_id, without forgetting that of the coin before.
AssetRemembered ==
  /\ \E label \in {"FROM_ASSET", "TO_ASSET"} : Read(label)
  /\ p' = [p EXCEPT !.buf = After(Need), !.pc = Following[p.pc],
                    !.nuls = @ \/ HeadValue = 1]
  /\ Stay

\* assets_id.
Asset ==
  /\ \E label \in {"FROM_ASSET", "TO_ASSET"} : Read(label)
  /\ p' = [p EXCEPT !.buf = After(Need), !.pc = Following[p.pc],
                    !.nuls = HeadValue = 1]
  /\ Stay

\* An amount enters the sum of its side if it is in NULS; an output's is kept.
Amount ==
  /\ \E label \in {"FROM_AMOUNT", "TO_AMOUNT"} : Read(label)
  /\ p' = [p EXCEPT
             !.buf = After(Need), !.pc = Following[p.pc],
             !.sum = IF p.nuls THEN Append(@, <<p.pc, p.array>>) ELSE @,
             !.parts = IF p.pc = "FROM_AMOUNT" THEN @
                       ELSE @ \cup Part(p.pc, p.array, 0, 1, Need)]
  /\ Stay

\* The last field of an input, and the end of the loop over the inputs.
EndFrom ==
  /\ Read("FROM_LOCKED")
  /\ p' = [p EXCEPT
             !.buf = After(Need), !.array = @ + 1,
             !.pc = IF p.array + 1 < p.froms THEN "FROM_ADDRESS" ELSE "TO"]
  /\ Stay

\* The last field of an output; address_len is reset, to_len is capped.
EndTo ==
  /\ Read("TO_LOCKTIME")
  /\ LET last == p.array + 1 >= p.tos IN
     p' = [p EXCEPT
             !.buf = After(Need), !.array = @ + 1,
             !.len["TO_ADDRESS"] = 0,
             !.pc = IF last THEN "END" ELSE "TO_ADDRESS",
             !.tos = IF last /\ @ > MaxCoin THEN MaxCoin ELSE @]
  /\ Stay

---------------------------------------------------------------------------
(* The end of a chunk: what handler_sign_tx makes of the parser's status.   *)

\* After a chunk that is not the last the rest of raw_tx is kept and the host
\* asked for more; after one that is, the transaction is refused.
EndChunk(rest) ==
  IF more THEN phase' = "idle" /\ p' = rest
          ELSE phase' = "failed" /\ p' = [rest EXCEPT !.buf = p.buf]

\* PARSING_LENGTH_ERROR: nothing of the field has been consumed.  A length
\* that could not be read is set to 0.
LengthError ==
  /\ Parsing /\ p.pc # "END" /\ Reserved /\ ~Enough
  /\ EndChunk(IF p.pc \in CapturedVar THEN [p EXCEPT !.len[p.pc] = 0] ELSE p)
  /\ UNCHANGED <<shape, given, more>>

\* PARSING_VALUE_ERROR: the rest of the chunk has been consumed, and raw_tx
\* starts again with the length that is lacking.
ValueError ==
  /\ Parsing /\ VarLabel /\ Enough /\ ~Whole
  /\ LET q == [p EXCEPT !.buf = LackVarint(Lack)]
     IN EndChunk(IF p.pc \in CapturedVar
                 THEN [q EXCEPT !.len[p.pc] = Avail, !.parts = CopyOn(Avail)]
                 ELSE q)
  /\ UNCHANGED <<shape, given, more>>

\* Finish without the check that nothing is left over.
FinishEarly ==
  /\ At("END")
  /\ phase' = "done"
  /\ UNCHANGED <<shape, given, more, p>>

\* PARSING_OK, whatever p2 was: the review, unless bytes are left over.
Finish ==
  /\ At("END")
  /\ phase' = IF p.buf = <<>> THEN "done" ELSE "failed"
  /\ UNCHANGED <<shape, given, more, p>>

Parse ==
  \/ Reserve \/ ReadType \/ SkipFixed \/ TxDataLength \/ CoinDataLength
  \/ SkipVar \/ CaptureFixed \/ CaptureVar
  \/ ArgCount \/ ValueCount \/ ElementLength \/ Element \/ SkipValue
  \/ FromCount \/ ToCount \/ Asset \/ Amount \/ EndFrom \/ EndTo
  \/ LengthError \/ ValueError \/ Finish

---------------------------------------------------------------------------
(* The chunks.                                                              *)

\* explicit_bzero(&G_context); the pool is not part of the context.
Fresh(pool) ==
  [pc |-> "TYP", buf |-> <<>>, type |-> 0, method |-> "none",
   args |-> 0, arg |-> 0, values |-> 0, value |-> 0, element |-> 0,
   froms |-> 0, tos |-> 0, array |-> 0, nuls |-> FALSE,
   len |-> [CC_MNAME |-> 0, TO_ADDRESS |-> 0], reserved |-> {},
   pool |-> pool, parts |-> {}, sum |-> <<>>]

\* raw_tx has room for n more bytes; and, off by one, for one byte less.
FitsOffByOne(n) == Len(p.buf) + n < Capacity
Fits(n) == Len(p.buf) + n <= Capacity

\* A chunk of n bytes is appended to raw_tx and parsed.
Absorb(n, m) ==
  /\ phase = "idle"
  /\ given + n <= Size(shape) + shape.extra
  /\ given' = given + n /\ more' = m
  /\ IF ~Fits(n)
     THEN phase' = "failed" /\ UNCHANGED p
     ELSE /\ phase' = "parsing"
          /\ p' = [p EXCEPT !.buf = @ \o [k \in 1 .. n |-> given + k]]
  /\ UNCHANGED shape

\* The sizes the host may choose: an empty first chunk (it names the path),
\* one of ChunkSizes, or all that is left.
Sizes ==
  LET left == Size(shape) + shape.extra - given
  IN (IF given = 0 THEN {0} ELSE {})
     \cup {n \in ChunkSizes \cup {left} : 0 < n /\ n <= Max(ChunkSizes)}

\* The first chunk of another session, of the same program.
NewSession ==
  /\ phase \in {"done", "failed"}
  /\ shape' \in {s \in Shapes : s.scale = shape.scale}
  /\ given' = 0 /\ more' = TRUE /\ phase' = "idle"
  /\ p' = Fresh(p.pool)

Init ==
  /\ shape \in Shapes
  /\ given = 0 /\ more = TRUE /\ phase = "idle" /\ p = Fresh(0)

Next ==
  \/ Parse
  \/ \E n \in Sizes, m \in BOOLEAN : Absorb(n, m)
  \/ NewSession

Spec == Init /\ [][Next]_vars /\ WF_vars(Parse)

---------------------------------------------------------------------------
(* Properties.                                                              *)

\* A copy of a field of variable size ends within the memory reserved for it.
CopiesFit ==
  \A f \in p.parts : f.label \in CapturedVar => f.offset + f.len <= Room

TypeOK ==
  /\ shape \in Shapes /\ given \in Nat /\ more \in BOOLEAN
  /\ phase \in {"idle", "parsing", "done", "failed"}
  /\ p.pool \in 0 .. PoolSize /\ Len(p.buf) <= Capacity
  /\ \A k \in DOMAIN p.buf : p.buf[k] <= given
  /\ CopiesFit

\* The position is never lost: whatever the boundaries of the chunks, a label
\* that reads bytes of the transaction reads its own field from its first
\* byte, and the rest of a field that was cut from the first byte missing.
Index ==
  IF p.pc \in {"D_LEN", "D_VALUE", "D_VALUE_V"} THEN p.arg
  ELSE IF p.pc \in {"FROM_ADDRESS", "FROM_CHAIN", "FROM_ASSET", "FROM_AMOUNT",
                    "FROM_NONCE", "FROM_LOCKED", "TO_ADDRESS", "TO_CHAIN",
                    "TO_ASSET", "TO_AMOUNT", "TO_LOCKTIME"} THEN p.array
  ELSE 0
Aligned ==
  Parsing /\ p.buf # <<>> /\ p.pc # "END" =>
    LET cut == Head(p.buf) <= 0
        first == IF cut THEN VarintWidth(HeadValue) + 1 ELSE 1
        b == Byte(p.buf[first])
    IN \/ first > Len(p.buf)
       \/ p.pc = "D_VALUE_V" /\ p.element = 0
       \/ /\ b.label = (IF p.pc = "D_VALUE_V" THEN "D_VALUE" ELSE p.pc)
          /\ b.i = Index
          /\ IF cut THEN b.val = (-b.k - 1) + HeadValue
             ELSE b.k = (IF p.pc = "D_VALUE_V" THEN -1 ELSE 1)

\* Every byte kept for the screen is at its place in its field.
InPlace ==
  \A f \in p.parts :
    LET b == Byte(f.first) IN
    f.offset = (IF b.k < 0 THEN -b.k ELSE b.k) - 1

\* What the review shows of an output or a call has been captured whole when
\* it opens, in whatever chunks it came.
CapturedWhole(label, i, width) ==
  \A k \in 0 .. width - 1 :
    \E f \in p.parts : /\ f.label = label /\ f.i = i
                       /\ f.offset <= k /\ k < f.offset + f.len

Captured ==
  phase = "done" =>
    /\ \A i \in 0 .. p.tos - 1 :
         /\ CapturedWhole("TO_ADDRESS", i, shape.addresses[i + 1])
         /\ CapturedWhole("TO_AMOUNT", i, Width.TO_AMOUNT)
    /\ shape.type = 16 =>
         /\ CapturedWhole("CC_MNAME", 0, shape.name)
         /\ CapturedWhole("CC_CADDR", 0, Width.CC_CADDR)
         /\ CapturedWhole("CC_VALUE", 0, Width.CC_VALUE)

\* The amounts behind the fee: those in NULS of both sides, each added once.
NulsAmounts ==
  {<<"FROM_AMOUNT", i - 1>> : i \in {i \in DOMAIN shape.from : shape.from[i]}}
  \cup {<<"TO_AMOUNT", i - 1>> : i \in {i \in DOMAIN shape.to : shape.to[i]}}
SummedOnce ==
  phase = "done" =>
    /\ {p.sum[k] : k \in DOMAIN p.sum} = NulsAmounts
    /\ \A k, m \in DOMAIN p.sum : p.sum[k] = p.sum[m] => k = m

\* A review never lacks an output: the array holds five, and a transaction
\* with more of them does not reach the review.
AllOutputs == phase = "done" => p.tos = Len(shape.to)

---------------------------------------------------------------------------
(* The contract with handler_sign_tx.                                       *)

\* Whether there is memory for a transaction: in the pool, and in raw_tx for a
\* value that must be read in one piece, with a whole chunk behind what there
\* was of it.
Arguments(s) == IF s.type = 16 /\ s.method \in Kept THEN s.args ELSE <<>>

\* What the address, the value and the method's name of a call take of the
\* pool; the first n arguments, each of one value and a zero; and an output.
CallRoom(s) ==
  LET size == Scales[s.scale] IN
  IF s.type = 16 THEN size.width["CC_CADDR"] + size.width["CC_VALUE"] + size.room ELSE 0
ArgumentRoom(s) ==
  LET room[n \in 0 .. Len(Arguments(s))] ==
        IF n = 0 THEN 0 ELSE room[n - 1] + s.args[n][1] + 1
  IN room
RoomForOutput(s) == Scales[s.scale].room + Scales[s.scale].width["TO_AMOUNT"]
PoolUse(s) ==
  CallRoom(s) + ArgumentRoom(s)[Len(Arguments(s))] + Len(s.to) * RoomForOutput(s)
Reviewable(s) ==
  /\ \A j \in DOMAIN Arguments(s) :
       /\ Len(s.args[j]) = 1
       /\ \A n \in Scales[s.scale].chunks :
            s.args[j][1] - 1 + n <= Scales[s.scale].capacity
  /\ PoolUse(s) <= Scales[s.scale].pool

\* Whatever the cuts, every chunk gets a verdict, and the verdict is the one
\* of TxVerdict (transaction_deserialize, handler_sign_tx).
Contract == INSTANCE TxVerdict
VerdictSpec == Contract!Spec
=============================================================================
