----------------------------- MODULE TxGrammar -----------------------------
(***************************************************************************)
(* The transactions that the parser is given: their sizes, and which field  *)
(* stands behind which.  A byte of a transaction is a record of the field   *)
(* it belongs to (its label in the parser, the number i of its coin or      *)
(* argument, the number j of its value in the argument), its place k in the *)
(* field, and what the field says, val: a length, a count, a type.          *)
(*                                                                          *)
(* A field starts with k = 1.  One of variable size is a varint, and a body *)
(* with the places -1, -2, ..., of as many bytes as the varint says.        *)
(***************************************************************************)
EXTENDS Integers, Sequences

CONSTANTS
  Shapes,      \* the transactions sent
  Scales,      \* the sizes of a program, by the name that a shape gives: below
  Bytes(_)     \* the bytes of one

\* The sizes of the program that runs: the program's own, or smaller ones.
\*   width     the widths of the fields of fixed size, by label, and of an
\*             input's address and nonce
\*   short     the greatest number whose varint is one byte: 0xFC
\*   capacity  sizeof(raw_tx): MAX_TRANSACTION_LEN
\*   pool      MALLOC_BUFF_MAX_LEN
\*   room      bytes reserved for an address or a method name: 40
\*   maxCoin   MAX_COIN_LEN
\*   chunks    the chunks the host cuts, besides what is left over
FixedLabels == {"TYP", "TSP", "CC_SENDER", "CC_CADDR", "CC_VALUE", "CC_GMSL", "CC_GMSP",
                "FROM_CHAIN", "FROM_ASSET", "FROM_AMOUNT", "FROM_LOCKED",
                "TO_CHAIN", "TO_ASSET", "TO_AMOUNT", "TO_LOCKTIME"}
CountLabels == {"FROM", "TO", "CC_TDAL", "D_LEN"}
VarLabels == {"RMK", "CC_MNAME", "CC_MDES", "FROM_ADDRESS", "FROM_NONCE",
              "TO_ADDRESS", "D_VALUE"}
InputLabels == {"FROM_ADDRESS", "FROM_CHAIN", "FROM_ASSET", "FROM_AMOUNT",
                "FROM_NONCE", "FROM_LOCKED"}
OutputLabels == {"TO_ADDRESS", "TO_CHAIN", "TO_ASSET", "TO_AMOUNT", "TO_LOCKTIME"}

ScaleType ==
  [width : [FixedLabels \cup {"address", "nonce"} -> Nat \ {0}],
   short : Nat \ {0}, capacity : Nat, pool : Nat, room : Nat, maxCoin : Nat,
   chunks : SUBSET (Nat \ {0})]

\* The pool holds what maxCoin outputs need, and not what one more does.  There
\* is a largest chunk, and raw_tx has room for it behind a length, or behind a
\* field of fixed size that lacks a byte.
ASSUME ScaleAssumption ==
  \A n \in DOMAIN Scales :
    LET size == Scales[n] IN
    /\ size \in ScaleType
    /\ (size.maxCoin + 1) * (size.room + size.width["TO_AMOUNT"]) > size.pool
    /\ \E most \in size.chunks : \A c \in size.chunks : c <= most
    /\ \A c \in size.chunks :
         /\ 3 + c <= size.capacity
         /\ \A label \in FixedLabels : size.width[label] - 1 + c <= size.capacity

\* A coin is TRUE if its asset is NULS; an argument is the list of the lengths
\* of its values; an output has the length of its address.  No address and no
\* method name is longer than the memory reserved for it: the parser does not
\* compare them, and what it does to one that is longer is not modelled.
ASSUME ShapeAssumption ==
  \A s \in Shapes :
    /\ s.scale \in DOMAIN Scales
    /\ s.type \in Nat /\ s.name \in Nat /\ s.extra \in Nat
    /\ s.from \in Seq(BOOLEAN) /\ s.to \in Seq(BOOLEAN) /\ s.args \in Seq(Seq(Nat))
    /\ s.addresses \in Seq(Nat) /\ Len(s.addresses) = Len(s.to)
    /\ s.name <= Scales[s.scale].room
    /\ \A i \in DOMAIN s.to : s.addresses[i] <= Scales[s.scale].room

---------------------------------------------------------------------------
Wide(size, n) == IF n <= size.short THEN 1 ELSE 3
Typed(type) == type \in {2, 10, 16}

Layout == [s \in Shapes |-> Bytes(s)]
Size(s) == Len(Layout[s])

\* The bytes a field starts with, and those of its body.
HeadLen(s, f) ==
  IF f.label \in FixedLabels THEN Scales[s.scale].width[f.label]
  ELSE IF f.label \in CountLabels THEN 1 ELSE Wide(Scales[s.scale], f.val)
HasBody(s, f) == f.label \in VarLabels \/ (f.label = "TXD" /\ ~Typed(s.type))
BodyLen(s, f) == IF HasBody(s, f) THEN f.val ELSE 0

\* The field with these names starts at pos; "END" does behind the last byte.
Starts(s, pos, label, i, j) ==
  IF label = "END" THEN pos = Size(s) + 1
  ELSE LET b == Layout[s][pos] IN
       /\ pos \in 1 .. Size(s)
       /\ b.label = label /\ b.i = i /\ b.j = j /\ b.k = 1

Behind ==
  [TYP |-> "TSP", TSP |-> "RMK", RMK |-> "TXD",
   CC_SENDER |-> "CC_CADDR", CC_CADDR |-> "CC_VALUE", CC_VALUE |-> "CC_GMSL",
   CC_GMSL |-> "CC_GMSP", CC_GMSP |-> "CC_MNAME", CC_MNAME |-> "CC_MDES",
   CC_MDES |-> "CC_TDAL", COD |-> "FROM",
   FROM_ADDRESS |-> "FROM_CHAIN", FROM_CHAIN |-> "FROM_ASSET",
   FROM_ASSET |-> "FROM_AMOUNT", FROM_AMOUNT |-> "FROM_NONCE",
   FROM_NONCE |-> "FROM_LOCKED", TO_ADDRESS |-> "TO_CHAIN",
   TO_CHAIN |-> "TO_ASSET", TO_ASSET |-> "TO_AMOUNT", TO_AMOUNT |-> "TO_LOCKTIME"]

\* What starts at pos, behind the field f.
Follows(s, f, pos) ==
  LET Then(label, i, j) == Starts(s, pos, label, i, j)
      ThenArg(i) == IF i < Len(s.args) THEN Then("D_LEN", i, 0) ELSE Then("COD", 0, 0)
      ThenInput(i) == IF i < Len(s.from) THEN Then("FROM_ADDRESS", i, 0)
                                         ELSE Then("TO", 0, 0)
      ThenOutput(i) == IF i < Len(s.to) THEN Then("TO_ADDRESS", i, 0)
                                        ELSE Then("END", 0, 0)
  IN
  /\ f.label \in DOMAIN Behind => Then(Behind[f.label], f.i, 0)
  /\ f.label = "TXD" => Then(IF s.type = 16 THEN "CC_SENDER" ELSE "COD", 0, 0)
  /\ f.label = "CC_TDAL" => ThenArg(0)
  /\ f.label = "D_LEN" => IF f.val = 0 THEN ThenArg(f.i + 1)
                                       ELSE Then("D_VALUE", f.i, 0)
  /\ f.label = "D_VALUE" => IF f.j + 1 < Len(s.args[f.i + 1])
                            THEN Then("D_VALUE", f.i, f.j + 1) ELSE ThenArg(f.i + 1)
  /\ f.label = "FROM" => ThenInput(0)
  /\ f.label = "FROM_LOCKED" => ThenInput(f.i + 1)
  /\ f.label = "TO" => ThenOutput(0)
  /\ f.label = "TO_LOCKTIME" => ThenOutput(f.i + 1)

\* What a field says.
Says(s, f) ==
  /\ f.label = "TYP" => f.val = s.type
  /\ f.label = "CC_TDAL" => f.val = Len(s.args)
  /\ f.label = "CC_MNAME" => f.val = s.name
  /\ f.label \in {"D_LEN", "D_VALUE"} => f.i < Len(s.args)
  /\ f.label = "D_LEN" => f.val = Len(s.args[f.i + 1])
  /\ f.label = "D_VALUE" => /\ f.j < Len(s.args[f.i + 1])
                            /\ f.val = s.args[f.i + 1][f.j + 1]
  /\ f.label = "FROM" => f.val = Len(s.from)
  /\ f.label \in InputLabels => f.i < Len(s.from)
  /\ f.label = "FROM_ASSET" => f.val = IF s.from[f.i + 1] THEN 1 ELSE 0
  /\ f.label = "TO" => f.val = Len(s.to)
  /\ f.label \in OutputLabels => f.i < Len(s.to)
  /\ f.label = "TO_ASSET" => f.val = IF s.to[f.i + 1] THEN 1 ELSE 0
  /\ f.label = "TO_ADDRESS" => f.val = s.addresses[f.i + 1]

\* The bytes of the field that starts at pos.
Consists(s, pos) ==
  LET f == Layout[s][pos]
      head == HeadLen(s, f)
  IN /\ pos + head + BodyLen(s, f) - 1 <= Size(s)
     /\ \A k \in 1 .. head : Layout[s][pos + k - 1] = [f EXCEPT !.k = k]
     /\ \A k \in 1 .. BodyLen(s, f) :
          Layout[s][pos + head + k - 1] = [f EXCEPT !.k = -k]

\* A transaction is its fields in their order.
ASSUME LayoutAssumption ==
  \A s \in Shapes :
    /\ Layout[s] \in Seq([label : STRING, i : Nat, j : Nat, k : Int, val : Nat])
    /\ Starts(s, 1, "TYP", 0, 0)
    /\ \A pos \in 1 .. Size(s) :
         LET f == Layout[s][pos] IN
         f.k = 1 => /\ Consists(s, pos) /\ Says(s, f)
                    /\ Follows(s, f, pos + HeadLen(s, f) + BodyLen(s, f))
=============================================================================
