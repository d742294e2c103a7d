------------------------------ MODULE TxLayout ------------------------------
(***************************************************************************)
(* The bytes of a transaction, put together from its shape: its fields, in  *)
(* the order in which the parser reads them.                                *)
(***************************************************************************)
EXTENDS TxGrammar, SequencesExt

Heading(label, i, j, width, val) ==
  [k \in 1 .. width |-> [label |-> label, i |-> i, j |-> j, k |-> k, val |-> val]]
Field(label, i, width, val) == Heading(label, i, 0, width, val)
Fixed(size, label, i) == Field(label, i, size.width[label], 0)
Counter(label, i, n) == Field(label, i, 1, n)
Varint(size, label, i, n) == Field(label, i, Wide(size, n), n)
Body(label, i, j, n) ==
  [k \in 1 .. n |-> [label |-> label, i |-> i, j |-> j, k |-> -k, val |-> n]]
Variable(size, label, i, n) == Varint(size, label, i, n) \o Body(label, i, 0, n)

\* One argument of a contract call: a list of values, by their lengths.
ArgLayout(size, lens, i) ==
  Counter("D_LEN", i, Len(lens))
  \o FlattenSeq([j \in 1 .. Len(lens) |->
                   Heading("D_VALUE", i, j - 1, Wide(size, lens[j]), lens[j])
                   \o Body("D_VALUE", i, j - 1, lens[j])])

ContractLayout(size, s) ==
  Fixed(size, "CC_SENDER", 0) \o Fixed(size, "CC_CADDR", 0)
  \o Fixed(size, "CC_VALUE", 0) \o Fixed(size, "CC_GMSL", 0)
  \o Fixed(size, "CC_GMSP", 0)
  \o Variable(size, "CC_MNAME", 0, s.name) \o Variable(size, "CC_MDES", 0, s.desc)
  \o Counter("CC_TDAL", 0, Len(s.args))
  \o FlattenSeq([i \in 1 .. Len(s.args) |-> ArgLayout(size, s.args[i], i - 1)])

\* The assets of this chain differ in the asset's number only.
FromLayout(size, nuls, i) ==
  Variable(size, "FROM_ADDRESS", i, size.width.address)
  \o Fixed(size, "FROM_CHAIN", i)
  \o Field("FROM_ASSET", i, size.width.FROM_ASSET, IF nuls THEN 1 ELSE 0)
  \o Fixed(size, "FROM_AMOUNT", i)
  \o Variable(size, "FROM_NONCE", i, size.width.nonce)
  \o Fixed(size, "FROM_LOCKED", i)

ToLayout(size, nuls, address, i) ==
  Variable(size, "TO_ADDRESS", i, address)
  \o Fixed(size, "TO_CHAIN", i)
  \o Field("TO_ASSET", i, size.width.TO_ASSET, IF nuls THEN 1 ELSE 0)
  \o Fixed(size, "TO_AMOUNT", i) \o Fixed(size, "TO_LOCKTIME", i)

LayoutOf(size, s) ==
  Field("TYP", 0, size.width.TYP, s.type) \o Fixed(size, "TSP", 0)
  \o Variable(size, "RMK", 0, s.remark)
  \o (IF ~Typed(s.type) THEN Variable(size, "TXD", 0, s.data)
      ELSE Varint(size, "TXD", 0, 0)
           \o (IF s.type = 16 THEN ContractLayout(size, s) ELSE <<>>))
  \o Varint(size, "COD", 0, 0)
  \o Counter("FROM", 0, Len(s.from))
  \o FlattenSeq([i \in 1 .. Len(s.from) |-> FromLayout(size, s.from[i], i - 1)])
  \o Counter("TO", 0, Len(s.to))
  \o FlattenSeq([i \in 1 .. Len(s.to) |-> ToLayout(size, s.to[i], s.addresses[i], i - 1)])
=============================================================================
