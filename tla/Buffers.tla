------------------------------ MODULE Buffers ------------------------------
(***************************************************************************)
(* common/buffer.c, varint.c and bip32.c, and the two ways in which         *)
(* transaction/deserialize.c reads a field.                                 *)
(*                                                                          *)
(* A buffer_t is a record with the memory from ptr on (which goes on behind *)
(* the data), size, offset and lack.  Every function is an operator that    *)
(* gives its result, the buffer after it, and the value it stores.          *)
(***************************************************************************)
EXTENDS Bytes

CONSTANTS
  ByteBase,    \* 256
  SizeBase,    \* one more than the greatest size_t: 2^32
  MaxPath      \* MAX_BIP32_PATH

\* A size_t counts at least the bytes of a number.
ASSUME BufferAssumption ==
  /\ ByteBase \in Nat /\ ByteBase > 4
  /\ SizeBase \in Nat /\ SizeBase > 16
  /\ MaxPath \in Nat \ {0}

\* A 64 bit number, or a sum, as a size_t.
SizeT(n) == n % SizeBase

Yes(b, v) == [ok |-> TRUE, buffer |-> b, value |-> v]
No(b, v) == [ok |-> FALSE, buffer |-> b, value |-> v]

Rest(b) == b.size - b.offset
Ahead(b) == SubSeq(b.bytes, b.offset + 1, Len(b.bytes))
Take(b, n) == SubSeq(b.bytes, b.offset + 1, b.offset + n)

---------------------------------------------------------------------------
(* Moving.                                                                  *)

CanRead(b, n) == Rest(b) >= SizeT(n)

SeekSet(b, n) ==
  IF n > b.size THEN No(b, <<>>) ELSE Yes([b EXCEPT !.offset = n], <<>>)
SeekEnd(b, n) ==
  IF n > b.size THEN No(b, <<>>) ELSE Yes([b EXCEPT !.offset = b.size - n], <<>>)

\* Without the test for an overflow.
SeekCurUnchecked(b, n) ==
  LET to == SizeT(b.offset + SizeT(n))
  IN IF to > b.size THEN No(b, <<>>) ELSE Yes([b EXCEPT !.offset = to], <<>>)

SeekCur(b, n) ==
  LET to == SizeT(b.offset + SizeT(n))
  IN IF to < b.offset \/ to > b.size THEN No(b, <<>>)
     ELSE Yes([b EXCEPT !.offset = to], <<>>)

\* The buffer after a seek whose result is not looked at.
Sought(b, n) == SeekCur(b, n).buffer

---------------------------------------------------------------------------
(* Reading.                                                                 *)

\* With one byte too few asked for.
ReadIntShort(b, width, bigEndian) ==
  IF ~CanRead(b, width - 1) THEN No(b, 0)
  ELSE Yes(Sought(b, width),
           IF bigEndian THEN ReadBE(ByteBase, Take(b, width))
                        ELSE ReadLE(ByteBase, Take(b, width)))

\* buffer_read_u8, _u16, _u32 and _u64; the first has no order of bytes.
ReadInt(b, width, bigEndian) ==
  IF ~CanRead(b, width) THEN No(b, 0)
  ELSE Yes(Sought(b, width),
           IF bigEndian THEN ReadBE(ByteBase, Take(b, width))
                        ELSE ReadLE(ByteBase, Take(b, width)))

VarintSize(n) ==
  IF n < ByteBase - 3 THEN 1
  ELSE IF n < Power(ByteBase, 2) THEN 3
  ELSE IF n < Power(ByteBase, 4) THEN 5
  ELSE 9

\* 0xFD, 0xFE and 0xFF.
Prefix(size) ==
  ByteBase - (CASE size = 3 -> 3 [] size = 5 -> 2 [] size = 9 -> 1)

\* A number whose prefix has its own value is written as one byte.
VarintWriteSmall(n) ==
  IF n < ByteBase THEN <<n>>
  ELSE <<Prefix(VarintSize(n))>> \o WriteLE(ByteBase, VarintSize(n) - 1, n)

VarintWrite(n) ==
  IF VarintSize(n) = 1 THEN <<n>>
  ELSE <<Prefix(VarintSize(n))>> \o WriteLE(ByteBase, VarintSize(n) - 1, n)

\* The bytes that varint_read wants, by the prefix.
VarintNeed(first) ==
  IF first < ByteBase - 3 THEN 1
  ELSE CHOOSE size \in {3, 5, 9} : Prefix(size) = first

ReadVarint(b) ==
  IF Rest(b) < 1 THEN No(b, 0)
  ELSE LET need == VarintNeed(Head(Ahead(b)))
       IN IF Rest(b) < need THEN No(b, 0)
          ELSE Yes(Sought(b, need),
                   IF need = 1 THEN Head(Ahead(b))
                   ELSE ReadLE(ByteBase, Tail(Take(b, need))))

\* With the elements counted in bytes.
PathStartsInBytes(rest, n) == n \in 1 .. MaxPath /\ n <= rest

\* bip32_path_read: an element is read if it starts within the data or where
\* the data ends.
PathStarts(rest, n) == n \in 1 .. MaxPath /\ \A i \in 0 .. n - 1 : 4 * i <= rest

\* buffer_read_bip32_path; whether the buffer could be moved over the path is
\* not looked at.
ReadPath(b, n) ==
  IF ~PathStarts(Rest(b), n) THEN No(b, <<>>)
  ELSE Yes(Sought(b, 4 * n),
           [i \in 1 .. n |->
              ReadBE(ByteBase, SubSeq(Ahead(b), 4 * i - 3, 4 * i))])

Copy(b, outLen) ==
  IF Rest(b) > outLen THEN No(b, <<>>) ELSE Yes(b, Take(b, Rest(b)))

Move(b, outLen) ==
  IF ~Copy(b, outLen).ok THEN No(b, <<>>)
  ELSE Yes(Sought(b, Rest(b)), Copy(b, outLen).value)

\* buffer_spc_move.
SpcMove(b, n) ==
  IF Rest(b) < SizeT(n) THEN No(b, <<>>)
  ELSE Yes(Sought(b, SizeT(n)), Take(b, SizeT(n)))

---------------------------------------------------------------------------
(* Fields.                                                                  *)

\* transaction_deserialize_spc_field: a field of n bytes, kept or skipped.
SpcField(b, n, kept) == IF kept THEN SpcMove(b, n) ELSE SeekCur(b, n)

\* With the whole length lacking.
ShortLackingAll(b, n) == [b EXCEPT !.lack = n, !.offset = b.size]

\* What is there of a field of n bytes has been taken.
Short(b, n) == [b EXCEPT !.lack = SizeT(n - Rest(b)), !.offset = b.size]

\* transaction_deserialize_var_field: a varint and as many bytes.  If there are
\* fewer, all of them are taken, and lack says how many are missing.
VarField(b, kept) ==
  LET read == ReadVarint(b)
      c == read.buffer
      whole == IF kept THEN CanRead(c, read.value) ELSE SeekCur(c, read.value).ok
  IN IF ~read.ok THEN [status |-> "length", buffer |-> b, value |-> <<>>]
     ELSE IF ~whole
     THEN [status |-> "value", buffer |-> Short(c, read.value),
           value |-> IF kept THEN Take(c, Rest(c)) ELSE <<>>]
     ELSE [status |-> "ok", buffer |-> Sought(c, read.value),
           value |-> IF kept THEN SpcMove(c, read.value).value ELSE <<>>]

---------------------------------------------------------------------------
(* The memory pool: G_malloc_buff as a buffer that is written.              *)

\* buffer_init.
EmptyPool(pool) == [pool EXCEPT !.offset = 0]

\* The bytes v, written from the one at index at on.
Written(pool, at, v) ==
  [pool EXCEPT !.bytes = [k \in DOMAIN @ |->
                            IF k - at \in 1 .. Len(v) THEN v[k - at] ELSE @[k]]]

\* buffer_malloc; the value is the index of the memory reserved.
Malloc(pool, n) ==
  LET sought == SeekCur(pool, n)
      zeros == [k \in 1 .. SizeT(n) |-> 0]
  IN IF ~sought.ok THEN No(pool, 0)
     ELSE Yes(Written(sought.buffer, pool.offset, zeros), pool.offset)
=============================================================================
