------------------------------ MODULE Library ------------------------------
(***************************************************************************)
(* The functions that the components share, called one after the other: the *)
(* buffer a command or raw_tx is read from, the memory pool, and the        *)
(* functions without a state (numbers, texts, addresses, signatures).       *)
(*                                                                          *)
(* An action is a call of one function; call holds its arguments and what   *)
(* it returned, until the caller has taken it.  What the properties say of  *)
(* call is what the callers rely on.                                        *)
(***************************************************************************)
EXTENDS Buffers, Format, Base58, CompactSignature

CONSTANTS
  Contents,      \* the buffers read: the bytes of the memory, and the size
  PoolMemory,    \* the bytes of the pool before anything is reserved
  MaxBlocks,     \* a bound on what is reserved at a time
  Offsets,       \* arguments of the seeks and of buffer_malloc
  Values,        \* numbers of 64 bits
  Numbers,       \* operands of the 256 bit functions
  Divisors,      \* the second operands of divmod256
  Amounts,       \* amounts, as bytes
  Coins,         \* the amounts of a side of a transaction
  Strings,       \* digits that are formatted
  Rooms,         \* lengths of strings
  Decimals,      \* places of decimals
  Codes,         \* codes of base58.c ...
  Inputs,        \* ... and, by code, what they encode
  Addresses,     \* addresses, as bytes ...
  Known,         \* ... and the texts of some
  Signed         \* the numbers r and s

\* Amounts are copied out of a transaction as 32 bytes.
Amount == {bytes \in Seq(Byte(ByteOfWord)) : Len(bytes) = 4 * WordBytes}

\* What base58_encode does not refuse.
Encodable(c) == {in \in Seq(Byte(c.from)) : Len(in) <= c.maxEnc}

\* The data and the pool are far smaller than a size_t can count.
ASSUME LibraryAssumption ==
  /\ \A b \in Contents :
       /\ b \in [bytes : Seq(Byte(ByteBase)), size : 0 .. SizeBase - 2,
                 offset : {0}, lack : {0}]
       /\ b.size <= Len(b.bytes)
  /\ PoolMemory \in Seq(Byte(ByteBase)) /\ Len(PoolMemory) <= SizeBase - 2
  /\ Offsets \subseteq 0 .. SizeBase - 1
  /\ Values \subseteq 0 .. Power(ByteBase, 8) - 1
  /\ Numbers \subseteq U256 /\ Signed \subseteq Number
  /\ Divisors \subseteq U256 \ {Zero256}    \* the code divides by 2 to 16 only
  /\ Decimals \subseteq 0 .. TextLen - 3   \* 0 to 18, in strings of 80
  /\ Strings \subseteq Seq(Digits) /\ Rooms \subseteq Nat
  /\ Amounts \subseteq Amount /\ Coins \subseteq Seq(Amount)
  /\ Addresses \subseteq [1 .. AddressLen -> Byte(256)]
  /\ \A c \in Codes : (c = Real \/ Roomy(c)) /\ Inputs[c] \subseteq Encodable(c)

VARIABLES
  buffer,    \* a buffer_t, with the memory behind ptr
  pool,      \* g_buffer, with G_malloc_buff
  blocks,    \* what has been reserved: where, how much, and what was stored
  call       \* the function that has been called, or NoCall

vars == <<buffer, pool, blocks, call>>

NoCall == [fn |-> "none"]

---------------------------------------------------------------------------
(* The buffer.                                                              *)

Ready == call = NoCall
Untouched == blocks = <<>> /\ pool.bytes = PoolMemory

\* The functions of a buffer do not look at the pool: they are called before
\* anything has been reserved.
Called(fn, args, r) ==
  /\ Untouched
  /\ buffer' = r.buffer
  /\ call' = [fn |-> fn, args |-> args, before |-> buffer, ok |-> r.ok,
              value |-> r.value]
  /\ UNCHANGED <<pool, blocks>>

Seek ==
  /\ Ready
  /\ \E n \in Offsets :
       \/ Called("seek_set", [to |-> n], SeekSet(buffer, n))
       \/ Called("seek_cur", [to |-> buffer.offset + n], SeekCur(buffer, n))
       \/ Called("seek_end", [to |-> buffer.size - n], SeekEnd(buffer, n))

ReadInteger ==
  /\ Ready
  /\ \E width \in {1, 2, 4, 8}, bigEndian \in BOOLEAN :
       Called("read_int", [width |-> width, bigEndian |-> bigEndian],
              ReadInt(buffer, width, bigEndian))

ReadNumber ==
  Ready /\ Called("read_varint", <<>>, ReadVarint(buffer))

ReadBip32Path ==
  /\ Ready
  /\ \E n \in 0 .. MaxPath + 1 :
       Called("read_path", [n |-> n], ReadPath(buffer, n))

TakeBytes ==
  /\ Ready
  /\ \E n \in Offsets :
       \/ Called("copy", [n |-> n], Copy(buffer, n))
       \/ Called("move", [n |-> n], Move(buffer, n))
       \/ \E kept \in BOOLEAN :
            Called("spc_field", [n |-> n, kept |-> kept],
                   SpcField(buffer, n, kept))

ReadField ==
  /\ Ready
  /\ \E kept \in BOOLEAN :
       LET r == VarField(buffer, kept)
       IN Called("var_field", [kept |-> kept],
                 [ok |-> r.status, buffer |-> r.buffer, value |-> r.value])

---------------------------------------------------------------------------
(* The pool.                                                                *)

Block(at, n, stored) == [at |-> at, len |-> n, stored |-> stored]
Nothing == <<>>

\* buffer_init, once the type of a transaction has been read: what had been
\* reserved for the last one is not used any more.
InitPool ==
  /\ Ready /\ blocks # <<>>
  /\ pool' = EmptyPool(pool)
  /\ blocks' = <<>>
  /\ UNCHANGED <<buffer, call>>

Reserve ==
  /\ Ready /\ Len(blocks) < MaxBlocks
  /\ \E n \in Offsets :
       LET r == Malloc(pool, n) IN
       /\ pool' = r.buffer
       /\ blocks' = IF r.ok THEN Append(blocks, Block(r.value, n, Nothing))
                    ELSE blocks
  /\ UNCHANGED <<buffer, call>>

\* Without room for the terminator.
RoomWithoutTerminator(n) == n
Room(n) == n + 1

\* A value of a contract call that is kept: its length, the memory for it and
\* its terminator, and the value, which is left to the next chunk if it is not
\* all there.
KeepValue ==
  /\ Ready /\ Len(blocks) < MaxBlocks
  /\ LET len == ReadVarint(buffer)
         reserved == Malloc(pool, Room(len.value))
         field == SpcMove(len.buffer, len.value)
         at == reserved.value
     IN /\ len.ok
        /\ IF ~reserved.ok THEN buffer' = len.buffer /\ UNCHANGED <<pool, blocks>>
           ELSE IF ~field.ok
           THEN /\ buffer' = len.buffer
                /\ pool' = reserved.buffer
                /\ blocks' = Append(blocks, Block(at, SizeT(Room(len.value)), Nothing))
           ELSE /\ buffer' = field.buffer
                /\ pool' = Written(reserved.buffer, at, Append(field.value, 0))
                /\ blocks' = Append(blocks, Block(at, SizeT(Room(len.value)), field.value))
  /\ UNCHANGED call

---------------------------------------------------------------------------
(* Functions without a state; called before the buffer has been touched.    *)

Fresh == Ready /\ Untouched /\ buffer.size = 0

Evaluated(c) == call' = c /\ UNCHANGED <<buffer, pool, blocks>>

WriteVarint ==
  /\ Fresh
  /\ \E n \in Values :
       Evaluated([fn |-> "varint_write", n |-> n, bytes |-> VarintWrite(n)])

Arithmetic ==
  /\ Fresh
  /\ \E x \in Numbers, y \in Numbers :
       Evaluated([fn |-> "add_sub", x |-> x, y |-> y,
                  sum |-> Add256(x, y), difference |-> Sub256(x, y)])

Divide ==
  /\ Fresh
  /\ \E x \in Numbers, y \in Divisors :
       Evaluated([fn |-> "divmod", x |-> x, y |-> y, result |-> Divmod256(x, y)])

ShowAmount ==
  /\ Fresh
  /\ \E amount \in Amounts, decimals \in Decimals :
       Evaluated([fn |-> "amount", amount |-> amount, decimals |-> decimals,
                  result |-> ConvMount1(amount, decimals)])

ShowFee ==
  /\ Fresh
  /\ \E from \in Coins, to \in Coins :
       Evaluated([fn |-> "fee", from |-> from, to |-> to,
                  result |-> FeeText(from, to)])

FormatDigits ==
  /\ Fresh
  /\ \E s \in Strings, room \in Rooms, decimals \in Decimals :
       Evaluated([fn |-> "decimals", src |-> s, room |-> room,
                  decimals |-> decimals,
                  result |-> FormatDecimals(s, room, decimals)])

FormatNumber ==
  /\ Fresh
  /\ \E n \in Values, room \in Rooms :
       Evaluated([fn |-> "u64", n |-> n, room |-> room,
                  result |-> FormatU64(room, n)])

Base58Encode ==
  /\ Fresh
  /\ \E c \in Codes : \E in \in Inputs[c] :
       LET text == Encode(c, in, c.maxDec)
       IN Evaluated([fn |-> "base58", code |-> c, in |-> in, text |-> text,
                     back |-> Decode(c, text.out, c.maxEnc)])

ShowAddress ==
  /\ Fresh
  /\ \E a \in Addresses, stale \in {0, 57} :
       Evaluated([fn |-> "address", address |-> a, result |-> DisplayAddress(a, stale)])

Sign ==
  /\ Fresh
  /\ \E r \in Signed, s \in Signed, v \in {27, 30}, stale \in Digit :
       Evaluated([fn |-> "sign", r |-> r, s |-> s, v |-> v,
                  reply |-> SignMessage(r, s, v, stale)])

Return ==
  /\ ~Ready
  /\ call' = NoCall
  /\ UNCHANGED <<buffer, pool, blocks>>

Init ==
  /\ buffer \in Contents
  /\ pool = [bytes |-> PoolMemory, size |-> Len(PoolMemory), offset |-> 0,
             lack |-> 0]
  /\ blocks = <<>>
  /\ call = NoCall

UseBuffer ==
  Seek \/ ReadInteger \/ ReadNumber \/ ReadBip32Path \/ TakeBytes \/ ReadField
UsePool == InitPool \/ Reserve \/ KeepValue
Evaluate ==
  \/ WriteVarint \/ Arithmetic \/ Divide \/ ShowAmount \/ ShowFee
  \/ FormatDigits \/ FormatNumber \/ Base58Encode \/ ShowAddress \/ Sign

Next == UseBuffer \/ UsePool \/ Evaluate \/ Return

Spec == Init /\ [][Next]_vars

---------------------------------------------------------------------------
(* Properties of the buffer.                                                *)

TypeOK ==
  /\ buffer.offset \in 0 .. buffer.size /\ buffer.lack \in 0 .. SizeBase - 1
  /\ pool.offset \in 0 .. pool.size
  /\ \A k \in DOMAIN blocks : blocks[k].at \in Nat /\ blocks[k].len \in Nat

\* A seek goes where the numbers, which do not wrap, say, or nowhere
\* (buffer_seek_set, _cur, _end).
SeekExact ==
  call.fn \in {"seek_set", "seek_cur", "seek_end"} =>
    IF call.ok THEN buffer = [call.before EXCEPT !.offset = call.args.to]
               ELSE buffer = call.before /\ call.args.to \notin 0 .. buffer.size

\* The bytes between two offsets of a buffer.
Between(from, to) == SubSeq(buffer.bytes, from + 1, to)

\* What is read or copied out of a buffer is what stands at the offset, an
\* integer with all of its bytes in their order; nothing is taken twice, and
\* nothing if it does not fit or is not all there (buffer_read_u8 to _u64,
\* buffer_copy, buffer_move, transaction_deserialize_spc_field).
Consists(number, bytes) ==
  /\ number < Power(ByteBase, Len(bytes))
  /\ \A k \in DOMAIN bytes : (number \div Power(ByteBase, k - 1)) % ByteBase = bytes[k]
BytesTaken ==
  call.fn \in {"read_int", "copy", "move", "spc_field"} =>
    LET from == call.before.offset
        rest == call.before.size - from
        n == CASE call.fn = "read_int" -> call.args.width
               [] call.fn = "spc_field" -> call.args.n
               [] OTHER -> rest
        bytes == Between(from, from + n)
    IN /\ call.ok = (n <= rest /\ (call.fn \in {"copy", "move"} => n <= call.args.n))
       /\ buffer.offset = IF call.ok /\ call.fn # "copy" THEN from + n ELSE from
       /\ call.ok =>
            CASE call.fn = "read_int" ->
                   Consists(call.value, IF call.args.bigEndian THEN Reverse(bytes)
                                                               ELSE bytes)
              [] call.fn = "spc_field" -> call.args.kept => call.value = bytes
              [] OTHER -> call.value = bytes

\* Every number is read as it was written, from all the bytes written, and in
\* the fewest there are (varint_write, varint_read, varint_size).
VarintRoundTrip ==
  call.fn = "varint_write" =>
    LET b == [bytes |-> call.bytes, size |-> Len(call.bytes), offset |-> 0, lack |-> 0]
        r == ReadVarint(b)
    IN /\ r.ok /\ r.value = call.n /\ r.buffer.offset = b.size
       /\ b.size > 3 => call.n >= Power(ByteBase, b.size \div 2)

\* A field whose length is a size_t is whole if all of its bytes are there;
\* what is taken of it and what lacks add up to its length, and a length that
\* is cut is left where it is (transaction_deserialize_var_field).
VarFieldExact ==
  call.fn = "var_field" =>
    LET len == ReadVarint(call.before)
        from == len.buffer.offset
    IN IF ~len.ok THEN call.ok = "length" /\ buffer = call.before
       ELSE len.value < SizeBase =>
              /\ call.ok = IF from + len.value <= buffer.size THEN "ok" ELSE "value"
              /\ buffer.offset =
                   IF call.ok = "ok" THEN from + len.value ELSE buffer.size
              /\ call.ok = "value" =>
                   buffer.lack + (buffer.size - from) = len.value
              /\ call.args.kept => call.value = Between(from, buffer.offset)

\* A path that is in the data is read from there, an element from four bytes,
\* and the data goes on behind it; one that lacks more than its last element
\* is refused (bip32_path_read, buffer_read_bip32_path).
PathRead ==
  call.fn = "read_path" =>
    LET n == call.args.n
        from == call.before.offset
        rest == buffer.size - from
        byte(i, k) == buffer.bytes[from + 4 * (i - 1) + k]
    IN /\ n \in 1 .. MaxPath /\ 4 * n <= rest =>
            /\ call.ok /\ buffer.offset = from + 4 * n
            /\ \A i \in 1 .. n :
                 call.value[i] = byte(i, 4) + Power(ByteBase, 1) * byte(i, 3)
                                 + Power(ByteBase, 2) * byte(i, 2)
                                 + Power(ByteBase, 3) * byte(i, 1)
       /\ call.ok => n \in 1 .. MaxPath /\ 4 * n - 4 <= rest
       /\ ~call.ok => buffer = call.before

---------------------------------------------------------------------------
(* Properties of the pool.                                                  *)

\* What has been reserved is inside the pool, and nothing of it has been
\* reserved again, whatever lengths have been asked for (buffer_malloc).
End(block) == block.at + block.len
PoolDisjoint ==
  /\ \A k \in DOMAIN blocks : End(blocks[k]) <= pool.offset
  /\ \A j, k \in DOMAIN blocks : j < k => End(blocks[j]) <= blocks[k].at

\* A value that has been kept is still what it was, and ends, when the review
\* reads it, whatever has been reserved since (buffer_malloc and
\* dimensional_*_deserialize).
KeptIntact ==
  \A k \in DOMAIN blocks :
    LET b == blocks[k] IN
    b.stored # Nothing =>
      /\ b.at + Len(b.stored) < Len(pool.bytes)
      /\ SubSeq(pool.bytes, b.at + 1, b.at + Len(b.stored) + 1)
           = Append(b.stored, 0)

---------------------------------------------------------------------------
(* Properties of the numbers.                                               *)

\* Sums and differences are those of numbers of 256 bits, whatever carries
\* between the words and the halves (add256, sub256).
SumsWrap ==
  call.fn = "add_sub" =>
    /\ call.sum \in U256 /\ call.difference \in U256
    /\ \E carry \in {0, 1} :
         Value256(call.x) + Value256(call.y) = Value256(call.sum) + carry * Modulus
    /\ \E borrow \in {0, 1} :
         Value256(call.x) - Value256(call.y)
           = Value256(call.difference) - borrow * Modulus

\* divmod256 computes quotient and remainder.
QuotientExact ==
  call.fn = "divmod" =>
    /\ Value256(call.x) = Value256(call.result.div) * Value256(call.y)
                          + Value256(call.result.mod)
    /\ Value256(call.result.mod) < Value256(call.y)

\* The number a text shows, in units of the last decimal place.
PlainValue(s) ==
  LET value[k \in 0 .. Len(s)] == IF k = 0 THEN 0 ELSE 10 * value[k - 1] + s[k]
  IN value[Len(s)]
Shows(text, decimals) ==
  LET points == {k \in DOMAIN text : text[k] = Point}
      point == IF points = {} THEN Len(text) + 1 ELSE Min(points)
      behind == SubSeq(text, point + 1, Len(text))
  IN PlainValue(SubSeq(text, 1, point - 1)) * Power(10, decimals)
     + PlainValue(behind) * Power(10, decimals - Len(behind))

Fits(text, room) == Len(text) + 1 <= room

\* An amount of 32 bytes, the lowest first.
AmountOf(bytes) ==
  LET value[k \in 0 .. Len(bytes)] ==
        IF k = 0 THEN 0 ELSE value[k - 1] + Power(ByteOfWord, k - 1) * bytes[k]
  IN value[Len(bytes)]

\* An amount always has its text, which shows it, and its last decimal is not
\* a zero; behind its unit it fits the string of the page up to a number of
\* digits (__conv_mount_1, which is given all of that string for what it writes
\* behind the unit, and does not look at the results of what it calls).
AmountShown ==
  call.fn = "amount" =>
    LET text == call.result.text IN
    /\ call.result.ok /\ Fits(text, TextLen)
    /\ Shows(text, call.decimals) = AmountOf(call.amount)
    /\ Point \in Range(text) => Last(text) # 0
    /\ /\ AmountOf(call.amount) < Power(10, TextLen - UnitLen - 2)
       /\ call.decimals + 3 <= TextLen - UnitLen
       => Fits(text, TextLen - UnitLen)

\* The fee shown is what the inputs have more than the outputs, as long as
\* neither sum exceeds 256 bits (__dsp_st_free_init and the sums of the parser).
Total(amounts) ==
  LET total[k \in 0 .. Len(amounts)] ==
        IF k = 0 THEN 0 ELSE total[k - 1] + AmountOf(amounts[k])
  IN total[Len(amounts)]
FeeShown ==
  call.fn = "fee" /\ Total(call.from) < Modulus /\ Total(call.to) <= Total(call.from) =>
    /\ call.result.ok
    /\ Shows(call.result.text, NulsDecimals) = Total(call.from) - Total(call.to)

\* Digits are shown at their value, with the point where it belongs, never
\* beyond the room and whenever there is enough (format_decimals); a number, if
\* and only if there is room for it and its terminator (format_u64,
\* format_size64; a string of one character is the exception).
DigitsShown ==
  /\ call.fn = "decimals" =>
       /\ Len(call.src) + 2 <= call.room /\ call.decimals + 3 <= call.room
            => call.result.ok
       /\ call.result.ok =>
            /\ Fits(call.result.text, call.room)
            /\ Shows(call.result.text, call.decimals) = PlainValue(call.src)
  /\ call.fn = "u64" /\ call.room # 1 =>
       /\ call.result.ok = (\E k \in 1 .. call.room - 1 : call.n < Power(10, k))
       /\ call.result.ok =>
            /\ Fits(call.result.text, call.room)
            /\ PlainValue(call.result.text) = call.n

---------------------------------------------------------------------------
(* Properties of the texts of addresses, and of the signature.              *)

\* Decoding undoes encoding, with all the zeros in front, and the buffer
\* base58_encode computes in is never too short.
Base58RoundTrip ==
  call.fn = "base58" =>
    /\ call.text.ok
    /\ Len(call.text.out) >= 2 => call.back.ok /\ call.back.out = call.in

\* The text of an address whose chain is one of 1 to 9 fills its string, so that
\* nothing is left of an older text, and can be decoded to the address and its
\* check byte (nuls_dispaly_address_to_encoded_base58).
AddressDecodes ==
  call.fn = "address" /\ Head(call.address) \in 1 .. 9 =>
    /\ call.result.ok
    /\ Decode(Real, call.result.text, AddressLen + 1).out
         = Append(call.address, Xor(call.address))

\* That is what is shown of every address; and of those in the documentation,
\* the text that they have there.
AddressShown ==
  /\ AddressDecodes
  /\ call.fn = "address" /\ call.address \in DOMAIN Known
       => call.result.text = Known[call.address]

\* The usual signature comes out as r, s and v at their fixed places, whatever
\* the leading digits of r and s (format_signature_out, crypto_sign_message).
Compact ==
  call.fn = "sign" /\ Full(call.r) /\ Full(call.s)
    => call.reply = Padded(call.r) \o Padded(call.s) \o <<call.v>>

\* The value of s is in what is sent, as the comment in format_signature_out
\* says of the second copy: "copy s value".
SValueCopied ==
  call.fn = "sign" =>
    \E n \in 0 .. Len(call.reply) - Len(call.s) :
      SubSeq(call.reply, n + 1, n + Len(call.s)) = call.s
=============================================================================
