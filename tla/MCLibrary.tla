----------------------------- MODULE MCLibrary -----------------------------
EXTENDS Library

\* A byte has the values 0 to 7, of which 5, 6 and 7 begin a longer varint, and
\* a size_t 4096 values.  What lies behind the data is 7.
mc_Buffer(bytes) ==
  [bytes |-> bytes \o [k \in 1 .. 9 |-> 7], size |-> Len(bytes), offset |-> 0,
   lack |-> 0]
mc_Contents == {mc_Buffer(b) : b \in
  {<<>>,
   <<2, 4, 3, 1, 4, 5, 2, 1, 1>>,               \* short fields, then a long one
   <<6, 1, 0, 0, 0, 3>>,                        \* a field of one byte
   <<7, 3, 0, 0, 0, 0, 0, 0, 0, 1, 2, 3>>,      \* of three
   <<7, 1, 0, 0, 0, 1, 0, 0, 0, 4, 4>>,         \* of 4097
   <<7, 0, 2, 0, 0, 1, 0, 0, 0, 4, 4>>,         \* of 4224
   <<6, 7, 7, 7, 7, 1, 2>>,                     \* of 4095
   <<5, 7>>,                                    \* of a length that is cut
   <<1, 2, 3, 4, 4, 3, 2, 1>>}}                 \* a path
mc_PoolMemory == [k \in 1 .. 6 |-> 3]
mc_Offsets == {0, 1, 2, 3, 5, 8, 12, 4093, 4094, 4095}
mc_Values == {0, 1, 4, 5, 6, 7, 8, 9, 10, 11, 63, 64, 65, 99, 100, 101, 999,
              1000, 4095, 4096, 4097, 65535, 99999, 100000, 8 ^ 8 - 1}

\* A word has four bits.
mc_Words == {0, 1, 8, 15}
mc_Numbers ==
  {[upper |-> [upper |-> a, lower |-> b], lower |-> [upper |-> c, lower |-> d]] :
     a, b, c, d \in mc_Words}
mc_Divisors ==
  {Small256(n) : n \in {1, 2, 3, 10, 11, 15}} \cup
  {[upper |-> Zero128, lower |-> [upper |-> 1, lower |-> 0]],
   [upper |-> [upper |-> 0, lower |-> 8], lower |-> [upper |-> 0, lower |-> 1]],
   [upper |-> [upper |-> 15, lower |-> 15], lower |-> [upper |-> 15, lower |-> 14]]}
mc_Amount(n) == WriteLE(ByteOfWord, 4 * WordBytes, n)
mc_Amounts == {mc_Amount(n) : n \in
  {0, 1, 9, 10, 11, 90, 99, 100, 101, 110, 255, 256, 990, 999, 1000, 1001, 1010,
   1100, 4096, 9999, 10000, 10001, 10010, 20100, 50000, 65530, 65535}}
mc_Coins == {<<>>} \cup
  {<<mc_Amount(m)>> : m \in {0, 1, 255, 300, 40000, 65535}} \cup
  {<<mc_Amount(m), mc_Amount(n)>> :
     m \in {1, 255, 4095, 40000}, n \in {1, 256, 4097, 65535}}

mc_Strings == UNION {[1 .. n -> {0, 1, 9}] : n \in 1 .. 4}

\* A code in which every short input is encoded, and that of the program.
mc_Small == [from |-> 5, to |-> 3, num |-> 147, den |-> 100, maxEnc |-> 4,
             maxDec |-> 6]
mc_Codes == {mc_Small, Real}
mc_Inputs ==
  [c \in mc_Codes |->
     IF c = mc_Small THEN UNION {[1 .. n -> 0 .. 4] : n \in 0 .. 4}
     ELSE {[k \in 1 .. n |-> (a + d * k) % 256] :
             n \in {1, 2, 24}, a \in {0, 1, 58, 255}, d \in {0, 37}}]

mc_Documented == <<1, 0, 1, 178, 167, 76, 115, 179, 214, 60, 234, 227, 97, 240,
                   94, 0, 53, 81, 21, 208, 37, 93, 63>>
mc_Addresses == {mc_Documented} \cup
  {[k \in 1 .. 23 |-> IF k = 1 THEN first ELSE rest] :
     first \in 0 .. 12, rest \in {0, 1, 254, 255}}
mc_Known == [a \in {mc_Documented} |->
  <<5, 16, 39, 37, 49, 29, 46, 13, 36, 0, 35, 6, 19, 14, 51, 39,
    25, 19, 38, 47, 22, 28, 43, 36, 36, 19, 4, 37, 18, 49, 35, 33>>]
=============================================================================
