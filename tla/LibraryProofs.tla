--------------------------- MODULE LibraryProofs ---------------------------
(***************************************************************************)
(* What Library promises of the buffer and the memory pool for data and     *)
(* pools of every size, and of varints, paths, sums, texts of numbers and   *)
(* signatures for bytes, words and numbers of every width.                  *)
(***************************************************************************)
EXTENDS Base58Proofs

---------------------------------------------------------------------------
(* Buffers.                                                                 *)

Good(b) ==
  /\ b \in [bytes : Seq(Byte(ByteBase)), size : 0 .. SizeBase - 2, offset : Nat,
            lack : 0 .. SizeBase - 1]
  /\ b.offset <= b.size /\ b.size <= Len(b.bytes)

LEMMA SizeOfBase == SizeBase \in Nat /\ SizeBase > 0 /\ ByteBase \in Nat /\ ByteBase > 4
BY BufferAssumption

LEMMA SizeTRange ==
  ASSUME NEW n \in Int
  PROVE  /\ SizeT(n) \in 0 .. SizeBase - 1
         /\ n \in 0 .. SizeBase - 1 => SizeT(n) = n
BY BufferAssumption DEF SizeT

\* A sum that wraps is smaller than each of its terms.
LEMMA SizeTSum ==
  ASSUME NEW m \in 0 .. SizeBase - 1, NEW n \in 0 .. SizeBase - 1
  PROVE  SizeT(m + n) = IF m + n < SizeBase THEN m + n ELSE m + n - SizeBase
BY BufferAssumption DEF SizeT

LEMMA SizeTNext ==
  ASSUME NEW n \in Int, SizeT(n) <= SizeBase - 2
  PROVE  SizeT(n + 1) = SizeT(n) + 1
<1> DEFINE p == n \div SizeBase
           q == (n + 1) \div SizeBase
           r == n % SizeBase
           t == (n + 1) % SizeBase
<1>1. /\ SizeBase \in Nat /\ SizeBase > 0 /\ p \in Int /\ q \in Int
      /\ r \in 0 .. SizeBase - 1 /\ t \in 0 .. SizeBase - 1
  BY BufferAssumption
<1>2. n = SizeBase * p + r
  BY BufferAssumption
<1>3. n + 1 = SizeBase * q + t
  BY BufferAssumption
<1>4. r <= SizeBase - 2
  BY DEF SizeT
<1> HIDE DEF p, q, r, t
<1>5. /\ p < q => SizeBase * p + SizeBase <= SizeBase * q
      /\ q < p => SizeBase * q + SizeBase <= SizeBase * p
      /\ SizeBase * p \in Int /\ SizeBase * q \in Int
  BY <1>1, Products
<1>6. p = q
  BY <1>1, <1>2, <1>3, <1>4, <1>5
<1>7. t = r + 1
  BY <1>1, <1>2, <1>3, <1>5, <1>6
<1>. QED  BY <1>7 DEF SizeT, r, t

\* buffer_seek_cur moves by the number of bytes, or not at all.
LEMMA SeekCurMoves ==
  ASSUME NEW b, Good(b), NEW n \in Int
  PROVE  /\ SeekCur(b, n).ok <=> b.offset + SizeT(n) <= b.size
         /\ SeekCur(b, n).ok =>
              SeekCur(b, n).buffer = [b EXCEPT !.offset = b.offset + SizeT(n)]
         /\ ~SeekCur(b, n).ok => SeekCur(b, n).buffer = b
<1>1. SizeT(n) \in 0 .. SizeBase - 1
  BY SizeTRange
<1>2. b.offset \in 0 .. SizeBase - 1 /\ b.size \in 0 .. SizeBase - 1 /\ SizeBase \in Nat
      /\ b.offset <= b.size
  BY BufferAssumption DEF Good
<1>3. SizeT(b.offset + SizeT(n)) =
        IF b.offset + SizeT(n) < SizeBase THEN b.offset + SizeT(n)
        ELSE b.offset + SizeT(n) - SizeBase
  BY <1>1, <1>2, SizeTSum
<1> DEFINE to == SizeT(b.offset + SizeT(n))
<1>4. /\ (to < b.offset \/ to > b.size) <=> ~(b.offset + SizeT(n) <= b.size)
      /\ b.offset + SizeT(n) <= b.size => to = b.offset + SizeT(n)
  BY <1>1, <1>2, <1>3
<1>5. SeekCur(b, n) = IF to < b.offset \/ to > b.size THEN No(b, <<>>)
                      ELSE Yes([b EXCEPT !.offset = to], <<>>)
  BY DEF SeekCur
<1> HIDE DEF to
<1>6. CASE b.offset + SizeT(n) <= b.size
  <2>1. SeekCur(b, n) = Yes([b EXCEPT !.offset = b.offset + SizeT(n)], <<>>)
    BY <1>4, <1>5, <1>6
  <2>. QED  BY <1>6, <2>1 DEF Yes
<1>7. CASE ~(b.offset + SizeT(n) <= b.size)
  <2>1. SeekCur(b, n) = No(b, <<>>)
    BY <1>4, <1>5, <1>7
  <2>. QED  BY <1>7, <2>1 DEF No
<1>. QED  BY <1>6, <1>7

LEMMA SeekCurGood ==
  ASSUME NEW b, Good(b), NEW n \in Int
  PROVE  Good(SeekCur(b, n).buffer)
<1>1. SizeT(n) \in 0 .. SizeBase - 1
  BY SizeTRange
<1>2. CASE SeekCur(b, n).ok
  <2>1. SeekCur(b, n).buffer = [b EXCEPT !.offset = b.offset + SizeT(n)]
        /\ b.offset + SizeT(n) <= b.size
    BY <1>2, SeekCurMoves
  <2>. QED  BY <1>1, <2>1 DEF Good
<1>3. CASE ~SeekCur(b, n).ok
  BY <1>3, SeekCurMoves
<1>. QED  BY <1>2, <1>3

LEMMA OffsetMoved ==
  ASSUME NEW b, Good(b), NEW k \in Nat, k <= b.size
  PROVE  Good([b EXCEPT !.offset = k])
BY DEF Good

LEMMA SoughtGood ==
  ASSUME NEW b, Good(b), NEW n \in Int
  PROVE  Good(Sought(b, n))
BY SeekCurGood DEF Sought

\* A seek whose result is not looked at, over bytes that are there.
LEMMA SoughtMoves ==
  ASSUME NEW b, Good(b), NEW n \in Nat, b.offset + n <= b.size
  PROVE  /\ Sought(b, n) = [b EXCEPT !.offset = b.offset + n]
         /\ SizeT(n) = n /\ SeekCur(b, n).ok
<1>1. b.offset \in Nat /\ b.size \in 0 .. SizeBase - 2
  BY DEF Good
<1>2. n \in 0 .. SizeBase - 1 /\ n \in Int
  BY <1>1, SizeOfBase
<1>3. SizeT(n) = n
  BY <1>2, SizeTRange
<1>. QED  BY <1>2, <1>3, SeekCurMoves DEF Sought

\* The bytes taken from a good buffer, one by one.
LEMMA TakenBytes ==
  ASSUME NEW b, Good(b), NEW n \in Nat, b.offset + n <= b.size
  PROVE  /\ Take(b, n) \in Seq(Byte(ByteBase)) /\ Len(Take(b, n)) = n
         /\ \A k \in 1 .. n : Take(b, n)[k] = b.bytes[b.offset + k]
<1> DEFINE o == b.offset
           from == o + 1
           to == o + n
<1>1. /\ o \in Nat /\ b.bytes \in Seq(Byte(ByteBase)) /\ b.size \in Nat
      /\ Len(b.bytes) \in Nat /\ o + n <= Len(b.bytes)
  BY BufferAssumption DEF Good
<1>2. \A i \in from .. to : b.bytes[i] \in Byte(ByteBase)
  BY <1>1, ElementOfSeq
<1>3. Take(b, n) = SubSeq(b.bytes, from, to)
  BY DEF Take
<1> HIDE DEF o
<1>4. /\ from \in Int /\ to \in Int
      /\ to - from + 1 = n /\ (from <= to <=> n >= 1)
      /\ \A k \in 1 .. n : from + k - 1 = o + k
  BY <1>1
<1> HIDE DEF from, to
<1>5. /\ SubSeq(b.bytes, from, to) \in Seq(Byte(ByteBase))
      /\ Len(SubSeq(b.bytes, from, to)) = IF from <= to THEN to - from + 1 ELSE 0
      /\ \A i \in 1 .. to - from + 1 : SubSeq(b.bytes, from, to)[i] = b.bytes[from + i - 1]
  BY <1>2, <1>4, SubSeqProperties
<1>6. n = 0 \/ n >= 1
  OBVIOUS
<1>7. Len(SubSeq(b.bytes, from, to)) = n
  BY <1>4, <1>5, <1>6
<1>8. \A k \in 1 .. n : Take(b, n)[k] = b.bytes[o + k]
  BY <1>3, <1>4, <1>5
<1>. QED  BY <1>3, <1>5, <1>7, <1>8 DEF o

LEMMA AheadBytes ==
  ASSUME NEW b, Good(b), Rest(b) >= 1
  PROVE  Head(Ahead(b)) \in Byte(ByteBase)
<1>1. /\ b.offset \in Nat /\ b.bytes \in Seq(Byte(ByteBase)) /\ b.size \in Nat
      /\ Len(b.bytes) \in Nat /\ b.offset + 1 <= Len(b.bytes)
  BY BufferAssumption DEF Good, Rest
<1>2. Head(Ahead(b)) = b.bytes[b.offset + 1]
  BY <1>1, HeadTailOfSubSeq DEF Ahead
<1>. QED  BY <1>1, <1>2, ElementOfSeq

\* A byte is a natural number, and so is what is read from bytes.
LEMMA ReadLENat ==
  ASSUME NEW base \in Nat, NEW bytes, \A k \in DOMAIN bytes : bytes[k] \in Nat
  PROVE  ReadLE(base, bytes) \in Nat
<1> DEFINE v(k) == IF k \in DOMAIN bytes THEN bytes[k] ELSE 0
<1>1. /\ v(1) \in Nat /\ v(2) \in Nat /\ v(3) \in Nat /\ v(4) \in Nat
      /\ v(5) \in Nat /\ v(6) \in Nat /\ v(7) \in Nat /\ v(8) \in Nat
  OBVIOUS
<1>2. ReadLE(base, bytes) =
        v(1) + base * (v(2) + base * (v(3) + base * (v(4) + base * (v(5)
        + base * (v(6) + base * (v(7) + base * v(8)))))))
  BY DEF ReadLE
<1> HIDE DEF v
<1>3. /\ v(7) + base * v(8) \in Nat
      /\ \A x \in Nat : /\ v(1) + base * x \in Nat /\ v(2) + base * x \in Nat
                        /\ v(3) + base * x \in Nat /\ v(4) + base * x \in Nat
                        /\ v(5) + base * x \in Nat /\ v(6) + base * x \in Nat
  BY <1>1
<1>. QED  BY <1>2, <1>3

LEMMA BytesAreNats ==
  ASSUME NEW s \in Seq(Byte(ByteBase))
  PROVE  \A k \in DOMAIN s : s[k] \in Nat
<1>1. DOMAIN s = 1 .. Len(s)
  BY LenProperties
<1>2. \A k \in 1 .. Len(s) : s[k] \in Byte(ByteBase)
  BY ElementOfSeq
<1>3. \A n \in Byte(ByteBase) : n \in Nat
  BY BufferAssumption DEF Byte
<1>. QED  BY <1>1, <1>2, <1>3

LEMMA VarintNeedIs ==
  ASSUME NEW first \in Byte(ByteBase)
  PROVE  VarintNeed(first) \in {1, 3, 5, 9}
<1>1. CASE first < ByteBase - 3
  BY <1>1 DEF VarintNeed
<1>2. CASE ~(first < ByteBase - 3)
  <2>1. Prefix(3) = ByteBase - 3 /\ Prefix(5) = ByteBase - 2 /\ Prefix(9) = ByteBase - 1
    BY DEF Prefix
  <2>2. first \in {ByteBase - 3, ByteBase - 2, ByteBase - 1}
    BY <1>2, BufferAssumption DEF Byte
  <2>3. \E size \in {3, 5, 9} : Prefix(size) = first
    BY <2>1, <2>2
  <2>4. VarintNeed(first) = CHOOSE size \in {3, 5, 9} : Prefix(size) = first
    BY <1>2 DEF VarintNeed
  <2>. QED  BY <2>3, <2>4
<1>. QED  BY <1>1, <1>2

\* A varint is read, from as many bytes as its prefix says, or nothing is done.
LEMMA ReadVarintMoves ==
  ASSUME NEW b, Good(b)
  PROVE  LET r == ReadVarint(b) IN
         /\ r.value \in Nat
         /\ ~r.ok => r.buffer = b
         /\ r.ok => /\ r.buffer.offset \in b.offset .. b.size
                    /\ r.buffer = [b EXCEPT !.offset = r.buffer.offset]
<1>1. CASE Rest(b) < 1
  BY <1>1 DEF ReadVarint, No
<1>2. CASE ~(Rest(b) < 1)
  <2> DEFINE first == Head(Ahead(b))
             need == VarintNeed(first)
             value == IF need = 1 THEN first ELSE ReadLE(ByteBase, Tail(Take(b, need)))
  <2>1. Rest(b) \in Int /\ Rest(b) = b.size - b.offset /\ b.offset \in Nat /\ b.size \in Nat
    BY BufferAssumption DEF Good, Rest
  <2>2. first \in Byte(ByteBase) /\ first \in Nat /\ need \in {1, 3, 5, 9}
    BY <1>2, <2>1, AheadBytes, VarintNeedIs DEF Byte
  <2>3. ReadVarint(b) = IF Rest(b) < need THEN No(b, 0) ELSE Yes(Sought(b, need), value)
    BY <1>2 DEF ReadVarint
  <2>4. CASE Rest(b) < need
    BY <2>3, <2>4 DEF No
  <2>5. CASE ~(Rest(b) < need)
    <3>1. need \in Nat /\ b.offset + need <= b.size
      BY <2>1, <2>2, <2>5
    <3>2. Take(b, need) \in Seq(Byte(ByteBase)) /\ Len(Take(b, need)) = need
      BY <3>1, TakenBytes
    <3>3. Take(b, need) # <<>>
      BY <2>2, <3>2, EmptySeq
    <3> DEFINE t == Tail(Take(b, need))
    <3>4. t \in Seq(Byte(ByteBase))
      BY <3>2, <3>3, HeadTailProperties
    <3>5. ReadLE(ByteBase, t) \in Nat
      <4> HIDE DEF t
      <4>1. \A k \in DOMAIN t : t[k] \in Nat
        BY <3>4, BytesAreNats
      <4>. QED  BY <4>1, ReadLENat, SizeOfBase
    <3>6. value \in Nat
      BY <2>2, <3>5
    <3>7. Sought(b, need) = [b EXCEPT !.offset = b.offset + need]
      BY <3>1, SoughtMoves
    <3> HIDE DEF need, value
    <3>8. Sought(b, need).offset = b.offset + need
      BY <3>7 DEF Good
    <3>9. b.offset + need \in b.offset .. b.size
      BY <2>1, <3>1
    <3>10. ReadVarint(b) = Yes(Sought(b, need), value)
      BY <2>3, <2>5
    <3>11. /\ ReadVarint(b).ok /\ ReadVarint(b).value = value
           /\ ReadVarint(b).buffer = Sought(b, need)
      BY <3>10 DEF Yes
    <3>. QED  BY <3>6, <3>7, <3>8, <3>9, <3>11
  <2>. QED  BY <2>4, <2>5
<1>. QED  BY <1>1, <1>2

LEMMA ReadVarintGood ==
  ASSUME NEW b, Good(b)
  PROVE  Good(ReadVarint(b).buffer) /\ ReadVarint(b).value \in Int
<1> DEFINE r == ReadVarint(b)
           to == r.buffer.offset
<1>1. r.value \in Nat /\ (~r.ok => r.buffer = b)
      /\ (r.ok => to \in b.offset .. b.size /\ r.buffer = [b EXCEPT !.offset = to])
  BY ReadVarintMoves
<1>2. b.offset \in Nat /\ b.size \in Nat
  BY BufferAssumption DEF Good
<1> HIDE DEF to
<1>3. r.ok => to \in Nat /\ to <= b.size
  BY <1>1, <1>2
<1> HIDE DEF r
<1>4. Good(r.buffer)
  BY <1>1, <1>3, OffsetMoved
<1>. QED  BY <1>1, <1>4 DEF r

\* Every function leaves a good buffer, where it fails too.
LEMMA SeekGood ==
  ASSUME NEW b, Good(b), NEW n \in 0 .. SizeBase - 1
  PROVE  Good(SeekSet(b, n).buffer) /\ Good(SeekEnd(b, n).buffer)
<1>1. CASE n > b.size
  BY <1>1 DEF SeekSet, SeekEnd, No
<1>2. CASE ~(n > b.size)
  <2>1. SeekSet(b, n).buffer = [b EXCEPT !.offset = n]
        /\ SeekEnd(b, n).buffer = [b EXCEPT !.offset = b.size - n]
    BY <1>2 DEF SeekSet, SeekEnd, Yes
  <2>2. b.size \in Nat /\ n \in Nat /\ n <= b.size
    BY <1>2, BufferAssumption DEF Good
  <2>3. b.size - n \in Nat /\ b.size - n <= b.size
    BY <2>2
  <2>. QED  BY <2>1, <2>2, <2>3 DEF Good
<1>. QED  BY <1>1, <1>2

LEMMA ReadIntGood ==
  ASSUME NEW b, Good(b), NEW width \in Int, NEW bigEndian
  PROVE  Good(ReadInt(b, width, bigEndian).buffer)
<1>1. Good(Sought(b, width))
  BY SoughtGood
<1>. QED  BY <1>1 DEF ReadInt, Yes, No

LEMMA ReadPathGood ==
  ASSUME NEW b, Good(b), NEW n \in Int
  PROVE  Good(ReadPath(b, n).buffer)
<1>1. Good(Sought(b, 4 * n))
  BY SoughtGood
<1>. QED  BY <1>1 DEF ReadPath, Yes, No

LEMMA CopyMoveGood ==
  ASSUME NEW b, Good(b), NEW n
  PROVE  Good(Copy(b, n).buffer) /\ Good(Move(b, n).buffer)
<1>1. Rest(b) \in Int
  BY BufferAssumption DEF Good, Rest
<1>2. Good(Sought(b, Rest(b)))
  BY <1>1, SoughtGood
<1>. QED  BY <1>2 DEF Copy, Move, Yes, No

LEMMA SpcMoveGood ==
  ASSUME NEW b, Good(b), NEW n \in Int
  PROVE  Good(SpcMove(b, n).buffer)
<1>1. SizeT(n) \in Int
  BY SizeTRange
<1>2. Good(Sought(b, SizeT(n)))
  BY <1>1, SoughtGood
<1>. QED  BY <1>2 DEF SpcMove, Yes, No

LEMMA SpcFieldGood ==
  ASSUME NEW b, Good(b), NEW n \in Int, NEW kept
  PROVE  Good(SpcField(b, n, kept).buffer)
BY SpcMoveGood, SeekCurGood DEF SpcField

LEMMA VarFieldGood ==
  ASSUME NEW b, Good(b), NEW kept
  PROVE  Good(VarField(b, kept).buffer)
<1> DEFINE read == ReadVarint(b)
           c == read.buffer
           n == read.value
<1>1. Good(c) /\ n \in Int
  BY ReadVarintGood
<1>2. Good(Sought(c, n))
  BY <1>1, SoughtGood
<1>3. Good(Short(c, n))
  <2>1. Rest(c) \in Int /\ c.size \in Nat
    BY <1>1, BufferAssumption DEF Good, Rest
  <2>2. SizeT(n - Rest(c)) \in 0 .. SizeBase - 1
    BY <1>1, <2>1, SizeTRange
  <2> DEFINE lack == SizeT(n - Rest(c))
  <2>3. Short(c, n) = [c EXCEPT !.lack = lack, !.offset = c.size]
    BY DEF Short
  <2>4. lack \in 0 .. SizeBase - 1
    BY <2>2
  <2> HIDE DEF lack, c, n
  <2>5. Good([c EXCEPT !.lack = lack, !.offset = c.size])
    <3>1. Good([c EXCEPT !.lack = lack])
      BY <1>1, <2>4 DEF Good
    <3>2. [c EXCEPT !.lack = lack].size = c.size
      BY <1>1 DEF Good
    <3>3. c.size \in Nat /\ c.size <= c.size
      BY <2>1
    <3>. QED  BY <3>1, <3>2, <3>3, OffsetMoved
  <2>. QED  BY <2>3, <2>5
<1>4. VarField(b, kept).buffer \in {b, Short(c, n), Sought(c, n)}
  BY DEF VarField
<1>. QED  BY <1>2, <1>3, <1>4

---------------------------------------------------------------------------
(* The pool.                                                                *)

\* Writing into the pool changes the bytes written, and only them.
LEMMA WrittenBytes ==
  ASSUME NEW p, Good(p), NEW at \in Nat, NEW v \in Seq(Byte(ByteBase))
  PROVE  LET q == Written(p, at, v) IN
         /\ Good(q) /\ q.offset = p.offset /\ q.size = p.size
         /\ Len(q.bytes) = Len(p.bytes)
         /\ \A k \in 1 .. Len(p.bytes) :
              q.bytes[k] = IF k - at \in 1 .. Len(v) THEN v[k - at] ELSE p.bytes[k]
<1> DEFINE e(k) == IF k - at \in 1 .. Len(v) THEN v[k - at] ELSE p.bytes[k]
           w == [k \in 1 .. Len(p.bytes) |-> e(k)]
<1>1. p.bytes \in Seq(Byte(ByteBase)) /\ Len(p.bytes) \in Nat
      /\ DOMAIN p.bytes = 1 .. Len(p.bytes)
  BY LenProperties DEF Good
<1>2. Written(p, at, v) = [p EXCEPT !.bytes = w]
  BY <1>1 DEF Written, Good
<1>3. \A k \in 1 .. Len(p.bytes) : e(k) \in Byte(ByteBase)
  BY <1>1, ElementOfSeq
<1>4. w \in Seq(Byte(ByteBase)) /\ Len(w) = Len(p.bytes)
  BY <1>1, <1>3
<1>5. \A k \in 1 .. Len(p.bytes) : w[k] = e(k)
  OBVIOUS
<1> HIDE DEF w
<1>6. [p EXCEPT !.bytes = w].bytes = w
  BY DEF Good
<1>. QED  BY <1>2, <1>4, <1>5, <1>6 DEF Good

\* buffer_malloc reserves the bytes asked for behind all that has been
\* reserved, whose bytes it does not change, or nothing.
LEMMA MallocReserves ==
  ASSUME NEW p, Good(p), NEW n \in Int
  PROVE  LET r == Malloc(p, n) IN
         IF ~r.ok THEN r.buffer = p
         ELSE /\ r.value = p.offset
              /\ Good(r.buffer) /\ r.buffer.offset = p.offset + SizeT(n)
              /\ r.buffer.size = p.size /\ Len(r.buffer.bytes) = Len(p.bytes)
              /\ \A k \in 1 .. p.offset : r.buffer.bytes[k] = p.bytes[k]
<1> DEFINE sought == SeekCur(p, n)
           zeros == [k \in 1 .. SizeT(n) |-> 0]
           q == sought.buffer
           w == Written(q, p.offset, zeros)
<1>1. CASE ~sought.ok
  BY <1>1 DEF Malloc, No
<1>2. CASE sought.ok
  <2>1. Malloc(p, n) = Yes(w, p.offset)
    BY <1>2 DEF Malloc
  <2>2. SizeT(n) \in Nat
    BY SizeTRange
  <2>3. zeros \in Seq(Byte(ByteBase))
    BY <2>2, BufferAssumption DEF Byte
  <2>4. p.offset \in Nat /\ p.offset <= Len(p.bytes) /\ Len(p.bytes) \in Nat
    BY BufferAssumption, LenProperties DEF Good
  <2>5. q = [p EXCEPT !.offset = p.offset + SizeT(n)] /\ Good(q)
    BY <1>2, SeekCurMoves, SeekCurGood
  <2>6. q.offset = p.offset + SizeT(n) /\ q.size = p.size /\ q.bytes = p.bytes
    BY <2>5 DEF Good
  <2>7. Good(q)
    BY <2>5
  <2> HIDE DEF q, zeros
  <2>8. /\ Good(w) /\ w.offset = q.offset /\ w.size = q.size
        /\ Len(w.bytes) = Len(q.bytes)
        /\ \A k \in 1 .. Len(q.bytes) :
             w.bytes[k] = IF k - p.offset \in 1 .. Len(zeros) THEN zeros[k - p.offset]
                          ELSE q.bytes[k]
    BY <2>3, <2>4, <2>7, WrittenBytes
  <2>9. \A k \in 1 .. p.offset : w.bytes[k] = p.bytes[k]
    BY <2>4, <2>6, <2>8
  <2>. QED  BY <2>1, <2>6, <2>8, <2>9 DEF Yes
<1>. QED  BY <1>1, <1>2

---------------------------------------------------------------------------
(* The invariant.  A block that keeps a value is as long as the value and   *)
(* its terminator, so that the next block, which begins behind it, leaves   *)
(* both alone.                                                              *)

BlockType == [at : Nat, len : Nat, stored : Seq(Byte(ByteBase))]

Kept(block, bytes) ==
  block.stored # Nothing =>
    /\ block.len = Len(block.stored) + 1
    /\ \A i \in 1 .. Len(block.stored) : bytes[block.at + i] = block.stored[i]
    /\ bytes[block.at + Len(block.stored) + 1] = 0

PoolInv ==
  /\ Good(pool)
  /\ blocks \in Seq(BlockType)
  /\ PoolDisjoint
  /\ \A k \in DOMAIN blocks : Kept(blocks[k], pool.bytes)

LibraryInv == Good(buffer) /\ PoolInv

LEMMA LibraryInit == Init => LibraryInv
<1>. SUFFICES ASSUME Init  PROVE LibraryInv
  OBVIOUS
<1>1. Good(buffer)
  BY LibraryAssumption, BufferAssumption DEF Init, Good
<1>2. Good(pool)
  <2>1. pool = [bytes |-> PoolMemory, size |-> Len(PoolMemory), offset |-> 0, lack |-> 0]
    BY DEF Init
  <2>2. Len(PoolMemory) \in 0 .. SizeBase - 2 /\ PoolMemory \in Seq(Byte(ByteBase))
    BY LibraryAssumption, LenProperties, BufferAssumption
  <2>. QED  BY <2>1, <2>2, BufferAssumption DEF Good
<1>3. blocks = <<>> /\ blocks \in Seq(BlockType) /\ DOMAIN blocks = {}
  BY EmptySeq DEF Init
<1>. QED  BY <1>1, <1>2, <1>3 DEF LibraryInv, PoolInv, PoolDisjoint

\* No function of the buffer goes beyond the data, and none touches the pool.
LEMMA BufferStep ==
  ASSUME LibraryInv, UseBuffer
  PROVE  Good(buffer)' /\ UNCHANGED <<pool, blocks>>
<1>1. Good(buffer)
  BY DEF LibraryInv
<1>2. ASSUME NEW fn, NEW args, NEW r, Good(r.buffer), Called(fn, args, r)
      PROVE  Good(buffer)' /\ UNCHANGED <<pool, blocks>>
  BY <1>2 DEF Called, Good
<1>3. Offsets \subseteq 0 .. SizeBase - 1 /\ \A n \in Offsets : n \in Int
  <2>1. Offsets \subseteq 0 .. SizeBase - 1
    BY Zenon, LibraryAssumption
  <2>. QED  BY <2>1
<1>4. CASE Seek
  <2>1. PICK n \in Offsets :
          \/ Called("seek_set", [to |-> n], SeekSet(buffer, n))
          \/ Called("seek_cur", [to |-> buffer.offset + n], SeekCur(buffer, n))
          \/ Called("seek_end", [to |-> buffer.size - n], SeekEnd(buffer, n))
    BY <1>4 DEF Seek
  <2>2. Good(SeekSet(buffer, n).buffer) /\ Good(SeekEnd(buffer, n).buffer)
    BY <1>1, <1>3, SeekGood
  <2>3. Good(SeekCur(buffer, n).buffer)
    BY <1>1, <1>3, SeekCurGood
  <2>. QED  BY <1>2, <2>1, <2>2, <2>3
<1>5. CASE ReadInteger
  BY <1>1, <1>2, <1>5, ReadIntGood DEF ReadInteger
<1>6. CASE ReadNumber
  BY <1>1, <1>2, <1>6, ReadVarintGood DEF ReadNumber
<1>7. CASE ReadBip32Path
  <2>1. MaxPath \in Nat
    BY BufferAssumption
  <2>. QED  BY <1>1, <1>2, <1>7, <2>1, ReadPathGood DEF ReadBip32Path
<1>8. CASE TakeBytes
  BY <1>1, <1>2, <1>3, <1>8, CopyMoveGood, SpcFieldGood DEF TakeBytes
<1>9. CASE ReadField
  <2>1. PICK kept \in BOOLEAN :
          Called("var_field", [kept |-> kept],
                 [ok |-> VarField(buffer, kept).status,
                  buffer |-> VarField(buffer, kept).buffer,
                  value |-> VarField(buffer, kept).value])
    BY <1>9 DEF ReadField
  <2>2. Good(VarField(buffer, kept).buffer)
    BY <1>1, VarFieldGood
  <2>. QED  BY <1>2, <2>1, <2>2
<1>. QED  BY <1>4, <1>5, <1>6, <1>7, <1>8, <1>9 DEF UseBuffer

\* A block behind all others, in a pool whose bytes in front of it are what
\* they were, keeps the invariant.
LEMMA BlockAppended ==
  ASSUME PoolInv, NEW q, Good(q), NEW b \in BlockType,
         Len(q.bytes) = Len(pool.bytes),
         \A k \in 1 .. pool.offset : q.bytes[k] = pool.bytes[k],
         b.at = pool.offset, End(b) = q.offset, Kept(b, q.bytes),
         pool' = q, blocks' = Append(blocks, b)
  PROVE  PoolInv'
<1>1. /\ blocks \in Seq(BlockType) /\ Len(blocks) \in Nat
      /\ DOMAIN blocks = 1 .. Len(blocks)
  BY LenProperties DEF PoolInv
<1>2. /\ blocks' \in Seq(BlockType) /\ Len(blocks') = Len(blocks) + 1
      /\ \A k \in 1 .. Len(blocks) : blocks'[k] = blocks[k]
      /\ blocks'[Len(blocks) + 1] = b
  BY <1>1, AppendProperties
<1>3. DOMAIN blocks' = 1 .. Len(blocks) + 1
  BY <1>2, LenProperties
<1>4. /\ b.at \in Nat /\ b.len \in Nat /\ pool.offset \in Nat /\ q.offset \in Nat
      /\ pool.offset <= q.offset /\ q.offset = pool.offset + b.len
  BY DEF BlockType, Good, PoolInv, End
<1>5. \A k \in 1 .. Len(blocks) : blocks[k].at \in Nat /\ blocks[k].len \in Nat
        /\ blocks[k].stored \in Seq(Byte(ByteBase)) /\ End(blocks[k]) <= pool.offset
  <2>. TAKE k \in 1 .. Len(blocks)
  <2>1. blocks[k] \in BlockType
    BY <1>1, ElementOfSeq
  <2>2. End(blocks[k]) <= pool.offset
    BY <1>1 DEF PoolInv, PoolDisjoint
  <2>. QED  BY <2>1, <2>2 DEF BlockType
<1>6. PoolDisjoint'
  <2>1. \A k \in 1 .. Len(blocks) + 1 : End(blocks'[k]) <= q.offset
    BY <1>1, <1>2, <1>4, <1>5 DEF End
  <2>2. ASSUME NEW j \in 1 .. Len(blocks) + 1, NEW k \in 1 .. Len(blocks) + 1, j < k
        PROVE  End(blocks'[j]) <= blocks'[k].at
    <3>1. CASE k \in 1 .. Len(blocks)
      <4>1. j \in 1 .. Len(blocks)
        BY <1>1, <2>2, <3>1
      <4>. QED  BY <1>1, <1>2, <2>2, <3>1, <4>1 DEF PoolInv, PoolDisjoint
    <3>2. CASE k = Len(blocks) + 1
      <4>1. j \in 1 .. Len(blocks)
        BY <1>1, <2>2, <3>2
      <4>. QED  BY <1>2, <1>5, <3>2, <4>1
    <3>. QED  BY <1>1, <3>1, <3>2
  <2>. QED  BY <1>3, <2>1, <2>2 DEF PoolDisjoint, End
<1>7. \A k \in 1 .. Len(blocks) + 1 : Kept(blocks'[k], q.bytes)
  <2>. SUFFICES ASSUME NEW k \in 1 .. Len(blocks)  PROVE Kept(blocks[k], q.bytes)
    BY <1>1, <1>2
  <2>1. Kept(blocks[k], pool.bytes)
    BY <1>1 DEF PoolInv
  <2>2. CASE blocks[k].stored = Nothing
    BY <2>2 DEF Kept
  <2>3. CASE blocks[k].stored # Nothing
    <3> DEFINE n == Len(blocks[k].stored)
               at == blocks[k].at
    <3>1. at \in Nat /\ blocks[k].stored \in Seq(Byte(ByteBase))
          /\ at + blocks[k].len <= pool.offset
      BY <1>5 DEF End
    <3>2. n \in Nat
      BY <3>1, LenProperties
    <3>3. blocks[k].len = n + 1
      BY <2>1, <2>3 DEF Kept
    <3>4. at + (n + 1) <= pool.offset
      BY <3>1, <3>3
    <3>5. /\ \A i \in 1 .. n : pool.bytes[at + i] = blocks[k].stored[i]
          /\ pool.bytes[at + n + 1] = 0
      BY <2>1, <2>3 DEF Kept
    <3>6. SUFFICES /\ \A i \in 1 .. n : q.bytes[at + i] = blocks[k].stored[i]
                   /\ q.bytes[at + n + 1] = 0
      BY <3>3 DEF Kept
    <3> HIDE DEF n, at
    <3>7. \A i \in 1 .. n : at + i \in 1 .. pool.offset
      BY SMTT(30), <1>4, <3>1, <3>2, <3>4
    <3>8. at + n + 1 \in 1 .. pool.offset
      BY <1>4, <3>1, <3>2, <3>4
    <3>. QED  BY <3>5, <3>7, <3>8
  <2>. QED  BY <2>2, <2>3
<1>8. Good(pool)'
  BY DEF Good
<1>9. (\A k \in DOMAIN blocks : Kept(blocks[k], pool.bytes))'
  BY SMTT(30), <1>3, <1>7 DEF Kept
<1>. QED  BY <1>2, <1>6, <1>8, <1>9 DEF PoolInv

LEMMA PoolStep ==
  ASSUME LibraryInv, UsePool
  PROVE  LibraryInv'
<1>1. Good(buffer) /\ PoolInv /\ Good(pool) /\ blocks \in Seq(BlockType)
  BY DEF LibraryInv, PoolInv
<1>2. CASE InitPool
  <2>1. Good(buffer)'
    BY <1>1, <1>2 DEF InitPool, Good
  <2>2. Good(EmptyPool(pool))
    <3>1. 0 \in Nat /\ 0 <= pool.size
      BY <1>1, BufferAssumption DEF Good
    <3>. QED  BY <1>1, <3>1, OffsetMoved DEF EmptyPool
  <2>3. Good(pool)'
    BY <1>2, <2>2 DEF InitPool, Good
  <2>4. blocks' = <<>> /\ blocks' \in Seq(BlockType) /\ DOMAIN blocks' = {}
    BY <1>2, EmptySeq DEF InitPool
  <2>. QED  BY <2>1, <2>3, <2>4 DEF LibraryInv, PoolInv, PoolDisjoint
<1>3. CASE Reserve
  <2>1. PICK n \in Offsets :
          LET r == Malloc(pool, n) IN
          /\ pool' = r.buffer
          /\ blocks' = IF r.ok THEN Append(blocks, Block(r.value, n, Nothing))
                       ELSE blocks
    BY <1>3 DEF Reserve
  <2> DEFINE r == Malloc(pool, n)
             b == Block(r.value, n, Nothing)
  <2>2. Good(buffer)'
    BY <1>1, <1>3 DEF Reserve, Good
  <2>3. n \in Nat /\ n \in Int /\ SizeT(n) = n
    BY LibraryAssumption, BufferAssumption, SizeTRange
  <2>4. CASE ~r.ok
    <3>1. r.buffer = pool
      BY <1>1, <2>3, <2>4, MallocReserves
    <3>2. pool' = pool /\ blocks' = blocks
      BY <2>1, <2>4, <3>1
    <3>. QED  BY <1>1, <2>2, <3>2 DEF LibraryInv, PoolInv, PoolDisjoint, Good
  <2>5. CASE r.ok
    <3>1. /\ r.value = pool.offset
          /\ Good(r.buffer) /\ r.buffer.offset = pool.offset + SizeT(n)
          /\ Len(r.buffer.bytes) = Len(pool.bytes)
          /\ \A k \in 1 .. pool.offset : r.buffer.bytes[k] = pool.bytes[k]
      BY <1>1, <2>3, <2>5, MallocReserves
    <3>2. pool' = r.buffer /\ blocks' = Append(blocks, b)
      BY <2>1, <2>5
    <3>3. pool.offset \in Nat
      BY <1>1 DEF Good
    <3>4. b \in BlockType /\ b.at = pool.offset /\ b.len = n /\ b.stored = Nothing
      BY <2>3, <3>1, <3>3, EmptySeq DEF Block, BlockType, Nothing
    <3>5. End(b) = r.buffer.offset
      BY <2>3, <3>1, <3>4 DEF End
    <3>6. Kept(b, r.buffer.bytes)
      BY <3>4 DEF Kept
    <3> HIDE DEF r, b
    <3>7. PoolInv'
      BY <1>1, <3>1, <3>2, <3>4, <3>5, <3>6, BlockAppended
    <3>. QED  BY <2>2, <3>7 DEF LibraryInv
  <2>. QED  BY <2>4, <2>5
<1>4. CASE KeepValue
  <2> DEFINE len == ReadVarint(buffer)
             n == len.value
             reserved == Malloc(pool, Room(n))
             field == SpcMove(len.buffer, n)
             v == field.value
             whole == Block(reserved.value, SizeT(Room(n)), v)
             empty == Block(reserved.value, SizeT(Room(n)), Nothing)
             q == Written(reserved.buffer, reserved.value, Append(v, 0))
  <2>1. Good(len.buffer) /\ n \in Int /\ Room(n) \in Int /\ Room(n) = n + 1
    BY <1>1, ReadVarintGood DEF Room
  <2>2. SizeT(Room(n)) \in Nat /\ SizeT(n) \in Nat
    BY <2>1, SizeTRange
  <2>3. pool.offset \in Nat
    BY <1>1 DEF Good
  <2>4. CASE ~reserved.ok
    <3>1. buffer' = len.buffer /\ pool' = pool /\ blocks' = blocks
      BY <1>4, <2>4 DEF KeepValue
    <3>2. Good(buffer)'
      BY <2>1, <3>1 DEF Good
    <3>. QED  BY <1>1, <3>1, <3>2 DEF LibraryInv, PoolInv, PoolDisjoint, Good
  <2>5. CASE reserved.ok
    <3>1. /\ reserved.value = pool.offset
          /\ Good(reserved.buffer)
          /\ reserved.buffer.offset = pool.offset + SizeT(Room(n))
          /\ Len(reserved.buffer.bytes) = Len(pool.bytes)
          /\ \A k \in 1 .. pool.offset : reserved.buffer.bytes[k] = pool.bytes[k]
      BY <1>1, <2>1, <2>5, MallocReserves
    <3>2. CASE ~field.ok
      <4>1. buffer' = len.buffer /\ pool' = reserved.buffer
            /\ blocks' = Append(blocks, empty)
        BY <1>4, <2>5, <3>2 DEF KeepValue
      <4>2. Good(buffer)'
        BY <2>1, <4>1 DEF Good
      <4>3. /\ empty \in BlockType /\ empty.at = pool.offset
            /\ empty.len = SizeT(Room(n)) /\ empty.stored = Nothing
        BY <2>2, <2>3, <3>1, EmptySeq DEF Block, BlockType, Nothing
      <4>4. End(empty) = reserved.buffer.offset /\ Kept(empty, reserved.buffer.bytes)
        BY <3>1, <4>3 DEF End, Kept
      <4> HIDE DEF reserved, empty
      <4>5. PoolInv'
        BY <1>1, <3>1, <4>1, <4>3, <4>4, BlockAppended
      <4>. QED  BY <4>2, <4>5 DEF LibraryInv
    <3>3. CASE field.ok
      <4>1. buffer' = field.buffer /\ pool' = q /\ blocks' = Append(blocks, whole)
        BY <1>4, <2>5, <3>3 DEF KeepValue
      <4>2. Good(buffer)'
        <5>1. Good(field.buffer)
          BY <2>1, SpcMoveGood
        <5>. QED  BY <4>1, <5>1 DEF Good
      <4>3. v \in Seq(Byte(ByteBase)) /\ Len(v) = SizeT(n) /\ SizeT(Room(n)) = SizeT(n) + 1
        <5>1. ~(Rest(len.buffer) < SizeT(n)) /\ v = Take(len.buffer, SizeT(n))
          BY <3>3 DEF SpcMove, Yes, No
        <5>2. len.buffer.offset \in Nat /\ len.buffer.size \in 0 .. SizeBase - 2
              /\ SizeBase \in Nat
          BY <2>1, BufferAssumption DEF Good
        <5>3. len.buffer.offset + SizeT(n) <= len.buffer.size /\ SizeT(n) <= SizeBase - 2
          BY <2>2, <5>1, <5>2 DEF Rest
        <5>4. v \in Seq(Byte(ByteBase)) /\ Len(v) = SizeT(n)
          BY <2>1, <2>2, <5>1, <5>3, TakenBytes
        <5>5. SizeT(n + 1) = SizeT(n) + 1
          BY <2>1, <5>3, SizeTNext
        <5>. QED  BY <2>1, <5>4, <5>5
      <4>4. /\ whole \in BlockType /\ whole.at = pool.offset
            /\ whole.len = SizeT(Room(n)) /\ whole.stored = v
        BY <2>2, <2>3, <3>1, <4>3 DEF Block, BlockType
      <4> HIDE DEF v, n, whole
      <4>5. q = Written(reserved.buffer, pool.offset, Append(v, 0))
        BY <3>1
      <4> HIDE DEF reserved, q
      <4>6. 0 \in Byte(ByteBase)
        BY BufferAssumption DEF Byte
      <4>7. /\ Append(v, 0) \in Seq(Byte(ByteBase)) /\ Len(Append(v, 0)) = Len(v) + 1
            /\ \A i \in 1 .. Len(v) : Append(v, 0)[i] = v[i]
            /\ Append(v, 0)[Len(v) + 1] = 0
        BY <4>3, <4>6, AppendProperties
      <4>8. /\ Good(q) /\ q.offset = reserved.buffer.offset
            /\ Len(q.bytes) = Len(reserved.buffer.bytes)
            /\ \A k \in 1 .. Len(reserved.buffer.bytes) :
                 q.bytes[k] = IF k - pool.offset \in 1 .. Len(Append(v, 0))
                              THEN Append(v, 0)[k - pool.offset]
                              ELSE reserved.buffer.bytes[k]
        <5> DEFINE rb == reserved.buffer
                   w == Append(v, 0)
        <5>1. Good(rb) /\ pool.offset \in Nat /\ w \in Seq(Byte(ByteBase))
          BY <2>3, <3>1, <4>7
        <5>2. q = Written(rb, pool.offset, w)
          BY <4>5
        <5> HIDE DEF rb, w
        <5>3. /\ Good(q) /\ q.offset = rb.offset /\ Len(q.bytes) = Len(rb.bytes)
              /\ \A k \in 1 .. Len(rb.bytes) :
                   q.bytes[k] = IF k - pool.offset \in 1 .. Len(w)
                                THEN w[k - pool.offset] ELSE rb.bytes[k]
          BY ZenonT(60), <5>1, <5>2, WrittenBytes
        <5>. QED  BY <5>3 DEF rb, w
      <4>9. /\ Len(pool.bytes) \in Nat /\ pool.offset + (Len(v) + 1) <= Len(pool.bytes)
            /\ Len(v) \in Nat
        <5>1. reserved.buffer.offset <= Len(pool.bytes)
          BY <3>1, BufferAssumption, LenProperties DEF Good
        <5>2. Len(pool.bytes) \in Nat /\ Len(v) \in Nat
          BY <1>1, <4>3, LenProperties DEF Good
        <5>. QED  BY <3>1, <4>3, <5>1, <5>2
      <4>10. \A k \in 1 .. pool.offset : q.bytes[k] = pool.bytes[k]
        <5>. TAKE k \in 1 .. pool.offset
        <5>1. k \in 1 .. Len(pool.bytes) /\ ~(k - pool.offset \in 1 .. Len(Append(v, 0)))
          BY <2>3, <4>7, <4>9
        <5>. QED  BY <3>1, <4>8, <5>1
      <4>11. /\ \A i \in 1 .. Len(v) : q.bytes[pool.offset + i] = v[i]
             /\ q.bytes[pool.offset + Len(v) + 1] = 0
        <5>1. \A i \in 1 .. Len(v) + 1 :
                /\ pool.offset + i \in 1 .. Len(pool.bytes)
                /\ (pool.offset + i) - pool.offset = i
          BY <2>3, <4>9
        <5>2. \A i \in 1 .. Len(v) + 1 : q.bytes[pool.offset + i] = Append(v, 0)[i]
          BY <3>1, <4>7, <4>8, <5>1
        <5>3. /\ \A i \in 1 .. Len(v) : i \in 1 .. Len(v) + 1
              /\ Len(v) + 1 \in 1 .. Len(v) + 1
              /\ pool.offset + Len(v) + 1 = pool.offset + (Len(v) + 1)
          BY <2>3, <4>9
        <5>. QED  BY <4>7, <5>2, <5>3
      <4>12. Kept(whole, q.bytes)
        BY <4>3, <4>4, <4>11 DEF Kept
      <4>13. End(whole) = q.offset
        BY <3>1, <4>4, <4>8 DEF End
      <4>14. Len(q.bytes) = Len(pool.bytes)
        BY <3>1, <4>8
      <4>15. PoolInv'
        BY <1>1, <4>1, <4>4, <4>8, <4>10, <4>12, <4>13, <4>14, BlockAppended
      <4>. QED  BY <4>2, <4>15 DEF LibraryInv
    <3>. QED  BY <3>2, <3>3
  <2>. QED  BY <2>4, <2>5
<1>. QED  BY <1>2, <1>3, <1>4 DEF UsePool

LEMMA LibraryStep == LibraryInv /\ [Next]_vars => LibraryInv'
<1>. SUFFICES ASSUME LibraryInv, [Next]_vars  PROVE LibraryInv'
  OBVIOUS
<1>1. ASSUME UNCHANGED <<buffer, pool, blocks>>  PROVE LibraryInv'
  BY <1>1 DEF LibraryInv, PoolInv, PoolDisjoint, Good, Kept, End
<1>2. CASE UseBuffer
  <2>1. Good(buffer)' /\ UNCHANGED <<pool, blocks>>
    BY <1>2, BufferStep
  <2>. QED  BY <2>1 DEF LibraryInv, PoolInv, PoolDisjoint, Good, Kept, End
<1>3. CASE UsePool
  BY <1>3, PoolStep
<1>4. CASE Evaluate
  BY <1>1, <1>4 DEF Evaluate, WriteVarint, Arithmetic, Divide, ShowAmount, ShowFee,
    FormatDigits, FormatNumber, Base58Encode, ShowAddress, Sign, Evaluated
<1>5. CASE Return
  BY <1>1, <1>5 DEF Return
<1>6. CASE UNCHANGED vars
  BY <1>1, <1>6 DEF vars
<1>. QED  BY <1>2, <1>3, <1>4, <1>5, <1>6 DEF Next

---------------------------------------------------------------------------
(* The pool, seeks, sums and fields.                                        *)

\* The offset of a buffer stays within the data and that of the pool within
\* the pool, whatever lengths and numbers the data has.
THEOREM LibraryTypes == Spec => []TypeOK
<1>1. LibraryInv => TypeOK
  <2>. SUFFICES ASSUME LibraryInv  PROVE TypeOK
    OBVIOUS
  <2>1. /\ buffer.offset \in 0 .. buffer.size /\ buffer.lack \in 0 .. SizeBase - 1
        /\ pool.offset \in 0 .. pool.size
    BY BufferAssumption DEF LibraryInv, PoolInv, Good
  <2>2. \A k \in DOMAIN blocks : blocks[k] \in BlockType
    BY LenProperties, ElementOfSeq DEF LibraryInv, PoolInv
  <2>. QED  BY <2>1, <2>2 DEF TypeOK, BlockType
<1>. QED  BY <1>1, LibraryInit, LibraryStep, PTL DEF Spec

\* No byte of the pool is reserved twice, for pools of every size and requests
\* of every length, those that wrap included.
THEOREM BlocksDisjoint == Spec => []PoolDisjoint
<1>1. LibraryInv => PoolDisjoint
  BY DEF LibraryInv, PoolInv
<1>. QED  BY <1>1, LibraryInit, LibraryStep, PTL DEF Spec

\* A value of a contract call stays in the pool as it was read, with its
\* terminator, however many values follow and however long they are.
THEOREM ValuesIntact == Spec => []KeptIntact
<1>1. LibraryInv => KeptIntact
  <2>. SUFFICES ASSUME LibraryInv, NEW k \in DOMAIN blocks, blocks[k].stored # Nothing
       PROVE  LET b == blocks[k] IN
              /\ b.at + Len(b.stored) < Len(pool.bytes)
              /\ SubSeq(pool.bytes, b.at + 1, b.at + Len(b.stored) + 1)
                   = Append(b.stored, 0)
    BY DEF KeptIntact
  <2> DEFINE at == blocks[k].at
             v == blocks[k].stored
             from == at + 1
             to == at + Len(v) + 1
             sub == SubSeq(pool.bytes, from, to)
  <2>1. blocks[k] \in BlockType
    BY LenProperties, ElementOfSeq DEF LibraryInv, PoolInv
  <2>2. at \in Nat /\ v \in Seq(Byte(ByteBase)) /\ blocks[k].len = Len(v) + 1
        /\ at + blocks[k].len <= pool.offset
    BY <2>1 DEF BlockType, LibraryInv, PoolInv, PoolDisjoint, End, Kept
  <2>3. /\ \A i \in 1 .. Len(v) : pool.bytes[at + i] = v[i]
        /\ pool.bytes[at + Len(v) + 1] = 0
    BY DEF LibraryInv, PoolInv, Kept
  <2>4. /\ pool.offset <= Len(pool.bytes) /\ Len(pool.bytes) \in Nat
        /\ pool.offset \in Nat /\ pool.bytes \in Seq(Byte(ByteBase))
    BY BufferAssumption, LenProperties DEF LibraryInv, PoolInv, Good
  <2>5. Len(v) \in Nat /\ 0 \in Byte(ByteBase)
    BY <2>2, LenProperties, BufferAssumption DEF Byte
  <2>6. at + (Len(v) + 1) <= Len(pool.bytes)
    BY <2>2, <2>4, <2>5
  <2>7. \A i \in at + 1 .. at + Len(v) + 1 : pool.bytes[i] \in Byte(ByteBase)
    BY <2>2, <2>4, <2>5, <2>6, ElementOfSeq
  <2>8. /\ sub \in Seq(Byte(ByteBase))
        /\ Len(sub) = IF from <= to THEN to - from + 1 ELSE 0
        /\ \A i \in 1 .. to - from + 1 : sub[i] = pool.bytes[from + i - 1]
    <3>1. from \in Int /\ to \in Int
          /\ \A i \in from .. to : pool.bytes[i] \in Byte(ByteBase)
      BY <2>2, <2>5, <2>7
    <3> HIDE DEF from, to
    <3>. QED  BY <3>1, SubSeqProperties
  <2>9. /\ Append(v, 0) \in Seq(Byte(ByteBase)) /\ Len(Append(v, 0)) = Len(v) + 1
        /\ \A i \in 1 .. Len(v) : Append(v, 0)[i] = v[i]
        /\ Append(v, 0)[Len(v) + 1] = 0
    BY <2>2, <2>5, AppendProperties
  <2> HIDE DEF at, v, sub
  <2>10. Len(sub) = Len(v) + 1 /\ to - from + 1 = Len(v) + 1
    BY <2>2, <2>5, <2>8
  <2>11. \A i \in 1 .. Len(v) + 1 : from + i - 1 = at + i
    BY <2>2, <2>5
  <2>12. \A i \in 1 .. Len(v) + 1 : sub[i] = pool.bytes[at + i]
    BY <2>8, <2>10, <2>11
  <2>13. at + (Len(v) + 1) = at + Len(v) + 1
    BY <2>2, <2>5
  <2>14. \A i \in 1 .. Len(v) + 1 : sub[i] = Append(v, 0)[i]
    <3>. TAKE i \in 1 .. Len(v) + 1
    <3>1. i \in 1 .. Len(v) \/ i = Len(v) + 1
      BY <2>5
    <3>. QED  BY <2>3, <2>9, <2>12, <2>13, <3>1
  <2>15. sub = Append(v, 0)
    BY <2>8, <2>9, <2>10, <2>14, SeqEqual
  <2>16. at + Len(v) < Len(pool.bytes)
    BY <2>2, <2>4, <2>5, <2>6
  <2>. QED  BY <2>15, <2>16 DEF at, v, sub
<1>. QED  BY <1>1, LibraryInit, LibraryStep, PTL DEF Spec

\* The result of a function is left by a call of it.
LEMMA CallOf ==
  ASSUME Next
  PROVE  /\ call'.fn \in {"seek_set", "seek_cur", "seek_end"} => Seek
         /\ call'.fn = "add_sub" => Arithmetic
         /\ call'.fn = "var_field" => ReadField
         /\ call'.fn = "read_path" => ReadBip32Path
         /\ call'.fn = "sign" => Sign
         /\ call'.fn = "varint_write" => WriteVarint
         /\ call'.fn = "read_int" => ReadInteger
         /\ call'.fn \in {"copy", "move", "spc_field"} => TakeBytes
         /\ call'.fn = "divmod" => Divide
         /\ call'.fn = "amount" => ShowAmount
         /\ call'.fn = "fee" => ShowFee
         /\ call'.fn = "decimals" => FormatDigits
         /\ call'.fn = "u64" => FormatNumber
         /\ call'.fn = "base58" => Base58Encode
         /\ call'.fn = "address" => ShowAddress
<1>1. CASE UseBuffer
  BY <1>1 DEF UseBuffer, Seek, ReadInteger, ReadNumber, ReadBip32Path, TakeBytes,
    ReadField, Called
<1>2. CASE UsePool
  BY <1>2 DEF UsePool, InitPool, Reserve, KeepValue, Ready, NoCall
<1>3. CASE Evaluate
  BY <1>3 DEF Evaluate, WriteVarint, Arithmetic, Divide, ShowAmount, ShowFee,
    FormatDigits, FormatNumber, Base58Encode, ShowAddress, Sign, Evaluated
<1>4. CASE Return
  BY <1>4 DEF Return, NoCall
<1>. QED  BY <1>1, <1>2, <1>3, <1>4 DEF Next

\* A seek goes where the numbers say, or nowhere: no offset that a host chooses
\* wraps around the width of a size_t.
THEOREM SeeksExact == Spec => []SeekExact
<1>1. Init => SeekExact
  BY DEF Init, SeekExact, NoCall
<1>2. LibraryInv /\ SeekExact /\ [Next]_vars => SeekExact'
  <2>. SUFFICES ASSUME LibraryInv, SeekExact, [Next]_vars  PROVE SeekExact'
    OBVIOUS
  <2>1. CASE UNCHANGED vars
    BY <2>1 DEF vars, SeekExact
  <2>2. CASE Next /\ ~Seek
    BY <2>2, CallOf DEF SeekExact
  <2>3. CASE Seek
    <3>1. Good(buffer)
      BY DEF LibraryInv
    <3>2. PICK n \in Offsets :
            \/ Called("seek_set", [to |-> n], SeekSet(buffer, n))
            \/ Called("seek_cur", [to |-> buffer.offset + n], SeekCur(buffer, n))
            \/ Called("seek_end", [to |-> buffer.size - n], SeekEnd(buffer, n))
      BY <2>3 DEF Seek
    <3>3. n \in Nat /\ SizeT(n) = n /\ n \in Int
      BY LibraryAssumption, BufferAssumption, SizeTRange
    <3>4. buffer.offset \in Nat /\ buffer.size \in Nat /\ buffer.offset <= buffer.size
      BY <3>1, BufferAssumption DEF Good
    <3>5. ASSUME NEW fn, NEW to, NEW r, Called(fn, [to |-> to], r),
                 r.ok => r.buffer = [buffer EXCEPT !.offset = to],
                 ~r.ok => r.buffer = buffer /\ to \notin 0 .. buffer.size
          PROVE  SeekExact'
      BY <3>5 DEF Called, SeekExact
    <3>6. CASE Called("seek_set", [to |-> n], SeekSet(buffer, n))
      <4>1. CASE n > buffer.size
        BY <3>3, <3>4, <3>5, <3>6, <4>1 DEF SeekSet, No
      <4>2. CASE ~(n > buffer.size)
        BY <3>3, <3>4, <3>5, <3>6, <4>2 DEF SeekSet, Yes
      <4>. QED  BY <4>1, <4>2
    <3>7. CASE Called("seek_cur", [to |-> buffer.offset + n], SeekCur(buffer, n))
      <4>1. /\ SeekCur(buffer, n).ok <=> buffer.offset + n <= buffer.size
            /\ SeekCur(buffer, n).ok =>
                 SeekCur(buffer, n).buffer = [buffer EXCEPT !.offset = buffer.offset + n]
            /\ ~SeekCur(buffer, n).ok => SeekCur(buffer, n).buffer = buffer
        BY <3>1, <3>3, SeekCurMoves
      <4>2. ~(buffer.offset + n <= buffer.size) => buffer.offset + n \notin 0 .. buffer.size
        BY <3>3, <3>4
      <4>. QED  BY <3>5, <3>7, <4>1, <4>2
    <3>8. CASE Called("seek_end", [to |-> buffer.size - n], SeekEnd(buffer, n))
      <4>1. CASE n > buffer.size
        BY <3>3, <3>4, <3>5, <3>8, <4>1 DEF SeekEnd, No
      <4>2. CASE ~(n > buffer.size)
        BY <3>3, <3>4, <3>5, <3>8, <4>2 DEF SeekEnd, Yes
      <4>. QED  BY <4>1, <4>2
    <3>. QED  BY <3>2, <3>6, <3>7, <3>8
  <2>. QED  BY <2>1, <2>2, <2>3
<1>. QED  BY <1>1, <1>2, LibraryInit, LibraryStep, PTL DEF Spec

\* The sums of the parser and the difference that is shown as the fee are those
\* of numbers of 256 bits, or of words of any other width.
THEOREM SumsAreRight == Spec => []SumsWrap
<1>1. Init => SumsWrap
  BY DEF Init, SumsWrap, NoCall
<1>2. SumsWrap /\ [Next]_vars => SumsWrap'
  <2>. SUFFICES ASSUME SumsWrap, [Next]_vars  PROVE SumsWrap'
    OBVIOUS
  <2>1. CASE UNCHANGED vars
    BY <2>1 DEF vars, SumsWrap
  <2>2. CASE Next /\ ~Arithmetic
    BY <2>2, CallOf DEF SumsWrap
  <2>3. CASE Arithmetic
    <3>1. PICK x \in Numbers, y \in Numbers :
            call' = [fn |-> "add_sub", x |-> x, y |-> y,
                     sum |-> Add256(x, y), difference |-> Sub256(x, y)]
      BY <2>3 DEF Arithmetic, Evaluated
    <3>2. x \in U256 /\ y \in U256
      BY LibraryAssumption
    <3>3. /\ Add256(x, y) \in U256
          /\ \E carry \in {0, 1} :
               Value256(x) + Value256(y) = Value256(Add256(x, y)) + carry * Modulus
      BY <3>2, Sum256
    <3>4. /\ Sub256(x, y) \in U256
          /\ \E borrow \in {0, 1} :
               Value256(x) - Value256(y) = Value256(Sub256(x, y)) - borrow * Modulus
      BY <3>2, Difference256
    <3>5. call'.x = x /\ call'.y = y /\ call'.sum = Add256(x, y)
          /\ call'.difference = Sub256(x, y)
      BY <3>1
    <3>. QED  BY <3>3, <3>4, <3>5 DEF SumsWrap
  <2>. QED  BY <2>1, <2>2, <2>3
<1>. QED  BY <1>1, <1>2, PTL DEF Spec

\* Every division that is made gives the quotient and the remainder.
THEOREM QuotientsAreExact == Spec => []QuotientExact
<1>1. Init => QuotientExact
  BY DEF Init, QuotientExact, NoCall
<1>2. QuotientExact /\ [Next]_vars => QuotientExact'
  <2>. SUFFICES ASSUME QuotientExact, [Next]_vars  PROVE QuotientExact'
    OBVIOUS
  <2>1. CASE UNCHANGED vars
    BY <2>1 DEF vars, QuotientExact
  <2>2. CASE Next /\ ~Divide
    BY <2>2, CallOf DEF QuotientExact
  <2>3. CASE Divide
    <3>1. CASE \E x \in Numbers, y \in Divisors :
                 call' = [fn |-> "divmod", x |-> x, y |-> y, result |-> Divmod256(x, y)]
      <4>1. PICK x \in Numbers, y \in Divisors :
              call' = [fn |-> "divmod", x |-> x, y |-> y, result |-> Divmod256(x, y)]
        BY <3>1
      <4>2. x \in U256 /\ y \in U256 \ {Zero256}
        BY LibraryAssumption
      <4>3. /\ Value256(x) = Value256(Divmod256(x, y).div) * Value256(y)
                             + Value256(Divmod256(x, y).mod)
            /\ Value256(Divmod256(x, y).mod) < Value256(y)
        BY <4>2, Quotient256
      <4>4. call'.x = x /\ call'.y = y /\ call'.result = Divmod256(x, y)
        BY <4>1
      <4>. QED  BY <4>3, <4>4 DEF QuotientExact
    <3>2. CASE call'.fn # "divmod"
      BY <3>2 DEF QuotientExact
    <3>. QED  BY <2>3, <3>1, <3>2 DEF Divide, Evaluated
  <2>. QED  BY <2>1, <2>2, <2>3
<1>. QED  BY <1>1, <1>2, PTL DEF Spec

\* A field of variable size is taken whole or as far as it is there, and what
\* lacks is counted, for every length that a size_t can count.
THEOREM FieldsExact == Spec => []VarFieldExact
<1>1. Init => VarFieldExact
  BY DEF Init, VarFieldExact, NoCall
<1>2. LibraryInv /\ VarFieldExact /\ [Next]_vars => VarFieldExact'
  <2>. SUFFICES ASSUME LibraryInv, VarFieldExact, [Next]_vars  PROVE VarFieldExact'
    OBVIOUS
  <2>1. CASE UNCHANGED vars
    BY <2>1 DEF vars, VarFieldExact, Between
  <2>2. CASE Next /\ ~ReadField
    BY <2>2, CallOf DEF VarFieldExact
  <2>3. CASE ReadField
    <3>1. PICK kept \in BOOLEAN :
            LET r == VarField(buffer, kept) IN
            /\ buffer' = r.buffer
            /\ call' = [fn |-> "var_field", args |-> [kept |-> kept], before |-> buffer,
                        ok |-> r.status, value |-> r.value]
      BY <2>3 DEF ReadField, Called
    <3> DEFINE b == buffer
               read == ReadVarint(b)
               c == read.buffer
               n == read.value
               field == VarField(b, kept)
               from == c.offset
    <3>2. Good(b) /\ Good(c)
      BY ReadVarintGood DEF LibraryInv
    <3>3. /\ n \in Nat
          /\ ~read.ok => c = b
          /\ read.ok => from \in b.offset .. b.size /\ c = [b EXCEPT !.offset = from]
      BY <3>2, ReadVarintMoves
    <3>4. c.offset \in Nat /\ c.size \in 0 .. SizeBase - 2 /\ c.offset <= c.size
      BY <3>2 DEF Good
    <3> HIDE DEF field
    <3>10. /\ buffer' = field.buffer
           /\ call'.before = b /\ call'.args.kept = kept
           /\ call'.ok = field.status /\ call'.value = field.value
      BY <3>1 DEF field
    <3>5. CASE ~read.ok
      <4>1. field = [status |-> "length", buffer |-> b, value |-> <<>>]
        BY <3>5 DEF VarField, field
      <4>2. call'.ok = "length" /\ buffer' = b /\ call'.before = b
        BY <3>10, <4>1
      <4>. QED  BY <3>5, <4>2 DEF VarFieldExact
    <3>6. CASE read.ok /\ ~(n < SizeBase)
      <4>1. call'.before = b
        BY <3>1
      <4>. QED  BY <3>6, <4>1 DEF VarFieldExact
    <3>7. CASE read.ok /\ n < SizeBase
      <4>1. SizeT(n) = n
        BY <3>3, <3>7, SizeOfBase, SizeTRange
      <4>2. c.size = b.size /\ c.bytes = b.bytes
        BY <3>2, <3>3, <3>7 DEF Good
      <4>3. Rest(c) = c.size - from /\ Rest(c) \in Nat
        BY <3>4 DEF Rest
      <4>4. /\ CanRead(c, n) <=> from + n <= c.size
            /\ SeekCur(c, n).ok <=> from + n <= c.size
        <5>1. CanRead(c, n) <=> from + n <= c.size
          BY <3>3, <3>4, <4>1, <4>3 DEF CanRead
        <5>2. SeekCur(c, n).ok <=> from + n <= c.size
          <6>1. n \in Int
            BY <3>3
          <6> HIDE DEF c, n
          <6>2. SeekCur(c, n).ok <=> c.offset + SizeT(n) <= c.size
            BY <3>2, <6>1, SeekCurMoves
          <6>. QED  BY <4>1, <6>2
        <5>. QED  BY <5>1, <5>2
      <4>5. CASE from + n <= c.size
        <5>1. field = [status |-> "ok", buffer |-> Sought(c, n),
                       value |-> IF kept THEN SpcMove(c, n).value ELSE <<>>]
          BY <3>7, <4>4, <4>5 DEF VarField, field
        <5>2. Sought(c, n) = [c EXCEPT !.offset = from + n]
          <6> HIDE DEF c, n
          <6>. QED  BY <3>2, <3>3, <4>5, SoughtMoves
        <5>3. SpcMove(c, n).value = Take(c, n)
          BY <3>3, <3>4, <4>1, <4>3, <4>5 DEF SpcMove, Yes
        <5>4. /\ Sought(c, n).offset = from + n /\ Sought(c, n).size = b.size
              /\ Sought(c, n).bytes = b.bytes
          BY <3>2, <4>2, <5>2 DEF Good
        <5>5. Take(c, n) = SubSeq(b.bytes, from + 1, from + n)
          BY <4>2 DEF Take
        <5>6. /\ call'.ok = "ok" /\ call'.before = b /\ call'.args.kept = kept
              /\ kept => call'.value = SubSeq(b.bytes, from + 1, from + n)
              /\ buffer'.offset = from + n /\ buffer'.size = b.size
              /\ buffer'.bytes = b.bytes
          BY <3>10, <5>1, <5>3, <5>4, <5>5
        <5> HIDE DEF b
        <5>. QED  BY <3>7, <4>2, <4>5, <5>6 DEF VarFieldExact, Between
      <4>6. CASE ~(from + n <= c.size)
        <5>1. field = [status |-> "value", buffer |-> Short(c, n),
                       value |-> IF kept THEN Take(c, Rest(c)) ELSE <<>>]
          BY <3>7, <4>4, <4>6 DEF VarField, field
        <5>2. SizeT(n - Rest(c)) = n - Rest(c)
          <6>1. n - Rest(c) \in 0 .. SizeBase - 1 /\ n - Rest(c) \in Int
            BY <3>3, <3>4, <3>7, <4>3, <4>6, SizeOfBase
          <6>. QED  BY <6>1, SizeTRange
        <5>3. Short(c, n) = [c EXCEPT !.lack = n - Rest(c), !.offset = c.size]
          BY <5>2 DEF Short
        <5>4. /\ Short(c, n).offset = c.size /\ Short(c, n).size = b.size
              /\ Short(c, n).bytes = b.bytes /\ Short(c, n).lack = n - Rest(c)
          BY <3>2, <4>2, <5>3 DEF Good
        <5>5. from + Rest(c) = c.size
          BY <3>4, <4>3
        <5>6. Take(c, Rest(c)) = SubSeq(b.bytes, from + 1, c.size)
          BY <4>2, <5>5 DEF Take
        <5>7. /\ call'.ok = "value" /\ call'.before = b /\ call'.args.kept = kept
              /\ kept => call'.value = SubSeq(b.bytes, from + 1, c.size)
              /\ buffer'.offset = b.size /\ buffer'.size = b.size
              /\ buffer'.bytes = b.bytes /\ buffer'.lack = n - Rest(c)
          BY <3>10, <4>2, <5>1, <5>4, <5>6
        <5>8. (n - Rest(c)) + (b.size - from) = n
          BY <3>3, <3>4, <4>2, <4>3
        <5> HIDE DEF b
        <5>. QED  BY <3>7, <4>2, <4>6, <5>7, <5>8 DEF VarFieldExact, Between
      <4>. QED  BY <4>5, <4>6
    <3>. QED  BY <3>5, <3>6, <3>7
  <2>. QED  BY <2>1, <2>2, <2>3
<1>. QED  BY <1>1, <1>2, LibraryInit, LibraryStep, PTL DEF Spec

---------------------------------------------------------------------------
(* Paths.                                                                   *)

LEMMA Powers123 ==
  ASSUME NEW b \in Int
  PROVE  Power(b, 1) = b /\ Power(b, 2) = b * b /\ Power(b, 3) = b * (b * b)
<1>1. Power(b, 0) = 1 /\ Power(b, 0 + 1) = b * Power(b, 0)
      /\ Power(b, 1 + 1) = b * Power(b, 1) /\ Power(b, 2 + 1) = b * Power(b, 2)
  BY Powers
<1>2. 0 + 1 = 1 /\ 1 + 1 = 2 /\ 2 + 1 = 3 /\ b * 1 = b
  OBVIOUS
<1>. QED  BY <1>1, <1>2

\* Four bytes as a number, the highest first.
LEMMA FourBytes ==
  ASSUME NEW base \in Int, NEW s \in Seq(Int), Len(s) = 4
  PROVE  ReadBE(base, s) = s[4] + Power(base, 1) * s[3] + Power(base, 2) * s[2]
                           + Power(base, 3) * s[1]
<1> DEFINE r == Reverse(s)
           v(k) == IF k \in DOMAIN r THEN r[k] ELSE 0
<1>1. r = [i \in 1 .. 4 |-> s[(4 - i) + 1]]
  BY DEF Reverse
<1>2. /\ v(1) = s[4] /\ v(2) = s[3] /\ v(3) = s[2] /\ v(4) = s[1]
      /\ v(5) = 0 /\ v(6) = 0 /\ v(7) = 0 /\ v(8) = 0
  BY <1>1
<1>3. s[1] \in Int /\ s[2] \in Int /\ s[3] \in Int /\ s[4] \in Int
  <2>1. \A i \in 1 .. Len(s) : s[i] \in Int
    BY ElementOfSeq
  <2>2. \A i \in 1 .. 4 : s[i] \in Int
    BY <2>1
  <2>. QED  BY <2>2
<1>4. ReadBE(base, s) =
        v(1) + base * (v(2) + base * (v(3) + base * (v(4) + base * (v(5)
        + base * (v(6) + base * (v(7) + base * v(8)))))))
  BY DEF ReadBE, ReadLE
<1> HIDE DEF v, r
<1> DEFINE a == s[4]
           b == s[3]
           c == s[2]
           d == s[1]
<1>5. a \in Int /\ b \in Int /\ c \in Int /\ d \in Int
  BY <1>3
<1>6. ReadBE(base, s) =
        a + base * (b + base * (c + base * (d + base * (0
        + base * (0 + base * (0 + base * 0))))))
  BY <1>2, <1>4
<1> HIDE DEF a, b, c, d
<1>7. base * (0 + base * (0 + base * (0 + base * 0))) = 0 /\ d + 0 = d
  BY <1>5
<1>8. ReadBE(base, s) = a + base * (b + base * (c + base * d))
  BY <1>6, <1>7
<1>9. a + base * (b + base * (c + base * d))
        = a + base * b + (base * base) * c + (base * (base * base)) * d
  BY <1>5
<1>. QED  BY <1>8, <1>9, Powers123 DEF a, b, c, d

\* The bytes of an element of a path.
LEMMA PathBytes ==
  ASSUME NEW b, Good(b), NEW i \in Nat \ {0}, b.offset + 4 * i <= b.size
  PROVE  LET s == SubSeq(Ahead(b), 4 * i - 3, 4 * i) IN
         /\ s \in Seq(Int) /\ Len(s) = 4
         /\ \A k \in 1 .. 4 : s[k] = b.bytes[b.offset + 4 * (i - 1) + k]
<1> DEFINE o == b.offset
           m == Len(b.bytes)
           f == 4 * i - 3
           t == 4 * i
<1>1. /\ o \in Nat /\ b.bytes \in Seq(Byte(ByteBase)) /\ b.size \in Nat
      /\ m \in Nat /\ o + 4 * i <= m
  BY BufferAssumption DEF Good
<1>2. \A j \in 1 .. m : b.bytes[j] \in Int
  BY <1>1, ElementOfSeq, BufferAssumption DEF Byte
<1>3. Ahead(b) = SubSeq(b.bytes, o + 1, m)
  BY DEF Ahead
<1>4. f \in Int /\ t \in Int /\ f <= t /\ t - f + 1 = 4
      /\ \A k \in 1 .. 4 : f + k - 1 = 4 * (i - 1) + k /\ f + k - 1 \in 1 .. 4 * i
  OBVIOUS
<1> HIDE DEF o, m
<1>5. o + 1 \in Int /\ m \in Int /\ \A j \in o + 1 .. m : b.bytes[j] \in Int
  BY <1>1, <1>2
<1>6. \A j \in 1 .. m - (o + 1) + 1 :
        SubSeq(b.bytes, o + 1, m)[j] = b.bytes[(o + 1) + j - 1]
  <2> DEFINE x == o + 1
  <2>1. x \in Int /\ \A j \in x .. m : b.bytes[j] \in Int
    BY <1>5
  <2> HIDE DEF x
  <2>2. \A j \in 1 .. m - x + 1 : SubSeq(b.bytes, x, m)[j] = b.bytes[x + j - 1]
    BY <1>5, <2>1, SubSeqProperties
  <2>. QED  BY <2>2 DEF x
<1>7. \A j \in 1 .. 4 * i : Ahead(b)[j] = b.bytes[o + j] /\ b.bytes[o + j] \in Int
  <2>. TAKE j \in 1 .. 4 * i
  <2>1. j \in 1 .. m - (o + 1) + 1 /\ (o + 1) + j - 1 = o + j /\ o + j \in 1 .. m
    BY <1>1
  <2>. QED  BY <1>2, <1>3, <1>6, <2>1
<1>8. \A j \in f .. t : Ahead(b)[j] \in Int
  BY <1>7
<1> HIDE DEF f, t
<1>9. /\ SubSeq(Ahead(b), f, t) \in Seq(Int)
      /\ Len(SubSeq(Ahead(b), f, t)) = IF f <= t THEN t - f + 1 ELSE 0
      /\ \A k \in 1 .. t - f + 1 : SubSeq(Ahead(b), f, t)[k] = Ahead(b)[f + k - 1]
  BY <1>4, <1>8, SubSeqProperties
<1>10. \A k \in 1 .. 4 : SubSeq(Ahead(b), f, t)[k] = b.bytes[o + (4 * (i - 1) + k)]
  BY <1>4, <1>7, <1>9
<1>11. \A k \in 1 .. 4 : o + (4 * (i - 1) + k) = o + 4 * (i - 1) + k
  BY <1>1
<1>. QED  BY <1>4, <1>9, <1>10, <1>11 DEF o, f, t

\* Every path that is in the data is read from it, however long it may be, and
\* one of which more than an element lacks is refused.
THEOREM PathsRead == Spec => []PathRead
<1>1. Init => PathRead
  BY DEF Init, PathRead, NoCall
<1>2. LibraryInv /\ PathRead /\ [Next]_vars => PathRead'
  <2>. SUFFICES ASSUME LibraryInv, PathRead, [Next]_vars  PROVE PathRead'
    OBVIOUS
  <2>1. CASE UNCHANGED vars
    BY <2>1 DEF vars, PathRead
  <2>2. CASE Next /\ ~ReadBip32Path
    BY <2>2, CallOf DEF PathRead
  <2>3. CASE ReadBip32Path
    <3>1. PICK n \in 0 .. MaxPath + 1 :
            /\ buffer' = ReadPath(buffer, n).buffer
            /\ call' = [fn |-> "read_path", args |-> [n |-> n], before |-> buffer,
                        ok |-> ReadPath(buffer, n).ok,
                        value |-> ReadPath(buffer, n).value]
      BY <2>3 DEF ReadBip32Path, Called
    <3> DEFINE b == buffer
               path == ReadPath(b, n)
               rest == b.size - b.offset
               value == [i \in 1 .. n |->
                           ReadBE(ByteBase, SubSeq(Ahead(b), 4 * i - 3, 4 * i))]
    <3>2. Good(b) /\ Good(path.buffer)
      BY ReadPathGood DEF LibraryInv
    <3>3. /\ n \in Nat /\ b.offset \in Nat /\ b.size \in 0 .. SizeBase - 2
          /\ SizeBase \in Nat /\ MaxPath \in Nat \ {0} /\ rest \in Nat
      BY <3>2, BufferAssumption DEF Good
    <3>4. path = IF PathStarts(rest, n) THEN Yes(Sought(b, 4 * n), value)
                                        ELSE No(b, <<>>)
      BY DEF ReadPath, Rest
    <3>5. /\ buffer' = path.buffer
          /\ call'.before = b /\ call'.args.n = n /\ call'.ok = path.ok
          /\ call'.value = path.value
      BY <3>1
    <3>6. path.ok <=> PathStarts(rest, n)
      BY <3>4 DEF Yes, No
    <3> HIDE DEF path
    <3>7. path.buffer.size = b.size /\ path.buffer.bytes = b.bytes
      <4>1. CASE PathStarts(rest, n)
        <5>1. path.buffer = SeekCur(b, 4 * n).buffer
          BY <3>4, <4>1 DEF Yes, Sought
        <5>2. SeekCur(b, 4 * n).buffer = b
              \/ SeekCur(b, 4 * n).buffer = [b EXCEPT !.offset = SizeT(b.offset + SizeT(4 * n))]
          BY DEF SeekCur, Yes, No
        <5>. QED  BY <3>2, <5>1, <5>2 DEF Good
      <4>2. CASE ~PathStarts(rest, n)
        BY <3>4, <4>2 DEF No
      <4>. QED  BY <4>1, <4>2
    <3>8. PathStarts(rest, n) => n \in 1 .. MaxPath /\ 4 * n - 4 <= rest
      <4>. SUFFICES ASSUME PathStarts(rest, n)
                    PROVE  n \in 1 .. MaxPath /\ 4 * n - 4 <= rest
        OBVIOUS
      <4>1. n \in 1 .. MaxPath /\ \A i \in 0 .. n - 1 : 4 * i <= rest
        BY DEF PathStarts
      <4>2. n - 1 \in 0 .. n - 1 /\ 4 * (n - 1) = 4 * n - 4
        BY <3>3, <4>1
      <4>3. 4 * (n - 1) <= rest
        BY <4>1, <4>2
      <4>. QED  BY <4>1, <4>2, <4>3
    <3>9. ASSUME n \in 1 .. MaxPath, 4 * n <= rest
          PROVE  /\ path.ok /\ path.buffer.offset = b.offset + 4 * n
                 /\ \A i \in 1 .. n :
                      path.value[i] =
                        b.bytes[b.offset + 4 * (i - 1) + 4]
                        + Power(ByteBase, 1) * b.bytes[b.offset + 4 * (i - 1) + 3]
                        + Power(ByteBase, 2) * b.bytes[b.offset + 4 * (i - 1) + 2]
                        + Power(ByteBase, 3) * b.bytes[b.offset + 4 * (i - 1) + 1]
      <4>1. PathStarts(rest, n)
        BY <3>3, <3>9 DEF PathStarts
      <4>2. 4 * n \in Nat /\ b.offset + 4 * n <= b.size
        BY <3>3, <3>9
      <4>3. Sought(b, 4 * n) = [b EXCEPT !.offset = b.offset + 4 * n]
        <5> DEFINE m == 4 * n
        <5>1. m \in Nat /\ b.offset + m <= b.size
          BY <4>2
        <5> HIDE DEF m
        <5>2. Sought(b, m) = [b EXCEPT !.offset = b.offset + m]
          BY <3>2, <5>1, SoughtMoves
        <5>. QED  BY <5>2 DEF m
      <4>4. path.ok /\ path.buffer = Sought(b, 4 * n) /\ path.value = value
        BY <3>4, <4>1 DEF Yes
      <4>5. path.buffer.offset = b.offset + 4 * n
        BY <3>2, <4>3, <4>4 DEF Good
      <4>6. ASSUME NEW i \in 1 .. n
            PROVE  value[i] =
                        b.bytes[b.offset + 4 * (i - 1) + 4]
                        + Power(ByteBase, 1) * b.bytes[b.offset + 4 * (i - 1) + 3]
                        + Power(ByteBase, 2) * b.bytes[b.offset + 4 * (i - 1) + 2]
                        + Power(ByteBase, 3) * b.bytes[b.offset + 4 * (i - 1) + 1]
        <5> DEFINE s == SubSeq(Ahead(b), 4 * i - 3, 4 * i)
        <5>1. value[i] = ReadBE(ByteBase, s)
          OBVIOUS
        <5>2. i \in Nat \ {0} /\ b.offset + 4 * i <= b.size
          BY <3>3, <4>2
        <5>3. /\ s \in Seq(Int) /\ Len(s) = 4
              /\ \A k \in 1 .. 4 : s[k] = b.bytes[b.offset + 4 * (i - 1) + k]
          <6> HIDE DEF b
          <6>. QED  BY <3>2, <5>2, PathBytes
        <5> HIDE DEF s, value
        <5>4. ReadBE(ByteBase, s) = s[4] + Power(ByteBase, 1) * s[3]
                + Power(ByteBase, 2) * s[2] + Power(ByteBase, 3) * s[1]
          BY <5>3, FourBytes, SizeOfBase
        <5>5. 1 \in 1 .. 4 /\ 2 \in 1 .. 4 /\ 3 \in 1 .. 4 /\ 4 \in 1 .. 4
          OBVIOUS
        <5>. QED  BY <5>1, <5>3, <5>4, <5>5
      <4> HIDE DEF value
      <4>. QED  BY <4>4, <4>5, <4>6
    <3>10. ~path.ok => path.buffer = b
      BY <3>4, <3>6 DEF No
    <3> HIDE DEF b, value, rest
    <3>. QED  BY <3>5, <3>6, <3>7, <3>8, <3>9, <3>10 DEF PathRead, rest
  <2>. QED  BY <2>1, <2>2, <2>3
<1>. QED  BY <1>1, <1>2, LibraryInit, LibraryStep, PTL DEF Spec

---------------------------------------------------------------------------
(* The compact signature.                                                   *)

LEMMA Concatenated ==
  ASSUME NEW s \in Seq(Nat), NEW t \in Seq(Nat)
  PROVE  /\ s \o t \in Seq(Nat) /\ Len(s \o t) = Len(s) + Len(t)
         /\ \A i \in 1 .. Len(s) : (s \o t)[i] = s[i]
         /\ \A j \in 1 .. Len(t) : (s \o t)[Len(s) + j] = t[j]
<1> DEFINE m == Len(s)
           n == Len(t)
<1>1. m \in Nat /\ n \in Nat
  BY LenProperties
<1>2. /\ s \o t \in Seq(Nat) /\ Len(s \o t) = Len(s) + Len(t)
      /\ \A i \in 1 .. Len(s) + Len(t) :
           (s \o t)[i] = IF i <= Len(s) THEN s[i] ELSE t[i - Len(s)]
  BY ConcatProperties
<1> DEFINE st == s \o t
<1>3. /\ st \in Seq(Nat) /\ Len(st) = m + n
      /\ \A i \in 1 .. m + n : st[i] = IF i <= m THEN s[i] ELSE t[i - m]
  BY <1>2
<1> HIDE DEF st, m, n
<1>4. \A i \in 1 .. m : st[i] = s[i]
  <2>. TAKE i \in 1 .. m
  <2>1. i \in 1 .. m + n /\ i <= m
    BY <1>1
  <2>. QED  BY <1>3, <2>1
<1>5. \A j \in 1 .. n : st[m + j] = t[j]
  <2>. TAKE j \in 1 .. n
  <2>1. m + j \in 1 .. m + n /\ ~(m + j <= m) /\ (m + j) - m = j
    BY <1>1
  <2>. QED  BY <1>3, <2>1
<1>. QED  BY <1>3, <1>4, <1>5 DEF st, m, n

LEMMA NumberSeq ==
  ASSUME NEW d \in Number
  PROVE  /\ d \in Seq(Nat) /\ Len(d) \in 1 .. NumberWidth
         /\ DerValue(d) \in Seq(Nat)
         /\ \/ DerValue(d) = d
            \/ /\ DerValue(d) = <<0>> \o d /\ Len(DerValue(d)) = Len(d) + 1
               /\ DerValue(d)[1] = 0
               /\ \A k \in 1 .. Len(d) : DerValue(d)[k + 1] = d[k]
<1>1. PICK n \in 1 .. NumberWidth : d \in [1 .. n -> Digit]
  BY DEF Number
<1>2. n \in Nat /\ NumberWidth \in Nat
  BY NumberAssumption
<1>3. \A x \in Digit : x \in Nat
  BY NumberAssumption DEF Digit
<1>4. d \in [1 .. n -> Nat]
  BY <1>1, <1>3
<1>5. d \in Seq(Nat) /\ Len(d) = n
  BY <1>2, <1>4
<1>6. <<0>> \in Seq(Nat) /\ Len(<<0>>) = 1 /\ <<0>>[1] = 0
  OBVIOUS
<1>7. /\ <<0>> \o d \in Seq(Nat) /\ Len(<<0>> \o d) = Len(d) + 1
      /\ (<<0>> \o d)[1] = 0
      /\ \A k \in 1 .. Len(d) : (<<0>> \o d)[k + 1] = d[k]
  <2> DEFINE z == <<0>>
  <2>1. z \in Seq(Nat) /\ Len(z) = 1 /\ z[1] = 0
    BY <1>6
  <2> HIDE DEF z
  <2>2. /\ z \o d \in Seq(Nat) /\ Len(z \o d) = Len(z) + Len(d)
        /\ \A i \in 1 .. Len(z) + Len(d) :
             (z \o d)[i] = IF i <= Len(z) THEN z[i] ELSE d[i - Len(z)]
    BY <1>5, <2>1, ConcatProperties
  <2>3. (z \o d)[1] = 0
    BY <1>2, <1>5, <2>1, <2>2
  <2>4. \A k \in 1 .. Len(d) : (z \o d)[k + 1] = d[k]
    <3>. TAKE k \in 1 .. Len(d)
    <3>1. k + 1 \in 1 .. Len(z) + Len(d) /\ ~(k + 1 <= Len(z)) /\ (k + 1) - Len(z) = k
      BY <1>2, <1>5, <2>1
    <3>. QED  BY <2>2, <3>1
  <2>5. Len(z \o d) = Len(d) + 1
    BY <1>2, <1>5, <2>1, <2>2
  <2>. QED  BY <2>2, <2>3, <2>4, <2>5 DEF z
<1>. QED  BY <1>1, <1>5, <1>7 DEF DerValue

LEMMA PaddedNumber ==
  ASSUME NEW d \in Number
  PROVE  /\ Padded(d) \in Seq(Nat) /\ Len(Padded(d)) = NumberWidth
         /\ \A k \in 1 .. NumberWidth :
              Padded(d)[k] = IF k <= NumberWidth - Len(d) THEN 0
                             ELSE d[k - (NumberWidth - Len(d))]
<1> DEFINE m == NumberWidth - Len(d)
           zeros == [k \in 1 .. m |-> 0]
<1>1. m \in Nat /\ Len(d) \in Nat /\ NumberWidth \in Nat /\ d \in Seq(Nat)
      /\ m + Len(d) = NumberWidth
  BY NumberSeq, NumberAssumption
<1> HIDE DEF m
<1>2. zeros \in Seq(Nat) /\ Len(zeros) = m /\ \A k \in 1 .. m : zeros[k] = 0
  BY <1>1
<1> HIDE DEF zeros
<1>3. /\ zeros \o d \in Seq(Nat) /\ Len(zeros \o d) = Len(zeros) + Len(d)
      /\ \A i \in 1 .. Len(zeros) + Len(d) :
           (zeros \o d)[i] = IF i <= Len(zeros) THEN zeros[i] ELSE d[i - Len(zeros)]
  BY <1>1, <1>2, ConcatProperties
<1>4. Padded(d) = zeros \o d
  BY DEF Padded, zeros, m
<1>. QED  BY SMTT(30), <1>1, <1>2, <1>3, <1>4 DEF m

\* The part of a signature that has the digits of d as a DER integer behind the
\* place x is d as a field.
LEMMA PartOfNumber ==
  ASSUME NEW sig \in Seq(Nat), NEW x \in Nat, NEW d \in Number, Full(d),
         sig[x] = Len(DerValue(d)), x + Len(DerValue(d)) <= Len(sig),
         \A k \in 1 .. Len(DerValue(d)) : sig[x + k] = DerValue(d)[k]
  PROVE  LET part == Part(sig, x) IN
         /\ part.at \in Nat /\ part.len = NumberWidth
         /\ part.at + part.len = x + Len(DerValue(d))
         /\ SubSeq(sig, part.at + 1, part.at + part.len) = Padded(d)
<1> DEFINE l == Len(DerValue(d))
           w == NumberWidth
           at == (x + l) - w
<1>1. /\ w \in Nat \ {0} /\ Len(d) \in 1 .. w /\ l \in Nat /\ Len(sig) \in Nat
      /\ l >= w /\ (l = Len(d) \/ l = Len(d) + 1)
      /\ DerValue(d) \in Seq(Nat) /\ d \in Seq(Nat)
  BY NumberAssumption, NumberSeq, LenProperties DEF Full
<1>2. at \in Nat /\ at + w = x + l
      /\ Part(sig, x) = [at |-> at, len |-> w]
  <2>1. l \in {w, w + 1}
    <3>1. /\ w \in Nat /\ Len(d) \in Nat /\ Len(d) <= w /\ l \in Nat /\ l >= w
          /\ l = Len(d) \/ l = Len(d) + 1
      BY <1>1
    <3> HIDE DEF l, w
    <3>. QED  BY <3>1
  <2>2. CASE l = w + 1
    BY <1>1, <2>2 DEF Part
  <2>3. CASE l = w
    BY <1>1, <2>3 DEF Part
  <2>. QED  BY <2>1, <2>2, <2>3
<1>3. \A k \in 1 .. w : sig[at + k] = Padded(d)[k]
  <2>. TAKE k \in 1 .. w
  <2>1. Padded(d)[k] = IF k <= w - Len(d) THEN 0 ELSE d[k - (w - Len(d))]
    BY PaddedNumber
  <2>2. sig[at + k] = DerValue(d)[l - w + k]
    <3>1. l - w + k \in 1 .. l /\ x + (l - w + k) = at + k
      BY <1>1
    <3>. QED  BY <3>1
  <2>3. CASE DerValue(d) = d
    <3>1. l = Len(d) /\ l = w
      BY <1>1, <2>3
    <3>2. l - w + k = k /\ ~(k <= w - Len(d)) /\ k - (w - Len(d)) = k
      BY <1>1, <3>1
    <3>. QED  BY <2>1, <2>2, <2>3, <3>2
  <2>4. CASE DerValue(d) # d
    <3>1. /\ l = Len(d) + 1 /\ DerValue(d)[1] = 0
          /\ \A j \in 1 .. Len(d) : DerValue(d)[j + 1] = d[j]
      BY <2>4, NumberSeq
    <3>2. CASE k <= w - Len(d)
      <4>1. l - w + k = 1
        BY <1>1, <3>1, <3>2
      <4>. QED  BY <2>1, <2>2, <3>1, <3>2, <4>1
    <3>3. CASE ~(k <= w - Len(d))
      <4>1. PICK j \in 1 .. Len(d) : j = k - (w - Len(d))
        BY <1>1, <3>3
      <4>2. l - w + k = j + 1
        BY <1>1, <3>1, <4>1
      <4>3. Padded(d)[k] = d[j]
        BY <2>1, <3>3, <4>1
      <4>. QED  BY <2>2, <3>1, <4>2, <4>3
    <3>. QED  BY <3>2, <3>3
  <2>. QED  BY <2>3, <2>4
<1> DEFINE sub == SubSeq(sig, at + 1, at + w)
<1>4. sub = Padded(d)
  <2>1. /\ at + 1 \in Int /\ at + w \in Int /\ at + w <= Len(sig)
        /\ (at + w) - (at + 1) + 1 = w /\ at + 1 <= at + w
        /\ \A k \in 1 .. w : (at + 1) + k - 1 = at + k
    BY <1>1, <1>2
  <2> HIDE DEF at
  <2>2. \A i \in at + 1 .. at + w : sig[i] \in Nat
    <3>1. \A i \in 1 .. Len(sig) : sig[i] \in Nat
      BY ElementOfSeq
    <3>2. \A i \in at + 1 .. at + w : i \in 1 .. Len(sig)
      BY <1>1, <1>2, <2>1
    <3>. QED  BY <3>1, <3>2
  <2> DEFINE f == at + 1
             t == at + w
  <2>3. /\ f \in Int /\ t \in Int /\ \A i \in f .. t : sig[i] \in Nat
        /\ t - f + 1 = w /\ f <= t /\ \A k \in 1 .. w : f + k - 1 = at + k
    BY <2>1, <2>2
  <2> HIDE DEF f, t
  <2>4. /\ SubSeq(sig, f, t) \in Seq(Nat)
        /\ Len(SubSeq(sig, f, t)) = IF f <= t THEN t - f + 1 ELSE 0
        /\ \A i \in 1 .. t - f + 1 : SubSeq(sig, f, t)[i] = sig[f + i - 1]
    BY <2>3, SubSeqProperties
  <2>5. sub = SubSeq(sig, f, t)
    BY DEF f, t
  <2> HIDE DEF sub
  <2>6. sub \in Seq(Nat) /\ Len(sub) = w
    BY <2>3, <2>4, <2>5
  <2>7. \A k \in 1 .. w : sub[k] = Padded(d)[k]
    BY <1>3, <2>3, <2>4, <2>5
  <2>. QED  BY <2>6, <2>7, PaddedNumber, SeqEqual
<1> HIDE DEF at
<1>. QED  BY <1>2, <1>4

\* Where the parts of a DER signature are.
LEMMA DerPlaces ==
  ASSUME NEW r \in Number, NEW s \in Number
  PROVE  LET sig == Der(r, s)
             m == Len(DerValue(r))
             n == Len(DerValue(s))
         IN /\ sig \in Seq(Nat) /\ Len(sig) = 6 + m + n /\ m \in Nat /\ n \in Nat
            /\ sig[4] = m /\ \A k \in 1 .. m : sig[4 + k] = DerValue(r)[k]
            /\ sig[6 + m] = n /\ \A k \in 1 .. n : sig[6 + m + k] = DerValue(s)[k]
<1> DEFINE a == DerValue(r)
           b == DerValue(s)
           m == Len(a)
           n == Len(b)
           x == <<2, m>>
           y == <<2, n>>
<1>1. a \in Seq(Nat) /\ b \in Seq(Nat)
  BY NumberSeq
<1> HIDE DEF a, b
<1>2. m \in Nat /\ n \in Nat
  BY <1>1, LenProperties
<1>3. /\ x \in Seq(Nat) /\ Len(x) = 2 /\ x[2] = m
      /\ y \in Seq(Nat) /\ Len(y) = 2 /\ y[2] = n
  BY <1>2
<1> HIDE DEF x, y
<1> DEFINE xa == x \o a
           yb == y \o b
           p == 2 + m
           q == 2 + n
<1>4. /\ xa \in Seq(Nat) /\ Len(xa) = p
      /\ xa[2] = m /\ \A k \in 1 .. m : xa[2 + k] = a[k]
  <2>1. /\ xa \in Seq(Nat) /\ Len(xa) = Len(x) + Len(a)
        /\ \A i \in 1 .. Len(x) : xa[i] = x[i]
        /\ \A k \in 1 .. Len(a) : xa[Len(x) + k] = a[k]
    BY <1>1, <1>3, Concatenated
  <2>2. 2 \in 1 .. 2
    OBVIOUS
  <2>. QED  BY <1>3, <2>1, <2>2
<1>5. /\ yb \in Seq(Nat) /\ Len(yb) = q
      /\ yb[2] = n /\ \A k \in 1 .. n : yb[2 + k] = b[k]
  <2>1. /\ yb \in Seq(Nat) /\ Len(yb) = Len(y) + Len(b)
        /\ \A i \in 1 .. Len(y) : yb[i] = y[i]
        /\ \A k \in 1 .. Len(b) : yb[Len(y) + k] = b[k]
    BY <1>1, <1>3, Concatenated
  <2>. QED  BY <1>3, <2>1
<1> HIDE DEF xa, yb, m, n
<1>6. p \in Nat /\ q \in Nat
  BY <1>2
<1> DEFINE body == xa \o yb
<1> HIDE DEF p, q
<1>7. /\ body \in Seq(Nat) /\ Len(body) = p + q
      /\ \A i \in 1 .. p : body[i] = xa[i]
      /\ \A j \in 1 .. q : body[p + j] = yb[j]
  <2>1. /\ body \in Seq(Nat) /\ Len(body) = Len(xa) + Len(yb)
        /\ \A i \in 1 .. Len(xa) : body[i] = xa[i]
        /\ \A j \in 1 .. Len(yb) : body[Len(xa) + j] = yb[j]
    BY <1>4, <1>5, Concatenated
  <2>. QED  BY <1>4, <1>5, <2>1
<1> DEFINE l == p + q
           z == <<48, l>>
<1>8. l \in Nat
  BY <1>6
<1> HIDE DEF l
<1>9. z \in Seq(Nat) /\ Len(z) = 2
  BY <1>8
<1> HIDE DEF z, body
<1> DEFINE sig == z \o body
<1>10. /\ sig \in Seq(Nat) /\ Len(sig) = 2 + l
       /\ \A j \in 1 .. l : sig[2 + j] = body[j]
  <2>1. /\ sig \in Seq(Nat) /\ Len(sig) = Len(z) + Len(body)
        /\ \A j \in 1 .. Len(body) : sig[Len(z) + j] = body[j]
    BY <1>7, <1>9, Concatenated
  <2>2. Len(body) = l
    BY <1>7 DEF l
  <2> HIDE DEF sig
  <2>. QED  BY <1>9, <2>1, <2>2
<1>11. Der(r, s) = sig
  BY <1>7 DEF Der, DerInteger, sig, z, body, xa, yb, x, y, a, b, l, m, n
<1> HIDE DEF sig
<1>12. \A i \in 1 .. p : sig[2 + i] = xa[i]
  <2>. TAKE i \in 1 .. p
  <2>1. i \in 1 .. l
    BY <1>6 DEF l
  <2>. QED  BY <1>7, <1>10, <2>1
<1>13. \A j \in 1 .. q : sig[2 + (p + j)] = yb[j]
  <2>. TAKE j \in 1 .. q
  <2>1. p + j \in 1 .. l
    BY <1>6 DEF l
  <2>. QED  BY <1>7, <1>10, <2>1
<1>14. Len(sig) = 6 + m + n
  BY <1>2, <1>10 DEF l, p, q
<1>15. sig[4] = m
  <2>1. 2 \in 1 .. p /\ 2 + 2 = 4
    BY <1>2 DEF p
  <2>2. sig[2 + 2] = xa[2]
    BY <1>12, <2>1
  <2>. QED  BY <1>4, <2>1, <2>2
<1>16. \A k \in 1 .. m : sig[4 + k] = a[k]
  <2>. TAKE k \in 1 .. m
  <2>1. 2 + k \in 1 .. p /\ 2 + (2 + k) = 4 + k
    BY <1>2 DEF p
  <2>2. sig[2 + (2 + k)] = xa[2 + k]
    BY <1>12, <2>1
  <2>. QED  BY <1>4, <2>1, <2>2
<1>17. sig[6 + m] = n
  <2>1. 2 \in 1 .. q /\ 2 + (p + 2) = 6 + m
    BY <1>2 DEF p, q
  <2>2. sig[2 + (p + 2)] = yb[2]
    BY <1>13, <2>1
  <2>. QED  BY <1>5, <2>1, <2>2
<1>18. \A k \in 1 .. n : sig[6 + m + k] = b[k]
  <2>. TAKE k \in 1 .. n
  <2>1. 2 + k \in 1 .. q /\ 2 + (p + (2 + k)) = 6 + m + k
    BY <1>2 DEF p, q
  <2>2. sig[2 + (p + (2 + k))] = yb[2 + k]
    BY <1>13, <2>1
  <2>. QED  BY <1>5, <2>1, <2>2
<1>. QED  BY <1>2, <1>10, <1>11, <1>14, <1>15, <1>16, <1>17, <1>18 DEF a, b, m, n

LEMMA FormatExact ==
  ASSUME NEW r \in Number, NEW s \in Number, Full(r), Full(s), NEW stale \in Nat
  PROVE  FormatSignatureOut(Der(r, s), stale) = Padded(r) \o Padded(s)
<1> DEFINE sig == Der(r, s)
           m == Len(DerValue(r))
           n == Len(DerValue(s))
           w == NumberWidth
           pr == Part(sig, 4)
           ps == Part(sig, 6 + m)
           copied == Padded(r) \o Padded(s)
<1>1. /\ sig \in Seq(Nat) /\ Len(sig) = 6 + m + n /\ m \in Nat /\ n \in Nat
      /\ sig[4] = m /\ \A k \in 1 .. m : sig[4 + k] = DerValue(r)[k]
      /\ sig[6 + m] = n /\ \A k \in 1 .. n : sig[6 + m + k] = DerValue(s)[k]
  BY DerPlaces
<1>2. w \in Nat
  BY NumberAssumption
<1> HIDE DEF sig
<1>3. /\ pr.at \in Nat /\ pr.len = w /\ pr.at + pr.len = 4 + m
      /\ SubSeq(sig, pr.at + 1, pr.at + pr.len) = Padded(r)
  <2>1. 4 \in Nat /\ 4 + m <= Len(sig)
    BY <1>1
  <2>. QED  BY ZenonT(60), <1>1, <2>1, PartOfNumber
<1>4. /\ ps.at \in Nat /\ ps.len = w
      /\ SubSeq(sig, ps.at + 1, ps.at + ps.len) = Padded(s)
  <2> DEFINE x == 6 + m
  <2>1. x \in Nat /\ x + n <= Len(sig) /\ sig[x] = n
        /\ \A k \in 1 .. n : sig[x + k] = DerValue(s)[k]
    BY <1>1
  <2> HIDE DEF x
  <2>2. LET part == Part(sig, x) IN
        /\ part.at \in Nat /\ part.len = NumberWidth
        /\ SubSeq(sig, part.at + 1, part.at + part.len) = Padded(s)
    BY <1>1, <2>1, PartOfNumber
  <2>. QED  BY <2>2 DEF x
<1>5. (pr.at + pr.len) + 2 = 6 + m
  BY <1>1, <1>3
<1>6. FormatSignatureOut(sig, stale) =
        [k \in 1 .. w + w |-> IF k <= Len(copied) THEN copied[k] ELSE stale]
  BY <1>3, <1>4, <1>5 DEF FormatSignatureOut
<1>7. copied \in Seq(Nat) /\ Len(copied) = w + w
  <2> DEFINE x == Padded(r)
             y == Padded(s)
  <2>1. x \in Seq(Nat) /\ y \in Seq(Nat) /\ Len(x) = w /\ Len(y) = w
    BY PaddedNumber
  <2> HIDE DEF x, y
  <2>2. x \o y \in Seq(Nat) /\ Len(x \o y) = w + w
    BY ZenonT(60), <2>1, Concatenated
  <2>. QED  BY <2>2 DEF x, y
<1> HIDE DEF copied
<1>8. FormatSignatureOut(sig, stale) = [k \in 1 .. w + w |-> copied[k]]
  BY <1>2, <1>6, <1>7
<1>9. copied = [k \in 1 .. w + w |-> copied[k]]
  BY <1>7, LenProperties
<1>. QED  BY <1>8, <1>9 DEF sig, copied

\* The usual signature of a personal message comes out right for numbers of
\* every width and every base, and whatever was on the stack.
THEOREM SignatureCompact == Spec => []Compact
<1>1. Init => Compact
  BY DEF Init, Compact, NoCall
<1>2. Compact /\ [Next]_vars => Compact'
  <2>. SUFFICES ASSUME Compact, [Next]_vars  PROVE Compact'
    OBVIOUS
  <2>1. CASE UNCHANGED vars
    BY <2>1 DEF vars, Compact
  <2>2. CASE Next /\ ~Sign
    BY <2>2, CallOf DEF Compact
  <2>3. CASE Sign
    <3>1. PICK r \in Signed, s \in Signed, v \in {27, 30}, stale \in Digit :
            call' = [fn |-> "sign", r |-> r, s |-> s, v |-> v,
                     reply |-> SignMessage(r, s, v, stale)]
      BY <2>3 DEF Sign, Evaluated
    <3>2. r \in Number /\ s \in Number /\ v \in Nat /\ stale \in Nat
      BY LibraryAssumption, NumberAssumption DEF Digit
    <3>3. /\ call'.r = r /\ call'.s = s /\ call'.v = v
          /\ call'.reply = Append(FormatSignatureOut(Der(r, s), stale), v)
      BY <3>1 DEF SignMessage
    <3>4. SUFFICES ASSUME Full(r), Full(s)
                   PROVE  call'.reply = Padded(r) \o Padded(s) \o <<v>>
      BY <3>3 DEF Compact
    <3>5. call'.reply = Append(Padded(r) \o Padded(s), v)
      BY <3>2, <3>3, <3>4, FormatExact
    <3>6. Padded(r) \o Padded(s) \in Seq(Nat)
      BY <3>2, PaddedNumber, ConcatProperties
    <3>. QED  BY <3>2, <3>5, <3>6, AppendIsConcat
  <2>. QED  BY <2>1, <2>2, <2>3
<1>. QED  BY <1>1, <1>2, PTL DEF Spec

---------------------------------------------------------------------------
(* Numbers and their digits.                                                *)

LEMMA ByteDigits ==
  ASSUME NEW bytes \in Seq(Byte(ByteBase)), Len(bytes) <= 8
  PROVE  Consists(ReadLE(ByteBase, bytes), bytes)
<1> DEFINE base == ByteBase
           n == Len(bytes)
<1>1. base \in Nat \ {0} /\ n \in Nat /\ DOMAIN bytes = 1 .. n
  BY SizeOfBase, LenProperties
<1>2. PICK w : ReadRun(w, base, bytes)
  BY <1>1, ReadRuns
<1>3. /\ ReadLE(base, bytes) = w[1] /\ w[n + 1] = 0
      /\ \A k \in 1 .. n + 1 : w[k] \in Nat
      /\ \A k \in 1 .. n : bytes[k] \in 0 .. base - 1 /\ w[k] = bytes[k] + base * w[k + 1]
  BY <1>2 DEF ReadRun
<1> HIDE DEF base, n
<1>4. /\ \A k \in 0 .. n : w[1] \div Power(base, k) = w[k + 1]
      /\ \A k \in 1 .. n : (w[1] \div Power(base, k - 1)) % base = bytes[k]
      /\ w[n + 1] = 0 => w[1] < Power(base, n)
  BY ZenonT(60), <1>1, <1>3, DigitsBehind
<1>. QED  BY <1>1, <1>3, <1>4 DEF Consists, base, n

LEMMA DivZero ==
  ASSUME NEW p \in Nat \ {0}, NEW n \in 0 .. p - 1
  PROVE  n \div p = 0
<1>1. 0 \in Nat /\ p * 0 + n = n
  OBVIOUS
<1>2. (p * 0 + n) \div p = 0
  BY <1>1, DivUnique
<1>. QED  BY <1>1, <1>2

\* What write_u16_le, _u32_le and _u64_le write is read again.
LEMMA WrittenIsRead ==
  ASSUME NEW width \in 1 .. 8, NEW n \in 0 .. Power(ByteBase, width) - 1
  PROVE  LET s == WriteLE(ByteBase, width, n) IN
         s \in Seq(Byte(ByteBase)) /\ Len(s) = width /\ ReadLE(ByteBase, s) = n
<1> DEFINE base == ByteBase
           s == WriteLE(base, width, n)
           w == [k \in 1 .. 9 |-> n \div Power(base, k - 1)]
<1>1. base \in Nat \ {0} /\ base \in Int /\ width \in Nat
  BY SizeOfBase
<1>2. \A k \in Nat : Power(base, k) \in Nat \ {0}
  <2> HIDE DEF base
  <2>. QED  BY <1>1, PowersPositive
<1>3. n \in Nat /\ n < Power(base, width)
  BY <1>1, <1>2
<1>4. ASSUME NEW k \in 1 .. 9  PROVE w[k] \in Nat /\ w[k] = n \div Power(base, k - 1)
  <2> DEFINE p == Power(base, k - 1)
  <2>1. p \in Nat \ {0}
    BY <1>2
  <2>2. w[k] = n \div p
    OBVIOUS
  <2> HIDE DEF p
  <2>3. n \div p \in Nat
    BY <1>3, <2>1, DivSplit
  <2>. QED  BY <2>2, <2>3 DEF p
<1>5. s = [k \in 1 .. width |-> w[k] % base]
  <2>1. \A k \in 1 .. width : w[k] = n \div Power(base, k - 1)
    BY <1>1, <1>4
  <2> HIDE DEF w
  <2>2. s = [k \in 1 .. width |-> (n \div Power(base, k - 1)) % base]
    BY DEF WriteLE
  <2>. QED  BY <2>1, <2>2, Zenon
<1> HIDE DEF w, s, base
<1>6. ASSUME NEW k \in 1 .. 8  PROVE w[k + 1] = w[k] \div base
  <2> DEFINE p == Power(base, k - 1)
  <2>1. p \in Nat \ {0} /\ k - 1 \in Nat /\ (k - 1) + 1 = k /\ k + 1 \in 1 .. 9
        /\ k \in 1 .. 9 /\ (k + 1) - 1 = k
    BY <1>2
  <2>2. Power(base, k) = base * p
    BY <1>1, <2>1, Powers
  <2>3. w[k] = n \div p /\ w[k + 1] = n \div Power(base, k)
    BY <1>4, <2>1
  <2> HIDE DEF p
  <2>4. n \div (base * p) = (n \div p) \div base
    BY <1>1, <1>3, <2>1, DivTwice
  <2>. QED  BY <2>2, <2>3, <2>4
<1>7. ASSUME NEW k \in 1 .. 9, k > width  PROVE w[k] = 0
  <2> DEFINE p == Power(base, k - 1)
  <2>1. width <= k - 1 /\ k - 1 \in Nat /\ p \in Nat \ {0}
    BY <1>1, <1>2, <1>7
  <2>2. Power(base, width) <= p
    BY <1>1, <2>1, PowersGrow
  <2>3. Power(base, width) \in Nat
    BY <1>1, <1>2
  <2>4. w[k] = n \div p
    BY <1>4
  <2> HIDE DEF p
  <2>5. n \in 0 .. p - 1
    BY <1>3, <2>1, <2>2, <2>3
  <2>. QED  BY <2>1, <2>4, <2>5, DivZero
<1>8. \A k \in 1 .. width : s[k] = w[k] % base /\ s[k] \in Byte(base)
  <2>. TAKE k \in 1 .. width
  <2>1. w[k] \in Nat
    BY <1>1, <1>4
  <2>2. s[k] = w[k] % base
    BY <1>5
  <2>3. w[k] % base \in 0 .. base - 1
    BY <1>1, <2>1, DivSplit
  <2>. QED  BY <2>2, <2>3 DEF Byte
<1>9. DOMAIN s = 1 .. width /\ s \in Seq(Byte(base)) /\ Len(s) = width
  <2>1. s \in [1 .. width -> Byte(base)] /\ DOMAIN s = 1 .. width
    BY <1>5, <1>8
  <2>. QED  BY <1>1, <2>1
<1>10. \A k \in 1 .. 8 : w[k] = (IF k \in DOMAIN s THEN s[k] ELSE 0) + base * w[k + 1]
  <2>. TAKE k \in 1 .. 8
  <2>1. w[k] \in Nat /\ w[k + 1] \in Nat
    BY <1>4
  <2>2. CASE k \in 1 .. width
    <3> DEFINE x == w[k]
    <3>1. x \in Nat
      BY <2>1
    <3> HIDE DEF x
    <3>2. x = base * (x \div base) + (x % base)
          /\ x \div base \in Nat /\ x % base \in 0 .. base - 1
      BY <1>1, <3>1, DivSplit
    <3>3. w[k + 1] = x \div base /\ s[k] = x % base /\ k \in DOMAIN s
      BY <1>6, <1>8, <1>9, <2>2 DEF x
    <3> DEFINE q == x \div base
               t == x % base
    <3>4. x = base * q + t /\ q \in Nat /\ t \in 0 .. base - 1
          /\ w[k + 1] = q /\ s[k] = t
      BY <3>2, <3>3
    <3> HIDE DEF q, t
    <3>5. base * q + t = t + base * q
      BY <1>1, <3>4
    <3>. QED  BY <3>3, <3>4, <3>5 DEF x
  <2>3. CASE ~(k \in 1 .. width)
    <3>1. k > width /\ k + 1 > width /\ k \in 1 .. 9 /\ k + 1 \in 1 .. 9
      BY <1>1, <2>3
    <3>2. w[k] = 0 /\ w[k + 1] = 0 /\ k \notin DOMAIN s
      BY <1>7, <1>9, <2>3, <3>1
    <3>3. 0 + base * 0 = 0
      BY <1>1
    <3>. QED  BY <3>2, <3>3
  <2>. QED  BY <2>2, <2>3
<1>11. w[9] = 0
  <2>1. 9 \in 1 .. 9 /\ 9 > width
    BY <1>1
  <2>. QED  BY <1>7, <2>1
<1>12. w[1] = n
  <2>1. w[1] = n \div Power(base, 1 - 1) /\ 1 - 1 = 0 /\ Power(base, 0) = 1
    BY <1>1, <1>4, Powers
  <2>2. n \div 1 = n
    BY <1>3
  <2>. QED  BY <2>1, <2>2
<1>13. ReadLE(base, s) = w[1]
  <2>1. \A k \in DOMAIN s : s[k] \in Int
    BY <1>1, <1>8, <1>9 DEF Byte
  <2>2. \A k \in 1 .. 9 : w[k] \in Int
    <3>1. \A x \in Nat : x \in Int
      OBVIOUS
    <3>. QED  BY <1>4, <3>1, Zenon
  <2>. QED  BY <1>1, <1>10, <1>11, <2>1, <2>2, ReadLEIs
<1>. QED  BY <1>9, <1>12, <1>13 DEF s, base

\* A buffer that holds just some bytes.
LEMMA WholeBuffer ==
  ASSUME NEW s \in Seq(Byte(ByteBase)), Len(s) \in 1 .. 9
  PROVE  LET b == [bytes |-> s, size |-> Len(s), offset |-> 0, lack |-> 0] IN
         /\ Good(b) /\ Rest(b) = Len(s) /\ Head(Ahead(b)) = s[1]
         /\ Take(b, Len(s)) = s
         /\ \A n \in 0 .. Len(s) : Sought(b, n) = [b EXCEPT !.offset = n]
<1> DEFINE b == [bytes |-> s, size |-> Len(s), offset |-> 0, lack |-> 0]
<1>1. Good(b)
  <2> DEFINE l == Len(s)
  <2>1. l \in 0 .. SizeBase - 2 /\ 0 \in 0 .. SizeBase - 1 /\ 0 <= l /\ l <= l
    <3>1. l \in 1 .. 9
      OBVIOUS
    <3> HIDE DEF l
    <3>. QED  BY <3>1, BufferAssumption
  <2>. QED  BY <2>1 DEF Good
<1>2. Rest(b) = Len(s)
  BY DEF Rest
<1>3. Ahead(b) = SubSeq(s, 1, Len(s)) /\ Take(b, Len(s)) = SubSeq(s, 1, Len(s))
  BY DEF Ahead, Take
<1>4. SubSeq(s, 1, Len(s)) = s
  BY SubSeqFull
<1>5. \A n \in 0 .. Len(s) : Sought(b, n) = [b EXCEPT !.offset = n]
  <2>. TAKE n \in 0 .. Len(s)
  <2>1. b.offset = 0 /\ b.size = Len(s)
    OBVIOUS
  <2> HIDE DEF b
  <2>2. n \in Nat /\ b.offset + n <= b.size /\ b.offset + n = n
    BY <2>1
  <2>. QED  BY <1>1, <2>2, SoughtMoves
<1>6. Head(s) = s[1]
  <2> DEFINE l == Len(s)
  <2>1. 1 \in 1 .. l /\ l \in 1 .. l
    <3>1. l \in 1 .. 9
      OBVIOUS
    <3> HIDE DEF l
    <3>. QED  BY <3>1
  <2>2. Head(SubSeq(s, 1, l)) = s[1]
    BY <2>1, HeadTailOfSubSeq
  <2>. QED  BY <1>4, <2>2
<1>. QED  BY <1>1, <1>2, <1>3, <1>4, <1>5, <1>6

\* A prefix and the digits behind it.
LEMMA Prefixed ==
  ASSUME NEW p \in Byte(ByteBase), NEW s \in Seq(Byte(ByteBase))
  PROVE  LET t == <<p>> \o s IN
         /\ t \in Seq(Byte(ByteBase)) /\ Len(t) = 1 + Len(s)
         /\ t[1] = p /\ Tail(t) = s
<1> DEFINE x == <<p>>
           t == x \o s
           B == Byte(ByteBase)
<1>1. x \in Seq(B) /\ Len(x) = 1 /\ x[1] = p
  OBVIOUS
<1>2. Len(s) \in Nat
  BY LenProperties
<1> HIDE DEF x, B
<1>3. /\ t \in Seq(B) /\ Len(t) = Len(x) + Len(s)
      /\ \A i \in 1 .. Len(x) + Len(s) : t[i] = IF i <= Len(x) THEN x[i] ELSE s[i - Len(x)]
  BY <1>1, ConcatProperties DEF B
<1> HIDE DEF t
<1>4. t[1] = p /\ Len(t) = 1 + Len(s)
  BY <1>1, <1>2, <1>3
<1>5. t # <<>>
  BY <1>2, <1>4, EmptySeq
<1>6. /\ Tail(t) \in Seq(B) /\ Len(Tail(t)) = Len(t) - 1
      /\ \A i \in 1 .. Len(Tail(t)) : Tail(t)[i] = t[i + 1]
  BY <1>3, <1>5, HeadTailProperties
<1>7. Len(Tail(t)) = Len(s)
  BY <1>2, <1>4, <1>6
<1>8. \A i \in 1 .. Len(s) : Tail(t)[i] = s[i]
  <2>. TAKE i \in 1 .. Len(s)
  <2>1. i + 1 \in 1 .. Len(x) + Len(s) /\ ~(i + 1 <= Len(x)) /\ (i + 1) - Len(x) = i
    BY <1>1, <1>2
  <2>. QED  BY <1>3, <1>6, <1>7, <2>1
<1>9. Tail(t) = s
  <2> DEFINE u == Tail(t)
  <2>1. u \in Seq(B) /\ s \in Seq(B) /\ Len(u) = Len(s) /\ \A i \in 1 .. Len(u) : u[i] = s[i]
    BY <1>6, <1>7, <1>8 DEF B
  <2> HIDE DEF u
  <2>2. u = s
    BY <2>1, SeqEqual
  <2>. QED  BY <2>2 DEF u
<1>. QED  BY <1>3, <1>4, <1>9 DEF t, x, B

LEMMA VarintIsRead ==
  ASSUME NEW n \in 0 .. Power(ByteBase, 8) - 1
  PROVE  LET s == VarintWrite(n)
             b == [bytes |-> s, size |-> Len(s), offset |-> 0, lack |-> 0]
             r == ReadVarint(b)
         IN /\ r.ok /\ r.value = n /\ r.buffer.offset = b.size
            /\ b.size > 3 => n >= Power(ByteBase, b.size \div 2)
<1> DEFINE s == VarintWrite(n)
           b == [bytes |-> s, size |-> Len(s), offset |-> 0, lack |-> 0]
           r == ReadVarint(b)
<1>1. /\ ByteBase \in Nat \ {0} /\ ByteBase > 4
      /\ Power(ByteBase, 8) \in Nat /\ Power(ByteBase, 4) \in Nat
      /\ Power(ByteBase, 2) \in Nat /\ n \in Nat
      /\ \A k \in Nat : Power(ByteBase, k) \in Nat
  <2>1. \A k \in Nat : Power(ByteBase, k) \in Nat
    <3>1. ByteBase \in Nat \ {0}
      BY SizeOfBase
    <3>. QED  BY <3>1, PowersPositive
  <2>2. ByteBase \in Nat \ {0} /\ ByteBase > 4
    BY SizeOfBase
  <2>3. Power(ByteBase, 8) \in Nat /\ Power(ByteBase, 4) \in Nat /\ Power(ByteBase, 2) \in Nat
    BY <2>1
  <2>. QED  BY <2>1, <2>2, <2>3
<1>2. CASE n < ByteBase - 3
  <2>1. s = <<n>>
    BY <1>2 DEF VarintWrite, VarintSize
  <2>2. n \in Byte(ByteBase)
    BY <1>1, <1>2 DEF Byte
  <2>3. s \in Seq(Byte(ByteBase)) /\ Len(s) = 1 /\ s[1] = n
    BY <2>1, <2>2
  <2> HIDE DEF s
  <2>4. /\ Good(b) /\ Rest(b) = 1 /\ Head(Ahead(b)) = n
        /\ Sought(b, 1) = [b EXCEPT !.offset = 1]
    <3>1. Len(s) \in 1 .. 9 /\ 1 \in 0 .. Len(s)
      BY <2>3
    <3>. QED  BY <2>3, <3>1, WholeBuffer
  <2>5. VarintNeed(n) = 1
    BY <1>2 DEF VarintNeed
  <2>6. r = Yes([b EXCEPT !.offset = 1], n)
    <3> HIDE DEF b
    <3>. QED  BY <2>4, <2>5 DEF ReadVarint
  <2>7. r.ok /\ r.value = n /\ r.buffer.offset = 1 /\ b.size = 1
    BY <2>3, <2>6 DEF Yes
  <2>8. ~(b.size > 3) /\ r.buffer.offset = b.size
    <3> HIDE DEF b, r
    <3>. QED  BY <2>7
  <2>. QED  BY <2>7, <2>8, Zenon DEF s
<1>3. CASE ~(n < ByteBase - 3)
  <2> DEFINE size == VarintSize(n)
             width == size - 1
             p == Prefix(size)
             t == WriteLE(ByteBase, width, n)
  <2>1. /\ size \in {3, 5, 9} /\ n < Power(ByteBase, width)
        /\ size > 3 => n >= Power(ByteBase, size \div 2)
    <3>1. CASE n < Power(ByteBase, 2)
      BY <1>3, <3>1 DEF VarintSize
    <3>2. CASE ~(n < Power(ByteBase, 2)) /\ n < Power(ByteBase, 4)
      <4>1. size = 5 /\ 5 \div 2 = 2 /\ n >= Power(ByteBase, 2)
        BY <1>1, <1>3, <3>2 DEF VarintSize
      <4>. QED  BY <3>2, <4>1
    <3>3. CASE ~(n < Power(ByteBase, 2)) /\ ~(n < Power(ByteBase, 4))
      <4>1. size = 9 /\ 9 \div 2 = 4 /\ n >= Power(ByteBase, 4) /\ n < Power(ByteBase, 8)
        BY <1>1, <1>3, <3>3 DEF VarintSize
      <4>. QED  BY <4>1
    <3>. QED  BY <3>1, <3>2, <3>3
  <2>2. s = <<p>> \o t
    BY <2>1 DEF VarintWrite
  <2> HIDE DEF size
  <2>3. /\ width \in 1 .. 8 /\ 1 + width = size /\ size \in 1 .. 9
        /\ n \in 0 .. Power(ByteBase, width) - 1
    <3>1. width \in 1 .. 8 /\ 1 + width = size /\ size \in 1 .. 9
      BY <2>1
    <3>2. Power(ByteBase, width) \in Nat
      BY <1>1, <3>1
    <3>. QED  BY <1>1, <2>1, <3>1, <3>2
  <2> HIDE DEF width
  <2>4. /\ t \in Seq(Byte(ByteBase)) /\ Len(t) = width /\ ReadLE(ByteBase, t) = n
    BY <2>3, WrittenIsRead
  <2>5. p \in Byte(ByteBase) /\ ~(p < ByteBase - 3)
        /\ \A k \in {3, 5, 9} : Prefix(k) = p => k = size
    <3>1. Prefix(3) = ByteBase - 3 /\ Prefix(5) = ByteBase - 2 /\ Prefix(9) = ByteBase - 1
      BY DEF Prefix
    <3>. QED  BY <1>1, <2>1, <3>1 DEF Byte
  <2>6. VarintNeed(p) = size
    <3>1. VarintNeed(p) = CHOOSE k \in {3, 5, 9} : Prefix(k) = p
      BY <2>5 DEF VarintNeed
    <3>. QED  BY <2>1, <2>5, <3>1
  <2> HIDE DEF t, p
  <2>7. s \in Seq(Byte(ByteBase)) /\ Len(s) = size /\ s[1] = p /\ Tail(s) = t
    <3> HIDE DEF s
    <3>. QED  BY <2>2, <2>3, <2>4, <2>5, Prefixed
  <2> HIDE DEF s
  <2>8. /\ Good(b) /\ Rest(b) = size /\ Head(Ahead(b)) = p /\ Take(b, size) = s
        /\ Sought(b, size) = [b EXCEPT !.offset = size]
    <3>1. Len(s) \in 1 .. 9 /\ Len(s) \in 0 .. Len(s)
      BY <2>3, <2>7
    <3>. QED  BY <2>7, <3>1, WholeBuffer
  <2>9. size # 1 /\ ~(size < 1) /\ ~(size < size)
    BY <2>1
  <2>10. r = Yes([b EXCEPT !.offset = size], n)
    <3> HIDE DEF b
    <3>. QED  BY <2>4, <2>6, <2>7, <2>8, <2>9 DEF ReadVarint
  <2>11. r.ok /\ r.value = n /\ r.buffer.offset = size /\ b.size = size
    BY <2>7, <2>10 DEF Yes
  <2>. QED  BY <2>1, <2>11 DEF s
<1>. QED  BY <1>2, <1>3

\* Every number of 64 bits, and with bytes of any size every number of eight of
\* them, is read as it was written, from the fewest bytes there are.
THEOREM VarintsRoundTrip == Spec => []VarintRoundTrip
<1>1. Init => VarintRoundTrip
  BY DEF Init, VarintRoundTrip, NoCall
<1>2. VarintRoundTrip /\ [Next]_vars => VarintRoundTrip'
  <2>. SUFFICES ASSUME VarintRoundTrip, [Next]_vars  PROVE VarintRoundTrip'
    OBVIOUS
  <2>1. CASE UNCHANGED vars
    BY <2>1 DEF vars, VarintRoundTrip
  <2>2. CASE Next /\ ~WriteVarint
    BY <2>2, CallOf DEF VarintRoundTrip
  <2>3. CASE WriteVarint
    <3>1. PICK n \in Values :
            call' = [fn |-> "varint_write", n |-> n, bytes |-> VarintWrite(n)]
      BY <2>3 DEF WriteVarint, Evaluated
    <3>2. n \in 0 .. Power(ByteBase, 8) - 1
      BY LibraryAssumption
    <3>3. call'.n = n /\ call'.bytes = VarintWrite(n)
      BY <3>1
    <3>. QED  BY <3>2, <3>3, VarintIsRead DEF VarintRoundTrip
  <2>. QED  BY <2>1, <2>2, <2>3
<1>. QED  BY <1>1, <1>2, PTL DEF Spec

---------------------------------------------------------------------------
(* What is taken out of a buffer.                                           *)

LEMMA ReversedBytes ==
  ASSUME NEW s \in Seq(Byte(ByteBase))
  PROVE  Reverse(s) \in Seq(Byte(ByteBase)) /\ Len(Reverse(s)) = Len(s)
<1> DEFINE l == Len(s)
           r == [i \in 1 .. l |-> s[(l - i) + 1]]
<1>1. l \in Nat /\ Reverse(s) = r
  BY LenProperties DEF Reverse
<1>2. \A i \in 1 .. l : s[i] \in Byte(ByteBase)
  BY ElementOfSeq
<1> HIDE DEF l
<1>3. \A i \in 1 .. l : (l - i) + 1 \in 1 .. l
  BY <1>1
<1>4. \A i \in 1 .. l : s[(l - i) + 1] \in Byte(ByteBase)
  BY <1>2, <1>3
<1>5. r \in Seq(Byte(ByteBase)) /\ Len(r) = l
  BY <1>1, <1>4
<1>. QED  BY <1>1, <1>5 DEF l

\* An integer is read if its bytes are there, and consists of them.
LEMMA IntegerTaken ==
  ASSUME NEW b, Good(b), NEW width \in {1, 2, 4, 8}, NEW bigEndian
  PROVE  LET r == ReadInt(b, width, bigEndian)
             bytes == Take(b, width)
         IN /\ r.ok <=> width <= b.size - b.offset
            /\ ~r.ok => r.buffer = b
            /\ r.ok => r.buffer = [b EXCEPT !.offset = b.offset + width]
            /\ r.ok /\ bigEndian => Consists(r.value, Reverse(bytes))
            /\ r.ok /\ ~bigEndian => Consists(r.value, bytes)
<1> DEFINE r == ReadInt(b, width, bigEndian)
           bytes == Take(b, width)
           rest == b.size - b.offset
<1>1. width \in Nat /\ width \in 0 .. SizeBase - 1 /\ width <= 8 /\ width \in Int
  BY BufferAssumption
<1>2. SizeT(width) = width
  BY <1>1, SizeTRange
<1>3. b.offset \in Nat /\ b.size \in Nat /\ b.offset <= b.size
  BY BufferAssumption DEF Good
<1>4. CanRead(b, width) <=> width <= rest
  BY <1>1, <1>2, <1>3 DEF CanRead, Rest
<1>5. CASE ~(width <= rest)
  BY <1>4, <1>5 DEF ReadInt, No
<1>6. CASE width <= rest
  <2>1. b.offset + width <= b.size
    BY <1>1, <1>3, <1>6
  <2>2. bytes \in Seq(Byte(ByteBase)) /\ Len(bytes) = width
    BY <1>1, <2>1, TakenBytes
  <2>3. Sought(b, width) = [b EXCEPT !.offset = b.offset + width]
    BY <1>1, <2>1, SoughtMoves
  <2>4. /\ r.ok /\ r.buffer = Sought(b, width)
        /\ r.value = IF bigEndian THEN ReadLE(ByteBase, Reverse(bytes))
                                  ELSE ReadLE(ByteBase, bytes)
    BY <1>4, <1>6 DEF ReadInt, ReadBE, Yes
  <2> HIDE DEF bytes
  <2>5. Consists(ReadLE(ByteBase, bytes), bytes)
    BY <1>1, <2>2, ByteDigits
  <2> DEFINE s == Reverse(bytes)
  <2>6. s \in Seq(Byte(ByteBase)) /\ Len(s) = width
    BY <2>2, ReversedBytes
  <2> HIDE DEF s
  <2>7. Len(s) <= 8
    BY <1>1, <2>6
  <2>8. Consists(ReadLE(ByteBase, s), s)
    BY <2>6, <2>7, ByteDigits
  <2>. QED  BY <1>6, <2>3, <2>4, <2>5, <2>8 DEF s, bytes
<1>. QED  BY <1>5, <1>6

\* All that is left is copied, or moved, if there is room for it.
LEMMA RestTaken ==
  ASSUME NEW b, Good(b), NEW n \in Nat
  PROVE  LET c == Copy(b, n)
             m == Move(b, n)
             rest == b.size - b.offset
         IN /\ c.ok <=> rest <= n
            /\ m.ok <=> rest <= n
            /\ c.buffer = b
            /\ ~m.ok => m.buffer = b
            /\ m.ok => m.buffer = [b EXCEPT !.offset = b.offset + rest]
            /\ c.ok => c.value = Take(b, rest)
            /\ m.ok => m.value = Take(b, rest)
<1> DEFINE rest == b.size - b.offset
<1>1. b.offset \in Nat /\ b.size \in Nat /\ b.offset <= b.size
  BY BufferAssumption DEF Good
<1>2. rest \in Nat /\ Rest(b) = rest /\ b.offset + rest <= b.size
      /\ (rest > n <=> ~(rest <= n))
  BY <1>1 DEF Rest
<1> HIDE DEF rest
<1>3. Sought(b, rest) = [b EXCEPT !.offset = b.offset + rest]
  BY <1>2, SoughtMoves
<1>4. Copy(b, n) = IF ~(rest <= n) THEN No(b, <<>>) ELSE Yes(b, Take(b, rest))
  BY <1>2 DEF Copy
<1>5. CASE rest <= n
  <2>1. Copy(b, n).ok /\ Copy(b, n).buffer = b /\ Copy(b, n).value = Take(b, rest)
    BY <1>4, <1>5 DEF Yes
  <2>2. /\ Move(b, n).ok /\ Move(b, n).buffer = Sought(b, rest)
        /\ Move(b, n).value = Take(b, rest)
    BY <1>2, <2>1 DEF Move, Yes
  <2>. QED  BY <1>3, <1>5, <2>1, <2>2 DEF rest
<1>6. CASE ~(rest <= n)
  <2>1. ~Copy(b, n).ok /\ Copy(b, n).buffer = b
    BY <1>4, <1>6 DEF No
  <2>2. ~Move(b, n).ok /\ Move(b, n).buffer = b
    BY <2>1 DEF Move, No
  <2>. QED  BY <1>6, <2>1, <2>2 DEF rest
<1>. QED  BY <1>5, <1>6

\* A field of a given size is kept or skipped, if it is there.
LEMMA FieldTaken ==
  ASSUME NEW b, Good(b), NEW n \in 0 .. SizeBase - 1, NEW kept \in BOOLEAN
  PROVE  LET r == SpcField(b, n, kept) IN
         /\ r.ok <=> n <= b.size - b.offset
         /\ ~r.ok => r.buffer = b
         /\ r.ok => /\ r.buffer = [b EXCEPT !.offset = b.offset + n]
                    /\ kept => r.value = Take(b, n)
<1> DEFINE rest == b.size - b.offset
<1>1. n \in Nat /\ n \in Int /\ SizeT(n) = n
  BY SizeTRange, SizeOfBase
<1>2. b.offset \in Nat /\ b.size \in Nat /\ b.offset <= b.size
  BY BufferAssumption DEF Good
<1>3. Rest(b) = rest /\ (rest < n <=> ~(n <= rest)) /\ (b.offset + n <= b.size <=> n <= rest)
  BY <1>1, <1>2 DEF Rest
<1> HIDE DEF rest
<1>4. n <= rest => Sought(b, n) = [b EXCEPT !.offset = b.offset + n]
  BY <1>1, <1>3, SoughtMoves
<1>5. CASE kept
  <2>1. SpcField(b, n, kept) = IF ~(n <= rest) THEN No(b, <<>>)
                               ELSE Yes(Sought(b, n), Take(b, n))
    BY <1>1, <1>3, <1>5 DEF SpcField, SpcMove
  <2>. QED  BY <1>4, <2>1 DEF Yes, No, rest
<1>6. CASE ~kept
  <2>1. SpcField(b, n, kept) = SeekCur(b, n)
    BY <1>6 DEF SpcField
  <2>2. SeekCur(b, n).ok <=> n <= rest
    BY <1>1, <1>3, SeekCurMoves
  <2>3. ~SeekCur(b, n).ok => SeekCur(b, n).buffer = b
    BY DEF SeekCur, Yes, No
  <2>4. SeekCur(b, n).ok => SeekCur(b, n).buffer = [b EXCEPT !.offset = b.offset + n]
    BY <1>1, SeekCurMoves
  <2>. QED  BY <1>6, <2>1, <2>2, <2>3, <2>4 DEF rest
<1>. QED  BY <1>5, <1>6

\* What is read or copied out of a buffer is what stands at the offset, in its
\* order, whatever the widths of a byte and of a size_t.
THEOREM BytesAreTaken == Spec => []BytesTaken
<1>1. Init => BytesTaken
  BY DEF Init, BytesTaken, NoCall
<1>2. LibraryInv /\ BytesTaken /\ [Next]_vars => BytesTaken'
  <2>. SUFFICES ASSUME LibraryInv, BytesTaken, [Next]_vars  PROVE BytesTaken'
    OBVIOUS
  <2> DEFINE b == buffer
             from == b.offset
             rest == b.size - from
  <2>0. /\ Good(b) /\ from \in Nat /\ rest \in Nat
        /\ \A k : Take(b, k) = SubSeq(b.bytes, from + 1, from + k)
        /\ \A k : [b EXCEPT !.offset = k].offset = k
        /\ \A k : [b EXCEPT !.offset = k].bytes = b.bytes
    BY BufferAssumption DEF LibraryInv, Good, Take
  <2>1. CASE UNCHANGED vars
    BY <2>1 DEF vars, BytesTaken, Between
  <2>2. CASE Next /\ ~ReadInteger /\ ~TakeBytes
    BY <2>2, CallOf DEF BytesTaken
  <2>3. CASE ReadInteger
    <3>1. PICK width \in {1, 2, 4, 8}, bigEndian \in BOOLEAN :
            LET r == ReadInt(b, width, bigEndian) IN
            /\ buffer' = r.buffer
            /\ call' = [fn |-> "read_int",
                        args |-> [width |-> width, bigEndian |-> bigEndian],
                        before |-> b, ok |-> r.ok, value |-> r.value]
      BY <2>3 DEF ReadInteger, Called
    <3> DEFINE r == ReadInt(b, width, bigEndian)
               bytes == SubSeq(b.bytes, from + 1, from + width)
    <3>2. /\ r.ok <=> width <= rest
          /\ ~r.ok => r.buffer = b
          /\ r.ok => r.buffer = [b EXCEPT !.offset = from + width]
          /\ r.ok => Consists(r.value, IF bigEndian THEN Reverse(bytes) ELSE bytes)
      <4>1. Take(b, width) = bytes
        BY DEF Take
      <4> HIDE DEF b, bytes
      <4>2. /\ r.ok <=> width <= b.size - b.offset
            /\ ~r.ok => r.buffer = b
            /\ r.ok => r.buffer = [b EXCEPT !.offset = b.offset + width]
            /\ r.ok /\ bigEndian => Consists(r.value, Reverse(Take(b, width)))
            /\ r.ok /\ ~bigEndian => Consists(r.value, Take(b, width))
        <5>1. Good(b)
          BY <2>0
        <5>. QED  BY <5>1, IntegerTaken
      <4>. QED  BY <4>1, <4>2
    <3> HIDE DEF r
    <3>3. /\ call'.fn = "read_int" /\ call'.before = b /\ call'.ok = r.ok
          /\ call'.value = r.value /\ call'.args.width = width
          /\ call'.args.bigEndian = bigEndian /\ buffer' = r.buffer
          /\ r.ok \in BOOLEAN
      BY <3>1 DEF r, ReadInt, Yes, No
    <3>4. /\ buffer'.bytes = b.bytes
          /\ buffer'.offset = IF call'.ok THEN from + width ELSE from
          /\ call'.ok = (width <= rest)
      <4>1. CASE call'.ok
        <5>1. buffer' = [b EXCEPT !.offset = from + width] /\ width <= rest
          BY <3>2, <3>3, <4>1
        <5>2. buffer'.bytes = b.bytes /\ buffer'.offset = from + width
          BY <2>0, <5>1
        <5>. QED  BY <3>2, <3>3, <4>1, <5>1, <5>2
      <4>2. CASE ~call'.ok
        <5>1. buffer' = b /\ ~(width <= rest)
          BY <3>2, <3>3, <4>2
        <5>. QED  BY <3>2, <3>3, <4>2, <5>1
      <4>. QED  BY <4>1, <4>2
    <3>5. call'.ok => Consists(call'.value, IF call'.args.bigEndian THEN Reverse(bytes)
                                                                     ELSE bytes)
      BY <3>2, <3>3
    <3> HIDE DEF b
    <3>. QED  BY <3>3, <3>4, <3>5 DEF BytesTaken, Between
  <2>4. CASE TakeBytes
    <3>1. PICK n \in Offsets :
            \/ Called("copy", [n |-> n], Copy(b, n))
            \/ Called("move", [n |-> n], Move(b, n))
            \/ \E kept \in BOOLEAN :
                 Called("spc_field", [n |-> n, kept |-> kept], SpcField(b, n, kept))
      BY <2>4 DEF TakeBytes
    <3>2. n \in 0 .. SizeBase - 1 /\ n \in Nat
      BY LibraryAssumption, SizeOfBase
    <3> DEFINE bytes == SubSeq(b.bytes, from + 1, from + rest)
    <3>3. CASE Called("copy", [n |-> n], Copy(b, n))
      <4> DEFINE r == Copy(b, n)
      <4>1. /\ r.ok <=> rest <= n
            /\ r.buffer = b
            /\ r.ok => r.value = bytes
        BY ZenonT(60), <2>0, <3>2, RestTaken
      <4>2. r.ok \in BOOLEAN
        BY DEF Copy, Yes, No
      <4> HIDE DEF r
      <4>3. /\ call'.fn = "copy" /\ call'.before = b /\ call'.ok = r.ok
            /\ call'.value = r.value /\ call'.args.n = n /\ buffer' = r.buffer
        BY <3>3 DEF Called, r
      <4>4. /\ buffer'.bytes = b.bytes /\ buffer'.offset = from
            /\ call'.ok = (rest <= n) /\ (call'.ok => call'.value = bytes)
        BY <4>1, <4>2, <4>3
      <4>5. rest <= rest
        BY <2>0
      <4> HIDE DEF b
      <4>. QED  BY <4>3, <4>4, <4>5 DEF BytesTaken, Between
    <3>4. CASE Called("move", [n |-> n], Move(b, n))
      <4> DEFINE r == Move(b, n)
      <4>1. /\ r.ok <=> rest <= n
            /\ ~r.ok => r.buffer = b
            /\ r.ok => r.buffer = [b EXCEPT !.offset = from + rest]
            /\ r.ok => r.value = bytes
        BY ZenonT(60), <2>0, <3>2, RestTaken
      <4>2. r.ok \in BOOLEAN
        BY DEF Move, Yes, No
      <4> HIDE DEF r
      <4>3. /\ call'.fn = "move" /\ call'.before = b /\ call'.ok = r.ok
            /\ call'.value = r.value /\ call'.args.n = n /\ buffer' = r.buffer
        BY <3>4 DEF Called, r
      <4>4. /\ buffer'.bytes = b.bytes
            /\ buffer'.offset = IF call'.ok THEN from + rest ELSE from
            /\ call'.ok = (rest <= n) /\ (call'.ok => call'.value = bytes)
        <5>1. CASE call'.ok
          <6>1. buffer' = [b EXCEPT !.offset = from + rest] /\ rest <= n
            BY <4>1, <4>2, <4>3, <5>1
          <6>2. buffer'.bytes = b.bytes /\ buffer'.offset = from + rest
            BY <2>0, <6>1
          <6>. QED  BY <4>1, <4>2, <4>3, <5>1, <6>1, <6>2
        <5>2. CASE ~call'.ok
          <6>1. buffer' = b /\ ~(rest <= n)
            BY <4>1, <4>2, <4>3, <5>2
          <6>. QED  BY <4>1, <4>2, <4>3, <5>2, <6>1
        <5>. QED  BY <5>1, <5>2
      <4>5. rest <= rest
        BY <2>0
      <4> HIDE DEF b
      <4>. QED  BY <4>3, <4>4, <4>5 DEF BytesTaken, Between
    <3>5. ASSUME NEW kept \in BOOLEAN,
                 Called("spc_field", [n |-> n, kept |-> kept], SpcField(b, n, kept))
          PROVE  BytesTaken'
      <4> DEFINE r == SpcField(b, n, kept)
                 field == SubSeq(b.bytes, from + 1, from + n)
      <4>1. /\ r.ok <=> n <= rest
            /\ ~r.ok => r.buffer = b
            /\ r.ok => r.buffer = [b EXCEPT !.offset = from + n]
            /\ r.ok /\ kept => r.value = field
        <5>1. Take(b, n) = field
          BY DEF Take
        <5> HIDE DEF b, field
        <5>. QED  BY <2>0, <3>2, <5>1, FieldTaken
      <4>2. r.ok \in BOOLEAN
        BY DEF SpcField, SpcMove, SeekCur, Yes, No
      <4> HIDE DEF r
      <4>3. /\ call'.fn = "spc_field" /\ call'.before = b /\ call'.ok = r.ok
            /\ call'.value = r.value /\ call'.args.n = n /\ buffer' = r.buffer
            /\ call'.args.kept = kept
        BY <3>5 DEF Called, r
      <4>4. /\ buffer'.bytes = b.bytes
            /\ buffer'.offset = IF call'.ok THEN from + n ELSE from
            /\ call'.ok = (n <= rest)
            /\ call'.ok /\ kept => call'.value = field
        <5>1. CASE call'.ok
          <6>1. buffer' = [b EXCEPT !.offset = from + n] /\ n <= rest
            BY <4>1, <4>2, <4>3, <5>1
          <6>2. buffer'.bytes = b.bytes /\ buffer'.offset = from + n
            BY <2>0, <6>1
          <6>. QED  BY <4>1, <4>2, <4>3, <5>1, <6>1, <6>2
        <5>2. CASE ~call'.ok
          <6>1. buffer' = b /\ ~(n <= rest)
            BY <4>1, <4>2, <4>3, <5>2
          <6>. QED  BY <4>1, <4>2, <4>3, <5>2, <6>1
        <5>. QED  BY <5>1, <5>2
      <4> HIDE DEF b
      <4>. QED  BY <4>3, <4>4 DEF BytesTaken, Between
    <3>. QED  BY <3>1, <3>3, <3>4, <3>5
  <2>. QED  BY <2>1, <2>2, <2>3, <2>4
<1>. QED  BY <1>1, <1>2, LibraryInit, LibraryStep, PTL DEF Spec
---------------------------------------------------------------------------
(* The texts of numbers.                                                    *)

\* Whatever the amount, it has a text, which shows it, and which has room
\* behind its unit if the amount is not too great.
THEOREM AmountsAreShown == Spec => []AmountShown
<1>1. Init => AmountShown
  BY DEF Init, AmountShown, NoCall
<1>2. AmountShown /\ [Next]_vars => AmountShown'
  <2>. SUFFICES ASSUME AmountShown, [Next]_vars  PROVE AmountShown'
    OBVIOUS
  <2>1. CASE UNCHANGED vars
    BY <2>1 DEF vars, AmountShown
  <2>2. CASE Next /\ ~ShowAmount
    BY <2>2, CallOf DEF AmountShown
  <2>3. CASE ShowAmount
    <3>1. PICK a \in Amounts, d \in Decimals :
            call' = [fn |-> "amount", amount |-> a, decimals |-> d,
                     result |-> ConvMount1(a, d)]
      BY <2>3 DEF ShowAmount, Evaluated
    <3>2. a \in Amount /\ d \in Nat /\ d + 3 <= TextLen
      BY LibraryAssumption, FormatAssumption
    <3> DEFINE n == AmountOf(a)
    <3>3. AmountText(ConvMount1(a, d), n, d)
      <4>1. Read256LE(a) \in U256 /\ Value256(Read256LE(a)) = n
        BY <3>2, AmountRead
      <4> DEFINE x == Read256LE(a)
      <4> HIDE DEF x, n
      <4>2. AmountText(ConvMount2(x, d), Value256(x), d)
        BY <3>2, <4>1, ConvMount2Is DEF x
      <4>. QED  BY <4>1, <4>2 DEF ConvMount1, x
    <3> HIDE DEF n
    <3>4. PICK t : /\ ConvMount1(a, d) = [ok |-> TRUE, text |-> t]
                   /\ Fits(t, TextLen) /\ Shows(t, d) = n
                   /\ Point \in Range(t) => Last(t) # 0
                   /\ \A room \in Nat : n < Power(10, room - 2) /\ d + 3 <= room => Fits(t, room)
      BY <3>3 DEF AmountText
    <3>5. /\ call'.amount = a /\ call'.decimals = d
          /\ call'.result = [ok |-> TRUE, text |-> t]
      BY <3>1, <3>4
    <3>6. call'.result.ok /\ call'.result.text = t
      BY <3>5
    <3>7. n < Power(10, TextLen - UnitLen - 2) /\ d + 3 <= TextLen - UnitLen
            => Fits(t, TextLen - UnitLen)
      <4>1. d + 3 <= TextLen - UnitLen => TextLen - UnitLen \in Nat
        BY <3>2, FormatAssumption
      <4>. QED  BY <3>4, <4>1
    <3>. QED  BY <3>4, <3>5, <3>6, <3>7 DEF AmountShown, n
  <2>. QED  BY <2>1, <2>2, <2>3
<1>. QED  BY <1>1, <1>2, PTL DEF Spec

\* The fee on the screen is what the coins of the one side have more than those
\* of the other, however many there are.
THEOREM FeesAreShown == Spec => []FeeShown
<1>1. Init => FeeShown
  BY DEF Init, FeeShown, NoCall
<1>2. FeeShown /\ [Next]_vars => FeeShown'
  <2>. SUFFICES ASSUME FeeShown, [Next]_vars  PROVE FeeShown'
    OBVIOUS
  <2>1. CASE UNCHANGED vars
    BY <2>1 DEF vars, FeeShown
  <2>2. CASE Next /\ ~ShowFee
    BY <2>2, CallOf DEF FeeShown
  <2>3. CASE ShowFee
    <3>1. PICK from \in Coins, to \in Coins :
            call' = [fn |-> "fee", from |-> from, to |-> to, result |-> FeeText(from, to)]
      BY <2>3 DEF ShowFee, Evaluated
    <3>2. from \in Seq(Amount) /\ to \in Seq(Amount)
      BY LibraryAssumption
    <3>3. /\ call'.from = from /\ call'.to = to /\ call'.result = FeeText(from, to)
      BY <3>1
    <3>4. ASSUME Total(from) < Modulus, Total(to) <= Total(from)
          PROVE  /\ call'.result.ok
                 /\ Shows(call'.result.text, NulsDecimals) = Total(from) - Total(to)
      <4>1. AmountText(FeeText(from, to), Total(from) - Total(to), NulsDecimals)
        BY <3>2, <3>4, FeeTextIs
      <4> DEFINE n == Total(from) - Total(to)
      <4> HIDE DEF n
      <4>2. PICK t : /\ FeeText(from, to) = [ok |-> TRUE, text |-> t]
                     /\ Shows(t, NulsDecimals) = n
        BY <4>1 DEF AmountText, n
      <4>3. call'.result.ok /\ call'.result.text = t
        BY <3>3, <4>2
      <4>. QED  BY <4>2, <4>3 DEF n
    <3>. QED  BY <3>3, <3>4 DEF FeeShown
  <2>. QED  BY <2>1, <2>2, <2>3
<1>. QED  BY <1>1, <1>2, PTL DEF Spec

\* Digits and numbers are shown at their value, never beyond the string and
\* whenever it has room, for strings of every length.
THEOREM DigitsAreShown == Spec => []DigitsShown
<1>1. Init => DigitsShown
  BY DEF Init, DigitsShown, NoCall
<1>2. DigitsShown /\ [Next]_vars => DigitsShown'
  <2>. SUFFICES ASSUME DigitsShown, [Next]_vars  PROVE DigitsShown'
    OBVIOUS
  <2>1. CASE UNCHANGED vars
    BY <2>1 DEF vars, DigitsShown
  <2>2. CASE Next /\ ~FormatDigits /\ ~FormatNumber
    BY <2>2, CallOf DEF DigitsShown
  <2>3. CASE FormatDigits
    <3>1. PICK s \in Strings, room \in Rooms, d \in Decimals :
            call' = [fn |-> "decimals", src |-> s, room |-> room, decimals |-> d,
                     result |-> FormatDecimals(s, room, d)]
      BY <2>3 DEF FormatDigits, Evaluated
    <3>2. s \in Seq(Digits) /\ room \in Nat /\ d \in Nat
      BY LibraryAssumption, FormatAssumption
    <3> DEFINE r == FormatDecimals(s, room, d)
    <3>3. /\ call'.fn = "decimals" /\ call'.src = s /\ call'.room = room
          /\ call'.decimals = d /\ call'.result = r
      BY <3>1
    <3>4. \/ r = Failed /\ ~(Len(s) + 2 <= room /\ d + 3 <= room)
          \/ Formatted(r, s, d) /\ Len(r.text) + 1 <= room
      BY <3>2, FormatDecimalsIs
    <3> HIDE DEF r
    <3>5. /\ Len(s) + 2 <= room /\ d + 3 <= room => r.ok
          /\ r.ok => Fits(r.text, room) /\ Shows(r.text, d) = PlainValue(s)
      <4>1. CASE r = Failed /\ ~(Len(s) + 2 <= room /\ d + 3 <= room)
        <5>1. r.ok = FALSE
          BY <4>1 DEF Failed
        <5>. QED  BY <4>1, <5>1
      <4>2. CASE Formatted(r, s, d) /\ Len(r.text) + 1 <= room
        <5>1. PICK t : r = [ok |-> TRUE, text |-> t] /\ Shows(t, d) = PlainValue(s)
          BY <4>2 DEF Formatted
        <5>2. r.ok /\ r.text = t
          BY <5>1
        <5>. QED  BY <4>2, <5>1, <5>2 DEF Fits
      <4>. QED  BY <3>4, <4>1, <4>2
    <3>. QED  BY <3>3, <3>5 DEF DigitsShown
  <2>4. CASE FormatNumber
    <3>1. PICK n \in Values, room \in Rooms :
            call' = [fn |-> "u64", n |-> n, room |-> room, result |-> FormatU64(room, n)]
      BY <2>4 DEF FormatNumber, Evaluated
    <3>2. n \in Nat /\ room \in Nat
      BY LibraryAssumption
    <3> DEFINE r == FormatU64(room, n)
               some == \E k \in 1 .. room - 1 : n < Power(10, k)
    <3>3. call'.fn = "u64" /\ call'.n = n /\ call'.room = room /\ call'.result = r
      BY <3>1
    <3>4. ASSUME room # 1
          PROVE  r.ok = some /\ (r.ok => Fits(r.text, room) /\ PlainValue(r.text) = n)
      <4>1. CASE room = 0
        <5>1. r = Failed
          BY <4>1 DEF FormatU64
        <5>2. r.ok = FALSE
          BY <5>1 DEF Failed
        <5>3. some = FALSE
          <6>1. 1 .. room - 1 = {}
            BY <4>1
          <6>. QED  BY <6>1
        <5> HIDE DEF r, some
        <5>. QED  BY <5>2, <5>3
      <4>2. CASE room > 1
        <5>1. Shown64(r, n, room)
          BY <3>2, <4>2, FormatU64Is
        <5>2. some <=> n < Power(10, room - 1)
          <6>1. ASSUME NEW k \in 1 .. room - 1, n < Power(10, k)
                PROVE  n < Power(10, room - 1)
            <7> DEFINE j == room - 1
            <7>1. k \in Nat /\ j \in Nat /\ k <= j /\ 10 \in Nat \ {0}
              BY <3>2, <4>2
            <7> HIDE DEF j
            <7>2. Power(10, k) <= Power(10, j)
              BY <7>1, PowersGrow
            <7>3. Power(10, k) \in Nat /\ Power(10, j) \in Nat
              BY <7>1, Tens
            <7>4. n < Power(10, j)
              BY <3>2, <6>1, <7>2, <7>3
            <7>. QED  BY <7>4 DEF j
          <6>2. room - 1 \in 1 .. room - 1
            BY <3>2, <4>2
          <6>. QED  BY <6>1, <6>2
        <5>3. some \in BOOLEAN
          OBVIOUS
        <5> HIDE DEF r, some
        <5>4. CASE r = Failed /\ ~(n < Power(10, room - 1))
          <6>1. r.ok = FALSE
            BY <5>4 DEF Failed
          <6>. QED  BY <5>2, <5>3, <5>4, <6>1
        <5>5. CASE /\ n < Power(10, room - 1)
                   /\ \E t : r = [ok |-> TRUE, text |-> t] /\ TextOf(t, n) /\ Len(t) + 1 <= room
          <6>1. PICK t : r = [ok |-> TRUE, text |-> t] /\ TextOf(t, n) /\ Len(t) + 1 <= room
            BY <5>5
          <6>2. r.ok = TRUE /\ r.text = t
            BY <6>1
          <6>. QED  BY <5>2, <5>3, <5>5, <6>1, <6>2 DEF TextOf, Fits
        <5>. QED  BY <5>1, <5>4, <5>5 DEF Shown64
      <4>3. room = 0 \/ room > 1
        BY <3>2, <3>4
      <4> HIDE DEF r, some
      <4>. QED  BY <4>1, <4>2, <4>3
    <3> HIDE DEF r
    <3>. QED  BY <3>3, <3>4 DEF DigitsShown
  <2>. QED  BY <2>1, <2>2, <2>3, <2>4
<1>. QED  BY <1>1, <1>2, PTL DEF Spec

\* What base58_encode makes of an input that it does not refuse is decoded to
\* it, all its zeros included, in the code of the program and in every other
\* with room for it.
THEOREM Base58RoundTrips == Spec => []Base58RoundTrip
<1>1. Init => Base58RoundTrip
  BY DEF Init, Base58RoundTrip, NoCall
<1>2. Base58RoundTrip /\ [Next]_vars => Base58RoundTrip'
  <2>. SUFFICES ASSUME Base58RoundTrip, [Next]_vars  PROVE Base58RoundTrip'
    OBVIOUS
  <2>1. CASE UNCHANGED vars
    BY <2>1 DEF vars, Base58RoundTrip
  <2>2. CASE Next /\ ~Base58Encode
    BY <2>2, CallOf DEF Base58RoundTrip
  <2>3. CASE Base58Encode
    <3>1. PICK c \in Codes :
            \E in \in Inputs[c] :
              Evaluated([fn |-> "base58", code |-> c, in |-> in,
                         text |-> Encode(c, in, c.maxDec),
                         back |-> Decode(c, Encode(c, in, c.maxDec).out, c.maxEnc)])
      BY <2>3 DEF Base58Encode
    <3>2. PICK in \in Inputs[c] :
            Evaluated([fn |-> "base58", code |-> c, in |-> in,
                       text |-> Encode(c, in, c.maxDec),
                       back |-> Decode(c, Encode(c, in, c.maxDec).out, c.maxEnc)])
      BY <3>1
    <3> DEFINE text == Encode(c, in, c.maxDec)
               back == Decode(c, text.out, c.maxEnc)
    <3>3. Roomy(c) /\ in \in Seq(Byte(c.from)) /\ Len(in) <= c.maxEnc
      BY LibraryAssumption, RealIsRoomy DEF Encodable
    <3>4. text.ok /\ (Len(text.out) >= 2 => back = [ok |-> TRUE, out |-> in])
      BY <3>3, EncodedDecodes
    <3>5. call' = [fn |-> "base58", code |-> c, in |-> in, text |-> text, back |-> back]
      BY <3>2 DEF Evaluated
    <3> HIDE DEF text, back
    <3>6. call'.in = in /\ call'.text = text /\ call'.back = back
      BY <3>5
    <3>. QED  BY <3>4, <3>6 DEF Base58RoundTrip
  <2>. QED  BY <2>1, <2>2, <2>3
<1>. QED  BY <1>1, <1>2, PTL DEF Spec

---------------------------------------------------------------------------
(* The texts of addresses.                                                  *)

LEMMA DisplayedIs ==
  ASSUME NEW a \in Addresses, a[1] \in 1 .. 9, NEW stale
  PROVE  /\ DisplayAddress(a, stale).ok
         /\ DisplayAddress(a, stale).text = AddressText(a).out
         /\ Decode(Real, AddressText(a).out, AddressLen + 1).out = Append(a, Xor(a))
<1>1. a \in [1 .. AddressLen -> Byte(256)]
  BY LibraryAssumption
<1>2. PICK text \in Seq(Byte(58)) :
        /\ AddressText(a) = [ok |-> TRUE, out |-> text] /\ Len(text) = TextRoom
        /\ Decode(Real, text, AddressLen + 1) = [ok |-> TRUE, out |-> Append(a, Xor(a))]
  BY <1>1, AddressTextIs
<1> DEFINE rest == [k \in 1 .. TextRoom - Len(text) |-> stale]
<1>3. DisplayAddress(a, stale).ok /\ DisplayAddress(a, stale).text = text \o rest
  <2>1. AddressText(a).ok /\ AddressText(a).out = text
    BY <1>2
  <2>2. /\ DisplayAddress(a, stale).ok = AddressText(a).ok
        /\ DisplayAddress(a, stale).text
             = AddressText(a).out
               \o [k \in 1 .. TextRoom - Len(AddressText(a).out) |-> stale]
    BY DEF DisplayAddress
  <2>. QED  BY <2>1, <2>2
<1>4. rest = <<>>
  <2>1. TextRoom - Len(text) = 0
    BY <1>2 DEF TextRoom
  <2>2. 1 .. 0 = {}
    OBVIOUS
  <2>. QED  BY <2>1, <2>2
<1> HIDE DEF rest
<1>5. text \o rest = text
  BY <1>4
<1>. QED  BY <1>2, <1>3, <1>5

\* The addresses of the documentation are of such a chain, and base58 makes of
\* them what it says.
DocumentedTexts ==
  \A a \in DOMAIN Known : a[1] \in 1 .. 9 /\ AddressText(a).out = Known[a]

LEMMA AddressStep ==
  ASSUME ShowAddress
  PROVE  AddressDecodes' /\ (DocumentedTexts => AddressShown')
<1>1. PICK a \in Addresses, stale \in {0, 57} :
        Evaluated([fn |-> "address", address |-> a, result |-> DisplayAddress(a, stale)])
  BY DEF ShowAddress
<1> DEFINE r == DisplayAddress(a, stale)
<1>2. call' = [fn |-> "address", address |-> a, result |-> r]
  BY <1>1 DEF Evaluated
<1> HIDE DEF r
<1>3. call'.fn = "address" /\ call'.address = a /\ call'.result = r
  BY <1>2
<1>4. Head(a) = a[1]
  OBVIOUS
<1>5. a[1] \in 1 .. 9 => /\ r.ok /\ r.text = AddressText(a).out
                         /\ Decode(Real, r.text, AddressLen + 1).out = Append(a, Xor(a))
  BY DisplayedIs DEF r
<1>6. AddressDecodes'
  BY <1>3, <1>4, <1>5 DEF AddressDecodes
<1>7. ASSUME DocumentedTexts PROVE AddressShown'
  <2>1. a \in DOMAIN Known => r.text = Known[a]
    BY <1>5, <1>7 DEF DocumentedTexts
  <2>. QED  BY <1>3, <1>6, <2>1 DEF AddressShown
<1>. QED  BY <1>6, <1>7

\* The text that nuls_dispaly_address_to_encoded_base58 makes of an address of
\* one of the chains 1 to 9, whatever the other 22 bytes are, fills the 32
\* characters of its string, and can be decoded to the address and its check
\* byte.  So what is shown of an address is AddressShown, once base58 makes of
\* the documented addresses what it should, of which there are finitely many.
THEOREM AddressesAreShown ==
  /\ Spec => []AddressDecodes
  /\ DocumentedTexts => (Spec => []AddressShown)
<1>1. Init => AddressDecodes /\ AddressShown
  BY DEF Init, AddressDecodes, AddressShown, NoCall
<1>2. AddressDecodes /\ [Next]_vars => AddressDecodes'
  <2>. SUFFICES ASSUME AddressDecodes, [Next]_vars  PROVE AddressDecodes'
    OBVIOUS
  <2>1. CASE UNCHANGED vars
    BY <2>1 DEF vars, AddressDecodes
  <2>2. CASE Next /\ ~ShowAddress
    BY <2>2, CallOf DEF AddressDecodes
  <2>3. CASE ShowAddress
    BY <2>3, AddressStep
  <2>. QED  BY <2>1, <2>2, <2>3
<1>3. Spec => []AddressDecodes
  BY <1>1, <1>2, PTL DEF Spec
<1>4. ASSUME DocumentedTexts PROVE Spec => []AddressShown
  <2>1. AddressShown /\ [Next]_vars => AddressShown'
    <3>. SUFFICES ASSUME AddressShown, [Next]_vars  PROVE AddressShown'
      OBVIOUS
    <3>1. CASE UNCHANGED vars
      BY <3>1 DEF vars, AddressShown, AddressDecodes
    <3>2. CASE Next /\ ~ShowAddress
      BY <3>2, CallOf DEF AddressShown, AddressDecodes
    <3>3. CASE ShowAddress
      BY <1>4, <3>3, AddressStep
    <3>. QED  BY <3>1, <3>2, <3>3
  <2>. QED  BY <1>1, <2>1, PTL DEF Spec
<1>. QED  BY <1>3, <1>4
=============================================================================
