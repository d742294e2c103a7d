------------------------------ MODULE Uint256 ------------------------------
(***************************************************************************)
(* The numbers of common/uint128.c and uint256.c.  A uint256 is two         *)
(* uint128, and a uint128 two machine words; in the program a word has 64   *)
(* bits and a byte eight, and here they may have fewer.                     *)
(*                                                                          *)
(* The target of a sum or a difference may be its first operand: a half is  *)
(* stored once what depends on the operand's half has been computed.        *)
(***************************************************************************)
EXTENDS Bytes

CONSTANTS
  WordBase,    \* 2^64
  WordBits,    \* 64
  WordBytes    \* 8

ASSUME WordAssumption == WordBase \in Nat /\ WordBase > 1
ASSUME WordBitsAssumption ==
  /\ WordBits \in Nat \ {0} /\ WordBase = Power(2, WordBits)
  /\ WordBytes \in Nat \ {0} /\ WordBits % WordBytes = 0

ByteOfWord == Power(2, WordBits \div WordBytes)

Word == 0 .. WordBase - 1
U128 == [upper : Word, lower : Word]
U256 == [upper : U128, lower : U128]

\* What a number stands for.
Value128(x) == WordBase * x.upper + x.lower
Value256(x) == (WordBase * WordBase) * Value128(x.upper) + Value128(x.lower)
Modulus == (WordBase * WordBase) * (WordBase * WordBase)

Zero128 == [upper |-> 0, lower |-> 0]
One128 == [upper |-> 0, lower |-> 1]
Zero256 == [upper |-> Zero128, lower |-> Zero128]

\* A small number: the lowest word is set after clear256.
Small256(n) == [upper |-> Zero128, lower |-> [upper |-> 0, lower |-> n]]

---------------------------------------------------------------------------
(* readu256LE, readu256BE.                                                  *)

WordAt(bytes, k) == SubSeq(bytes, (k - 1) * WordBytes + 1, k * WordBytes)

Read256LE(bytes) ==
  LET w(k) == ReadLE(ByteOfWord, WordAt(bytes, k))
  IN [upper |-> [upper |-> w(4), lower |-> w(3)],
      lower |-> [upper |-> w(2), lower |-> w(1)]]

Read256BE(bytes) ==
  LET w(k) == ReadBE(ByteOfWord, WordAt(bytes, k))
  IN [upper |-> [upper |-> w(1), lower |-> w(2)],
      lower |-> [upper |-> w(3), lower |-> w(4)]]

---------------------------------------------------------------------------
(* Comparison.                                                              *)

Gt128(x, y) ==
  IF x.upper = y.upper THEN x.lower > y.lower ELSE x.upper > y.upper
Gt256(x, y) ==
  IF x.upper = y.upper THEN Gt128(x.lower, y.lower) ELSE Gt128(x.upper, y.upper)
Gte256(x, y) == Gt256(x, y) \/ x = y

---------------------------------------------------------------------------
(* Addition and subtraction.  Words wrap.                                   *)

Plus(a, b) == IF a + b < WordBase THEN a + b ELSE a + b - WordBase
Minus(a, b) == IF a - b >= 0 THEN a - b ELSE a - b + WordBase
Bit(c) == IF c THEN 1 ELSE 0

Add128(x, y) ==
  LET carry == Bit(Plus(x.lower, y.lower) < x.lower)
  IN [upper |-> Plus(Plus(x.upper, y.upper), carry), lower |-> Plus(x.lower, y.lower)]

Sub128(x, y) ==
  LET borrow == Bit(Minus(x.lower, y.lower) > x.lower)
  IN [upper |-> Minus(Minus(x.upper, y.upper), borrow), lower |-> Minus(x.lower, y.lower)]

\* With the lower half of the target, which is the first operand, stored before
\* the operand is compared.
Add256LowerFirst(x, y) ==
  LET lower == Add128(x.lower, y.lower)
      upper == Add128(x.upper, y.upper)
  IN [upper |-> IF Gt128(lower, Add128(lower, y.lower)) THEN Add128(upper, One128)
                                                        ELSE upper,
      lower |-> lower]

Add256(x, y) ==
  LET lower == Add128(x.lower, y.lower)
      upper == Add128(x.upper, y.upper)
  IN [upper |-> IF Gt128(x.lower, lower) THEN Add128(upper, One128) ELSE upper,
      lower |-> lower]

Sub256(x, y) ==
  LET lower == Sub128(x.lower, y.lower)
      upper == Sub128(x.upper, y.upper)
  IN [upper |-> IF Gt128(lower, x.lower) THEN Sub128(upper, One128) ELSE upper,
      lower |-> lower]

---------------------------------------------------------------------------
(* Shifts by less than the width of the number.                             *)

ShiftWordL(a, n) == (a * Power(2, n)) % WordBase
ShiftWordR(a, n) == a \div Power(2, n)

ShiftL128(x, n) ==
  IF n >= 2 * WordBits THEN Zero128
  ELSE IF n >= WordBits
  THEN [upper |-> ShiftWordL(x.lower, n - WordBits), lower |-> 0]
  ELSE IF n = 0 THEN x
  ELSE [upper |-> Plus(ShiftWordL(x.upper, n), ShiftWordR(x.lower, WordBits - n)),
        lower |-> ShiftWordL(x.lower, n)]

ShiftR128(x, n) ==
  IF n >= 2 * WordBits THEN Zero128
  ELSE IF n >= WordBits
  THEN [upper |-> 0, lower |-> ShiftWordR(x.upper, n - WordBits)]
  ELSE IF n = 0 THEN x
  ELSE [upper |-> ShiftWordR(x.upper, n),
        lower |-> Plus(ShiftWordL(x.upper, WordBits - n), ShiftWordR(x.lower, n))]

ShiftL256(x, n) ==
  IF n >= 4 * WordBits THEN Zero256
  ELSE IF n >= 2 * WordBits
  THEN [upper |-> ShiftL128(x.lower, n - 2 * WordBits), lower |-> Zero128]
  ELSE IF n = 0 THEN x
  ELSE [upper |-> Add128(ShiftL128(x.upper, n), ShiftR128(x.lower, 2 * WordBits - n)),
        lower |-> ShiftL128(x.lower, n)]

ShiftR256(x, n) ==
  IF n >= 4 * WordBits THEN Zero256
  ELSE IF n >= 2 * WordBits
  THEN [upper |-> Zero128, lower |-> ShiftR128(x.upper, n - 2 * WordBits)]
  ELSE IF n = 0 THEN x
  ELSE [upper |-> ShiftR128(x.upper, n),
        lower |-> Add128(ShiftR128(x.lower, n), ShiftL128(x.upper, 2 * WordBits - n))]

CountBits[x \in U128] ==
  IF x = Zero128 THEN 0 ELSE 1 + CountBits[ShiftR128(x, 1)]
Bits256(x) ==
  IF x.upper # Zero128 THEN 2 * WordBits + CountBits[x.upper] ELSE CountBits[x.lower]

OrWord(a, b) ==
  LET bit(n, k) == (n \div Power(2, k)) % 2
      or[k \in Nat] ==
        IF k = 0 THEN 0
        ELSE or[k - 1] + Power(2, k - 1) * Bit(bit(a, k - 1) + bit(b, k - 1) > 0)
  IN or[WordBits]
Or128(x, y) == [upper |-> OrWord(x.upper, y.upper), lower |-> OrWord(x.lower, y.lower)]
Or256(x, y) == [upper |-> Or128(x.upper, y.upper), lower |-> Or128(x.lower, y.lower)]

---------------------------------------------------------------------------
(* divmod256: the divisor is moved under the highest bit, and back.         *)

Start(l, r) ==
  LET n == Bits256(l) - Bits256(r)
      high == Gt256(ShiftL256(r, n), l)
      back(x) == IF high THEN ShiftR256(x, 1) ELSE x
  IN [mod |-> l, div |-> Zero256, copyd |-> back(ShiftL256(r, n)),
      adder |-> back(ShiftL256(Small256(1), n))]

DivStep(s) ==
  [mod |-> IF Gte256(s.mod, s.copyd) THEN Sub256(s.mod, s.copyd) ELSE s.mod,
   div |-> IF Gte256(s.mod, s.copyd) THEN Or256(s.div, s.adder) ELSE s.div,
   copyd |-> ShiftR256(s.copyd, 1), adder |-> ShiftR256(s.adder, 1)]

Divmod256(l, r) ==
  LET loop[s \in [mod : U256, div : U256, copyd : U256, adder : U256]] ==
        IF Gte256(s.mod, r) THEN loop[DivStep(s)] ELSE s
      result(s) == [div |-> s.div, mod |-> s.mod]
  IN IF Gt256(r, l) THEN [div |-> Zero256, mod |-> l] ELSE result(loop[Start(l, r)])

---------------------------------------------------------------------------
(* tostring256: digits, the last one first, then reversed; room is the size *)
(* of the string with its terminator.                                       *)

Failed == [ok |-> FALSE, text |-> <<>>]

ToString256(x, base, room) ==
  LET digit(s) == Divmod256(s.left, Small256(base))
      next(s) == [left |-> digit(s).div, out |-> Append(s.out, digit(s).mod.lower.lower)]
      loop[s \in [left : U256, out : Seq(0 .. 15)]] ==
        IF Len(s.out) > room - 1 THEN Failed
        ELSE IF digit(s).div # Zero256 THEN loop[next(s)]
        ELSE IF Len(s.out) + 1 > room - 1 THEN Failed
        ELSE [ok |-> TRUE, text |-> Reverse(next(s).out)]
  IN IF base < 2 \/ base > 16 THEN Failed ELSE loop[[left |-> x, out |-> <<>>]]
=============================================================================
