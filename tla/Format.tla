------------------------------- MODULE Format -------------------------------
(***************************************************************************)
(* Numbers as text: common/format.c, and the amounts and fees that          *)
(* ui/bagl_display.c makes of the numbers of Uint256.                       *)
(*                                                                          *)
(* A text is a sequence of digits and points, without its terminator.       *)
(***************************************************************************)
EXTENDS Uint256

CONSTANTS
  TextLen,        \* sizeof(text) and the temporary strings: 80
  UnitLen,        \* the characters of text in front of an amount: 5
  NulsDecimals    \* 8

\* The strings have room for every number, with a point, and for all decimals.
ASSUME FormatAssumption ==
  /\ TextLen \in Nat /\ UnitLen \in Nat /\ NulsDecimals \in Nat
  /\ TextLen > 2 /\ Modulus <= Power(10, TextLen - 2)
  /\ NulsDecimals + 3 <= TextLen
  /\ WordBase > 10 /\ WordBytes <= 8

Point == -1
Digits == 0 .. 9

\* With the terminator forgotten.
Full64WithoutTerminator(room, n) == n > room
Full64(room, n) == n > room - 1

\* format_u64 and format_size64 (which are alike): the last digit first, then
\* reversed.  A string of length 1 cannot hold a digit and its terminator; the
\* code only notices from the second digit on.
FormatU64(room, n) ==
  LET loop[s \in [left : Nat, out : Seq(Digits)]] ==
        IF s.left <= 9 THEN [ok |-> TRUE, text |-> Reverse(Append(s.out, s.left))]
        ELSE IF Full64(room, Len(s.out) + 2) THEN Failed
        ELSE loop[[left |-> s.left \div 10, out |-> Append(s.out, s.left % 10)]]
  IN IF room = 0 THEN Failed ELSE loop[[left |-> n, out |-> <<>>]]

---------------------------------------------------------------------------
(* format_decimals.                                                         *)

\* With every zero of the fraction taken for one at its end.
UpToFirstZero(digits) ==
  LET zeros == {k \in DOMAIN digits : digits[k] = 0}
  IN IF zeros = {} THEN digits ELSE SubSeq(digits, 1, Min(zeros) - 1)

\* The zeros at the end of the digits behind the point go.
WithoutZeros(digits) ==
  LET others == {k \in DOMAIN digits : digits[k] # 0}
  IN IF others = {} THEN <<>> ELSE SubSeq(digits, 1, Max(others))

\* The point goes if nothing is left behind it; zeros in front of the source's
\* digits stay.
WithFraction(whole, zeros, digits) ==
  LET behind == zeros \o WithoutZeros(digits)
  IN IF behind = <<>> THEN whole ELSE whole \o <<Point>> \o behind

FormatDecimals(src, room, decimals) ==
  IF src = <<0>>
  THEN IF room < 2 THEN Failed ELSE [ok |-> TRUE, text |-> <<0>>]
  ELSE IF Len(src) <= decimals
  THEN LET delta == decimals - Len(src)
       IN IF room < Len(src) + 1 + 2 + delta THEN Failed
          ELSE [ok |-> TRUE,
                text |-> WithFraction(<<0>>, [k \in 1 .. delta |-> 0], src)]
  ELSE LET delta == Len(src) - decimals
       IN IF room < Len(src) + 1 + 1 THEN Failed
          ELSE [ok |-> TRUE,
                text |-> WithFraction(SubSeq(src, 1, delta), <<>>,
                                      SubSeq(src, delta + 1, Len(src)))]

---------------------------------------------------------------------------
(* __conv_mount_2 and __conv_mount_1: the status of the two calls is not    *)
(* looked at.                                                               *)

ConvMount2(number, decimals) ==
  LET temp == ToString256(number, 10, TextLen)
  IN IF temp.ok THEN FormatDecimals(temp.text, TextLen, decimals) ELSE Failed

ConvMount1(amount, decimals) == ConvMount2(Read256LE(amount), decimals)

\* The amounts of one side, added as the parser comes to them.
SumOfAmounts(amounts) ==
  LET sum[k \in 0 .. Len(amounts)] ==
        IF k = 0 THEN Zero256 ELSE Add256(Read256LE(amounts[k]), sum[k - 1])
  IN sum[Len(amounts)]

\* __dsp_st_free_init: the fee.
FeeText(from, to) == ConvMount2(Sub256(SumOfAmounts(from), SumOfAmounts(to)), NulsDecimals)
=============================================================================
