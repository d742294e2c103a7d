------------------------------- MODULE Base58 -------------------------------
(***************************************************************************)
(* common/base58.c, and the texts that address.c makes of addresses.        *)
(*                                                                          *)
(* The two routines convert between two bases and are written for 256 and   *)
(* 58; here the bases are part of a code, a record with                     *)
(*   from, to    the two bases,                                             *)
(*   num, den    the room for a digit of the first, in digits of the second,*)
(*   maxEnc, maxDec   the longest inputs.                                   *)
(* A text is the sequence of its characters' places in the alphabet.        *)
(***************************************************************************)
EXTENDS Bytes

NoText == [ok |-> FALSE, out |-> <<>>]

LeadingZeros(s) ==
  LET others == {k \in DOMAIN s : s[k] # 0}
  IN IF others = {} THEN Len(s) ELSE Min(others) - 1

---------------------------------------------------------------------------
(* base58_encode.  The buffer is indexed from 0.  stop is where the carry   *)
(* of the last byte ended; behind the last digit it wraps, which is -1 here *)
(* and more than any index in the test below, and so is stop - 1 of 0.      *)

\* Stopping at the first digit that carries nothing.
CarriedEarly(j, stop, carry) == carry = 0
Carried(j, stop, carry) == carry = 0 /\ (stop <= 0 \/ j <= stop - 1)

\* The inner loop, from the last digit on, with what is carried behind each.
AddByte(code, digits, byte, stop) ==
  LET size == Len(digits)
      carry[i \in 0 .. size] ==
        IF i = 0 THEN byte
        ELSE (carry[i - 1] + code.from * digits[size + 1 - i]) \div code.to
      ends == {j \in 0 .. size - 1 : Carried(j, stop, carry[size - j])}
      kept == IF ends = {} THEN 0 ELSE Max(ends)
  IN [buffer |-> SubSeq(digits, 1, kept)
                 \o [k \in 1 .. size - kept |->
                       (carry[size - kept - k] + code.from * digits[kept + k]) % code.to],
      stop |-> IF ends = {} THEN -1 ELSE kept]

\* The room for so many digits of the first base.
Size(code, n) == (n * code.num) \div code.den + 1

\* A code with room for every input, and so is Real: 256 ^ 8 < 58 ^ 11 and
\* 256 ^ 120 < 58 ^ 164.
Roomy(code) ==
  /\ code.to \in Nat \ {0, 1} /\ code.from \in Nat /\ code.to <= code.from
  /\ code.den \in Nat \ {0} /\ code.num \in Nat /\ code.den <= code.num
  /\ code.maxEnc \in Nat /\ code.maxDec \in Nat
  /\ \A n \in 0 .. code.maxEnc : Power(code.from, n) <= Power(code.to, Size(code, n))
  /\ Power(code.from, code.maxEnc) <= Power(code.to, code.maxDec)

Encode(code, in, room) ==
  LET zeros == LeadingZeros(in)
      n == Len(in) - zeros
      size == Size(code, n)
      after[k \in 0 .. n] ==
        IF k = 0 THEN [buffer |-> [i \in 1 .. size |-> 0], stop |-> size - 1]
        ELSE LET last == after[k - 1]
             IN AddByte(code, last.buffer, in[zeros + k], last.stop)
      buffer == after[n].buffer
      j == LeadingZeros(buffer)
  IN IF Len(in) > code.maxEnc \/ room < zeros + size - j THEN NoText
     ELSE [ok |-> TRUE,
           out |-> [k \in 1 .. zeros |-> 0] \o SubSeq(buffer, j + 1, size)]

---------------------------------------------------------------------------
(* base58_decode.                                                           *)

\* The number in tmp, from digit k on, is divided by the first base.
DivideFrom(code, tmp, k) ==
  LET rem[i \in k - 1 .. Len(tmp)] ==
        IF i = k - 1 THEN 0 ELSE (rem[i - 1] * code.to + tmp[i]) % code.from
  IN [tmp |-> SubSeq(tmp, 1, k - 1)
              \o [i \in 1 .. Len(tmp) + 1 - k |->
                    (rem[k + i - 2] * code.to + tmp[k + i - 1]) \div code.from],
      rem |-> rem[Len(tmp)]]

\* The zeros at the front of what was computed go, those of the input stay.
Decode(code, in, room) ==
  LET zeros == LeadingZeros(in)
      loop[s \in [at : 1 .. Len(in) + 1, tmp : [DOMAIN in -> Nat], out : Seq(Nat)]] ==
        IF s.at > Len(in) THEN s.out
        ELSE LET d == DivideFrom(code, s.tmp, s.at)
             IN loop[[at |-> IF d.tmp[s.at] = 0 THEN s.at + 1 ELSE s.at,
                      tmp |-> d.tmp, out |-> <<d.rem>> \o s.out]]
      computed == loop[[at |-> zeros + 1, tmp |-> in, out |-> <<>>]]
      out == [k \in 1 .. zeros |-> 0]
             \o SubSeq(computed, LeadingZeros(computed) + 1, Len(computed))
  IN IF Len(in) > code.maxDec \/ Len(in) < 2 \/ room < Len(out)
        \/ \E k \in DOMAIN in : in[k] \notin Byte(code.to)
     THEN NoText ELSE [ok |-> TRUE, out |-> out]

---------------------------------------------------------------------------
(* address.c.                                                               *)

Real == [from |-> 256, to |-> 58, num |-> 138, den |-> 100,
         maxEnc |-> 120, maxDec |-> 164]

AddressLen == 23
TextRoom == 32

\* The bits of the result, read as a number.
XorByte(a, b) ==
  ReadLE(2, [k \in 1 .. 8 |-> (a \div Power(2, k - 1) + b \div Power(2, k - 1)) % 2])
Xor(bytes) ==
  LET xor[k \in 0 .. Len(bytes)] == IF k = 0 THEN 0 ELSE XorByte(xor[k - 1], bytes[k])
  IN xor[Len(bytes)]

\* The check byte over the hash only.
AddressTextOfHash(address) == Encode(Real, address \o <<Xor(Tail(address))>>, TextRoom)

\* nuls_address_to_encoded_base58; a text that does not fit is an exception.
AddressText(address) == Encode(Real, address \o <<Xor(address)>>, TextRoom)

\* nuls_dispaly_address_to_encoded_base58: the string ends behind TextRoom
\* characters, of which those that were not written are what they were.
DisplayAddress(address, stale) ==
  LET text == AddressText(address)
  IN [ok |-> text.ok,
      prefix |-> IF ReadLE(256, SubSeq(address, 1, 2)) = 9 THEN "NERVEe" ELSE "NULSd",
      text |-> text.out \o [k \in 1 .. TextRoom - Len(text.out) |-> stale]]
=============================================================================
