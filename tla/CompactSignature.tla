-------------------------- MODULE CompactSignature --------------------------
(***************************************************************************)
(* The signature of a personal message: crypto_sign_message(true), with     *)
(* format_signature_out.  The library writes r and s as DER integers, and   *)
(* the application turns them into r, s and a byte for the recovery.        *)
(*                                                                          *)
(* Numbers are their digits, the most significant first and not zero.  In   *)
(* the program DigitBase is 256 and NumberWidth is 32.                      *)
(***************************************************************************)
EXTENDS Integers, Sequences

CONSTANTS DigitBase, NumberWidth

ASSUME NumberAssumption ==
  /\ DigitBase \in Nat /\ DigitBase > 1 /\ DigitBase % 2 = 0
  /\ NumberWidth \in Nat \ {0}

Digit == 0 .. DigitBase - 1
Number == {d \in UNION {[1 .. n -> Digit] : n \in 1 .. NumberWidth} : d[1] # 0}

---------------------------------------------------------------------------
(* What cx_ecdsa_sign writes.  A DER integer is as short as possible, and    *)
(* starts with a zero if its first digit would make it negative.            *)

DerValue(d) == IF d[1] >= DigitBase \div 2 THEN <<0>> \o d ELSE d
DerInteger(d) == <<2, Len(DerValue(d))>> \o DerValue(d)
Der(r, s) ==
  LET body == DerInteger(r) \o DerInteger(s) IN <<48, Len(body)>> \o body

---------------------------------------------------------------------------
(* format_signature_out.                                                    *)

\* If a leading zero were not skipped.
PartWithZero(signature, x) == [at |-> x, len |-> signature[x]]

\* The part of the signature at offset x, in front of which stands its length:
\* xoffset and xlength once a leading zero has been skipped.
Part(signature, x) ==
  IF signature[x] = NumberWidth + 1 THEN [at |-> x + 1, len |-> NumberWidth]
                                    ELSE [at |-> x, len |-> signature[x]]

\* buff: what is copied into it, and what was on the stack before.  Its length
\* is buff_offset, which has been added to itself.
FormatSignatureOut(signature, stale) ==
  LET r == Part(signature, 4)
      s == Part(signature, r.at + r.len + 2)
      bytes(part) == SubSeq(signature, part.at + 1, part.at + part.len)
      copied == bytes(r) \o bytes(s)
  IN [k \in 1 .. r.len + r.len |-> IF k <= Len(copied) THEN copied[k] ELSE stale]

\* crypto_sign_message: the signature and, behind it, v, which is 27 and one
\* for the parity and two for an overflow of r.
SignMessage(r, s, v, stale) == Append(FormatSignatureOut(Der(r, s), stale), v)

---------------------------------------------------------------------------

\* A number as a field of the compact format.
Padded(d) == [k \in 1 .. NumberWidth - Len(d) |-> 0] \o d

\* Numbers that fill their field as DER integers.
Full(d) == Len(DerValue(d)) >= NumberWidth
=============================================================================
