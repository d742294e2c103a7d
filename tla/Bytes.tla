------------------------------- MODULE Bytes -------------------------------
(***************************************************************************)
(* Numbers as bytes: common/read.c, common/write.c and uint_common.c.  A    *)
(* byte has any base, so that the words made of them can be small.          *)
(***************************************************************************)
EXTENDS Integers, Sequences, SequencesExt

Byte(base) == 0 .. base - 1

\* The powers of a base.
Power(base, n) ==
  LET power[k \in Nat] == IF k = 0 THEN 1 ELSE base * power[k - 1] IN power[n]

\* read_u16_le, read_u32_le, read_u64_le, of up to eight bytes, and
\* read_u16_be, read_u32_be, read_u64_be.
ReadLE(base, bytes) ==
  LET b(k) == IF k \in DOMAIN bytes THEN bytes[k] ELSE 0
  IN b(1) + base * (b(2) + base * (b(3) + base * (b(4) + base * (b(5)
     + base * (b(6) + base * (b(7) + base * b(8)))))))
ReadBE(base, bytes) == ReadLE(base, Reverse(bytes))

\* write_u16_le, write_u32_le, write_u64_le.
WriteLE(base, width, n) ==
  [k \in 1 .. width |-> (n \div Power(base, k - 1)) % base]
=============================================================================
